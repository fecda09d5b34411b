# TLA+ verification of `clusteradm join` and `clusteradm get work`

This directory holds TLA+ models of the parts of clusteradm that carry
protocol and concurrency reasoning, the TLC configurations that check them,
and TLAPS proofs. The models follow the source in `src/` (line numbers below
refer to `src/unnamed/part_000`, which holds the join command, unless another
file is named), and the design in `spec.md`.

## The system and its parts

`clusteradm join` registers a managed cluster with a hub in two phases.

1. **Trust escalation** (`Options.complete`, `createExternalBootstrapConfig`,
   `createClientcmdapiv1Config`, `validate`, `setKubeconfig`; lines 61-170,
   336-416).
   - Check the required flags and the version bundle. Read `--ca-file` if it
     is given.
   - Build a bootstrap kubeconfig with `InsecureSkipTLSVerify: true` and
     connect to the hub with only the token.
   - When `--force-internal-endpoint-lookup` is set, ask the hub for its
     in-cluster endpoint (`GetAPIServer`). NotFound is tolerated; any other
     error aborts.
   - Build the secure config: TLS on, the supplied server, and as the CA
     either the `--ca-file` bytes or the hub's answer to the insecure
     `GetCACert`.
   - Look up the managed cluster's own API server. Errors and invalid hosts
     give "".
   - Run the preflight check on the secure config.
   - Only after the preflight, switch the server to the in-cluster endpoint
     and marshal the config.
2. **Rollout and readiness** (`Options.run`, the two wait functions; lines
   172-334).
   - Get clients, then apply the manifests in three applier calls.
   - Wait for the klusterlet CRD, skipped in a dry run.
   - With `--wait` and no dry run, call two condition waits in sequence. Each
     builds a client, starts a spinner that renders a shared `atomic.Value`
     phase, and runs `helpers.WatchUntil` on a pod watch. The watch carries
     a server-side `TimeoutSeconds` and a label selector. The predicate skips
     non-pod objects, stores the pod status in the phase, and is satisfied
     by a pod whose `Ready` condition is true.
   - Finally, write the output file.

The two phases interact only through the options: the trust phase fills
`o.values` (the kubeconfig, the klusterlet API server), which the applier
renders into the manifests. The cluster-side effect of those values lies
outside this repository. Everything runs on one goroutine except the
spinner, which reads the phase concurrently.

3. **`clusteradm get work [NAME] --cluster C`**
   (`src/pkg/cmd/get/work/exec.go`). `complete` rejects more than one
   argument and takes the name. `validate` checks the hub flags, the
   cluster name and the output format, in that order. `run` builds clients,
   Gets the ManagedCluster, Lists the cluster's ManifestWorks (with the
   field selector `name=<NAME>` when a name was given), and prints them. The
   tree and table converters build each entry from `getFileds`. That
   function takes the namespace, the number of manifests, and the status of
   the first `Applied` and `Available` conditions
   (`meta.FindStatusCondition`). The hub changes concurrently with the
   command.

The other files in `src/` are the accept, proxy and api option structs and a
ClusterRole manifest. They hold data and no behaviour, and are listed as not
modelled in `PROJECT.json`.

## Modules

| Module | Models | State | Actions |
|---|---|---|---|
| `JoinTrust` | trust escalation | options `o`, the hub's and managed cluster's cluster-info, step `pc`, `err`, `HubCADate`, the bootstrap config, `hubInClusterEndpoint`, `HubConfig`, the klusterlet API server, the marshalled `kubeConfig`, and `hubCalls`, the history of requests to the hub | `CompleteOptions`, `CreateBootstrapClient`, `LookupHubInClusterEndpoint`, `PinHubCA`, `LookupKlusterletAPIServer`, `Validate` (preflight + `setKubeconfig`) |
| `JoinRollout` | run() and both waits | flags, `stage`, current `target`, applied groups, `output`, `err`, pod readiness, the current watch's event sequence `stream` and read position, `streamOpen`, `spinner`, `phase`, the spinner's `shown` status | `GetClients`, `ApplyDirectly`, `ApplyDeployments`, `WaitUntilCRDReady`, `ApplyCustomResources`, `WaitClient`, `OpenWatch`, `Consume`, `WriteOutput`, `Render`; environment: `PodBecomesReady`, `Emit`, `EndWatch` |
| `JoinRolloutTimed` | `JoinRollout` with the API server's watch clock | `JoinRollout`'s state, plus the current watch's `deadline`, the seconds `elapsed` since it opened, and the seconds `waited` in all waits | `JoinRollout`'s steps, the Watch call starting a deadline (`StartClock`), `Tick`, and the server closing the watch only at its deadline |
| `ConditionWait` | what the two waits promise (spec section 4.3), abstract | `ready`, `wait` per pod (idle, waiting, ok, timeout, error) | `Begin`, `Return`, `BecomeReady` |
| `GetWork` | `get work` and the hub it reads | `args`, `o` (cluster, workName), the hub and printer flags' validity, step `pc`, `err`; hub: `managed`, `works`, `changes`; `calls` sent, the `snapshot` the List saw, `workList`, `output` | `Complete`, `Validate`, `BuildClients`, `GetCluster`, `List`, `ShowWorks` (each a `Command` step); hub: `HubApplyWork`, `HubDeleteWork`, `HubToggleCluster` |
| `TrustEscalation` | what the trust escalation promises (spec sections 4.2, 6, 7, 8), abstract | the `supplied` address and `explicit` CA bytes, the `calls` made to the hub, the secure `cred`, the `persisted` bytes, `status` (start, insecure, pinned, persisted, failed) | `Accept`, `Abort`, `Lookup`, `Pin`, `Check` |
| `JoinTrustProofs` | TLAPS proofs about `JoinTrust` | | |
| `JoinTrustRefinement` | TLAPS proof that `JoinTrust` refines `TrustEscalation` | | |
| `JoinRolloutTimedProofs` | TLAPS proofs about `JoinRolloutTimed` | | |
| `JoinRolloutProofs` | TLAPS proofs about `JoinRollout` | | |
| `JoinRolloutRefinement` | TLAPS proof that `JoinRollout` refines the safety part of `ConditionWait` | | |
| `GetWorkProofs` | TLAPS proofs about `GetWork` | | |
| `MCJoinTrust`, `MCJoinRollout`, `MCJoinRolloutTimed`, `MCGetWork` | TLC instances | | |

**The refinement mapping.** `JoinRollout` defines
`CW == INSTANCE ConditionWait WITH ready <- podReady, wait <- WaitMap`.
`WaitMap[t]` is `WaitOfIn(t, target, stage, err, WaitRequested)`:

- a wait is `waiting` while its target's watch is being opened or read;
- it is `error` or `timeout` when run() failed on its watch with that error;
- the operator wait is `ok` once run() moved on to the klusterlet;
- the klusterlet wait is `ok` once run() reached the output with `--wait`;
- otherwise it is `idle`.

Building a wait's client maps to `Begin`. A failed watch, an error event and
the close map to `Return` with `error` or `timeout`. A satisfied predicate
maps to `Return` with `ok`. A pod becoming Ready maps to `BecomeReady`.
Every other step is a stutter.

**The trust escalation's mapping.** `JoinTrust` defines
`TE == INSTANCE TrustEscalation WITH supplied <- o.hubAPIServer,
explicit <- HubCADate, calls <- hubCalls, cred <- HubConfig,
persisted <- kubeConfig, status <- TrustStatus`. `TrustStatus` maps `pc`:
`complete` is `start`; `bootstrap`, `lookup` and `trust` are `insecure`;
`klusterlet` and `validate` are `pinned`; `validated` is `persisted`;
`failed` is `failed`. Then:

- `CompleteOptions` is `Accept`, or `Abort` on missing input;
- `CreateBootstrapClient` and `LookupKlusterletAPIServer` stutter, or `Abort`;
- `LookupHubInClusterEndpoint` is `Lookup` with
  `--force-internal-endpoint-lookup`, and a stutter without it;
- `PinHubCA` is `Pin`;
- `Validate` is `Check`: the Preflight, then `setKubeconfig` and the marshal.

The contract lets the server become only the supplied address or an address
a `GetAPIServer` lookup returned. Spec step 4 says more (a switch only to a
resolved internal endpoint with `--force-internal-endpoint-lookup`); the
code does not do that, see the `join_server_switch` finding. The contract
states what the code does guarantee.

### How the models abstract the data

- **Addresses and CAs** are model values.
  - `Empty` is the empty string or empty byte slice; `Nil` is a Go nil.
  - The difference between them matters: `o.HubCADate != nil`, and yaml
    `omitempty` drops both (`MarshalCA`).
- **Hub answers** are chosen nondeterministically from what
  `helpers.GetAPIServer` and `GetCACert` can return for the cluster-info the
  hub holds: ok, NotFound, or an error. Those helpers are not under `src/`,
  so their answers are modelled from the spec.
- **Each request** records its operation, the server, whether TLS was
  verified, and the answer. The properties relate these records to the
  final config.
- **A watch** is the sequence of events the server has sent. There are five
  kinds: a Ready pod, a not-Ready pod, a non-pod object, an error, and the
  close at the deadline.
  - The server emits them in any interleaving with run()'s steps.
  - At most `MaxEvents` events come before the end.
  - Seconds are not counted: the server closes the watch at some point.
- **The phase** holds `NoStatus` (the `""` of `phase.Store("")`) or
  the status of the last pod the predicate saw.
- **ManifestWorks** are records of a name, a namespace (a cluster), 0 or 1
  manifests and a `status.conditions` list from `ConditionLists`. A
  condition is a type (Applied, Available, Progressing) and a status (True,
  False, Unknown). `Empty` is the `""` that `getFileds` leaves for a missing
  condition.
- **Printing** is abstracted to the set of entries the converters build:
  the tree and the table carry the same `getFileds` values.
- **The applier** is a step that succeeds, or fails after creating part of
  its files. In a dry run it renders without creating anything.

Every early `return err` of the code is a disjunct that sets the step to
`failed` with the error class. Logging and the printed hint are left out.

## Runs

| Run | Config | Checks | Shows |
|---|---|---|---|
| `join_trust` | `MCJoinTrust.cfg` | `TypeOK`, `CredentialPinned`, `TrustOrder`, `ErrorPolicy` | the written kubeconfig verifies TLS and pins the `--ca-file` bytes or the CA the hub sent; every request goes to the supplied address and never falls back to insecure; every fatal error is the last request and aborts the join, while NotFound from the endpoint lookup does not |
| `join_trust_steps` | `MCJoinTrustSteps.cfg` | `HubConfigSwitchedAfterPreflight` | every step that changes `HubConfig` is one of two: the pin, which builds a secure config for the supplied address, or the step after an answered Preflight, which keeps its CA and TLS |
| `join_trust_refines` | `MCJoinTrustRefines.cfg` | `TrustEscalationRefined` | `complete`, `validate` and the trust steps implement the abstract `TrustEscalation`: every request and every change of the credential is one the contract allows |
| `join_server_switch` | `MCJoinTrustServer.cfg` | `ServerSwitchedOnlyWhenResolved` (expected violation) | see the finding below |
| `join_rollout_refines` | `MCJoinRolloutWait.cfg` | `ConditionWaitRefined` | run()'s two waits implement `ConditionWait`, its fairness included: the klusterlet wait begins only after the operator wait succeeded, success comes only for a Ready pod, a returned wait never runs again, and every wait that began returns |
| `join_rollout_timed` | `MCJoinRolloutTimed.cfg` | `WaitsWithinBudget` | with `--timeout 2`, the two waits together block for at most 4 seconds: each watch gets its own deadline, and a timed-out wait is never retried |
| `join_zero_timeout` | `MCJoinRolloutZeroTimeout.cfg` | `WaitsWithinBudget` (expected violation) | see the findings below |
| `get_work` | `MCGetWork.cfg` | `TypeOK`, `OutputMatchesHub`, `RequestsOnlyWhenValid` | a successful `get work` printed exactly the works the hub held in the cluster's namespace when it answered the List (only the named one when a name was given), each with its first Applied/Available status, even when the hub changed between the Get, the List and the print; no request leaves an invalid command line |
| `join_rollout` | `MCJoinRollout.cfg` | `TypeOK`, `ReadinessObserved`, `TimeoutMeansNeverReady`, `Released`, `PhaseCurrent`, `Terminates` | a successful `--wait` join saw both pods Ready, in order; a timeout means no Ready event was sent on that watch; the spinner and watch are released on every path; the spinner never shows the previous wait's status; run() always returns |

**Bounds.**

- `join_trust` has two addresses, only one of them a valid API host, and two
  CAs. Every option combination is an initial state: missing token, name or
  registry; empty server; unknown bundle; a CA file, with or without an
  error; force. Every hub and managed-cluster cluster-info is one too: none,
  an empty server, no CA. That covers NotFound, the empty CA, a CA file that
  reads as zero bytes, and an invalid managed host.
- `join_rollout` and `join_rollout_refines` allow two events per watch.
  That is enough for a not-Ready pod or a non-pod object to come before a
  Ready pod, or before the close.
- `join_rollout_timed` uses a timeout of 2 seconds, so that events come
  before, between and after the ticks. A budget breach needs a third watch
  or a deadline overrun; both show within 2 seconds per watch. The zero run
  lets the server pick any deadline up to 3 seconds.
- `get_work` has two clusters, two work names and four condition lists:
  empty; one Applied True; Applied False before Applied True (the first
  must win); Available True before Applied Unknown. The hub makes up to two
  changes. That is enough to delete or rewrite a work, or remove the
  cluster, between the Get and the List. The command lines are every
  argument list of length 0 to 2, with or without a cluster.

**Fairness.** `Spec` of `JoinRollout` assumes weak fairness of run()'s steps:
a single goroutine that is not blocked keeps going. It also assumes weak
fairness of the server closing the watch: the API server ends every watch at
its `TimeoutSeconds`. Pod readiness and event delivery get no fairness,
because a cluster may never become ready. `Terminates` therefore says the
join returns, not that it succeeds.

`Spec` of `GetWork` has no fairness and no liveness property. The Get and
the List are sent with `context.TODO()` and no timeout. Nothing in the code
makes `get work` return if the hub never answers. Assuming that every
request is answered would make termination hold by the model's shape (each
step has an error branch), so the model claims only safety. The hazard is
listed without a property.
`ConditionWait` asks weak fairness of each wait's failed returns. Through
the mapping, that is the server closing the watch.

## Findings

`setKubeconfig` (line 407) sets the server to `o.hubInClusterEndpoint`
whenever the force flag is set. When `GetAPIServer` returned the tolerated
NotFound, that field is `""`, so the join persists a kubeconfig with an
empty server. Spec section 4.2 step 4 says the server is overwritten only if
the lookup resolved an address. TLC's counterexample: force is set, the hub
has no cluster-info, and the preflight passes.

`run()` passes `int64(o.ClusteradmFlags.Timeout)` to both waits (lines 218
and 225). Each wait sends it as the watch's `TimeoutSeconds` (lines 265 and
311), with no check. For `--timeout 0`, the API server treats the zero as
"no deadline requested" and picks its own. Spec section 4.4 bounds the two
waits by 2 × timeout, which for 0 would mean no wait at all. TLC's
counterexample (`join_zero_timeout`) is the operator wait's watch
blocking for a second under a zero timeout. The spec does not say what a
zero timeout means, so this is a gap in the spec rather than a
contradiction of the code.

## Proofs (TLAPS)

`JoinTrustProofs` proves, for all sets `Addr`, `ValidAddr`, `CA` under
`JoinTrustAssumption`:

- `InitIInv` and `NextIInv`: `IInv` is an inductive invariant.
- `TypeCorrect`: `Spec => []TypeOK`.
- `CredentialPinnedHolds`: `Spec => []CredentialPinned`.

`CredentialPinned` is not inductive on its own: it speaks only of
`kubeConfig`. `IInv` strengthens it by tying each step of `pc` to the state
built so far:

- after `complete`, the hub address is a real address;
- after the bootstrap, the bootstrap config is the insecure external one;
- from the pin onwards, `HubConfig` is secure and `PinnedCA` holds: its CA is
  the CA file, or the data of an answered `GetCACert` in the history;
- with a CA file, no `GetCACert` was ever sent;
- `kubeConfig` is empty, or it is `Marshal(HubConfig)` in step `validated`.

Lemmas cover the facts used in several places:

- `Append` keeps the old entries;
- answers, requests and marshalled configs are well typed;
- the bootstrap config is a config;
- `setKubeconfig` keeps TLS and the CA.

TLC also checked `IInv` as an invariant before it was proved.

The same module proves the request order and the error policy:

- `InitOrderInv` and `OrderNext`: `OrderInv` is inductive relative to `IInv`.
- `TrustOrderHolds`: `Spec => []TrustOrder`.
- `ErrorPolicyHolds`: `Spec => []ErrorPolicy`.

`TrustOrder` is not inductive: "no insecure request after a secure one" says
nothing about the next request, and `HubConfig` may leave the supplied
address only once the Preflight is answered. `OrderInv` states, for each
request in `hubCalls`:

- it went to `o.hubAPIServer`;
- it is secure exactly when it is the Preflight;
- a Preflight or a fatal answer is the last request, in step `validated` or
  `failed`.

It also ties `pc` to the history:

- `validated` follows an answered Preflight;
- a network failure follows a fatal last answer;
- before `validated`, `HubConfig` names the supplied address.

`OrderNext` has one step per action. The lemma `OrderAppend` covers the
three requesting actions: the lookup, the CA fetch and the Preflight.
`OrderOpen` says that before `validated` or `failed` no request is a
Preflight or fatal. `OrderQuiet` covers the actions that send nothing.
`IInv` supplies the types and the secure pinned `HubConfig`.

`JoinRolloutProofs` proves, for every `MaxEvents \in Nat \ {0}`:

- `InitRInv` and `NextRInv`: `RInv` is an inductive invariant. `RInv` is
  `TypeOK /\ StageInv /\ WatchInv /\ TimeoutMeansNeverReady`.
- `RolloutTypeCorrect`: `Spec => []TypeOK`.
- `ReleasedHolds`: `Spec => []Released`.
- `TimeoutMeansNeverReadyHolds`: `Spec => []TimeoutMeansNeverReady`.
- `ReadinessObservedHolds`: `Spec => []ReadinessObserved`.
- `PhaseCurrentHolds`: `Spec => []PhaseCurrent`, from `RInv /\ PhaseInv`.

The properties are not inductive as stated. Each conjunct of `RInv` fills
a gap:

- `StageInv` ties `stage` to the error, the watch, the spinner and the
  flags. Before the waits the target is the operator. A wait runs only when
  `--wait` is set without a dry run. The klusterlet wait runs only once the
  operator pod is Ready. `write` and `done` after a wait mean both pods are
  Ready.
- `WatchInv` says three things about the watch:
  - an error or a close is only ever the last event of a watch;
  - while the stream is read, every Ready event was sent for a Ready pod;
  - every event read so far was not Ready and was not an end.

  This gives `TimeoutMeansNeverReady`. The close that `Consume` reads is
  the last event, and every earlier one was read without success.

The proof has one lemma per conjunct (`TypeNext`, `StageNext`, `WatchNext`,
`TimeoutNext`), with one step per action. Step lemmas cover the
helpers: `ApplyStep`/`ApplyIfStep` for the applier, `ConsumeStep` for
`WatchUntil`, `OutcomeCases` for the predicate and `PodStep` for a pod
becoming Ready. TLC checked `RInv` as an invariant before it was proved.

`PhaseCurrent` speaks of `shown`, which `Render` copies from `phase`. So
`PhaseInv` says of both that, while the spinner runs, each is the empty
status or the status of a pod event read from the current watch
(`SeenStatus`). A fresh wait resets both, so nothing carries over. Reading
an event only extends the prefix read so far. Appending an event keeps
every index already read (`PhaseAppend`). `StageInv` ties the spinner to
the wait stages, which is why `PhaseNext` assumes `RInv`.

`JoinRolloutRefinement` proves the safety part of the refinement:

- `RefinementInit`: `Init => CW!Init`;
- `RefinementStep`: `RInv /\ [Next]_vars => [CW!Next]_CW!vars`;
- `RefinementSafety`: `Spec => CW!Init /\ [][CW!Next]_CW!vars`.

The step needs `RInv`, not just the types. `StageInv` says that before
the waits the target is the operator, so neither wait has begun. It also
says that a wait stage implies `--wait`, so the operator's success moves on
to the klusterlet wait. `WatchInv` makes the Ready event that satisfies the
predicate a Ready pod, as `Return(t, "ok")` requires. `WaitOfIf` rewrites
the CASE of `WaitOfIn` as an IF chain; its arms are disjoint. The lemmas
`SetupStep`, `WaitClientStep`, `WaitErrorStep` and `WaitOkStep` give the
abstract step of each group of actions.

`GetWorkProofs` proves `RequestsOnlyWhenValidHolds`:
`Spec => []RequestsOnlyWhenValid`, for all clusters, work names and bounds.
It uses the inductive invariant `ReqInv`. `RequestsOnlyWhenValid` itself
is not inductive, because the step from `getCluster` sends the first
request. `ReqInv` adds three facts:

- every step of `run` is reached only from a valid command line;
- nothing was sent during `complete` and `validate`;
- `validate` is reached only with at most one argument.

`GetWorkProofs` also proves what `get work` prints:

- `GetWorkTypeCorrect`: `Spec => []TypeOK`.
- `OutputMatchesHubHolds`: `Spec => []OutputMatchesHub`.

Both rest on the lemma `FindStatusConditionIsFirst`: for every list `c` and
type `t`, `FindStatusCondition(c, t) = FirstOfType(c, t)`. `FirstOfType` is
the form the expected rows are stated in. The lemma relates two models of
the library function `meta.FindStatusCondition`, which is not under `src/`.
It is not a claim about `exec.go`. What it makes possible is stating the
expected rows without recursion.

`FindStatusCondition` is a recursive function, `find`, defined in a LET.
The provers read `find` as `CHOOSE f : f = FindBody(c, t, f)`
(`FindIsChoose`). The proof uses no induction:

1. `Witness` maps each index `i` to the first condition of the type at or
   after `i`. `WitnessSolves` shows it satisfies the equation.
2. `FindUnique` shows nothing else does. A solution that differed from the
   witness would differ at a greatest index. There both are determined by
   the next index, where they agree.
3. The greatest and least indexes come from `WFMin` of WellFoundedInduction
   applied to `<` on `Nat` (`LeastNat`, `GreatestIndex`). That is a fact
   about sets, with no operator parameter.

The constant assumption `ConditionListsAssumption` says each list of
conditions is a sequence of `Condition`, which is what
`[]metav1.Condition` is.

`OutputMatchesHub` is not inductive. `OutInv` adds four facts:

- `TypeOK`;
- the work name `complete` stored is the argument's (`ArgName`);
- the List's answer is the snapshot filtered by namespace and that name;
- what was printed is `ConvertList` of that answer.

`RowOf` turns `getFileds` into the expected row. TLC checked `OutInv` on
the `get_work` instance before it was proved.

`JoinTrustProofs` proves the action property
`HubConfigSwitchedAfterPreflightHolds`:
`Spec => HubConfigSwitchedAfterPreflight`. Its extra invariant is
`Unpinned`: `HubConfig` is Nil before the pin. With `IInv`, the lemma
`HubConfigStepNext` shows every step is a `HubConfigStep` or a stutter.

`JoinTrustRefinement` proves the refinement:

- `RefineInit`: `Init => TE!Init`.
- `RefineStep`: `IInv /\ LookupInv /\ [Next]_vars => [TE!Next]_TE!vars`.
- `TrustEscalationRefinedHolds`: `Spec => TrustEscalationRefined`.

`IInv` gives the types and the pinned CA. `LookupInv` says that with
`--force-internal-endpoint-lookup`, from `trust` onwards, the lookup has
resolved the endpoint. That makes the `setKubeconfig` switch a `Check` to
an address a lookup returned. TLC checked `LookupInv` before it was proved.

`JoinRolloutTimedProofs` proves, under `PositiveTimeout` (`Timeout > 0`):

- `WaitsWithinBudgetHolds`: `TSpec => []WaitsWithinBudget`.
- `TimedRefinesRollout`: `TSpec => Init /\ [][Next]_vars`. The clock only
  restricts the join, so every safety theorem of `JoinRolloutProofs` holds
  of the timed model too.

The inductive invariant `BudgetInv` bounds three things:

- the open watch's `elapsed` by its `deadline`, at most `Timeout`;
- `waited` by `Spent`, the whole operator budget once the klusterlet wait
  began, before a watch is open;
- `waited` by `elapsed + Spent` while it is open.

`PositiveTimeout` is needed: with `--timeout 0` the server picks the
deadline, which the `join_zero_timeout` finding shows exceeds the budget.

**Out of the provers' reach, and checked by TLC only:**

- liveness (`Terminates` of `JoinRollout`), because it needs fairness and
  ENABLED;
- the fairness part of `ConditionWaitRefined`, which is liveness.

Every safety property of every passing run is proved for all values of the
constants.

## What is not modelled

- The cluster-side effect of the applied manifests.
- The version bundle contents.
- Printing and the spinner's output format.
- The seconds outside the waits. `JoinRolloutTimed` counts only the time
  run() is blocked on an open watch. The deadline the server picks for a
  zero timeout is bounded by `MaxServerDeadline`; in the real server it
  is a random time of the order of tens of minutes.
- The option structs of accept (`src/pkg/cmd/accept/options.go`), proxy
  (`src/pkg/cmd/proxy/service/options.go`) and api. They are a struct, a
  constructor that stores the flags and streams, and for proxy a
  `validate` that returns nil. None of them changes state, and the code
  that would use them is not in this snapshot.
- `get work`'s formatting: the tree's keys, the table's column
  definitions and the output format flags. The properties compare entries,
  not their layout.
- Whether the API server supports the `name=<NAME>` field selector on
  ManifestWorks. The model assumes it does (hazard listed).

## Plan

1. **Done:** `JoinTrust` with its proofs, and `JoinRollout`.
2. **Done:** `JoinRolloutProofs`, with `TypeOK`, `Released`,
   `TimeoutMeansNeverReady` and `ReadinessObserved` for every bound.
   `PhaseCurrent` is proved too, and so are `TrustOrder` and `ErrorPolicy`
   in `JoinTrustProofs`.
3. **Done:** the abstract `ConditionWait`, the refinement run, and the
   TLAPS proof of its safety part.
4. **Done:** `GetWork`, with `RequestsOnlyWhenValid`, `OutputMatchesHub`
   and `TypeOK` proved.
   **Next:** a model of the hub's field-selector semantics, if a
   server-side component is ever added to `src/`.
5. **Done:** `JoinRolloutTimed`, the watch clock and the timeout budget of
   the two waits, with `WaitsWithinBudget` proved for every positive timeout.
6. **Done:** the abstract `TrustEscalation`, its refinement run, and the
   TLAPS proof of the refinement.
