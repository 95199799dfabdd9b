# A verification model of the AxonOps operator

The operator turns Kubernetes custom resources into two kinds of things:
workloads of an AxonOps installation inside the cluster (`AxonOpsPlatform`), and
objects of an AxonOps server reached over its REST API (alert rules, integrations,
healthchecks, backups, Kafka topics, ...). This directory models its controllers in
TLA+, checks the models with TLC and proves what matters most with TLAPS. Every
definition follows the Go source; where a document, a comment or a test says
something the code does not do, a run shows it (see *Disagreements*).

## 1. The system

| component (source under `src/internal/`) | state | operations | what is hard | what makes it correct |
|---|---|---|---|---|
| Kubernetes around a controller (external) | the resource, informer cache, workqueue, timers | read from the cache, update by resourceVersion, watch events, requeue, restart | stale reads, conflicts, events in the middle of a pass, a crash anywhere | – |
| `controller/alerts/axonopsmetricalert` | finalizer and status of the resource; one rule on the server | sync, drift check, deletion | the only link to the rule is an id in the status; failures after the call took effect; edits during a sync; edits of the cluster the rule is in; reports of a failure that fail themselves | *Ready* means pushed; no rule without an owner; a deleted resource takes its rule along; the last spec wins |
| `controller/axonopsplatform` – lifecycle | finalizer, status; four workloads, certificates, TLS secrets | deploy, clean up, two gates, pause, delete | many calls per pass, each may fail; order of start; other controllers act meanwhile | workloads start in order; never idle before the spec is applied; pause is respected; deletion always completes |
| `controller/axonopsplatform` – credentials | auth and keystore secrets, retention by StorageClass | generate, retain, release | secrets outlive the resource, the volumes, or neither | a database's password fits its volume |
| `controller/common/connection` | `AxonOpsConnection`, its secret, the pause flag | resolve a client | nothing watches the connection | a resource skipped for it is looked at again or says so |
| `controller/alerts/axonopsalertendpoint`, `alertroute` | integrations and routes of a cluster | create, find by name, route, override | two controllers that share a list and know nothing of each other; ids change under a route | nothing leaves but by its owner; routes come back |
| `controller/alerts/axonopslogalert` | as metric alert | as metric alert | as metric alert | as metric alert |
| `controller/alerts/axonopshealthcheck{http,tcp,shell}` | one document per cluster | read, change, write all | three controllers, no version check | no check is lost |
| `controller/alerts/axonops{silencewindow,scheduledrepair}`, `controller/backups` | an object with an id of the operator or of the server | delete and recreate | failure between the two; ids found by tag | the object of the last spec and no other; a gap closes |
| `controller/alerts/axonopscommitlogarchive` | archive settings of datacenters | clear, then post | no id; a refused post after the clearing | *Ready* means stored; other datacenters are left alone |
| `controller/alerts/axonopsadaptiverepair` | one settings object per cluster | compare, write | two resources for one cluster | the settings of a single resource come to rest |
| `controller/alerts/axonops{logcollector,dashboardtemplate}` | list-shaped documents, a ConfigMap | find, replace, write all | the whole list goes back; drift by presence only | the entries of others stay |
| `controller/kafka/*` | topic, ACL, connector | create once, update config | a create whose answer is lost; no id, no drift check | what the operator did not make is left alone; *Ready* means pushed |
| `axonops/client` | none | HTTP calls, error classes | 5xx is retryable, all else is not | – |
| `metrics`, `cmd/main`, `cmd/axonops-export`, `api/` | none worth a model | | | |

One worker serves each controller, so a controller runs one reconciliation at a
time; different controllers run concurrently and meet in the API server and on the
AxonOps server.

## 2. Modules

| module | models | state and actions |
|---|---|---|
| `KubeObject` | what Kubernetes does around one resource | `cr`, `cache`, `obj` are the resource in the API server, in the informer and in the hands of `Reconcile`; `cacheFresh` and `objFresh` replace resourceVersion; `queued` and `timer` are the workqueue. Operators for reads, writes, edits, deletion, restart; `left` is a budget of disturbances. |
| `KubeObjects` | the same around several resources | each variable of `KubeObject` for each resource (flags become sets: `stale`, `behind`, `queued`, `timers`), the connection, and one worker per kind of resource |
| `MetricAlert` | `AxonOpsMetricAlertReconciler`, `AxonOpsLogAlertReconciler` and the rule API | `pc` cuts `Reconcile` at each API call and each read or write of the resource; `rules[t][i]` is the generation rule `i` of cluster `t` was built from, `place[g]` the cluster the g-th spec names; `newId` and `syncGen` are the local variables that live across a cut |
| `Mirror` | what every mirroring controller promises of one resource (abstract) | `life` and `gen` of the resource, the spec being `sent`, the spec the status makes a `claim` for |
| `Recreate` | the silence window, scheduled repair and backup reconcilers | as `MetricAlert`; `setup` chooses the controller (`flavour`), what each edit asks for (`plan`) and in which cluster (`place`), and the budget; `objects[t][i]` is the generation object `i` of cluster `t` was built from; a sync is a DELETE, a POST and, for a repair, a search by tag |
| `Kafka` | the topic, connector and ACL reconcilers | `entries[n]` says who made the entry called `n` (a name stands for a cluster and the name of a topic or connector in it, for an ACL for all its fields), `config[n][k]` which edit set a key of it; `setup` as in `Recreate` |
| `Healthchecks` | the three healthcheck reconcilers and the document of each cluster | each variable maps resources to what `MetricAlert` holds for one; `kind[c]` names the controller of `c`, `got[c]` the document its GET returned, `doc[t]` the one of cluster `t` on the server |
| `Integrations` | the alert endpoint and alert route reconcilers | `defs[t]` are the definitions of cluster `t` by id, `routings` the triples of a cluster, a slot (route type and severity) and an id, `overrides` the slots of a cluster that override the global route; `found[c]` are the locals between the lookup of a name and the use of the id |
| `Documents` | the log collector, dashboard template, commitlog archive and adaptive repair reconcilers | `doc` maps the parts of the document to values, `got[c]` is the list a GET returned, `sync[c]` what is being pushed, `configMap` what a dashboard is read from |
| `Platform` | `AxonOpsPlatformReconciler` without credentials, ingresses, gateways | `sts[w]` is the generation workload `w` was built from, `pods[w]` the one its pods run, `ready` the workloads reported ready, `certs` and `tls` the Certificates and their secrets; the actions follow `Reconcile` top to bottom |
| `Credentials` | the credentials of one database of an `AxonOpsPlatform` | `auth` and `keystore` are the secrets with their owner, `authSeen` the informer's copy, `sts`, `pods` and `volume` the passwords the database was given and started with, `workload` the secret the server refers to |
| `MetricAlertProofs`, `RecreateProofs`, `KafkaProofs`, `HealthchecksProofs`, `DocumentsProofs`, `IntegrationsProofs`, `PlatformProofs`, `CredentialsProofs` | theorems | the inductive invariants and their proofs |
| `MC...` | constants for the runs | budgets, plans of edits, fleets of resources |

A *generation* stands for the spec submitted by the g-th edit. In `Platform` and
`Credentials` the constant `Plans` says what each generation asks for, elsewhere the
setup does; in `MetricAlert` the contents do not matter. Definitions marked *Mutant*
in a comment are not part of any specification: they are slips in the code that the
properties would catch.

`Healthchecks`, `Integrations` and `Documents` compose controllers that meet on the
AxonOps server. `Integrations` and `Documents` extend `KubeObjects`; `Healthchecks`
came first and carries its own copies of those operators. Its definitions stand for
the HTTP, TCP and shell controller alike (the code differs in names and in the fields
of an entry); the map names the HTTP controller for the main path, the TCP one for
the drift check and the shell one for the deletion. In the same way the steps of
`MetricAlert` are mapped to the metric alert and its larger parts (`Admit`,
`CheckDrift`, `Push`, `HandleDeletion`) to the log alert, whose code is the same but
for the panel lookup.

Cluster controllers (`Issue`, `Roll`, `BecomesReady`, `Collect`, ...), the garbage
collector, the kubelet and the operators of `KubeObject` and `KubeObjects` are
external: they are modelled from how the code uses them.

### The abstract specification

`Mirror` is four variables: nothing is sent for a resource the operator does not
hold, the status claims the newest spec only in the step that ends the sending of
that spec, and a held resource goes away only after the user has deleted it.
`MetricAlert` instantiates it with

| `Mirror` | in `MetricAlert` |
|---|---|
| `life` | the resource is live or gone, has the finalizer, is being deleted |
| `gen` | its generation |
| `sent` | the generation between POST and status update (`Sending`) |
| `claim` | the generation a *Ready* status without *Failed* observes (`Claimed`) |

and `Mirrors == M!Spec` is checked by `alert_all` and proved by `ImplementsMirror`.
It would be violated by a controller that syncs before it holds the finalizer,
stamps the re-fetched generation, or claims what an earlier pass pushed.

`Recreate` and `Kafka` implement it in the same way, `Healthchecks` and `Documents`
once per resource (`M(c)`, `Mirrors == \A c : M(c)!Spec`): what a controller shares
with its neighbours does not show in what it promises of each resource. In `Recreate`
and `Documents` the sending takes several calls, in `Recreate` with nothing on the
server between two of them. These four refinements are proved; TLC takes no property
under a quantifier, so no run repeats them (with the quantifier moved inside, as
initial condition and action property, it agreed with them on the constants of the
runs). `Integrations` does not implement
`Mirror`: it records the generation of the re-fetched copy, so that an edit made
during a sync is claimed without having been sent (see *Disagreements*).

### Abstractions a reader should know

* Conditions carry no messages or reasons. Where a message alone can make a new
  version of the resource, `TryReport` allows both outcomes.
* A *cluster* of a model is what a spec names by `connectionRef`, `clusterName` and
  `clusterType` together: the three can be edited, and select the URL of every call.
  In `MetricAlert`, `Healthchecks`, `Recreate` and `Integrations` an edit may move a
  resource to another cluster (`place`), and each call goes to the cluster the spec in
  hand names. All clusters share one state of the connection, so a move to a
  connection in another state is a move and a `ConnChanges`. In `Kafka` the cluster is
  part of the name. In `Documents` edits keep the cluster.
* A write of the resource that fails is one of three things. A conflict comes of a copy
  that is out of date. `WriteFails` (`MetricAlert`, `Recreate`; disturbance `kube`) is
  any other error of a write whose error the code returns: the pass ends in a back-off
  and has changed nothing. `TryReport` and `Report` are the status updates that tell of a
  failure, whose error is only logged (disturbance `report`): the status stays as it
  was and the pass returns what it would have returned. In `KubeObjects`
  (`Integrations`, `Documents`) `report` is a switch: with it any number of reports may
  be lost. There, in `Healthchecks` and in `Kafka`, a write whose error is returned
  fails by conflict only, and in `Healthchecks` so do reports. In `Platform` and
  `Credentials` any write may fail.
* `MetricAlert`: `ResolveAPIClient` is its outcome (`up`, `paused`, `broken`).
  A failing call may or may not have had its effect on the server.
* `Platform`: an edit changes every component, so each generation rolls every
  workload. Pods disappear with their workload at once. `TimeSeriesMode` and
  `SearchMode` are left out of the conditions; services, config maps and service
  accounts follow their workload. Within one component a pass may fail before,
  between or after the calls that matter. A missing cert-manager and a ClusterIssuer
  that cannot be created are one action, `IssuerFails`.

* `Healthchecks`: a PUT takes effect when it is sent or not at all, also when its
  answer is lost; a request that the server carries out after the operator has
  restarted is not modelled. Ids are unique, an entry without an id does not
  occur, and the console deletes only entries of resources: `HandMade` is the entry
  nobody touches but the PUTs; every cluster has one. The errors of the
  Kubernetes API are conflicts.
* `Recreate`: the tag of a repair does not change (an edit of the tag makes the
  lookup find less), and it is the only resource with that tag. The server stores a
  POST at once, and stores a backup under the id it was sent with. What the three
  controllers share is one definition; the map names one of the three for each.
* `Kafka`: the cluster refuses to create a topic or connector that exists and takes an
  ACL that exists as it is; partitions and replication are left out, as no later call
  carries them. A 200 answer with an error in its body is one of the final errors.
* `Integrations`: the server either drops the routes of a definition it deletes or
  keeps them (`strict`); both are checked. Names of integrations are those of the
  specs; two definitions may have the same name and the lookup takes the first of
  them (any). The errors of the Kubernetes API are conflicts, failed reads and lost
  reports.
* `Documents`: a setup has resources of one kind, as the kinds share no document.
  No two log collectors name the same file, so that the UUID in the status can
  stand for the file name. Contents are numbers; the ConfigMap counts as one value.
  The errors of the Kubernetes API are conflicts, failed reads and lost reports.
* `Credentials`: one database, TimeSeries and Search being twin code; a password is a
  number and its hash the number itself. A volume keeps the password its database
  first started with. The referenced secret always exists. A platform is deleted with
  all it owns by the garbage collector, at any later time. Pausing, certificates and
  conditions are in `Platform`, which in turn takes credentials for granted.

## 3. Runs

All runs set `CHECK_DEADLOCK FALSE`: when nothing is scheduled and the user is done,
an operator rests. There is one passing run per component; it carries the type
invariant, the safety properties and the liveness of that component.

| run | question | bounds |
|---|---|---|
| `alert_all` | does it implement `Mirror`; does *Ready* mean pushed; is anything left that nobody will look at; who can orphan a rule; does the last spec reach a server that answers; does a deleted resource go | 2 specs in one cluster or in two, 6 ids, all connection states; a crash, a stale read and a deletion by hand, or two or three kinds of failures with changes of the connection, a failed write or a lost report |
| `platform_all` | are workloads started in order; is the operator never idle short of the spec; does a pause hold; is the last valid spec deployed and a deleted platform gone | external to internal, paused–running–paused, invalid–paused–invalid; a failed call with a stale read or a crash, or an unready pod |
| `credentials_all` | does the password of a retained volume survive; is a password ever replaced unasked; do database, server, secrets and their owners end up as asked | eleven histories of at most three specs (off and on, external and back, block removed, deleted and created again, password given later, other StorageClass), each with one fault of any kind |
| `healthchecks_all` | one controller: does *Ready* mean that the document has the spec, what leaves the document, what is orphaned; two: does the foreign entry stay, does a lost entry come back, do deleted resources go | two resources, 2 specs in one cluster or in two, 9 ids; of one kind with two or three kinds of events, of two kinds with one or two |
| `recreate_all` | does *Ready* mean pushed, who can orphan an object, does a gap between DELETE and POST close, does the last spec win, do deleted resources go | 2 specs (object to object, to none, to invalid, and back; in one cluster or in two), 8 ids; per controller two or three kinds of disturbances at a time, failed writes and lost reports among them |
| `kafka_all` | does *Ready* mean pushed; which entries lose their resource, and by what; is an entry of somebody else ever touched but by a rename; does an ACL always get there; do deleted resources go | 2 specs of one name or two, with and without a key, names that are taken before and after a rename; one to four kinds of disturbances |
| `integrations_all` | does anything leave the server but by its owner; what is orphaned; do endpoints and routes end up in place although their ids change under each other | two resources: an endpoint and its route, two routes of one integration, an integration of the console of the same name, an endpoint and a route that move to another cluster; one to three kinds of events; a server that drops routes and one that keeps them |
| `documents_all` | does *Ready* mean stored; are the parts of others left alone; does every resource end up in place or say why not, unless that report was lost | two resources of a kind with a third part nobody or the other one asks for; edits that widen, narrow, rename or spoil; one to three kinds of events |
| `alert_retry`, `platform_certificate`, `healthchecks_lost`, `credentials_reference` | see *Disagreements* | two specs, at most one fault (`healthchecks_lost`, `credentials_reference`: none) |

The bounds are small because every hazard needs few actors: one or two resources, one
earlier and one later spec (a third only for pause–resume–pause and off–on), and one
fault of a kind at any point of a pass. `MaxId` ends a behaviour by running out of new
ids; in the liveness properties a sync that found no id left could never converge, so
that `Converges` holds shows that no behaviour is cut short.

### Fairness

`FairSpec` assumes that the worker keeps running (`WF(Reconcile)`), that the watch
delivers and that timers fire: controller-runtime guarantees the three as long as
the process lives, and budgets bound how often it dies. The periodic resync of ten
hours is possible but never relied upon, users and faults are never obliged to act.
`Platform` adds fairness of cert-manager, of the garbage collector and of the
replacement of pods, and that pods with all they need become ready.
`Credentials` does so too, with the informer of Secrets. `Healthchecks`, `Integrations`
and `Documents` ask strong fairness of `Fetch`: resources of one kind share a worker,
whose queue is first in, first out, so each gets its turn. Lost healthchecks return
because only a resource that misses its own entry or has a new spec PUTs, and the last
of two overlapping PUTs always leaves its own entry in.

What the liveness properties leave out, because the code does: `Converges` of
`MetricAlert`, `Recreate` and `Kafka` hold while the API answers and the connection
stays up (otherwise a resource may stay behind, see *Disagreements*; the remaining
budgets serve the deletion), of `Recreate` for silences and backups only (a repair may
be mistaken for an older one by its tag), and of `Kafka` for ACLs only. After a final
refusal nothing tries again, and when the report of it was lost the status does not tell
either: `GapsClose` and `Converges` of `Documents` leave such a resource out, while
`NeverSilentlyIdle` says of an alert that there is no other way to it. `Converges` of
`Credentials` is about wishes the code can bring to rest (`Attainable`) while nobody deletes a secret that no event would
report (`Watched`), where the auth secret may have the owner of an earlier StorageClass
(`OwnedOnce`), and of `Documents` about resources that share no part (`Disjoint`).
A deleted resource whose connection stays unusable keeps its finalizer.

### Disagreements

Each of these runs checks one statement of the repository and ends in a
counterexample; PROJECT.json quotes the statement.

| run | what the code does |
|---|---|
| `alert_retry` | a failed push records the new generation as observed while *Ready* stays True; the retry takes it for synced and the edit is never pushed |
| `platform_certificate` | the Certificate of a disabled database stays, and its secret is issued again |
| `healthchecks_lost` | a PUT of another controller brings the old version of an entry back, the resource stays *Ready*, and the drift check looks at ids only |
| `credentials_reference` | an internal database is told to use a secret of the user: its pods are rolled for that secret's checksum and start with the generated password again |

What a property leaves out for such a reason it names in its own comment: the moved
target in the `OrphansOnlyByLoss` properties, the rename in `ForeignUntouched` and
`OrphansOnlyByLoss` of `Kafka`, the lost report in `NeverSilentlyIdle`, `GapsClose` and
`Converges` of `Documents`, the kept owner in `Converges` of `Credentials`.
`ReadyIsPushed` of `Kafka` is about keys of a configuration, which an ACL does not have:
of ACLs only `Converges` speaks.

The models show more of the kind, without a run of their own. Paths are below
`src/`; controllers below `src/internal/controller/`.

| code | what it does | what the repository says |
|---|---|---|
| `alerts/axonopsmetricalert_controller.go:235` | the update after the re-fetch may still conflict, as the re-fetch is served from the cache: the id is lost and a second rule created | the same file, 205: "Without this, a conflict error would cause a requeue where SyncedAlertID is still empty, triggering yet another API create call and producing duplicates." |
| same, 309 | a DELETE that fails by a network error or 4xx takes the finalizer off | `DEVELOPMENT.md:429` "Remove it only after successful cleanup." |
| same, 298 | deletion waits while the connection is paused | `test/bdd/pause-reconciliation.feature:101` "the finalizer should still call the AxonOps API to delete the alert" |
| same, 398 | resuming a connection schedules nothing | `test/bdd/pause-reconciliation.feature:90` "any spec changes made while paused should be synced to the AxonOps API" |
| same, 202 | a create refused with 4xx is not retried | `test/bdd/alert-metric-alert.feature:54` "the operator should requeue for retry" |
| same, 193 | when the status update that reports a final refusal fails, that is logged and the pass returns without a requeue: neither *Failed* nor a retry. The same of silence windows (173), repairs (170), backups (205), and of dashboards (412), archives (374) and adaptive repairs (314) after a refusal or an unsound source | `test/bdd/alert-error-handling.feature:4` "So that transient failures are retried and permanent failures are reported clearly" |
| same, 182 | an edit of `clusterName`, `clusterType` or `connectionRef` takes POST, drift check and DELETE to the new cluster; what the old one holds stays, with fresh reads and every call answered. The same of healthchecks, silences, backups and endpoints | `README.md:12` "kept in sync with the AxonOps API" |
| `alerts/axonopsscheduledrepair_controller.go:181` | after a status update that conflicts a second repair with the same tag is created, and the tag finds the first: *Ready* with the old one | `api/alerts/v1alpha1/axonopsscheduledrepair_types.go:41` "Tag uniquely identifies this repair configuration within the cluster." |
| `alerts/axonopsalertroute_controller.go:202` | an edit of a route adds the new one and leaves the old one | `README.md:12` "kept in sync with the AxonOps API" |
| `alerts/axonopsalertendpoint_controller.go:203` | an edit made during a sync counts as synced, and the drift check looks for the id only; a definition made again has a new id, and the routes to the old one dangle until their own drift check | the same |
| `alerts/axonopsdashboardtemplate_controller.go:417` | a change of the ConfigMap wakes the dashboards up but is not pushed; a dashboard deleted in the console is not restored while another one is there | the same |
| same, 283 | a dashboard whose ConfigMap is missing is marked *Failed* and not requeued (136); only an event of the ConfigMap or of the resource brings it back | `test/bdd/dashboard-template.feature:150` "the CR should be requeued for retry after 30 seconds" |
| `alerts/axonopscommitlogarchive_controller.go:149` | settings are cleared, the POST is refused for good, and nothing is stored until the next edit; a pass over a stale copy clears what is in sync, and *Ready* stays when its POST fails and its report conflicts | `README.md:12`, as above |
| `alerts/axonopslogcollector_controller.go:186` | the list is written back as it was fetched, without a version: an edit in the console between GET and PUT is undone | the same |
| `kafka/axonopskafkatopic_controller.go:130` | a topic whose creation was not recorded is created again, which is refused for ever, and is left behind by the deletion | `DEVELOPMENT.md:397` "The Reconcile function must be safe to call multiple times" |
| same, 148 | a key taken out of the spec is not unset; an edited name is taken for the same topic | `api/kafka/v1alpha1/axonopskafkatopic_types.go:35` "Immutable after creation." (no rule enforces it) |
| `kafka/axonopskafkaacl_controller.go:120` | an edited ACL is created beside the old one, which stays | `api/kafka/v1alpha1/axonopskafkaacl_types.go:24` "Each CR represents a single Kafka ACL entry identified by all fields combined." |
| `common/connection.go:181` | `ClearPausedCondition` is called by no controller: a resource that was skipped during a pause says Paused for ever | the comment above it: "removes the Paused condition if it exists" |
| `axonopsplatform_controller.go:381` | *Ready=False* of a rejected spec is never taken back | `test/bdd/internal-deployment.feature:39` "the status should reflect "Ready=True" once all components are running" |
| same, 371 | disabling the server while an internal database stays enabled leaves it running | `test/bdd/component-lifecycle.feature:51` "the axon-server StatefulSet should be deleted" |
| same, 306 | a TLS secret reissued between the finalizer's clean-up and garbage collection stays behind | `test/bdd/axonopsplatform-deletion.feature:20` "the TLS secrets for TimeSeries should be deleted" |
| same, 813 | an edit made during a pass is recorded as observed and reconciled by that pass | `api/v1alpha1/axonopsplatform_types.go:123` "the generation observed by the controller" |
| same, 671 | a disabled dashboard stays while a database is not ready | `test/bdd/component-lifecycle.feature:82` "each component's resources should be deleted independently" |
| same, 1000 | an external database with a user name only gets a generated password; with a StorageClass that deletes, every pass deletes that secret and writes another | `README.md:231` "Auto-generation does not apply to external database connections." |
| same, 983 | when the spec gives no credentials an existing secret is used as it is, owner included: after an edit to a StorageClass that retains, the auth secret is still owned by the platform and goes with it, while the volume stays | `test/bdd/credential-retention.feature:38` "the secret "my-axonops-timeseries-auth" should not have an owner reference to AxonOpsPlatform" |
| same, 3226 | StorageClasses that cannot be read count as deleting: a secret that was to be retained gets an owner, or is deleted with the platform | `test/bdd/credential-retention.feature:34` "Auth secrets have no owner reference with Retain StorageClass" |
| same, 975 | the secret is looked up in a cache that may not have it yet: a new password is generated and written over the one in use | `README.md:14` "credential rotation" |
| same, 1021 | with a StorageClass that deletes, disabling and enabling a database makes a new password, while its volume, which the operator never deletes, keeps the old one | `README.md:14` "credential rotation" |

## 4. Proofs

The theorems hold for every value of the constants that the named assumptions of the
modules allow: any number of generations, ids, names, resources and disturbances.

**`MetricAlertProofs`** (`BoundsAssumption`, `AlertAssumption`):

* `TypeCorrect`: `Spec => []TypeOK`;
* `FinalizerHeld`: `Spec => []SyncNeedsFinalizer`;
* `NeverForgotten`: `Spec => NeverSilentlyIdle`;
* `ReadyMeansPushed`: `Spec => []ReadyIsPushed`;
* `ImplementsMirror`: `Spec => Mirrors`;
* `ClaimsAreHeld`: `Spec => []M!ClaimsHold`; `ClaimsFollowSending`:
  `Spec => M!ClaimsAreSent`;
* `OrphansNeedLoss`: `Spec => OrphansOnlyByLoss`.

`NeverSilentlyIdle` is a property of steps, because of the one report that may be lost;
`SyncNeedsFinalizer` and `ReadyIsPushed` are not inductive. The invariant behind them is

    IInv == TypeOK /\ Views /\ Guard /\ Armoury /\ Pushed

`Views` relates the three copies of the resource: a fresh copy equals the resource,
and deletion is seen by the cache and by a pass no earlier than it happens. `Guard`
says who holds the finalizer while a copy says so; it is what makes a sync decided on
an old copy harmless. `Armoury` says that a pass whose copy is out of date has an
event coming, which is why a conflict is not the end; every other error of a write is
returned, and so comes back by a back-off, unless the write was the report of a
refusal (`SilenceStep`). `Pushed` orders the generations: what is recorded was pushed,
what was pushed was read, what was read is no newer than the cache; so a rule is at
least as new as the record of it (`Backed`, in the cluster the recorded spec names).
Each step of `Next` has a lemma, grouped by the conjunct it can disturb; the theorems
follow with PTL. For `ImplementsMirror` each step is shown to be a step of `Mirror` or
a stutter: `Guard` gives that a POST is sent for a held resource, and `Pushed` that a
status that claims the newest generation was written by the pass that sent it. Two
promises of `Mirror` are proved of it once, in its own terms, and carried over: a
claim is of the newest spec of a resource that is held, and a claim appears only in
the step that ends the sending. `OrphansNeedLoss` adds `Tied`: a pass that read no
stale copy has the recorded id in hand, what a POST returned is that id or the first
one, and a resource is let go only when its rule is gone. A rule is known by its
cluster and its id, so an edit that names another cluster loses it at once, as does
the record of a push that such an edit overtook (`MovesAway`): these steps, and the
faults, are all there is.

**`PlatformProofs`** proves every safety property of `Platform` (`BoundsAssumption`,
`PlansAssumption`):

* `TypeCorrect`: `Spec => []TypeOK`;
* `NeverStopsShort`: `Spec => []IdleIsApplied`;
* `GatesHold`: `Spec => StartsInOrder`;
* `PauseRespected`: `Spec => PauseHolds`.

The invariant is

    IInv == TypeOK /\ Copies /\ Guard /\ Pausing /\ Placed /\ Started

`Copies` and `Guard` are as above (a pass past the finalizer step holds the
finalizer, so the garbage collector cannot take away under it what it has
deployed). `Pausing` says that a copy that has not seen the pause recorded has seen
it asked for, so a pass that goes ahead knows that no pause is recorded. `Placed`
says, for each position of a pass, which workloads are already as its spec wants
them, and that a pass over an outdated spec has an event coming; with the return
value of every path this gives `IdleIsApplied`. `Started` says that reported
readiness means started pods, and keeps what a gate saw until the workload behind
it is deployed. The proof first classifies every step by what it does to the
resource (`Update`: all but three report at most) and to the copy in hand
(`Control`: drops it, reads it, goes on with it), and each conjunct is then
proved over these kinds of steps.

**`CredentialsProofs`** proves every safety property of `Credentials`
(`BoundsAssumption`, `PlansAssumption`):

* `TypeCorrect`: `Spec => []TypeOK`;
* `RetainedStaysUsable`: `Spec => []RetainedUsable`;
* `PasswordsPersist`: `Spec => Persists`.

The invariant is

    IInv == KubeShape /\ Asked /\ PassShape /\ ClusterShape /\ Conserved

`Asked` says that every copy is of a spec the user has submitted, and that no budget
grows: what is unspent after a step was unspent before it. `Conserved` is the
argument: while no read was stale or failed, a secret that is to be retained never
gets an owner, so neither a deletion of the platform nor the garbage collector takes
it, and the only password that can be stored is the one it has. `PasswordsPersist`
leaves stale reads out, because a stale read really replaces the password.

**`HealthchecksProofs`** proves, for every set of resources and every fleet of
controllers (`HealthchecksAssumption`):

* `TypeCorrect`: `Spec => []TypeOK`;
* `HandMadeStays`: `Spec => []HandMadeKept`;
* `ReadyIsInSync`: `Spec => []AloneInSync`;
* `OnlyOwnersRemove`: `Spec => NothingLost`;
* `OrphansNeedLoss`: `Spec => OrphansOnlyByLoss`;
* `ImplementsMirror`: `Spec => Mirrors`.

`HandMadeKept` is not inductive: `Running` adds that a pass on its way to a PUT has
the entry in the document it fetched and that no copy of a resource, nor a running
sync, carries its id; `Kept` adds that new ids differ from it. Each step is then a
write of the resource, a return, or a move to another label, with a lemma for each
of the three. The rest needs a second invariant,

    AInv == Budgeted /\ Separate /\ (\A c : Each(c)) /\ (OneController => Alone)

`Each` is, for one resource, how old its copies are, who holds its finalizer, the
order of generations and which id is known to whom; `Separate` says that two resources
never know the same id. None of that depends on the document, and it suffices for
`ImplementsMirror`. With one controller, `Alone` adds what a single worker may
rely on: what it fetched is what is there but for what the console deleted (`Fetched`),
what it has put or removed is in or out of the document (`Outcome`), and every claim
is backed by the document, and by the copy of it a pass is about to change (`Sound`).
With two controllers `Fetched` is false, which is the disagreement
`healthchecks_lost` shows. The proof found `NothingLost` too strong as it was first
stated: after stale reads a pass may hold an id that the status no longer records, and
its deletion removes that entry; the property now says so.

**`RecreateProofs`** (`BoundsAssumption`, `RecreateAssumption`):

* `TypeCorrect`: `Spec => []TypeOK`;
* `ReadyMeansPushed`: `Spec => []ReadyIsPushed`;
* `OrphansNeedLoss`: `Spec => OrphansOnlyByLoss`;
* `ImplementsMirror`: `Spec => Mirrors`, from the same invariant.

The invariant is

    IInv == TypeOK /\ Views /\ Guard /\ Pushed /\ Owned

The first four are as in `MetricAlertProofs`. `Owned` says who knows the id of the
object: a pass that read no stale copy has the id of the resource in hand, a
resource without the finalizer has none, and past the DELETE (`Removed`) the object
with the recorded id is gone from the cluster the pass works on, so the id may be
replaced by that of the next one.
That is why a conflict or a crash costs one object at most. Every step is one of a
few kinds (`StepKinds`: it reports and returns, it goes on with the copy in hand, it
leaves the pass alone, or it is one of ten named actions), and each conjunct is
proved over these kinds. `OrphansNeedLoss` needs that the budgets of stale reads and
unanswered calls are untouched; `UnspentStep` says that what is untouched after a
step was untouched before it.

**`KafkaProofs`** (`BoundsAssumption`, `KafkaAssumption`):

* `TypeCorrect`: `Spec => []TypeOK`;
* `ReadyMeansPushed`: `Spec => []ReadyIsPushed`;
* `ForeignStays`: `Spec => ForeignUntouched`;
* `OrphansNeedLoss`: `Spec => OrphansOnlyByLoss`;
* `ImplementsMirror`: `Spec => Mirrors`.

The invariant is

    IInv == Shape /\ Views /\ Ordered /\ Backed /\ Unclaimed

`Ordered` is the order of generations (recorded and pushed ones are no newer than the
cache, and a pass never pushes one older than the record), `Backed` says that what
was pushed is in the cluster until a newer one is pushed; while the newest generation
is claimed, a pass can only push that one again (`ClaimKept`). `Unclaimed` says that a
status claims an entry of somebody else only under a generation that has its name from
an edit (`Renamed`): the create of one that was there is refused, so that no later pass
updates or deletes it, but a rename takes the claim of the old name along. Hence
`ForeignStays`: the pass that touches such an entry works on a renamed spec. Every step is the end of a pass, a pass that goes
on, or something around it, and the four conjuncts are proved over these three. The
last two theorems add `OInv == Counted /\ Held /\ (Unspent("other") => Removed)`: no
copy gets ahead of the resource, the finalizer keeps the resource while a copy, a sync
or a claim relies on it, and it comes off only when the claimed entry is gone. No
fresh reads are needed, as an entry is found by its name and not by an id, so that
`OrphansOnlyByLoss` of `Kafka` does not ask for them; of the controllers that keep an
id in the status it has to.

**`DocumentsProofs`** (`ObjectsAssumption`, `DocumentsAssumption`), for any number of
resources:

* `TypeCorrect`: `Spec => []TypeOK`;
* `OthersStay`: `Spec => OthersKept`;
* `ReadyMeansStored`: `Spec => []ReadyIsStored`;
* `ImplementsMirror`: `Spec => Mirrors`.

The invariant is

    IInv == TypeOK /\ Alone /\ Views /\ Counted /\ Current

`Current` says that a list on its way back to the server is the one that is there,
unless the console wrote in between; it follows from `Alone`, one worker serves all
resources of a kind. `Views` gives that the copy in hand is of a generation the
resource has had, so that what its spec names is its own. Every step of a pass is
shown to end it (`Ends`) or to go on (`GoesOn`), both are a `Step` that touches one
resource and, by its own call only, the document; the rest is `Aside`.

`ReadyMeansStored` adds `RInv`: what is recorded is no newer than what is read
(`Ages`), a push carries the generation and the value of the copy in hand (`Carries`),
and the document has what is asked for from the end of a push (`Landed`) for as long as
the status claims it (`Backed`). A neighbour's PUT keeps both, by `Current`. An archive
clears before it posts, so that after a stale read it clears what was synced: for it
`Backed` needs fresh reads, and the property says so. `ImplementsMirror`
adds `HInv`, who holds the finalizer while a copy says so.

**`IntegrationsProofs`** (`ObjectsAssumption`, `IntegrationsAssumption`), for any
number of endpoints and routes:

* `TypeCorrect`: `Spec => []TypeOK`;
* `OnlyOwnersRemove`: `Spec => LeavesByOwner`;
* `OrphansNeedLoss`: `Spec => OrphansOnlyByLoss`.

The invariant is

    IInv == TypeOK /\ Alone /\ Views /\ Counted /\ Minted /\ (\A c : Stage(c) /\ Owns(c))

`Stage` says what a pass knows where (only a route looks an id up, and a pass that
uses one has one), `Owns` that no endpoint ever knows an id the operator did not make,
although routes find definitions by name, and `Minted` that the console's definition
has taken the first id.
`OrphansNeedLoss` adds `OInv`: without stale reads a pass works with the newest status
and keeps its resource (`Timely`), and an id is forgotten, or its resource let
go, only when the definition is gone (`Spent`), which no worker brings back under that
id. Here too the first form of the action property was false: an endpoint that
read its status late removes the definition that status names.

What is only model-checked: all liveness (`Converges`, `DeletionCompletes`,
`GapsClose`, `LostEntriesReturn`: fairness and ENABLED are out of the prover's
reach), and the four counterexamples. Every other property of a passing run, invariant
or action property, is a theorem.

## 5. Not modelled, and what is left

Not modelled: HTTP and JSON, the resolution of dashboard panels, how a client is built
from an `AxonOpsConnection`, metrics, start-up, the export command, image names,
manifests, generated code: they have no state a property could be about, or their
outcome is an input of the models. Ingresses and gateways of `AxonOpsPlatform` are
created and deleted like its other children, after them and without waiting, and are
left out of `Platform`. `Platform` and `Credentials` are two views of one controller;
their composition is beyond what TLC can enumerate.

What could be added, most useful first:

* `Integrations` and `Platform` shown to be mirrors that claim nothing (nothing is
  sent for a resource that is not held);
* the lemmas on `KubeObject` that the proof modules share, in one module;
* ingresses and gateways, and the checksums of a platform's configuration, in
  `Platform`;
* the dashboard resolution of an alert as an operator over small dashboards.
