# TLA+ verification of the FastIron OpenTofu provider

The provider (Go, `src/`) configures Ruckus FastIron switches. A resource of it
is a small reconciliation program: it reads the running configuration over SSH,
compares, sends RESTCONF requests, reads again after every request, and saves
the running configuration only when everything it wrote was found there. The
switch makes this hard. Its RESTCONF database lags behind its command line, it
answers requests it does not carry out and carries out requests it answers with
an error, its CLI prints a terminal session rather than data, its "write memory"
may confirm what it did not do, and other administrators work on it meanwhile.

This directory models the parts of the provider that have to get this right,
checks them with TLC on small instances, and proves with TLAPS, for all values
of the constants, the theorems about the parts everything else stands on.
`PROJECT.json` maps each definition to its lines of the source.

## 1. Inventory

### 1.1 Components

| Component (source under `src/internal`) | State it keeps | Operations | Models |
|---|---|---|---|
| Device and update workflow (`fastiron/device.go`, `update.go`) | gate per host, gate and cached firmware per device, retained write error of an update | `Update`, `Reconcile`, `Save`, `Discover`, `RunningConfig`, `REST`, `DeleteIfPresent` | Device, SerialWorkflows, DeviceSerial, DeviceInductive |
| SSH transport (`transport/ssh`) | gate per endpoint; per session: reader goroutine, buffer, prompt name | `Run`: login, elevate, page mode, commands | Terminal (gate: Device) |
| RESTCONF transport (`transport/restconf`) | none | `Do`, one request, never retried | `Effect` of Device, `Request` or `Send` of each feature |
| Native configuration (`config/config.go`, `parser.go`) | commands, nesting stack, open banner | `Parse`, `Document.line` | Document, Transcript |
| Command grammar (`config/command_parser.go`, `route_parser.go`, generated) | none | scanners of one line | not modelled |
| Extractors (`config/*.go`) | none | what a feature concludes from a document; replays of a change | with the features |
| Resource lifecycle (`features/*/*resource.go`, 34 resources) | OpenTofu state with `persistence_pending` | refresh, plan, create, update, delete | Lifecycle, ResourceKinds |
| VLANs (`features/vlan`) | on the switch: VLANs, memberships, default VLAN | `apply`, `remove`, `applyMembership`, `applyDefault` | Vlan |
| Link aggregates (`features/lag/write.go`) | on the switch: aggregates; the RESTCONF cache | `applyLAG`, `deleteLAG` | Lag |
| IP access lists and access groups (`features/acl`) | rules, bindings, RESTCONF database and keys | `applyIP`, `applyStandard`, `deleteIP`, `applyAccessGroup` | Acl |
| MAC access lists (`features/acl/mac*.go`) | ordered rules, runtime entry IDs | `applyMAC`, `deleteMAC`, `macTargets` | MacAcl, MacTargets |
| Port and scalar settings: Ethernet ports, LAG interfaces (`lag/interface.go`), spanning-tree flags (`stp/interface.go`), LLDP, IGMP snooping, PoE, voice VLAN, storm control, protected ports, DSCP trust, jumbo | on the switch: one setting or a few; RESTCONF's copy | an apply each, which is also the reset | Settings |
| Entries: routed interfaces, addresses, spanning tree of a VLAN, LLDP-MED policies, DNS servers, OSPF areas and interfaces, static routes | on the switch: an entry, its parent and children; RESTCONF's listing | apply and remove | Entries |
| AAA (`features/aaa`) | policy, servers, users; secrets nobody can read | `applyPolicy`, `applyServer`, `applyUser` and removals | Aaa |
| 802.1X and MAC authentication (`features/authentication`) | global settings, failure actions, a port's enablement and mode | `applyGlobal`, `applyInterface` | Authentication |
| Provider, data sources, interface names, test switch | configuration | registration, reads | constants of Device, or not modelled |

### 1.2 How they interact

OpenTofu calls resources from several goroutines. A resource calls
`fastiron.Reconcile` with a callback. `Device.Update` takes the *host gate* (a
channel shared by all provider aliases of one host name), discovers the
firmware under the *discovery gate* of its device, and runs the callback. The
callback reads through `RunningConfig` (one SSH session under the *endpoint
gate*, shared by all clients of one address) and through RESTCONF, and writes
through `Update.REST`, which remembers the first error and sends nothing after
it. When the callback and all its writes succeeded, the device saves: `write
memory`, and two reads that compare startup with running. What the callback
observed goes back to the resource, which stores it in the state with
`persistence_pending` saying whether an error is still to be repaired.

Data sources, `Discover` and the reads of refresh do not take the host gate.

### 1.3 What is hard, and what makes each part correct

* **Concurrency.** Three gates taken in order, by calls that can be cancelled at
  any wait, through aliases that share two of them. Correct: one workflow per
  host, one session per endpoint, every gate released on every path, every call
  returns.
* **Partial failure.** Any request or read of a workflow of many can fail, with
  or without its effect. Correct: what a call reports holds; after a failed
  write nothing is sent or saved; what failed is repaired by a later run, and
  nothing pending is forgotten.
* **Stale views.** The RESTCONF cache masks changes or applies them to the wrong
  rules. Correct: the native configuration decides; a rule or member that is
  to stay never goes meanwhile.
* **Shared ownership.** Settings that belong to different resources hang on each
  other (VLAN and memberships, ACL and binding, aggregate and policies, an area
  and its interfaces, authentication and its ports). Correct: no call erases or
  breaks what another established.
* **Order.** Login methods come last in a policy; a port's change of
  authentication resets failure actions that have to be applied again; storm
  limits share a unit. Correct: every step finds what it needs and undoes nothing
  an earlier one established.
* **Framing.** Terminal output is cut anywhere, banners look like commands,
  a transcript can stop anywhere. Correct: each output belongs to its command;
  the nesting read is the nesting meant; a part is never taken for the whole.
* **Persistence.** Success means saved, through confirmations that lie and
  changes between the two compared reads.

The complete list, each hazard at its line with the properties that cover it,
is in `PROJECT.json` under `hazards`.

## 2. Plan

Built, in the order of importance:

1. `Device` with its contract `SerialWorkflows` and the refinement
   `DeviceSerial`; `Terminal`; `Document` and `Transcript`; `Lifecycle` with
   `ResourceKinds`; `Vlan`; `Lag`; `Acl`; `MacAcl` with `MacTargets`.
2. `Workflow`, what the smaller features have in common, and on it `Settings`,
   `Entries`, `Authentication` and `Aaa`, joined in `FeatureCalls`.

To do, in this order:

1. An abstract register (written, or reported as failed) that each feature of
   Settings implements.
2. The extractors as functions on the nested commands of `Document`, checked
   against reference definitions.
3. The standard access list's temporary rule together with Device's startup
   configuration (section 5).

## 3. Modules and the code

In every module a call is a record in `call` and a position `pc`; each action is
one request, one read or one comparison of the code with everything it decides,
so the switch, its cache and other administrators move between any two of them
as they do between two network exchanges. Data that no property tells apart
(names, rules, addresses) are model values. Operators marked "a fault the
properties must detect" are used by no specification: each is a plausible
programming error that replaces a definition to see a property fail.

### Device

An operation in `Ops` is a call of the Go API in its goroutine: `update`
(`Device.Update`), `save` (`Device.Save`), `discover` and `read`
(`RunningConfig` on its own). `pc` follows the frames of the code: `lock`,
`discovery`, `version` (the session of `show version`), `work` (the callback),
`observe` (its native read), `write`, `compare`, `startup` (the three sessions of
`save`). The gates are sets of full channels that do not know who filled them,
as channels do not; `Finish` is the return of a call with all deferred functions
on its path. A switch is `running` and `startup`, for each setting the call
whose write it holds. `Effect` lets a request act at once, later (`late`), or
never, whatever its answer. The callback is any callback that returns nil only
after it read back what it wrote, and it may ignore write errors. Outside the
process: another administrator, a reload, a save from elsewhere, and a crash
that empties gates and caches but not requests in flight.

`SerialWorkflows` is the contract in terms a caller understands: workflows of
one host run one after another, only the running workflow changes the switch,
and a saving workflow succeeds only with startup equal to running unless
someone disturbed it. `DeviceSerial` gives the refinement mapping. 
`DeviceInductive` holds the inductive invariant.

### Terminal

One session of `Client.Run`: pieces of output (text, error, password request,
prompt with a name and a privilege) printed by the switch (`Switch`), cut into
chunks of any size by `PumpRead` (the goroutine of `newTerminal`), collected and
tested by `terminal.read`, whose callers are the steps of `Run`. `Released`
stands for `terminal.close`. Ordinary output may contain what looks like a
prompt of another name, not of the switch's own: that assumption is the one the
comment at `terminal.go:75` makes.

### Document, Transcript

`Document` is `Parse` and `Document.line` for any sequence of lines: `Command`,
`Payload` (inside a banner), `Preamble`, `Skip`, `Orphan` (errors), `Finish`.
`Transcript` composes it with a switch that prints a nested configuration whose
meaning is known, so that what was read can be compared with what was meant.

### Lifecycle, ResourceKinds

One resource over many runs: `Refresh` (`Read`), `Plan` (with `ModifyPlan`),
then `ReadCurrent`, `Write`, `Readback`, `Save` of the call, and the three returns that
decide what state is stored. The 34 resources share these actions; what is
theirs is a record of `ResourceKinds` read off the resource's five handlers:

* `shape`: what a switch without the object looks like to them (an object that
  is missing, an empty value, a binding, a setting that always has a value);
* `mutable`: whether a change is an update or a replacement;
* `blind`: whether a readback that fails hides what was read before the write;
* `unread`: whether an `Update` without an observation keeps the old state (most),
  sets `persistence_pending` (`lag/resource.go:145`, the access lists, MED
  policies) or stores the plan (AAA servers and users);
* `undeleted`, `unmade`: the same for a failed `Delete` and `Create`.

`Careful` says which kinds can lose a change: those that are blind and keep the
old state in an `Update`. For all others a clean state means a saved one
(`CarefulMeansSaved`); the others are finding 1.

### Vlan

VLANs, memberships and the default VLAN of one switch under the calls of the
three resources. `seen` is the configuration a call read first, `keys` the
orphaned entries it is to clean. `own...` is bookkeeping for the properties: what
successful calls established. `Replaced` is a switch that replaces a membership
list where the code expects a merge; it counts as one of the outside changes.

### Lag

Native aggregates and RESTCONF's `cached` copies with the ports' `refs`, which
synchronise whenever they are read (`CacheSyncs`), except between the priming
request and the one after it, where the code does not read. `reference` is the
default spanning-tree entry that makes the switch answer a deletion with 404 and
that it builds again at any read: `RemoveReference` and `DeleteLag` have none
between them. Requests behave as `docs/guides/lags.md` describes the switch.

### Acl, MacAcl, MacTargets

`Acl` has the rules by sequence, the RESTCONF database (whose divergence matters
only in its sequences, the part `checkIPSequences` compares), the binding with
its RESTCONF keys. `standard` chooses between the standard lists, which make no
such comparison, and the others. A request against a database that
is behind may rewrite any rule (`Exactly`); a faulty one may also damage another
list. That the bound interface exists is taken for given; saving is left to Device. `MacAcl` has ordered
rules and the entry IDs RESTCONF gives them, renumbered by reboots and edits at
any time; `MacTargets` is the pure computation of the wanted IDs.

### Workflow, Settings, Entries, Authentication, Aaa, FeatureCalls

`Workflow` is what the smaller features' calls have in common: `native`, the
settings as the switch runs them; `cache`, RESTCONF's copy; `unowned`, all the
rest of the running configuration, as two values that are flipped by damage; and the
record of the call under way with what it has read. A request (`Send`) has the
outcomes the feature allows. When it goes wrong it is carried out or not, damages
the rest or not, and is answered with an error or not; once one error came back
no further request is sent. `Readback` compares the answer, the value the step
expects and what the code looks at of the rest (`Preserved`), which is not the same
everywhere:

| Feature | Compared after a request | Source |
|---|---|---|
| most | every command the feature does not own (the `Check...Update` replays of `internal/config`, `slices.Equal` on the unowned lines): `near` and `far` | e.g. `dscptrust/backend.go:90`, `stormcontrol/backend.go:128` |
| addresses | the addresses of the family that the interface had before: `near` | `address/backend.go:156-173` |
| AAA servers | the top-level `radius-server`, `tacacs-server` and `aaa` lines: `near` | `aaa/server_write.go:60-83`, `244` |
| users | the `username` lines: `near` | `aaa/user_write.go:42-61`, `165` |
| Ethernet ports | nothing but the port's own settings | `ethernet/backend.go:165-174` |

Where a feature's readbacks do not tell the parts apart, `near` stands for both
(`Damages`). For storm control and DSCP trust `near` also stands for what makes them refuse: the
options of a policy, symmetrical flow control. `TimesOut` is a deadline that passes in
a wait, `Interference` another administrator.

The masking every feature has to get round is one rule: a PATCH or PUT of a value
the copy already holds may be acknowledged and ignored, and a DELETE of what the
copy does not hold is not found. A feature is the sequence of requests with which
it aligns the copy:

* `Settings`: write the native value first and then the wanted one (DSCP trust;
  STP flags and LLDP only when the copy differs, Ethernet only the masked fields,
  LAG interfaces field by field without reads); wait for the copy (jumbo); write
  past it (PoE); delete, materialise what has to be deleted, and set (voice VLAN,
  protected ports, IGMP); seed, reset the unit, drop and invalidate class by class
  (storm control). Refused before the first request: a missing parent, storm
  options that RESTCONF would drop, DSCP trust beside symmetrical flow control
  (`Unwritable`). Where the code ranges over a map, or a listing has no order of its
  own, every order is possible (`Orders`).
* `Entries`: wait until both views agree (VE, STP of a VLAN, MED policies), or send
  one request and compare (DNS, OSPF, routes, addresses), where the shape of the
  request follows the containers RESTCONF lists; refusals for a missing parent,
  children, another owner or another value. A routed interface is removed with a
  plain DELETE (`ve/backend.go:263`), not `DeleteIfPresent`: if RESTCONF does not list
  it, the answer is 404 and the call fails.
* `Authentication`: `GlobalSteps`, eight dependent writes, and a port whose change
  takes the failure actions out of force without a trace in the native text
  (`action` 1 and 2 look the same), so that the code applies them always.
* `Aaa`: a policy written family by family ending with login; the default of dot1x
  that RESTCONF reports as none where nothing is set; servers and users whose
  secret no view shows.

`FeatureCalls` is their union: a behaviour picks a feature, a configuration of its
settings and a copy, and its properties hold for all 26.

## 4. Runs

| Run | Bounds | Shows |
|---|---|---|
| `device_commits` | 2 updates and a save, 2 aliases of 1 host, 1 setting, 1 crash, 1 disturbance | the inductive invariant; a failed write stops its update; a successful update or save is durable; Device implements SerialWorkflows |
| `device_returns` | an update, a native read and a discovery; fairness | sessions exclude each other; every call returns |
| `terminal_session` | 3 commands, all cuts into chunks, limit of 4 pieces; fairness | outputs belong to their commands, password and commands go only where they may, the session ends and its goroutine with it |
| `transcript_nested` | 7 lines, depth 2, 1 delimiter | nesting; what is read is what is meant; only whole configurations are accepted |
| `lifecycle_runs` | the kinds of all 34 resources, 3 faults, 2 edits, 1 outsider; fairness | a clean state is a saved one for careful kinds; none is forgotten before its removal is saved; repeated runs converge |
| `lifecycle_vlan` | 4 kinds, 1 fault, 2 edits | *violation*, finding 1 |
| `vlan_calls` | 4 calls, 3 VLANs, 1 port, 1 fault, 1 outside change or one list replaced | calls do not break each other; what the guards and the readback still catch under interference |
| `lag_cache` | 2 calls, 2 aggregates, 2 ports, 1 outsider, 1 fault | reported aggregates stand, neither the cache nor spanning-tree defaults mask a request, deletion is guarded |
| `lag_moved` | the same with default VLAN 4095 | *violation*, finding 2 |
| `acl_calls` | 2 calls, 2 lists of either family, 1 interface, 2 sequences, 2 rules, 1 outsider, 1 fault | rules, bindings and their order |
| `mac_ids` | 2 calls, 3 rules, 4 entry IDs, 1 fault, 1 outside event | IDs that move under the update |
| `feature_calls` | 26 features, 2 calls, the first from every configuration and copy, 1 thing going wrong | what is reported stands; undisturbed calls that are not refused succeed, where the code aligns RESTCONF's copy from every divergence and where it trusts the listing from a true one; what a readback compares is not saved damaged; nothing else is touched on the way; neighbours, children, secrets and actions survive; login last |

Why the bounds are enough. The gates are per host and per endpoint, so three
calls on one host already show every way two of them can meet a third in a
queue; further hosts are independent, and the proofs cover any number, the
other persistence modes and providers without RESTCONF. One fault per behaviour
is placed by TLC at every request and read: what a second one adds is a second
failed call, which the two or more calls of each run allow. Two calls are enough
for a call to stand on what an earlier one left; the VLAN run takes four because
its properties need a default moved, cleaned, and taken again by others. Two
sequences and two rules are the least in which a rule can move to the place of
another, two aggregates and two ports the least in which a member can be
contested. `feature_calls` starts in every configuration, in force or not, with
every copy, which includes all that failed calls leave behind (a call keeps nothing
else), and one trouble is placed at every request, read and instant; the second
call begins with what the first left. Values are as many as an apply tells apart: default, the
one asked for, and another. Four entry IDs with three rules exhaust the ID space that in the code
has 65000. Deadlock is checked in every run.

**Fairness.** `device_returns` assumes strong fairness of each call's waits
(blocked senders of a Go channel queue in order), weak fairness of what answers
a session (the SSH timeout ends every session, `client.go:106`), and strong
fairness of the return of a callback, whose waits have deadlines. `terminal_session`
assumes that the timeout expires and that the goroutines run.
`lifecycle_runs` assumes that the operator keeps running OpenTofu; the
number of faults is bounded. `feature_calls` and the runs of Vlan, Lag, Acl and
MacAcl assume none: their waits may time out, and what should come about is
stated of undisturbed calls (`QuietCallSucceeds`) as safety: such a call does not
fail, and it does not wait for a request that is no longer under way (`Stuck`).

**What `QuietCallSucceeds` leaves out.** In `feature_calls` it speaks of calls that
send something: those that are refused by a guard before the first request (a
missing parent, dependents, storm options, flow control beside DSCP trust, a key the
caller does not know) succeed or fail by that guard. DNS servers, OSPF areas and
interfaces, static routes and the removal of a routed interface choose their one
request by RESTCONF's listing and never align it (`Trusting`): from a false listing
they fail, by the 404 or the conflict they are answered with, and the property is
stated of a true one (`TrueListing`).

## 5. Findings

1. `lifecycle_vlan`. When the readback after a VLAN write fails, `apply` returns
   no observation and `Update` (`vlan/resource.go:115`) leaves the old state with
   `persistence_pending = false`; the next refresh finds the new configuration,
   the plan is clean, and it is never saved. The attribute's own description and
   `docs/compatibility.md:52` say otherwise; the aggregate's `Update` does it
   right. Ports, PoE and LLDP ports share the VLAN's form, and the run starts with
   any of the four.
2. `lag_moved`. The guard of `deleteLAG` takes access VLAN 1 for "no membership"
   (`lag/write.go:258`), but `fastiron_default_vlan` may have moved the default;
   an aggregate untagged in an ordinary VLAN 1 is deleted with its membership.

Not shown by a run: the readbacks of Ethernet ports, addresses, AAA servers and
users compare only a part of the configuration or none of it (the table in section
3), where all other features compare every command they do not own. A request that
damages something beyond that part is reported as done and saved;
`DamageIsNotSaved` is about the part that is compared, and no document says that
more would hold. Also not shown: the temporary deny rule from which an empty access list is
created "must never reach startup" (`acl/standard_write_test.go:177`). When its
removal fails it stays in the running configuration, and the next successful
call on any object saves it; `Acl` has the rule (`Seed`) but leaves startup to
`Device`.

## 6. Proofs

All proofs are checked by TLAPS without any assumption but the named `ASSUME`s
on the constants.

* **Device** (`DeviceProofs`). `IInv` of `DeviceInductive`
  is the conjunction of: each call is where its kind may be (`KindInv`); each
  gate is full exactly while one call stands between filling and emptying it
  (`GateInv`, with `Exact`, needed because a channel does not know its holder);
  a write error lives only as long as its callback (`FrameInv`); and what a
  workflow has verified stays true until it returns (`VerifiedInv`, the part
  that makes the two compared reads of a save sound: only the holder of the host
  gate changes `running`, and its late requests repeat what it wrote). From it:
  `TypeCorrect`, `HostMutex`, `SessionMutex`, `SampledOnce`, `GatesReleased`,
  `FailureSticks`, `CommitIsDurable`, `SaveIsDurable`, for any number of calls,
  devices, hosts, settings and crashes.
* **Refinement** (`DeviceProofs`). `DeviceIsSerial`: Device implements
  `SerialWorkflows` under the mapping of `DeviceSerial`.
* **Document** (`RunProofs`). `Nesting` and `Stack`: for every input and
  every set of indentations, a command's parent is the nearest shallower command
  above it. The strengthening is `StackEncloses`: what follows a command on the
  stack is at least as deep as the next one on it.
* **Transcript** (`RunProofs`). `AlwaysNested`, `Faithful` and `Whole`: for transcripts
  of any length and nesting, the document read is the configuration printed, and
  only whole ones are accepted. The invariant ties the parser's stack to the
  printing switch's path and its open banner to the banner being printed.
* **Terminal** (`RunProofs`). `OutputsAreTheirs`, `PasswordIsAskedFor` and
  `CommandsArePrivileged`, for any commands, banners, answers and cuts into
  chunks. The strengthening follows `Pending`, what is printed and not yet part of
  what a read returned. Before login it is the banner and the first prompt
  (`LoggingIn`). Then Run and the switch alternate (`InStep`): either one line is
  under way and nothing is pending, or no line is and exactly its reply is
  pending, whose last piece alone can end a read; so a read that ends has the
  whole reply (`WholeText`), however many chunks it came in. Or Run took a banner's
  line for its prompt (`Astray`): then nothing pending looks like that line again,
  and Run waits until its timeout. That last part is what `BannerAssumption` is
  for: a banner shows at most one line that looks like a prompt. With two, and an
  answer that shows a third, Run would take the output of one command for
  another's; `TerminalAssumption` likewise excludes answers that imitate the
  switch's own prompt, which no reader of such a terminal could tell from it.
* **Lifecycle** (`RunProofs`). `CarefulSaved` and `ForgottenSaved`, for any
  number of runs, edits and failures and for any kinds of resource in `KindSet`.
  The two properties speak of the time between calls; the strengthening
  `LifecycleInv` says what holds within one: a call that has not failed has its goal running
  when it saves and saved when it returns (`CallInv`), what is not running and
  has no failure on record is not saved either, except while it is being removed
  (`ForgottenInv`), a call never begins with an object that is missing and has no
  failure on record (`PresentInv`), and an update that would keep a clean state
  either left the switch alone or has an observation to replace it with
  (`CleanInv`).
* **Lag** (`LagProofs`). `Stands`: `ReportedStands` for any aggregates, ports, calls,
  faults and changes by others, however the cache behaves. Inductive with it are
  the types, that a call is at a label of its own kind (ports, which stand at `pc`
  for their own departure, are assumed to be none of the labels), and that what
  stands is never the aggregate the call under way is about (`OwnInv`).
  `NothingIsErased` and `RequestsReach` prove the two action properties:
  an aggregate that passed the guard keeps having nothing of its own while nobody
  else acts (`GuardInv`), and without faults the cache is at each label what the
  next request needs (`MaskInv`), because it cannot change between priming a name
  and changing it. `NothingIsErased` takes the default VLAN to be 1, as the guard
  does; run `lag_moved` shows what happens otherwise. That no aggregate is `Absent`
  is assumed.
* **Vlan** (`VlanProofs`). `OwnedIsKept`, `FormerDefaultsAreCleaned`,
  `ErasesOnlyIt` and `NeighboursAreKept`, for any VLAN IDs (natural numbers, so
  that the smallest unused one can be chosen), ports, names, calls, faults and
  administrators. The strengthening says what a call under way still knows: as
  long as nobody else acted, what it checked holds and what it saw is still there,
  but for the membership it changes (`CheckedInv`); and entries without a VLAN are
  former defaults, which the selection under way has among those it is to clean
  (`OrphanInv`).
* **Acl** (`AclProofs`). `ReportsStand`, `NothingDangles`,
  `UndisturbedCallsSucceed`, `KeptRulesStay` and `ReplacesBound`, for any access
  lists, rules, calls and faults, and whatever RESTCONF's database holds. The
  strengthening states, by kind of call, what it has read and decided (`CallInv`,
  `NotedInv`, `ParentInv`, `ActiveInv`); that an undisturbed reconciliation knows
  the list and RESTCONF agrees with it (`ReconcileInv`), so no entry it adds
  collides; and that the keys a binding call has yet to look at are, with the one
  it is at, all there are (`BindingInv`).
* **MacAcl and MacTargets** (`MacAclProofs`). `TargetsFit`: target IDs are ascending,
  as many as the rules, and within the ID space. `PositionsKeepIds`: unless the
  space would be exhausted, no position changes its ID. `ReportsStand`,
  `RetainedEntriesStay` and `QuietCallsSucceed`, for any rules, ID space, calls,
  faults, reboots and administrators. What is noted is what stands and, while
  rules are reconciled, what the entries last known list in the order of their IDs
  (`NotedInv`); RESTCONF's own database is free to say anything. Undisturbed,
  RESTCONF and the configuration agree, the entries it has are the ones the call
  knows, and after a request they are those expected (`QuietInv`). The argument
  rests on lemmas that an ascending numbering of a set of IDs exists and is unique,
  so that rules numbered by `macTargets` list in their own order, and on this: when
  the entries that go are gone, one that is added shares neither its ID nor, as no
  rule is wanted twice, its rule with any that remains. The one assumption that is not
  a bound says that `Absent` is no list of rules.
* **FeatureCalls** (`FeatureProofs`, `QuietCallProofs`). `Standing`, `Undamaged` and
  `NothingListed` prove `ReportedStands`, `DamageIsNotSaved` and `NoListingIsLeft` of all
  26 features, for any number of calls, of requests ignored or carried out in part, and
  of administrators.
  `LookedInv` is common to them: a call that has sent nothing since its last read
  (`Looking`) knows what the switch holds, unless an administrator came in
  between, and what its readbacks compare is as it accepts it (`others`: `Undamaged`
  says no more than that, see the table in section 3). Each group adds
  what a call of it knows where it stands. A call of Settings or Entries that has
  ended its requests has seen the wanted value after the last one (`Stood`,
  `Settled`); a port of Authentication keeps its native text while only the failure
  actions are applied (`AccessInv`); an AAA policy has at each family what the
  families before it left (`AccountsInv`). Each group's steps are shown first to be
  steps of one common form, so that what the features share is argued once.

  `Enforced`, `NeighboursAreLeft`, `SettingsAreLeft` and `LoginComesLast` prove
  `InForce`, `NeighboursSurvive`, `OnlyWhatDiffers` and `LoginLast`. They are about
  calls that nothing disturbs, so none of them is inductive without what such a call
  knows besides (`QuietInv`). Of Settings (`ValuesQuiet`): a call of a feature with
  one value was begun because that value differs; otherwise what had its wanted value
  has it still, on the switch and in the last read, and what the next request is for
  still differs: the leaf at hand, the name or state of an aggregate, the limits that
  are yet to be cleared before they are written. Of Entries (`ListedQuiet`): what the
  call last read is still what the switch holds, children included. Of Authentication
  (`AccessQuiet`): a feature that is to be disabled globally has no port left, the
  failure actions are in force from the step that applies them again on, and a port
  to be enabled has no membership that could be lost. Of AAA (`AccountsQuiet`): from
  the account's request on its secret is the one given.

  `QuietCallsSucceed` (`QuietCallProofs`) proves `QuietCallSucceeds`: from every
  configuration, and whatever an earlier call left half done, a call that is not
  refused and that nothing disturbs neither fails nor waits in vain, whatever RESTCONF's
  copy is where the code aligns it, and with a true listing where the code trusts
  it. That needs, of every label of every feature, how
  RESTCONF's copy and the switch stand to each other there (`FirmInv`). Common to all
  is `Firm`: such a call has met no error, what its readbacks compare is as it was,
  and at a readback the switch holds one of the values it expects. Of Settings
  (`ValuesFirm`): until its first request the copy of a setting is the one the call
  began with, or was rebuilt since; once aligned, it hides no change that is yet to be
  requested (`Unmasked`, `Own`), so the switch carries out every request; the leaves
  that are not on the list are as wanted; the limits that are to change or go have
  their entries (`Entered`); and a call gives up only when the aggregate it is about
  is gone (`Hopeless`). Of Entries (`ListedFirm`): a feature that does not wait for
  the listing before its request is sure of it only if the call began with a true one
  (`Sure`); a routed interface's call polls only for what its request reached
  (`VeFirm`); the attachments of a MED policy that are listed are among those still to
  be removed, and the policy is there only while one is (`MedFirm`). Of Authentication
  (`AccessFirm`): the steps behind the call are achieved and the rest is a suffix of
  the list of steps (`GlobalFirm`), and every flag a port is to have is enabled
  globally (`PortFirm`). Of AAA (`AccountsFirm`): from the first comparison on copy
  and switch agree. Label by label, the request sent there is shown to be carried out
  and to lead to a label whose part of the invariant holds, and FastIron rebuilding
  its copy (`RebuiltTrue`) to keep it.

Only model-checked: liveness and `ENABLED` (`EveryCallReturns`, `RunEnds` and
`Converges`), which are outside what the prover handles. Every invariant and every
action property that a run shows to hold is proved. Where a module
with richer invariants has a `TypeOK` that no run lists, it documents the variables.
What a recursive function computes for every input needs induction over data,
which the installed provers cannot instantiate; no module declares a `RECURSIVE`
operator.

## 7. Not modelled

The bytes of lines, JSON bodies, schemas, validation of single attributes,
messages, TLS and SSH key handling: no property here is about them.

* `config/command_parser.go` and `config/route_parser.go` are generated scanners
  of one line, and `acl/ip_services.go` tables of protocol and port names: pure
  functions of strings without state, tested by the repository against grammars
  and examples. Their results are atoms here.
* Interface names: normalisation of strings.
* Data sources: the reads they make are the call kind `read` of Device; the
  conversion of what they read into their schemas has no behaviour over time.
* The provider block: transport policy, persistence mode and aliases are constants
  of Device; validation is not modelled.
* The test switch, the entry point and the laboratory tools.

`PROJECT.json` gives the reason for each part under `components`.
