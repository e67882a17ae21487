# Verification of the VCF Salt extension

`saltext-vmware` drives a VMware Cloud Foundation fleet from Salt. A minion job
calls an execution module or a state module, that calls a client, and the
client sends HTTP or SOAP requests to one appliance: vCenter, ESXi, SDDC
Manager, NSX, HCX, the VCF Installer and so on. There is no daemon and no
database: everything the program knows is the arguments of the call, a few
caches of the process, and what the appliances answer. What can go wrong is
therefore in the *conversations*: long jobs that are submitted and then polled,
answers that get lost, sessions that expire, a highstate that stopped half way
and is applied again, and two operators at work on the same appliance.

The modules here model those conversations, request by request, next to the
appliance that answers them. Paths below are relative to
`src/saltext/vcf/` of the repository.

## 1. Inventory

| Component | State it keeps | Operations | Talks to | Hard behaviour | What makes it correct | Here |
|---|---|---|---|---|---|---|
| VCSA self-patching (`states/vcf_vc_patch.py`, `clients/vc_patch.py`) | session token in the process; staged update, running job and version on the appliance | `update_prepared`, `update_installed`, `installed`; stage, precheck and install monitors; `repository_configured`, `delete_staged_update` | VAMI REST of one vCenter | the services restart in the middle of the patch; sessions expire; stages time out in the client and go on in the appliance; two monitors share one error count | what is reported is true; only what was staged is installed; short outages are ridden out; loops end | `VamiAppliance`, `VcPatch`, `PatchLifecycle` |
| OVA push (`clients/ovf_deploy.py`) | an NFC lease and its thread; a VM shell on the host | `find_vm`, `deploy_ova` | vCenter SOAP, ESXi lease | two threads share a lease that expires when nobody pings it | the lease outlives the upload; nothing is left behind; deployed means whole | `OvaPush`, `OvfDeploy` |
| Cluster image (`states/vcf_esxi_vlcm.py`, `clients/esxi_vlcm.py`) | drafts, desired image, apply policy, depots, hosts; tasks | `depot_configured`, `depot_synced`, `image_configured`, `policy_configured`, `compliance_checked`, `prechecked`, `staged`, `remediated` | vCenter `esx/settings` REST | seven states in a row over shared drafts; tasks outlive waits; others have drafts as well | the image and the hosts are the ones asked for; drafts do not pile up | `VlcmImage` |
| HCX Manager installation (`states/vcf_hcx.py`, `modules/vcf_hcx.py`, `clients/hcx_manager.py`) | VM; first boot; registrations | `installed` over `deploy` | vCenter for the push, the appliance for the rest | half-done deployments, an appliance that answers before it is ready | success is true; a repetition does nothing; repetitions converge | `HcxInstall` over `OvaPush` |
| vRO installation and first boot (`states/vcf_vro.py`, `states/vcf_vro_bootstrap.py`, `modules/vcf_vro_bootstrap.py`) | files, services, pods and NAT rules of the appliance; its SSO and license | `installed`, `remediate` with five steps | the appliance, by REST and by SSH | an appliance that boots while it is repaired; commands whose failure reads as "no" | the first boot is not run over a finished one; one repair is enough; repetitions converge | `VroBootstrap`, `VroInstall` over `OvaPush` |
| Management-domain bring-up (`states/vcf_installer_bringup.py`, `clients/installer_bringup.py`) | validations and bring-ups of the installer | `validated`, `complete`, retry | VCF Installer REST | a job of hours that outlives its run | one bring-up; a reported completion is one | `BringUp` |
| State functions (`states/*.py`, the 103 files the components of `PROJECT.json` name) | one object of an appliance each | look up, compare, answer a dry run, send the requests that are missing | every appliance | overlapping runs; lost answers; tasks nobody waits for; several requests of which one fails; bodies written back whole; fields no answer shows | success is true; nothing stays half made; no twins and no lost changes without a race; repetitions are quiet and converge | `StateFunctions`, six catalogues, `Declared` |
| Session helpers (`utils/*.py`) | tokens, sessions, connections, refresh tokens cached per process | get, log in again on a 401, invalidate, log out | every appliance | seventeen policies; sessions, refresh tokens and passwords end at any time; keys that leave parts of the account out; a session kept in the context of the thread | a request counts once; a caller acts under another account only if that one came after its own; stale entries do not fail for good | `SessionHelpers`, `Sessions` |
| Clients and execution modules (`clients/*.py`, `modules/*.py`) | none | one call, one request | every appliance | as the states over them | as the states over them | those of the catalogued states; the others are not modelled |
| Other appliance installations (vRLI, Avi, vRNI) | as HCX | installed / deployed | as HCX | as HCX; vRNI pushes without looking | as HCX | not modelled, see 5 |
| SDDC, NSX and VCF Automation jobs | jobs of the appliance | submit and poll, pause and resume | REST | as the bring-up | as the bring-up | not modelled, see 5 |
| Fleet listings | none | read pages | VCF Operations | the list changes between pages | nothing that stays is missed | not modelled, see 5 |
| Resources framework, `vcf-infra`, solutions, docs | none | declarations | | none | | not modelled |

How they interact: a state calls the execution module or the client directly
(`__salt__[...]`), all in one process and one thread of control; the only
thread the extension starts is `_LeaseProgress`. The order between states comes
from `require` in an SLS file (`vcf-infra/cluster-vlcm/cluster-vlcm.sls` for
`VlcmImage`; `vcf-infra/vc-patch/vc-patch.sls` for the "prepared, then installed" calls of `VcPatch`). Every
client goes through one session helper, which is what its calls share. Two jobs
meet only on the appliance. Retries are highstates: the code has next to no
retry of its own, so "fail, and do it right the next time" is what most of the
safety properties are about.

## 2. Modules

Four things recur in all of them. An action is one request with everything the
code does on its answer up to the next request. Lost requests, lost answers and crashes are
faults, of which a constant says which kinds and how many there may be. The appliance is
external and does no more than the code relies on. An `MC_*` module only gives values to constants,
and names by `ASSUME` what a property excludes.

### VamiAppliance, VcPatch, PatchLifecycle: patching the vCenter

`VamiAppliance` is external: the update service of the appliance, as far as
the client relies on it (the states it compares with, the staged update it reads
back, the refusals it handles). `VcPatch` extends it with the calls.
One action is one HTTP request together with everything the code does on its
reply until the next request:

| Actions | Code |
|---|---|
| `update_prepared`, `update_installed`, `installed` | the entry points of `states/vcf_vc_patch.py` |
| `SetPolicy`, `Lookup`, `ListPending`, `Detail` | `repository_configured` and `resolve_update_version` |
| `ProbeStaged`, `Stage`, `WaitStaged`, `Precheck` | the body of `update_prepared`, with `wait_for_staged_update` and `_precheck_when_allowed` |
| `MonitorStaged`, `MonitorStatus`, `MonitorInstall` | the loops `monitor_stage`, `monitor_install` |
| `Install` | `install` of the client, from `update_installed` |
| `ExpireSession`, `Bounce`, `ApplianceWork` | the world: an expired token, services that restart, and the work itself |
| `Meddle` | somebody else stages, calls `delete_staged_update`, or applies `repository_configured` in another job |

Time is counted in polls: a deadline is a number of polls left. Versions
are model values, and `PrefixPairs` says which string is a prefix of which:
the code matches `9.0.1` with `9.0.1.0` and the other way round.

Between two answered status polls there is at most one outage, of at most
`MaxOutage` polls, and at most one expired session (`spared`). Without a bound of
this kind no `max_transient_errors` would ever be enough.
`OutagesAreRidden` then says: if an outage and an expiry together are fewer failures than
`max_transient_errors`, the monitors never give up because of them. The mutants of
this property forget to restart the count and forget to drop the session.

`PatchLifecycle` is what an owner of the appliance may rely on, in six actions:
only a staged update is installed, "prepared" is reported while a matching
update is staged, "installed" while that very version runs, unless somebody
else acted in the meantime. `VcPatch` implements it: `ReportsAreTrue`.

### OvaPush, OvfDeploy: pushing an OVA

`OvaPush` is the abstract promise: a call works on a VM of its own, what is
returned as deployed is whole, only an empty shell ever disappears.
`OvfDeploy` is the code: the calling thread (`pc`: find, import, wait for the
lease, upload, stop the thread, join it, complete or abort, power on, wait for that
task), one `_LeaseProgress` thread per call (`thread`: check the event, ping,
nap), the host (leases that become ready, fail, or expire; power-on
tasks), and `Tick`, which makes naps, joins, pings and leases older. A caller may crash at
any point; the daemon thread dies with it.

The seconds of the code are constants, and the property says which relation
between them matters:

    PingsSuffice ==
        PingMax + (MaxPingFails + 1) * (Interval + PingMax) + CompleteMax < LeaseLife

Nobody pings any more once the thread has been joined, so the completion, which may take `CompleteMax`, has
to fit in as well. `Oldest` is how old the lease can be at most, by where the thread is. With 30 s between pings and a lease of 5 minutes that leaves room for several
slow or failed pings in a row. The repository states the 30 s and the 5
minutes; it does not say how long a ping may take, so that is an assumption the
property makes visible.

### VlcmImage: the desired image of a cluster

Each of `Runs` is a highstate of the SLS: a walk of `pc` from the depot over the image
(read, drafts, reuse or delete, import, list again, validate, commit, verify)
and the policy to scan, check, stage and apply. `Request` submits what has a
task, `Wait` is `wait_for_task` (a 404 on the first look is taken for an
operation that needed no task; a 404 later is a failure; a deadline is a failure and the task goes on).
The vLCM service is external: one remediation runs at a time, the order in which drafts
are listed is arbitrary, ids are fresh, and `Meddle` is an administrator who creates,
edits, deletes or commits drafts of his own, or makes and deletes a depot (`DepotByHand`).
An offline depot has a task that is waited for, an online one (`online_depot_create`) is there with the answer.

### HcxInstall: installing an appliance

The state `vcf_hcx.installed`, applied any number of times. It extends `OvaPush`
and takes the push from there, so that a run may be cut off with any VM that a push can
leave. The appliance boots from "down" to "front" (answers `endpointInfo`) to
"up" (takes a login); it may fall back (`Outage`). Options of the
call: whether there is a spec, where the admin password is set (the state and the
deploy function do not look in the same places), an external SSO, a version.

### BringUp: bringing up the management domain

Each of `Runs` applies `complete` or `validated` once, one after the other or
overlapping, and an operator may retry a failed bring-up (`retry`). A bring-up is identified by the run that
submitted it. `blind` records that a run took an unreadable list for an empty
one, `overlap` that two runs were under way at once: with either of them
the code cannot keep to one bring-up, and the properties say so. The
installer is external; whether it refuses a second submission is not in the
repository, so it may accept it. A dry run of `validated` submits a
validation like a real one; the model has that, since the code does
not look at `test` there, and the modules make no claim about it.

### StateFunctions, the six catalogues, Declared: a state function of 103 files

The state functions are one program with different data: look the object up, compare,
answer a dry run, send what is missing. So the data and the program are
modules of their own.

`StateFunctions` is the vocabulary: how a lookup finds its object (surely, or on the
first page of a list only), the fields, requests (`add`, `upsert`, `set`, `whole`, `read`, `remove`,
`beside`) and whether a request is answered by its effect, by a task that is waited for
or by one that is not. `NsxStates`, `VcenterStates`, `ClusterStates`, `HostStates`,
`VmStates` and `SuiteStates` define each function under its own name from the
lookup of its client, the fields it compares, and the requests it sends for a missing object and for one that
differs, each with the lines it stands for; the requests of the execution modules for
the same object are its `calls`.

`Declared` is the program, applied by `Runs` that may overlap:

| Actions | Code or world |
|---|---|
| `Begin`, `Read` | a run, or a dry run; the lookup, the comparison and its early returns |
| `Send` | the next request that is called for, as it is answered |
| `SendFails` | it does not arrive, or its answer is lost, or the client stops waiting for its task |
| `Land` | vCenter carries out, or fails, the oldest task nobody waits for |
| `ByHand` | an operator calls an execution module for the object |
| `Edit` | an administrator changes, makes or deletes the object, or changes what the function is not about (`foreign`) |

The state of an object is whether it is there, once or twice (`copies`), which of its fields
are as declared (`val`), and how often somebody changed the rest of it (`foreign`). Values are
reduced to "as declared" and "other", since a state function does no more
than compare with `!=`; fields compared and written together are one field.

A property speaks of the functions for which it can be expected, by a predicate on
their requests: `Surely` (the lookup sees all pages), `Repairs` (a difference calls for a request
that removes it), `Ordered`, `Readable`, `Resumes`. `MC_Declared` lists the functions that
do *not* satisfy each predicate, by name, as an `ASSUME` that TLC evaluates: `UnsureLookups`, `LeftUnrepaired`,
`OutOfOrder`, `NeverRead`, `NotResumed`; and `NotPlain`, `NotSteady`, `NotDirect`, `NotRemade` (none) for the
theorems. `LetBe` names the functions that report success for an object of the system and leave it as it is
(`spared`: roles of vCenter and VCF Operations), which are part of `LeftUnrepaired`. `WrittenBackWhole` names those that
write a whole body back, which no property excludes, and `AllUnmixed` says that none of them sends other requests beside. A function that is added to a catalogue, or a request that is
changed, cannot leave a property's scope unnoticed.

### SessionHelpers, Sessions: what a process keeps between calls

`SessionHelpers` has one record per module of `utils/`: what it caches (nothing, a
connection with the password, a session), what that is made of (a login, a refresh token, the cookie of another
helper's session), what a 401 does, whether sessions are given up when they are
old, whether the cache's key has the whole account, and whether requests go by the session in pyVmomi's context of
the thread (`pbm`: `utils/pbm.py`, lines 59 to 67), which is set only when a stub is opened. `Sessions` is a process that makes calls through one of them:

| Actions | Code or world |
|---|---|
| `Begin` | a call takes what is cached, or has to log in |
| `Login`, `Exchange` | the login; the exchange of a refresh token for a bearer |
| `Send` | the request: accepted, refused (and sent again after a login or an exchange, once), or lost |
| `Invalidate`, `Logout` | `invalidate_session` and its like; `invalidate_service_instance`, that logs out as well |
| `End`, `Age`, `Rotate`, `Follow` | the appliance ends sessions or refresh tokens; time; a changed password, and the pillar that follows |
| `Restart` | the process is replaced and its caches are gone |

What is opened goes through `Stores`, that keeps a history of it: `since[p]` are the profiles whose sessions were
put in place after `p` last opened one or emptied its cache. `OthersOnlyAfterThem` says that a request takes effect
under the account of its profile or under one of `since[p]`, and under the latter only with a helper that `Lends`. The helpers
that do are named again: `TheyRenew`, `TheyHeal`, `TheyLend` of `MC_Sessions`. `vim`, `vsan` and `pbm` have a complete key with the `host` of
the configuration, port and all. Left out is the fallback of `utils/vim.py` to a standalone ESXi host, for which
`vsan` and `pbm` have no host in their key.

### VroBootstrap, VroInstall: an appliance that boots while it is repaired

`VroBootstrap` has the node and the five steps of `vcf_vro_bootstrap.remediate` over SSH:

| Actions | Code |
|---|---|
| `AlreadyServing` | the look at the API before everything else |
| `fix_hosts`, `disable_setup_kubernetes` | the line in `/etc/hosts`; the script moved away on the sight of `admin.conf` |
| `kubelet_ready`, `wipe_kubelet`, `AwaitReady` | the kubelet that is not Ready loses its certificate and joins again |
| `firstboot_completed`, `restart_firstboot`, `AwaitRestart`, `AwaitFirstboot` | a first boot that failed is restarted: the command blocks for as long as the first boot takes, the client does not |
| `envoy_pod_ip`, `InsertRule`, `PersistRule`, `Verify` | the rule for the address of the envoy pod, the unit that sets it again after a restart, the last look |

The node goes on meanwhile: the first boot is its scripts in their order (`ServiceStarts`, `SetUpAgain`, `SetsUp`,
`Deploys`), the kubelet joins, the pod gets addresses (`PodStarts`, `PodEnds`), the unit
runs after a restart (`UnitRuns`, `Reboots`), a script fails (`Breaks`). `SetUpAgain` is why the order of the steps matters:
`02-setup-kubernetes`, run on a node that is set up, destroys its certificates.

`VroInstall` adds `vcf_vro.installed` (`Install`, `Probe`, the push of `OvaPush`, `Wait`, `Join`, `WaitAgain`, `License`,
`About`) on the same appliance, with `SsoRestart` after the join, a minion that may
crash anywhere, and both states in any order.

## 3. Runs

| Run | What it asks | Distinct states | Time |
|---|---|---|---|
| `vcpatch_calls` | two calls with every kind of options, in both orders, with outages, expiries, hard and lost answers and another administrator: `OutagesAreRidden`, `CallAgreesWithAppliance`, `ReportsAreTrue`, `CallsReturn` | 2,151,663 | 130 s |
| `vcpatch_precheck_gate` | finding: `InstallsArePrechecked` | 1,127 | 2 s |
| `ovf_lease` | two pushes with every fault: `LeaseOutlivesUpload`, `QuietEnd`, `PushesAsPromised`, `ShellsVanish` | 137,329 | 10 s |
| `vlcm_repeat` | a highstate that anything may stop, and its repetition: `DraftsDoNotPileUp`, `RunsEnd` | 1,049,014 | 110 s |
| `vlcm_shared` | two highstates of different images at once and an administrator: `ImageIsAsAsked`, `HostsAreAsAsked` | 2,871,340 | 40 s |
| `vlcm_foreign` | finding: `CommitsItsImage` | 2,396 | 2 s |
| `hcx_reruns` | any number of runs and three faults: `SuccessIsTrue`, `RepeatIsNoOp`, `RerunsConverge` | 39,863 | 4 s |
| `hcx_sso` | finding: `SsoIsRegistered` | 560 | 1 s |
| `bringup_runs` | two runs with every option, overlapping or not: `OneBringup`, `SuccessIsTrue`, `RunsEnd` | 114,760 | 7 s |
| `declared_runs` | every state function of the catalogues, by two runs that may overlap, with a fault and a foreign change: `SuccessIsDeclared`, `NothingIsHalfMade`, `TwinsNeedARace`, `LostEditsNeedARace`, `RepeatIsQuiet`, `RerunsConverge` | 783,850 | 60 s |
| `session_caches` | any number of calls of two profiles through each of seventeen helpers: `EffectsAsReported`, `OthersOnlyAfterThem`, `OneRepetitionSuffices`, `EmptiedIsFresh`, `CallsHeal` | 539,000 | 23 s |
| `vro_reruns` | installation and remediation in any order with two faults: `SetupRunsOnce`, `OneRunRestores`, `RerunsConverge` | 568,099 | 42 s |

Every passing run has the `TypeOK` of its module as well. A run that stops at a
violation counts the states up to it, which vary a little.

### What they show

- Patching: short outages never use up a monitor's patience, and whatever goes wrong in between, what
  is reported as prepared or installed is so. The exception is the precheck (finding 1).
- The image: a highstate that goes on works on the image it asked for, although
  drafts are anybody's; highstates one after the other leave at most one draft, beside those an administrator makes.
  Two at once may leave one each (`~Concurrent`): each sees an empty list before it imports.
- The push: the lease outlives the upload, and what fails vanishes without help of the caller.
- Installations and bring-up: success is true, and reruns recover from
  whatever a fault left half done, except where a property names the dead end.
- State functions: with the exceptions `MC_Declared` names, a success is true, the next
  run is quiet, a failed run is made good by later ones, and a second
  object of one name takes two runs at once. What somebody else changed is lost only between the lookup of a run and its
  request, never when it was there before: a body that is written back whole has been read in the same run.
- Sessions: a request that is sent again had been refused, never lost, so it counts once. Only four of the
  seventeen helpers recover by themselves from a session that has ended; with the others
  the caller has to invalidate, after which calls work, except through the two that copy a cookie. With eight helpers a call may go out under
  the account of another profile, and then that profile's session came after the caller's own: a caller that has just opened or emptied its own acts as itself.
- vRO: moving the first-boot script away on `admin.conf` alone is what keeps a
  sick node alive. The mutant of `SetupRunsOnce` asks for a Ready kubelet as well, as
  the docstring does (`modules/vcf_vro_bootstrap.py`, 240 to 243), and breaks the property.

### Bounds, and why they are enough

- `vcpatch_calls`: two calls (prepare and install, or `installed` twice) are the
  least in which a leftover of one meets the next; three versions of which one is a
  prefix of another and a rank per source, so that the list, the policy and the match
  can disagree; two outages of one poll and an expiry, against a limit of three,
  so that the limit is missed by exactly one; budgets of two or three polls,
  so that each deadline passes in some behaviours. `v1` is not pending: an appliance offers updates, not its own version.
- `ovf_lease`: two calls, so that a second one meets the shell of the first.
  The ticks make `PingsSuffice` as tight as it can be (8 < 9) and a ping (1)
  shorter than the join (2).
- `vlcm_repeat` has two highstates in sequence with all draft actions,
  `vlcm_shared` two at once with different images and one move of an
  administrator. Faults and moves are divided between the two runs, since their
  product takes too long; each kind of fault is in one of them, and the theorems hold for all of them
  together. Three draft ids are one more than two highstates use.
- `hcx_reruns`: runs are not bounded, faults are (three of any kind): a fault
  in each of push, boot and registration.
- `bringup_runs`: two runs; a third takes TLC beyond five minutes, and the
  theorems are for any number.
- `declared_runs`: runs begin any number of times, at most two at once, with one fault, one foreign change and two
  tasks on their way: one run that fails half way, one that overtakes, one task of each. A
  third `copies` would behave as the second. The 133 different records of the catalogues are merged into 78: those that send the same requests become one, unless only some
  of their execution modules write whole bodies back; each has the union of what an operator may call beside them (`Alike`, `AllFunctions`), which adds behaviours
  and takes none away.
- `session_caches`: the seventeen helpers have ten different policies; two profiles, which are enough for one to meet
  the session of the other; two ends, so that the repetition of a request may be refused as well; one changed password and
  one lost request. Calls are not bounded.
- `vro_reruns`: two faults of ten kinds, one poll before each deadline, two pod addresses (one to
  move to and one to return to); a complete spec, one that forgets the SSO, and none. Runs are not bounded.

`CHECK_DEADLOCK FALSE` stands where runs are numbered and come to an end, and in
`declared_runs` and `session_caches`, where nothing has to go on; `HcxInstall` and `VroInstall`, where runs
never stop, are checked for deadlock.

### Fairness

- `VcPatch`: `WF(Request)`, "a call that runs goes on". Nothing is
  assumed of the appliance: `CallsReturn` must hold against one that never finishes anything.
- `OvfDeploy`: weak fairness of the caller, of each progress thread, of time and
  of the host's settling what it began. No fairness of faults or of `deploy`.
- `VlcmImage`: `WF(Steps(r))` per highstate and nothing of the cluster.
- `BringUp`: `WF(Request(r))` per run and nothing of the installer; a lost
  connection is an action of its own (`Disconnect`) so that fairness
  never forces one.
- `HcxInstall`: weak fairness of steps, host and boot, and *strong* fairness of a
  real `Start`: convergence is a claim about a state that is applied again and again
  (a scheduled highstate) with dry runs in between. `RerunsConverge` has
  one way out, which the property names: a VM that a failed push left powered off is found by name in
  every later run and is never powered on.
- `Declared`: weak fairness of `Read` and `Send` of each run (a job that runs goes on) and of
  `Land` (vCenter works its tasks off). Nobody has to begin a run: that runs are begun again
  and again is the premise of `RerunsConverge`.
- `Sessions`: weak fairness of the steps of a call and of time. That calls are made, and that
  the pillar gets the right password in the end, are premises of `CallsHeal`.
- `VroInstall`: weak fairness of the steps of a run, of the host, of the restart that follows the
  join, and of each thing the node does by itself; none of faults. `RerunsConverge` has two premises, that remediations are
  begun again and again and that they are patient (a remediation that comes during a first boot starts it
  over), and names what no run recovers from: a VM that was never powered on, a first boot cut between its directory and its
  `admin.conf` (`Trapped`), and a rule for an address that came back, behind another (`Shadowed`).

### Findings

Each is a run of one property that quotes the repository; `PROJECT.json` has the lines.

1. `update_prepared` returns True for an update that is already staged
   before it comes to the precheck: after a failed precheck the next
   highstate installs (`vcpatch_precheck_gate`).
2. The draft that is committed is looked up by its position in a
   second list and may be somebody else's (`vlcm_foreign`). The check after the commit fails the
   highstate, and that is why `ImageIsAsAsked` still holds.
3. An SSO registration that failed once is never repeated, and the state
   reports success (`hcx_sso`).

### Observations

What else the modules had to model as the code has it, and a reader of a docstring or
another caller would not expect. No run is spent on them; where a property excludes a
function, this is why.

- `states/vcf_vc_patch.py:387`: `installed`, "staged and installed, in one call", never stages in a real run.
- `states/vcf_hcx.py:115` compares the version with a field the answer never has.
- `states/vcf_installer_bringup.py:24`: an unreadable list of bring-ups counts as an empty one, against the docstring of `complete`.
- `states/vcf_vim_drs_rule.py:93`: a rule that drifted is removed and added by two tasks nobody waits for; between them, or if the second fails, there is none.
- `states/vcf_vim_vm.py:147`: only the name of a VM is looked at; a VM whose devices failed stays incomplete (`NotResumed`).
- `states/vcf_vim_datastore_file.py:83`: the deletion of a file is a task nobody waits for, and the upload of its replacement may come first (`OutOfOrder`).
- `states/vcf_vcenter_storage_policy.py:72` compares the identifier in force, a string, with the one of the policy, an object, and line 42 the tags as given with tags read back sorted: both may write at every run (`NeverRead`).
- `states/vcf_vim_vm_devices.py`: `vgpu_absent` finds passthrough devices that are no vGPU, and removes nothing then (`LeftUnrepaired`); it and `tpm_absent` remove the first device only.
- `states/vcf_vcenter_host.py:20`: `present` and its like ask for a host by `name` where the REST path takes its identifier (`clients/vcenter_host.py:14`); with a name the lookup answers that there is none (`UnsureLookups`).
- `states/vcf_esxi_host.py:44`: the exception users of the lockdown are compared with an answer that never holds them; with any given, the state writes at every run (`NeverRead`).
- `states/vcf_vim_host_network.py:43`, `states/vcf_vim_extension.py:22`, `states/vcf_sddc_domain.py`, the audits of `states/vcf_sddc_manager_*.py`: differences that are reported or compared and that no request removes (`LeftUnrepaired`).
- Eight functions write a body back whole without its revision (`WrittenBackWhole`), among them `states/vcf_sddc_manager_password_policy.py:99`; what somebody changed between their reading and their writing is put back.
- `states/vcf_nsx_vidm.py:31` compares a `client_secret` that the answer may mask, and `states/vcf_vrli_ad.py:57` posts whatever it read when `force` is set: both then write at every run (`NeverRead`), as their docstrings say.
- `states/vcf_vim_role.py:26` and `60`, `states/vcf_vcfops_role.py:48`: a role of the system is left as it is and reported as success (`LetBe`).
- Lookups of the first page of a list (`UnsureLookups`): on a large inventory `present` adds a second object and `absent` reports that there is none.
- `clients/vim_vm.py:324`: `destroy` powers off and deletes by two tasks and waits for neither.
- The cache keys of seven session helpers leave out the `auth_source`, the tenant, the domain, the provider, the name in the Host header or the port (`TheyLend`); two profiles of one user name then share a session.
- `utils/pbm.py:59`: the session PBM looks at is put into the context of the thread when a stub is opened, and not when a cached one is used; two profiles of one vCenter that both have their stubs then act as the one whose stub came last. `invalidate_stub` drops the stub and so has the next call set the context again. In a minion that runs jobs in threads a cached stub would meet an empty context; the model has one thread.
- `utils/vcfa.py:136`: once the cached refresh token has expired, every call of the process fails until someone invalidates it.
- `vsan` and `pbm` keep the cookie of a SOAP session that was logged out; `invalidate_stub` alone brings the same cookie back (compare `docs/topics/configuration.md:105`).
- `modules/vcf_vro_bootstrap.py:142`: a command that got lost reads as "no": a healthy kubelet is wiped, a completed first boot is started over.
- `modules/vcf_vro_bootstrap.py:493`: the template for kubectl in the unit has the doubled braces of a format string, but is none; where kubectl refuses it the rule does not survive a restart, against the docstring. The model leaves both open (`UnitRuns`).
- `modules/vcf_vro_bootstrap.py:364`: the restart of the first boot blocks longer than the client waits, so the run fails unless the first boot takes less than a minute, and an impatient rerun starts the first boot over.
- After a remediation `vcf_vro.installed` finds the API answering and never joins the SSO or installs the license.

## 4. Theorems

Every theorem is about `Spec` with any constants that satisfy the `ASSUME` of
its module: any number of versions, runs, drafts, helpers, profiles, any budgets, any set of faults, and for
`Declared` any set of state functions, not only those of the catalogues.
The five theorems of `DeclaredProofs` that assume more say so in their statement.

- `VcPatchProofs`. `TypeCorrect` has one lemma per helper and one for requests,
  calls and the environment. `CallAgrees` proves `CallAgreesWithAppliance`, which is
  inductive given the types: it says what the appliance must be doing at each `pc`
  (a call in a staging loop finds its own target, a call that monitors an install
  reads UP_TO_DATE of its own install). `ImplementsLifecycle` is the refinement:
  the two claims can be made because, at the step that makes them, that
  invariant ties `resolved` to `apStaged` and `apInstalled`; every other step is `Restage`,
  `Upgrade`, `Interfere`, `NewCall` or a stutter. `OutagesRidden` rests on `OutagesAreCounted`: the
  failures a monitor has counted and those that are still to come (`AheadOutage`: what is left of an outage, or a whole one
  that is not spent yet; `AheadExpiry`: a session that has ended or may) are together at most `MaxOutage + 1`. Two facts make this
  inductive: a due outage is not under way, and the session of a monitor was opened by its own call.
- `OvfDeployProofs`. `LeaseSafe` rests on `LeaseInv` = `InStep` (how far a call,
  its lease and its thread have come together), `Pacing` (how long ago the host can have heard of the
  thread at most, by where the thread is and how many pings failed; once it has been joined, by how long the completion has taken) and
  `Granted` (the lease is no older than `Oldest` allows, and alive while it is needed). The property alone is not inductive: it
  says nothing of the age of the lease. `QuietSafe` rests on `QuietInv`, which
  counts a ping against the join. `PushRefines` rests on `PushInv`: there is at most one VM of the name,
  and its lease and task tell what it is; then each action maps to one of `OvaPush` or a stutter.
- `VlcmImageProofs`. `ImageSafe` and `HostsSafe` from `HostsInv`: once a highstate's
  remediation is accepted, every remediation still running applies the same
  image; without that conjunct a remediation left over from an earlier highstate could
  take the hosts elsewhere. `DraftsSafe` from `DraftsInv`: without `Concurrent`, one highstate is at work, and
  when it is about to import there is no draft but an administrator's, since it has seen none or deleted the one it saw. That
  is why two at once are excluded: what one has seen says nothing of what the other imports meanwhile.
- `HcxInstallProofs`. `InstallSucceeds`, `RepeatSafe` and `DryRunSafe` from
  `InstallInv`, which relates where a run is to what it has registered and to its push.
- `BringUpProofs`. `BringUpInv` = `Alone` (runs that do not overlap are one at a time) and
  `NoneListed` (a run on its way to submit has seen an empty list and nobody
  submitted since) and `InStep`, with the two properties themselves. `OneBringup`
  alone is not inductive, since it does not say why a run may submit.
- `DeclaredProofs`. `LostEditsTakeARace`, for functions that do not mix whole bodies with requests of other kinds (`Unmixed`, all of the catalogue), rests on `Holding`: what a
  clean run has read of the rest of the object, and what the tasks of its own on their way carry, is what is there (`Current`). The property alone does not say what a run in the middle has read. `TwinsTakeARace`, for functions that make their object by the
  first request alone (`Plain`), rests on `Racing`: a run that is still `clean` and about to add
  has seen that there is none, and there is none. `SuccessIsTrue` and `RepeatsAreQuiet`, for `Steady` functions (the first request makes the object and
  no other does, none undoes what another did, none writes what is only tried), rest on `Delivering`: what is not as declared yet is what the requests still
  to be sent, and the tasks of the run on their way, make, write or remove (`Left`, `Owes`), as long as the run is clean. `SuccessIsDeclared` alone
  says nothing of a run in the middle. `HalfMadeIsMadeWhole` needs in addition `Kept`: what the first
  request wrote, and no later run compares, is still there while only runs have written to the object; the
  rest of a half-made object is then what `Delivering` says the next run still owes. `Remakes` is for an `upsert` that may make the object anew.
  `FailuresAreCaused` is the converse of `SuccessIsTrue`: a run fails for a fault, because the object changed after it looked, or because what it is to change
  is not there, and never because one of its own requests is refused for what another did. It rests on `Meets` (what an undisturbed run needs is there, and no removal of its own is on
  its way) and on `Direct`, which all but the four functions satisfy that are not `Steady`; of these, the DRS rule does fail by itself, when the rule is added before its removal was carried out.
  Together the two say that one run that meets no fault and no other run leaves the object as declared once its tasks are carried out, which is the safety part of `RerunsConverge`.
  The functions that are not `Plain` (1), `Steady` (4) or `Remakes` (none) are those `NotPlain`, `NotSteady` and `NotRemade` name; for them the run is what there is.
- `SessionsProofs`. One invariant, `SessionsInv`: `Underway` (a request goes out with a session, and nothing is
  reported before), `InPlace` and `GoesOut` (whose sessions are in the cache, the refresh tokens and the context, and go out: the profile's own, or those put there `since`), `Renewed` (what an undisturbed call opened
  anew is accepted) and `Fresh` (what came under a key since it was emptied is accepted).
  `RequestsCountOnce`, `OneRepetitionIsEnough` and `EmptyingHelps` follow from one conjunct each, `AccountsMeetOnlySince` from `GoesOut` at the step that counts.
  `InPlace` is inductive because whatever is stored is added to `since` of everybody else in the same step, with `helper.keyed` for those whose keys are apart.
- `VroInstallProofs`. `SetupIsRunOnce` rests on `SetupInv`: between the look at the script and the
  restart, a run that was not misled leaves no script that would meet what it made (`Spared`), whatever the node does meanwhile.
  `OneRunIsEnough` rests on `RestoreInv`: an undisturbed remediation of a node that lacks its rule stays on a
  straight way (`Straight`) over a node at rest (`Settled`). `DeploymentIsComplete` from `CompleteInv`.

`DryRunSafe`, `ValidatedHolds`, `DeploymentIsComplete` and `FailuresAreCaused` (of which TLC has checked `FailuresHaveACause` on the instance of
`declared_runs`) prove properties that no run lists; they are cheap to prove and would
repeat a run's exploration. The type theorem of each module is what its others rest on.

`RequestsRunOutHolds`, in `VcPatchProofs`, `VlcmImageProofs` and `BringUpProofs`, is the half of "it returns" that is a safety property.
`Ahead` counts the requests a call or run can still make, from where it is and how many polls its deadlines leave, with the loop
inside `_precheck_when_allowed` multiplied by the rounds of the loop around it. Every request makes it
smaller, whatever is answered, and nothing that happens in between makes it larger. So no loop is
without a deadline and no failure starts one over; that leaves to fairness only that a call goes on. The bounds are
`2 * Budget + 5` requests for a bring-up and `17 * (Budget + 2)` for a highstate of the image. TLC has checked
`RequestsRunOut` on the instances of `vcpatch_calls`, `vlcm_repeat`, `vlcm_shared` and `bringup_runs`; the cfgs do not list it, since
the theorem says more.

With that, every invariant and every action property of a passing run is a theorem, the refinements of `PatchLifecycle` and
`OvaPush` among them. Model-checked only are the liveness properties (`CallsReturn`, `ShellsVanish`, `RunsEnd` twice, `RerunsConverge` three
times, `CallsHeal`): the prover handles neither fairness nor ENABLED. No lemma is about a recursive
definition, and the modules have none.

## 5. Not modelled, and why

- Formatting, comments and `changes` of the states; headers and URLs.
- Values: an argument is "as declared" or not. Where a state normalises before it compares, a
  definition says which difference is seen; the normalisation itself is not modelled.
- One process per job is assumed: the session of a process is not shared by
  concurrent calls, which is how a minion runs its jobs.
- The read-only functions (`vcf_esxi_vlcm.reported`, the getters and lists of clients and modules): they change nothing, and
  nothing in the repository acts on what they return.
- The docstring of `states/vcf_hcx.py` lists a `POST /hybridity/api/activate`; the client sends none, its
  `activate` changes nothing, and that is what `Activate` models.
- `ovftool_deploy` of the push: a subprocess, of which the code sees an exit code.
- Other appliances. They are the push of `OvaPush` and a line of first-boot requests, as `HcxInstall` is, but each with its own hazards.
  Avi logs in with the default password and changes it in its second step, so after a later step failed the appliance answers
  "already reachable" with its DNS, NTP or backup missing. vRLI compares the version only when the appliance was reachable before the deployment. vRNI pushes without `find_vm`, so
  a run after one that timed out in the first boot pushes again, and collectors that failed are not deployed by later runs.
- SDDC Manager, NSX and VCF Automation jobs: the loops are the submit-and-poll of `VlcmImage` and `BringUp`. What differs is the pause and resume of
  `clients/nsx_upgrade.py` and the two status fields of `utils/vmsp.py`.
- Fleet listings: pages of a list that changes while it is read; the result is shown and not acted on.
- About 150 clients and as many execution modules that turn one call into one request and over which there is no state
  function: no two of their calls are related by anything in the repository.
- The Salt resources framework, a mapping of pillar instances to the same clients; `vcf-infra/`, `solutions/` and docs, which are declarations and prose.
- The appliances themselves, but for what the code relies on.

## 6. What could come next

1. The other appliances as instances of one `ApplianceInstall`, of which `HcxInstall` would become one, with vRNI's push that does not look.
2. The pause and resume of `clients/nsx_upgrade.py` next to an upgrade that an administrator resumes.
3. `NothingIsHalfMade` and `SuccessIsDeclared` for the four functions that are not `Steady`, each with an invariant of its own.
4. A measure for the uploads of `OvfDeploy` and for the reruns of `HcxInstall` and `VroInstall`, as `Ahead` is one for the loops.
