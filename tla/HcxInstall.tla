----------------------------- MODULE HcxInstall -----------------------------
(***************************************************************************)
(* The state vcf_hcx.installed (states/vcf_hcx.py) applied again and again *)
(* to one HCX Manager, with the deploy function behind it                  *)
(* (modules/vcf_hcx.py) and the requests of clients/hcx_manager.py: push   *)
(* the OVA unless a VM of the name is there, wait for the front end, then  *)
(* register the appliance with vCenter and with an external SSO.           *)
(*                                                                         *)
(* The push is the one that OvaPush promises and OvfDeploy implements.     *)
(* The appliance boots in two steps: its front end answers endpointInfo    *)
(* before its admin plane takes a login.                                   *)
(***************************************************************************)
EXTENDS Integers, OvaPush

CONSTANTS
    Options,     \* the arguments, pillar and deploy spec of all the runs, see OptionSet
    WaitBudget,  \* setup_timeout, in polls
    ReadyBudget, \* the 60 s after the deployment, in polls
    Faults,      \* "conn", "lost", "push", "host", "outage", "crash"
    MaxFaults    \* bound: faults in one behaviour

(* pw: where an admin password is set.  "config" is what state and deploy  *)
(* both see (the kwarg deploy_spec, or hcx:password of the pillar); "spec" *)
(* is the deploy_spec of the pillar, which only deploy looks at.           *)
(* version: none is asked for, the one of the OVA, or another.             *)
OptionSet == [spec : BOOLEAN, pw : {"none", "spec", "config"}, sso : BOOLEAN,
              version : {"none", "same", "other"}]

FaultSet == {"conn", "lost", "push", "host", "outage", "crash"}

ASSUME InstallAssumption ==
    /\ PowerOn \in BOOLEAN
    /\ Options \subseteq OptionSet
    /\ WaitBudget \in Nat /\ ReadyBudget \in Nat /\ MaxFaults \in Nat
    /\ Faults \subseteq FaultSet

VARIABLES
    pc,         \* where the run is, "idle" between runs
    left,       \* polls before a deadline
    test,       \* test=True of the run
    outcome,    \* what the last run returned
    opt,        \* the options
    api,        \* how far the appliance is up
    trusted,    \* the appliance trusts the certificate of the vCenter
    registered, \* applianceConfiguration: the vCenter is registered
    lookup,     \* the external SSO is registered
    faults,     \* faults so far
    settled     \* history: registered and up when the run began, no fault since

runVars == <<pc, left, test, outcome, opt>>
hcxVars == <<api, trusted, registered, lookup>>
faultVars == <<faults, settled>>
vars == <<runVars, hcxVars, faultVars, pushVars>>

PCs == {"idle", "probe", "admin", "push", "wait", "activate", "configure", "register",
        "trust", "sso", "verify", "ready", "check"}
Outcomes == {"none", "already", "planned", "deployed", "drift", "failed"}

TypeOK ==
    /\ pc \in PCs /\ left \in Nat /\ test \in BOOLEAN /\ outcome \in Outcomes
    /\ opt \in OptionSet
    /\ api \in {"down", "front", "up"}
    /\ trusted \in BOOLEAN /\ registered \in BOOLEAN /\ lookup \in BOOLEAN
    /\ faults \in Nat /\ settled \in BOOLEAN
    /\ PushTypes

(***************************************************************************)
(* Faults, and how a request ends.                                         *)
(***************************************************************************)

Fault(kind) ==
    /\ kind \in Faults /\ faults < MaxFaults
    /\ faults' = faults + 1 /\ settled' = FALSE

Sound == UNCHANGED faultVars

Goto(label) == pc' = label /\ UNCHANGED <<left, outcome>>

Return(result) == pc' = "idle" /\ outcome' = result /\ UNCHANGED left

Await(label, budget) == pc' = label /\ left' = budget /\ UNCHANGED outcome

(* A request to the admin plane that does nothing and raises. *)
Refused == (api # "up" /\ Sound) \/ Fault("conn")

Answered == api = "up" /\ Sound

(* A request that took effect: the run goes on, or the answer is lost. *)
Then(next) == (Sound /\ next) \/ (Fault("lost") /\ Return("failed"))

OnlyAsks == UNCHANGED <<test, opt, hcxVars>>

(***************************************************************************)
(* installed: is there anything to do?                                     *)
(***************************************************************************)

Start(t) ==
    /\ pc = "idle"
    /\ pc' = "probe" /\ test' = t /\ outcome' = "none"
    /\ settled' = (registered /\ api = "up")
    /\ UNCHANGED <<left, opt, hcxVars, faults, pushVars>>

(* What follows when "about" is None, whatever the reason. *)
Unconfigured ==
    \/ ~opt.spec /\ Return("failed") /\ UNCHANGED pushVars
    \/ opt.spec /\ test /\ Return("planned") /\ UNCHANGED pushVars
    \/ opt.spec /\ ~test /\ Goto("push") /\ Call

(* endpointInfo; the state knows only the "config" password. *)
Probe ==
    /\ pc = "probe"
    /\ \/ /\ api # "down" /\ Sound
          /\ \/ opt.pw = "config" /\ Goto("admin") /\ UNCHANGED pushVars
             \/ opt.pw # "config" /\ Unconfigured
       \/ /\ (api = "down" /\ Sound) \/ Fault("conn")
          /\ Unconfigured
    /\ OnlyAsks

(* The dict that "about" is set to has no version: it differs from any. *)
VersionCheck(good) == IF opt.version = "none" THEN good ELSE "drift"

(* A slip: a body of the wrong shape is compared with True. *)
AdminWrongShape ==
    /\ pc = "admin"
    /\ Answered \/ Refused
    /\ Unconfigured
    /\ OnlyAsks

(* Login on the admin plane and applianceConfiguration. *)
Admin ==
    /\ pc = "admin"
    /\ \/ /\ Answered /\ registered
          /\ Return(IF test /\ opt.version # "none" THEN "planned" ELSE VersionCheck("already"))
          /\ UNCHANGED pushVars
       \/ /\ (Answered /\ ~registered) \/ Refused
          /\ Unconfigured
    /\ OnlyAsks

(***************************************************************************)
(* deploy: find_vm and the push, in the steps OvaPush allows.              *)
(***************************************************************************)

PushWorks ==
    /\ pc = "push"
    /\ \E m \in {"yes", "started"} : Work(m) /\ mine' = m
    /\ UNCHANGED <<busy, reply, runVars, hcxVars, faultVars>>

(* The VM of this push is gone, or its power-on task has failed. *)
Doomed == <<mine, vm>> \in {<<"yes", "none">>, <<"started", "off">>}

(* A slip: no find_vm, so that a name that is taken ends the run. *)
PushDoneNoFind ==
    /\ pc = "push" /\ Ends
    /\ \/ /\ reply' = "deployed" /\ vm' = vm /\ Sound
          /\ Await("wait", WaitBudget)
       \/ /\ reply' = "skipped" /\ vm' = vm /\ Sound
          /\ Return("failed")
       \/ /\ reply' = "failed"
          /\ (Doomed /\ Sound) \/ Fault("push")
          /\ Return("failed")
    /\ OnlyAsks

PushDone ==
    /\ pc = "push" /\ Ends
    /\ \/ /\ reply' \in {"deployed", "skipped"} /\ vm' = vm /\ Sound
          /\ Await("wait", WaitBudget)
       \/ /\ reply' = "failed"
          /\ (Doomed /\ Sound) \/ Fault("push")
          /\ Return("failed")
    /\ OnlyAsks

(***************************************************************************)
(* deploy: first boot.                                                     *)
(***************************************************************************)

(* A slip: the deadline is never looked at. *)
PollUndated(next) ==
    /\ \/ api # "down" /\ Sound /\ Goto(next)
       \/ /\ (api = "down" /\ Sound) \/ Fault("conn")
          /\ left' = left - 1 /\ UNCHANGED <<pc, outcome>>
    /\ OnlyAsks /\ UNCHANGED pushVars

(* One poll of wait_for_setup_ready. *)
Poll(next) ==
    /\ \/ api # "down" /\ Sound /\ Goto(next)
       \/ /\ (api = "down" /\ Sound) \/ Fault("conn")
          /\ \/ left = 0 /\ Return("failed")
             \/ left > 0 /\ left' \in 0..(left - 1) /\ UNCHANGED <<pc, outcome>>
    /\ OnlyAsks /\ UNCHANGED pushVars

Wait == pc = "wait" /\ Poll("activate")

(* activate asks for licenses and changes nothing. *)
Activate ==
    /\ pc = "activate"
    /\ \/ opt.pw = "none" /\ Sound /\ Goto("configure")
       \/ opt.pw # "none" /\ Answered /\ Goto("configure")
       \/ opt.pw # "none" /\ Refused /\ Return("failed")
    /\ OnlyAsks /\ UNCHANGED pushVars

(* configure_vcenter up to its short circuit, which skips the SSO as well. *)
Configure ==
    /\ pc = "configure"
    /\ \/ opt.pw = "none" /\ Sound /\ Return("failed")
       \/ opt.pw # "none" /\ Refused /\ Return("failed")
       \/ opt.pw # "none" /\ Answered /\ registered /\ Await("ready", ReadyBudget)
       \/ opt.pw # "none" /\ Answered /\ ~registered /\ Goto("register")
    /\ OnlyAsks /\ UNCHANGED pushVars

(* POST vcenter: a 400 with a certificate asks for trust. *)
Register ==
    /\ pc = "register"
    /\ \/ /\ api = "up" /\ trusted
          /\ registered' = TRUE
          /\ Then(Goto(IF opt.sso THEN "sso" ELSE "verify"))
       \/ /\ \/ Answered /\ ~trusted /\ Goto("trust")
             \/ Refused /\ Return("failed")
          /\ UNCHANGED registered
    /\ UNCHANGED <<test, opt, api, trusted, lookup, pushVars>>

(* A slip: the POST that was refused is not sent again. *)
TrustNoRetry ==
    /\ pc = "trust"
    /\ \/ api = "up" /\ trusted' = TRUE /\ Then(Goto(IF opt.sso THEN "sso" ELSE "verify"))
       \/ Refused /\ Return("failed") /\ UNCHANGED trusted
    /\ UNCHANGED <<test, opt, api, registered, lookup, pushVars>>

(* POST certificates, and once more. *)
Trust ==
    /\ pc = "trust"
    /\ \/ api = "up" /\ trusted' = TRUE /\ Then(Goto("register"))
       \/ Refused /\ Return("failed") /\ UNCHANGED trusted
    /\ UNCHANGED <<test, opt, api, registered, lookup, pushVars>>

Sso ==
    /\ pc = "sso"
    /\ \/ api = "up" /\ lookup' = TRUE /\ Then(Goto("verify"))
       \/ Refused /\ Return("failed") /\ UNCHANGED lookup
    /\ UNCHANGED <<test, opt, api, trusted, registered, pushVars>>

(* The answer is passed on; only an error status raises. *)
Verify ==
    /\ pc = "verify"
    /\ \/ Answered /\ Await("ready", ReadyBudget)
       \/ Refused /\ Return("failed")
    /\ OnlyAsks /\ UNCHANGED pushVars

(***************************************************************************)
(* installed: the probe after the deployment, which looks at no answer.    *)
(***************************************************************************)

Ready == pc = "ready" /\ Poll("check")

CheckInstalled ==
    /\ pc = "check"
    /\ \/ opt.pw # "config" /\ Sound /\ Return(VersionCheck("deployed"))
       \/ opt.pw = "config" /\ Answered /\ Return(VersionCheck("deployed"))
       \/ opt.pw = "config" /\ Refused /\ Return("failed")
    /\ OnlyAsks /\ UNCHANGED pushVars

(* The process of the minion ends; a push ends in whatever state it is. *)
Crash ==
    /\ pc # "idle" /\ Fault("crash")
    /\ pc' = "idle" /\ outcome' = "failed"
    /\ mine' = "no" /\ busy' = FALSE
    /\ reply' = IF pc = "push" THEN "failed" ELSE reply
    /\ UNCHANGED <<vm, left, test, opt, hcxVars>>

(***************************************************************************)
(* The host and the appliance.                                             *)
(***************************************************************************)

(* The lease of a push under way, or a power-on, ends badly by a fault; the *)
(* lease nobody cares for any more just expires. *)
HostSettles ==
    /\ Settle
    /\ \/ vm' = "on" /\ Sound
       \/ vm' = "none" /\ mine = "no" /\ Sound
       \/ vm' # "on" /\ mine # "no" /\ Fault("host")
       \/ vm' = "off" /\ mine = "no" /\ Fault("host")
    /\ UNCHANGED <<busy, mine, reply, runVars, hcxVars>>

Boot ==
    /\ vm = "on" /\ api # "up"
    /\ api' = IF api = "down" THEN "front" ELSE "up"
    /\ UNCHANGED <<runVars, trusted, registered, lookup, faultVars, pushVars>>

(* The appliance restarts. *)
Outage ==
    /\ api # "down" /\ Fault("outage")
    /\ api' = "down"
    /\ UNCHANGED <<runVars, trusted, registered, lookup, pushVars>>

(***************************************************************************)
(* Specification.                                                          *)
(***************************************************************************)

(* Nothing of that name is there; the certificate of the vCenter may be    *)
(* one the appliance trusts from the start. *)
Init ==
    /\ pc = "idle" /\ left = 0 /\ test = FALSE /\ outcome = "none"
    /\ opt \in Options
    /\ api = "down" /\ trusted \in BOOLEAN /\ registered = FALSE /\ lookup = FALSE
    /\ faults = 0 /\ settled = FALSE
    /\ PushInit

FirstBoot == Wait \/ Activate \/ Configure \/ Register \/ Trust \/ Sso \/ Verify

Step == Probe \/ Admin \/ PushWorks \/ PushDone \/ FirstBoot \/ Ready \/ CheckInstalled

Environment == Crash \/ HostSettles \/ Boot \/ Outage

Next == (\E t \in BOOLEAN : Start(t)) \/ Step \/ Environment

Spec == Init /\ [][Next]_vars

(* Runs go on, the host and the appliance do what they have begun, and the *)
(* state is applied for real again and again. *)
FairSpec ==
    /\ Spec
    /\ WF_vars(Step) /\ WF_vars(HostSettles) /\ WF_vars(Boot)
    /\ SF_vars(Start(FALSE))

(***************************************************************************)
(* Properties.                                                             *)
(***************************************************************************)

Success == {"already", "deployed"}

(* A run that returns True has an appliance that runs and knows its        *)
(* vCenter, although the last probe does not look at what it reads. *)
SuccessIsTrue == outcome \in Success => vm = "on" /\ registered

(* A run that meets a registered appliance that is up, and no fault, asks  *)
(* two questions and nothing else: it never comes near the deployment. *)
RepeatIsNoOp == settled /\ opt.pw = "config" => pc \in {"idle", "probe", "admin"}

(* A run with test=True creates no VM and registers nothing, whatever the  *)
(* state of the appliance and whatever fails. *)
DryRunMutatesNothing ==
    [][test => UNCHANGED <<trusted, registered, lookup>> /\ (busy' => ~test')]_vars

Able == opt.spec /\ opt.pw # "none" /\ opt.version = "none"

(* With everything it needs, the state can be applied until it succeeds:   *)
(* no run leaves a half-deployed or half-registered appliance that every   *)
(* later one fails on, but for a VM that was never powered on. *)
RerunsConverge ==
    Able => <>[](outcome # "none" /\ ~test => outcome \in Success) \/ <>[](vm = "off")

(* "Deployed, activated, and registered with vCenter/SSO": after a run     *)
(* that returns True, the SSO that was asked for is registered as well. *)
SsoIsRegistered == outcome \in Success /\ opt.sso => lookup

(***************************************************************************)
(* What SuccessIsTrue and RepeatIsNoOp rest on.                            *)
(***************************************************************************)

InstallInv ==
    /\ api # "down" => vm = "on"
    /\ registered => vm = "on"
    /\ pc \in {"sso", "verify", "ready", "check"} => registered
    /\ outcome \in Success => registered
    /\ settled => registered /\ api = "up"
    /\ settled /\ opt.pw = "config" => pc \in {"idle", "probe", "admin"}
    /\ busy <=> pc = "push"
    /\ ~busy => mine = "no"
    /\ test => pc \in {"idle", "probe", "admin"}
=============================================================================
