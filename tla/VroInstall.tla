----------------------------- MODULE VroInstall -----------------------------
(***************************************************************************)
(* The two states that bring a vRO appliance up, applied again and again   *)
(* by one minion in any order: vcf_vro.installed (states/vcf_vro.py), with *)
(* the deploy function behind it (modules/vcf_vro.py) and the requests of  *)
(* clients/vro_orchestrator.py, and vcf_vro_bootstrap.remediate, which is  *)
(* VroBootstrap.                                                           *)
(*                                                                         *)
(* installed pushes the OVA unless a VM of the name is there, waits for    *)
(* the API, joins the SSO, which restarts the appliance, waits once more   *)
(* and installs a license.  Its only question before all that is whether   *)
(* the API answers, which is what a remediation ends with.                 *)
(***************************************************************************)
EXTENDS VroBootstrap, OvaPush

CONSTANT Options \* the deploy spec and the version asked for, see OptionSet

(* A version that matches the one of the appliance is as good as none. *)
OptionSet == [spec : BOOLEAN, sso : BOOLEAN, license : BOOLEAN, version : {"none", "other"}]

ASSUME VroAssumption == PowerOn \in BOOLEAN /\ Options \subseteq OptionSet

VARIABLES
    opt,        \* the options
    joined,     \* the appliance is joined to the SSO
    licensed,   \* it has its license
    restarting  \* it is about to restart, after the join

productVars == <<opt, joined, licensed, restarting>>
vars == <<bootstrapVars, pushVars, productVars>>

Installation == {"probe", "push", "wait", "join", "again", "license", "about"}
Outcomes == {"none", "already", "planned", "remediated", "deployed", "drift", "failed"}

TypeOK ==
    /\ BootstrapTypes /\ PushTypes
    /\ pc \in {"idle"} \cup Remediation \cup Installation
    /\ outcome \in Outcomes
    /\ opt \in OptionSet
    /\ joined \in BOOLEAN /\ licensed \in BOOLEAN /\ restarting \in BOOLEAN

(***************************************************************************)
(* How a request to the appliance ends.                                    *)
(***************************************************************************)

Refused == (~Serving /\ Sound) \/ Fault("conn")

Takes(next) == (Sound /\ next) \/ (Fault("lost") /\ Return("failed"))

NodeAside == UNCHANGED <<nodeVars, podVars, unsure, hasty>>

(***************************************************************************)
(* installed.                                                              *)
(***************************************************************************)

(* A dry run asks nothing. *)
Install(test) ==
    /\ pc = "idle"
    /\ \/ test /\ Return("planned")
       \/ ~test /\ pc' = "probe" /\ outcome' = "none" /\ UNCHANGED <<left, seen>>
    /\ calm' = FALSE
    /\ NodeAside /\ UNCHANGED <<faults, pushVars, productVars>>

VersionCheck(good) == IF opt.version = "none" THEN good ELSE "drift"

Probe ==
    /\ pc = "probe"
    /\ \/ Serving /\ Sound /\ Return(VersionCheck("already")) /\ UNCHANGED pushVars
       \/ Refused /\ ~opt.spec /\ Return("failed") /\ UNCHANGED pushVars
       \/ Refused /\ opt.spec /\ Goto("push") /\ Call
    /\ NodeAside /\ UNCHANGED productVars

PushWorks ==
    /\ pc = "push"
    /\ \E m \in {"yes", "started"} : Work(m) /\ mine' = m
    /\ UNCHANGED <<busy, reply, bootstrapVars, productVars>>

(* The VM of this push is gone, or its power-on task has failed. *)
Doomed == <<mine, vm>> \in {<<"yes", "none">>, <<"started", "off">>}

PushDone ==
    /\ pc = "push" /\ Ends
    /\ \/ /\ reply' \in {"deployed", "skipped"} /\ vm' = vm /\ Sound
          /\ Await("wait")
       \/ /\ reply' = "failed"
          /\ (Doomed /\ Sound) \/ Fault("push")
          /\ Return("failed")
    /\ NodeAside /\ UNCHANGED productVars

(* What is missing in the spec is missed after the first boot. *)
Wait ==
    /\ pc = "wait"
    /\ Poll(IF opt.sso THEN Goto("join") ELSE Return("failed"), Return("failed"))
    /\ UNCHANGED <<nodeVars, podVars, pushVars, productVars>>

Join ==
    /\ pc = "join"
    /\ \/ /\ Serving /\ joined' = TRUE /\ restarting' = TRUE
          /\ Takes(Await("again"))
       \/ Refused /\ Return("failed") /\ UNCHANGED <<joined, restarting>>
    /\ NodeAside /\ UNCHANGED <<pushVars, opt, licensed>>

(* The API may still answer: the restart is not over, it has not begun. *)
WaitAgain ==
    /\ pc = "again"
    /\ Poll(Goto("license"), Return("failed"))
    /\ UNCHANGED <<nodeVars, podVars, pushVars, productVars>>

License ==
    /\ pc = "license"
    /\ \/ ~opt.license /\ Sound /\ Goto("about") /\ UNCHANGED licensed
       \/ opt.license /\ Serving /\ licensed' = TRUE /\ Takes(Goto("about"))
       \/ opt.license /\ Refused /\ Return("failed") /\ UNCHANGED licensed
    /\ NodeAside /\ UNCHANGED <<pushVars, opt, joined, restarting>>

About ==
    /\ pc = "about"
    /\ \/ Serving /\ Sound /\ Return(VersionCheck("deployed"))
       \/ Refused /\ Return("failed")
    /\ NodeAside /\ UNCHANGED <<pushVars, productVars>>

(***************************************************************************)
(* The two states, the minion, the host and the appliance.                 *)
(***************************************************************************)

(* The first command of a remediation asks the machine for its name. *)
Unreachable == /\ pc = "serving" /\ vm # "on"
               /\ Sound /\ Return("failed") /\ NodeAside /\ UNCHANGED <<pushVars, productVars>>

Remediates == /\ vm = "on" /\ RemediationStep /\ UNCHANGED <<pushVars, productVars>>

BeginRemediation(test) == /\ Remediate(test, vm = "on" /\ ~restarting)
                          /\ UNCHANGED <<pushVars, productVars>>

Step == Probe \/ PushWorks \/ PushDone \/ Wait \/ Join \/ WaitAgain \/ License \/ About
        \/ Unreachable \/ Remediates

(* The process of the minion ends; a push ends in whatever state it is. *)
Crash ==
    /\ pc # "idle" /\ Fault("crash")
    /\ Return("failed")
    /\ mine' = "no" /\ busy' = FALSE
    /\ reply' = IF pc = "push" THEN "failed" ELSE reply
    /\ NodeAside /\ UNCHANGED <<vm, productVars>>

(* The lease of a push under way, or a power-on, ends badly by a fault; the *)
(* lease nobody cares for any more just expires. *)
HostSettles ==
    /\ Settle
    /\ \/ (vm' = "on" \/ (vm' = "none" /\ mine = "no")) /\ Sound
       \/ (vm' = "off" \/ (vm' = "none" /\ mine # "no")) /\ Fault("host")
    /\ NodeAside /\ UNCHANGED <<busy, mine, reply, runVars, productVars>>

Node == /\ vm = "on" /\ (NodeGoesOn \/ NodeFails) /\ UNCHANGED <<pushVars, productVars>>

(* The restart that the join has asked for. *)
SsoRestart ==
    /\ vm = "on" /\ restarting /\ restarting' = FALSE
    /\ Restarts /\ Sound
    /\ UNCHANGED <<pushVars, opt, joined, licensed>>

Init ==
    /\ BootstrapInit /\ PushInit
    /\ opt \in Options
    /\ joined = FALSE /\ licensed = FALSE /\ restarting = FALSE

Next ==
    \/ \E test \in BOOLEAN : Install(test) \/ BeginRemediation(test)
    \/ Step \/ Crash \/ HostSettles \/ Node \/ SsoRestart

Spec == Init /\ [][Next]_vars

(* Runs go on, and the host and the appliance do what they have begun. *)
FairSpec ==
    /\ Spec
    /\ WF_vars(Step) /\ WF_vars(HostSettles) /\ WF_vars(SsoRestart)
    /\ WF_vars(Node /\ ServiceStarts) /\ WF_vars(Node /\ (SetUpAgain \/ SetsUp \/ Deploys))
    /\ WF_vars(Node /\ Joins) /\ WF_vars(Node /\ PodStarts) /\ WF_vars(Node /\ UnitRuns)

(***************************************************************************)
(* Properties.                                                             *)
(***************************************************************************)

(* 02-setup-kubernetes, which destroys the certificates of a node when it  *)
(* runs again, runs again on no node that has its admin.conf, unless a     *)
(* remediation came while the first boot was under way, took a command     *)
(* that was lost for a "no", or the machine restarted. *)
SetupRunsOnce == boot = "etcd" /\ script /\ etcd /\ admin => hasty

(* On a node that is set up, and has a pod and a NAT table that is in      *)
(* order but for the rule of that pod, one remediation brings the API      *)
(* back, whatever it finds done already; only a fault makes it fail. *)
OneRunRestores == calm /\ pc = "idle" => outcome \in {"already", "remediated"}

(* A run that went through the deployment itself has left nothing out,     *)
(* whatever was lost on the way and however often the appliance restarts. *)
DeployedIsComplete == outcome = "deployed" => vm = "on" /\ joined /\ (opt.license => licensed)

(* A first boot that was cut between its directory and its admin.conf      *)
(* fails for ever: the script is left in place, for "a fresh firstboot". *)
Trapped == etcd /\ ~admin

(* An address that came back has its rule, behind that of another one. *)
Shadowed == envoy \in known /\ top # envoy

(* "The state converges to a green result on repeated runs", if they are   *)
(* patient: a remediation that comes while the first boot is under way     *)
(* starts it again.  Nothing else stands in the way of the API, but for a  *)
(* first boot that is trapped and an address that is shadowed. *)
RerunsConverge ==
    []<>(pc = "serving") /\ <>[][pc = "idle" /\ pc' # "idle" => AtRest /\ ~restarting]_vars
      => <>[](vm = "off") \/ <>[](Trapped \/ Shadowed \/ Serving)
=============================================================================
