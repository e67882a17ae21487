---------------------------- MODULE VroBootstrap ----------------------------
(***************************************************************************)
(* The first boot of a vRO appliance and the state that repairs it,        *)
(* vcf_vro_bootstrap.remediate: five steps over SSH                        *)
(* (modules/vcf_vro_bootstrap.py), each of which asks the appliance        *)
(* whether there is something to do, and a last look at its API.           *)
(*                                                                         *)
(* The appliance goes on by itself meanwhile: run-bootstrap.service works  *)
(* through its scripts, the kubelet joins, pods start and get addresses,   *)
(* the machine restarts.  A command that does not get through raises when  *)
(* its exit code is checked, and is read as a "no" when it is not.         *)
(***************************************************************************)
EXTENDS Naturals

CONSTANTS
    Pods,     \* the addresses the envoy pod may get
    NoPod,    \* none of them
    Polls,    \* polls before each deadline of the remediation
    Faults,   \* "conn", "ssh", "slow", "break", "pod", "reboot", see FaultSet
    MaxFaults \* bound: faults in one behaviour

(* Those of the installation, "lost", "push", "host" and "crash", count as *)
(* well. *)
FaultSet == {"conn", "ssh", "slow", "break", "pod", "reboot", "lost", "push", "host", "crash"}

ASSUME BootstrapAssumption ==
    /\ NoPod \notin Pods
    /\ Faults \subseteq FaultSet
    /\ Polls \in Nat /\ MaxFaults \in Nat

VARIABLES
    hosts,    \* /etc/hosts resolves the name of the appliance
    script,   \* 02-setup-kubernetes is where the first boot looks for it
    etcd,     \* /var/lib/etcd exists
    admin,    \* /etc/kubernetes/admin.conf exists
    kubelet,  \* the kubelet and its certificate
    boot,     \* run-bootstrap.service, and how far it is
    charts,   \* the pods of the product are deployed
    envoy,    \* the address of the running envoy pod
    top,      \* where the first rule of the NAT table sends port 443 to
    known,    \* the addresses some rule sends it to
    unit,     \* vro-envoy-dnat.service
    armed,    \* that unit has still to run since the restart
    pc,       \* where the run is, "idle" between runs
    left,     \* polls before a deadline
    seen,     \* the address of the pod, as the run read it
    outcome,  \* what the last run returned
    faults,   \* faults so far
    unsure,   \* history: the run took a lost command for a "no", or a first boot went
              \* on since it looked at the script
    hasty,    \* history: the first boot was begun by such a run, over a running one,
              \* or by a restart of the machine
    calm      \* history: a remediation of a node that only lacks its rule, and no
              \* fault since it began

nodeVars == <<hosts, script, etcd, admin, kubelet, boot, charts>>
podVars == <<envoy, top, known, unit, armed>>
runVars == <<pc, left, seen, outcome>>
historyVars == <<faults, unsure, hasty, calm>>
bootstrapVars == <<nodeVars, podVars, runVars, historyVars>>

Remediation == {"serving", "hosts", "script", "kubelet", "wipe", "joins", "service",
                "restart", "restarts", "settles", "dnat", "rule", "unit", "verify"}

BootstrapTypes ==
    /\ hosts \in BOOLEAN /\ script \in BOOLEAN /\ etcd \in BOOLEAN /\ admin \in BOOLEAN
    /\ kubelet \in {"none", "joining", "ready", "stale"}
    /\ boot \in {"new", "etcd", "certs", "pods", "charts", "failed", "done"}
    /\ charts \in BOOLEAN
    /\ envoy \in Pods \cup {NoPod} /\ top \in Pods \cup {NoPod}
    /\ known \in SUBSET (Pods \cup {NoPod})
    /\ unit \in {"none", "file", "enabled"} /\ armed \in BOOLEAN
    /\ left \in Nat /\ seen \in Pods \cup {NoPod}
    /\ faults \in Nat /\ unsure \in BOOLEAN /\ hasty \in BOOLEAN /\ calm \in BOOLEAN

(***************************************************************************)
(* Faults, and how a command ends.                                         *)
(***************************************************************************)

Fault(kind) ==
    /\ kind \in Faults /\ faults < MaxFaults
    /\ faults' = faults + 1 /\ calm' = FALSE

Sound == UNCHANGED <<faults, calm>>

Goto(label) == pc' = label /\ UNCHANGED <<left, seen, outcome>>
Await(label) == pc' = label /\ left' = Polls /\ UNCHANGED <<seen, outcome>>
Return(result) == pc' = "idle" /\ outcome' = result /\ UNCHANGED <<left, seen>>

(* SshError ends the run; a command whose exit code nobody checks only     *)
(* raises it when the client has waited too long. *)
Raises == (Fault("ssh") \/ Fault("slow")) /\ Return("failed") /\ UNCHANGED <<unsure, hasty>>
TimesOut == Fault("slow") /\ Return("failed") /\ UNCHANGED <<unsure, hasty>>

(* Such a command got through, or the run takes its failure for a "no". *)
Reads == Sound /\ UNCHANGED <<unsure, hasty>>
Misreads == Fault("ssh") /\ unsure' = TRUE /\ UNCHANGED hasty

(* A checked command took effect: the run goes on, or its answer was lost. *)
Then(next) == (Reads /\ next) \/ Raises

(* GET /vco/api/about gets through to the pod. *)
Serving == envoy # NoPod /\ top = envoy

(***************************************************************************)
(* The appliance, as the comments of the module and its probes have it.    *)
(***************************************************************************)

Booting == boot \in {"etcd", "certs", "pods", "charts"}

NodeOnly == UNCHANGED <<hosts, script, podVars, runVars, faults, unsure, calm>>

ServiceStarts == boot = "new" /\ boot' = "etcd" /\ NodeOnly
                 /\ UNCHANGED <<etcd, admin, kubelet, charts, hasty>>

(* 02-setup-kubernetes regenerates the CAs on every run, which invalidates *)
(* the certificate of the kubelet, and fails on a directory that exists. *)
SetUpAgain ==
    /\ boot = "etcd" /\ script /\ etcd
    /\ boot' = "failed"
    /\ kubelet' \in {kubelet} \cup (IF kubelet = "none" THEN {} ELSE {"stale"})
    /\ NodeOnly /\ UNCHANGED <<etcd, admin, charts, hasty>>

(* It makes the directory, the certificates and admin.conf, and asks the   *)
(* kubelet for its pods, by the name of the appliance. *)
SetsUp ==
    /\ \/ /\ boot = "etcd" /\ script /\ ~etcd
          /\ etcd' = TRUE /\ boot' = "certs" /\ UNCHANGED <<admin, kubelet>>
       \/ /\ boot = "certs"
          /\ admin' = TRUE /\ kubelet' = "joining" /\ boot' = "pods" /\ UNCHANGED etcd
       \/ /\ boot = "pods" /\ (hosts => kubelet \in {"ready", "stale"})
          /\ boot' = IF hosts /\ kubelet = "ready" THEN "charts" ELSE "failed"
          /\ UNCHANGED <<etcd, admin, kubelet>>
    /\ NodeOnly /\ UNCHANGED <<charts, hasty>>

(* The rest of the first boot deploys the charts on a node that is ready. *)
Deploys ==
    /\ \/ boot = "etcd" /\ ~script /\ boot' = "charts" /\ UNCHANGED charts
       \/ boot = "charts" /\ kubelet = "ready" /\ boot' = "done" /\ charts' = TRUE
       \/ boot = "charts" /\ kubelet # "ready" /\ boot' = "failed" /\ UNCHANGED charts
    /\ NodeOnly /\ UNCHANGED <<etcd, admin, kubelet, hasty>>

Joins == kubelet = "joining" /\ admin /\ kubelet' = "ready" /\ NodeOnly
         /\ UNCHANGED <<etcd, admin, boot, charts, hasty>>

Breaks == Booting /\ Fault("break") /\ boot' = "failed"
          /\ UNCHANGED <<hosts, script, etcd, admin, kubelet, charts, podVars, runVars, unsure, hasty>>

PodStarts == /\ charts /\ kubelet = "ready" /\ envoy = NoPod
             /\ envoy' \in Pods
             /\ UNCHANGED <<nodeVars, top, known, unit, armed, runVars, historyVars>>

PodEnds == /\ envoy # NoPod /\ Fault("pod") /\ envoy' = NoPod
           /\ UNCHANGED <<nodeVars, top, known, unit, armed, runVars, unsure, hasty>>

(* A new rule comes first, before those for other addresses. *)
Forwards(address) == top' = address /\ known' = known \cup {address}

(* The unit runs once after a restart.  It is written from a plain string, *)
(* so its template for kubectl has the doubled braces of a format string:  *)
(* a kubectl that refuses it gives no address, and the unit ends well. *)
UnitRuns ==
    /\ armed /\ armed' = FALSE
    /\ \/ UNCHANGED <<top, known>>
       \/ envoy \notin {NoPod} \cup known /\ Forwards(envoy)
    /\ UNCHANGED <<nodeVars, envoy, unit, runVars, historyVars>>

(* The machine restarts: rules are gone, pods start anew, and a first boot *)
(* that was not through may start again. *)
Restarts ==
    /\ envoy' = NoPod /\ top' = NoPod /\ known' = {} /\ armed' = (unit = "enabled")
    /\ kubelet' = IF kubelet = "ready" THEN "joining" ELSE kubelet
    /\ boot' \in IF boot = "done" THEN {"done"} ELSE {"etcd", "failed"}
    /\ hasty' = (hasty \/ boot' = "etcd")
    /\ unsure' = (unsure \/ boot' = "etcd")
    /\ UNCHANGED <<hosts, script, etcd, admin, charts, unit, runVars>>

Reboots == Fault("reboot") /\ Restarts

NodeGoesOn == ServiceStarts \/ SetUpAgain \/ SetsUp \/ Deploys \/ Joins \/ PodStarts \/ UnitRuns

NodeFails == Breaks \/ PodEnds \/ Reboots

(* Nothing changes any more unless somebody acts. *)
AtRest ==
    /\ boot \in {"failed", "done"} /\ kubelet # "joining" /\ ~armed
    /\ charts /\ kubelet = "ready" => envoy # NoPod

(***************************************************************************)
(* remediate: is there anything to do?                                     *)
(***************************************************************************)

(* A slip: nobody looks whether the deadline has passed. *)
PollUndated(next, giveUp) ==
    /\ \/ Serving /\ Sound /\ next
       \/ /\ (~Serving /\ Sound) \/ Fault("conn")
          /\ left' = left - 1 /\ UNCHANGED <<pc, seen, outcome>>
    /\ UNCHANGED <<unsure, hasty>>

Poll(next, giveUp) ==
    /\ \/ Serving /\ Sound /\ next
       \/ /\ (~Serving /\ Sound) \/ Fault("conn")
          /\ \/ left = 0 /\ giveUp
             \/ left > 0 /\ left' \in 0..(left - 1) /\ UNCHANGED <<pc, seen, outcome>>
    /\ UNCHANGED <<unsure, hasty>>

(* verify asks for the name of the appliance before it polls. *)
AlreadyServing ==
    /\ pc = "serving"
    /\ Poll(Return("already"), Goto("hosts")) \/ Raises
    /\ UNCHANGED <<nodeVars, podVars>>

(* fix_hosts: every command is checked. *)
fix_hosts ==
    /\ pc = "hosts"
    /\ \/ Raises /\ UNCHANGED hosts
       \/ hosts' = TRUE /\ Then(Goto("script"))
    /\ UNCHANGED <<script, etcd, admin, kubelet, boot, charts, podVars>>

(* A slip: the script is left in place for a kubelet that is not healthy,  *)
(* as the docstring has it. *)
disable_setup_kubernetes_if_healthy ==
    /\ pc = "script"
    /\ \/ /\ ~(script /\ admin /\ kubelet = "ready") /\ Sound
          /\ unsure' = (unsure \/ Booting \/ boot = "new") /\ UNCHANGED hasty
          /\ Goto("kubelet") /\ UNCHANGED script
       \/ script /\ admin /\ kubelet = "ready" /\ script' = FALSE /\ Then(Goto("kubelet"))
       \/ TimesOut /\ UNCHANGED script
    /\ UNCHANGED <<hosts, etcd, admin, kubelet, boot, charts, podVars>>

(* disable_setup_kubernetes_firstboot: only the move is checked. *)
disable_setup_kubernetes ==
    /\ pc = "script"
    /\ \/ /\ \/ ~(script /\ admin) /\ Sound /\ unsure' = (unsure \/ Booting \/ boot = "new")
                /\ UNCHANGED hasty
             \/ Misreads
          /\ Goto("kubelet") /\ UNCHANGED script
       \/ script /\ admin /\ script' = FALSE /\ Then(Goto("kubelet"))
       \/ /\ (script /\ admin /\ Raises) \/ TimesOut
          /\ UNCHANGED script
    /\ UNCHANGED <<hosts, etcd, admin, kubelet, boot, charts, podVars>>

(***************************************************************************)
(* rebootstrap_kubelet_if_notready: no answer is as good as NotReady.      *)
(***************************************************************************)

kubelet_ready ==
    /\ pc = "kubelet"
    /\ \/ Reads /\ (admin => kubelet = "ready") /\ Goto("service")
       \/ Reads /\ admin /\ kubelet # "ready" /\ Goto("wipe")
       \/ Misreads /\ (Goto("service") \/ (admin /\ Goto("wipe")))
       \/ TimesOut
    /\ UNCHANGED <<nodeVars, podVars>>

wipe_kubelet ==
    /\ pc = "wipe"
    /\ \/ Raises /\ UNCHANGED kubelet
       \/ kubelet' = "joining" /\ Then(Await("joins"))
    /\ UNCHANGED <<hosts, script, etcd, admin, boot, charts, podVars>>

(* Two minutes for the node to become ready, and then on in any case. *)
AwaitReady ==
    /\ pc = "joins"
    /\ \/ Reads /\ kubelet = "ready" /\ Goto("service")
       \/ /\ (Reads /\ kubelet # "ready") \/ Misreads
          /\ \/ left = 0 /\ Goto("service")
             \/ left > 0 /\ left' \in 0..(left - 1) /\ UNCHANGED <<pc, seen, outcome>>
       \/ TimesOut
    /\ UNCHANGED <<nodeVars, podVars>>

(***************************************************************************)
(* rerun_firstboot.                                                        *)
(***************************************************************************)

(* A slip: a first boot that failed is one that is over. *)
SucceededOrFailed == boot \in {"new", "done", "failed"}

(* A unit that never ran is inactive, and its result is a success. *)
Succeeded == boot \in {"new", "done"}

firstboot_completed ==
    /\ pc = "service"
    /\ \/ Reads /\ Succeeded /\ Goto("dnat")
       \/ ((Reads /\ ~Succeeded) \/ Misreads) /\ Goto("restart")
       \/ TimesOut
    /\ UNCHANGED <<nodeVars, podVars>>

(* systemctl restart, of a first boot that may be running. *)
restart_firstboot ==
    /\ pc = "restart"
    /\ \/ /\ boot' = "etcd" /\ hasty' = (Booting \/ unsure)
          /\ Sound /\ Goto("restarts") /\ UNCHANGED unsure
       \/ Misreads /\ Await("settles") /\ UNCHANGED boot
       \/ TimesOut /\ UNCHANGED boot
    /\ UNCHANGED <<hosts, script, etcd, admin, kubelet, charts, podVars>>

(* The command returns when the service is through, which is a oneshot;    *)
(* _ssh waits for 60 seconds at most, whatever firstboot_timeout is, and a *)
(* connection that breaks meanwhile counts like its end. *)
AwaitRestart ==
    /\ pc = "restarts"
    /\ \/ Reads /\ ~Booting /\ Await("settles")
       \/ Reads /\ Booting /\ Return("failed")
       \/ Misreads /\ Await("settles")
    /\ UNCHANGED <<nodeVars, podVars>>

(* A first boot that failed, or that takes too long, is only noted down. *)
AwaitFirstboot ==
    /\ pc = "settles"
    /\ \/ Reads /\ ~Booting /\ Goto("dnat")
       \/ /\ (Reads /\ Booting) \/ Misreads
          /\ \/ left = 0 /\ Goto("dnat")
             \/ left > 0 /\ left' \in 0..(left - 1) /\ UNCHANGED <<pc, seen, outcome>>
       \/ TimesOut
    /\ UNCHANGED <<nodeVars, podVars>>

(***************************************************************************)
(* ensure_envoy_dnat.  PREROUTING stands for both chains: a run that fails *)
(* between the two rules has made the first.                               *)
(***************************************************************************)

envoy_pod_ip ==
    /\ pc = "dnat"
    /\ \/ Reads /\ envoy # NoPod
          /\ pc' = "rule" /\ seen' = envoy /\ UNCHANGED <<left, outcome>>
       \/ ((Reads /\ envoy = NoPod) \/ Misreads) /\ Await("verify")
       \/ TimesOut
    /\ UNCHANGED <<nodeVars, podVars>>

(* A slip: the rule is appended. *)
AppendRule ==
    /\ pc = "rule" /\ Reads /\ Goto("unit")
    /\ known' = known \cup {seen}
    /\ top' = IF known = {} THEN seen ELSE top
    /\ UNCHANGED <<nodeVars, envoy, unit, armed>>

(* A rule for the address is enough, wherever it is in the table. *)
InsertRule ==
    /\ pc = "rule"
    /\ \/ Reads /\ seen \in known /\ Goto("unit") /\ UNCHANGED <<top, known>>
       \/ Reads /\ seen \notin known /\ Forwards(seen) /\ Goto("unit")
       \/ Misreads /\ Forwards(seen) /\ Goto("unit")
       \/ Raises /\ UNCHANGED <<top, known>>
       \/ Raises /\ seen \notin known /\ Forwards(seen)
    /\ UNCHANGED <<nodeVars, envoy, unit, armed>>

(* The unit is written and then enabled; who finds it does not look        *)
(* whether it is enabled. *)
PersistRule ==
    /\ pc = "unit"
    /\ \/ Reads /\ unit # "none" /\ Await("verify") /\ UNCHANGED unit
       \/ ((Reads /\ unit = "none") \/ Misreads) /\ unit' = "enabled" /\ Await("verify")
       \/ Misreads /\ unit = "none" /\ unit' = "file" /\ Await("verify")
       \/ Raises /\ UNCHANGED unit
       \/ Raises /\ unit = "none" /\ unit' = "file"
       \/ TimesOut /\ unit = "none" /\ unit' = "enabled"
    /\ UNCHANGED <<nodeVars, envoy, top, known, armed>>

Verify ==
    /\ pc = "verify"
    /\ Poll(Return("remediated"), Return("failed")) \/ (left = Polls /\ Raises)
    /\ UNCHANGED <<nodeVars, podVars>>

(***************************************************************************)
(* A remediation begins, and goes on.                                      *)
(***************************************************************************)

(* One rule is all that is missing, and no other one is before it. *)
LacksRule == boot = "done" /\ charts /\ kubelet = "ready" /\ (envoy \in known => top = envoy)

(* A dry run describes the plan and asks nothing. *)
Remediate(test, undisturbed) ==
    /\ pc = "idle"
    /\ \/ test /\ Return("planned")
       \/ ~test /\ pc' = "serving" /\ left' = 0 /\ outcome' = "none" /\ UNCHANGED seen
    /\ unsure' = FALSE /\ calm' = (~test /\ undisturbed /\ AtRest /\ LacksRule)
    /\ UNCHANGED <<faults, hasty>>
    /\ UNCHANGED <<nodeVars, podVars>>

RemediationStep ==
    \/ AlreadyServing \/ fix_hosts \/ disable_setup_kubernetes
    \/ kubelet_ready \/ wipe_kubelet \/ AwaitReady
    \/ firstboot_completed \/ restart_firstboot \/ AwaitRestart \/ AwaitFirstboot
    \/ envoy_pod_ip \/ InsertRule \/ PersistRule \/ Verify

(* The image as it is shipped: the name does not resolve. *)
BootstrapInit ==
    /\ hosts = FALSE /\ script = TRUE /\ etcd = FALSE /\ admin = FALSE
    /\ kubelet = "none" /\ boot = "new" /\ charts = FALSE
    /\ envoy = NoPod /\ top = NoPod /\ known = {} /\ unit = "none" /\ armed = FALSE
    /\ pc = "idle" /\ left = 0 /\ seen = NoPod /\ outcome = "none"
    /\ faults = 0 /\ unsure = FALSE /\ hasty = FALSE /\ calm = FALSE
=============================================================================
