-------------------------- MODULE VroInstallProofs --------------------------
(***************************************************************************)
(* Proofs about VroInstall, for any options, addresses, polls and faults,  *)
(* and any number of runs of the two states.                               *)
(***************************************************************************)
EXTENDS VroInstall, TLAPS

(* Between the look at the script and the restart of the first boot. *)
Between == {"kubelet", "wipe", "joins", "service", "restart"}

(* A run that was not misled restarts no first boot whose script is there  *)
(* to destroy what it once made. *)
Spared == ~script \/ (~admin /\ boot \in {"failed", "done"})

SetupInv ==
    /\ SetupRunsOnce
    /\ boot = "new" => ~admin
    /\ pc \in Between /\ ~unsure => Spared

(* What a remediation that only has a rule to add passes through. *)
Straight == {"idle", "serving", "hosts", "script", "kubelet", "service", "dnat", "rule",
             "unit", "verify"}

Settled ==
    /\ vm = "on" /\ ~restarting /\ ~armed /\ charts
    /\ boot = "done" /\ kubelet = "ready" /\ envoy # NoPod
    /\ envoy \in known => top = envoy

RestoreInv ==
    calm => /\ Settled /\ pc \in Straight
            /\ pc = "idle" => outcome \in {"already", "remediated"}
            /\ pc = "rule" => seen = envoy
            /\ pc \in {"unit", "verify"} => Serving

(* The steps of the product, in their order. *)
CompleteInv ==
    /\ DeployedIsComplete
    /\ envoy # NoPod => vm = "on"
    /\ pc \in {"again", "license", "about"} => joined /\ vm = "on"
    /\ pc = "about" /\ opt.license => licensed

(***************************************************************************)
(* Types.                                                                  *)
(***************************************************************************)

LEMMA WorkTypes ==
    ASSUME PushTypes, NEW m \in {"no", "yes", "started"}, Move(m)
    PROVE  vm' \in VMStates /\ (vm = "on" => vm' = "on")
BY DEF PushTypes, VMStates, Move, Work, Settle

LEMMA FaultTypes ==
    ASSUME faults \in Nat, calm \in BOOLEAN, Sound \/ \E kind \in FaultSet : Fault(kind)
    PROVE  faults' \in Nat /\ calm' \in BOOLEAN /\ (calm' => calm)
<1>1. CASE Sound
  BY <1>1 DEF Sound
<1>2. ASSUME NEW kind \in FaultSet, Fault(kind)
      PROVE  faults' \in Nat /\ calm' \in BOOLEAN /\ (calm' => calm)
  <2>1. faults' \in Nat /\ calm' = FALSE
    BY <1>2 DEF Fault
  <2>2. calm' \in BOOLEAN
    BY <2>1, Zenon
  <2> QED BY <2>1, <2>2
<1> QED BY <1>1, <1>2

(* What a command, a poll and the end of a run do to the run. *)
RunTypes ==
    /\ pc \in {"idle"} \cup Remediation \cup Installation
    /\ left \in Nat /\ seen \in Pods \cup {NoPod} /\ outcome \in Outcomes

NodeTypes ==
    /\ hosts \in BOOLEAN /\ script \in BOOLEAN /\ etcd \in BOOLEAN /\ admin \in BOOLEAN
    /\ kubelet \in {"none", "joining", "ready", "stale"}
    /\ boot \in {"new", "etcd", "certs", "pods", "charts", "failed", "done"}
    /\ charts \in BOOLEAN

PodTypes ==
    /\ envoy \in Pods \cup {NoPod} /\ top \in Pods \cup {NoPod}
    /\ known \in SUBSET (Pods \cup {NoPod})
    /\ unit \in {"none", "file", "enabled"} /\ armed \in BOOLEAN

HistoryTypes == faults \in Nat /\ unsure \in BOOLEAN /\ hasty \in BOOLEAN /\ calm \in BOOLEAN

LEMMA Parts ==
    /\ TypeOK <=> /\ RunTypes /\ NodeTypes /\ PodTypes /\ HistoryTypes /\ PushTypes
                  /\ opt \in OptionSet
                  /\ joined \in BOOLEAN /\ licensed \in BOOLEAN /\ restarting \in BOOLEAN
    /\ TypeOK' <=> /\ RunTypes' /\ NodeTypes' /\ PodTypes' /\ HistoryTypes' /\ PushTypes'
                   /\ opt' \in OptionSet
                   /\ joined' \in BOOLEAN /\ licensed' \in BOOLEAN /\ restarting' \in BOOLEAN
BY DEF TypeOK, BootstrapTypes, RunTypes, NodeTypes, PodTypes, HistoryTypes

(* Every step but the begin of a run is sound or a fault. *)
LEMMA RemediationFaults ==
    ASSUME RemediationStep
    PROVE  Sound \/ \E kind \in FaultSet : Fault(kind)
BY DEF RemediationStep, AlreadyServing, fix_hosts, disable_setup_kubernetes, kubelet_ready,
       wipe_kubelet, AwaitReady, firstboot_completed, restart_firstboot, AwaitRestart,
       AwaitFirstboot, envoy_pod_ip, InsertRule, PersistRule, Verify, Poll, Then, Reads,
       Misreads, TimesOut, Raises, FaultSet

(* A remediation leaves the run somewhere on its way. *)
LEMMA RemediationRun ==
    ASSUME RunTypes, PodTypes, RemediationStep
    PROVE  RunTypes'
<1> USE BootstrapAssumption
    DEF RunTypes, PodTypes, Goto, Await, Return, Poll, Then, Raises, TimesOut, Remediation, Outcomes
<1>1. CASE AlreadyServing \/ Verify
  BY <1>1 DEF AlreadyServing, Verify
<1>2. CASE fix_hosts \/ disable_setup_kubernetes
  BY <1>2 DEF fix_hosts, disable_setup_kubernetes
<1>3. CASE kubelet_ready \/ wipe_kubelet \/ AwaitReady
  BY <1>3 DEF kubelet_ready, wipe_kubelet, AwaitReady
<1>4. CASE firstboot_completed \/ restart_firstboot \/ AwaitRestart \/ AwaitFirstboot
  BY <1>4 DEF firstboot_completed, restart_firstboot, AwaitRestart, AwaitFirstboot
<1>5. CASE envoy_pod_ip \/ InsertRule \/ PersistRule
  BY <1>5 DEF envoy_pod_ip, InsertRule, PersistRule
<1> QED BY <1>1, <1>2, <1>3, <1>4, <1>5 DEF RemediationStep

LEMMA RemediationHistory ==
    ASSUME HistoryTypes, RemediationStep
    PROVE  HistoryTypes'
<1>1. faults' \in Nat /\ calm' \in BOOLEAN
  BY FaultTypes, RemediationFaults DEF HistoryTypes
<1>2. unsure' \in BOOLEAN
  BY Zenon DEF HistoryTypes, RemediationStep, AlreadyServing, fix_hosts, disable_setup_kubernetes,
     kubelet_ready, wipe_kubelet, AwaitReady, firstboot_completed, restart_firstboot, AwaitRestart,
     AwaitFirstboot, envoy_pod_ip, InsertRule, PersistRule, Verify, Poll, Then, Reads, Misreads,
     TimesOut, Raises
<1>3. hasty' \in BOOLEAN
  BY Zenon DEF HistoryTypes, RemediationStep, AlreadyServing, fix_hosts, disable_setup_kubernetes,
     kubelet_ready, wipe_kubelet, AwaitReady, firstboot_completed, restart_firstboot, AwaitRestart,
     AwaitFirstboot, envoy_pod_ip, InsertRule, PersistRule, Verify, Poll, Then, Reads, Misreads,
     TimesOut, Raises
<1> QED BY <1>1, <1>2, <1>3 DEF HistoryTypes

LEMMA RemediationNode ==
    ASSUME NodeTypes, RunTypes, PodTypes, RemediationStep
    PROVE  NodeTypes' /\ PodTypes'
<1>1. /\ hosts' \in BOOLEAN /\ script' \in BOOLEAN
      /\ UNCHANGED <<etcd, admin, charts, envoy, armed>>
  BY Zenon DEF NodeTypes, nodeVars, podVars, RemediationStep, AlreadyServing, fix_hosts,
     disable_setup_kubernetes, kubelet_ready, wipe_kubelet, AwaitReady, firstboot_completed,
     restart_firstboot, AwaitRestart, AwaitFirstboot, envoy_pod_ip, InsertRule, PersistRule, Verify
<1>2. kubelet' \in {kubelet, "joining"} /\ boot' \in {boot, "etcd"}
  BY DEF nodeVars, podVars, RemediationStep, AlreadyServing, fix_hosts,
     disable_setup_kubernetes, kubelet_ready, wipe_kubelet, AwaitReady, firstboot_completed,
     restart_firstboot, AwaitRestart, AwaitFirstboot, envoy_pod_ip, InsertRule, PersistRule, Verify
<1>3. /\ top' \in {top, seen} /\ known' \in {known, known \cup {seen}}
      /\ unit' \in {unit, "file", "enabled"}
  BY DEF nodeVars, podVars, RemediationStep, AlreadyServing, fix_hosts,
     disable_setup_kubernetes, kubelet_ready, wipe_kubelet, AwaitReady, firstboot_completed,
     restart_firstboot, AwaitRestart, AwaitFirstboot, envoy_pod_ip, InsertRule, PersistRule, Verify,
     Forwards
<1> QED BY <1>1, <1>2, <1>3 DEF NodeTypes, PodTypes, RunTypes

(* The node by itself. *)
LEMMA NodeFaults ==
    ASSUME NodeGoesOn \/ NodeFails
    PROVE  UNCHANGED <<faults, calm>> \/ \E kind \in FaultSet : Fault(kind)
BY DEF NodeGoesOn, NodeFails, ServiceStarts, SetUpAgain, SetsUp, Deploys, Joins, PodStarts,
       UnitRuns, Breaks, PodEnds, Reboots, NodeOnly, historyVars, FaultSet

LEMMA RestartTypes ==
    ASSUME NodeTypes, PodTypes, Restarts
    PROVE  NodeTypes' /\ PodTypes'
<1>1. armed' \in BOOLEAN
  BY Zenon DEF Restarts
<1> QED BY <1>1 DEF Restarts, NodeTypes, PodTypes

LEMMA NodeSteps ==
    ASSUME TypeOK, NodeGoesOn \/ NodeFails
    PROVE  NodeTypes' /\ PodTypes' /\ RunTypes' /\ HistoryTypes'
<1> USE Parts
<1>1. faults' \in Nat /\ calm' \in BOOLEAN
  BY FaultTypes, NodeFaults DEF HistoryTypes, Sound
<1>2. RunTypes'
  BY DEF NodeGoesOn, NodeFails, ServiceStarts, SetUpAgain, SetsUp, Deploys, Joins, PodStarts,
     UnitRuns, Breaks, PodEnds, Reboots, Restarts, NodeOnly, runVars, RunTypes
<1>3. unsure' \in BOOLEAN /\ hasty' \in BOOLEAN
  BY Zenon DEF NodeGoesOn, NodeFails, ServiceStarts, SetUpAgain, SetsUp, Deploys, Joins, PodStarts,
     UnitRuns, Breaks, PodEnds, Reboots, Restarts, NodeOnly, HistoryTypes, historyVars
<1>4. CASE Reboots
  BY <1>1, <1>2, <1>3, <1>4, RestartTypes DEF Reboots, HistoryTypes
<1>5. CASE ServiceStarts \/ SetUpAgain \/ SetsUp \/ Deploys \/ Joins \/ Breaks
  <2>1. PodTypes'
    BY <1>5 DEF ServiceStarts, SetUpAgain, SetsUp, Deploys, Joins, Breaks, NodeOnly, podVars, PodTypes
  <2>2. /\ hosts' = hosts /\ script' = script
        /\ etcd' \in BOOLEAN /\ admin' \in BOOLEAN /\ charts' \in BOOLEAN
    BY <1>5, Zenon DEF ServiceStarts, SetUpAgain, SetsUp, Deploys, Joins, Breaks, NodeOnly, NodeTypes
  <2>3. /\ kubelet' \in {"none", "joining", "ready", "stale"}
        /\ boot' \in {"new", "etcd", "certs", "pods", "charts", "failed", "done"}
    BY <1>5 DEF ServiceStarts, SetUpAgain, SetsUp, Deploys, Joins, Breaks, NodeOnly, NodeTypes
  <2> QED BY <1>1, <1>2, <1>3, <2>1, <2>2, <2>3 DEF NodeTypes, HistoryTypes
<1>6. CASE PodStarts \/ PodEnds
  BY <1>1, <1>2, <1>3, <1>6 DEF PodStarts, PodEnds, nodeVars, NodeTypes, PodTypes, HistoryTypes
<1>7. CASE UnitRuns
  <2>1. armed' \in BOOLEAN
    BY <1>7, Zenon DEF UnitRuns
  <2> QED BY <1>1, <1>2, <1>3, <1>7, <2>1
          DEF UnitRuns, Forwards, nodeVars, NodeTypes, PodTypes, HistoryTypes
<1> QED BY <1>4, <1>5, <1>6, <1>7 DEF NodeGoesOn, NodeFails

(* The installation. *)
LEMMA InstallationFaults ==
    ASSUME Probe \/ PushDone \/ Wait \/ Join \/ WaitAgain \/ License \/ About \/ Crash \/ HostSettles
    PROVE  Sound \/ \E kind \in FaultSet : Fault(kind)
BY DEF Probe, PushDone, Wait, Join, WaitAgain, License, About, Crash, HostSettles,
       Poll, Refused, Takes, FaultSet

LEMMA InstallationHistory ==
    ASSUME HistoryTypes,
           Probe \/ PushDone \/ Wait \/ Join \/ WaitAgain \/ License \/ About \/ Crash \/ HostSettles
    PROVE  HistoryTypes' /\ UNCHANGED <<unsure, hasty>>
<1>1. faults' \in Nat /\ calm' \in BOOLEAN
  BY FaultTypes, InstallationFaults DEF HistoryTypes
<1>2. UNCHANGED <<unsure, hasty>>
  BY DEF Probe, PushDone, Wait, Join, WaitAgain, License, About, Crash, HostSettles, NodeAside, Poll
<1> QED BY <1>1, <1>2 DEF HistoryTypes

LEMMA PushTypesKept ==
    ASSUME PushTypes, Probe \/ PushWorks \/ PushDone \/ Crash \/ HostSettles
    PROVE  PushTypes'
<1>1. CASE Probe
  <2>1. CASE Call
    <3>1. busy' \in BOOLEAN
      BY <2>1, Zenon DEF Call
    <3> QED BY <2>1, <3>1 DEF Call, PushTypes, Replies
  <2>2. CASE UNCHANGED pushVars
    BY <2>2 DEF pushVars, PushTypes
  <2> QED BY <1>1, <2>1, <2>2 DEF Probe
<1>2. CASE PushWorks
  <2>1. PICK m \in {"yes", "started"} : Work(m) /\ mine' = m
    BY <1>2 DEF PushWorks
  <2>2. vm' \in VMStates /\ UNCHANGED <<busy, reply>>
    BY <1>2, <2>1, WorkTypes DEF PushWorks, Move
  <2> QED BY <2>1, <2>2 DEF PushTypes
<1>3. CASE PushDone
  <2>1. PICK m \in {"no", "yes", "started"} : Move(m)
    BY <1>3 DEF PushDone, Ends
  <2>2. vm' \in VMStates
    BY <2>1, WorkTypes
  <2>3. busy' = FALSE /\ mine' = "no" /\ reply' \in Replies
    BY <1>3 DEF PushDone, Ends
  <2>4. busy' \in BOOLEAN
    BY <2>3, Zenon
  <2> QED BY <2>2, <2>3, <2>4 DEF PushTypes
<1>4. CASE Crash
  <2>1. busy' \in BOOLEAN
    BY <1>4, Zenon DEF Crash
  <2> QED BY <1>4, <2>1 DEF Crash, PushTypes, Replies
<1>5. CASE HostSettles
  BY <1>5 DEF HostSettles, Settle, PushTypes, VMStates
<1> QED BY <1>1, <1>2, <1>3, <1>4, <1>5

LEMMA InstallationTypes ==
    ASSUME TypeOK,
           Probe \/ PushDone \/ Wait \/ Join \/ WaitAgain \/ License \/ About \/ Crash \/ HostSettles
    PROVE  TypeOK'
<1> USE Parts
<1>1. HistoryTypes'
  BY InstallationHistory
<1>2. RunTypes'
  BY BootstrapAssumption DEF RunTypes, Probe, PushDone, Wait, Join, WaitAgain, License, About, Crash,
     HostSettles, Poll, Refused, Takes, VersionCheck, Goto, Await, Return, Installation, Outcomes,
     runVars
<1>3. NodeTypes' /\ PodTypes'
  BY DEF NodeTypes, PodTypes, Probe, PushDone, Wait, Join, WaitAgain, License, About, Crash,
     HostSettles, NodeAside, nodeVars, podVars
<1>4. PushTypes'
  <2>1. CASE Wait \/ Join \/ WaitAgain \/ License \/ About
    BY <2>1 DEF Wait, Join, WaitAgain, License, About, pushVars, PushTypes
  <2> QED BY <2>1, PushTypesKept
<1>5. opt' \in OptionSet
  BY DEF Probe, PushDone, Wait, Join, WaitAgain, License, About, Crash, HostSettles, productVars
<1>6. joined' \in BOOLEAN /\ licensed' \in BOOLEAN /\ restarting' \in BOOLEAN
  BY Zenon DEF Probe, PushDone, Wait, Join, WaitAgain, License, About, Crash, HostSettles, productVars
<1> QED BY <1>1, <1>2, <1>3, <1>4, <1>5, <1>6

LEMMA BeginTypes ==
    ASSUME TypeOK, NEW test \in BOOLEAN, Install(test) \/ BeginRemediation(test)
    PROVE  TypeOK'
<1> USE Parts
<1>1. RunTypes'
  BY DEF RunTypes, Install, BeginRemediation, Remediate, Return, Remediation, Installation, Outcomes
<1>2. NodeTypes' /\ PodTypes' /\ PushTypes' /\ opt' \in OptionSet
  BY DEF NodeTypes, PodTypes, PushTypes, Install, BeginRemediation, Remediate, NodeAside, nodeVars,
     podVars, pushVars, productVars
<1>3. joined' \in BOOLEAN /\ licensed' \in BOOLEAN /\ restarting' \in BOOLEAN
  BY Zenon DEF Install, BeginRemediation, productVars
<1>4. unsure' \in BOOLEAN /\ hasty' \in BOOLEAN /\ calm' \in BOOLEAN
  BY Zenon DEF HistoryTypes, Install, BeginRemediation, Remediate, NodeAside
<1>5. faults' \in Nat
  BY DEF HistoryTypes, Install, BeginRemediation, Remediate
<1> QED BY <1>1, <1>2, <1>3, <1>4, <1>5 DEF HistoryTypes

LEMMA NextTypes ==
    ASSUME TypeOK, Next
    PROVE  TypeOK'
<1> USE Parts
<1>1. ASSUME NEW test \in BOOLEAN, Install(test) \/ BeginRemediation(test)
      PROVE  TypeOK'
  BY <1>1, BeginTypes
<1>2. CASE Probe \/ PushDone \/ Wait \/ Join \/ WaitAgain \/ License \/ About \/ Crash \/ HostSettles
  BY <1>2, InstallationTypes
<1>3. CASE PushWorks
  <2>1. PushTypes'
    BY <1>3, PushTypesKept
  <2> QED BY <1>3, <2>1 DEF PushWorks, bootstrapVars, productVars, nodeVars, podVars, runVars,
          historyVars, RunTypes, NodeTypes, PodTypes, HistoryTypes
<1>4. CASE Unreachable
  BY <1>4 DEF Unreachable, NodeAside, nodeVars, podVars, pushVars, productVars, Sound, Return,
     RunTypes, NodeTypes, PodTypes, HistoryTypes, PushTypes, Outcomes
<1>5. CASE Remediates
  BY <1>5, RemediationRun, RemediationHistory, RemediationNode
     DEF Remediates, pushVars, productVars, PushTypes
<1>6. CASE Node
  BY <1>6, NodeSteps DEF Node, pushVars, productVars, PushTypes
<1>7. CASE SsoRestart
  <2>1. NodeTypes' /\ PodTypes'
    BY <1>7, RestartTypes DEF SsoRestart
  <2>2. restarting' \in BOOLEAN /\ unsure' \in BOOLEAN /\ hasty' \in BOOLEAN
    BY <1>7, Zenon DEF SsoRestart, Restarts, HistoryTypes
  <2> QED BY <1>7, <2>1, <2>2 DEF SsoRestart, Restarts, Sound, runVars, pushVars, RunTypes,
          HistoryTypes, PushTypes
<1> QED BY <1>1, <1>2, <1>3, <1>4, <1>5, <1>6, <1>7 DEF Next, Step

(* The types of the run, the push, the node and the product. *)
THEOREM InstallTypes == Spec => []TypeOK
<1>1. Init => TypeOK
  <2> SUFFICES ASSUME Init
               PROVE  TypeOK
    OBVIOUS
  <2>1. /\ hosts \in BOOLEAN /\ script \in BOOLEAN /\ etcd \in BOOLEAN /\ admin \in BOOLEAN
        /\ charts \in BOOLEAN /\ armed \in BOOLEAN /\ busy \in BOOLEAN
        /\ unsure \in BOOLEAN /\ hasty \in BOOLEAN /\ calm \in BOOLEAN
        /\ joined \in BOOLEAN /\ licensed \in BOOLEAN /\ restarting \in BOOLEAN
    BY Zenon DEF Init, BootstrapInit, PushInit
  <2>2. opt \in OptionSet
    BY VroAssumption DEF Init
  <2> QED BY <2>1, <2>2
          DEF Init, BootstrapInit, PushInit, TypeOK, BootstrapTypes, PushTypes, VMStates, Replies,
              Outcomes
<1>2. TypeOK /\ [Next]_vars => TypeOK'
  <2>1. ASSUME TypeOK, UNCHANGED vars
        PROVE  TypeOK'
    BY <2>1 DEF TypeOK, BootstrapTypes, PushTypes, vars, bootstrapVars, nodeVars, podVars, runVars,
       historyVars, pushVars, productVars
  <2> QED BY <2>1, NextTypes
<1> QED BY <1>1, <1>2, PTL DEF Spec

(***************************************************************************)
(* The set-up script runs once.                                            *)
(***************************************************************************)

(* The steps that leave the script, the node and the first boot alone, and *)
(* do not come between the look at the script and the restart. *)
LEMMA SetupAside ==
    ASSUME SetupInv, UNCHANGED <<script, etcd, admin, boot, unsure, hasty>>,
           pc' \in Between => pc \in Between
    PROVE  SetupInv'
BY DEF SetupInv, SetupRunsOnce, Spared, Between

LEMMA SetupNode ==
    ASSUME SetupInv, NodeGoesOn \/ NodeFails \/ Restarts
    PROVE  SetupInv'
<1> USE DEF SetupInv, SetupRunsOnce, Spared
<1>1. CASE ServiceStarts \/ SetUpAgain \/ SetsUp \/ Deploys \/ Joins
  BY <1>1 DEF ServiceStarts, SetUpAgain, SetsUp, Deploys, Joins, NodeOnly, runVars
<1>2. CASE Breaks \/ PodStarts \/ PodEnds \/ UnitRuns
  BY <1>2 DEF Breaks, Booting, PodStarts, PodEnds, UnitRuns, nodeVars, runVars, historyVars
<1>3. CASE Restarts
  <2>1. boot' = "etcd" => unsure' /\ hasty'
    BY <1>3 DEF Restarts
  <2>2. unsure => unsure'
    BY <1>3, Zenon DEF Restarts
  <2>3. boot' # "etcd" => boot' \in {"done", "failed"}
    BY <1>3 DEF Restarts
  <2> QED BY <1>3, <2>1, <2>2, <2>3 DEF Restarts, runVars
<1> QED BY <1>1, <1>2, <1>3 DEF NodeGoesOn, NodeFails, Reboots

LEMMA SetupRemediation ==
    ASSUME SetupInv, NodeTypes, RemediationStep
    PROVE  SetupInv'
<1> USE DEF SetupInv, SetupRunsOnce, Spared, Between, NodeTypes, Goto, Await, Return, Then, Reads,
        Misreads, TimesOut, Raises
<1>1. CASE AlreadyServing \/ Verify \/ fix_hosts
  BY <1>1 DEF AlreadyServing, Verify, fix_hosts, Poll, nodeVars
<1>2. CASE disable_setup_kubernetes
  BY <1>2 DEF disable_setup_kubernetes, Booting
<1>3. CASE kubelet_ready \/ wipe_kubelet \/ AwaitReady
  BY <1>3 DEF kubelet_ready, wipe_kubelet, AwaitReady, nodeVars
<1>4. CASE firstboot_completed \/ AwaitRestart \/ AwaitFirstboot
  BY <1>4 DEF firstboot_completed, AwaitRestart, AwaitFirstboot, nodeVars
<1>5. CASE restart_firstboot
  BY <1>5 DEF restart_firstboot, Booting
<1>6. CASE envoy_pod_ip \/ InsertRule \/ PersistRule
  BY <1>6 DEF envoy_pod_ip, InsertRule, PersistRule, nodeVars
<1> QED BY <1>1, <1>2, <1>3, <1>4, <1>5, <1>6 DEF RemediationStep

LEMMA SetupNext ==
    ASSUME SetupInv, NodeTypes, Next
    PROVE  SetupInv'
<1>1. ASSUME NEW test \in BOOLEAN, Install(test) \/ BeginRemediation(test)
      PROVE  SetupInv'
  BY <1>1 DEF Install, BeginRemediation, Remediate, Return, NodeAside, nodeVars, SetupInv,
     SetupRunsOnce, Spared, Between
<1>2. CASE Probe \/ PushDone \/ Wait \/ Join \/ WaitAgain \/ License \/ About \/ Crash \/ HostSettles
  BY <1>2, SetupAside DEF Probe, PushDone, Wait, Join, WaitAgain, License, About, Crash, HostSettles,
     Poll, Takes, Goto, Await, Return, NodeAside, nodeVars, runVars, Between
<1>3. CASE PushWorks \/ Unreachable
  BY <1>3, SetupAside DEF PushWorks, Unreachable, NodeAside, bootstrapVars, nodeVars, runVars,
     historyVars, Return, Between
<1>4. CASE Remediates
  BY <1>4, SetupRemediation DEF Remediates
<1>5. CASE Node \/ SsoRestart
  BY <1>5, SetupNode DEF Node, SsoRestart
<1> QED BY <1>1, <1>2, <1>3, <1>4, <1>5 DEF Next, Step

(* The script that destroys the certificates of a node when it runs again  *)
(* runs again on no node that has its admin.conf, whatever fails, unless a *)
(* remediation was misled or the machine restarted. *)
THEOREM SetupIsRunOnce == Spec => []SetupRunsOnce
<1>1. Init => SetupInv
  BY DEF Init, BootstrapInit, SetupInv, SetupRunsOnce, Between
<1>2. SetupInv /\ TypeOK /\ [Next]_vars => SetupInv'
  <2>1. ASSUME SetupInv, UNCHANGED vars
        PROVE  SetupInv'
    BY <2>1, SetupAside DEF vars, bootstrapVars, nodeVars, runVars, historyVars
  <2> QED BY <2>1, SetupNext, Parts
<1>3. SetupInv => SetupRunsOnce
  BY DEF SetupInv
<1> QED BY <1>1, <1>2, <1>3, InstallTypes, PTL DEF Spec

(***************************************************************************)
(* One run restores an appliance that only lacks its rule.                 *)
(***************************************************************************)

LEMMA FaultEndsCalm ==
    ASSUME NEW kind, Fault(kind)
    PROVE  ~calm'
BY DEF Fault

(* Nothing of it changes. *)
LEMMA RestoreAside ==
    ASSUME RestoreInv, calm' = calm,
           UNCHANGED <<vm, restarting, armed, charts, boot, kubelet, envoy, known, top, pc, outcome, seen>>
    PROVE  RestoreInv'
BY DEF RestoreInv, Settled, Straight, Serving

(* A node at rest takes no step without a fault. *)
LEMMA RestoreNode ==
    ASSUME RestoreInv, Node
    PROVE  RestoreInv'
<1>1. CASE calm'
  <2>1. calm
    BY <1>1 DEF Node, NodeGoesOn, NodeFails, ServiceStarts, SetUpAgain, SetsUp, Deploys, Joins,
       PodStarts, UnitRuns, Breaks, PodEnds, Reboots, NodeOnly, historyVars, Fault
  <2>2. boot = "done" /\ kubelet = "ready" /\ envoy # NoPod /\ ~armed
    BY <2>1 DEF RestoreInv, Settled
  <2> QED BY <1>1, <2>2 DEF Node, NodeGoesOn, NodeFails, ServiceStarts, SetUpAgain, SetsUp, Deploys,
          Joins, PodStarts, UnitRuns, Breaks, PodEnds, Reboots, Fault
<1> QED BY <1>1 DEF RestoreInv

LEMMA RestoreRemediation ==
    ASSUME RestoreInv, Remediates
    PROVE  RestoreInv'
<1>1. CASE calm'
  <2>1. ~Fault("ssh") /\ ~Fault("slow") /\ ~Fault("conn")
    BY <1>1, FaultEndsCalm
  <2>2. calm
    BY <1>1, <2>1 DEF Remediates, RemediationStep, AlreadyServing, fix_hosts,
       disable_setup_kubernetes, kubelet_ready, wipe_kubelet, AwaitReady, firstboot_completed,
       restart_firstboot, AwaitRestart, AwaitFirstboot, envoy_pod_ip, InsertRule, PersistRule,
       Verify, Poll, Then, Reads, Misreads, TimesOut, Raises, Sound
  <2>3. /\ Settled /\ pc \in Straight
        /\ pc = "rule" => seen = envoy
        /\ pc \in {"unit", "verify"} => Serving
    BY <2>2 DEF RestoreInv
  <2>4. UNCHANGED <<vm, restarting, armed, charts, boot, kubelet, envoy>>
    BY <2>3 DEF Settled, Straight, Remediates, RemediationStep, AlreadyServing, fix_hosts,
       disable_setup_kubernetes, kubelet_ready, wipe_kubelet, AwaitReady, firstboot_completed,
       restart_firstboot, AwaitRestart, AwaitFirstboot, envoy_pod_ip, InsertRule, PersistRule,
       Verify, nodeVars, podVars, pushVars, productVars
  <2>5. CASE pc # "rule"
    <3>1. UNCHANGED <<top, known>>
      BY <2>5 DEF Remediates, RemediationStep, AlreadyServing, fix_hosts, disable_setup_kubernetes,
         kubelet_ready, wipe_kubelet, AwaitReady, firstboot_completed, restart_firstboot,
         AwaitRestart, AwaitFirstboot, envoy_pod_ip, InsertRule, PersistRule, Verify, podVars
    <3>2. Settled' /\ (Serving' <=> Serving)
      BY <2>3, <2>4, <3>1 DEF Settled, Serving
    <3>3. CASE AlreadyServing \/ Verify
      BY <2>1, <2>3, <3>2, <3>3 DEF AlreadyServing, Verify, Poll, Raises, Goto, Return, RestoreInv, Straight
    <3>4. CASE fix_hosts \/ disable_setup_kubernetes
      BY <2>1, <3>2, <3>4 DEF fix_hosts, disable_setup_kubernetes, Then, Misreads, TimesOut, Raises,
         Goto, RestoreInv, Straight
    <3>5. CASE kubelet_ready \/ firstboot_completed
      BY <2>1, <2>3, <3>2, <3>5 DEF kubelet_ready, firstboot_completed, Succeeded, Misreads, TimesOut,
         Goto, RestoreInv, Straight, Settled
    <3>6. CASE envoy_pod_ip \/ PersistRule
      BY <2>1, <2>3, <2>4, <3>2, <3>6 DEF envoy_pod_ip, PersistRule, Misreads, TimesOut, Raises, Await,
         RestoreInv, Straight, Settled
    <3> QED BY <2>3, <2>5, <3>3, <3>4, <3>5, <3>6 DEF Remediates, RemediationStep, Straight,
            wipe_kubelet, AwaitReady, restart_firstboot, AwaitRestart, AwaitFirstboot, InsertRule
  <2>6. CASE pc = "rule"
    <3>1. InsertRule /\ seen = envoy
      BY <2>3, <2>6 DEF Remediates, RemediationStep, AlreadyServing, fix_hosts,
         disable_setup_kubernetes, kubelet_ready, wipe_kubelet, AwaitReady, firstboot_completed,
         restart_firstboot, AwaitRestart, AwaitFirstboot, envoy_pod_ip, PersistRule, Verify
    <3>2. top' = envoy /\ pc' = "unit"
      BY <2>1, <2>3, <3>1 DEF InsertRule, Forwards, Misreads, TimesOut, Raises, Goto, Settled
    <3> QED BY <2>3, <2>4, <3>2 DEF RestoreInv, Settled, Serving, Straight
  <2> QED BY <2>5, <2>6
<1> QED BY <1>1 DEF RestoreInv

LEMMA RestoreNext ==
    ASSUME RestoreInv, Next
    PROVE  RestoreInv'
<1>1. ASSUME NEW test \in BOOLEAN, Install(test)
      PROVE  RestoreInv'
  BY <1>1 DEF Install, RestoreInv
<1>2. ASSUME NEW test \in BOOLEAN, BeginRemediation(test)
      PROVE  RestoreInv'
  <2>1. CASE calm'
    <3>1. ~test /\ vm = "on" /\ ~restarting /\ AtRest /\ LacksRule
      BY <1>2, <2>1 DEF BeginRemediation, Remediate
    <3> QED BY <1>2, <3>1 DEF BeginRemediation, Remediate, AtRest, LacksRule, RestoreInv, Settled,
            Straight, Serving, nodeVars, podVars, pushVars, productVars
  <2> QED BY <2>1 DEF RestoreInv
<1>3. CASE Probe \/ PushWorks \/ PushDone \/ Wait \/ Join \/ WaitAgain \/ License \/ About
  <2>1. pc \notin Straight
    BY <1>3 DEF Probe, PushWorks, PushDone, Wait, Join, WaitAgain, License, About, Straight
  <2>2. calm' => calm
    BY <1>3 DEF Probe, PushWorks, PushDone, Wait, Join, WaitAgain, License, About, Poll, Refused,
       Takes, Sound, Fault, bootstrapVars, historyVars
  <2> QED BY <2>1, <2>2 DEF RestoreInv
<1>4. CASE Unreachable
  BY <1>4 DEF Unreachable, Sound, RestoreInv, Settled
<1>5. CASE Remediates \/ Node
  BY <1>5, RestoreRemediation, RestoreNode
<1>6. CASE Crash
  BY <1>6, FaultEndsCalm DEF Crash, RestoreInv
<1>7. CASE HostSettles
  <2>1. calm' => calm
    BY <1>7, FaultEndsCalm DEF HostSettles, Sound
  <2>2. vm # "on"
    BY <1>7 DEF HostSettles, Settle
  <2> QED BY <2>1, <2>2 DEF RestoreInv, Settled
<1>8. CASE SsoRestart
  BY <1>8 DEF SsoRestart, Sound, RestoreInv, Settled
<1> QED BY <1>1, <1>2, <1>3, <1>4, <1>5, <1>6, <1>7, <1>8 DEF Next, Step

(* On a node that lacks the rule of its pod alone, a remediation ends with *)
(* an API that answers, if no fault comes in between. *)
THEOREM OneRunIsEnough == Spec => []OneRunRestores
<1>1. Init => RestoreInv
  BY DEF Init, BootstrapInit, RestoreInv
<1>2. RestoreInv /\ [Next]_vars => RestoreInv'
  <2>1. ASSUME RestoreInv, UNCHANGED vars
        PROVE  RestoreInv'
    BY <2>1, RestoreAside DEF vars, bootstrapVars, nodeVars, podVars, runVars, historyVars, pushVars,
       productVars
  <2> QED BY <2>1, RestoreNext
<1>3. RestoreInv => OneRunRestores
  BY DEF RestoreInv, OneRunRestores
<1> QED BY <1>1, <1>2, <1>3, PTL DEF Spec

(***************************************************************************)
(* A deployment leaves nothing out.                                        *)
(***************************************************************************)

(* The steps of a run that has not begun to join, and of a remediation. *)
LEMMA CompleteAside ==
    ASSUME CompleteInv, pc' \notin {"again", "license", "about"},
           outcome' = "deployed" => outcome = "deployed",
           UNCHANGED <<opt, joined, licensed>>,
           vm = "on" => vm' = "on", envoy' # NoPod => vm' = "on"
    PROVE  CompleteInv'
BY DEF CompleteInv, DeployedIsComplete

LEMMA CompleteNext ==
    ASSUME CompleteInv, Next
    PROVE  CompleteInv'
<1> USE DEF CompleteInv
<1>1. ASSUME NEW test \in BOOLEAN, Install(test) \/ BeginRemediation(test)
      PROVE  CompleteInv'
  BY <1>1, CompleteAside DEF Install, BeginRemediation, Remediate, Return, NodeAside, podVars,
     pushVars, productVars
<1>2. CASE Probe
  BY <1>2, CompleteAside DEF Probe, VersionCheck, Return, Goto, Call, NodeAside, podVars, pushVars,
     productVars
<1>3. CASE PushWorks
  <2>1. vm = "on" => vm' = "on"
    BY <1>3 DEF PushWorks, Work
  <2> QED BY <1>3, <2>1, CompleteAside DEF PushWorks, bootstrapVars, podVars, runVars, productVars
<1>4. CASE PushDone
  <2>1. vm = "on" => vm' = "on"
    BY <1>4 DEF PushDone, Ends, Move, Work, Settle
  <2> QED BY <1>4, <2>1, CompleteAside DEF PushDone, Await, Return, NodeAside, podVars, productVars
<1>5. CASE Wait
  BY <1>5, CompleteAside DEF Wait, Poll, Goto, Return, podVars, pushVars, productVars
<1>6. CASE Join
  BY <1>6 DEF Join, DeployedIsComplete, Serving, Takes, Await, Return, NodeAside, podVars, pushVars
<1>7. CASE WaitAgain \/ License \/ About
  BY <1>7 DEF WaitAgain, License, About, DeployedIsComplete, Poll, Takes, VersionCheck, Goto, Return,
     NodeAside, podVars, pushVars, productVars
<1>8. CASE Unreachable \/ Crash
  BY <1>8, CompleteAside DEF Unreachable, Crash, Return, NodeAside, podVars, pushVars, productVars
<1>9. CASE Remediates
  <2>1. pc' \in {"idle"} \cup Remediation /\ outcome' \in {outcome, "already", "remediated", "failed"}
    BY <1>9 DEF Remediates, RemediationStep, AlreadyServing, fix_hosts, disable_setup_kubernetes,
       kubelet_ready, wipe_kubelet, AwaitReady, firstboot_completed, restart_firstboot, AwaitRestart,
       AwaitFirstboot, envoy_pod_ip, InsertRule, PersistRule, Verify, Poll, Then, TimesOut, Raises,
       Goto, Await, Return, Remediation
  <2> QED BY <1>9, <2>1, CompleteAside DEF Remediates, pushVars, productVars, Remediation
<1>10. CASE HostSettles
  BY <1>10, CompleteAside DEF HostSettles, Settle, NodeAside, podVars, runVars, productVars,
     DeployedIsComplete
<1>11. CASE Node \/ SsoRestart
  <2>1. UNCHANGED <<pc, outcome, opt, joined, licensed>> /\ vm = "on" /\ vm' = "on"
    BY <1>11 DEF Node, SsoRestart, NodeGoesOn, NodeFails, ServiceStarts, SetUpAgain, SetsUp, Deploys,
       Joins, PodStarts, UnitRuns, Breaks, PodEnds, Reboots, Restarts, NodeOnly, runVars, pushVars,
       productVars
  <2> QED BY <2>1 DEF DeployedIsComplete
<1> QED BY <1>1, <1>2, <1>3, <1>4, <1>5, <1>6, <1>7, <1>8, <1>9, <1>10, <1>11 DEF Next, Step

(* What is reported as deployed runs, is joined to the SSO and has its     *)
(* license, whatever was lost and however often the machine restarted. *)
THEOREM DeploymentIsComplete == Spec => []DeployedIsComplete
<1>1. Init => CompleteInv
  BY DEF Init, BootstrapInit, CompleteInv, DeployedIsComplete
<1>2. CompleteInv /\ [Next]_vars => CompleteInv'
  <2>1. ASSUME CompleteInv, UNCHANGED vars
        PROVE  CompleteInv'
    BY <2>1 DEF CompleteInv, DeployedIsComplete, vars, bootstrapVars, podVars, runVars, pushVars,
       productVars
  <2> QED BY <2>1, CompleteNext
<1>3. CompleteInv => DeployedIsComplete
  BY DEF CompleteInv
<1> QED BY <1>1, <1>2, <1>3, PTL DEF Spec
=============================================================================
