-------------------------- MODULE HcxInstallProofs --------------------------
(***************************************************************************)
(* Proofs about HcxInstall, for any options, budgets and faults, and any   *)
(* number of runs.                                                         *)
(***************************************************************************)
EXTENDS HcxInstall, TLAPS

(* What every step of a push keeps, whoever takes it. *)
LEMMA WorkTypes ==
    ASSUME PushTypes, NEW m \in {"no", "yes", "started"}, Move(m)
    PROVE  vm' \in VMStates /\ (vm = "on" => vm' = "on")
BY DEF PushTypes, VMStates, Move, Work, Settle

LEMMA UnconfiguredTypes ==
    ASSUME TypeOK, Unconfigured
    PROVE  pc' \in {"idle", "push"} /\ left' = left /\ outcome' \in Outcomes /\ PushTypes' /\ vm' = vm
<1>1. CASE UNCHANGED pushVars
  BY <1>1 DEF Unconfigured, TypeOK, PushTypes, pushVars, Return, Goto, Outcomes, Call
<1>2. CASE Call
  <2>1. vm' = vm /\ busy' = TRUE /\ mine' = "no" /\ reply' = "none"
    BY <1>2 DEF Call
  <2>2. busy' \in BOOLEAN
    BY <2>1, Zenon
  <2>3. PushTypes'
    BY <2>1, <2>2 DEF TypeOK, PushTypes, Replies
  <2>4. pc' \in {"idle", "push"} /\ left' = left /\ outcome' \in Outcomes
    BY DEF Unconfigured, TypeOK, Return, Goto, Outcomes
  <2> QED BY <2>1, <2>3, <2>4
<1> QED BY <1>1, <1>2 DEF Unconfigured

LEMMA PushStepTypes ==
    ASSUME TypeOK, PushWorks \/ PushDone
    PROVE  PushTypes'
<1>1. CASE PushWorks
  <2>1. PICK m \in {"yes", "started"} : Work(m) /\ mine' = m
    BY <1>1 DEF PushWorks
  <2>2. vm' \in VMStates /\ UNCHANGED <<busy, reply>>
    BY <1>1, <2>1, WorkTypes DEF PushWorks, Move, TypeOK
  <2> QED BY <2>1, <2>2 DEF TypeOK, PushTypes
<1>2. CASE PushDone
  <2>1. PICK m \in {"no", "yes", "started"} : Move(m)
    BY <1>2 DEF PushDone, Ends
  <2>2. vm' \in VMStates
    BY <2>1, WorkTypes DEF TypeOK
  <2>3. busy' = FALSE /\ mine' = "no" /\ reply' \in Replies
    BY <1>2 DEF PushDone, Ends
  <2>4. busy' \in BOOLEAN
    BY <2>3, Zenon
  <2> QED BY <2>2, <2>3, <2>4 DEF PushTypes
<1> QED BY <1>1, <1>2

LEMMA FaultTypes ==
    ASSUME TypeOK, Sound \/ \E kind \in FaultSet : Fault(kind)
    PROVE  faults' \in Nat /\ settled' \in BOOLEAN /\ (settled' => settled)
<1>1. CASE Sound
  BY <1>1 DEF Sound, faultVars, TypeOK
<1>2. ASSUME NEW kind \in FaultSet, Fault(kind)
      PROVE  faults' \in Nat /\ settled' \in BOOLEAN /\ (settled' => settled)
  <2>1. faults' \in Nat /\ settled' = FALSE
    BY <1>2 DEF Fault, TypeOK
  <2>2. settled' \in BOOLEAN
    BY <2>1, Zenon
  <2> QED BY <2>1, <2>2
<1> QED BY <1>1, <1>2

(* Every step of a run, but the start of the next, is sound or a fault. *)
LEMMA StepFaults ==
    ASSUME Step \/ Environment
    PROVE  Sound \/ \E kind \in FaultSet : Fault(kind)
BY DEF Step, Environment, FirstBoot, Probe, Admin, PushWorks, PushDone, Wait, Ready, Poll,
       Activate, Configure, Register, Trust, Sso, Verify, CheckInstalled, Crash, HostSettles,
       Boot, Outage, Refused, Answered, Then, FaultSet, Sound

LEMMA StepTypes ==
    ASSUME TypeOK, Step \/ Environment
    PROVE  TypeOK'
<1>1. faults' \in Nat /\ settled' \in BOOLEAN
  BY FaultTypes, StepFaults
<1> USE <1>1, InstallAssumption
        DEF TypeOK, Goto, Return, Await, OnlyAsks, hcxVars, runVars, PCs, Outcomes
<1>2. CASE Probe
  <2>1. CASE Unconfigured
    BY <1>2, <2>1, UnconfiguredTypes DEF Probe
  <2>2. CASE ~Unconfigured
    BY <1>2, <2>2 DEF Probe, pushVars, PushTypes
  <2> QED BY <2>1, <2>2
<1>3. CASE Admin
  <2>1. CASE Unconfigured
    BY <1>3, <2>1, UnconfiguredTypes DEF Admin
  <2>2. CASE ~Unconfigured
    BY <1>3, <2>2 DEF Admin, VersionCheck, pushVars, PushTypes
  <2> QED BY <2>1, <2>2
<1>4. CASE PushWorks
  BY <1>4, PushStepTypes DEF PushWorks
<1>5. CASE PushDone
  BY <1>5, PushStepTypes DEF PushDone
<1>6. CASE Wait \/ Ready
  BY <1>6 DEF Wait, Ready, Poll, pushVars, PushTypes
<1>7. CASE Activate \/ Configure
  BY <1>7 DEF Activate, Configure, pushVars, PushTypes
<1>8. CASE Register \/ Trust \/ Sso
  <2>1. trusted' \in BOOLEAN /\ registered' \in BOOLEAN /\ lookup' \in BOOLEAN
    BY <1>8, Zenon DEF Register, Trust, Sso
  <2>2. pc' \in PCs /\ outcome' \in Outcomes /\ left' = left
    BY <1>8 DEF Register, Trust, Sso, Then
  <2>3. UNCHANGED <<test, opt, api, pushVars>>
    BY <1>8 DEF Register, Trust, Sso
  <2> QED BY <2>1, <2>2, <2>3 DEF pushVars, PushTypes
<1>9. CASE Verify \/ CheckInstalled
  BY <1>9 DEF Verify, CheckInstalled, VersionCheck, pushVars, PushTypes
<1>10. CASE Crash
  <2>1. busy' \in BOOLEAN
    BY <1>10, Zenon DEF Crash
  <2> QED BY <1>10, <2>1 DEF Crash, PushTypes, Replies
<1>11. CASE HostSettles
  BY <1>11 DEF HostSettles, Settle, PushTypes, VMStates
<1>12. CASE Boot \/ Outage
  BY <1>12 DEF Boot, Outage, pushVars, PushTypes
<1> QED BY <1>2, <1>3, <1>4, <1>5, <1>6, <1>7, <1>8, <1>9, <1>10, <1>11, <1>12
        DEF Step, FirstBoot, Environment

(* The types of the run, of the push, and of the appliance. *)
THEOREM InstallTypes == Spec => []TypeOK
<1>1. Init => TypeOK
  <2> SUFFICES ASSUME Init
               PROVE  TypeOK
    OBVIOUS
  <2>1. /\ test \in BOOLEAN /\ trusted \in BOOLEAN /\ registered \in BOOLEAN
        /\ lookup \in BOOLEAN /\ settled \in BOOLEAN /\ busy \in BOOLEAN
    BY Zenon DEF Init, PushInit
  <2>2. opt \in OptionSet
    BY InstallAssumption DEF Init
  <2> QED BY <2>1, <2>2
          DEF Init, PushInit, TypeOK, PushTypes, VMStates, Replies, PCs, Outcomes
<1>2. TypeOK /\ [Next]_vars => TypeOK'
  <2> SUFFICES ASSUME TypeOK, [Next]_vars
               PROVE  TypeOK'
    OBVIOUS
  <2>1. CASE UNCHANGED vars
    BY <2>1 DEF TypeOK, PushTypes, vars, runVars, hcxVars, faultVars, pushVars
  <2>2. ASSUME NEW t \in BOOLEAN, Start(t)
        PROVE  TypeOK'
    <3>1. test' \in BOOLEAN /\ settled' \in BOOLEAN
      BY <2>2, Zenon DEF Start
    <3> QED BY <2>2, <3>1 DEF Start, TypeOK, PushTypes, hcxVars, pushVars, PCs, Outcomes
  <2> QED BY <2>1, <2>2, StepTypes DEF Next
<1> QED BY <1>1, <1>2, PTL DEF Spec

(***************************************************************************)
(* The invariant.                                                          *)
(***************************************************************************)

LEMMA StartInv ==
    ASSUME TypeOK, InstallInv, NEW t \in BOOLEAN, Start(t)
    PROVE  InstallInv'
<1>1. settled' => registered /\ api = "up"
  BY Zenon DEF Start
<1>2. ~busy /\ mine = "no"
  BY DEF Start, InstallInv
<1> QED BY <1>1, <1>2 DEF Start, InstallInv, Success, hcxVars, pushVars

LEMMA ProbeInv ==
    ASSUME TypeOK, InstallInv, Probe \/ Admin
    PROVE  InstallInv'
<1>1. /\ UNCHANGED <<test, opt, hcxVars, vm>> /\ (settled' => settled)
      /\ pc \in {"probe", "admin"} /\ ~busy /\ mine = "no"
  BY StepFaults, FaultTypes, UnconfiguredTypes DEF Probe, Admin, Step, OnlyAsks, InstallInv, pushVars
<1>2. /\ settled' /\ opt.pw = "config" => pc' \in {"idle", "admin"}
      /\ outcome' \in Success => registered
  BY DEF Probe, Admin, Unconfigured, Return, Goto, Sound, faultVars, Fault, Refused, Answered,
         InstallInv, VersionCheck, Success
<1>3. \/ pc' \in {"idle", "admin"} /\ UNCHANGED pushVars
      \/ pc' = "push" /\ ~test /\ Call
  BY DEF Probe, Admin, Unconfigured, Return, Goto
<1>4. CASE pc' = "push" /\ Call
  <2>1. busy' = TRUE /\ mine' = "no" /\ ~test
    BY <1>3, <1>4 DEF Call
  <2> QED BY <1>1, <1>2, <1>4, <2>1 DEF InstallInv, hcxVars
<1>5. CASE pc' \in {"idle", "admin"} /\ UNCHANGED pushVars
  BY <1>1, <1>2, <1>5 DEF InstallInv, hcxVars, pushVars
<1> QED BY <1>3, <1>4, <1>5

LEMMA PushInv ==
    ASSUME TypeOK, InstallInv, PushWorks \/ PushDone
    PROVE  InstallInv'
<1>1. /\ UNCHANGED <<test, opt, hcxVars>> /\ (settled' => settled)
      /\ pc = "push"
  BY StepFaults, FaultTypes DEF PushWorks, PushDone, Step, OnlyAsks, runVars
<1>2. vm = "on" => vm' = "on"
  <2>1. PICK m \in {"no", "yes", "started"} : Move(m)
    BY DEF PushWorks, PushDone, Ends, Move
  <2> QED BY <2>1, WorkTypes DEF TypeOK
<1>3. CASE PushWorks
  BY <1>1, <1>2, <1>3 DEF PushWorks, InstallInv, hcxVars, runVars
<1>4. CASE PushDone
  <2>1. busy' = FALSE /\ mine' = "no"
    BY <1>4 DEF PushDone, Ends
  <2>2. pc' \in {"idle", "wait"} /\ outcome' \in {outcome, "failed"}
    BY <1>4 DEF PushDone, Await, Return
  <2>3. ~test /\ ~(settled /\ opt.pw = "config")
    BY <1>1 DEF InstallInv
  <2> QED BY <1>1, <1>2, <2>1, <2>2, <2>3 DEF InstallInv, hcxVars, Success
<1> QED BY <1>3, <1>4

LEMMA BootInv ==
    ASSUME TypeOK, InstallInv, FirstBoot \/ Ready \/ CheckInstalled
    PROVE  InstallInv'
<1>1. /\ UNCHANGED <<test, opt, api, pushVars>> /\ (settled' => settled)
      /\ pc \in {"wait", "activate", "configure", "register", "trust", "sso", "verify",
                 "ready", "check"}
  BY StepFaults, FaultTypes
  DEF FirstBoot, Step, Wait, Poll, Activate, Configure, Register, Trust, Sso, Verify, Ready,
      CheckInstalled, OnlyAsks, hcxVars
<1>2. ~test /\ ~(settled /\ opt.pw = "config") /\ pc' # "push"
  <2>1. ~test /\ ~(settled /\ opt.pw = "config")
    BY <1>1 DEF InstallInv
  <2>2. pc' # "push"
    BY <1>1 DEF FirstBoot, Wait, Poll, Activate, Configure, Register, Trust, Sso, Verify, Ready,
      CheckInstalled, Goto, Return, Await, Then
  <2> QED BY <2>1, <2>2
<1>3. registered => registered'
  BY DEF FirstBoot, Wait, Poll, Activate, Configure, Register, Trust, Sso, Verify, Ready,
         CheckInstalled, OnlyAsks, hcxVars
<1>4. registered' => registered \/ api = "up"
  BY DEF FirstBoot, Wait, Poll, Activate, Configure, Register, Trust, Sso, Verify, Ready,
         CheckInstalled, OnlyAsks, hcxVars
<1>5. /\ pc' \in {"sso", "verify", "ready", "check"} => registered'
      /\ outcome' \in Success => registered'
  <2> USE DEF InstallInv, Success, Goto, Return, Await, Then, OnlyAsks, hcxVars
  <2>1. CASE Wait \/ Ready
    BY <2>1 DEF Wait, Ready, Poll
  <2>2. CASE Activate \/ Configure
    BY <2>2 DEF Activate, Configure
  <2>3. CASE Register \/ Trust \/ Sso
    BY <2>3 DEF Register, Trust, Sso
  <2>4. CASE Verify \/ CheckInstalled
    BY <2>4 DEF Verify, CheckInstalled, VersionCheck
  <2> QED BY <2>1, <2>2, <2>3, <2>4 DEF FirstBoot
<1> QED BY <1>1, <1>2, <1>3, <1>4, <1>5 DEF InstallInv, pushVars

LEMMA EnvironmentInv ==
    ASSUME TypeOK, InstallInv, Environment
    PROVE  InstallInv'
<1>1. settled' => settled
  BY StepFaults, FaultTypes
<1>2. CASE Crash
  <2>1. /\ pc' = "idle" /\ outcome' = "failed" /\ mine' = "no" /\ busy' = FALSE
        /\ UNCHANGED <<vm, test, opt, hcxVars>>
    BY <1>2 DEF Crash
  <2> QED BY <1>1, <2>1 DEF InstallInv, Success, hcxVars
<1>3. CASE HostSettles
  BY <1>1, <1>3 DEF HostSettles, Settle, InstallInv, hcxVars, runVars
<1>4. CASE Boot
  BY <1>1, <1>4 DEF Boot, InstallInv, runVars, pushVars
<1>5. CASE Outage
  BY <1>5 DEF Outage, Fault, InstallInv, runVars, pushVars
<1> QED BY <1>2, <1>3, <1>4, <1>5 DEF Environment

THEOREM InstallInvHolds == Spec => []InstallInv
<1>1. Init => InstallInv
  BY DEF Init, PushInit, InstallInv, Success
<1>2. TypeOK /\ InstallInv /\ [Next]_vars => InstallInv'
  <2> SUFFICES ASSUME TypeOK, InstallInv, [Next]_vars
               PROVE  InstallInv'
    OBVIOUS
  <2>1. CASE UNCHANGED vars
    BY <2>1 DEF InstallInv, vars, runVars, hcxVars, faultVars, pushVars
  <2> QED BY <2>1, StartInv, ProbeInv, PushInv, BootInv, EnvironmentInv DEF Next, Step
<1> QED BY <1>1, <1>2, InstallTypes, PTL DEF Spec

(* A run that returns True has an appliance that runs and knows its        *)
(* vCenter. *)
THEOREM InstallSucceeds == Spec => []SuccessIsTrue
<1>1. InstallInv => SuccessIsTrue
  BY DEF InstallInv, SuccessIsTrue
<1> QED BY <1>1, InstallInvHolds, PTL

(* A run that meets a registered appliance that is up, and no fault, never *)
(* comes near the deployment. *)
THEOREM RepeatSafe == Spec => []RepeatIsNoOp
<1>1. InstallInv => RepeatIsNoOp
  BY DEF InstallInv, RepeatIsNoOp
<1> QED BY <1>1, InstallInvHolds, PTL

(* A run with test=True creates no VM and registers nothing. *)
THEOREM DryRunSafe == Spec => DryRunMutatesNothing
<1> DEFINE Dry == test => UNCHANGED <<trusted, registered, lookup>> /\ (busy' => ~test')
<1>1. InstallInv /\ InstallInv' /\ [Next]_vars => [Dry]_vars
  <2> SUFFICES ASSUME InstallInv, InstallInv', Next, test
               PROVE  UNCHANGED <<trusted, registered, lookup>> /\ (busy' => ~test')
    BY DEF vars
  <2>1. busy' => ~test'
    BY DEF InstallInv
  <2>2. pc \in {"idle", "probe", "admin"}
    BY DEF InstallInv
  <2>3. UNCHANGED <<trusted, registered, lookup>>
    BY <2>2 DEF Next, Step, Environment, Start, Probe, Admin, PushWorks, PushDone, FirstBoot,
                Wait, Activate, Configure, Register, Trust, Sso, Verify, Ready, CheckInstalled,
                Crash, HostSettles, Boot, Outage, OnlyAsks, hcxVars
  <2> QED BY <2>1, <2>3
<1> QED BY <1>1, InstallInvHolds, PTL DEF Spec, DryRunMutatesNothing
=============================================================================
