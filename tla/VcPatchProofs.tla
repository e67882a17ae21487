---------------------------- MODULE VcPatchProofs ----------------------------
(***************************************************************************)
(* Proofs about VcPatch: its type invariant, the inductive invariant that  *)
(* ties a running call to the appliance, and from it that VcPatch          *)
(* implements PatchLifecycle.                                              *)
(***************************************************************************)
EXTENDS VcPatch, TLAPS

(***************************************************************************)
(* Types.                                                                  *)
(***************************************************************************)

LEMMA ReturnTypes ==
    ASSUME CallTypeOK,
           NEW res, res \in {"true", "false", "test"}, NEW why, why \in Whys, Return(res, why)
    PROVE  CallTypeOK'
BY DEF CallTypeOK, Return, PCs

LEMMA FailsTypes ==
    ASSUME CallTypeOK, NEW r, FailsWith(r)
    PROVE  CallTypeOK'
BY ReturnTypes DEF FailsWith, Whys

LEMMA GotoTypes ==
    ASSUME CallTypeOK, NEW label, label \in PCs, Goto(label)
    PROVE  CallTypeOK'
BY DEF CallTypeOK, Goto

LEMMA MatchedTypes ==
    ASSUME CallTypeOK, NEW v \in Versions, Matched(v)
    PROVE  CallTypeOK'
BY DEF CallTypeOK, Matched, PCs

LEMMA AfterResolveTypes ==
    ASSUME CallTypeOK, NEW v \in Versions \cup {NoVersion}, AfterResolve(v)
    PROVE  CallTypeOK'
<1>1. CASE flow = "prepared" \/ ~opt.test
  <2>1. pc' \in {"probe", "install"} /\ outcome' = outcome
    BY <1>1 DEF AfterResolve
  <2> QED BY <2>1 DEF AfterResolve, CallTypeOK, PCs
<1>2. CASE flow # "prepared" /\ opt.test
  <2>1. pc' = "idle" /\ outcome' = [call |-> flow, result |-> "test", why |-> "test"]
    BY <1>2 DEF AfterResolve
  <2> QED BY <2>1 DEF AfterResolve, CallTypeOK, PCs, Whys
<1> QED BY <1>1, <1>2

LEMMA AfterMonitorTypes ==
    ASSUME CallTypeOK, AfterMonitor
    PROVE  CallTypeOK'
<1>1. CASE opt.precheck
  BY <1>1, PatchAssumption DEF CallTypeOK, AfterMonitor, PCs, LoopStages
<1>2. CASE ~opt.precheck
  BY <1>2, ReturnTypes DEF AfterMonitor, Whys
<1> QED BY <1>1, <1>2

LEMMA EnterMonitorTypes ==
    ASSUME CallTypeOK, NEW b \in BOOLEAN, NEW budget \in Nat, EnterMonitor(b, budget),
           preLeft' = preLeft
    PROVE  CallTypeOK'
BY DEF CallTypeOK, EnterMonitor, PCs, LoopStages

LEMMA AfterStageTypes ==
    ASSUME CallTypeOK, AfterStage
    PROVE  CallTypeOK'
<1>1. CASE opt.monitor
  BY <1>1, EnterMonitorTypes, PatchAssumption DEF AfterStage
<1>2. CASE ~opt.monitor
  BY <1>2, AfterMonitorTypes DEF AfterStage
<1> QED BY <1>1, <1>2

LEMMA MonitorSucceedsTypes ==
    ASSUME CallTypeOK, MonitorSucceeds
    PROVE  CallTypeOK'
<1>1. CASE ~inner
  BY <1>1, AfterMonitorTypes DEF MonitorSucceeds
<1>2. CASE inner /\ preLeft = 0
  BY <1>2, ReturnTypes DEF MonitorSucceeds, Whys
<1>3. CASE inner /\ preLeft # 0
  BY <1>3 DEF MonitorSucceeds, CallTypeOK, PCs, LoopStages
<1> QED BY <1>1, <1>2, <1>3 DEF CallTypeOK

LEMMA SleepTypes ==
    ASSUME NEW b \in Nat, b # 0, outage \in 0..MaxOutage, Sleep(b)
    PROVE  left' \in Nat /\ outage' \in 0..MaxOutage
BY ApplianceAssumption DEF Sleep

LEMMA NextRoundTypes ==
    ASSUME CallTypeOK, outage \in 0..MaxOutage,
           NEW label, label \in PCs, NEW errors \in Nat, NextRound(label, errors)
    PROVE  CallTypeOK' /\ outage' \in 0..MaxOutage
<1>1. CASE left = 0
  BY <1>1, ReturnTypes DEF NextRound, Whys
<1>2. CASE left # 0
  BY <1>2, SleepTypes DEF NextRound, CallTypeOK
<1> QED BY <1>1, <1>2

LEMMA TransientTypes ==
    ASSUME CallTypeOK, outage \in 0..MaxOutage,
           NEW label, label \in PCs, NEW limit, NEW r, TransientError(r, label, limit)
    PROVE  CallTypeOK' /\ outage' \in 0..MaxOutage /\ token' = "none" /\ spared' = spared
<1>1. CASE transients + 1 >= limit
  BY <1>1, ReturnTypes DEF TransientError, Whys
<1>2. CASE ~(transients + 1 >= limit)
  <2>1. NextRound(label, transients + 1)
    BY <1>2 DEF TransientError
  <2>2. transients + 1 \in Nat
    BY DEF CallTypeOK
  <2> QED BY <2>1, <2>2, NextRoundTypes DEF TransientError
<1> QED BY <1>1, <1>2

LEMMA AskTypes ==
    ASSUME token \in {"none", "live", "expired"}, NEW r, Ask(r)
    PROVE  token' \in {"none", "live", "expired"}
BY DEF Ask

LEMMA SentTypes ==
    ASSUME TypeOK, Sent, CallTypeOK', token' \in {"none", "live", "expired"}
    PROVE  TypeOK'
BY DEF TypeOK, ApplianceTypeOK, Sent, apVars, faultVars

(* Every request keeps the types. *)
LEMMA RequestTypes ==
    ASSUME TypeOK, Request
    PROVE  TypeOK'
<1> USE DEF TypeOK
<1>1. CASE SetPolicy
  <2>1. PICK r \in Replies : /\ Ask(r)
                             /\ IF r = "ok"
                                THEN /\ apPolicy' = TRUE
                                     /\ Goto(IF opt.version = NoVersion THEN "list"
                                             ELSE "lookup")
                                ELSE UNCHANGED apPolicy /\ FailsWith(r)
    BY <1>1 DEF SetPolicy
  <2>2. CallTypeOK' /\ apPolicy' \in BOOLEAN
    BY <2>1, GotoTypes, FailsTypes DEF PCs, ApplianceTypeOK
  <2> QED BY <1>1, <2>1, <2>2, AskTypes DEF SetPolicy, ApplianceTypeOK, faultVars
<1>2. CASE Lookup
  <2>1. PICK r \in Replies :
          /\ Ask(r)
          /\ IF r = "ok" /\ Listed(opt.version) THEN AfterResolve(opt.version)
             ELSE IF r = "conn" THEN FailsWith(r)
             ELSE Goto("list")
    BY <1>2 DEF Lookup
  <2>2. Listed(opt.version) => opt.version \in Versions
    BY DEF Listed, ApplianceTypeOK
  <2>3. CallTypeOK'
    BY <2>1, <2>2, AfterResolveTypes, FailsTypes, GotoTypes DEF PCs
  <2> QED BY <1>2, <2>1, <2>3, AskTypes, SentTypes DEF Lookup
<1>3. CASE ListPending
  <2> DEFINE src == IF flow = "prepared" /\ opt.repo THEN "url" ELSE "online"
  <2>1. PICK r \in Replies :
          /\ Ask(r)
          /\ \/ FailsWith(r)
             \/ Return("false", "nothing") \/ Return("false", "nomatch")
             \/ \E v \in pending[src] : Matched(v)
    BY <1>3 DEF ListPending
  <2>2. pending[src] \subseteq Versions
    BY DEF ApplianceTypeOK, Sources
  <2>3. CallTypeOK'
    BY <2>1, <2>2, MatchedTypes, FailsTypes, ReturnTypes DEF Whys
  <2> QED BY <1>3, <2>1, <2>3, AskTypes, SentTypes DEF ListPending
<1>detail. CASE Detail
  <2>1. PICK r \in Replies :
          /\ Ask(r)
          /\ IF r = "conn" THEN FailsWith(r) ELSE AfterResolve(resolved)
    BY <1>detail DEF Detail
  <2>2. CallTypeOK'
    BY <2>1, AfterResolveTypes, FailsTypes DEF CallTypeOK
  <2> QED BY <1>detail, <2>1, <2>2, AskTypes, SentTypes DEF Detail
<1>4. CASE ProbeStaged
  <2>1. PICK r \in Replies :
          /\ Ask(r)
          /\ Return("true", "noop") \/ Return("test", "test") \/ Goto("stage")
    BY <1>4 DEF ProbeStaged
  <2>2. CallTypeOK'
    BY <2>1, ReturnTypes, GotoTypes DEF Whys, PCs
  <2> QED BY <1>4, <2>1, <2>2, AskTypes, SentTypes DEF ProbeStaged
<1>5. CASE Stage
  <2>0. token' \in {"none", "live", "expired"}
    BY <1>5, AskTypes DEF Stage
  <2>1. CASE \E r \in Replies \ {"ok"} : Ask(r) /\ FailsWith(r) /\ UNCHANGED apVars
    BY <1>5, <2>0, <2>1, FailsTypes, SentTypes DEF Stage, Sent
  <2>2. CASE Return("false", "refused") /\ UNCHANGED apVars
    BY <1>5, <2>0, <2>2, ReturnTypes, SentTypes DEF Stage, Sent, Whys
  <2>3. CASE /\ AcceptStage(resolved)
             /\ \/ AfterStage
                \/ /\ pc' = "waitStaged" /\ left' = WaitBudget
                   /\ UNCHANGED <<flow, opt, resolved, inner, transients, preLeft, outcome>>
                \/ Return("false", "readtimeout")
    <3>1. CallTypeOK'
      <4>1. CASE AfterStage
        BY <4>1, AfterStageTypes
      <4>2. CASE /\ pc' = "waitStaged" /\ left' = WaitBudget
                 /\ UNCHANGED <<flow, opt, resolved, inner, transients, preLeft, outcome>>
        BY <4>2, PatchAssumption DEF CallTypeOK, PCs, LoopStages
      <4>3. CASE Return("false", "readtimeout")
        BY <4>3, ReturnTypes DEF Whys
      <4> QED BY <2>3, <4>1, <4>2, <4>3
    <3>2. ApplianceTypeOK'
      BY <1>5, <2>3 DEF Stage, AcceptStage, ApplianceTypeOK, CallTypeOK, States, faultVars
    <3> QED BY <1>5, <2>0, <3>1, <3>2 DEF Stage
  <2> QED BY <1>5, <2>1, <2>2, <2>3 DEF Stage
<1>6. CASE WaitStaged
  <2>1. PICK r \in Replies :
          /\ Ask(r)
          /\ \/ FailsWith(r) /\ UNCHANGED outage
             \/ AfterStage /\ UNCHANGED outage
             \/ left = 0 /\ Return("false", "timeout") /\ UNCHANGED outage
             \/ /\ left # 0 /\ Sleep(left)
                /\ UNCHANGED <<pc, flow, opt, resolved, inner, transients, preLeft, outcome>>
    BY <1>6 DEF WaitStaged
  <2>2. outage \in 0..MaxOutage
    BY DEF ApplianceTypeOK
  <2>3. CallTypeOK' /\ outage' \in 0..MaxOutage
    <3>1. CASE left # 0 /\ Sleep(left)
               /\ UNCHANGED <<pc, flow, opt, resolved, inner, transients, preLeft, outcome>>
      BY <2>2, <3>1, SleepTypes DEF CallTypeOK
    <3> QED BY <2>1, <2>2, <3>1, FailsTypes, AfterStageTypes, ReturnTypes DEF Whys
  <2> QED BY <1>6, <2>1, <2>3, AskTypes DEF WaitStaged, ApplianceTypeOK, apVars
<1>7. CASE MonitorStaged
  <2>1. PICK r \in Replies :
          /\ Ask(r)
          /\ MonitorSucceeds \/ FailsWith(r) \/ Goto("msStatus")
    BY <1>7 DEF MonitorStaged
  <2>2. CallTypeOK'
    BY <2>1, MonitorSucceedsTypes, FailsTypes, GotoTypes DEF PCs, LoopStages
  <2> QED BY <1>7, <2>1, <2>2, AskTypes, SentTypes DEF MonitorStaged
<1>8. CASE MonitorStatus
  <2>1. /\ CallTypeOK' /\ outage' \in 0..MaxOutage /\ spared' \subseteq Troubles
        /\ token' \in {"none", "live", "expired"}
    <3>0. outage \in 0..MaxOutage /\ spared \subseteq Troubles /\ 0 \in Nat
      BY DEF ApplianceTypeOK
    <3>1. CASE \E r \in HTTPError : TransientError(r, "msStaged", Limit)
      <4>1. PICK r \in HTTPError : TransientError(r, "msStaged", Limit)
        BY <3>1
      <4>2. "msStaged" \in PCs
        BY DEF PCs, LoopStages
      <4> QED BY <3>0, <4>1, <4>2, TransientTypes
    <3>2. CASE \E r \in Replies \cap {"hard", "conn"} :
                 Ask(r) /\ FailsWith(r) /\ UNCHANGED <<outage, spared>>
      BY <3>0, <3>2, FailsTypes, AskTypes
    <3>3. CASE /\ Ask("ok") /\ spared' = Troubles
               /\ \/ Return("false", "failed") /\ UNCHANGED outage
                  \/ NextRound("msStaged", 0)
      BY <3>0, <3>3, ReturnTypes, NextRoundTypes, AskTypes DEF Whys, PCs, LoopStages
    <3> QED BY <1>8, <3>1, <3>2, <3>3 DEF MonitorStatus
  <2> QED BY <1>8, <2>1 DEF MonitorStatus, ApplianceTypeOK, apVars
<1>9. CASE Precheck
  <2>0. resolved \in Versions \cup {NoVersion}
    BY DEF CallTypeOK
  <2>1. CallTypeOK' /\ prechecked' \subseteq Versions \cup {NoVersion}
        /\ token' \in {"none", "live", "expired"}
    <3>1. CASE \E r \in Replies \ {"ok"} : Ask(r) /\ FailsWith(r) /\ UNCHANGED prechecked
      BY <3>1, FailsTypes, AskTypes
    <3>2. CASE Ask("ok") /\ EnterMonitor(TRUE, InnerBudget) /\ UNCHANGED <<preLeft, prechecked>>
      BY <3>2, EnterMonitorTypes, AskTypes, PatchAssumption
    <3>3. CASE /\ Ask("ok") /\ prechecked' = prechecked \cup {resolved}
               /\ Return("true", "done")
      BY <2>0, <3>3, ReturnTypes, AskTypes DEF Whys
    <3> QED BY <1>9, <3>1, <3>2, <3>3 DEF Precheck
  <2> QED BY <1>9, <2>1 DEF Precheck, ApplianceTypeOK, apVars, faultVars
<1>10. CASE Install
  <2>0. token' \in {"none", "live", "expired"}
    BY <1>10, AskTypes DEF Install
  <2>1. CASE \E r \in Replies \ {"ok"} : Ask(r) /\ FailsWith(r) /\ UNCHANGED apVars
    BY <1>10, <2>0, <2>1, FailsTypes, SentTypes DEF Install, Sent
  <2>2. CASE Return("false", "refused") /\ UNCHANGED apVars
    BY <1>10, <2>0, <2>2, ReturnTypes, SentTypes DEF Install, Sent, Whys
  <2>3. CASE /\ AcceptInstall(resolved)
             /\ \/ /\ pc' = "miStatus" /\ transients' = 0 /\ left' = InstallBudget
                   /\ UNCHANGED <<flow, opt, resolved, inner, preLeft, outcome>>
                \/ Return("true", "done") \/ Return("false", "readtimeout")
    <3>1. CallTypeOK'
      <4>1. CASE /\ pc' = "miStatus" /\ transients' = 0 /\ left' = InstallBudget
                 /\ UNCHANGED <<flow, opt, resolved, inner, preLeft, outcome>>
        BY <4>1, PatchAssumption DEF CallTypeOK, PCs
      <4> QED BY <2>3, <4>1, ReturnTypes DEF Whys
    <3>2. ApplianceTypeOK'
      BY <1>10, <2>3 DEF Install, AcceptInstall, ApplianceTypeOK, CallTypeOK, States, faultVars
    <3> QED BY <1>10, <2>0, <3>1, <3>2 DEF Install
  <2> QED BY <1>10, <2>1, <2>2, <2>3 DEF Install
<1>11. CASE MonitorInstall
  <2>1. /\ CallTypeOK' /\ outage' \in 0..MaxOutage /\ spared' \subseteq Troubles
        /\ token' \in {"none", "live", "expired"}
    <3>0. outage \in 0..MaxOutage /\ spared \subseteq Troubles /\ 0 \in Nat
          /\ "miStatus" \in PCs
      BY DEF ApplianceTypeOK, PCs
    <3>1. CASE \E r \in HTTPError : TransientError(r, "miStatus", MaxTransient)
      <4>1. PICK r \in HTTPError : TransientError(r, "miStatus", MaxTransient)
        BY <3>1
      <4> QED BY <3>0, <4>1, TransientTypes
    <3>2. CASE \E r \in Replies \cap {"hard", "conn"} :
                 Ask(r) /\ FailsWith(r) /\ UNCHANGED <<outage, spared>>
      BY <3>0, <3>2, FailsTypes, AskTypes
    <3>3. CASE /\ Ask("ok") /\ spared' = Troubles
               /\ \/ Return("true", "done") /\ UNCHANGED outage
                  \/ Return("false", "failed") /\ UNCHANGED outage
                  \/ NextRound("miStatus", 0)
      BY <3>0, <3>3, ReturnTypes, NextRoundTypes, AskTypes DEF Whys
    <3> QED BY <1>11, <3>1, <3>2, <3>3 DEF MonitorInstall
  <2> QED BY <1>11, <2>1 DEF MonitorInstall, ApplianceTypeOK, apVars
<1> QED BY <1>1, <1>2, <1>3, <1>4, <1>5, <1>6, <1>7, <1>8, <1>9, <1>10, <1>11,
           <1>detail DEF Request

LEMMA BeginTypes ==
    ASSUME TypeOK, NEW f \in Flows, NEW o \in OptionSet, Begin(f, o)
    PROVE  TypeOK'
<1>1. pc' \in PCs
  BY DEF Begin, PCs
<1>2. NoOutcome \in [call : Flows \cup {"none"}, result : {"none", "true", "false", "test"},
                     why : Whys]
  BY DEF NoOutcome, Whys
<1>3. CallTypeOK'
  BY <1>1, <1>2 DEF Begin, CallTypeOK
<1>4. calls' \in 0..MaxCalls
  BY PatchAssumption DEF Begin, TypeOK
<1>5. ApplianceTypeOK'
  BY DEF Begin, TypeOK, ApplianceTypeOK, apVars
<1> QED BY <1>3, <1>4, <1>5 DEF Begin, TypeOK

LEMMA CallTypes ==
    ASSUME TypeOK, Call
    PROVE  TypeOK'
<1>1. Options \subseteq OptionSet /\ opt \in OptionSet
  BY PatchAssumption DEF TypeOK, CallTypeOK
<1> QED BY <1>1, BeginTypes DEF Call, update_prepared, update_installed, installed, Flows

LEMMA EnvironmentTypes ==
    ASSUME TypeOK, Appliance \/ ExpireSession \/ Disturb
    PROVE  TypeOK'
<1> USE DEF TypeOK
<1>1. CASE Appliance
  <2>1. ApplianceTypeOK'
    <3>1. CASE StageDone \/ StageFails \/ InstallFails
      BY <1>1, <3>1 DEF Appliance, StageDone, StageFails, InstallFails, ApplianceTypeOK, States,
                        faultVars
    <3>2. CASE InstallDone
      <4>1. pending' \in [Sources -> SUBSET Versions]
        BY <3>2 DEF InstallDone, ApplianceTypeOK
      <4> QED BY <1>1, <3>2, <4>1 DEF Appliance, InstallDone, ApplianceTypeOK, States, faultVars
    <3> QED BY <1>1, <3>1, <3>2 DEF Appliance, ApplianceWork
  <2> QED BY <1>1, <2>1 DEF Appliance, CallTypeOK, callVars
<1>2. CASE ExpireSession
  BY <1>2 DEF ExpireSession, ApplianceTypeOK, CallTypeOK, apVars, callVars
<1>3. CASE Disturb
  <2>1. CASE Bounce
    BY <1>3, <2>1, ApplianceAssumption DEF Disturb, Bounce, ApplianceTypeOK, CallTypeOK, apVars,
                                           callVars
  <2>2. CASE Meddle
    <3>1. UNCHANGED <<outage, spared, bounces, callVars, token, prechecked, calls>>
      BY <1>3, <2>2 DEF Disturb, Meddle
    <3>2. meddling' \in 0..MaxMeddling /\ meddled' \in BOOLEAN
      <4>1. meddled' = TRUE
        BY <2>2 DEF Meddle
      <4>2. meddling' \in 0..MaxMeddling
        BY <2>2, ApplianceAssumption DEF Meddle, ApplianceTypeOK
      <4> QED BY <4>1, <4>2
    <3>3. apState' \in States /\ {apStaged', apTarget'} \subseteq Versions \cup {NoVersion}
      BY <2>2 DEF Meddle, AcceptStage, delete_staged_update, repository_configured,
                  ApplianceTypeOK, States
    <3>4. UNCHANGED <<apInstalled, pending>> /\ apPolicy' \in BOOLEAN
      <4>1. UNCHANGED <<apInstalled, pending>> /\ (apPolicy' = apPolicy \/ apPolicy' = TRUE)
        BY <2>2 DEF Meddle, AcceptStage, delete_staged_update, repository_configured
      <4> QED BY <4>1, Zenon DEF ApplianceTypeOK
    <3> QED BY <3>1, <3>2, <3>3, <3>4 DEF ApplianceTypeOK, CallTypeOK, callVars
  <2> QED BY <1>3, <2>1, <2>2 DEF Disturb
<1> QED BY <1>1, <1>2, <1>3

(* Every variable keeps its type, for every set of versions and every bound. *)
THEOREM TypeCorrect == Spec => []TypeOK
<1>1. Init => TypeOK
  <2> SUFFICES ASSUME Init PROVE TypeOK
    OBVIOUS
  <2>1. ApplianceTypeOK
    <3>1. outage \in 0..MaxOutage /\ bounces \in 0..MaxBounces /\ meddling \in 0..MaxMeddling
      BY ApplianceAssumption DEF Init, ApplianceInit
    <3> QED BY <3>1, ApplianceAssumption DEF Init, ApplianceInit, ApplianceTypeOK, States
  <2>2. NoOutcome \in [call : Flows \cup {"none"}, result : {"none", "true", "false", "test"},
                       why : Whys]
    BY DEF NoOutcome, Whys
  <2>3. CallTypeOK
    BY <2>2, PatchAssumption DEF Init, CallTypeOK, PCs, Flows
  <2> QED BY <2>1, <2>3, PatchAssumption DEF Init, TypeOK
<1>2. TypeOK /\ [Next]_vars => TypeOK'
  <2> SUFFICES ASSUME TypeOK, [Next]_vars PROVE TypeOK'
    OBVIOUS
  <2>1. CASE UNCHANGED vars
    BY <2>1 DEF vars, apVars, faultVars, callVars, TypeOK, ApplianceTypeOK, CallTypeOK
  <2> QED BY <2>1, RequestTypes, CallTypes, EnvironmentTypes DEF Next
<1> QED BY <1>1, <1>2, PTL DEF Spec

(***************************************************************************)
(* The inductive invariant.                                                *)
(***************************************************************************)

(* What an action that ends a call, or moves on without touching the       *)
(* appliance, must establish: the invariant's claims about the next pc.    *)
Agrees == CallAgreesWithAppliance

LEMMA ReturnAgrees ==
    ASSUME Agrees, NEW res, NEW why, Return(res, why), apState' = apState,
           apTarget' = apTarget, apStaged' = apStaged
    PROVE  Agrees'
BY DEF Agrees, CallAgreesWithAppliance, Return, Busy, LoopStages

LEMMA FailsAgrees ==
    ASSUME Agrees, NEW r, FailsWith(r), apState' = apState,
           apTarget' = apTarget, apStaged' = apStaged
    PROVE  Agrees'
BY ReturnAgrees DEF FailsWith

LEMMA AfterMonitorAgrees ==
    ASSUME Agrees, AfterMonitor, pc' \in LoopStages \cup {"idle"},
           pc \in LoopStages, outcome = NoOutcome,
           opt.monitor /\ ~meddled => StagedMatches(resolved),
           UNCHANGED apVars, meddled' = meddled
    PROVE  Agrees'
<1>1. CASE opt.precheck
  BY <1>1 DEF AfterMonitor, Agrees, CallAgreesWithAppliance, LoopStages, Busy, StagedMatches, apVars
<1>2. CASE ~opt.precheck
  BY <1>2, ReturnAgrees DEF AfterMonitor, apVars
<1> QED BY <1>1, <1>2

LEMMA EnterMonitorAgrees ==
    ASSUME Agrees, NEW b, NEW budget, EnterMonitor(b, budget), pc \in LoopStages,
           UNCHANGED apVars, meddled' = meddled
    PROVE  Agrees'
BY DEF EnterMonitor, Agrees, CallAgreesWithAppliance, LoopStages, Busy, apVars

LEMMA NextRoundAgrees ==
    ASSUME Agrees, NEW label, NEW errors, NextRound(label, errors),
           \/ pc = "msStatus" /\ label = "msStaged"
           \/ pc = "miStatus" /\ label = "miStatus",
           UNCHANGED apVars, meddled' = meddled
    PROVE  Agrees'
<1>1. CASE left = 0
  BY <1>1, ReturnAgrees DEF NextRound, apVars
<1>2. CASE left # 0
  BY <1>2 DEF NextRound, Agrees, CallAgreesWithAppliance, LoopStages, Busy, apVars
<1> QED BY <1>1, <1>2

LEMMA TransientAgrees ==
    ASSUME Agrees, NEW label, NEW limit, NEW r, TransientError(r, label, limit),
           \/ pc = "msStatus" /\ label = "msStaged"
           \/ pc = "miStatus" /\ label = "miStatus",
           UNCHANGED apVars, meddled' = meddled
    PROVE  Agrees'
BY ReturnAgrees, NextRoundAgrees DEF TransientError, apVars

LEMMA RequestAgrees ==
    ASSUME TypeOK, Agrees, Request
    PROVE  Agrees'
<1>1. CASE SetPolicy
  <2>1. PICK r \in Replies : \/ Goto("list") \/ Goto("lookup")
                             \/ FailsWith(r)
    BY <1>1 DEF SetPolicy
  <2>2. CASE Goto("list") \/ Goto("lookup")
    BY <1>1, <2>2 DEF SetPolicy, Goto, Agrees, CallAgreesWithAppliance, Busy, LoopStages
  <2> QED BY <1>1, <2>1, <2>2, FailsAgrees DEF SetPolicy
<1>2. CASE Lookup \/ ListPending \/ Detail
  <2>0. UNCHANGED apVars /\ meddled' = meddled /\ pc \in {"lookup", "list", "detail"}
    BY <1>2 DEF Lookup, ListPending, Detail, Sent, faultVars
  <2>1. \/ \E r : FailsWith(r) \/ (\E why : Return("false", why)) \/ Goto("list")
        \/ \E v \in Versions : Matched(v) \/ AfterResolve(v)
    <3>1. /\ Listed(opt.version) => opt.version \in Versions
          /\ \A src \in Sources : pending[src] \subseteq Versions
      BY DEF Listed, TypeOK, ApplianceTypeOK
    <3>2. CASE Lookup
      BY <3>1, <3>2 DEF Lookup
    <3>3. CASE ListPending
      <4> DEFINE src == IF flow = "prepared" /\ opt.repo THEN "url" ELSE "online"
      <4>1. src \in Sources
        BY DEF Sources
      <4> QED BY <3>1, <3>3, <4>1 DEF ListPending
    <3>4. CASE Detail
      <4>1. resolved \in Versions
        BY <3>4 DEF Detail, Agrees, CallAgreesWithAppliance
      <4> QED BY <3>4, <4>1 DEF Detail
    <3> QED BY <1>2, <3>2, <3>3, <3>4
  <2>2. CASE Goto("list")
    BY <2>0, <2>2 DEF Goto, Agrees, CallAgreesWithAppliance, Busy, LoopStages, apVars
  <2>4. CASE \E v \in Versions : Matched(v)
    BY <2>0, <2>4 DEF Matched, Agrees, CallAgreesWithAppliance, Busy, LoopStages, apVars
  <2>3. CASE \E v \in Versions : AfterResolve(v)
    <3>1. PICK v \in Versions : AfterResolve(v)
      BY <2>3
    <3>2. flow \in {"prepared", "installed"}
      BY DEF TypeOK, CallTypeOK, Flows
    <3>3. resolved' = v /\ flow' = flow /\ outcome = NoOutcome
      BY <2>0, <3>1 DEF AfterResolve, Agrees, CallAgreesWithAppliance
    <3>4. \/ pc' = "probe" /\ flow = "prepared" /\ outcome' = outcome
          \/ pc' = "install" /\ flow = "installed" /\ outcome' = outcome
          \/ pc' = "idle"
      BY <3>1, <3>2 DEF AfterResolve
    <3> QED BY <2>0, <3>1, <3>3, <3>4 DEF Agrees, CallAgreesWithAppliance, Busy, LoopStages, apVars
  <2> QED BY <2>0, <2>1, <2>2, <2>3, <2>4, FailsAgrees, ReturnAgrees DEF apVars
<1>3. CASE ProbeStaged
  <2>1. \/ \E res, why : Return(res, why)
        \/ Goto("stage")
    BY <1>3 DEF ProbeStaged
  <2>2. CASE Goto("stage")
    BY <1>3, <2>2 DEF ProbeStaged, Sent, Goto, Agrees, CallAgreesWithAppliance, Busy, LoopStages,
                      apVars, faultVars
  <2> QED BY <1>3, <2>1, <2>2, ReturnAgrees DEF ProbeStaged, Sent, apVars
<1>4. CASE Stage
  <2>0. meddled' = meddled /\ pc = "stage"
    BY <1>4 DEF Stage, faultVars
  <2>1. CASE (\E r : FailsWith(r)) /\ UNCHANGED apVars
    BY <2>1, FailsAgrees DEF apVars
  <2>2. CASE Return("false", "refused") /\ UNCHANGED apVars
    BY <2>2, ReturnAgrees DEF apVars
  <2>3. CASE /\ AcceptStage(resolved)
             /\ \/ AfterStage
                \/ /\ pc' = "waitStaged"
                   /\ UNCHANGED <<flow, opt, resolved, inner, transients, preLeft, outcome>>
                \/ Return("false", "readtimeout")
    <3>1. /\ apState' = "STAGE_IN_PROGRESS" /\ apTarget' = resolved
          /\ resolved \in Versions /\ flow = "prepared" /\ outcome = NoOutcome
      BY <2>0, <2>3 DEF AcceptStage, Agrees, CallAgreesWithAppliance
    <3>2. /\ resolved' = resolved /\ flow' = flow /\ opt' = opt
          /\ \/ pc' = "idle"
             \/ pc' \in {"waitStaged", "msStaged"} /\ outcome' = outcome
             \/ pc' = "precheck" /\ outcome' = outcome /\ ~opt.monitor
      BY <2>3 DEF AfterStage, AfterMonitor, EnterMonitor, Return
    <3> QED BY <2>0, <3>1, <3>2 DEF Agrees, CallAgreesWithAppliance, Busy, LoopStages
  <2> QED BY <1>4, <2>1, <2>2, <2>3 DEF Stage
<1>5. CASE WaitStaged
  <2>0. UNCHANGED apVars /\ meddled' = meddled /\ pc = "waitStaged" /\ pc \in LoopStages
    BY <1>5 DEF WaitStaged, LoopStages
  <2>1. \/ \E r : FailsWith(r)
        \/ AfterStage
        \/ Return("false", "timeout")
        \/ UNCHANGED <<pc, flow, opt, resolved, inner, transients, preLeft, outcome>>
    BY <1>5 DEF WaitStaged
  <2>2. CASE AfterStage
    <3>1. CASE opt.monitor
      BY <2>0, <2>2, <3>1, EnterMonitorAgrees DEF AfterStage
    <3>2. CASE ~opt.monitor
      BY <2>0, <2>2, <3>2, AfterMonitorAgrees
         DEF AfterStage, AfterMonitor, Return, Agrees, CallAgreesWithAppliance, LoopStages
    <3> QED BY <3>1, <3>2
  <2>3. CASE UNCHANGED <<pc, flow, opt, resolved, inner, transients, preLeft, outcome>>
    BY <2>0, <2>3 DEF Agrees, CallAgreesWithAppliance, Busy, LoopStages, apVars
  <2> QED BY <2>0, <2>1, <2>2, <2>3, FailsAgrees, ReturnAgrees DEF apVars
<1>6. CASE MonitorStaged
  <2>0. /\ UNCHANGED apVars /\ meddled' = meddled /\ pc = "msStaged" /\ pc \in LoopStages
        /\ outcome = NoOutcome
    BY <1>6 DEF MonitorStaged, LoopStages, Sent, faultVars, Agrees, CallAgreesWithAppliance
  <2>1. \/ StagedMatches(resolved) /\ MonitorSucceeds
        \/ \E r : FailsWith(r)
        \/ Goto("msStatus")
    BY <1>6 DEF MonitorStaged
  <2>2. CASE StagedMatches(resolved) /\ MonitorSucceeds
    <3>1. CASE ~inner
      BY <2>0, <2>2, <3>1, AfterMonitorAgrees
         DEF MonitorSucceeds, AfterMonitor, Return, LoopStages
    <3>2. CASE inner /\ preLeft = 0
      BY <2>0, <2>2, <3>2, ReturnAgrees DEF MonitorSucceeds, apVars
    <3>3. CASE inner /\ preLeft # 0
      BY <2>0, <2>2, <3>3 DEF MonitorSucceeds, Agrees, CallAgreesWithAppliance, Busy, LoopStages,
                              StagedMatches, apVars
    <3> QED BY <3>1, <3>2, <3>3
  <2>3. CASE Goto("msStatus")
    BY <2>0, <2>3 DEF Goto, Agrees, CallAgreesWithAppliance, Busy, LoopStages, apVars
  <2> QED BY <2>0, <2>1, <2>2, <2>3, FailsAgrees DEF apVars
<1>7. CASE MonitorStatus
  <2>0. UNCHANGED apVars /\ meddled' = meddled /\ pc = "msStatus"
    BY <1>7 DEF MonitorStatus
  <2>1. \/ \E r : TransientError(r, "msStaged", Limit)
        \/ \E r : FailsWith(r)
        \/ Return("false", "failed")
        \/ NextRound("msStaged", 0)
    BY <1>7 DEF MonitorStatus
  <2> QED BY <2>0, <2>1, TransientAgrees, FailsAgrees, ReturnAgrees, NextRoundAgrees DEF apVars
<1>8. CASE Precheck
  <2>0. UNCHANGED apVars /\ meddled' = meddled /\ pc = "precheck" /\ pc \in LoopStages
    BY <1>8 DEF Precheck, faultVars, LoopStages
  <2>1. (\E r : FailsWith(r)) \/ EnterMonitor(TRUE, InnerBudget) \/ Return("true", "done")
    BY <1>8 DEF Precheck
  <2> QED BY <2>0, <2>1, EnterMonitorAgrees, FailsAgrees, ReturnAgrees DEF apVars
<1>9. CASE Install
  <2>0. meddled' = meddled /\ pc = "install"
    BY <1>9 DEF Install, faultVars
  <2>1. CASE ((\E r : FailsWith(r)) \/ Return("false", "refused")) /\ UNCHANGED apVars
    BY <2>1, FailsAgrees, ReturnAgrees DEF apVars
  <2>2. CASE /\ AcceptInstall(resolved)
             /\ \/ /\ pc' = "miStatus"
                   /\ UNCHANGED <<flow, opt, resolved, inner, preLeft, outcome>>
                \/ Return("true", "done") \/ Return("false", "readtimeout")
    <3>1. /\ apState' = "INSTALL_IN_PROGRESS" /\ apTarget' = resolved /\ apStaged' = resolved
          /\ resolved \in Versions /\ flow = "installed" /\ outcome = NoOutcome
      BY <2>0, <2>2 DEF AcceptInstall, CanInstall, Agrees, CallAgreesWithAppliance
    <3>2. /\ resolved' = resolved /\ flow' = flow
          /\ pc' = "idle" \/ (pc' = "miStatus" /\ outcome' = outcome)
      BY <2>2 DEF Return
    <3> QED BY <2>0, <3>1, <3>2 DEF Agrees, CallAgreesWithAppliance, Busy, LoopStages
  <2> QED BY <1>9, <2>1, <2>2 DEF Install
<1>10. CASE MonitorInstall
  <2>0. UNCHANGED apVars /\ meddled' = meddled /\ pc = "miStatus"
    BY <1>10 DEF MonitorInstall
  <2>1. \/ \E r : TransientError(r, "miStatus", MaxTransient)
        \/ \E r : FailsWith(r)
        \/ \E res, why : Return(res, why)
        \/ NextRound("miStatus", 0)
    BY <1>10 DEF MonitorInstall
  <2> QED BY <2>0, <2>1, TransientAgrees, FailsAgrees, ReturnAgrees, NextRoundAgrees DEF apVars
<1> QED BY <1>1, <1>2, <1>3, <1>4, <1>5, <1>6, <1>7, <1>8, <1>9, <1>10 DEF Request

LEMMA OthersAgree ==
    ASSUME TypeOK, Agrees, Call \/ Appliance \/ ExpireSession \/ Disturb
    PROVE  Agrees'
<1> USE DEF Agrees, CallAgreesWithAppliance
<1>1. CASE Call
  <2>1. PICK f \in Flows : \E o : Begin(f, o)
    BY <1>1 DEF Call, update_prepared, update_installed, installed, Flows
  <2> QED BY <2>1 DEF Begin, LoopStages, Busy, apVars
<1>2. CASE Appliance
  <2>0. UNCHANGED callVars /\ meddled' = meddled
    BY <1>2 DEF Appliance, faultVars
  <2>1. CASE StageDone
    <3>1. /\ apTarget \in Versions /\ apState' = "UPDATES_PENDING" /\ apStaged' = apTarget
          /\ apTarget' = apTarget
      BY <2>1 DEF StageDone, Busy
    <3>2. ~Busy'
      BY <3>1 DEF Busy
    <3>3. apTarget = resolved => StagedMatches(resolved)'
      BY <2>0, <3>1, ApplianceAssumption DEF StagedMatches, Matches, callVars
    <3> QED BY <2>0, <3>1, <3>2, <3>3 DEF callVars, LoopStages
  <2>2. CASE StageFails
    BY <2>0, <2>2 DEF StageFails, callVars, LoopStages, Busy, StagedMatches
  <2>3. CASE InstallDone
    BY <2>0, <2>3 DEF InstallDone, callVars, LoopStages, Busy, StagedMatches
  <2>4. CASE InstallFails
    BY <2>0, <2>4 DEF InstallFails, callVars, LoopStages, Busy, StagedMatches
  <2> QED BY <1>2, <2>1, <2>2, <2>3, <2>4 DEF Appliance, ApplianceWork
<1>3. CASE ExpireSession
  BY <1>3 DEF ExpireSession, callVars, LoopStages, Busy, StagedMatches, apVars
<1>4. CASE Disturb
  <2>1. CASE Bounce
    BY <1>4, <2>1 DEF Disturb, Bounce, callVars, LoopStages, Busy, StagedMatches, apVars
  <2>2. CASE Meddle
    <3>1. UNCHANGED callVars /\ meddled' = TRUE
      BY <1>4, <2>2 DEF Disturb, Meddle
    <3>2. \/ apState' = "STAGE_IN_PROGRESS" /\ apTarget' \in Versions
          \/ ~Busy /\ UNCHANGED <<apState, apTarget>>
          \/ UNCHANGED <<apState, apStaged, apTarget, apInstalled, pending>>
      BY <2>2 DEF Meddle, AcceptStage, delete_staged_update, repository_configured
    <3> QED BY <3>1, <3>2 DEF callVars, LoopStages, Busy, StagedMatches
  <2> QED BY <1>4, <2>1, <2>2 DEF Disturb
<1> QED BY <1>1, <1>2, <1>3, <1>4

(* The running call and the appliance agree, whatever outages, lost        *)
(* answers, retries and other administrators come between.                 *)
THEOREM CallAgrees == Spec => []CallAgreesWithAppliance
<1>1. Init => CallAgreesWithAppliance
  BY DEF Init, ApplianceInit, CallAgreesWithAppliance, Busy, LoopStages
<1>2. TypeOK /\ CallAgreesWithAppliance /\ [Next]_vars => CallAgreesWithAppliance'
  <2> SUFFICES ASSUME TypeOK, CallAgreesWithAppliance, [Next]_vars
               PROVE  CallAgreesWithAppliance'
    OBVIOUS
  <2>1. CASE UNCHANGED vars
    BY <2>1 DEF CallAgreesWithAppliance, vars, apVars, faultVars, callVars, Busy, LoopStages,
                StagedMatches
  <2> QED BY <2>1, RequestAgrees, OthersAgree DEF Next, Agrees
<1> QED BY <1>1, <1>2, TypeCorrect, PTL DEF Spec

(***************************************************************************)
(* The refinement of PatchLifecycle.                                       *)
(***************************************************************************)

LEMMA QuietReturn ==
    ASSUME NEW res, NEW why, Return(res, why), Claim = Lifecycle!Nothing,
           \/ res # "true"
           \/ ~opt.monitor /\ why # "noop"
    PROVE  Claim' = Claim
BY DEF Return, Claim, Lifecycle!Nothing

LEMMA QuietFailure ==
    ASSUME NEW r, FailsWith(r), Claim = Lifecycle!Nothing
    PROVE  Claim' = Claim
BY QuietReturn DEF FailsWith

(* A success that is reported as prepared, or as installed. *)
LEMMA LoudReturn ==
    ASSUME NEW why, Return("true", why), opt.monitor \/ why = "noop"
    PROVE  Claim' = [kind |-> flow, version |-> resolved]
BY DEF Return, Claim

LEMMA SilentCall ==
    ASSUME outcome = NoOutcome
    PROVE  Claim = Lifecycle!Nothing
BY DEF Claim, NoOutcome, Lifecycle!Nothing

(* Every step of VcPatch is a step of PatchLifecycle or leaves it alone. *)
LEMMA StepRefines ==
    ASSUME TypeOK, CallAgreesWithAppliance, [Next]_vars
    PROVE  [Lifecycle!Next]_(Lifecycle!vars)
<1> USE DEF Lifecycle!Next, Lifecycle!vars
<1>0. Request => outcome = NoOutcome /\ Claim = Lifecycle!Nothing
  <2>1. Request => pc # "idle"
    BY DEF Request, SetPolicy, Lookup, ListPending, Detail, ProbeStaged, Stage, WaitStaged,
           MonitorStaged, MonitorStatus, Precheck, Install, MonitorInstall
  <2> QED BY <2>1, SilentCall DEF CallAgreesWithAppliance
<1> DEFINE Still == UNCHANGED <<apStaged, apInstalled, meddled>>
<1>quiet. ASSUME Still, Claim' = Claim
          PROVE  UNCHANGED Lifecycle!vars
  BY <1>quiet
<1>loud. ASSUME Still, Claim = Lifecycle!Nothing, resolved \in Versions, flow = "prepared",
                Claim' = [kind |-> flow, version |-> resolved],
                meddled \/ StagedMatches(resolved)
         PROVE  Lifecycle!Next
  <2>1. Lifecycle!ReportPrepared(resolved)
    BY <1>loud DEF Lifecycle!ReportPrepared, Lifecycle!SameUpdate, StagedMatches, Matches
  <2> QED BY <2>1, <1>loud
<1>1. CASE SetPolicy
  <2>1. PICK r : \/ UNCHANGED outcome /\ UNCHANGED <<opt, resolved>>
                 \/ FailsWith(r)
    BY <1>1 DEF SetPolicy, Goto
  <2>2. Claim' = Claim
    BY <2>1, <1>0, <1>1, QuietFailure DEF Claim, Request
  <2> QED BY <1>1, <2>2, <1>quiet DEF SetPolicy, faultVars
<1>2. CASE Lookup \/ ListPending \/ Detail
  <2>1. \/ \E r : FailsWith(r) \/ (\E why : Return("false", why)) \/ Goto("list")
        \/ \E v : Matched(v) \/ AfterResolve(v)
    <3>1. CASE Lookup
      BY <3>1 DEF Lookup
    <3>2. CASE ListPending
      BY <3>2 DEF ListPending
    <3>3. CASE Detail
      BY <3>3 DEF Detail
    <3> QED BY <1>2, <3>1, <3>2, <3>3
  <2>2. \A v : Matched(v) \/ AfterResolve(v)
                 => outcome' = outcome \/ outcome'.result = "test"
    BY DEF Matched, AfterResolve
  <2>3. Claim' = Claim
    <3>1. CASE outcome' = outcome \/ outcome'.result = "test"
      <4>1. outcome = NoOutcome /\ Claim = Lifecycle!Nothing
        BY <1>0, <1>2 DEF Request
      <4>2. outcome'.result # "true"
        <5>1. NoOutcome.result = "none"
          BY DEF NoOutcome
        <5>2. CASE outcome' = outcome
          <6>1. outcome' = NoOutcome
            BY <4>1, <5>2
          <6> QED BY <6>1, <5>1
        <5>3. CASE outcome'.result = "test"
          BY <5>3
        <5> QED BY <3>1, <5>2, <5>3
      <4>3. Claim' = Lifecycle!Nothing
        BY <4>2 DEF Claim, Lifecycle!Nothing
      <4> QED BY <4>1, <4>3
    <3>2. CASE \E r : FailsWith(r)
      BY <3>2, <1>0, <1>2, QuietFailure DEF Request
    <3>5. CASE \E why : Return("false", why)
      BY <3>5, <1>0, <1>2, QuietReturn DEF Request
    <3>3. CASE Goto("list")
      BY <3>1, <3>3 DEF Goto
    <3>4. CASE \E v : Matched(v) \/ AfterResolve(v)
      BY <3>1, <3>4, <2>2
    <3> QED BY <2>1, <3>2, <3>3, <3>4, <3>5
  <2> QED BY <1>2, <2>3, <1>quiet DEF Lookup, ListPending, Detail, Sent, apVars, faultVars
<1>3. CASE ProbeStaged
  <2>0. Still
    BY <1>3 DEF ProbeStaged, Sent, apVars, faultVars
  <2>1. \/ Return("true", "noop") /\ StagedMatches(resolved)
        \/ Return("test", "test")
        \/ Goto("stage")
    BY <1>3 DEF ProbeStaged
  <2>2. CASE Return("true", "noop") /\ StagedMatches(resolved)
    BY <1>0, <1>3, <2>0, <2>2, <1>loud, LoudReturn
       DEF Request, ProbeStaged, CallAgreesWithAppliance
  <2>3. CASE Return("test", "test")
    BY <1>0, <1>3, <2>0, <2>3, <1>quiet, QuietReturn DEF Request
  <2>4. CASE Goto("stage")
    BY <2>0, <2>4, <1>quiet DEF Goto, Claim
  <2> QED BY <2>1, <2>2, <2>3, <2>4
<1>4. CASE Stage
  <2>0. Claim = Lifecycle!Nothing /\ meddled' = meddled
    BY <1>0, <1>4 DEF Request, Stage, faultVars
  <2>1. CASE ((\E r : FailsWith(r)) \/ Return("false", "refused")) /\ UNCHANGED apVars
    BY <2>0, <2>1, <1>quiet, QuietFailure, QuietReturn DEF apVars
  <2>2. CASE /\ AcceptStage(resolved)
             /\ \/ AfterStage
                \/ UNCHANGED <<opt, resolved, outcome>>
                \/ Return("false", "readtimeout")
    <3>1. \/ UNCHANGED <<opt, resolved, outcome>>
          \/ Return("true", "done") /\ ~opt.monitor
          \/ Return("false", "readtimeout")
      BY <2>2 DEF AfterStage, AfterMonitor, EnterMonitor
    <3>2. Claim' = Claim
      BY <2>0, <3>1, QuietReturn DEF Claim
    <3>3. apStaged' \in Versions \cup {NoVersion} /\ apInstalled' = apInstalled
      BY <2>2 DEF AcceptStage, TypeOK, ApplianceTypeOK
    <3>4. Lifecycle!Restage
      BY <2>0, <3>2, <3>3 DEF Lifecycle!Restage
    <3> QED BY <3>4
  <2> QED BY <1>4, <2>1, <2>2 DEF Stage
<1>5. CASE WaitStaged
  <2>0. Claim = Lifecycle!Nothing /\ Still
    BY <1>0, <1>5 DEF Request, WaitStaged, apVars
  <2>1. \/ \E r : FailsWith(r)
        \/ UNCHANGED <<opt, resolved, outcome>>
        \/ Return("true", "done") /\ ~opt.monitor
        \/ Return("false", "timeout")
    BY <1>5 DEF WaitStaged, AfterStage, AfterMonitor, EnterMonitor
  <2>2. Claim' = Claim
    BY <2>0, <2>1, QuietReturn, QuietFailure DEF Claim
  <2> QED BY <2>0, <2>2, <1>quiet
<1>6. CASE MonitorStaged
  <2>0. Claim = Lifecycle!Nothing /\ Still /\ pc = "msStaged"
    BY <1>0, <1>6 DEF Request, MonitorStaged, Sent, apVars, faultVars
  <2>1. \/ \E r : FailsWith(r)
        \/ UNCHANGED <<opt, resolved, outcome>>
        \/ Return("true", "done") /\ StagedMatches(resolved)
        \/ Return("false", "timeout")
    BY <1>6 DEF MonitorStaged, MonitorSucceeds, AfterMonitor, Goto
  <2>2. CASE Return("true", "done") /\ StagedMatches(resolved) /\ opt.monitor
    BY <2>0, <2>2, <1>loud, LoudReturn DEF CallAgreesWithAppliance, LoopStages
  <2>3. CASE \/ \E r : FailsWith(r)
             \/ UNCHANGED <<opt, resolved, outcome>>
             \/ Return("true", "done") /\ ~opt.monitor
             \/ Return("false", "timeout")
    <3>1. Claim' = Claim
      BY <2>0, <2>3, QuietReturn, QuietFailure DEF Claim
    <3> QED BY <2>0, <3>1, <1>quiet
  <2> QED BY <2>1, <2>2, <2>3
<1>7. CASE MonitorStatus
  <2>0. Claim = Lifecycle!Nothing /\ Still
    BY <1>0, <1>7 DEF Request, MonitorStatus, apVars
  <2>1. \/ \E r : FailsWith(r)
        \/ UNCHANGED <<opt, resolved, outcome>>
        \/ \E why : Return("false", why)
    BY <1>7 DEF MonitorStatus, TransientError, NextRound
  <2>2. Claim' = Claim
    BY <2>0, <2>1, QuietReturn, QuietFailure DEF Claim
  <2> QED BY <2>0, <2>2, <1>quiet
<1>8. CASE Precheck
  <2>0. Claim = Lifecycle!Nothing /\ Still /\ pc = "precheck"
    BY <1>0, <1>8 DEF Request, Precheck, apVars, faultVars
  <2>1. \/ \E r : FailsWith(r)
        \/ UNCHANGED <<opt, resolved, outcome>>
        \/ Return("true", "done")
    BY <1>8 DEF Precheck, EnterMonitor
  <2>2. CASE Return("true", "done") /\ opt.monitor
    BY <2>0, <2>2, <1>loud, LoudReturn DEF CallAgreesWithAppliance, LoopStages, TypeOK,
                                           ApplianceTypeOK
  <2>3. CASE \/ \E r : FailsWith(r)
             \/ UNCHANGED <<opt, resolved, outcome>>
             \/ Return("true", "done") /\ ~opt.monitor
    <3>1. Claim' = Claim
      BY <2>0, <2>3, QuietReturn, QuietFailure DEF Claim
    <3> QED BY <2>0, <3>1, <1>quiet
  <2> QED BY <2>1, <2>2, <2>3
<1>9. CASE Install
  <2>0. Claim = Lifecycle!Nothing /\ Still
    BY <1>0, <1>9 DEF Request, Install, AcceptInstall, apVars, faultVars
  <2>1. \/ \E r : FailsWith(r)
        \/ UNCHANGED <<opt, resolved, outcome>>
        \/ Return("true", "done") /\ ~opt.monitor
        \/ \E why : Return("false", why)
    BY <1>9 DEF Install
  <2>2. Claim' = Claim
    BY <2>0, <2>1, QuietReturn, QuietFailure DEF Claim
  <2> QED BY <2>0, <2>2, <1>quiet
<1>10. CASE MonitorInstall
  <2>0. Claim = Lifecycle!Nothing /\ Still /\ pc = "miStatus"
    BY <1>0, <1>10 DEF Request, MonitorInstall, apVars
  <2>1. \/ \E r : FailsWith(r)
        \/ UNCHANGED <<opt, resolved, outcome>>
        \/ Return("true", "done") /\ apState = "UP_TO_DATE"
        \/ \E why : Return("false", why)
    BY <1>10 DEF MonitorInstall, TransientError, NextRound
  <2>2. CASE Return("true", "done") /\ apState = "UP_TO_DATE" /\ opt.monitor
    <3>1. /\ flow = "installed" /\ resolved \in Versions
          /\ meddled \/ apInstalled = resolved
      BY <2>0, <2>2 DEF CallAgreesWithAppliance, TypeOK, ApplianceTypeOK
    <3>2. Claim' = [kind |-> flow, version |-> resolved]
      BY <2>2, LoudReturn
    <3>3. Lifecycle!ReportInstalled(resolved)
      BY <2>0, <3>1, <3>2 DEF Lifecycle!ReportInstalled
    <3> QED BY <3>1, <3>3
  <2>3. CASE \/ \E r : FailsWith(r)
             \/ UNCHANGED <<opt, resolved, outcome>>
             \/ Return("true", "done") /\ ~opt.monitor
             \/ \E why : Return("false", why)
    <3>1. Claim' = Claim
      BY <2>0, <2>3, QuietReturn, QuietFailure DEF Claim
    <3> QED BY <2>0, <3>1, <1>quiet
  <2> QED BY <2>1, <2>2, <2>3
<1>11. CASE Call
  <2>1. PICK f, o : Begin(f, o)
    BY <1>11 DEF Call, update_prepared, update_installed, installed
  <2>2. Claim' = Lifecycle!Nothing
    BY <2>1 DEF Begin, Claim, NoOutcome, Lifecycle!Nothing
  <2>3. Lifecycle!NewCall
    BY <2>1, <2>2 DEF Begin, apVars, Lifecycle!NewCall
  <2> QED BY <2>3
<1>12. CASE Appliance
  <2>0. Claim' = Claim /\ meddled' = meddled
    BY <1>12 DEF Appliance, callVars, faultVars, Claim
  <2>1. CASE StageDone
    <3>1. Lifecycle!Restage
      BY <2>0, <2>1 DEF StageDone, Lifecycle!Restage, CallAgreesWithAppliance, Busy
    <3> QED BY <3>1
  <2>2. CASE InstallDone
    <3>1. apStaged # NoVersion /\ apInstalled' = apStaged /\ apStaged' = NoVersion
      BY <2>2, ApplianceAssumption DEF InstallDone, CallAgreesWithAppliance, Busy
    <3>2. Lifecycle!Upgrade
      BY <2>0, <3>1 DEF Lifecycle!Upgrade
    <3> QED BY <3>2
  <2>3. CASE StageFails \/ InstallFails
    BY <2>0, <2>3, <1>quiet DEF StageFails, InstallFails
  <2> QED BY <1>12, <2>1, <2>2, <2>3 DEF Appliance, ApplianceWork
<1>13. CASE ExpireSession
  <2>1. Still /\ Claim' = Claim
    BY <1>13 DEF ExpireSession, apVars, callVars, Claim
  <2> QED BY <2>1, <1>quiet
<1>14. CASE Disturb
  <2>0. Claim' = Claim
    BY <1>14 DEF Disturb, callVars, Claim
  <2>1. CASE Bounce
    BY <2>0, <2>1, <1>quiet DEF Bounce, apVars
  <2>2. CASE Meddle
    <3>1. /\ apStaged' \in Versions \cup {NoVersion} /\ meddled' = TRUE
          /\ apInstalled' = apInstalled
      BY <2>2 DEF Meddle, AcceptStage, delete_staged_update, repository_configured, TypeOK,
                  ApplianceTypeOK
    <3>2. Lifecycle!Interfere
      BY <2>0, <3>1 DEF Lifecycle!Interfere
    <3> QED BY <3>2
  <2> QED BY <1>14, <2>1, <2>2 DEF Disturb
<1>15. CASE UNCHANGED vars
  <2>1. Still /\ Claim' = Claim
    BY <1>15 DEF vars, apVars, faultVars, callVars, Claim
  <2> QED BY <2>1, <1>quiet
<1> QED BY <1>1, <1>2, <1>3, <1>4, <1>5, <1>6, <1>7, <1>8, <1>9, <1>10, <1>11, <1>12, <1>13,
           <1>14, <1>15 DEF Next, Request

(* Success is reported only of what the appliance has done: VcPatch        *)
(* implements PatchLifecycle for every set of versions, options and faults. *)
THEOREM ImplementsLifecycle == Spec => ReportsAreTrue
<1>1. Init => Lifecycle!Init
  <2> SUFFICES ASSUME Init PROVE Lifecycle!Init
    OBVIOUS
  <2>1. Claim = Lifecycle!Nothing
    BY SilentCall DEF Init
  <2> QED BY <2>1, ApplianceAssumption DEF Init, ApplianceInit, Lifecycle!Init
<1>2. TypeOK /\ CallAgreesWithAppliance /\ [Next]_vars => [Lifecycle!Next]_(Lifecycle!vars)
  BY StepRefines
<1> QED BY <1>1, <1>2, TypeCorrect, CallAgrees, PTL DEF Spec, Lifecycle!Spec, ReportsAreTrue

(***************************************************************************)
(* Outages.                                                                *)
(***************************************************************************)

Polling == {"msStaged", "msStatus", "miStatus"}
SessionOwned == LoopStages \cup {"miStatus"}

LEMMA AheadTypes ==
    ASSUME TypeOK
    PROVE  /\ transients \in Nat /\ outage \in Nat /\ MaxOutage \in Nat /\ outage <= MaxOutage
           /\ AheadOutage \in 0..MaxOutage /\ AheadExpiry \in {0, 1}
BY ApplianceAssumption DEF TypeOK, ApplianceTypeOK, CallTypeOK, AheadOutage, AheadExpiry

(* A request that is no failed status poll and resets nothing. *)
LEMMA QuietlyCounted ==
    ASSUME TypeOK, TypeOK', OutagesAreCounted,
           spared' = spared, outage' <= outage, token' \in {token, "live"},
           pc' \in SessionOwned => pc \in SessionOwned \/ token' = "live",
           pc' \in Polling => transients' = 0 \/ (pc \in Polling /\ transients' = transients)
    PROVE  OutagesAreCounted'
<1>1. "outage" \in spared' => outage' = 0
  BY AheadTypes DEF OutagesAreCounted, TypeOK, ApplianceTypeOK
<1>2. pc' \in SessionOwned /\ "expiry" \in spared' => token' # "expired"
  BY DEF OutagesAreCounted, SessionOwned
<1>3. AheadOutage' <= AheadOutage /\ AheadExpiry' <= AheadExpiry
  BY AheadTypes DEF AheadOutage, AheadExpiry
<1>4. AheadOutage' \in 0..MaxOutage /\ AheadExpiry' \in {0, 1}
  BY ApplianceAssumption DEF TypeOK, ApplianceTypeOK, AheadOutage, AheadExpiry
<1>5. pc' \in Polling => transients' + AheadOutage' + AheadExpiry' <= MaxOutage + 1
  BY <1>3, <1>4, AheadTypes DEF OutagesAreCounted, Polling, TypeOK, CallTypeOK
<1> QED BY <1>1, <1>2, <1>5 DEF OutagesAreCounted, SessionOwned, Polling

LEMMA AskKeeps ==
    ASSUME NEW r, Ask(r)
    PROVE  token' \in {token, "live"} /\ (r = "ok" => token' = "live")
BY DEF Ask

LEMMA SleepKeeps ==
    ASSUME TypeOK, NEW b, Sleep(b)
    PROVE  outage' <= outage /\ (outage > 0 => outage' = outage - 1)
BY AheadTypes DEF Sleep

(* A status poll that failed counts one, and what may still fail is one    *)
(* less: an outage is a poll nearer its end, or the expired session is     *)
(* dropped. *)
LEMMA FailureCounted ==
    ASSUME TypeOK, TypeOK', OutagesAreCounted, pc \in Polling, outcome = NoOutcome,
           NEW r, NEW label, NEW limit, TransientError(r, label, limit),
           limit \in {MaxTransient, DefaultTransient}
    PROVE  /\ OutagesAreCounted'
           /\ MaxOutage + 1 < MaxTransient /\ MaxOutage + 1 < DefaultTransient
                => outcome'.why # "transient"
<1>1. /\ outage > 0 \/ (outage = 0 /\ token = "expired")
      /\ token' = "none" /\ spared' = spared
  <2>1. r \in {"transient", "unauth"} /\ r \in Replies
    BY DEF TransientError
  <2>2. CASE ~(outage > 0) /\ token # "expired"
    BY <2>1, <2>2 DEF Replies
  <2> QED BY <2>2, AheadTypes DEF TransientError
<1>2. AheadOutage + AheadExpiry >= 1
  BY <1>1, AheadTypes DEF AheadOutage, AheadExpiry, OutagesAreCounted
<1>3. transients + AheadOutage + AheadExpiry <= MaxOutage + 1
  BY DEF OutagesAreCounted, Polling
<1>4. transients + 1 <= MaxOutage + 1
  BY <1>2, <1>3, AheadTypes
<1>5. limit \in Nat
  BY PatchAssumption
<1>6. CASE transients + 1 >= limit
  <2>1. Return("false", "transient") /\ outage' = outage
    BY <1>6 DEF TransientError
  <2>2. OutagesAreCounted'
    BY <1>1, <2>1 DEF Return, OutagesAreCounted, LoopStages
  <2>3. ~(MaxOutage + 1 < limit)
    BY <1>4, <1>5, <1>6, AheadTypes
  <2> QED BY <2>2, <2>3
<1>7. CASE ~(transients + 1 >= limit) /\ left = 0
  <2>1. Return("false", "timeout") /\ outage' = outage
    BY <1>7 DEF TransientError, NextRound
  <2>2. OutagesAreCounted'
    BY <1>1, <2>1 DEF Return, OutagesAreCounted, LoopStages
  <2> QED BY <2>1, <2>2 DEF Return
<1>8. CASE ~(transients + 1 >= limit) /\ left # 0
  <2>1. Sleep(left) /\ transients' = transients + 1 /\ outcome' = outcome
    BY <1>8 DEF TransientError, NextRound
  <2>2. outage' <= outage /\ (outage > 0 => outage' = outage - 1) /\ outage' \in Nat
    BY <2>1, SleepKeeps DEF TypeOK, ApplianceTypeOK
  <2>3. "outage" \in spared' => outage' = 0
    BY <1>1, <2>2, AheadTypes DEF OutagesAreCounted
  <2>4. AheadOutage' + AheadExpiry' + 1 <= AheadOutage + AheadExpiry
    <3>1. CASE outage > 0
      <4>1. AheadOutage = outage /\ AheadOutage' = outage - 1
        BY <1>1, <2>2, <3>1, AheadTypes DEF OutagesAreCounted, AheadOutage
      <4>2. AheadExpiry' <= AheadExpiry /\ AheadExpiry' \in {0, 1}
        BY <1>1 DEF AheadExpiry
      <4> QED BY <4>1, <4>2, AheadTypes
    <3>2. CASE token = "expired" /\ outage = 0
      <4>1. "expiry" \notin spared
        BY <3>2 DEF OutagesAreCounted, Polling, LoopStages
      <4>2. AheadExpiry = 1 /\ AheadExpiry' = 0
        BY <1>1, <3>2, <4>1 DEF AheadExpiry
      <4>3. AheadOutage' = AheadOutage
        BY <1>1, <2>2, <3>2 DEF AheadOutage, TypeOK, ApplianceTypeOK
      <4> QED BY <4>2, <4>3, AheadTypes
    <3> QED BY <1>1, <3>1, <3>2
  <2>5. AheadOutage' \in Nat /\ AheadExpiry' \in Nat
    BY <2>2, AheadTypes DEF AheadOutage, AheadExpiry
  <2>6. transients' + AheadOutage' + AheadExpiry' <= MaxOutage + 1
    BY <1>3, <2>1, <2>4, <2>5, AheadTypes
  <2>7. outcome.why # "transient"
    BY DEF NoOutcome
  <2> QED BY <1>1, <2>1, <2>3, <2>6, <2>7 DEF OutagesAreCounted
<1> QED BY <1>6, <1>7, <1>8

(* An answered status poll: the count starts anew, with a live session and *)
(* no outage under way. *)
LEMMA AnswerCounted ==
    ASSUME TypeOK, TypeOK', Ask("ok"), spared' = Troubles, outage' <= outage,
           pc' \in Polling => transients' = 0
    PROVE  OutagesAreCounted'
<1>1. outage = 0 /\ token' = "live"
  BY AheadTypes DEF Ask, Replies
<1>2. outage' = 0
  BY <1>1 DEF TypeOK, ApplianceTypeOK
<1>3. AheadOutage' = MaxOutage /\ AheadExpiry' = 1
  BY DEF AheadOutage, AheadExpiry, Troubles
<1> QED BY <1>1, <1>2, <1>3, AheadTypes DEF OutagesAreCounted, Polling

(* How a call goes on: it returns, for a reason of its own; or it makes    *)
(* another request. *)
Calm == outcome' = outcome \/ outcome'.why # "transient"

LEMMA CalmRidden ==
    ASSUME Calm, outcome = NoOutcome
    PROVE  outcome'.why # "transient"
<1>1. NoOutcome.why # "transient"
  BY DEF NoOutcome
<1> QED BY <1>1 DEF Calm

LEMMA FailsCalm ==
    ASSUME NEW r, FailsWith(r)
    PROVE  Calm /\ pc' = "idle"
BY DEF FailsWith, Calm, Return

LEMMA ReturnCalm ==
    ASSUME NEW res, NEW why, why # "transient", Return(res, why)
    PROVE  Calm /\ pc' = "idle"
BY DEF Calm, Return

LEMMA AfterMonitorCalm ==
    ASSUME AfterMonitor
    PROVE  Calm /\ pc' \in {"precheck", "idle"}
BY DEF AfterMonitor, Calm, Return

LEMMA AfterStageCalm ==
    ASSUME AfterStage
    PROVE  /\ Calm /\ pc' \in {"precheck", "idle", "msStaged"}
           /\ pc' = "msStaged" => transients' = 0
<1>1. CASE opt.monitor
  BY <1>1 DEF AfterStage, EnterMonitor, Calm
<1>2. CASE ~opt.monitor
  BY <1>2, AfterMonitorCalm DEF AfterStage
<1> QED BY <1>1, <1>2

LEMMA MonitorSucceedsCalm ==
    ASSUME MonitorSucceeds
    PROVE  Calm /\ pc' \in {"precheck", "idle"}
BY AfterMonitorCalm, ReturnCalm DEF MonitorSucceeds, Calm

LEMMA NextRoundCalm ==
    ASSUME TypeOK, NEW label, NextRound(label, 0)
    PROVE  /\ Calm /\ outage' <= outage
           /\ pc' = "idle" \/ (pc' = label /\ transients' = 0)
<1>1. CASE left = 0
  BY <1>1, ReturnCalm, AheadTypes DEF NextRound
<1>2. CASE left # 0
  BY <1>2, SleepKeeps DEF NextRound, Calm
<1> QED BY <1>1, <1>2

LEMMA RequestCounted ==
    ASSUME TypeOK, TypeOK', OutagesAreCounted, outcome = NoOutcome, Request
    PROVE  OutagesAreCounted' /\ OutagesAreRidden'
<1> USE DEF OutagesAreRidden
<1>0. outage <= outage
  BY AheadTypes
<1> DEFINE Quiet == /\ spared' = spared /\ outage' <= outage /\ token' \in {token, "live"}
                    /\ pc' \in SessionOwned => pc \in SessionOwned \/ token' = "live"
                    /\ pc' \in Polling => transients' = 0
                                            \/ (pc \in Polling /\ transients' = transients)
<1>quiet. ASSUME Quiet, Calm PROVE OutagesAreCounted' /\ OutagesAreRidden'
  BY <1>quiet, QuietlyCounted, CalmRidden
<1>1. CASE SetPolicy \/ Lookup \/ ListPending \/ Detail \/ ProbeStaged
  <2>1. UNCHANGED faultVars
    BY <1>1 DEF SetPolicy, Lookup, ListPending, Detail, ProbeStaged, Sent
  <2>2. \E r : Ask(r)
    BY <1>1 DEF SetPolicy, Lookup, ListPending, Detail, ProbeStaged
  <2>3. Calm /\ pc' \notin SessionOwned
    <3>1. \A label : Goto(label) => Calm /\ pc' = label
      BY DEF Goto, Calm
    <3>2. \A v : AfterResolve(v) => Calm /\ pc' \in {"probe", "idle", "install"}
      BY DEF AfterResolve, Calm, Return
    <3>3. \A v : Matched(v) => Calm /\ pc' = "detail"
      BY DEF Matched, Calm
    <3>4. \/ \E r : FailsWith(r)
          \/ \E label \in {"list", "lookup", "stage"} : Goto(label)
          \/ \E v : AfterResolve(v) \/ Matched(v)
          \/ \E res, why : why # "transient" /\ Return(res, why)
      <4>1. CASE SetPolicy
        BY <4>1 DEF SetPolicy
      <4>2. CASE Lookup
        BY <4>2 DEF Lookup
      <4>3. CASE ListPending
        BY <4>3 DEF ListPending
      <4>4. CASE Detail
        BY <4>4 DEF Detail
      <4>5. CASE ProbeStaged
        BY <4>5 DEF ProbeStaged
      <4> QED BY <1>1, <4>1, <4>2, <4>3, <4>4, <4>5
    <3> QED BY <3>1, <3>2, <3>3, <3>4, FailsCalm, ReturnCalm DEF SessionOwned, LoopStages
  <2>4. Quiet
    BY <1>0, <2>1, <2>2, <2>3, AskKeeps DEF faultVars, SessionOwned, Polling, LoopStages
  <2> QED BY <2>3, <2>4, <1>quiet
<1>2. CASE Stage
  <2>1. UNCHANGED faultVars
    BY <1>2 DEF Stage
  <2>2. \/ \E r : Ask(r) /\ FailsWith(r)
        \/ Ask("ok") /\ Return("false", "refused")
        \/ Ask("ok") /\ AfterStage
        \/ Ask("ok") /\ pc' = "waitStaged" /\ UNCHANGED <<transients, outcome>>
        \/ Ask("ok") /\ Return("false", "readtimeout")
    BY <1>2 DEF Stage
  <2>3. /\ Calm /\ token' \in {token, "live"}
        /\ \/ pc' = "idle"
           \/ token' = "live" /\ (pc' \in Polling => transients' = 0)
    BY <2>2, FailsCalm, ReturnCalm, AfterStageCalm, AskKeeps DEF Calm, Polling
  <2>4. Quiet
    BY <1>0, <2>1, <2>3 DEF faultVars, SessionOwned, Polling, LoopStages
  <2> QED BY <2>3, <2>4, <1>quiet
<1>3. CASE WaitStaged
  <2>1. \/ \E r : Ask(r) /\ FailsWith(r) /\ outage' = outage
        \/ Ask("ok") /\ AfterStage /\ outage' = outage
        \/ \E r : Ask(r) /\ Return("false", "timeout") /\ outage' = outage
        \/ \E r : Ask(r) /\ Sleep(left) /\ UNCHANGED <<pc, transients, outcome>>
    BY <1>3 DEF WaitStaged
  <2>2. pc = "waitStaged" /\ spared' = spared
    BY <1>3 DEF WaitStaged
  <2>3. Calm /\ token' \in {token, "live"} /\ outage' <= outage
    BY <1>0, <2>1, FailsCalm, ReturnCalm, AfterStageCalm, AskKeeps, SleepKeeps DEF Calm
  <2>4. pc' \in Polling => transients' = 0
    BY <2>1, <2>2, FailsCalm, ReturnCalm, AfterStageCalm DEF Polling
  <2> QED BY <2>2, <2>3, <2>4, <1>quiet DEF SessionOwned, LoopStages
<1>4. CASE MonitorStaged
  <2>1. UNCHANGED faultVars /\ pc = "msStaged"
    BY <1>4 DEF MonitorStaged, Sent
  <2>2. \E r : /\ Ask(r)
               /\ \/ MonitorSucceeds
                  \/ FailsWith(r)
                  \/ UNCHANGED <<transients, outcome>> /\ pc' = "msStatus"
    BY <1>4 DEF MonitorStaged, Goto
  <2>3. /\ Calm /\ token' \in {token, "live"}
        /\ pc' \in Polling => transients' = transients
    BY <2>2, FailsCalm, MonitorSucceedsCalm, AskKeeps DEF Calm, Polling
  <2> QED BY <1>0, <2>1, <2>3, <1>quiet DEF faultVars, SessionOwned, Polling, LoopStages
<1>5. CASE MonitorStatus \/ MonitorInstall
  <2>0. pc \in Polling
    BY <1>5 DEF MonitorStatus, MonitorInstall, Polling
  <2>1. CASE \E r, label, limit : /\ TransientError(r, label, limit)
                                  /\ limit \in {MaxTransient, DefaultTransient}
    BY <2>0, <2>1, FailureCounted
  <2>2. CASE \E r : Ask(r) /\ FailsWith(r) /\ UNCHANGED <<outage, spared>>
    <3>1. Quiet
      BY <1>0, <2>0, <2>2, FailsCalm, AskKeeps DEF SessionOwned, Polling, LoopStages
    <3> QED BY <2>2, <3>1, <1>quiet, FailsCalm
  <2>3. CASE /\ Ask("ok") /\ spared' = Troubles
             /\ \/ \E label : NextRound(label, 0)
                \/ \E res, why : why # "transient" /\ Return(res, why) /\ outage' = outage
    <3>1. Calm /\ outage' <= outage /\ (pc' = "idle" \/ transients' = 0)
      BY <1>0, <2>3, NextRoundCalm, ReturnCalm
    <3> QED BY <2>3, <3>1, AnswerCounted, CalmRidden DEF Polling
  <2>4. MonitorStatus => <2>1!1 \/ <2>2!1 \/ <2>3!1
    BY DEF MonitorStatus, Limit
  <2>5. MonitorInstall => <2>1!1 \/ <2>2!1 \/ <2>3!1
    BY DEF MonitorInstall
  <2> QED BY <1>5, <2>1, <2>2, <2>3, <2>4, <2>5
<1>6. CASE Precheck
  <2>1. UNCHANGED faultVars /\ pc = "precheck"
    BY <1>6 DEF Precheck
  <2>2. \/ \E r : Ask(r) /\ FailsWith(r)
        \/ Ask("ok") /\ transients' = 0 /\ outcome' = outcome
        \/ Ask("ok") /\ Return("true", "done")
    BY <1>6 DEF Precheck, EnterMonitor
  <2>3. /\ Calm /\ token' \in {token, "live"}
        /\ pc' \in Polling => transients' = 0
    BY <2>2, FailsCalm, ReturnCalm, AskKeeps DEF Calm, Polling
  <2> QED BY <1>0, <2>1, <2>3, <1>quiet DEF faultVars, SessionOwned, LoopStages
<1>7. CASE Install
  <2>1. UNCHANGED faultVars
    BY <1>7 DEF Install
  <2>2. \/ \E r : Ask(r) /\ FailsWith(r)
        \/ Ask("ok") /\ transients' = 0 /\ outcome' = outcome
        \/ Ask("ok") /\ \E res, why : why # "transient" /\ Return(res, why)
    BY <1>7 DEF Install
  <2>3. /\ Calm /\ token' \in {token, "live"}
        /\ \/ pc' = "idle"
           \/ token' = "live" /\ (pc' \in Polling => transients' = 0)
    BY <2>2, FailsCalm, ReturnCalm, AskKeeps DEF Calm, Polling
  <2>4. Quiet
    BY <1>0, <2>1, <2>3 DEF faultVars, SessionOwned, Polling, LoopStages
  <2> QED BY <2>3, <2>4, <1>quiet
<1> QED BY <1>1, <1>2, <1>3, <1>4, <1>5, <1>6, <1>7 DEF Request

LEMMA OthersCounted ==
    ASSUME TypeOK, TypeOK', OutagesAreCounted, OutagesAreRidden,
           Call \/ Appliance \/ ExpireSession \/ Disturb
    PROVE  OutagesAreCounted' /\ OutagesAreRidden'
<1> USE DEF OutagesAreRidden
<1>0. outage <= outage
  BY AheadTypes
<1>1. CASE Call
  <2>1. PICK f, o : Begin(f, o)
    BY <1>1 DEF Call, update_prepared, update_installed, installed
  <2>2. pc' \notin SessionOwned \cup Polling
    BY <2>1 DEF Begin, SessionOwned, Polling, LoopStages
  <2>3. outage' = outage /\ spared' = spared /\ token' = token /\ outcome' = NoOutcome
    BY <2>1 DEF Begin
  <2>4. OutagesAreCounted'
    BY <1>0, <2>2, <2>3, QuietlyCounted
  <2> QED BY <2>3, <2>4 DEF NoOutcome
<1>2. CASE Appliance \/ (Disturb /\ Meddle)
  <2>1. UNCHANGED <<outage, spared, token, callVars>>
    BY <1>2 DEF Appliance, Disturb, Meddle, faultVars
  <2> QED BY <1>0, <2>1, QuietlyCounted DEF callVars
<1>3. CASE ExpireSession
  <2>1. /\ outage' = outage /\ token' = "expired" /\ spared' = spared \ {"expiry"}
        /\ "expiry" \in spared /\ UNCHANGED callVars
    BY <1>3 DEF ExpireSession
  <2>2. AheadOutage' = AheadOutage /\ AheadExpiry' = AheadExpiry
    BY <2>1 DEF AheadOutage, AheadExpiry
  <2> QED BY <2>1, <2>2 DEF OutagesAreCounted, callVars
<1>4. CASE Disturb /\ Bounce
  <2>1. /\ UNCHANGED <<token, callVars>> /\ "outage" \in spared
        /\ spared' = spared \ {"outage"} /\ outage' \in 1..MaxOutage
    BY <1>4 DEF Disturb, Bounce
  <2>2. AheadOutage' <= AheadOutage /\ AheadExpiry' = AheadExpiry /\ AheadOutage' \in Nat
    BY <2>1, AheadTypes DEF AheadOutage, AheadExpiry
  <2>3. pc' \in Polling => transients' + AheadOutage' + AheadExpiry' <= MaxOutage + 1
    BY <2>1, <2>2, AheadTypes DEF OutagesAreCounted, callVars, Polling
  <2> QED BY <2>1, <2>3 DEF OutagesAreCounted, callVars, Polling
<1> QED BY <1>1, <1>2, <1>3, <1>4 DEF Disturb

(* No outage shorter than the limit, and no expired session on top of it,  *)
(* makes a monitor give up: the polls that failed and those that may still *)
(* fail are counted together. *)
THEOREM OutagesRidden == Spec => []OutagesAreRidden
<1>1. Init => OutagesAreCounted /\ OutagesAreRidden
  <2> SUFFICES ASSUME Init PROVE OutagesAreCounted /\ OutagesAreRidden
    OBVIOUS
  <2>1. OutagesAreCounted
    BY DEF Init, ApplianceInit, OutagesAreCounted, LoopStages
  <2>2. OutagesAreRidden
    BY DEF Init, OutagesAreRidden, NoOutcome
  <2> QED BY <2>1, <2>2
<1>2. TypeOK /\ TypeOK' /\ CallAgreesWithAppliance /\ OutagesAreCounted /\ OutagesAreRidden
        /\ [Next]_vars => OutagesAreCounted' /\ OutagesAreRidden'
  <2> SUFFICES ASSUME TypeOK, TypeOK', CallAgreesWithAppliance, OutagesAreCounted,
                      OutagesAreRidden, [Next]_vars
               PROVE  OutagesAreCounted' /\ OutagesAreRidden'
    OBVIOUS
  <2>1. CASE Request
    <3>1. pc # "idle"
      BY <2>1 DEF Request, SetPolicy, Lookup, ListPending, Detail, ProbeStaged, Stage,
                  WaitStaged, MonitorStaged, MonitorStatus, Precheck, Install, MonitorInstall
    <3> QED BY <2>1, <3>1, RequestCounted DEF CallAgreesWithAppliance
  <2>2. CASE UNCHANGED vars
    BY <2>2 DEF vars, callVars, faultVars, OutagesAreCounted, OutagesAreRidden, AheadOutage,
                AheadExpiry
  <2> QED BY <2>1, <2>2, OthersCounted DEF Next
<1> QED BY <1>1, <1>2, TypeCorrect, CallAgrees, PTL DEF Spec

(***************************************************************************)
(* The requests of a call run out.                                         *)
(***************************************************************************)

LEMMA RoundTypes ==
    /\ PrecheckRound \in Nat /\ PrecheckRound = 2 * InnerBudget + 3
    /\ \A p \in Nat : p * PrecheckRound \in Nat
                      /\ (p + 1) * PrecheckRound = p * PrecheckRound + PrecheckRound
<1>1. PrecheckRound \in Nat /\ PrecheckRound = 2 * InnerBudget + 3
  BY PatchAssumption DEF PrecheckRound
<1> HIDE DEF PrecheckRound
<1>2. ASSUME NEW p \in Nat
      PROVE  p * PrecheckRound \in Nat /\ (p + 1) * PrecheckRound = p * PrecheckRound + PrecheckRound
  BY <1>1
<1> QED BY <1>1, <1>2

(* A precheck later is a round less. *)
LEMMA FewerRounds ==
    ASSUME NEW p \in Nat, NEW q \in Nat, p < q
    PROVE  (p + 1) * PrecheckRound <= q * PrecheckRound
<1>1. PICK d \in Nat : q = p + 1 + d
  <2>1. q - (p + 1) \in Nat /\ q = p + 1 + (q - (p + 1))
    OBVIOUS
  <2> QED BY <2>1
<1>2. PrecheckRound \in Nat
  BY RoundTypes
<1> HIDE DEF PrecheckRound
<1>3. (p + 1 + d) * PrecheckRound = (p + 1) * PrecheckRound + d * PrecheckRound
  BY <1>1, <1>2
<1>4. (p + 1) * PrecheckRound \in Nat /\ d * PrecheckRound \in Nat
  BY <1>1, <1>2
<1> QED BY <1>1, <1>3, <1>4

LEMMA StagingTypes ==
    /\ AfterStaging \in Nat /\ AfterStaging = (StageBudget + 1) * PrecheckRound
    /\ AheadOfStage = AfterStaging + 2 * StageBudget + 2 + WaitBudget + 2 /\ AheadOfStage \in Nat
    /\ AheadOfWork = AheadOfStage + InstallBudget + 3 /\ AheadOfWork \in Nat
<1>1. StageBudget \in Nat /\ WaitBudget \in Nat /\ InstallBudget \in Nat
  BY PatchAssumption
<1>2. AfterStaging \in Nat /\ AfterStaging = (StageBudget + 1) * PrecheckRound
  <2>1. StageBudget + 1 \in Nat
    BY <1>1
  <2>2. (StageBudget + 1) * PrecheckRound \in Nat
    BY <2>1, RoundTypes
  <2> QED BY <2>2 DEF AfterStaging
<1> HIDE DEF AfterStaging
<1> QED BY <1>1, <1>2 DEF AheadOfStage, AheadOfWork

LEMMA MonitorTypes == TypeOK => AfterThisMonitor \in Nat
BY RoundTypes, StagingTypes DEF AfterThisMonitor, TypeOK, CallTypeOK

(* Ahead is a count. *)
LEMMA AheadIsCount ==
    ASSUME TypeOK
    PROVE  Ahead \in Nat /\ (pc # "idle" => Ahead > 0)
<1>1. /\ left \in Nat /\ preLeft \in Nat /\ pc \in PCs /\ InstallBudget \in Nat
      /\ StageBudget \in Nat
  BY PatchAssumption DEF TypeOK, CallTypeOK
<1>2. (preLeft + 1) * PrecheckRound \in Nat /\ (preLeft + 1) * PrecheckRound > 0
  BY <1>1, RoundTypes, PatchAssumption
<1>3. AfterThisMonitor \in Nat
  BY MonitorTypes
<1>4. AfterStaging \in Nat /\ AheadOfStage \in Nat /\ AheadOfWork \in Nat
  BY StagingTypes
<1>5. CASE pc = "precheck"
  BY <1>2, <1>5 DEF Ahead
<1>6. CASE pc # "precheck"
  <2>1. CASE pc \in {"idle", "policy", "lookup", "list", "detail", "probe", "stage"}
    BY <1>1, <1>4, <2>1, StagingTypes, PatchAssumption DEF Ahead
  <2>2. CASE pc \in {"waitStaged", "install", "miStatus"}
    BY <1>1, <1>4, <2>2 DEF Ahead
  <2>3. CASE pc \in {"msStaged", "msStatus"}
    BY <1>1, <1>3, <2>3 DEF Ahead
  <2> QED BY <1>1, <1>6, <2>1, <2>2, <2>3 DEF PCs, LoopStages
<1> QED BY <1>5, <1>6

(* A call that returns has nothing ahead. *)
LEMMA ReturnAhead ==
    ASSUME TypeOK, pc # "idle", pc' = "idle"
    PROVE  Ahead' < Ahead
<1>1. Ahead' = 0
  BY DEF Ahead
<1>2. Ahead \in Nat /\ Ahead > 0
  BY AheadIsCount
<1> QED BY <1>1, <1>2

(* What follows staging is AfterStaging at most, or the monitor before it. *)
LEMMA AfterMonitorAhead ==
    ASSUME AfterMonitor
    PROVE  Ahead' \in Nat /\ Ahead' <= AfterStaging
<1>1. AfterStaging \in Nat /\ AfterStaging = (StageBudget + 1) * PrecheckRound
  BY StagingTypes
<1>2. CASE pc' = "idle"
  BY <1>1, <1>2 DEF Ahead
<1>3. CASE pc' = "precheck" /\ preLeft' = StageBudget
  <2>1. Ahead' = (StageBudget + 1) * PrecheckRound
    BY <1>3 DEF Ahead, PrecheckRound
  <2> QED BY <1>1, <2>1
<1> QED BY <1>2, <1>3 DEF AfterMonitor, Return

LEMMA AfterStageAhead ==
    ASSUME AfterStage
    PROVE  Ahead' \in Nat /\ Ahead' <= AfterStaging + 2 * StageBudget + 2
<1>1. AfterStaging \in Nat /\ StageBudget \in Nat
  BY StagingTypes, PatchAssumption
<1>2. CASE EnterMonitor(FALSE, StageBudget)
  <2>1. pc' = "msStaged" /\ inner' = FALSE /\ left' = StageBudget
    BY <1>2 DEF EnterMonitor
  <2>2. Ahead' = AfterStaging + 2 * StageBudget + 2
    BY <2>1 DEF Ahead, AfterThisMonitor, AfterStaging, PrecheckRound
  <2> QED BY <1>1, <2>2
<1>3. CASE AfterMonitor
  BY <1>1, <1>3, AfterMonitorAhead
<1> QED BY <1>2, <1>3 DEF AfterStage

(* The version found, the call is at the probe or the installation. *)
LEMMA AfterResolveAhead ==
    ASSUME NEW v, AfterResolve(v)
    PROVE  Ahead' \in Nat /\ Ahead' <= AheadOfWork
<1>1. /\ AheadOfStage \in Nat /\ InstallBudget \in Nat
      /\ AheadOfWork = AheadOfStage + InstallBudget + 3
  BY StagingTypes, PatchAssumption
<1>2. pc' \in {"probe", "install", "idle"}
  BY DEF AfterResolve
<1>3. CASE pc' = "probe"
  <2>1. Ahead' = AheadOfStage + 1
    BY <1>3 DEF Ahead, AheadOfStage, AfterStaging, PrecheckRound
  <2> QED BY <1>1, <2>1
<1>4. CASE pc' = "install"
  <2>1. Ahead' = InstallBudget + 2
    BY <1>4 DEF Ahead
  <2> QED BY <1>1, <2>1
<1>5. CASE pc' = "idle"
  <2>1. Ahead' = 0
    BY <1>5 DEF Ahead
  <2> QED BY <1>1, <2>1
<1> QED BY <1>2, <1>3, <1>4, <1>5

(* A round that ends leaves the call a round nearer to its deadline. *)
LEMMA RoundAhead ==
    ASSUME TypeOK, NEW label, NEW errors, NextRound(label, errors),
           \/ pc = "msStatus" /\ label = "msStaged"
           \/ pc = "miStatus" /\ label = "miStatus"
    PROVE  Ahead' < Ahead
<1>1. left \in Nat /\ preLeft \in Nat /\ inner \in BOOLEAN
  BY DEF TypeOK, CallTypeOK
<1>2. CASE left = 0
  BY <1>2, ReturnAhead DEF NextRound, Return
<1>3. CASE left # 0
  <2>1. /\ left' \in 0..(left - 1) /\ pc' = label
        /\ inner' = inner /\ preLeft' = preLeft
    BY <1>3 DEF NextRound, Sleep
  <2>2. PICK l \in Nat : left' = l /\ l < left
    BY <1>1, <2>1
  <2>3. CASE pc = "msStatus" /\ label = "msStaged"
    <3>1. AfterThisMonitor \in Nat
      BY MonitorTypes
    <3>2. AfterThisMonitor' = AfterThisMonitor
      BY <2>1 DEF AfterThisMonitor, AfterStaging, PrecheckRound
    <3>3. Ahead' = AfterThisMonitor + 2 * l + 2
      BY <2>1, <2>2, <2>3, <3>2 DEF Ahead
    <3>4. Ahead = AfterThisMonitor + 2 * left + 1
      BY <2>3 DEF Ahead
    <3> QED BY <1>1, <2>2, <3>1, <3>3, <3>4
  <2>4. CASE pc = "miStatus" /\ label = "miStatus"
    <3>1. Ahead' = l + 1 /\ Ahead = left + 1
      BY <2>1, <2>2, <2>4 DEF Ahead
    <3> QED BY <1>1, <2>2, <3>1
  <2> QED BY <2>3, <2>4
<1> QED BY <1>2, <1>3

(* The monitor inside the precheck loop has used up a round of that loop. *)
LEMMA MonitorSucceedsAhead ==
    ASSUME TypeOK, pc = "msStaged", MonitorSucceeds
    PROVE  Ahead' < Ahead
<1>1. left \in Nat /\ preLeft \in Nat /\ inner \in BOOLEAN
  BY DEF TypeOK, CallTypeOK
<1>2. Ahead = AfterThisMonitor + 2 * left + 2 /\ AfterThisMonitor \in Nat
  BY MonitorTypes DEF Ahead
<1>3. CASE ~inner
  <2>1. AfterThisMonitor = AfterStaging
    BY <1>3 DEF AfterThisMonitor
  <2>2. Ahead' \in Nat /\ Ahead' <= AfterStaging
    BY <1>3, AfterMonitorAhead DEF MonitorSucceeds
  <2> QED BY <1>1, <1>2, <2>1, <2>2
<1>4. CASE inner /\ preLeft = 0
  BY <1>4, ReturnAhead DEF MonitorSucceeds, Return
<1>5. CASE inner /\ preLeft # 0
  <2>1. pc' = "precheck" /\ preLeft' \in 0..(preLeft - 1)
    BY <1>5 DEF MonitorSucceeds
  <2>2. PICK p \in Nat : preLeft' = p /\ p < preLeft
    BY <1>1, <2>1
  <2>3. Ahead' = (p + 1) * PrecheckRound
    BY <2>1, <2>2 DEF Ahead, PrecheckRound
  <2>4. AfterThisMonitor = preLeft * PrecheckRound
    BY <1>5 DEF AfterThisMonitor
  <2>5. (p + 1) * PrecheckRound <= preLeft * PrecheckRound
    BY <1>1, <2>2, FewerRounds
  <2>6. p + 1 \in Nat
    OBVIOUS
  <2>7. Ahead' \in Nat
    BY <2>3, <2>6, RoundTypes
  <2>8. Ahead' <= AfterThisMonitor
    BY <2>3, <2>4, <2>5
  <2> QED BY <1>1, <1>2, <2>7, <2>8
<1> QED BY <1>1, <1>3, <1>4, <1>5

(* A refused precheck enters the monitor of its loop. *)
LEMMA RefusedAhead ==
    ASSUME TypeOK, pc = "precheck", EnterMonitor(TRUE, InnerBudget), preLeft' = preLeft
    PROVE  Ahead' < Ahead
<1>1. preLeft \in Nat /\ InnerBudget \in Nat
  BY PatchAssumption DEF TypeOK, CallTypeOK
<1>2. pc' = "msStaged" /\ inner' = TRUE /\ left' = InnerBudget
  BY DEF EnterMonitor
<1>3. Ahead' = preLeft * PrecheckRound + 2 * InnerBudget + 2
  BY <1>2 DEF Ahead, AfterThisMonitor, PrecheckRound
<1>4. Ahead = (preLeft + 1) * PrecheckRound
  BY DEF Ahead
<1>5. /\ preLeft * PrecheckRound \in Nat
      /\ (preLeft + 1) * PrecheckRound = preLeft * PrecheckRound + PrecheckRound
      /\ PrecheckRound = 2 * InnerBudget + 3
  BY <1>1, RoundTypes
<1> HIDE DEF PrecheckRound
<1> QED BY <1>1, <1>3, <1>4, <1>5

(* Every request: it returns, goes on to a later one, or ends a round. *)
LEMMA RequestAhead ==
    ASSUME TypeOK, Request
    PROVE  Ahead' < Ahead
<1> DEFINE Later == Ahead' < Ahead
<1>1. /\ left \in Nat /\ AfterThisMonitor \in Nat
      /\ AfterStaging \in Nat /\ AheadOfStage \in Nat /\ AheadOfWork \in Nat
      /\ AheadOfStage = AfterStaging + 2 * StageBudget + 2 + WaitBudget + 2
      /\ StageBudget \in Nat /\ WaitBudget \in Nat /\ InstallBudget \in Nat
  BY MonitorTypes, StagingTypes, PatchAssumption DEF TypeOK, CallTypeOK
<1>2. pc # "idle"
  BY DEF Request, SetPolicy, Lookup, ListPending, Detail, ProbeStaged, Stage, WaitStaged,
         MonitorStaged, MonitorStatus, Precheck, Install, MonitorInstall
<1>3. CASE pc' = "idle"
  BY <1>2, <1>3, ReturnAhead
<1>4. ASSUME pc' # "idle" PROVE Later
  <2>1. CASE SetPolicy
    <3>1. pc = "policy" /\ pc' \in {"list", "lookup"}
      BY <1>4, <2>1 DEF SetPolicy, Goto, FailsWith, Return
    <3>2. /\ Ahead = AheadOfWork + 4
          /\ Ahead' = AheadOfWork + 2 \/ Ahead' = AheadOfWork + 3
      BY <3>1 DEF Ahead, AheadOfWork, AheadOfStage, AfterStaging, PrecheckRound
    <3> QED BY <1>1, <3>2
  <2>2. CASE Lookup
    <3>1. pc = "lookup" /\ (AfterResolve(opt.version) \/ pc' = "list")
      BY <1>4, <2>2 DEF Lookup, Goto, FailsWith, Return
    <3>2. Ahead = AheadOfWork + 3
      BY <3>1 DEF Ahead
    <3>3. CASE AfterResolve(opt.version)
      BY <1>1, <3>2, <3>3, AfterResolveAhead
    <3>4. CASE pc' = "list"
      <4>1. Ahead' = AheadOfWork + 2
        BY <3>4 DEF Ahead, AheadOfWork, AheadOfStage, AfterStaging, PrecheckRound
      <4> QED BY <1>1, <3>2, <4>1
    <3> QED BY <3>1, <3>3, <3>4
  <2>3. CASE ListPending
    <3>1. pc = "list" /\ pc' = "detail"
      BY <1>4, <2>3 DEF ListPending, Matched, FailsWith, Return
    <3>2. Ahead = AheadOfWork + 2 /\ Ahead' = AheadOfWork + 1
      BY <3>1 DEF Ahead, AheadOfWork, AheadOfStage, AfterStaging, PrecheckRound
    <3> QED BY <1>1, <3>2
  <2>4. CASE Detail
    <3>1. pc = "detail" /\ AfterResolve(resolved)
      BY <1>4, <2>4 DEF Detail, FailsWith, Return
    <3>2. Ahead = AheadOfWork + 1
      BY <3>1 DEF Ahead
    <3> QED BY <1>1, <3>1, <3>2, AfterResolveAhead
  <2>5. CASE ProbeStaged
    <3>1. pc = "probe" /\ pc' = "stage"
      BY <1>4, <2>5 DEF ProbeStaged, Goto, Return
    <3>2. Ahead = AheadOfStage + 1 /\ Ahead' = AheadOfStage
      BY <3>1 DEF Ahead, AheadOfStage, AfterStaging, PrecheckRound
    <3> QED BY <1>1, <3>2
  <2>6. CASE Stage
    <3>a. pc = "stage"
      BY <2>6 DEF Stage
    <3>b. \/ \E r : Ask(r) /\ FailsWith(r)
          \/ Ask("ok") /\ Return("false", "refused")
          \/ Ask("ok") /\ AfterStage
          \/ Ask("ok") /\ pc' = "waitStaged" /\ left' = WaitBudget
          \/ Ask("ok") /\ Return("false", "readtimeout")
      BY <2>6 DEF Stage
    <3>1. AfterStage \/ (pc' = "waitStaged" /\ left' = WaitBudget)
      BY <1>4, <3>a, <3>b DEF FailsWith, Return
    <3>2. Ahead = AheadOfStage
      BY <3>a DEF Ahead
    <3>3. CASE AfterStage
      BY <1>1, <3>2, <3>3, AfterStageAhead
    <3>4. CASE pc' = "waitStaged" /\ left' = WaitBudget
      <4>1. Ahead' = AfterStaging + 2 * StageBudget + 2 + WaitBudget + 1
        BY <3>4 DEF Ahead, AfterStaging, PrecheckRound
      <4> QED BY <1>1, <3>2, <4>1
    <3> QED BY <3>1, <3>3, <3>4
  <2>7. CASE WaitStaged
    <3>a. pc = "waitStaged"
      BY <2>7 DEF WaitStaged
    <3>b. \/ \E r : Ask(r) /\ FailsWith(r)
          \/ Ask("ok") /\ AfterStage
          \/ \E r : Ask(r) /\ Return("false", "timeout")
          \/ \E r : Ask(r) /\ Sleep(left) /\ pc' = pc
      BY <2>7 DEF WaitStaged
    <3>1. AfterStage \/ (pc' = pc /\ left' \in 0..(left - 1))
      BY <1>4, <3>a, <3>b DEF FailsWith, Return, Sleep
    <3>2. Ahead = AfterStaging + 2 * StageBudget + 2 + left + 1
      BY <3>a DEF Ahead
    <3>3. CASE AfterStage
      BY <1>1, <3>2, <3>3, AfterStageAhead
    <3>4. CASE pc' = pc /\ left' \in 0..(left - 1)
      <4>1. PICK l \in 0..(left - 1) : left' = l
        BY <3>4
      <4>2. Ahead' = AfterStaging + 2 * StageBudget + 2 + l + 1
        BY <3>a, <3>4, <4>1 DEF Ahead, AfterStaging, PrecheckRound
      <4> QED BY <1>1, <3>2, <4>1, <4>2
    <3> QED BY <3>1, <3>3, <3>4
  <2>8. CASE MonitorStaged
    <3>1. pc = "msStaged" /\ (MonitorSucceeds \/ Goto("msStatus"))
      BY <1>4, <2>8 DEF MonitorStaged, FailsWith, Return
    <3>2. CASE MonitorSucceeds
      BY <3>1, <3>2, MonitorSucceedsAhead
    <3>3. CASE Goto("msStatus")
      <4>1. pc' = "msStatus" /\ inner' = inner /\ preLeft' = preLeft /\ left' = left
        BY <3>3 DEF Goto
      <4>2. AfterThisMonitor' = AfterThisMonitor
        BY <4>1 DEF AfterThisMonitor, AfterStaging, PrecheckRound
      <4>3. Ahead' = AfterThisMonitor + 2 * left + 1
        BY <4>1, <4>2 DEF Ahead
      <4>4. Ahead = AfterThisMonitor + 2 * left + 2
        BY <3>1 DEF Ahead
      <4> QED BY <1>1, <4>3, <4>4
    <3> QED BY <3>1, <3>2, <3>3
  <2>9. CASE MonitorStatus
    <3>1. pc = "msStatus" /\ \E errors : NextRound("msStaged", errors)
      BY <1>4, <2>9 DEF MonitorStatus, TransientError, FailsWith, Return
    <3>2. PICK errors : NextRound("msStaged", errors)
      BY <3>1
    <3> QED BY <3>1, <3>2, RoundAhead
  <2>10. CASE Precheck
    <3>1. pc = "precheck" /\ EnterMonitor(TRUE, InnerBudget) /\ preLeft' = preLeft
      BY <1>4, <2>10 DEF Precheck, FailsWith, Return
    <3> QED BY <3>1, RefusedAhead
  <2>11. CASE Install
    <3>1. pc = "install" /\ pc' = "miStatus" /\ left' = InstallBudget
      BY <1>4, <2>11 DEF Install, FailsWith, Return
    <3>2. Ahead = InstallBudget + 2 /\ Ahead' = InstallBudget + 1
      BY <3>1 DEF Ahead
    <3> QED BY <1>1, <3>2
  <2>12. CASE MonitorInstall
    <3>1. pc = "miStatus" /\ \E errors : NextRound("miStatus", errors)
      BY <1>4, <2>12 DEF MonitorInstall, TransientError, FailsWith, Return
    <3>2. PICK errors : NextRound("miStatus", errors)
      BY <3>1
    <3> QED BY <3>1, <3>2, RoundAhead
  <2> QED BY <2>1, <2>2, <2>3, <2>4, <2>5, <2>6, <2>7, <2>8, <2>9, <2>10, <2>11, <2>12
          DEF Request
<1> QED BY <1>3, <1>4

(* Neither the appliance, nor an outage, nor another administrator, nor the *)
(* end of the session gives the running call more to do. *)
LEMMA OthersAhead ==
    ASSUME pc # "idle", ~Request, [Next]_vars
    PROVE  Ahead' = Ahead
<1>1. ~Call
  BY DEF Call, update_prepared, update_installed, installed, Begin
<1>2. UNCHANGED callVars
  BY <1>1 DEF Next, Appliance, ExpireSession, Disturb, vars
<1> QED BY <1>2 DEF callVars, Ahead, AfterThisMonitor, AheadOfWork, AheadOfStage,
                    AfterStaging, PrecheckRound

(* RequestsRunOut: every request brings the running call nearer to its     *)
(* return and nothing takes it back, for every budget of the loops, through *)
(* every outage, refusal and interleaving; what CallsReturn adds is only    *)
(* that the call goes on. *)
THEOREM RequestsRunOutHolds == Spec => RequestsRunOut
<1>1. TypeOK /\ [Next]_vars
        => [/\ Request => Ahead' < Ahead
            /\ pc # "idle" /\ ~Request => Ahead' = Ahead]_vars
  BY RequestAhead, OthersAhead
<1> QED BY <1>1, TypeCorrect, PTL DEF Spec, RequestsRunOut

==============================================================================
