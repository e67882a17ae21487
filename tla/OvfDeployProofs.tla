--------------------------- MODULE OvfDeployProofs ---------------------------
(***************************************************************************)
(* Proofs about OvfDeploy, for any intervals, budgets, faults and number   *)
(* of calls: the types, that a lease outlives the upload it was granted    *)
(* for, and that it is completed or aborted in quiet.                      *)
(***************************************************************************)
EXTENDS OvfDeploy, TLAPS

LEMMA CallerTypes ==
    ASSUME TypeOK, deploy \/ Caller
    PROVE  TypeOK'
<1> USE DeployAssumption DEF TypeOK, hostVars, threadVars, Goto, Return, PCs, Outcomes
<1>1. CASE deploy
  <2>1. pc' \in {"find", "import"} /\ run' = run + 1 /\ run' \in Runs
    BY <1>1 DEF deploy, Runs
  <2>2. run' \in 0..MaxRuns
    BY <2>1 DEF Runs
  <2>3. outcome' = "none" /\ failing' = FALSE /\ left' = 0 /\ UNCHANGED <<hostVars, threadVars>>
    BY <1>1 DEF deploy
  <2> QED BY <2>1, <2>2, <2>3
<1>2. CASE find_vm
  BY <1>2 DEF find_vm
<1>3. CASE ImportVApp
  <2>1. run \in Runs /\ pc' \in {"idle", "waitReady"} /\ run' = run /\ left' \in Nat
    BY <1>3 DEF ImportVApp
  <2>2. outcome' \in Outcomes
    BY <1>3 DEF ImportVApp
  <2>3. lease' \in [Runs -> LeaseStates] /\ vm' \in [Runs -> VMs]
    BY <1>3, <2>1 DEF ImportVApp, LeaseStates, VMs
  <2>4. UNCHANGED <<failing, life, task, thread, nap, stopped, fails>>
    BY <1>3 DEF ImportVApp
  <2> QED BY <2>1, <2>2, <2>3, <2>4
<1>4. CASE WaitLeaseReady
  BY <1>4 DEF WaitLeaseReady, ThreadStates
<1>5. CASE UploadDisks
  BY <1>5 DEF UploadDisks
<1>6. CASE Stop
  BY <1>6 DEF Stop, AfterStop
<1>7. CASE Join
  BY <1>7 DEF Join, AfterStop
<1>8. CASE HttpNfcLeaseComplete
  BY <1>8 DEF HttpNfcLeaseComplete, LeaseStates, VMs
<1>9. CASE HttpNfcLeaseAbort
  BY <1>9 DEF HttpNfcLeaseAbort, LeaseStates, VMs
<1>10. CASE PowerOnVM
  BY <1>10 DEF PowerOnVM
<1>11. CASE WaitPower
  BY <1>11 DEF WaitPower
<1> QED BY <1>1, <1>2, <1>3, <1>4, <1>5, <1>6, <1>7, <1>8, <1>9, <1>10, <1>11 DEF Caller, Upload

LEMMA OtherTypes ==
    ASSUME TypeOK, (\E r \in Runs : LeaseProgress(r)) \/ Host \/ Tick
    PROVE  TypeOK'
<1> USE DeployAssumption DEF TypeOK
<1>1. ASSUME NEW r \in Runs, LeaseProgress(r)
      PROVE  TypeOK'
  <2> USE DEF callVars, hostVars, ThreadStates
  <2>1. CASE Check(r)
    BY <2>1 DEF Check
  <2>2. CASE PingArrives(r)
    BY <2>2 DEF PingArrives
  <2>3. CASE PingFails(r)
    BY <2>3 DEF PingFails
  <2>4. CASE PingReturns(r)
    BY <2>4 DEF PingReturns
  <2>5. CASE Wake(r)
    BY <2>5 DEF Wake
  <2> QED BY <1>1, <2>1, <2>2, <2>3, <2>4, <2>5 DEF LeaseProgress
<1>2. ASSUME NEW r \in Runs, TaskEnds(r) \/ LeaseReady(r) \/ LeaseFails(r) \/ LeaseExpires(r)
      PROVE  TypeOK'
  <2> USE DEF callVars, threadVars, LeaseStates, VMs
  <2>1. CASE TaskEnds(r)
    BY <2>1 DEF TaskEnds
  <2>2. CASE LeaseReady(r)
    BY <2>2 DEF LeaseReady
  <2>3. CASE LeaseFails(r)
    BY <2>3 DEF LeaseFails
  <2>4. CASE LeaseExpires(r)
    BY <2>4 DEF LeaseExpires
  <2> QED BY <1>2, <2>1, <2>2, <2>3, <2>4
<1>3. CASE Tick
  <2>1. left' \in Nat
    BY <1>3 DEF Tick, Due
  <2>2. life' \in [Runs -> 0..LeaseLife]
    BY <1>3 DEF Tick, Due
  <2>3. nap' \in [Runs -> Nat]
    <3>1. ASSUME NEW r \in Runs
          PROVE  nap'[r] \in Nat
      <4>1. nap[r] \in Nat
        OBVIOUS
      <4>2. CASE thread[r] \in {"ping", "pinged"}
        BY <1>3, <4>1, <4>2 DEF Tick
      <4>3. CASE thread[r] = "nap"
        <5>1. nap[r] # 0
          BY <1>3, <4>3 DEF Tick, Due
        <5> QED BY <1>3, <4>1, <4>3, <5>1 DEF Tick
      <4>4. CASE thread[r] \notin {"ping", "pinged", "nap"}
        BY <1>3, <4>1, <4>4 DEF Tick
      <4> QED BY <4>2, <4>3, <4>4
    <3>2. nap' = [r \in Runs |-> nap'[r]]
      BY <1>3 DEF Tick
    <3> QED BY <3>1, <3>2
  <2> QED BY <1>3, <2>1, <2>2, <2>3 DEF Tick
<1> QED BY <1>1, <1>2, <1>3 DEF Host

(* The types of the upload and of its two threads. *)
THEOREM DeployTypes == Spec => []TypeOK
<1>1. Init => TypeOK
  <2> SUFFICES ASSUME Init
               PROVE  TypeOK
    OBVIOUS
  <2>1. /\ pc \in PCs /\ run \in 0..MaxRuns /\ pc = "idle" /\ left \in Nat
        /\ outcome \in Outcomes
    BY DeployAssumption DEF Init, PCs, Outcomes
  <2>5. failing \in BOOLEAN
    BY Zenon DEF Init
  <2>2. /\ lease \in [Runs -> LeaseStates] /\ life \in [Runs -> 0..LeaseLife]
        /\ vm \in [Runs -> VMs] /\ task \in [Runs -> {"none", "running", "success", "error"}]
    BY DeployAssumption DEF Init, LeaseStates, VMs
  <2>3. /\ thread \in [Runs -> ThreadStates] /\ nap \in [Runs -> Nat]
        /\ fails \in [Runs -> 0..MaxPingFails]
    <3>1. 0 \in 0..MaxPingFails
      BY DeployAssumption
    <3>2. fails = [r \in Runs |-> 0]
      BY DEF Init
    <3> QED BY <3>1, <3>2 DEF Init, ThreadStates
  <2>4. stopped \in [Runs -> BOOLEAN]
    BY Zenon DEF Init
  <2> QED BY <2>1, <2>2, <2>3, <2>4, <2>5 DEF TypeOK
<1>2. TypeOK /\ [Next]_vars => TypeOK'
  <2> SUFFICES ASSUME TypeOK, [Next]_vars
               PROVE  TypeOK'
    OBVIOUS
  <2>1. CASE UNCHANGED vars
    BY <2>1 DEF TypeOK, vars, callVars, hostVars, threadVars
  <2>2. CASE Crash
    BY <2>2 DEF Crash, TypeOK, Return, hostVars, PCs, Outcomes, ThreadStates
  <2> QED BY <2>1, <2>2, CallerTypes, OtherTypes DEF Next
<1> QED BY <1>1, <1>2, PTL DEF Spec

(***************************************************************************)
(* LeaseOutlivesUpload.                                                    *)
(***************************************************************************)

LEMMA RunsNat == \A r \in Runs : r \in Nat
BY DeployAssumption DEF Runs

LEMMA CallerInStep ==
    ASSUME TypeOK, InStep, deploy \/ Caller
    PROVE  InStep'
<1> USE RunsNat, DeployAssumption DEF TypeOK, InStep, Fresh, hostVars, threadVars, Goto, Return
<1>1. CASE deploy
  <2>1. run' \in Runs /\ run' = run + 1 /\ pc' \in {"find", "import"} /\ failing' = FALSE
    BY <1>1 DEF deploy, Runs
  <2>2. UNCHANGED <<lease, life, thread, stopped, fails>>
    BY <1>1 DEF deploy
  <2>3. \A r \in Runs : r > run' => r > run
    BY <2>1
  <2> QED BY <2>1, <2>2, <2>3
<1>2. CASE find_vm
  BY <1>2 DEF find_vm
<1>3. CASE ImportVApp
  <2>1. CASE UNCHANGED <<left, hostVars>>
    BY <1>3, <2>1 DEF ImportVApp
  <2>2. CASE ~UNCHANGED <<left, hostVars>>
    BY <1>3, <2>2 DEF ImportVApp
  <2> QED BY <2>1, <2>2
<1>4. CASE WaitLeaseReady
  BY <1>4 DEF WaitLeaseReady
<1>5. CASE UploadDisks
  BY <1>5 DEF UploadDisks
<1>6. CASE Stop
  BY <1>6 DEF Stop, AfterStop
<1>7. CASE Join
  BY <1>7 DEF Join, AfterStop
<1>8. CASE HttpNfcLeaseComplete
  BY <1>8 DEF HttpNfcLeaseComplete
<1>9. CASE HttpNfcLeaseAbort
  BY <1>9 DEF HttpNfcLeaseAbort
<1>10. CASE PowerOnVM
  BY <1>10 DEF PowerOnVM
<1>11. CASE WaitPower
  BY <1>11 DEF WaitPower
<1> QED BY <1>1, <1>2, <1>3, <1>4, <1>5, <1>6, <1>7, <1>8, <1>9, <1>10, <1>11 DEF Caller, Upload

LEMMA OtherInStep ==
    ASSUME TypeOK, InStep, (\E r \in Runs : LeaseProgress(r)) \/ Host \/ Tick
    PROVE  InStep'
<1> USE RunsNat, DeployAssumption DEF TypeOK, InStep, Fresh
<1>1. ASSUME NEW r \in Runs, LeaseProgress(r)
      PROVE  InStep'
  <2> USE DEF callVars, hostVars
  <2>1. CASE Check(r)
    BY <2>1 DEF Check
  <2>2. CASE PingArrives(r)
    BY <2>2 DEF PingArrives
  <2>3. CASE PingFails(r)
    BY <2>3 DEF PingFails
  <2>4. CASE PingReturns(r)
    BY <2>4 DEF PingReturns
  <2>5. CASE Wake(r)
    BY <2>5 DEF Wake
  <2> QED BY <1>1, <2>1, <2>2, <2>3, <2>4, <2>5 DEF LeaseProgress
<1>2. ASSUME NEW r \in Runs, TaskEnds(r) \/ LeaseReady(r) \/ LeaseFails(r) \/ LeaseExpires(r)
      PROVE  InStep'
  <2> USE DEF callVars, threadVars
  <2>1. CASE TaskEnds(r)
    BY <2>1 DEF TaskEnds
  <2>2. CASE LeaseReady(r)
    BY <2>2 DEF LeaseReady
  <2>3. CASE LeaseFails(r)
    BY <2>3 DEF LeaseFails
  <2>4. CASE LeaseExpires(r)
    BY <2>4 DEF LeaseExpires
  <2> QED BY <1>2, <2>1, <2>2, <2>3, <2>4
<1>3. CASE Tick
  BY <1>3 DEF Tick, Due
<1> QED BY <1>1, <1>2, <1>3 DEF Host

(* The worst age of a lease grows by one cycle with each ping that fails. *)
LEMMA WorstAge ==
    ASSUME NEW f \in Nat
    PROVE  /\ f * Cycle \in Nat
           /\ (f + 1) * Cycle = f * Cycle + Cycle
           /\ f <= MaxPingFails => f * Cycle <= MaxPingFails * Cycle
<1>1. Cycle \in Nat /\ MaxPingFails \in Nat
  BY DeployAssumption DEF Cycle
<1> HIDE DEF Cycle
<1>2. f * Cycle \in Nat /\ (f + 1) * Cycle = f * Cycle + Cycle
  BY <1>1
<1>3. ASSUME f <= MaxPingFails
      PROVE  f * Cycle <= MaxPingFails * Cycle
  <2>1. PICK d \in Nat : MaxPingFails = f + d
    <3>1. MaxPingFails - f \in Nat /\ MaxPingFails = f + (MaxPingFails - f)
      BY <1>1, <1>3
    <3> QED BY <3>1
  <2>2. MaxPingFails * Cycle = f * Cycle + d * Cycle
    BY <1>1, <2>1
  <2>3. d * Cycle \in Nat
    BY <1>1
  <2> QED BY <1>2, <2>2, <2>3
<1> QED BY <1>2, <1>3

LEMMA CallerPacing ==
    ASSUME TypeOK, InStep, Pacing, deploy \/ Caller
    PROVE  Pacing'
<1> USE RunsNat, DeployAssumption DEF Pacing
<1>1. CASE UNCHANGED <<life, thread, nap, fails>> /\ \A r \in Runs : lease'[r] = "ready" => lease[r] = "ready"
  BY <1>1 DEF Paced, Cycle
<1>2. CASE WaitLeaseReady /\ ~UNCHANGED thread
  <2>1. lease[run] = "ready" /\ life[run] = LeaseLife /\ fails[run] = 0 /\ run \in Runs
    BY <1>2 DEF WaitLeaseReady, InStep, Fresh, TypeOK
  <2>2. /\ thread' = [thread EXCEPT ![run] = "check"]
        /\ UNCHANGED <<lease, life, nap, fails, run>>
    BY <1>2 DEF WaitLeaseReady, hostVars, Goto
  <2>3. ASSUME NEW r \in Runs, r # run, lease'[r] = "ready"
        PROVE  Paced(r)'
    BY <2>2, <2>3 DEF Paced, Cycle, TypeOK
  <2>4. Paced(run)'
    <3>1. thread'[run'] = "check" /\ life'[run'] = LeaseLife /\ fails'[run'] = 0
      BY <2>1, <2>2 DEF TypeOK
    <3>2. fails'[run'] * Cycle \in Nat
      BY <3>1, WorstAge
    <3> QED BY <3>1, <3>2 DEF Paced
  <2> QED BY <2>2, <2>3, <2>4
<1>3. /\ UNCHANGED <<life, nap, fails>>
      /\ ~WaitLeaseReady => UNCHANGED thread
      /\ \A r \in Runs : lease'[r] = "ready" => lease[r] = "ready"
  <2> USE DEF hostVars, threadVars, TypeOK
  <2>1. CASE deploy
    BY <2>1 DEF deploy
  <2>2. CASE find_vm
    BY <2>2 DEF find_vm
  <2>3. CASE ImportVApp
    BY <2>3 DEF ImportVApp
  <2>4. CASE WaitLeaseReady
    BY <2>4 DEF WaitLeaseReady
  <2>5. CASE UploadDisks \/ Join
    BY <2>5 DEF UploadDisks, Join
  <2>6. CASE Stop
    BY <2>6 DEF Stop
  <2>7. CASE HttpNfcLeaseComplete \/ HttpNfcLeaseAbort
    BY <2>7 DEF HttpNfcLeaseComplete, HttpNfcLeaseAbort
  <2>8. CASE PowerOnVM \/ WaitPower
    BY <2>8 DEF PowerOnVM, WaitPower
  <2> QED BY <2>1, <2>2, <2>3, <2>4, <2>5, <2>6, <2>7, <2>8 DEF Caller, Upload
<1> QED BY <1>1, <1>2, <1>3

LEMMA OtherPacing ==
    ASSUME TypeOK, InStep, Pacing, (\E r \in Runs : LeaseProgress(r)) \/ Host \/ Tick
    PROVE  Pacing'
<1> USE DeployAssumption DEF Pacing
<1>1. ASSUME NEW r \in Runs, LeaseProgress(r)
      PROVE  Pacing'
  <2>1. UNCHANGED lease /\ \A s \in Runs \ {r} : UNCHANGED <<life[s], thread[s], nap[s], fails[s]>>
    BY <1>1 DEF LeaseProgress, Check, PingArrives, PingFails, PingReturns, Wake, TypeOK, hostVars
  <2>2. ASSUME NEW s \in Runs \ {r}, lease'[s] = "ready"
        PROVE  Paced(s)'
    BY <2>1, <2>2 DEF Paced, Cycle
  <2>3. ASSUME lease[r] = "ready"
        PROVE  Paced(r)'
    <3>1. Paced(r) /\ life[r] \in 0..LeaseLife /\ nap[r] \in Nat /\ fails[r] \in 0..MaxPingFails
      BY <2>3 DEF TypeOK
    <3>2. /\ fails[r] * Cycle \in Nat
          /\ (fails[r] + 1) * Cycle = fails[r] * Cycle + Cycle
      BY <3>1, WorstAge
    <3> USE DEF hostVars, callVars, TypeOK, Paced
    <3>3. CASE Check(r)
      BY <3>1, <3>2, <3>3 DEF Check
    <3>4. CASE PingArrives(r)
      BY <3>1, <3>2, <3>4 DEF PingArrives
    <3>5. CASE PingFails(r)
      <4>1. /\ life'[r] = life[r] /\ thread'[r] = "nap" /\ nap'[r] = Interval
            /\ fails'[r] = fails[r] + 1 /\ thread[r] = "ping"
        BY <2>3, <3>5 DEF PingFails
      <4>2. LeaseLife - life[r] <= PingMax + fails[r] * Cycle + Interval + PingMax
        BY <3>1, <3>2, <4>1
      <4>3. LeaseLife - life'[r] <= PingMax + fails'[r] * Cycle + (Interval - nap'[r])
        BY <3>1, <3>2, <4>1, <4>2 DEF Cycle
      <4> QED BY <4>1, <4>3
    <3>6. CASE PingReturns(r)
      <4>1. /\ UNCHANGED <<life, fails>> /\ thread'[r] = "nap" /\ nap'[r] = Interval
            /\ thread[r] = "pinged"
        BY <3>6 DEF PingReturns
      <4> QED BY <3>1, <3>2, <4>1
    <3>7. CASE Wake(r)
      <4>1. UNCHANGED <<life, fails, nap>> /\ thread[r] = "nap" /\ thread'[r] \in {"off", "check"}
        BY <3>7 DEF Wake
      <4>2. thread'[r] = "check" => nap[r] = 0
        BY <3>7 DEF Wake
      <4> QED BY <3>1, <3>2, <4>1, <4>2
    <3> QED BY <1>1, <3>3, <3>4, <3>5, <3>6, <3>7 DEF LeaseProgress
  <2> QED BY <2>1, <2>2, <2>3
<1>2. ASSUME NEW r \in Runs, TaskEnds(r) \/ LeaseReady(r) \/ LeaseFails(r) \/ LeaseExpires(r)
      PROVE  Pacing'
  <2>1. CASE LeaseReady(r)
    <3>1. thread[r] = "off"
      BY <2>1 DEF LeaseReady, InStep, Fresh
    <3>2. UNCHANGED threadVars /\ \A s \in Runs \ {r} : UNCHANGED <<lease[s], life[s]>>
      BY <2>1 DEF LeaseReady, TypeOK
    <3>3. Paced(r)'
      BY <3>1, <3>2 DEF Paced, threadVars
    <3>4. ASSUME NEW s \in Runs \ {r}, lease'[s] = "ready"
          PROVE  Paced(s)'
      BY <3>2, <3>4 DEF Paced, Cycle, threadVars
    <3> QED BY <3>3, <3>4
  <2>2. CASE ~LeaseReady(r)
    <3>1. UNCHANGED <<life, threadVars>> /\ \A s \in Runs : lease'[s] = "ready" => lease[s] = "ready"
      BY <1>2, <2>2 DEF TaskEnds, LeaseFails, LeaseExpires, TypeOK
    <3> QED BY <3>1 DEF Paced, Cycle, threadVars
  <2> QED BY <2>1, <2>2
<1>3. CASE Tick
  <2> SUFFICES ASSUME NEW r \in Runs, lease'[r] = "ready"
               PROVE  Paced(r)'
    OBVIOUS
  <2>1. lease[r] = "ready" /\ Paced(r) /\ UNCHANGED <<lease, thread, fails>>
    BY <1>3 DEF Tick
  <2>2. life[r] \in 0..LeaseLife /\ nap[r] \in Nat /\ fails[r] \in 0..MaxPingFails
    BY DEF TypeOK
  <2>3. fails[r] * Cycle \in Nat
    BY <2>2, WorstAge
  <2>4. life'[r] = life[r] - 1
    BY <1>3, <2>1 DEF Tick
  <2>5. CASE thread[r] \in {"ping", "pinged"}
    <3>1. nap[r] < PingMax /\ nap'[r] = nap[r] + 1
      BY <1>3, <2>2, <2>5 DEF Tick, Due
    <3> QED BY <2>1, <2>2, <2>3, <2>4, <2>5, <3>1 DEF Paced
  <2>6. CASE thread[r] = "nap"
    <3>1. nap[r] > 0 /\ nap'[r] = nap[r] - 1
      BY <1>3, <2>2, <2>6 DEF Tick, Due
    <3> QED BY <2>1, <2>2, <2>3, <2>4, <2>6, <3>1 DEF Paced
  <2>7. CASE thread[r] = "off"
    BY <2>1, <2>7 DEF Paced
  <2>8. thread[r] # "check" /\ thread[r] \in ThreadStates
    BY <1>3 DEF Tick, Due, TypeOK
  <2> QED BY <2>5, <2>6, <2>7, <2>8 DEF ThreadStates
<1> QED BY <1>1, <1>2, <1>3 DEF Host

(* What PingsSuffice leaves for the completion. *)
LEMMA OldestAge ==
    /\ Oldest \in Nat
    /\ PingsSuffice => Oldest + CompleteMax < LeaseLife
    /\ \A f \in 0..MaxPingFails : f * Cycle \in Nat /\ PingMax + f * Cycle + Cycle <= Oldest
<1>0. Cycle \in Nat /\ MaxPingFails \in Nat
  BY DeployAssumption DEF Cycle
<1>1. /\ MaxPingFails * Cycle \in Nat
      /\ (MaxPingFails + 1) * Cycle = MaxPingFails * Cycle + Cycle
  BY <1>0, WorstAge
<1>2. ASSUME NEW f \in 0..MaxPingFails
      PROVE  f * Cycle \in Nat /\ f * Cycle <= MaxPingFails * Cycle
  BY <1>2, WorstAge
<1>3. Oldest = PingMax + MaxPingFails * Cycle + Cycle
  BY <1>0, <1>1, DeployAssumption DEF Oldest
<1>4. PingsSuffice => Oldest + CompleteMax < LeaseLife
  BY DEF PingsSuffice, Oldest, Cycle
<1> QED BY <1>0, <1>1, <1>2, <1>3, <1>4, DeployAssumption

LEMMA CallerGranted ==
    ASSUME TypeOK, InStep, Granted, deploy \/ Caller
    PROVE  Granted'
<1> USE DeployAssumption, OldestAge DEF TypeOK, Granted, hostVars, threadVars, Goto, Return
<1>1. CASE deploy
  BY <1>1 DEF deploy
<1>2. CASE find_vm \/ ImportVApp
  BY <1>2 DEF find_vm, ImportVApp
<1>3. CASE WaitLeaseReady
  BY <1>3 DEF WaitLeaseReady, InStep
<1>4. CASE UploadDisks
  BY <1>4 DEF UploadDisks, InStep
<1>5. CASE Stop \/ Join
  <2>1. UNCHANGED <<run, failing, lease, life>> /\ pc \in {"stop", "join"}
    BY <1>5 DEF Stop, Join, AfterStop
  <2>2. \/ pc' = "join"
        \/ pc' = "abort" /\ failing
        \/ pc' = "complete" /\ ~failing /\ left' = CompleteMax
    BY <1>5 DEF Stop, Join, AfterStop
  <2>3. run \in Runs /\ life[run] \in 0..LeaseLife
    BY <2>1
  <2> QED BY <2>1, <2>2, <2>3
<1>6. CASE HttpNfcLeaseComplete
  BY <1>6 DEF HttpNfcLeaseComplete
<1>7. CASE HttpNfcLeaseAbort \/ PowerOnVM \/ WaitPower
  BY <1>7 DEF HttpNfcLeaseAbort, PowerOnVM, WaitPower
<1> QED BY <1>1, <1>2, <1>3, <1>4, <1>5, <1>6, <1>7 DEF Caller, Upload

LEMMA OtherGranted ==
    ASSUME TypeOK, InStep, Pacing, PingsSuffice, Granted,
           (\E r \in Runs : LeaseProgress(r)) \/ Host \/ Tick
    PROVE  Granted'
<1> USE DeployAssumption, OldestAge DEF TypeOK, Granted
<1>1. ASSUME NEW r \in Runs, LeaseProgress(r)
      PROVE  Granted'
  <2>1. UNCHANGED <<pc, run, failing, left, lease>>
    BY <1>1 DEF LeaseProgress, Check, PingArrives, PingFails, PingReturns, Wake, callVars, hostVars
  <2>2. life' = life \/ life' = [life EXCEPT ![r] = LeaseLife]
    BY <1>1 DEF LeaseProgress, Check, PingArrives, PingFails, PingReturns, Wake, hostVars
  <2>3. pc # "idle" => run \in Runs /\ life[run] \in 0..LeaseLife /\ life'[run] \in {life[run], LeaseLife}
    BY <2>2
  <2> QED BY <2>1, <2>3
<1>2. ASSUME NEW r \in Runs, TaskEnds(r) \/ LeaseReady(r) \/ LeaseFails(r) \/ LeaseExpires(r)
      PROVE  Granted'
  <2>1. UNCHANGED <<pc, run, failing, left>>
    BY <1>2 DEF TaskEnds, LeaseReady, LeaseFails, LeaseExpires, callVars
  <2>2. lease[run] = "ready" /\ run \in Runs /\ life[run] > 0
          => lease'[run] = "ready" /\ life'[run] = life[run]
    <3>1. CASE TaskEnds(r)
      BY <3>1 DEF TaskEnds
    <3>2. CASE LeaseReady(r)
      BY <3>2 DEF LeaseReady
    <3>3. CASE LeaseFails(r)
      BY <3>3 DEF LeaseFails
    <3>4. CASE LeaseExpires(r)
      BY <3>4 DEF LeaseExpires
    <3> QED BY <1>2, <3>1, <3>2, <3>3, <3>4
  <2>3. pc \in {"upload", "stop", "join", "complete"} /\ ~failing
          => lease[run] = "ready" /\ run \in Runs /\ life[run] > 0
    OBVIOUS
  <2> QED BY <2>1, <2>2, <2>3
<1>3. CASE Tick
  <2>1. UNCHANGED <<pc, run, failing, lease>>
    BY <1>3 DEF Tick
  <2> SUFFICES ASSUME pc \in {"upload", "stop", "join", "complete"}, ~failing
               PROVE  Granted'
    BY <2>1
  <2>2. run \in Runs /\ lease[run] = "ready" /\ Paced(run) /\ life'[run] = life[run] - 1
    BY <1>3 DEF Tick, Pacing
  <2>3. life[run] \in 0..LeaseLife /\ nap[run] \in Nat /\ fails[run] \in 0..MaxPingFails
    BY <2>2
  <2>4. CASE pc = "complete"
    <3>1. left' = left - 1
      BY <1>3, <2>4 DEF Tick
    <3> QED BY <2>1, <2>2, <2>3, <2>4, <3>1
  <2>5. CASE pc # "complete"
    (* A thread that is off is what stop or join was waiting for. *)
    <3>1. thread[run] \in {"ping", "pinged", "nap"}
      <4>1. pc \in {"upload", "join"}
        BY <1>3, <2>5 DEF Tick, Due
      <4>2. thread[run] # "off"
        BY <1>3, <4>1 DEF Tick, Due, InStep
      <4>3. thread[run] # "check"
        BY <1>3, <2>2 DEF Tick, Due
      <4> QED BY <2>2, <4>1, <4>2, <4>3 DEF ThreadStates
    <3>2. fails[run] * Cycle \in Nat /\ PingMax + fails[run] * Cycle + Cycle <= Oldest
      BY <2>3
    <3>3. thread[run] \in {"ping", "pinged"} => nap[run] < PingMax
      BY <1>3, <2>2, <2>3 DEF Tick, Due
    <3>4. thread[run] = "nap" => nap[run] > 0
      BY <1>3, <2>2, <2>3 DEF Tick, Due
    <3>5. LeaseLife - life[run] < PingMax + fails[run] * Cycle + Cycle
      <4>1. CASE thread[run] = "ping"
        BY <2>2, <2>3, <3>2, <3>3, <4>1 DEF Paced, Cycle
      <4>2. CASE thread[run] = "pinged"
        BY <2>2, <2>3, <3>2, <3>3, <4>2 DEF Paced, Cycle
      <4>3. CASE thread[run] = "nap"
        BY <2>2, <2>3, <3>2, <3>4, <4>3 DEF Paced, Cycle
      <4> QED BY <3>1, <4>1, <4>2, <4>3
    <3>6. Cycle \in Nat
      BY DEF Cycle
    <3>7. LeaseLife - life'[run] <= Oldest
      BY <2>2, <2>3, <3>2, <3>5, <3>6
    <3> QED BY <2>1, <2>2, <2>5, <3>7
  <2> QED BY <2>4, <2>5
<1> QED BY <1>1, <1>2, <1>3 DEF Host

(* As long as the pings that fail in a row, and a completion without any,  *)
(* cannot use up the life of the lease, the host never takes it from an    *)
(* upload, nor from the completion after it. *)
THEOREM LeaseSafe == Spec => []LeaseOutlivesUpload
<1>1. Init => LeaseInv
  BY DeployAssumption
  DEF Init, LeaseInv, InStep, Fresh, Pacing, Paced, Granted
<1>2. TypeOK /\ LeaseInv /\ [Next]_vars => LeaseInv'
  <2> SUFFICES ASSUME TypeOK, LeaseInv, [Next]_vars
               PROVE  LeaseInv'
    OBVIOUS
  <2>1. CASE UNCHANGED vars
    BY <2>1 DEF LeaseInv, InStep, Fresh, Pacing, Paced, Cycle, Granted, PingsSuffice,
                vars, callVars, hostVars, threadVars
  <2>2. CASE deploy \/ Caller
    BY <2>2, CallerInStep, CallerPacing, CallerGranted DEF LeaseInv, PingsSuffice
  <2>3. CASE (\E r \in Runs : LeaseProgress(r)) \/ Host \/ Tick
    BY <2>3, OtherInStep, OtherPacing, OtherGranted DEF LeaseInv, PingsSuffice
  <2>4. CASE Crash
    BY <2>4 DEF Crash, LeaseInv, InStep, Fresh, Pacing, Paced, Granted, TypeOK, Return, hostVars
  <2> QED BY <2>1, <2>2, <2>3, <2>4 DEF Next
<1>3. LeaseInv => LeaseOutlivesUpload
  BY DEF LeaseInv, Granted, LeaseOutlivesUpload
<1> QED BY <1>1, <1>2, <1>3, DeployTypes, PTL DEF Spec

(***************************************************************************)
(* QuietEnd.                                                               *)
(***************************************************************************)

LEMMA CallerQuiet ==
    ASSUME TypeOK, QuietInv, deploy \/ Caller
    PROVE  QuietInv'
<1> USE DeployAssumption DEF TypeOK, QuietInv, hostVars, threadVars, Goto, Return
<1>1. CASE deploy
  BY <1>1 DEF deploy
<1>2. CASE find_vm \/ ImportVApp
  BY <1>2 DEF find_vm, ImportVApp
<1>3. CASE WaitLeaseReady
  BY <1>3 DEF WaitLeaseReady
<1>4. CASE UploadDisks
  BY <1>4 DEF UploadDisks
<1>5. CASE Stop
  BY <1>5 DEF Stop, AfterStop, ThreadStates
<1>6. CASE Join
  BY <1>6 DEF Join, AfterStop, ThreadStates
<1>7. CASE HttpNfcLeaseComplete
  BY <1>7 DEF HttpNfcLeaseComplete
<1>8. CASE HttpNfcLeaseAbort \/ PowerOnVM \/ WaitPower
  BY <1>8 DEF HttpNfcLeaseAbort, PowerOnVM, WaitPower
<1> QED BY <1>1, <1>2, <1>3, <1>4, <1>5, <1>6, <1>7, <1>8 DEF Caller, Upload

LEMMA OtherQuiet ==
    ASSUME TypeOK, QuietInv, (\E r \in Runs : LeaseProgress(r)) \/ Host \/ Tick
    PROVE  QuietInv'
<1> USE DeployAssumption DEF TypeOK, QuietInv
<1>1. ASSUME NEW r \in Runs, LeaseProgress(r)
      PROVE  QuietInv'
  <2> USE DEF callVars, hostVars
  <2>1. CASE Check(r)
    BY <2>1 DEF Check
  <2>2. CASE PingArrives(r)
    BY <2>2 DEF PingArrives
  <2>3. CASE PingFails(r)
    BY <2>3 DEF PingFails
  <2>4. CASE PingReturns(r)
    BY <2>4 DEF PingReturns
  <2>5. CASE Wake(r)
    BY <2>5 DEF Wake
  <2> QED BY <1>1, <2>1, <2>2, <2>3, <2>4, <2>5 DEF LeaseProgress
<1>2. CASE Host
  BY <1>2 DEF Host, TaskEnds, LeaseReady, LeaseFails, LeaseExpires, callVars, threadVars
<1>3. CASE Tick
  <2>1. \A r \in Runs : thread[r] \in {"ping", "pinged"} => nap[r] < PingMax /\ nap'[r] = nap[r] + 1
    BY <1>3 DEF Tick, Due
  <2>2. pc = "join" => /\ left > 0 /\ left' = left - 1
                       /\ ~(thread[run] = "nap" /\ stopped[run])
    BY <1>3 DEF Tick, Due
  <2>3. \A r \in Runs : thread[r] # "check"
    BY <1>3 DEF Tick, Due
  <2>4. UNCHANGED <<pc, run, thread, stopped>>
    BY <1>3 DEF Tick
  <2> QED BY <2>1, <2>2, <2>3, <2>4
<1> QED BY <1>1, <1>2, <1>3

(* Unless a ping takes as long as the join waits, none is on its way when  *)
(* the lease is completed or aborted. *)
THEOREM QuietSafe == Spec => []QuietEnd
<1>1. Init => QuietInv
  BY DEF Init, QuietInv
<1>2. TypeOK /\ QuietInv /\ [Next]_vars => QuietInv'
  <2> SUFFICES ASSUME TypeOK, QuietInv, [Next]_vars
               PROVE  QuietInv'
    OBVIOUS
  <2>1. CASE UNCHANGED vars
    BY <2>1 DEF QuietInv, vars, callVars, threadVars
  <2>2. CASE Crash
    BY <2>2 DEF Crash, QuietInv, TypeOK, Return
  <2> QED BY <2>1, <2>2, CallerQuiet, OtherQuiet DEF Next
<1>3. QuietInv => QuietEnd
  BY DEF QuietInv, QuietEnd
<1> QED BY <1>1, <1>2, <1>3, DeployTypes, PTL DEF Spec

(***************************************************************************)
(* PushesAsPromised.                                                       *)
(***************************************************************************)

LEMMA CallerPush ==
    ASSUME TypeOK, PushInv, deploy \/ Caller \/ Crash
    PROVE  PushInv'
<1> USE RunsNat, DeployAssumption DEF TypeOK, PushInv, VMIs, hostVars, Goto, Return
<1>1. CASE deploy
  <2>1. run' \in Runs /\ run' = run + 1 /\ pc' \in {"find", "import"} /\ outcome' = "none"
    BY <1>1 DEF deploy, Runs
  <2>2. UNCHANGED <<lease, vm, task>>
    BY <1>1 DEF deploy
  <2>3. \A r \in Runs : r > run' => r > run
    BY <2>1
  <2>4. lease[run'] = "none"
    BY <2>1
  <2> QED BY <2>1, <2>2, <2>3, <2>4
<1>2. CASE find_vm
  BY <1>2 DEF find_vm
<1>3. CASE ImportVApp
  <2>1. CASE UNCHANGED hostVars
    BY <1>3, <2>1 DEF ImportVApp
  <2>2. CASE ~UNCHANGED hostVars
    <3>1. /\ run' = run /\ run \in Runs /\ pc' \in {"idle", "waitReady"}
          /\ lease' = [lease EXCEPT ![run] = "initializing"]
          /\ vm' = [vm EXCEPT ![run] = "shell"] /\ task' = task
          /\ \A r \in Runs : vm[r] = "none"
      BY <1>3, <2>2 DEF ImportVApp, NameTaken
    <3>2. task[run] = "none"
      BY <1>3 DEF ImportVApp
    <3>3. /\ lease'[run] = "initializing" /\ vm'[run] = "shell"
          /\ \A r \in Runs \ {run} : UNCHANGED <<lease[r], vm[r]>>
      BY <3>1
    <3>4. \A r \in Runs : VMIs(r)'
      BY <3>1, <3>2, <3>3
    <3>5. pc' # "idle" => outcome' = "none"
      BY <1>3 DEF ImportVApp
    <3> QED BY <3>1, <3>2, <3>3, <3>4, <3>5
  <2> QED BY <2>1, <2>2
<1>4. CASE WaitLeaseReady
  BY <1>4 DEF WaitLeaseReady
<1>5. CASE UploadDisks
  BY <1>5 DEF UploadDisks
<1>6. CASE Stop \/ Join
  BY <1>6 DEF Stop, Join, AfterStop
<1>7. CASE HttpNfcLeaseComplete
  BY <1>7 DEF HttpNfcLeaseComplete
<1>8. CASE HttpNfcLeaseAbort
  BY <1>8 DEF HttpNfcLeaseAbort
<1>9. CASE PowerOnVM
  BY <1>9 DEF PowerOnVM
<1>10. CASE WaitPower
  BY <1>10 DEF WaitPower
<1>11. CASE Crash
  BY <1>11 DEF Crash
<1> QED BY <1>1, <1>2, <1>3, <1>4, <1>5, <1>6, <1>7, <1>8, <1>9, <1>10, <1>11 DEF Caller, Upload

LEMMA OtherPush ==
    ASSUME TypeOK, PushInv, (\E r \in Runs : LeaseProgress(r)) \/ Host \/ Tick
    PROVE  PushInv'
<1> USE RunsNat DEF TypeOK, PushInv, VMIs
<1>1. CASE (\E r \in Runs : LeaseProgress(r)) \/ Tick
  <2>1. UNCHANGED <<pc, run, outcome, lease, vm, task>>
    BY <1>1 DEF LeaseProgress, Check, PingArrives, PingFails, PingReturns, Wake, Tick, callVars, hostVars
  <2> QED BY <2>1
<1>2. ASSUME NEW r \in Runs, TaskEnds(r) \/ LeaseReady(r) \/ LeaseFails(r) \/ LeaseExpires(r)
      PROVE  PushInv'
  <2> USE DEF callVars
  <2>1. CASE TaskEnds(r)
    BY <2>1 DEF TaskEnds
  <2>2. CASE LeaseReady(r)
    BY <2>2 DEF LeaseReady
  <2>3. CASE LeaseFails(r)
    BY <2>3 DEF LeaseFails
  <2>4. CASE LeaseExpires(r)
    BY <2>4 DEF LeaseExpires
  <2> QED BY <1>2, <2>1, <2>2, <2>3, <2>4
<1> QED BY <1>1, <1>2 DEF Host

LEMMA PushInvHolds == Spec => []PushInv
<1>1. Init => PushInv
  BY DeployAssumption DEF Init, PushInv, VMIs
<1>2. TypeOK /\ PushInv /\ [Next]_vars => PushInv'
  <2> SUFFICES ASSUME TypeOK, PushInv, [Next]_vars
               PROVE  PushInv'
    OBVIOUS
  <2>1. CASE UNCHANGED vars
    BY <2>1 DEF PushInv, VMIs, vars, callVars, hostVars
  <2> QED BY <2>1, CallerPush, OtherPush DEF Next
<1> QED BY <1>1, <1>2, DeployTypes, PTL DEF Spec

(* What is seen of the VMs when there is one, or none. *)
LEMMA OneIsSeen ==
    ASSUME NEW vms, NEW tasks, NEW r \in Runs, vms[r] # "none",
           \A s \in Runs : vms[s] # "none" => s = r
    PROVE  VMSeen(vms, tasks) = IF tasks[r] = "running" THEN "starting" ELSE vms[r]
<1>1. {s \in Runs : vms[s] # "none"} = {r}
  OBVIOUS
<1> QED BY <1>1 DEF VMSeen

LEMMA NoneIsSeen ==
    ASSUME NEW vms, NEW tasks, \A s \in Runs : vms[s] = "none"
    PROVE  VMSeen(vms, tasks) = "none"
<1>1. {s \in Runs : vms[s] # "none"} = {}
  OBVIOUS
<1> QED BY <1>1 DEF VMSeen

LEMMA TheVMIs ==
    ASSUME PushInv, NEW r \in Runs, vm[r] # "none"
    PROVE  TheVM = IF task[r] = "running" THEN "starting" ELSE vm[r]
<1>1. \A s \in Runs : vm[s] # "none" => s = r
  BY DEF PushInv
<1> QED BY <1>1, OneIsSeen DEF TheVM

LEMMA MineIs == Mine \in {"no", "yes", "started"}
BY DEF Mine

(* How the steps of a call that leave its VM alone look from outside. *)
LEMMA Silent ==
    ASSUME pc # "idle", pc' # "idle", Mine' = Mine, UNCHANGED <<outcome, vm, task>>
    PROVE  UNCHANGED Push!pushVars
BY DEF Push!pushVars, TheVM

LEMMA FailsQuietly ==
    ASSUME pc # "idle", pc' = "idle", outcome' = "failed", UNCHANGED <<vm, task>>
    PROVE  Push!PushNext
<1>1. Mine' = "no" /\ TheVM' = TheVM
  BY DEF Mine, TheVM
<1>2. Push!Move(Mine)
  BY <1>1 DEF Push!Move
<1> QED BY <1>1, <1>2, MineIs DEF Push!PushNext, Push!Ends, Push!Replies

LEMMA ImportRefines ==
    ASSUME TypeOK, PushInv, PushInv', ImportVApp
    PROVE  [Push!PushNext]_(Push!pushVars)
<1>1. CASE UNCHANGED <<left, hostVars>>
  <2>1. pc = "import" /\ pc' = "idle" /\ outcome' = "failed" /\ UNCHANGED <<vm, task>>
    BY <1>1, DeployAssumption DEF ImportVApp, Return, hostVars, TypeOK, PushInv
  <2> QED BY <2>1, FailsQuietly
<1>2. CASE ~UNCHANGED <<left, hostVars>>
  <2>1. /\ run \in Runs /\ pc = "import"
        /\ vm' = [vm EXCEPT ![run] = "shell"] /\ UNCHANGED task
        /\ \A r \in Runs : vm[r] = "none"
        /\ \/ pc' = "waitReady" /\ outcome' = outcome
           \/ pc' = "idle" /\ outcome' = "failed"
    BY <1>2 DEF ImportVApp, NameTaken, Goto, Return, TypeOK
  <2>2. TheVM = "none"
    BY <2>1, NoneIsSeen DEF TheVM
  <2>3. vm'[run] = "shell" /\ task'[run] # "running" /\ \A s \in Runs : vm'[s] # "none" => s = run
    BY <2>1 DEF TypeOK, PushInv, VMIs
  <2>4. TheVM' = "shell"
    BY <2>1, <2>3, OneIsSeen DEF TheVM
  <2>5. Mine = "no" /\ Mine' = IF pc' = "idle" THEN "no" ELSE "yes"
    BY <2>1 DEF Mine
  <2>6. Push!Move("yes")
    BY <2>2, <2>4, <2>5 DEF Push!Move, Push!Work
  <2>7. CASE pc' = "waitReady" /\ outcome' = outcome
    <3>1. Push!GoesOn
      BY <2>1, <2>5, <2>6, <2>7 DEF Push!GoesOn
    <3> QED BY <3>1, <2>1 DEF Push!PushNext
  <2>8. CASE pc' = "idle" /\ outcome' = "failed"
    BY <2>1, <2>5, <2>6, <2>8 DEF Push!PushNext, Push!Ends, Push!Replies
  <2> QED BY <2>1, <2>7, <2>8
<1> QED BY <1>1, <1>2

LEMMA CompleteRefines ==
    ASSUME TypeOK, PushInv, PushInv', HttpNfcLeaseComplete
    PROVE  [Push!PushNext]_(Push!pushVars)
<1>1. CASE UNCHANGED vm
  <2>1. pc = "complete" /\ pc' = "stop" /\ UNCHANGED <<outcome, vm, task>>
    BY <1>1 DEF HttpNfcLeaseComplete, Goto, TypeOK, PushInv, VMIs
  <2>2. Mine' = Mine
    BY <2>1 DEF Mine
  <2> QED BY <2>1, <2>2, Silent
<1>2. CASE ~UNCHANGED vm
  <2>1. /\ run \in Runs /\ pc = "complete" /\ lease[run] = "ready"
        /\ vm' = [vm EXCEPT ![run] = "off"] /\ UNCHANGED task
        /\ \/ pc' \in {"powerOn", "stop"} /\ outcome' = outcome
           \/ pc' = "idle" /\ outcome' = "failed"
           \/ pc' = "idle" /\ outcome' = "deployed" /\ ~PowerOn
    BY <1>2 DEF HttpNfcLeaseComplete, Goto, Return, TypeOK
  <2>2. vm[run] = "shell" /\ task[run] = "none"
    BY <2>1 DEF PushInv, VMIs
  <2>3. TheVM = "shell"
    BY <2>1, <2>2, TheVMIs
  <2>4. vm'[run] = "off" /\ task'[run] = "none" /\ \A s \in Runs : vm'[s] # "none" => s = run
    BY <2>1, <2>2 DEF TypeOK, PushInv
  <2>5. TheVM' = "off"
    <3>1. run \in Runs /\ vm'[run] # "none"
      BY <2>1, <2>4
    <3>2. VMSeen(vm', task') = IF task'[run] = "running" THEN "starting" ELSE vm'[run]
      BY <2>4, <3>1, OneIsSeen
    <3> QED BY <2>4, <3>2 DEF TheVM
  <2>6. Mine = "yes" /\ Mine' = IF pc' = "idle" THEN "no" ELSE "yes"
    BY <2>1 DEF Mine
  <2>7. Push!Move("yes")
    BY <2>3, <2>5, <2>6 DEF Push!Move, Push!Work
  <2>8. CASE pc' # "idle"
    <3>1. Push!GoesOn
      BY <2>1, <2>6, <2>7, <2>8 DEF Push!GoesOn
    <3> QED BY <3>1, <2>1 DEF Push!PushNext
  <2>9. CASE pc' = "idle"
    <3>1. outcome' \in {"failed", "deployed"} /\ (outcome' = "deployed" => ~PowerOn)
      BY <2>1, <2>9
    <3> QED BY <2>1, <2>5, <2>6, <2>7, <2>9, <3>1
            DEF Push!PushNext, Push!Ends, Push!Replies, Push!Whole
  <2> QED BY <2>8, <2>9
<1> QED BY <1>1, <1>2

LEMMA AbortRefines ==
    ASSUME TypeOK, PushInv, PushInv', HttpNfcLeaseAbort
    PROVE  [Push!PushNext]_(Push!pushVars)
<1>1. pc = "abort" /\ pc' = "idle" /\ outcome' = "failed" /\ UNCHANGED task /\ run \in Runs
  BY DEF HttpNfcLeaseAbort, Return, TypeOK
<1>2. CASE UNCHANGED vm
  BY <1>1, <1>2, FailsQuietly
<1>3. CASE ~UNCHANGED vm
  <2>1. lease[run] = "ready" /\ vm' = [vm EXCEPT ![run] = "none"]
    BY <1>3 DEF HttpNfcLeaseAbort
  <2>2. vm[run] = "shell" /\ task[run] = "none"
    BY <1>1, <2>1 DEF PushInv, VMIs
  <2>3. TheVM = "shell"
    BY <1>1, <2>2, TheVMIs
  <2>4. \A s \in Runs : vm'[s] = "none"
    BY <1>1, <2>1, <2>2 DEF TypeOK, PushInv
  <2>5. TheVM' = "none"
    BY <2>4, NoneIsSeen DEF TheVM
  <2>6. Mine = "yes" /\ Mine' = "no"
    BY <1>1 DEF Mine
  <2>7. Push!Move("yes")
    BY <2>3, <2>5, <2>6 DEF Push!Move, Push!Settle
  <2> QED BY <1>1, <2>6, <2>7 DEF Push!PushNext, Push!Ends, Push!Replies
<1> QED BY <1>2, <1>3

LEMMA PowerOnRefines ==
    ASSUME TypeOK, PushInv, PushInv', PowerOnVM
    PROVE  [Push!PushNext]_(Push!pushVars)
<1>1. pc = "powerOn" /\ UNCHANGED vm /\ run \in Runs
  BY DEF PowerOnVM, TypeOK
<1>2. CASE UNCHANGED task
  <2>1. task[run] = "none"
    BY <1>1 DEF PushInv
  <2>2. pc' = "idle" /\ outcome' = "failed"
    BY <1>1, <1>2, <2>1 DEF PowerOnVM, Return, TypeOK
  <2> QED BY <1>1, <1>2, <2>2, FailsQuietly
<1>3. CASE ~UNCHANGED task
  <2>1. /\ task' = [task EXCEPT ![run] = "running"]
        /\ \/ pc' = "waitPower" /\ outcome' = outcome
           \/ pc' = "idle" /\ outcome' = "failed"
    BY <1>3 DEF PowerOnVM, Goto, Return
  <2>2. vm[run] = "off" /\ task[run] = "none" /\ PowerOn
    BY <1>1 DEF PushInv, VMIs
  <2>3. TheVM = "off"
    BY <1>1, <2>2, TheVMIs
  <2>4. vm'[run] = "off" /\ task'[run] = "running" /\ \A s \in Runs : vm'[s] # "none" => s = run
    BY <1>1, <2>1, <2>2 DEF TypeOK, PushInv
  <2>5. TheVM' = "starting"
    BY <1>1, <2>4, OneIsSeen DEF TheVM
  <2>6. Mine = "yes" /\ Mine' = IF pc' = "idle" THEN "no" ELSE "started"
    BY <1>1, <2>1 DEF Mine
  <2>7. Push!Move("started")
    BY <2>2, <2>3, <2>5, <2>6 DEF Push!Move, Push!Work
  <2>8. CASE pc' = "waitPower" /\ outcome' = outcome
    <3>1. Push!GoesOn
      BY <1>1, <2>6, <2>7, <2>8 DEF Push!GoesOn
    <3> QED BY <1>1, <3>1 DEF Push!PushNext
  <2>9. CASE pc' = "idle" /\ outcome' = "failed"
    BY <1>1, <2>6, <2>7, <2>9 DEF Push!PushNext, Push!Ends, Push!Replies
  <2> QED BY <2>1, <2>8, <2>9
<1> QED BY <1>2, <1>3

LEMMA WaitPowerRefines ==
    ASSUME TypeOK, PushInv, WaitPower
    PROVE  [Push!PushNext]_(Push!pushVars)
<1>1. pc = "waitPower" /\ UNCHANGED <<vm, task>> /\ run \in Runs
  BY DEF WaitPower, hostVars, TypeOK
<1>2. CASE pc' # "idle"
  <2>1. pc' = pc /\ outcome' = outcome
    BY <1>1, <1>2 DEF WaitPower, Return
  <2>2. Mine' = Mine
    BY <2>1 DEF Mine
  <2> QED BY <1>1, <1>2, <2>1, <2>2, Silent
<1>3. CASE pc' = "idle" /\ outcome' = "failed"
  BY <1>1, <1>3, FailsQuietly
<1>4. CASE pc' = "idle" /\ outcome' # "failed"
  <2>1. task[run] = "success" /\ outcome' = "deployed"
    BY <1>1, <1>4 DEF WaitPower, Return
  <2>2. vm[run] = "on" /\ PowerOn
    BY <1>1, <2>1 DEF PushInv, VMIs
  <2>3. TheVM = "on" /\ TheVM' = "on"
    <3>1. TheVM = "on"
      BY <1>1, <2>1, <2>2, TheVMIs
    <3> QED BY <1>1, <3>1 DEF TheVM
  <2>4. Mine = "started" /\ Mine' = "no"
    BY <1>1, <1>4 DEF Mine
  <2>5. Push!Move("started")
    BY <2>3, <2>4 DEF Push!Move
  <2> QED BY <1>1, <1>4, <2>1, <2>2, <2>3, <2>4, <2>5
          DEF Push!PushNext, Push!Ends, Push!Replies, Push!Whole
<1> QED BY <1>2, <1>3, <1>4

LEMMA CallerRefines ==
    ASSUME TypeOK, PushInv, PushInv', deploy \/ Caller \/ Crash
    PROVE  [Push!PushNext]_(Push!pushVars)
<1>1. CASE deploy
  <2>1. /\ pc = "idle" /\ pc' \in {"find", "import"} /\ outcome' = "none" /\ UNCHANGED <<vm, task>>
    BY <1>1 DEF deploy, hostVars
  <2>2. Mine' = "no" /\ TheVM' = TheVM
    BY <2>1 DEF Mine, TheVM
  <2> QED BY <2>1, <2>2 DEF Push!PushNext, Push!Call
<1>2. CASE find_vm
  <2>1. pc = "find" /\ UNCHANGED <<vm, task>>
    BY <1>2 DEF find_vm, hostVars
  <2>2. \/ pc' = "idle" /\ outcome' = "failed"
        \/ pc' = "idle" /\ outcome' = "skipped" /\ NameTaken
        \/ pc' = "import" /\ outcome' = outcome
    BY <1>2 DEF find_vm, Goto, Return
  <2>3. CASE pc' = "idle" /\ outcome' = "failed"
    BY <2>1, <2>3, FailsQuietly
  <2>4. CASE pc' = "idle" /\ outcome' = "skipped" /\ NameTaken
    <3>1. PICK r \in Runs : vm[r] # "none"
      BY <2>4 DEF NameTaken
    <3>2. TheVM # "none" /\ TheVM' = TheVM
      <4>1. TheVM # "none"
        BY <3>1, TheVMIs
      <4> QED BY <2>1, <4>1 DEF TheVM
    <3>3. Mine = "no" /\ Mine' = "no"
      BY <2>1, <2>4 DEF Mine
    <3>4. Push!Move("no")
      BY <3>2, <3>3 DEF Push!Move
    <3> QED BY <2>1, <2>4, <3>2, <3>3, <3>4 DEF Push!PushNext, Push!Ends, Push!Replies
  <2>5. CASE pc' = "import" /\ outcome' = outcome
    <3>1. Mine' = Mine
      BY <2>1, <2>5 DEF Mine
    <3> QED BY <2>1, <2>5, <3>1, Silent
  <2> QED BY <2>2, <2>3, <2>4, <2>5
<1>3. CASE WaitLeaseReady \/ UploadDisks \/ Stop \/ Join
  <2>1. /\ pc \in {"waitReady", "upload", "stop", "join"} /\ UNCHANGED <<vm, task>>
        /\ \/ pc' \in {"waitReady", "upload", "stop", "join", "abort", "complete"} /\ outcome' = outcome
           \/ pc' = "idle" /\ outcome' = "failed"
    BY <1>3 DEF WaitLeaseReady, UploadDisks, Stop, Join, AfterStop, Goto, Return, hostVars
  <2>2. pc' # "idle" => Mine' = Mine
    BY <2>1 DEF Mine
  <2> QED BY <2>1, <2>2, Silent, FailsQuietly
<1>4. CASE Crash
  <2>1. pc # "idle" /\ pc' = "idle" /\ outcome' = "failed" /\ UNCHANGED <<vm, task>>
    BY <1>4 DEF Crash, Return, hostVars
  <2> QED BY <2>1, FailsQuietly
<1> QED BY <1>1, <1>2, <1>3, <1>4, ImportRefines, CompleteRefines, AbortRefines, PowerOnRefines,
           WaitPowerRefines DEF Caller, Upload

LEMMA OtherRefines ==
    ASSUME TypeOK, PushInv, PushInv', (\E r \in Runs : LeaseProgress(r)) \/ Host \/ Tick
    PROVE  [Push!PushNext]_(Push!pushVars)
<1>1. UNCHANGED <<pc, outcome>>
  BY DEF LeaseProgress, Check, PingArrives, PingFails, PingReturns, Wake, Host, TaskEnds,
         LeaseReady, LeaseFails, LeaseExpires, Tick, callVars
<1>2. Mine' = Mine /\ (pc # "idle")' = (pc # "idle")
  BY <1>1 DEF Mine
<1>3. CASE UNCHANGED <<vm, task>>
  BY <1>1, <1>2, <1>3 DEF Push!pushVars, TheVM
<1>4. ASSUME NEW r \in Runs, TaskEnds(r)
      PROVE  Push!Settle
  <2>1. vm[r] = "off" /\ task[r] = "running"
    BY <1>4 DEF TaskEnds, PushInv, VMIs, TypeOK, VMs
  <2>2. TheVM = "starting"
    BY <2>1, TheVMIs
  <2>3. vm'[r] \in {"on", "off"} /\ task'[r] # "running" /\ \A s \in Runs : vm'[s] # "none" => s = r
    BY <1>4, <2>1 DEF TaskEnds, TypeOK, PushInv
  <2>4. TheVM' \in {"on", "off"}
    <3>1. TheVM' = vm'[r]
      BY <2>3, OneIsSeen DEF TheVM
    <3> QED BY <2>3, <3>1
  <2> QED BY <2>2, <2>4 DEF Push!Settle
<1>5. ASSUME NEW r \in Runs, LeaseFails(r) \/ LeaseExpires(r)
      PROVE  Push!Settle
  <2>1. vm[r] = "shell" /\ task[r] # "running"
    BY <1>5 DEF LeaseFails, LeaseExpires, PushInv, VMIs
  <2>2. TheVM = "shell"
    BY <2>1, TheVMIs
  <2>3. \A s \in Runs : vm'[s] = "none"
    BY <1>5, <2>1 DEF LeaseFails, LeaseExpires, TypeOK, PushInv
  <2>4. TheVM' = "none"
    BY <2>3, NoneIsSeen DEF TheVM
  <2> QED BY <2>2, <2>4 DEF Push!Settle
<1>6. CASE Push!Settle
  BY <1>1, <1>2, <1>6 DEF Push!PushNext
<1>7. \/ UNCHANGED <<vm, task>>
      \/ \E r \in Runs : TaskEnds(r) \/ LeaseFails(r) \/ LeaseExpires(r)
  BY DEF LeaseProgress, Check, PingArrives, PingFails, PingReturns, Wake, Host, LeaseReady,
         Tick, hostVars
<1> QED BY <1>3, <1>4, <1>5, <1>6, <1>7

(* The upload, its lease, its progress thread and the power-on task keep   *)
(* what OvaPush promises the callers of deploy_ova. *)
THEOREM PushRefines == Spec => PushesAsPromised
<1>1. Init => Push!PushInit
  <2> SUFFICES ASSUME Init
               PROVE  Push!PushInit
    OBVIOUS
  <2>1. \A r \in Runs : vm[r] = "none"
    BY DEF Init
  <2>2. TheVM = "none"
    BY <2>1, NoneIsSeen DEF TheVM
  <2>3. pc = "idle" /\ outcome = "none" /\ Mine = "no"
    BY DEF Init, Mine
  <2> QED BY <2>2, <2>3 DEF Push!PushInit
<1>2. TypeOK /\ PushInv /\ PushInv' /\ [Next]_vars => [Push!PushNext]_(Push!pushVars)
  <2> SUFFICES ASSUME TypeOK, PushInv, PushInv', [Next]_vars
               PROVE  [Push!PushNext]_(Push!pushVars)
    OBVIOUS
  <2>1. CASE UNCHANGED vars
    BY <2>1 DEF vars, callVars, hostVars, Push!pushVars, TheVM, Mine
  <2> QED BY <2>1, CallerRefines, OtherRefines DEF Next
<1> QED BY <1>1, <1>2, DeployTypes, PushInvHolds, PTL DEF Spec, Push!PushSpec, PushesAsPromised

===============================================================================
