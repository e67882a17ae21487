------------------------------ MODULE OvfDeploy ------------------------------
(***************************************************************************)
(* Pushing an OVA: deploy_ova and find_vm of clients/ovf_deploy.py, called *)
(* by the deploy functions of modules/vcf_hcx.py, vcf_vrli.py, vcf_avi.py  *)
(* and vcf_vro.py (which look for the VM first) and by vcf_vrni.py and     *)
(* installer_appliance.py (which do not).                                  *)
(*                                                                         *)
(* Two threads share a lease of the ESXi host: the caller uploads the      *)
(* disks while a _LeaseProgress thread pings the lease so that the host    *)
(* does not expire it.  Time passes in ticks; the numbers of the code      *)
(* (pings every 30 s, a lease of about 5 min, a join of 10 s) become       *)
(* constants, and which of them matter is part of the properties.          *)
(***************************************************************************)
EXTENDS Integers

CONSTANTS
    Callers,      \* "find": find_vm comes first; "push": it does not
    PowerOn,      \* power_on of the call
    Interval,     \* _LEASE_PROGRESS_INTERVAL, in ticks
    JoinMax,      \* timeout of the join in stop(), in ticks
    CompleteMax,  \* ticks before HttpNfcLeaseComplete reaches the host, at most
    ReadyBudget,  \* _LEASE_READY_TIMEOUT, in polls
    PowerBudget,  \* timeout of wait_for_task, in polls
    LeaseLife,    \* ticks without a ping after which the host expires a lease
    PingMax,      \* ticks a ping takes at most
    MaxPingFails, \* pings that fail in a row
    Faults,       \* what may go wrong: "conn", "lost", "lease", "task", "crash"
    MaxRuns       \* bound: calls in one behaviour

FaultSet == {"conn", "lost", "lease", "task", "crash"}

ASSUME DeployAssumption ==
    /\ Callers \subseteq {"find", "push"}
    /\ PowerOn \in BOOLEAN
    /\ Interval \in Nat /\ JoinMax \in Nat /\ CompleteMax \in Nat
    /\ PingMax \in Nat /\ MaxPingFails \in Nat
    /\ ReadyBudget \in Nat /\ PowerBudget \in Nat
    /\ LeaseLife \in Nat \ {0}
    /\ Faults \subseteq FaultSet
    /\ MaxRuns \in Nat

Runs == 1..MaxRuns

VARIABLES
    pc,      \* where the calling thread is, "idle" between calls
    run,     \* the number of the current or last call
    failing, \* an exception is on its way out of the upload
    left,    \* polls, or ticks of the join or the completion, before a deadline
    outcome, \* what the last call returned
    lease,   \* per call: the state of its lease on the host
    life,    \* ticks before the host expires the lease
    vm,      \* per call: the VM its import created
    task,    \* per call: the state of its power-on task
    thread,  \* per call: where its _LeaseProgress thread is
    nap,     \* ticks left of the thread's wait, or spent in its ping
    stopped, \* per call: _stop_event is set
    fails    \* pings of the thread that failed in a row

callVars == <<pc, run, failing, left, outcome>>
hostVars == <<lease, life, vm, task>>
threadVars == <<thread, nap, stopped, fails>>
vars == <<callVars, hostVars, threadVars>>

PCs == {"idle", "find", "import", "waitReady", "upload", "stop", "join", "complete",
        "abort", "powerOn", "waitPower"}
LeaseStates == {"none", "initializing", "ready", "error", "done", "aborted", "expired"}
VMs == {"none", "shell", "off", "on"}
ThreadStates == {"off", "check", "ping", "pinged", "nap"}
Outcomes == {"none", "deployed", "skipped", "failed"}

TypeOK ==
    /\ pc \in PCs
    /\ run \in 0..MaxRuns
    /\ pc # "idle" => run \in Runs
    /\ failing \in BOOLEAN
    /\ left \in Nat
    /\ outcome \in Outcomes
    /\ lease \in [Runs -> LeaseStates]
    /\ life \in [Runs -> 0..LeaseLife]
    /\ vm \in [Runs -> VMs]
    /\ task \in [Runs -> {"none", "running", "success", "error"}]
    /\ thread \in [Runs -> ThreadStates]
    /\ nap \in [Runs -> Nat]
    /\ stopped \in [Runs -> BOOLEAN]
    /\ fails \in [Runs -> 0..MaxPingFails]

(***************************************************************************)
(* The calling thread.                                                     *)
(***************************************************************************)

Goto(label) == pc' = label /\ UNCHANGED <<run, outcome>>

Return(result) == pc' = "idle" /\ outcome' = result /\ UNCHANGED run

Conn == "conn" \in Faults
Lost == "lost" \in Faults

deploy ==
    /\ pc = "idle" /\ run < MaxRuns
    /\ run' = run + 1
    /\ \E c \in Callers : pc' = IF c = "find" THEN "find" ELSE "import"
    /\ outcome' = "none" /\ failing' = FALSE /\ left' = 0
    /\ UNCHANGED <<hostVars, threadVars>>

NameTaken == \E r \in Runs : vm[r] # "none"

(* find_vm by name: what is found is not pushed again, whatever its state. *)
find_vm ==
    /\ pc = "find"
    /\ \/ Conn /\ Return("failed")
       \/ IF NameTaken THEN Return("skipped") ELSE Goto("import")
    /\ UNCHANGED <<failing, left, hostVars, threadVars>>

(* From _connect to ImportVApp, which creates the VM as an empty shell and *)
(* the lease to fill it; a name is unique in its folder. *)
ImportVApp ==
    /\ pc = "import"
    /\ \/ /\ Conn \/ NameTaken
          /\ Return("failed")
          /\ UNCHANGED <<left, hostVars>>
       \/ /\ ~NameTaken
          /\ lease' = [lease EXCEPT ![run] = "initializing"]
          /\ vm' = [vm EXCEPT ![run] = "shell"]
          /\ \/ Goto("waitReady") /\ left' = ReadyBudget
             \/ Lost /\ Return("failed") /\ UNCHANGED left
          /\ UNCHANGED <<life, task>>
    /\ UNCHANGED <<failing, threadVars>>

(* A slip: the deadline is never looked at. *)
WaitLeaseReadyUndated ==
    /\ pc = "waitReady"
    /\ IF lease[run] = "ready"
       THEN /\ Goto("upload") /\ UNCHANGED left
            /\ thread' = [thread EXCEPT ![run] = "check"]
       ELSE left' = left - 1 /\ UNCHANGED <<pc, run, outcome, thread>>
    /\ UNCHANGED <<failing, hostVars, nap, stopped, fails>>

(* One round of _wait_lease_ready, and the start of the progress thread.   *)
(* Nothing of this is in the try block that aborts the lease. *)
WaitLeaseReady ==
    /\ pc = "waitReady"
    /\ \/ /\ \/ Conn
             \/ lease[run] = "error"
             \/ lease[run] # "ready" /\ left = 0
          /\ Return("failed")
          /\ UNCHANGED <<left, thread>>
       \/ /\ lease[run] = "ready"
          /\ Goto("upload")
          /\ thread' = [thread EXCEPT ![run] = "check"]
          /\ UNCHANGED left
       \/ /\ lease[run] \notin {"ready", "error"} /\ left > 0
          /\ left' \in 0..(left - 1)
          /\ UNCHANGED <<pc, run, outcome, thread>>
    /\ UNCHANGED <<failing, hostVars, nap, stopped, fails>>

(* _upload_disks: every PUT needs the lease; the upload takes its time. *)
UploadDisks ==
    /\ pc = "upload"
    /\ failing' \in BOOLEAN
    /\ ~failing' => lease[run] = "ready"
    /\ failing' => Conn \/ lease[run] # "ready"
    /\ Goto("stop")
    /\ UNCHANGED <<left, hostVars, threadVars>>

AfterStop ==
    /\ Goto(IF failing THEN "abort" ELSE "complete")
    /\ left' = CompleteMax

(* A slip: an upload that failed goes straight to the abort. *)
StopUnlessFailing ==
    /\ pc = "stop"
    /\ IF failing THEN AfterStop /\ UNCHANGED stopped
       ELSE /\ stopped' = [stopped EXCEPT ![run] = TRUE]
            /\ IF thread[run] = "off" THEN AfterStop
               ELSE Goto("join") /\ left' = JoinMax
    /\ UNCHANGED <<failing, hostVars, thread, nap, fails>>

(* A slip: the thread is not waited for. *)
StopWithoutJoin ==
    /\ pc = "stop"
    /\ stopped' = [stopped EXCEPT ![run] = TRUE]
    /\ AfterStop
    /\ UNCHANGED <<failing, hostVars, thread, nap, fails>>

(* stop(): set the event, and join the thread if it is alive. *)
Stop ==
    /\ pc = "stop"
    /\ stopped' = [stopped EXCEPT ![run] = TRUE]
    /\ IF thread[run] = "off" THEN AfterStop
       ELSE Goto("join") /\ left' = JoinMax
    /\ UNCHANGED <<failing, hostVars, thread, nap, fails>>

(* The join ends with the thread, or when its time is up. *)
Join ==
    /\ pc = "join"
    /\ thread[run] = "off" \/ left = 0
    /\ AfterStop
    /\ UNCHANGED <<failing, hostVars, threadVars>>

(* HttpNfcLeaseComplete: the shell becomes a VM.  An exception, also one   *)
(* after the host has done it, goes the way of a failed upload. *)
HttpNfcLeaseComplete ==
    /\ pc = "complete"
    /\ \/ /\ lease[run] = "ready"
          /\ lease' = [lease EXCEPT ![run] = "done"]
          /\ vm' = [vm EXCEPT ![run] = "off"]
          /\ \/ /\ UNCHANGED failing
                /\ IF PowerOn THEN Goto("powerOn")
                   ELSE \/ Return("deployed")
                        \/ Conn /\ Return("failed")
             \/ Lost /\ failing' = TRUE /\ Goto("stop")
       \/ /\ Conn \/ lease[run] # "ready"
          /\ failing' = TRUE /\ Goto("stop")
          /\ UNCHANGED <<lease, vm>>
    /\ UNCHANGED <<left, life, task, threadVars>>

(* _abort_lease, whose own failure is ignored: the host drops the shell, but *)
(* refuses to abort a lease that is no longer ready. *)
HttpNfcLeaseAbort ==
    /\ pc = "abort"
    /\ \/ /\ lease[run] = "ready"
          /\ lease' = [lease EXCEPT ![run] = "aborted"]
          /\ vm' = [vm EXCEPT ![run] = "none"]
       \/ /\ Conn \/ lease[run] # "ready"
          /\ UNCHANGED <<lease, vm>>
    /\ Return("failed")
    /\ UNCHANGED <<failing, left, life, task, threadVars>>

PowerOnVM ==
    /\ pc = "powerOn"
    /\ \/ /\ Conn /\ Return("failed")
          /\ UNCHANGED <<left, task>>
       \/ /\ task' = [task EXCEPT ![run] = "running"]
          /\ \/ Goto("waitPower") /\ left' = PowerBudget
             \/ Lost /\ Return("failed") /\ UNCHANGED left
    /\ UNCHANGED <<failing, lease, life, vm, threadVars>>

(* A slip: an error ends the wait like a success. *)
WaitPowerAnyEnd ==
    /\ pc = "waitPower"
    /\ \/ /\ task[run] \in {"success", "error"}
          /\ Return("deployed") /\ UNCHANGED left
       \/ /\ task[run] = "running" /\ left > 0
          /\ left' \in 0..(left - 1)
          /\ UNCHANGED <<pc, run, outcome>>
    /\ UNCHANGED <<failing, hostVars, threadVars>>

(* One round of wait_for_task; its TimeoutError leaves the task running. *)
WaitPower ==
    /\ pc = "waitPower"
    /\ \/ /\ task[run] = "success"
          /\ Return("deployed") /\ UNCHANGED left
       \/ /\ Conn \/ task[run] = "error" \/ (task[run] = "running" /\ left = 0)
          /\ Return("failed") /\ UNCHANGED left
       \/ /\ task[run] = "running" /\ left > 0
          /\ left' \in 0..(left - 1)
          /\ UNCHANGED <<pc, run, outcome>>
    /\ UNCHANGED <<failing, hostVars, threadVars>>

(* The process of the minion ends, and its daemon threads with it. *)
Crash ==
    /\ "crash" \in Faults /\ pc # "idle"
    /\ Return("failed")
    /\ thread' = [r \in Runs |-> "off"]
    /\ UNCHANGED <<failing, left, hostVars, nap, stopped, fails>>

(***************************************************************************)
(* The progress thread of call r.                                          *)
(***************************************************************************)

(* The head of the loop: the event ends it, else a ping goes out. *)
Check(r) ==
    /\ thread[r] = "check"
    /\ thread' = [thread EXCEPT ![r] = IF stopped[r] THEN "off" ELSE "ping"]
    /\ nap' = [nap EXCEPT ![r] = 0]
    /\ UNCHANGED <<callVars, hostVars, stopped, fails>>

(* The ping reaches the host; its answer is still to come. *)
PingArrives(r) ==
    /\ thread[r] = "ping" /\ lease[r] = "ready"
    /\ life' = [life EXCEPT ![r] = LeaseLife]
    /\ thread' = [thread EXCEPT ![r] = "pinged"]
    /\ fails' = [fails EXCEPT ![r] = 0]
    /\ UNCHANGED <<callVars, lease, vm, task, nap, stopped>>

(* A slip: a failing ping ends the thread. *)
PingFailsForGood(r) ==
    /\ thread[r] = "ping"
    /\ \/ Conn /\ fails[r] < MaxPingFails
          /\ fails' = [fails EXCEPT ![r] = @ + 1]
       \/ lease[r] # "ready" /\ UNCHANGED fails
    /\ thread' = [thread EXCEPT ![r] = "off"]
    /\ nap' = [nap EXCEPT ![r] = Interval]
    /\ UNCHANGED <<callVars, hostVars, stopped>>

(* A ping that fails is logged and no more. *)
PingFails(r) ==
    /\ thread[r] = "ping"
    /\ \/ /\ Conn /\ fails[r] < MaxPingFails
          /\ fails' = [fails EXCEPT ![r] = @ + 1]
       \/ lease[r] # "ready" /\ UNCHANGED fails
    /\ thread' = [thread EXCEPT ![r] = "nap"]
    /\ nap' = [nap EXCEPT ![r] = Interval]
    /\ UNCHANGED <<callVars, hostVars, stopped>>

PingReturns(r) ==
    /\ thread[r] = "pinged"
    /\ thread' = [thread EXCEPT ![r] = "nap"]
    /\ nap' = [nap EXCEPT ![r] = Interval]
    /\ UNCHANGED <<callVars, hostVars, stopped, fails>>

(* The wait between two pings ends early when the event is set. *)
Wake(r) ==
    /\ thread[r] = "nap"
    /\ stopped[r] \/ nap[r] = 0
    /\ thread' = [thread EXCEPT ![r] = IF stopped[r] THEN "off" ELSE "check"]
    /\ UNCHANGED <<callVars, hostVars, nap, stopped, fails>>

LeaseProgress(r) ==
    Check(r) \/ PingArrives(r) \/ PingFails(r) \/ PingReturns(r) \/ Wake(r)

(***************************************************************************)
(* The host, and time.                                                     *)
(***************************************************************************)

LeaseReady(r) ==
    /\ lease[r] = "initializing"
    /\ lease' = [lease EXCEPT ![r] = "ready"]
    /\ life' = [life EXCEPT ![r] = LeaseLife]
    /\ UNCHANGED <<callVars, vm, task, threadVars>>

LeaseFails(r) ==
    /\ "lease" \in Faults /\ lease[r] = "initializing"
    /\ lease' = [lease EXCEPT ![r] = "error"]
    /\ vm' = [vm EXCEPT ![r] = "none"]
    /\ UNCHANGED <<callVars, life, task, threadVars>>

LeaseExpires(r) ==
    /\ lease[r] = "ready" /\ life[r] = 0
    /\ lease' = [lease EXCEPT ![r] = "expired"]
    /\ vm' = [vm EXCEPT ![r] = "none"]
    /\ UNCHANGED <<callVars, life, task, threadVars>>

TaskEnds(r) ==
    /\ task[r] = "running"
    /\ \/ /\ task' = [task EXCEPT ![r] = "success"]
          /\ vm' = [vm EXCEPT ![r] = "on"]
       \/ /\ "task" \in Faults
          /\ task' = [task EXCEPT ![r] = "error"]
          /\ UNCHANGED vm
    /\ UNCHANGED <<callVars, lease, life, threadVars>>

(* What must not wait for the next tick: a step without a request, a limit *)
(* that is reached, the lease that is ready, which is polled each second.  *)
(* The lookup, the download before the import, the upload, the abort and   *)
(* the power-on take any time. *)
Due ==
    \/ pc = "stop"
    \/ pc = "join" /\ (left = 0 \/ thread[run] = "off")
    \/ pc = "complete" /\ left = 0
    \/ pc = "waitReady" /\ lease[run] = "ready"
    \/ \E r \in Runs :
         \/ thread[r] = "check"
         \/ thread[r] \in {"ping", "pinged"} /\ nap[r] >= PingMax
         \/ thread[r] = "nap" /\ (stopped[r] \/ nap[r] = 0)
         \/ lease[r] = "ready" /\ life[r] = 0

Tick ==
    /\ ~Due
    /\ left' = IF pc \in {"join", "complete"} THEN left - 1 ELSE left
    /\ life' = [r \in Runs |-> IF lease[r] = "ready" THEN life[r] - 1 ELSE life[r]]
    /\ nap' = [r \in Runs |-> CASE thread[r] \in {"ping", "pinged"} -> nap[r] + 1
                                [] thread[r] = "nap" -> nap[r] - 1
                                [] OTHER -> nap[r]]
    /\ UNCHANGED <<pc, run, failing, outcome, lease, vm, task, thread, stopped, fails>>

(***************************************************************************)
(* Specification.                                                          *)
(***************************************************************************)

Init ==
    /\ pc = "idle" /\ run = 0 /\ failing = FALSE /\ left = 0 /\ outcome = "none"
    /\ lease = [r \in Runs |-> "none"]
    /\ life = [r \in Runs |-> LeaseLife]
    /\ vm = [r \in Runs |-> "none"]
    /\ task = [r \in Runs |-> "none"]
    /\ thread = [r \in Runs |-> "off"]
    /\ nap = [r \in Runs |-> 0]
    /\ stopped = [r \in Runs |-> FALSE]
    /\ fails = [r \in Runs |-> 0]

Upload == UploadDisks \/ Stop \/ Join \/ HttpNfcLeaseComplete \/ HttpNfcLeaseAbort

Caller == find_vm \/ ImportVApp \/ WaitLeaseReady \/ Upload \/ PowerOnVM \/ WaitPower

Host == \E r \in Runs : TaskEnds(r) \/ LeaseReady(r) \/ LeaseFails(r) \/ LeaseExpires(r)

Next == deploy \/ Caller \/ Crash \/ (\E r \in Runs : LeaseProgress(r)) \/ Host \/ Tick

Spec == Init /\ [][Next]_vars

(* Threads run, time passes, the host settles what it has begun. *)
FairSpec ==
    /\ Spec
    /\ WF_vars(Caller) /\ WF_vars(Host) /\ WF_vars(Tick)
    /\ \A r \in Runs : WF_vars(LeaseProgress(r))

(***************************************************************************)
(* Properties.                                                             *)
(***************************************************************************)

(* "This thread must run for the entire duration of disk upload": as long  *)
(* as the pings that fail in a row, and a completion without any, cannot   *)
(* use up the life of the lease, the host never takes it from an upload,   *)
(* nor from the completion after it. *)
PingsSuffice ==
    PingMax + (MaxPingFails + 1) * (Interval + PingMax) + CompleteMax < LeaseLife

LeaseOutlivesUpload ==
    PingsSuffice =>
        (pc \in {"upload", "stop", "join", "complete"} /\ ~failing => lease[run] = "ready")

(* The lease is completed or aborted in quiet: unless a ping takes as long *)
(* as the join waits, none of this call's is on its way by then. *)
QuietEnd == PingMax < JoinMax /\ pc \in {"complete", "abort"} => thread[run] = "off"

VMSeen(vms, tasks) ==
    LET owners == {r \in Runs : vms[r] # "none"}
        r == CHOOSE r \in owners : TRUE
    IN IF owners = {} THEN "none" ELSE IF tasks[r] = "running" THEN "starting" ELSE vms[r]

(* The VM of the name, and whose it is. *)
TheVM == VMSeen(vm, task)

Mine ==
    CASE pc \in {"idle", "find", "import"} -> "no"
      [] pc = "waitPower" -> "started"
      [] OTHER -> "yes"

Push == INSTANCE OvaPush
    WITH vm <- TheVM, busy <- (pc # "idle"), mine <- Mine, reply <- outcome

(* The upload, its lease, the progress thread and the power-on task keep   *)
(* what OvaPush promises to the callers: what is returned as deployed is   *)
(* whole, and only an empty shell ever disappears. *)
PushesAsPromised == Push!PushSpec

(* No call leaves an empty shell behind for good, whatever failed in it:   *)
(* the lease is aborted, or nobody pings it any more and it expires. *)
ShellsVanish == \A r \in Runs : vm[r] = "shell" ~> vm[r] # "shell"

(***************************************************************************)
(* What LeaseOutlivesUpload and QuietEnd rest on.                          *)
(***************************************************************************)

Fresh(r) == thread[r] = "off" /\ ~stopped[r] /\ fails[r] = 0

(* How far a call has come with its lease and its thread. *)
InStep ==
    /\ \A r \in Runs : r > run => lease[r] = "none"
    /\ \A r \in Runs : lease[r] \in {"none", "initializing"} => Fresh(r)
    /\ pc \in {"find", "import"} => lease[run] = "none"
    /\ pc = "waitReady" =>
         /\ Fresh(run)
         /\ lease[run] = "ready" => life[run] = LeaseLife
    /\ pc \in {"upload", "stop", "join", "complete", "abort"}
         => lease[run] \notin {"none", "initializing"}
    /\ pc \in {"find", "import", "waitReady", "upload"} => ~failing
    /\ pc = "upload" \/ (pc = "stop" /\ ~failing) => thread[run] # "off" /\ ~stopped[run]
    /\ pc = "join" => stopped[run]

Cycle == Interval + PingMax

(* How long ago the host heard of the thread, by where the thread is. *)
Paced(r) ==
    LET age == LeaseLife - life[r]
        worst == PingMax + fails[r] * Cycle
    IN /\ thread[r] = "check" => age <= worst + Interval
       /\ thread[r] = "ping" => nap[r] <= PingMax /\ age <= worst + Interval + nap[r]
       /\ thread[r] = "pinged" => nap[r] <= PingMax /\ age <= nap[r] /\ fails[r] = 0
       /\ thread[r] = "nap" => nap[r] <= Interval /\ age <= worst + (Interval - nap[r])

Pacing == \A r \in Runs : lease[r] = "ready" => Paced(r)

(* The longest a lease waits for a ping as long as the thread runs. *)
Oldest == PingMax + (MaxPingFails + 1) * Cycle

(* No ping is sent any more while the completion is on its way. *)
Granted ==
    LET age == LeaseLife - life[run]
    IN /\ pc \in {"upload", "stop", "join", "complete"} /\ ~failing => lease[run] = "ready"
       /\ pc \in {"upload", "stop", "join"} /\ ~failing => age <= Oldest
       /\ pc = "complete" => ~failing /\ left <= CompleteMax /\ age <= Oldest + (CompleteMax - left)

LeaseInv == InStep /\ Pacing /\ (PingsSuffice => Granted)

(* A join that waits longer than a ping lasts sees the end of the thread. *)
QuietInv ==
    PingMax < JoinMax =>
        /\ pc = "join" =>
             /\ stopped[run] /\ left <= JoinMax
             /\ thread[run] \in {"ping", "pinged"}
                  => JoinMax - left <= nap[run] /\ nap[run] <= PingMax
             /\ thread[run] \in {"check", "nap"} => left > 0
        /\ pc \in {"complete", "abort"} => thread[run] = "off"
        /\ \A r \in Runs : thread[r] \in {"ping", "pinged"} => nap[r] <= PingMax

(***************************************************************************)
(* What PushesAsPromised rests on: there is at most one VM of the name,    *)
(* and its lease and its task say what it is.                              *)
(***************************************************************************)

VMIs(r) ==
    /\ lease[r] \in {"initializing", "ready"} <=> vm[r] = "shell"
    /\ lease[r] = "done" <=> vm[r] \in {"off", "on"}
    /\ task[r] \in {"none", "running", "error"} => vm[r] # "on"
    /\ task[r] = "success" => vm[r] = "on"
    /\ task[r] # "none" => lease[r] = "done" /\ PowerOn
    /\ r > run => lease[r] = "none"

PushInv ==
    /\ \A r, s \in Runs : vm[r] # "none" /\ vm[s] # "none" => r = s
    /\ \A r \in Runs : VMIs(r)
    /\ pc \in {"find", "import"} => lease[run] = "none"
    /\ pc \in {"waitReady", "upload", "stop", "join", "complete", "abort"}
         => task[run] = "none" /\ lease[run] # "none"
    /\ pc \in {"powerOn", "waitPower"} => lease[run] = "done" /\ PowerOn
    /\ pc = "powerOn" => task[run] = "none"
    /\ pc = "waitPower" => task[run] # "none"
    /\ pc # "idle" => outcome = "none"
    /\ pc \notin {"idle", "find", "import"} => \A r \in Runs \ {run} : vm[r] = "none"
=============================================================================
