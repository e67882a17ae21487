------------------------------ MODULE VlcmImage ------------------------------
(***************************************************************************)
(* Patching the ESXi hosts of a cluster through its desired image: the     *)
(* states of states/vcf_esxi_vlcm.py in the order in which                 *)
(* vcf-infra/cluster-vlcm/cluster-vlcm.sls requires them of each other,    *)
(* the requests of clients/esxi_vlcm.py and wait_for_task of               *)
(* utils/vcenter.py.                                                       *)
(*                                                                         *)
(* Each of Runs is one highstate.  They run at the same time (two minions, *)
(* two operators) or one after the other (a highstate and its repetition); *)
(* the cluster works on its tasks whether anyone still waits for them or   *)
(* not, and an administrator has drafts of his own.                        *)
(***************************************************************************)
EXTENDS Naturals, FiniteSets

CONSTANTS
    Runs,         \* the highstates
    Concurrent,   \* whether they may overlap
    Versions,     \* base image versions
    Wanted,       \* those an image_spec asks for
    DraftIds,     \* bound: the drafts alive at one time
    DraftActions, \* values of existing_draft_action
    Validate, Commit, Test, Sync, \* values of these options; Sync: depot_synced is used
    Budget,       \* task_timeout, in polls
    Faults,       \* what may go wrong: "conn", "lost", "task", "vanish"
    MaxMoves,     \* bound: what the administrator does
    None

FaultSet == {"conn", "lost", "task", "vanish"}

ASSUME VlcmAssumption ==
    /\ Concurrent \in BOOLEAN
    /\ DraftActions \subseteq {"fail", "reuse", "delete"}
    /\ \A choice \in {Validate, Commit, Test, Sync} : choice \subseteq BOOLEAN
    /\ Wanted \subseteq Versions
    /\ Budget \in Nat /\ MaxMoves \in Nat
    /\ Faults \subseteq FaultSet
    /\ None \notin Versions \cup DraftIds

VARIABLES
    pc,        \* per highstate: the request it makes next
    opt,       \* per highstate: its arguments
    draft,     \* per highstate: draft_id, or existing_id
    kind,      \* per highstate: what its last request with a task was for
    task,      \* per highstate: what became of that task
    left,      \* per highstate: polls before the deadline of that wait
    seen,      \* per highstate: seen_task of wait_for_task
    outcome,   \* per highstate: "ok" or "failed" once it is over
    committed, \* the desired image of the cluster
    drafts,    \* the drafts of the cluster and their versions
    depot,     \* a depot at the location is configured
    policy,    \* the apply policy is the one asked for
    hosts,     \* the version the hosts run, None while they differ
    target,    \* per highstate: the image its remediation applies
    moves,     \* what the administrator has done so far
    moved,     \* history: an image was committed since the highstate read it
    landed     \* history: the version its own commit made the desired one

callVars == <<pc, opt, draft, left, seen, outcome>>
taskVars == <<kind, task>>
clusterVars == <<committed, drafts, depot, policy, hosts, target, moved, landed>>
vars == <<callVars, taskVars, clusterVars, moves>>

Kinds == {"depot", "sync", "validate", "commit", "scan", "check", "stage", "apply"}
PCs == Kinds \cup {"new", "depots", "current", "drafts", "reuse", "delete", "import",
                   "relist", "verify", "policy", "setPolicy", "wait", "done"}
Options == [want : Wanted, action : DraftActions, validate : Validate,
            commit : Commit, test : Test, sync : Sync]
OptVersions == Versions \cup {None}

WorksOnDraft(r) ==
    \/ pc[r] \in {"reuse", "delete", "validate", "commit"}
    \/ pc[r] = "wait" /\ kind[r] = "validate"
    \/ kind[r] = "commit" /\ task[r] = "running"

TypeOK ==
    /\ pc \in [Runs -> PCs]
    /\ opt \in [Runs -> Options \cup {None}]
    /\ \A r \in Runs : pc[r] # "new" => opt[r] \in Options
    /\ draft \in [Runs -> DraftIds \cup {None}]
    /\ \A r \in Runs : WorksOnDraft(r) => draft[r] \in DraftIds
    /\ kind \in [Runs -> Kinds]
    /\ task \in [Runs -> {"none", "running", "succeeded", "sync", "failed", "gone"}]
    /\ left \in [Runs -> 0..Budget]
    /\ seen \in [Runs -> BOOLEAN]
    /\ outcome \in [Runs -> {"none", "ok", "failed"}]
    /\ committed \in Versions
    /\ drafts \in [DraftIds -> OptVersions]
    /\ depot \in BOOLEAN /\ policy \in BOOLEAN
    /\ hosts \in OptVersions
    /\ target \in [Runs -> OptVersions]
    /\ moves \in 0..MaxMoves
    /\ moved \in [Runs -> BOOLEAN]
    /\ landed \in [Runs -> OptVersions]

(***************************************************************************)
(* The cluster.                                                            *)
(***************************************************************************)

Present == {d \in DraftIds : drafts[d] # None}

(* The id of a new draft is nobody's. *)
FreshIds == {d \in DraftIds \ Present : \A r \in Runs : draft[r] # d}

(* A commit makes the version of its draft the desired one and uses it up. *)
Lands(d) ==
    /\ committed' = drafts[d]
    /\ drafts' = [drafts EXCEPT ![d] = None]
    /\ moved' = [s \in Runs |-> TRUE]

(* What a request of kind k brings about when it succeeds. *)
Effect(r, k) ==
    /\ depot' = (depot \/ k = "depot")
    /\ hosts' = IF k = "apply" THEN target'[r] ELSE hosts
    /\ IF k = "commit"
       THEN /\ draft[r] \in Present /\ Lands(draft[r])
            /\ landed' = [landed EXCEPT ![r] = committed']
       ELSE UNCHANGED <<committed, drafts, moved, landed>>

(* A remediation that stops half way leaves the hosts it did not get to. *)
Halfway(r, k) ==
    /\ hosts' \in IF k = "apply" /\ hosts # target[r] THEN {hosts, None} ELSE {hosts}
    /\ UNCHANGED <<committed, drafts, depot, moved, landed>>

(* A task ends, or the service forgets it. *)
TaskEnds(r) ==
    /\ task[r] = "running"
    /\ UNCHANGED <<callVars, kind, policy, target, moves>>
    /\ \E end \in {"succeeded", "failed", "gone"} :
         /\ task' = [task EXCEPT ![r] = end]
         /\ \/ end = "succeeded" /\ Effect(r, kind[r])
            \/ /\ \/ end = "failed" /\ "task" \in Faults
                  \/ end = "failed" /\ kind[r] = "commit" /\ draft[r] \notin Present
                  \/ end = "gone" /\ "vanish" \in Faults
               /\ Halfway(r, kind[r])

Running(s, k) == kind[s] = k /\ task[s] = "running"

Busy == \E s \in Runs : Running(s, "apply")

(* A remediation is refused while another runs, a draft must be there. *)
Accepts(r, k) ==
    /\ k = "apply" => ~Busy
    /\ k \in {"validate", "commit"} => draft[r] \in Present

(* Somebody makes, changes or deletes the depot, with the execution module. *)
DepotByHand == depot' = ~depot /\ UNCHANGED <<drafts, committed, moved>>

(* The administrator makes, edits, deletes or commits a draft, or a depot. *)
Meddle ==
    /\ moves < MaxMoves /\ moves' = moves + 1
    /\ \/ /\ \E d \in Present \cup FreshIds, v \in OptVersions : drafts' = [drafts EXCEPT ![d] = v]
          /\ UNCHANGED <<depot, committed, moved>>
       \/ \E d \in Present : Lands(d) /\ UNCHANGED depot
       \/ DepotByHand
    /\ UNCHANGED <<callVars, taskVars, policy, hosts, target, landed>>

(***************************************************************************)
(* A highstate: its states, and what makes one of them fail.               *)
(***************************************************************************)

Conn == "conn" \in Faults
Lost == "lost" \in Faults

Goto(r, label) == pc' = [pc EXCEPT ![r] = label] /\ UNCHANGED outcome

(* _fail: no later state has its requisites. *)
Fail(r) == pc' = [pc EXCEPT ![r] = "done"] /\ outcome' = [outcome EXCEPT ![r] = "failed"]

Succeed(r) == pc' = [pc EXCEPT ![r] = "done"] /\ outcome' = [outcome EXCEPT ![r] = "ok"]

Start(r) ==
    /\ pc[r] = "new"
    /\ Concurrent \/ \A s \in Runs : pc[s] \in {"new", "done"}
    /\ \E o \in Options : opt' = [opt EXCEPT ![r] = o]
    /\ Goto(r, "depots")
    /\ UNCHANGED <<draft, left, seen, taskVars, clusterVars, moves>>

(* Where a highstate goes when the task of kind k, or its dry run, is over. *)
After(r, k) ==
    CASE k = "depot" -> IF opt[r].sync THEN "sync" ELSE "current"
      [] k = "sync" -> "current"
      [] k = "validate" -> IF opt[r].commit THEN "commit" ELSE "policy"
      [] k = "commit" -> "verify"
      [] k = "scan" -> "check"
      [] k = "check" -> "stage"
      [] k = "stage" -> "apply"

Proceed(r, k) == IF k = "apply" THEN Succeed(r) ELSE Goto(r, After(r, k))

Refused(r, k) ==
    /\ pc[r] = k /\ ~opt[r].test
    /\ Conn \/ ~Accepts(r, k)
    /\ Fail(r)
    /\ UNCHANGED <<opt, draft, left, seen, taskVars, clusterVars, moves>>

(* A request with vmw-task=true: it is answered with a task, or it is done *)
(* at once and the answer names no task; either way its answer may be lost. *)
Request(r, k) ==
    /\ pc[r] = k /\ ~opt[r].test
    /\ Accepts(r, k)
    /\ kind' = [kind EXCEPT ![r] = k]
    /\ target' = IF k = "apply" THEN [target EXCEPT ![r] = committed] ELSE target
    /\ \/ /\ task' = [task EXCEPT ![r] = "running"]
          /\ UNCHANGED <<committed, drafts, depot, hosts, moved, landed>>
       \/ task' = [task EXCEPT ![r] = "sync"] /\ Effect(r, k)
    /\ \/ /\ Goto(r, "wait")
          /\ left' = [left EXCEPT ![r] = Budget]
          /\ seen' = [seen EXCEPT ![r] = FALSE]
       \/ Lost /\ Fail(r) /\ UNCHANGED <<left, seen>>
    /\ UNCHANGED <<opt, draft, policy, moves>>

(* depot_synced and _lifecycle_step and remediated stop at a dry run. *)
DryRun(r, k) ==
    /\ pc[r] = k /\ opt[r].test
    /\ Proceed(r, k)
    /\ UNCHANGED <<opt, draft, left, seen, taskVars, clusterVars, moves>>

(* depot_sync of a vCenter that has no such action. *)
SyncSkipped(r) ==
    /\ pc[r] = "sync" /\ ~opt[r].test
    /\ Goto(r, "current")
    /\ UNCHANGED <<opt, draft, left, seen, taskVars, clusterVars, moves>>

(* wait_for_task is left, with its counters. *)
Leave(r) == left' = [left EXCEPT ![r] = 0] /\ seen' = [seen EXCEPT ![r] = FALSE]

(* A slip: the deadline is looked at after the sleep. *)
PollsLate(r) ==
    /\ task[r] = "running"
    /\ left' = [left EXCEPT ![r] = @ - 1]
    /\ seen' = [seen EXCEPT ![r] = TRUE]
    /\ UNCHANGED <<pc, outcome, task>>

(* The task is unfinished; polls and sleeps take what time they take. *)
Polls(r) ==
    /\ left[r] > 0 /\ task[r] = "running"
    /\ \E n \in 0..(left[r] - 1) : left' = [left EXCEPT ![r] = n]
    /\ seen' = [seen EXCEPT ![r] = TRUE]
    /\ UNCHANGED <<pc, outcome, task>>

(* A slip: every end of the task is a good one. *)
WaitAnyEnd(r) ==
    /\ pc[r] = "wait"
    /\ \/ /\ left[r] = 0 \/ Conn
          /\ Fail(r) /\ Leave(r)
          /\ UNCHANGED task
       \/ /\ left[r] > 0 /\ task[r] # "running"
          /\ Proceed(r, kind[r]) /\ Leave(r)
          /\ task' = [task EXCEPT ![r] = "none"]
       \/ Polls(r)
    /\ UNCHANGED <<opt, draft, kind, clusterVars, moves>>

(* A slip: the deadline is never looked at. *)
WaitUndated(r) ==
    /\ pc[r] = "wait"
    /\ \/ task[r] \in {"failed", "gone"} /\ Fail(r) /\ Leave(r) /\ UNCHANGED task
       \/ /\ task[r] \in {"succeeded", "sync"}
          /\ Proceed(r, kind[r]) /\ Leave(r)
          /\ task' = [task EXCEPT ![r] = "none"]
       \/ task[r] = "running" /\ UNCHANGED <<pc, outcome, task, left, seen>>
    /\ UNCHANGED <<opt, draft, kind, clusterVars, moves>>

(* One round of wait_for_task: at the deadline it raises, and a task that  *)
(* is not there was done at once, unless it has been seen before. *)
Wait(r) ==
    LET missing == task[r] \in {"sync", "gone"}
    IN /\ pc[r] = "wait"
       /\ \/ /\ left[r] = 0 \/ Conn \/ task[r] = "failed" \/ (missing /\ seen[r])
             /\ Fail(r) /\ Leave(r)
             /\ UNCHANGED task
          \/ /\ left[r] > 0
             /\ task[r] = "succeeded" \/ (missing /\ ~seen[r])
             /\ Proceed(r, kind[r]) /\ Leave(r)
             /\ task' = [task EXCEPT ![r] = "none"]
          \/ Polls(r)
       /\ UNCHANGED <<opt, draft, kind, clusterVars, moves>>

(***************************************************************************)
(* depot_configured.                                                       *)
(***************************************************************************)

depot_configured(r) ==
    /\ pc[r] = "depots"
    /\ \/ Conn /\ Fail(r)
       \/ Goto(r, IF depot \/ opt[r].test THEN After(r, "depot") ELSE "depot")
    /\ UNCHANGED <<opt, draft, left, seen, taskVars, clusterVars, moves>>

(* An online depot is made by the request, and no task is waited for. *)
online_depot_create(r) ==
    /\ pc[r] = "depot" /\ ~opt[r].test
    /\ depot' = TRUE
    /\ Goto(r, After(r, "depot")) \/ (Lost /\ Fail(r))
    /\ UNCHANGED <<opt, draft, left, seen, taskVars, committed, drafts, policy, hosts, target,
                   moves, moved, landed>>

(***************************************************************************)
(* image_configured.                                                       *)
(***************************************************************************)

(* moved starts anew when the desired image is read and acted upon. *)
Reads(r) == moved' = [moved EXCEPT ![r] = FALSE]

desired_image_get(r) ==
    /\ pc[r] = "current"
    /\ \/ Conn /\ Fail(r) /\ UNCHANGED moved
       \/ Reads(r) /\ Goto(r, IF committed = opt[r].want THEN "policy" ELSE "drafts")
    /\ UNCHANGED <<opt, draft, left, seen, taskVars, committed, drafts, depot, policy,
                   hosts, target, moves, landed>>

(* A draft exists, and the action says what is done about it. *)
Existing(r) ==
    CASE opt[r].action = "reuse" -> "reuse"
      [] opt[r].action = "delete" -> IF opt[r].test THEN "policy" ELSE "delete"
      [] opt[r].action = "fail" -> "done"

(* The first draft is any of them: the answer is in the order of the server. *)
drafts_list(r) ==
    /\ pc[r] = "drafts"
    /\ \/ Conn /\ Fail(r) /\ UNCHANGED draft
       \/ /\ Present = {}
          /\ Goto(r, IF opt[r].test THEN "policy" ELSE "import")
          /\ UNCHANGED draft
       \/ \E d \in Present :
            /\ draft' = [draft EXCEPT ![r] = d]
            /\ IF Existing(r) = "done" THEN Fail(r) ELSE Goto(r, Existing(r))
    /\ UNCHANGED <<opt, left, seen, taskVars, clusterVars, moves>>

(* What is done with the draft once there is one. *)
WithDraft(r) == IF opt[r].validate THEN "validate" ELSE After(r, "validate")

draft_get(r) ==
    /\ pc[r] = "reuse"
    /\ \/ /\ Conn \/ drafts[draft[r]] # opt[r].want
          /\ Fail(r)
       \/ /\ drafts[draft[r]] = opt[r].want
          /\ Goto(r, IF opt[r].test THEN "policy" ELSE WithDraft(r))
    /\ UNCHANGED <<opt, draft, left, seen, taskVars, clusterVars, moves>>

(* A slip: a deletion that fails is ignored. *)
DeleteUnchecked(r) ==
    /\ pc[r] = "delete"
    /\ \/ drafts' = [drafts EXCEPT ![draft[r]] = None]
       \/ Conn /\ UNCHANGED drafts
    /\ Goto(r, "import")
    /\ UNCHANGED <<opt, draft, left, seen, taskVars, committed, depot, policy, hosts, target,
                   moves, moved, landed>>

(* A draft may go while it is being committed, or be kept until then. *)
draft_delete(r) ==
    /\ pc[r] = "delete"
    /\ \/ /\ \/ Conn \/ draft[r] \notin Present
             \/ \E s \in Runs : Running(s, "commit") /\ draft[s] = draft[r]
          /\ Fail(r)
          /\ UNCHANGED drafts
       \/ /\ draft[r] \in Present
          /\ drafts' = [drafts EXCEPT ![draft[r]] = None]
          /\ Goto(r, "import") \/ (Lost /\ Fail(r))
    /\ UNCHANGED <<opt, draft, left, seen, taskVars, committed, depot, policy, hosts, target,
                   moves, moved, landed>>

draft_import_software_spec(r) ==
    /\ pc[r] = "import"
    /\ \/ /\ Conn \/ FreshIds = {}
          /\ Fail(r)
          /\ UNCHANGED drafts
       \/ /\ \E d \in FreshIds : drafts' = [drafts EXCEPT ![d] = opt[r].want]
          /\ Goto(r, "relist") \/ (Lost /\ Fail(r))
    /\ UNCHANGED <<opt, draft, left, seen, taskVars, committed, depot, policy, hosts, target,
                   moves, moved, landed>>

(* The id of the new draft is not taken from the answer of the import but  *)
(* from the list of all drafts. *)
Relist(r) ==
    /\ pc[r] = "relist"
    /\ \/ /\ Conn \/ Present = {}
          /\ Fail(r) /\ UNCHANGED draft
       \/ \E d \in Present : draft' = [draft EXCEPT ![r] = d] /\ Goto(r, WithDraft(r))
    /\ UNCHANGED <<opt, left, seen, taskVars, clusterVars, moves>>

(* A slip: a commit that reports success is believed. *)
VerifyNothing(r) ==
    /\ pc[r] = "verify"
    /\ Reads(r) /\ Goto(r, "policy")
    /\ UNCHANGED <<opt, draft, left, seen, taskVars, committed, drafts, depot, policy,
                   hosts, target, moves, landed>>

(* The desired image is read again after the commit. *)
Verify(r) ==
    /\ pc[r] = "verify"
    /\ \/ /\ Conn \/ committed # opt[r].want
          /\ Fail(r) /\ UNCHANGED moved
       \/ /\ committed = opt[r].want
          /\ Reads(r) /\ Goto(r, "policy")
    /\ UNCHANGED <<opt, draft, left, seen, taskVars, committed, drafts, depot, policy,
                   hosts, target, moves, landed>>

(***************************************************************************)
(* policy_configured.                                                      *)
(***************************************************************************)

apply_policy_get(r) ==
    /\ pc[r] = "policy"
    /\ \/ Conn /\ Fail(r)
       \/ Goto(r, IF policy \/ opt[r].test THEN "scan" ELSE "setPolicy")
    /\ UNCHANGED <<opt, draft, left, seen, taskVars, clusterVars, moves>>

apply_policy_set(r) ==
    /\ pc[r] = "setPolicy"
    /\ \/ Conn /\ Fail(r) /\ UNCHANGED policy
       \/ policy' = TRUE /\ (Goto(r, "scan") \/ (Lost /\ Fail(r)))
    /\ UNCHANGED <<opt, draft, left, seen, taskVars, committed, drafts, depot, hosts, target,
                   moves, moved, landed>>

(***************************************************************************)
(* Specification.                                                          *)
(***************************************************************************)

Init ==
    /\ pc = [r \in Runs |-> "new"] /\ opt = [r \in Runs |-> None]
    /\ draft = [r \in Runs |-> None] /\ kind = [r \in Runs |-> "depot"]
    /\ left = [r \in Runs |-> 0] /\ seen = [r \in Runs |-> FALSE]
    /\ outcome = [r \in Runs |-> "none"]
    /\ committed \in Versions /\ hosts = committed
    /\ drafts = [d \in DraftIds |-> None]
    /\ depot = FALSE /\ policy = FALSE
    /\ task = [r \in Runs |-> "none"]
    /\ target = [r \in Runs |-> None]
    /\ moves = 0 /\ moved = [r \in Runs |-> FALSE] /\ landed = [r \in Runs |-> None]

Image(r) ==
    \/ desired_image_get(r) \/ drafts_list(r) \/ draft_get(r) \/ draft_delete(r)
    \/ draft_import_software_spec(r) \/ Relist(r) \/ Verify(r)

Steps(r) ==
    \/ depot_configured(r) \/ online_depot_create(r) \/ SyncSkipped(r) \/ Image(r)
    \/ apply_policy_get(r) \/ apply_policy_set(r)
    \/ (\E k \in Kinds : Refused(r, k) \/ Request(r, k) \/ DryRun(r, k))
    \/ Wait(r)

Cluster == \E r \in Runs : TaskEnds(r)

Next == (\E r \in Runs : Start(r) \/ Steps(r)) \/ Cluster \/ Meddle

Spec == Init /\ [][Next]_vars

(* Each highstate goes on; nothing is assumed of the cluster. *)
FairSpec == Spec /\ \A r \in Runs : WF_vars(Steps(r))

(***************************************************************************)
(* Properties.                                                             *)
(***************************************************************************)

AfterImage(r) ==
    \/ pc[r] \in {"policy", "setPolicy", "scan", "check", "stage", "apply"}
    \/ pc[r] = "wait" /\ kind[r] \in {"scan", "check", "stage", "apply"}
    \/ outcome[r] = "ok"

(* Whoever else has drafts on the cluster, and whichever draft the call    *)
(* took for its own: no state after image_configured works on another      *)
(* image than the one asked for, until somebody commits a new one. *)
ImageIsAsAsked ==
    \A r \in Runs :
        AfterImage(r) /\ opt[r].commit /\ ~opt[r].test /\ ~moved[r]
            => committed = opt[r].want

(* "After commit, re-reads the desired image": a highstate that succeeds   *)
(* leaves hosts that run the version it was asked for, and they keep it    *)
(* through the remediations of others until a new image is committed; only *)
(* a task that is forgotten before it is looked for is mistaken for done.  *)
HostsAreAsAsked ==
    "vanish" \notin Faults =>
        \A r \in Runs :
            outcome[r] = "ok" /\ opt[r].commit /\ ~opt[r].test /\ ~moved[r]
                => hosts = opt[r].want

(* However often highstates fail and are repeated, one after the other,    *)
(* they leave at most one draft behind, beside those an administrator made. *)
DraftsDoNotPileUp == ~Concurrent => Cardinality(Present) <= 1 + moves

(* Every highstate comes to an end, whatever the cluster does. *)
RunsEnd == \A r \in Runs : pc[r] # "new" ~> pc[r] = "done"

(* "Ensure the cluster's desired image matches image_spec": what a call    *)
(* commits is the image it was asked for. *)
CommitsItsImage == \A r \in Runs : landed[r] # None => landed[r] = opt[r].want

(***************************************************************************)
(* What HostsAreAsAsked rests on: once the remediation of a highstate is   *)
(* accepted, every remediation still running applies the same image.       *)
(***************************************************************************)

Remediates(r) == outcome[r] = "ok" \/ (pc[r] = "wait" /\ kind[r] = "apply")

Binding(r) == opt[r].commit /\ ~opt[r].test /\ ~moved[r]

OkIsDone == \A r \in Runs : outcome[r] = "ok" => pc[r] = "done"

Bound ==
    /\ \A r \in Runs : task[r] # "gone"
    /\ \A r \in Runs : Remediates(r) /\ Binding(r) =>
         /\ \A s \in Runs : Running(s, "apply") => target[s] = opt[r].want
         /\ outcome[r] = "ok" \/ task[r] \in {"succeeded", "sync"} => hosts = opt[r].want

HostsInv == OkIsDone /\ ImageIsAsAsked /\ ("vanish" \notin Faults => Bound)

(***************************************************************************)
(* What DraftsDoNotPileUp rests on: a highstate that is about to import a  *)
(* draft has seen none since, or has deleted one.                          *)
(***************************************************************************)

AtWork(r) == pc[r] \notin {"new", "done"}

DraftsInv ==
    /\ IsFiniteSet(Present)
    /\ ~Concurrent =>
         /\ \A r, s \in Runs : AtWork(r) /\ AtWork(s) => r = s
         /\ Cardinality(Present) <= 1 + moves
         /\ \A r \in Runs : pc[r] = "import" => Cardinality(Present) <= moves

(***************************************************************************)
(* What RunsEnd rests on.                                                  *)
(***************************************************************************)

(* Where a request is in the order of the states, counted from the end. *)
Rank(label) ==
    CASE label = "apply" -> 1
      [] label = "stage" -> 2
      [] label = "check" -> 3
      [] label = "scan" -> 4
      [] label = "setPolicy" -> 5
      [] label = "policy" -> 6
      [] label = "verify" -> 7
      [] label = "commit" -> 8
      [] label = "validate" -> 9
      [] label \in {"reuse", "relist"} -> 10
      [] label = "import" -> 11
      [] label = "delete" -> 12
      [] label = "drafts" -> 13
      [] label = "current" -> 14
      [] label = "sync" -> 15
      [] label = "depot" -> 16
      [] label = "depots" -> 17
      [] OTHER -> 0

(* A request, with the polls for its task, takes less than one round. *)
Round == Budget + 2

(* The most requests a highstate that has begun can still make. *)
Ahead(r) ==
    IF pc[r] = "wait" THEN (Rank(kind[r]) - 1) * Round + left[r] + 1 ELSE Rank(pc[r]) * Round

(* Every request brings its highstate nearer to the end, and whatever the  *)
(* other ones, the cluster and the administrator do, they take none back.  *)
RequestsRunOut ==
    [][\A r \in Runs :
         /\ Steps(r) => Ahead(r)' < Ahead(r)
         /\ pc[r] # "new" /\ ~Steps(r) => Ahead(r)' = Ahead(r)]_vars
=============================================================================
