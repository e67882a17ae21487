--------------------------- MODULE VlcmImageProofs ---------------------------
(***************************************************************************)
(* Proofs about VlcmImage, for any number of highstates, versions, drafts, *)
(* options and faults: the types, that no state works on another image     *)
(* than the one asked for, that the hosts run it in the end, and that      *)
(* highstates one after the other leave no drafts behind.                  *)
(***************************************************************************)
EXTENDS VlcmImage, FiniteSetTheorems, TLAPS

(***************************************************************************)
(* Types.                                                                  *)
(***************************************************************************)

LEMMA NoneIsNone == None \notin Versions /\ None \notin DraftIds
BY VlcmAssumption

LEMMA AfterTypes ==
    ASSUME TypeOK, NEW r \in Runs, NEW k \in Kinds \ {"apply"}
    PROVE  /\ After(r, k) \in PCs \ {"new", "wait", "reuse", "delete", "validate"}
           /\ After(r, k) = "commit" => k = "validate"
BY DEF After, PCs, Kinds

LEMMA ProceedTypes ==
    ASSUME TypeOK, NEW r \in Runs, NEW k \in Kinds, Proceed(r, k)
    PROVE  /\ pc' \in [Runs -> PCs] /\ outcome' \in [Runs -> {"none", "ok", "failed"}]
           /\ \A s \in Runs \ {r} : pc'[s] = pc[s]
           /\ pc'[r] \in PCs \ {"new", "wait", "reuse", "delete", "validate"}
           /\ pc'[r] = "commit" => k = "validate"
<1>1. CASE k = "apply"
  BY <1>1 DEF Proceed, Succeed, TypeOK, PCs, Kinds
<1>2. CASE k # "apply"
  BY <1>2, AfterTypes DEF Proceed, Goto, TypeOK
<1> QED BY <1>1, <1>2

LEMMA EffectTypes ==
    ASSUME TypeOK, NEW r \in Runs, NEW k \in Kinds, target' \in [Runs -> OptVersions], Effect(r, k)
    PROVE  /\ committed' \in Versions /\ drafts' \in [DraftIds -> OptVersions]
           /\ depot' \in BOOLEAN /\ hosts' \in OptVersions
           /\ moved' \in [Runs -> BOOLEAN] /\ landed' \in [Runs -> OptVersions]
<1>1. CASE k = "commit"
  <2>1. draft[r] \in DraftIds /\ drafts[draft[r]] # None
    BY <1>1 DEF Effect, Present
  <2>2. committed' \in Versions
    BY <1>1, <2>1 DEF Effect, Lands, TypeOK, OptVersions
  <2>3. drafts' \in [DraftIds -> OptVersions] /\ landed' \in [Runs -> OptVersions]
    BY <1>1, <2>1, <2>2 DEF Effect, Lands, TypeOK, OptVersions
  <2>4. moved' \in [Runs -> BOOLEAN]
    <3>1. moved' = [s \in Runs |-> TRUE]
      BY <1>1 DEF Effect, Lands
    <3> QED BY <3>1, Zenon
  <2>5. depot' \in BOOLEAN
    BY Zenon DEF Effect
  <2>6. hosts' \in OptVersions
    BY <1>1 DEF Effect, TypeOK
  <2> QED BY <2>2, <2>3, <2>4, <2>5, <2>6
<1>2. CASE k # "commit"
  <2>1. UNCHANGED <<committed, drafts, moved, landed>> /\ hosts' \in OptVersions
    BY <1>2 DEF Effect, TypeOK
  <2>2. depot' \in BOOLEAN
    BY Zenon DEF Effect
  <2> QED BY <2>1, <2>2 DEF TypeOK
<1> QED BY <1>1, <1>2

LEMMA RequestTypes ==
    ASSUME TypeOK, NEW r \in Runs, NEW k \in Kinds, Request(r, k)
    PROVE  TypeOK'
<1>1. target' \in [Runs -> OptVersions]
  BY DEF Request, TypeOK, OptVersions
<1>2. /\ committed' \in Versions /\ drafts' \in [DraftIds -> OptVersions]
      /\ depot' \in BOOLEAN /\ hosts' \in OptVersions
      /\ moved' \in [Runs -> BOOLEAN] /\ landed' \in [Runs -> OptVersions]
  <2>1. CASE Effect(r, k)
    BY <2>1, <1>1, EffectTypes
  <2>2. CASE UNCHANGED <<committed, drafts, depot, hosts, moved, landed>>
    BY <2>2 DEF TypeOK
  <2> QED BY <2>1, <2>2 DEF Request
<1>3. /\ pc' \in [Runs -> PCs] /\ outcome' \in [Runs -> {"none", "ok", "failed"}]
      /\ kind' = [kind EXCEPT ![r] = k]
      /\ task' \in [Runs -> {"none", "running", "succeeded", "sync", "failed", "gone"}]
      /\ \A s \in Runs \ {r} : pc'[s] = pc[s] /\ task'[s] = task[s]
      /\ pc'[r] \in {"wait", "done"} /\ pc[r] = k
  BY DEF Request, Goto, Fail, TypeOK, PCs
<1>4. left' \in [Runs -> 0..Budget]
  BY VlcmAssumption DEF Request, TypeOK
<1>5. seen' \in [Runs -> BOOLEAN]
  <2>1. CASE seen' = [seen EXCEPT ![r] = FALSE]
    BY <2>1, Zenon DEF TypeOK
  <2>2. CASE UNCHANGED seen
    BY <2>2 DEF TypeOK
  <2> QED BY <2>1, <2>2 DEF Request
<1>6. UNCHANGED <<opt, draft, policy, moves>>
  BY DEF Request
<1>7. \A s \in Runs : pc'[s] # "new" => opt'[s] \in Options
  BY <1>3, <1>6 DEF TypeOK, Kinds
<1>8. \A s \in Runs : WorksOnDraft(s)' => draft'[s] \in DraftIds
  BY <1>3, <1>6 DEF TypeOK, WorksOnDraft
<1> QED BY <1>1, <1>2, <1>3, <1>4, <1>5, <1>6, <1>7, <1>8 DEF TypeOK

LEMMA DryRunTypes ==
    ASSUME TypeOK, NEW r \in Runs, NEW k \in Kinds, Refused(r, k) \/ DryRun(r, k)
    PROVE  TypeOK'
<1> USE DEF TypeOK, WorksOnDraft, taskVars, clusterVars
<1>1. CASE Refused(r, k)
  BY <1>1 DEF Refused, Fail, PCs, Kinds
<1>2. CASE DryRun(r, k)
  <2>1. Proceed(r, k) /\ UNCHANGED <<opt, draft, left, seen, taskVars, clusterVars, moves>>
    BY <1>2 DEF DryRun
  <2>2. pc[r] = k
    BY <1>2 DEF DryRun
  <2>3. /\ pc' \in [Runs -> PCs] /\ outcome' \in [Runs -> {"none", "ok", "failed"}]
        /\ \A s \in Runs \ {r} : pc'[s] = pc[s]
        /\ pc'[r] \in PCs \ {"new", "wait", "reuse", "delete", "validate"}
        /\ pc'[r] = "commit" => k = "validate"
    BY <2>1, ProceedTypes
  <2> QED BY <2>1, <2>2, <2>3 DEF Kinds
<1> QED BY <1>1, <1>2

LEMMA WaitTypes ==
    ASSUME TypeOK, NEW r \in Runs, Wait(r)
    PROVE  TypeOK'
<1> DEFINE Rest == <<opt, draft, kind, clusterVars, moves>>
<1>1. /\ pc[r] = "wait" /\ UNCHANGED Rest
      /\ \/ Fail(r) /\ Leave(r) /\ UNCHANGED task
         \/ Proceed(r, kind[r]) /\ Leave(r) /\ task' = [task EXCEPT ![r] = "none"]
         \/ Polls(r)
  BY DEF Wait
<1>2. CASE Polls(r)
  <2>1. left' \in [Runs -> 0..Budget]
    BY <1>2, VlcmAssumption DEF Polls, TypeOK
  <2>2. seen' \in [Runs -> BOOLEAN]
    BY <1>2, Zenon DEF Polls, TypeOK
  <2> QED BY <1>1, <1>2, <2>1, <2>2 DEF Polls, TypeOK, WorksOnDraft, clusterVars
<1>3. CASE Leave(r)
  <2>1. left' \in [Runs -> 0..Budget]
    BY <1>3, VlcmAssumption DEF Leave, TypeOK
  <2>2. seen' \in [Runs -> BOOLEAN]
    BY <1>3, Zenon DEF Leave, TypeOK
  <2>3. CASE Fail(r) /\ UNCHANGED task
    BY <1>1, <2>1, <2>2, <2>3 DEF Fail, PCs, TypeOK, WorksOnDraft, clusterVars
  <2>4. CASE Proceed(r, kind[r]) /\ task' = [task EXCEPT ![r] = "none"]
    <3>1. kind[r] \in Kinds
      BY DEF TypeOK
    <3>2. /\ pc' \in [Runs -> PCs] /\ outcome' \in [Runs -> {"none", "ok", "failed"}]
          /\ \A s \in Runs \ {r} : pc'[s] = pc[s]
          /\ pc'[r] \in PCs \ {"new", "wait", "reuse", "delete", "validate"}
          /\ pc'[r] = "commit" => kind[r] = "validate"
      BY <2>4, <3>1, ProceedTypes
    <3> QED BY <1>1, <2>1, <2>2, <2>4, <3>2 DEF TypeOK, WorksOnDraft, clusterVars
  <2> QED BY <1>1, <1>2, <2>3, <2>4
<1> QED BY <1>1, <1>2, <1>3

LEMMA MeddleTypes ==
    ASSUME TypeOK, Meddle
    PROVE  TypeOK'
<1>1. moves' \in 0..MaxMoves
  BY VlcmAssumption DEF Meddle, TypeOK
<1>2. UNCHANGED <<callVars, taskVars, policy, hosts, target, landed>>
  BY DEF Meddle
<1>d. depot' \in BOOLEAN
  <2>1. CASE DepotByHand
    BY <2>1, Zenon DEF DepotByHand
  <2>2. CASE UNCHANGED depot
    BY <2>2 DEF TypeOK
  <2> QED BY <2>1, <2>2 DEF Meddle
<1>3. committed' \in Versions /\ drafts' \in [DraftIds -> OptVersions] /\ moved' \in [Runs -> BOOLEAN]
  <2>1. CASE UNCHANGED <<committed, moved>> /\ \E d \in Present \cup FreshIds, v \in OptVersions :
                 drafts' = [drafts EXCEPT ![d] = v]
    BY <2>1 DEF TypeOK, Present, FreshIds
  <2>2. ASSUME NEW d \in Present, Lands(d)
        PROVE  /\ committed' \in Versions /\ drafts' \in [DraftIds -> OptVersions]
               /\ moved' \in [Runs -> BOOLEAN]
    <3>1. committed' \in Versions /\ drafts' \in [DraftIds -> OptVersions]
      BY <2>2 DEF Lands, Present, TypeOK, OptVersions
    <3>2. moved' = [s \in Runs |-> TRUE]
      BY <2>2 DEF Lands
    <3>3. moved' \in [Runs -> BOOLEAN]
      BY <3>2, Zenon
    <3> QED BY <3>1, <3>3
  <2>3. CASE DepotByHand
    BY <2>3 DEF DepotByHand, TypeOK
  <2> QED BY <2>1, <2>2, <2>3 DEF Meddle
<1> QED BY <1>1, <1>2, <1>d, <1>3 DEF TypeOK, WorksOnDraft, callVars, taskVars

LEMMA TaskTypes ==
    ASSUME TypeOK, NEW r \in Runs, TaskEnds(r)
    PROVE  TypeOK'
<1>1. PICK end \in {"succeeded", "failed", "gone"} :
         /\ task' = [task EXCEPT ![r] = end]
         /\ Effect(r, kind[r]) \/ Halfway(r, kind[r])
  BY DEF TaskEnds
<1>2. task[r] = "running" /\ UNCHANGED <<callVars, kind, policy, target, moves>>
  BY DEF TaskEnds
<1>3. /\ committed' \in Versions /\ drafts' \in [DraftIds -> OptVersions]
      /\ depot' \in BOOLEAN /\ hosts' \in OptVersions
      /\ moved' \in [Runs -> BOOLEAN] /\ landed' \in [Runs -> OptVersions]
  <2>1. CASE Effect(r, kind[r])
    BY <1>2, <2>1, EffectTypes DEF TypeOK
  <2>2. CASE Halfway(r, kind[r])
    BY <2>2 DEF Halfway, TypeOK, OptVersions
  <2> QED BY <1>1, <2>1, <2>2
<1> QED BY <1>1, <1>2, <1>3 DEF TypeOK, WorksOnDraft, callVars

(* A step of a highstate that changes nothing but where it is, which draft *)
(* it works on and the policy. *)
LEMMA MoveTypes ==
    ASSUME TypeOK, NEW r \in Runs, pc[r] # "new",
           \E l \in PCs \ {"wait"} : pc' = [pc EXCEPT ![r] = l],
           outcome' \in [Runs -> {"none", "ok", "failed"}],
           \/ UNCHANGED draft
           \/ \E d \in DraftIds : draft' = [draft EXCEPT ![r] = d],
           pc'[r] \in {"reuse", "delete", "validate", "commit"} => draft'[r] \in DraftIds,
           policy' \in BOOLEAN,
           UNCHANGED <<opt, left, seen, taskVars, committed, drafts, depot, hosts, target, moves,
                       moved, landed>>
    PROVE  TypeOK'
<1>1. /\ pc' \in [Runs -> PCs] /\ pc'[r] # "wait"
      /\ \A s \in Runs \ {r} : pc'[s] = pc[s]
  BY DEF TypeOK
<1>2. draft' \in [Runs -> DraftIds \cup {None}]
  BY DEF TypeOK
<1>3. \A s \in Runs : draft'[s] = draft[s] \/ draft'[s] \in DraftIds
  BY DEF TypeOK
<1>4. \A s \in Runs \ {r} : draft'[s] = draft[s]
  BY DEF TypeOK
<1>5. ASSUME NEW s \in Runs, WorksOnDraft(s)'
      PROVE  draft'[s] \in DraftIds
  <2>1. CASE s = r
    BY <1>1, <1>3, <1>5, <2>1 DEF TypeOK, WorksOnDraft, taskVars
  <2>2. CASE s # r
    BY <1>1, <1>4, <1>5, <2>2 DEF TypeOK, WorksOnDraft, taskVars
  <2> QED BY <2>1, <2>2
<1> QED BY <1>1, <1>2, <1>5 DEF TypeOK, taskVars

LEMMA FailTypes ==
    ASSUME TypeOK, NEW r \in Runs, Fail(r), pc[r] # "new",
           UNCHANGED <<opt, draft, left, seen, taskVars, committed, drafts, depot, policy, hosts,
                       target, moves, moved, landed>>
    PROVE  TypeOK'
BY DEF Fail, TypeOK, WorksOnDraft, taskVars, PCs

LEMMA ImageTypes ==
    ASSUME TypeOK, NEW r \in Runs, Image(r)
    PROVE  TypeOK'
<1> USE DEF TypeOK, WorksOnDraft, Goto, Fail, PCs, Kinds, taskVars, clusterVars
<1>1. CASE desired_image_get(r) \/ Verify(r)
  <2>1. /\ Reads(r) \/ UNCHANGED moved
        /\ UNCHANGED <<opt, draft, left, seen, taskVars, committed, drafts, depot, policy,
                       hosts, target, moves, landed>>
    BY <1>1 DEF desired_image_get, Verify
  <2>2. moved' \in [Runs -> BOOLEAN]
    BY <2>1, Zenon DEF Reads
  <2>3. /\ pc' \in [Runs -> PCs] /\ outcome' \in [Runs -> {"none", "ok", "failed"}]
        /\ \A s \in Runs \ {r} : pc'[s] = pc[s]
        /\ pc[r] # "new" /\ pc'[r] \in {"policy", "drafts", "done"}
    BY <1>1 DEF desired_image_get, Verify
  <2> QED BY <2>1, <2>2, <2>3
<1>2. CASE drafts_list(r)
  <2>1. CASE Fail(r) /\ UNCHANGED draft
    BY <1>2, <2>1, FailTypes DEF drafts_list
  <2>2. CASE UNCHANGED draft /\ \E l \in {"policy", "import"} : Goto(r, l)
    BY <1>2, <2>2, MoveTypes DEF drafts_list
  <2>3. ASSUME NEW d \in Present, draft' = [draft EXCEPT ![r] = d],
               IF Existing(r) = "done" THEN Fail(r) ELSE Goto(r, Existing(r))
        PROVE  TypeOK'
    <3>1. d \in DraftIds /\ Existing(r) \in {"reuse", "delete", "policy", "done"}
      <4>1. opt[r] \in Options
        BY <1>2 DEF drafts_list
      <4>2. opt[r].action \in {"fail", "reuse", "delete"}
        BY <4>1, VlcmAssumption DEF Options
      <4> QED BY <4>2 DEF Existing, Present
    <3>2. \E l \in {"reuse", "delete", "policy", "done"} : pc' = [pc EXCEPT ![r] = l]
      BY <2>3, <3>1
    <3>3. outcome' \in [Runs -> {"none", "ok", "failed"}]
      BY <2>3
    <3>4. pc[r] # "new" /\ UNCHANGED <<opt, left, seen, taskVars, clusterVars, moves>>
      BY <1>2 DEF drafts_list
    <3> QED BY <2>3, <3>1, <3>2, <3>3, <3>4, MoveTypes
  <2> QED BY <1>2, <2>1, <2>2, <2>3 DEF drafts_list
<1>3. CASE draft_get(r)
  <2>1. CASE Fail(r)
    BY <1>3, <2>1, FailTypes DEF draft_get
  <2>2. CASE ~Fail(r)
    <3>1. \E l \in {"validate", "commit", "policy"} : Goto(r, l)
      BY <1>3, <2>2 DEF draft_get, WithDraft, After
    <3> QED BY <1>3, <3>1 DEF draft_get
  <2> QED BY <2>1, <2>2
<1>4. CASE draft_delete(r)
  BY <1>4 DEF draft_delete, OptVersions
<1>5. CASE draft_import_software_spec(r)
  <2>1. opt[r] \in Options /\ opt[r].want \in Versions
    BY <1>5, VlcmAssumption DEF draft_import_software_spec, Options
  <2> QED BY <1>5, <2>1 DEF draft_import_software_spec, OptVersions, FreshIds
<1>6. CASE Relist(r)
  <2>1. CASE Fail(r) /\ UNCHANGED draft
    BY <1>6, <2>1, FailTypes DEF Relist
  <2>2. ASSUME NEW d \in Present, draft' = [draft EXCEPT ![r] = d], Goto(r, WithDraft(r))
        PROVE  TypeOK'
    <3>1. d \in DraftIds /\ \E l \in {"validate", "commit", "policy"} : Goto(r, l)
      BY <2>2 DEF WithDraft, After, Present
    <3> QED BY <1>6, <2>2, <3>1 DEF Relist
  <2> QED BY <1>6, <2>1, <2>2 DEF Relist
<1> QED BY <1>1, <1>2, <1>3, <1>4, <1>5, <1>6 DEF Image

LEMMA StepTypes ==
    ASSUME TypeOK, NEW r \in Runs, Start(r) \/ Steps(r)
    PROVE  TypeOK'
<1> USE DEF TypeOK, WorksOnDraft, Goto, Fail, PCs, Kinds, taskVars, clusterVars
<1>1. CASE Start(r)
  BY <1>1 DEF Start
<1>2. CASE depot_configured(r)
  <2>1. CASE Fail(r)
    BY <1>2, <2>1, FailTypes DEF depot_configured
  <2>2. CASE ~Fail(r)
    <3>1. \E l \in {"depot", "sync", "current"} : Goto(r, l)
      BY <1>2, <2>2 DEF depot_configured, After
    <3> QED BY <1>2, <3>1 DEF depot_configured, Kinds
  <2> QED BY <2>1, <2>2
<1>3. CASE SyncSkipped(r)
  BY <1>3 DEF SyncSkipped
<1>4. CASE apply_policy_get(r)
  <2>1. CASE Fail(r)
    BY <1>4, <2>1, FailTypes DEF apply_policy_get
  <2>2. CASE ~Fail(r)
    <3>1. \E l \in {"scan", "setPolicy"} : Goto(r, l)
      BY <1>4, <2>2 DEF apply_policy_get
    <3> QED BY <1>4, <3>1 DEF apply_policy_get, Kinds
  <2> QED BY <2>1, <2>2
<1>5. CASE apply_policy_set(r)
  <2>1. policy' \in BOOLEAN
    BY <1>5, Zenon DEF apply_policy_set
  <2>2. \E l \in {"scan", "done"} : pc' = [pc EXCEPT ![r] = l]
    BY <1>5 DEF apply_policy_set
  <2>3. outcome' \in [Runs -> {"none", "ok", "failed"}]
    BY <1>5 DEF apply_policy_set
  <2> QED BY <1>5, <2>1, <2>2, <2>3 DEF apply_policy_set, Kinds
<1>6. CASE online_depot_create(r)
  <2>1. depot' \in BOOLEAN
    BY <1>6, Zenon DEF online_depot_create
  <2>2. \E l \in {"sync", "current", "done"} : pc' = [pc EXCEPT ![r] = l]
    BY <1>6 DEF online_depot_create, After
  <2>3. outcome' \in [Runs -> {"none", "ok", "failed"}]
    BY <1>6 DEF online_depot_create
  <2>4. UNCHANGED <<opt, draft, left, seen, task, kind, target, committed, drafts, policy, hosts,
                    moves, moved, landed>>
    BY <1>6 DEF online_depot_create
  <2>5. \A s \in Runs : pc'[s] = pc[s] \/ (s = r /\ pc'[s] \in {"sync", "current", "done"})
    BY <2>2
  <2>6. \A s \in Runs : /\ pc'[s] # "new" => pc[s] # "new"
                        /\ WorksOnDraft(s)' => WorksOnDraft(s)
    BY <1>6, <2>4, <2>5 DEF online_depot_create
  <2>7. pc' \in [Runs -> PCs]
    BY <2>2
  <2> QED BY <2>1, <2>3, <2>4, <2>6, <2>7
<1> QED
  BY <1>1, <1>2, <1>3, <1>4, <1>5, <1>6, ImageTypes, RequestTypes, DryRunTypes, WaitTypes DEF Steps

(* The types of the highstates, their tasks and the cluster hold for any   *)
(* options, budgets and faults. *)
THEOREM VlcmTypes == Spec => []TypeOK
<1>1. Init => TypeOK
  <2> SUFFICES ASSUME Init
               PROVE  TypeOK
    OBVIOUS
  <2>1. /\ seen \in [Runs -> BOOLEAN] /\ moved \in [Runs -> BOOLEAN]
        /\ depot \in BOOLEAN /\ policy \in BOOLEAN
    BY Zenon DEF Init
  <2>2. /\ pc \in [Runs -> PCs] /\ opt \in [Runs -> Options \cup {None}]
        /\ \A r \in Runs : pc[r] = "new" /\ task[r] = "none"
    BY DEF Init, PCs
  <2>3. /\ draft \in [Runs -> DraftIds \cup {None}] /\ kind \in [Runs -> Kinds]
        /\ left \in [Runs -> 0..Budget] /\ moves \in 0..MaxMoves
    BY VlcmAssumption DEF Init, Kinds
  <2>4. /\ task \in [Runs -> {"none", "running", "succeeded", "sync", "failed", "gone"}]
        /\ outcome \in [Runs -> {"none", "ok", "failed"}]
        /\ committed \in Versions /\ hosts \in OptVersions
        /\ drafts \in [DraftIds -> OptVersions]
        /\ target \in [Runs -> OptVersions] /\ landed \in [Runs -> OptVersions]
    BY DEF Init, OptVersions
  <2> QED BY <2>1, <2>2, <2>3, <2>4 DEF TypeOK, WorksOnDraft
<1>2. TypeOK /\ [Next]_vars => TypeOK'
  <2> SUFFICES ASSUME TypeOK, [Next]_vars
               PROVE  TypeOK'
    OBVIOUS
  <2>1. CASE UNCHANGED vars
    BY <2>1 DEF TypeOK, WorksOnDraft, vars, callVars, taskVars, clusterVars
  <2> QED BY <2>1, StepTypes, TaskTypes, MeddleTypes DEF Next, Cluster
<1> QED BY <1>1, <1>2, PTL DEF Spec

(***************************************************************************)
(* The image, and the hosts.                                               *)
(***************************************************************************)

(* A step of a highstate that leaves the image, the hosts and all tasks as *)
(* they are. *)
LEMMA MoveKeeps ==
    ASSUME TypeOK, HostsInv, NEW r \in Runs, NEW l \in PCs \ {"wait"}, pc[r] # "done",
           pc' = [pc EXCEPT ![r] = l],
           \A s \in Runs \ {r} : outcome'[s] = outcome[s],
           outcome'[r] = "ok" => l = "done" /\ opt[r].test,
           l \in {"policy", "setPolicy", "scan", "check", "stage", "apply"}
             => AfterImage(r) \/ opt[r].test \/ ~opt[r].commit,
           UNCHANGED <<opt, taskVars, committed, hosts, target, moved>>
    PROVE  HostsInv'
<1>1. outcome[r] # "ok" /\ \A s \in Runs \ {r} : pc'[s] = pc[s]
  BY DEF HostsInv, OkIsDone, TypeOK
<1>2. pc'[r] = l
  BY DEF TypeOK
<1>3. OkIsDone'
  BY <1>1, <1>2 DEF HostsInv, OkIsDone
<1>4. ImageIsAsAsked'
  BY <1>1, <1>2 DEF HostsInv, ImageIsAsAsked, AfterImage, taskVars
<1>5. Bound => Bound'
  BY <1>1, <1>2 DEF Bound, Remediates, Binding, Running, taskVars
<1> QED BY <1>3, <1>4, <1>5 DEF HostsInv

LEMMA FailKeeps ==
    ASSUME TypeOK, HostsInv, NEW r \in Runs, pc[r] # "done", Fail(r),
           UNCHANGED <<opt, taskVars, committed, hosts, target, moved>>
    PROVE  HostsInv'
<1>1. \A s \in Runs \ {r} : outcome'[s] = outcome[s]
  BY DEF Fail, TypeOK
<1>2. outcome'[r] = "failed"
  BY DEF Fail, TypeOK
<1> QED BY <1>1, <1>2, MoveKeeps DEF Fail, PCs

(* The image was read: the highstate is in step with it, or it goes on to  *)
(* change it. *)
LEMMA ReadKeeps ==
    ASSUME TypeOK, HostsInv, NEW r \in Runs, desired_image_get(r) \/ Verify(r)
    PROVE  HostsInv'
<1>1. pc[r] \in {"current", "verify"} /\ UNCHANGED <<opt, taskVars, committed, hosts, target>>
  BY DEF desired_image_get, Verify
<1>2. CASE Fail(r) /\ UNCHANGED moved
  BY <1>1, <1>2, FailKeeps
<1>3. CASE ~(Fail(r) /\ UNCHANGED moved)
  <2>0. Reads(r) /\ UNCHANGED outcome
    BY <1>3 DEF desired_image_get, Verify, Goto
  <2>1. /\ \A s \in Runs \ {r} : pc'[s] = pc[s] /\ moved'[s] = moved[s]
        /\ pc'[r] = "drafts" \/ (pc'[r] = "policy" /\ committed = opt[r].want)
    BY <1>3 DEF desired_image_get, Verify, Reads, Goto, TypeOK
  <2>2. outcome[r] # "ok"
    BY <1>1 DEF HostsInv, OkIsDone
  <2>3. OkIsDone'
    BY <2>0, <2>1, <2>2 DEF HostsInv, OkIsDone
  <2>4. ImageIsAsAsked'
    BY <1>1, <2>0, <2>1, <2>2 DEF HostsInv, ImageIsAsAsked, AfterImage, taskVars
  <2>5. Bound => Bound'
    BY <1>1, <2>0, <2>1, <2>2 DEF Bound, Remediates, Binding, Running, taskVars
  <2> QED BY <2>3, <2>4, <2>5 DEF HostsInv
<1> QED BY <1>2, <1>3

LEMMA StartKeeps ==
    ASSUME TypeOK, HostsInv, NEW r \in Runs, Start(r)
    PROVE  HostsInv'
<1>1. /\ pc[r] = "new" /\ pc'[r] = "depots"
      /\ \A s \in Runs \ {r} : pc'[s] = pc[s] /\ opt'[s] = opt[s]
      /\ UNCHANGED <<outcome, taskVars, committed, hosts, target, moved>>
  BY DEF Start, Goto, TypeOK, clusterVars
<1>2. outcome[r] # "ok"
  BY <1>1 DEF HostsInv, OkIsDone
<1>3. OkIsDone'
  BY <1>1, <1>2 DEF HostsInv, OkIsDone
<1>4. ImageIsAsAsked'
  BY <1>1, <1>2 DEF HostsInv, ImageIsAsAsked, AfterImage, taskVars
<1>5. Bound => Bound'
  BY <1>1, <1>2 DEF Bound, Remediates, Binding, Running, taskVars
<1> QED BY <1>3, <1>4, <1>5 DEF HostsInv

(* Where an effect or its failure lets the image and the hosts be. *)
LEMMA EffectKeeps ==
    ASSUME NEW r \in Runs, NEW k \in Kinds, Effect(r, k)
    PROVE  /\ (\A s \in Runs : moved'[s]) \/ UNCHANGED <<committed, moved>>
           /\ hosts' = IF k = "apply" THEN target'[r] ELSE hosts
BY DEF Effect, Lands

(* Whoever has the image it asked for has it from before, or sees it move. *)
LEMMA RequestKeeps ==
    ASSUME TypeOK, HostsInv, NEW r \in Runs, NEW k \in Kinds, Request(r, k)
    PROVE  HostsInv'
<1>1. /\ pc[r] = k /\ ~opt[r].test /\ UNCHANGED opt /\ kind' = [kind EXCEPT ![r] = k]
      /\ pc'[r] \in {"wait", "done"} /\ outcome'[r] \in {outcome[r], "failed"}
      /\ task'[r] \in {"running", "sync"}
      /\ \A s \in Runs \ {r} : pc'[s] = pc[s] /\ outcome'[s] = outcome[s] /\ task'[s] = task[s]
      /\ k = "apply" => ~Busy
  BY DEF Request, Goto, Fail, TypeOK, Accepts
<1>2. pc'[r] = "done" => outcome'[r] = "failed"
  BY DEF Request, Goto, Fail, TypeOK
<1>3. /\ (\A s \in Runs : moved'[s]) \/ UNCHANGED <<committed, moved>>
      /\ hosts' = IF k = "apply" /\ task'[r] = "sync" THEN target'[r] ELSE hosts
  BY EffectKeeps DEF Request, TypeOK
<1>4. target' = IF k = "apply" THEN [target EXCEPT ![r] = committed] ELSE target
  BY DEF Request
<1>5. outcome[r] # "ok"
  BY <1>1 DEF HostsInv, OkIsDone, Kinds
<1>6. \A s \in Runs \ {r} : kind'[s] = kind[s]
  BY <1>1 DEF TypeOK
<1>7. kind'[r] = k
  BY <1>1 DEF TypeOK
<1>8. OkIsDone'
  BY <1>1, <1>5 DEF HostsInv, OkIsDone
<1>9. ImageIsAsAsked'
  <2> SUFFICES ASSUME NEW s \in Runs, AfterImage(s)', (opt[s].commit)', (~opt[s].test)', ~moved'[s]
               PROVE  committed' = opt'[s].want
    BY DEF ImageIsAsAsked
  <2>1. UNCHANGED <<committed, moved>>
    BY <1>3
  <2>2. AfterImage(s)
    <3>1. CASE s = r
      BY <1>1, <1>2, <1>5, <1>7, <3>1 DEF AfterImage
    <3>2. CASE s # r
      BY <1>1, <1>6, <3>2 DEF AfterImage
    <3> QED BY <3>1, <3>2
  <2> QED BY <1>1, <2>1, <2>2 DEF HostsInv, ImageIsAsAsked
<1>10. ASSUME Bound
       PROVE  Bound'
  <2>1. \A s \in Runs : task'[s] # "gone"
    BY <1>1, <1>10 DEF Bound
  <2>2. ASSUME NEW s \in Runs, Remediates(s)', Binding(s)'
        PROVE  /\ \A q \in Runs : Running(q, "apply")' => target'[q] = opt'[s].want
               /\ outcome'[s] = "ok" \/ task'[s] \in {"succeeded", "sync"} => hosts' = opt'[s].want
    <3>1. UNCHANGED <<committed, moved, opt>> /\ Binding(s)
      BY <1>1, <1>3, <2>2 DEF Binding
    <3>2. s # r => Remediates(s) /\ outcome'[s] = outcome[s] /\ task'[s] = task[s]
      BY <1>1, <1>6, <2>2 DEF Remediates
    <3>3. s = r => k = "apply"
      BY <1>1, <1>5, <1>7, <2>2 DEF Remediates
    <3>4. committed = opt[s].want
      <4>1. AfterImage(s)
        BY <1>1, <3>2, <3>3 DEF AfterImage, Remediates
      <4> QED BY <3>1, <4>1 DEF HostsInv, ImageIsAsAsked, Binding
    <3>5. CASE k = "apply"
      <4>1. \A q \in Runs : Running(q, "apply")' => q = r
        BY <1>1, <1>6, <3>5 DEF Busy, Running
      <4>2. target'[r] = committed
        BY <1>4, <3>5 DEF TypeOK
      <4>3. s # r /\ (outcome'[s] = "ok" \/ task'[s] \in {"succeeded", "sync"}) => hosts = opt[s].want
        BY <1>10, <3>1, <3>2 DEF Bound
      <4> QED BY <1>1, <1>3, <1>5, <3>1, <3>4, <3>5, <4>1, <4>2, <4>3
    <3>6. CASE k # "apply"
      <4>1. \A q \in Runs : Running(q, "apply")' => Running(q, "apply")
        BY <1>1, <1>6, <1>7, <3>6 DEF Running
      <4> QED BY <1>3, <1>4, <1>10, <3>1, <3>2, <3>3, <3>6, <4>1 DEF Bound
    <3> QED BY <3>5, <3>6
  <2> QED BY <2>1, <2>2 DEF Bound
<1> QED BY <1>8, <1>9, <1>10 DEF HostsInv

LEMMA TaskKeeps ==
    ASSUME TypeOK, HostsInv, NEW r \in Runs, TaskEnds(r)
    PROVE  HostsInv'
<1>1. task[r] = "running" /\ UNCHANGED <<callVars, kind, target>> /\ kind[r] \in Kinds
  BY DEF TaskEnds, TypeOK
<1>2. PICK end \in {"succeeded", "failed", "gone"} :
         /\ task' = [task EXCEPT ![r] = end]
         /\ \/ end = "succeeded" /\ Effect(r, kind[r])
            \/ /\ end = "failed" \/ (end = "gone" /\ "vanish" \in Faults)
               /\ Halfway(r, kind[r])
  BY DEF TaskEnds
<1>3. (\A s \in Runs : moved'[s]) \/ UNCHANGED <<committed, moved>>
  BY <1>1, <1>2, EffectKeeps DEF Halfway
<1>4. OkIsDone'
  BY <1>1 DEF HostsInv, OkIsDone, callVars
<1>5. ImageIsAsAsked'
  BY <1>1, <1>3 DEF HostsInv, ImageIsAsAsked, AfterImage, callVars
<1>6. ASSUME Bound, "vanish" \notin Faults
      PROVE  Bound'
  <2>1. task'[r] = end /\ end # "gone" /\ \A s \in Runs \ {r} : task'[s] = task[s]
    BY <1>2, <1>6 DEF TypeOK
  <2>2. \A q \in Runs : Running(q, "apply")' => Running(q, "apply")
    BY <1>1, <2>1 DEF Running
  <2>3. ASSUME NEW s \in Runs, Remediates(s)', Binding(s)'
        PROVE  /\ \A q \in Runs : Running(q, "apply")' => target'[q] = opt'[s].want
               /\ outcome'[s] = "ok" \/ task'[s] \in {"succeeded", "sync"} => hosts' = opt'[s].want
    <3>1. Remediates(s) /\ Binding(s) /\ UNCHANGED <<opt, outcome>>
      BY <1>1, <1>3, <2>3 DEF Remediates, Binding, callVars
    <3>2. \A q \in Runs : Running(q, "apply") => target[q] = opt[s].want
      BY <1>6, <3>1 DEF Bound
    <3>3. outcome[s] = "ok" \/ task[s] \in {"succeeded", "sync"} => hosts = opt[s].want
      BY <1>6, <3>1 DEF Bound
    <3>4. CASE kind[r] = "apply"
      <4>1. target[r] = opt[s].want
        BY <1>1, <3>2, <3>4 DEF Running
      <4>2. CASE end = "succeeded"
        <5>1. hosts' = target'[r]
          BY <1>1, <1>2, <3>4, <4>2, EffectKeeps
        <5> QED BY <1>1, <2>2, <3>1, <3>2, <4>1, <5>1
      <4>3. CASE end # "succeeded"
        <5>1. hosts = target[r] => hosts' = hosts
          BY <1>2, <3>4, <4>3 DEF Halfway
        <5>2. outcome'[s] = "ok" \/ task'[s] \in {"succeeded", "sync"} => hosts = opt[s].want
          BY <2>1, <3>1, <3>3, <4>3
        <5> QED BY <1>1, <2>2, <3>1, <3>2, <4>1, <5>1, <5>2
      <4> QED BY <4>2, <4>3
    <3>5. CASE kind[r] # "apply"
      <4>1. hosts' = hosts
        BY <1>1, <1>2, <3>5, EffectKeeps DEF Halfway
      <4>2. task'[s] \in {"succeeded", "sync"} => outcome[s] = "ok" \/ task[s] = task'[s]
        BY <2>1, <3>1, <3>5 DEF Remediates
      <4> QED BY <1>1, <2>2, <3>1, <3>2, <3>3, <4>1, <4>2
    <3> QED BY <3>4, <3>5
  <2>4. \A s \in Runs : task'[s] # "gone"
    BY <1>6, <2>1 DEF Bound
  <2> QED BY <2>3, <2>4 DEF Bound
<1> QED BY <1>4, <1>5, <1>6 DEF HostsInv

LEMMA MeddleKeeps ==
    ASSUME TypeOK, HostsInv, Meddle
    PROVE  HostsInv'
<1>1. /\ UNCHANGED <<callVars, taskVars, hosts, target>>
      /\ (\A s \in Runs : moved'[s]) \/ UNCHANGED <<committed, moved>>
  BY DEF Meddle, Lands, DepotByHand
<1> QED
  BY <1>1 DEF HostsInv, OkIsDone, ImageIsAsAsked, AfterImage, Bound, Remediates, Binding,
              Running, callVars, taskVars

LEMMA WaitKeeps ==
    ASSUME TypeOK, HostsInv, NEW r \in Runs, Wait(r)
    PROVE  HostsInv'
<1>1. pc[r] = "wait" /\ UNCHANGED <<opt, kind, committed, hosts, target, moved>> /\ kind[r] \in Kinds
  BY DEF Wait, clusterVars, TypeOK
<1>2. outcome[r] # "ok"
  BY <1>1 DEF HostsInv, OkIsDone
<1>3. CASE Fail(r) /\ UNCHANGED task
  BY <1>1, <1>3, FailKeeps DEF taskVars
<1>4. CASE Polls(r)
  BY <1>1, <1>4 DEF Polls, HostsInv, OkIsDone, ImageIsAsAsked, AfterImage, Bound, Remediates,
                    Binding, Running
<1>5. ASSUME Proceed(r, kind[r]), task' = [task EXCEPT ![r] = "none"],
             task[r] \in {"succeeded", "sync", "gone"}
      PROVE  HostsInv'
  <2>1. /\ \A s \in Runs \ {r} : pc'[s] = pc[s] /\ outcome'[s] = outcome[s] /\ task'[s] = task[s]
        /\ task'[r] = "none"
        /\ pc'[r] = IF kind[r] = "apply" THEN "done" ELSE After(r, kind[r])
        /\ outcome'[r] = IF kind[r] = "apply" THEN "ok" ELSE outcome[r]
    BY <1>5 DEF Proceed, Goto, Succeed, TypeOK
  <2>2. OkIsDone'
    BY <1>2, <2>1 DEF HostsInv, OkIsDone
  <2>3. AfterImage(r)' => AfterImage(r) \/ ~opt[r].commit
    BY <1>1, <1>2, <2>1 DEF AfterImage, After, Kinds
  <2>4. ImageIsAsAsked'
    BY <1>1, <2>1, <2>3 DEF HostsInv, ImageIsAsAsked, AfterImage
  <2>5. ASSUME Bound
        PROVE  Bound'
    <3>1. \A q \in Runs : Running(q, "apply")' => Running(q, "apply")
      BY <1>1, <2>1 DEF Running
    <3>2. kind[r] # "apply" => After(r, kind[r]) # "wait"
      BY <1>1, AfterTypes
    <3>3. Remediates(r)' => Remediates(r) /\ task[r] \in {"succeeded", "sync"}
      BY <1>1, <1>2, <1>5, <2>1, <2>5, <3>2 DEF Remediates, Bound
    <3> QED BY <1>1, <2>1, <2>5, <3>1, <3>3 DEF Bound, Remediates, Binding
  <2> QED BY <2>2, <2>4, <2>5 DEF HostsInv
<1> QED BY <1>3, <1>4, <1>5 DEF Wait

LEMMA StepKeeps ==
    ASSUME TypeOK, HostsInv, NEW r \in Runs, Steps(r)
    PROVE  HostsInv'
<1> USE DEF Goto, Fail, clusterVars
<1>1. CASE depot_configured(r)
  <2>1. CASE Fail(r)
    BY <1>1, <2>1, FailKeeps DEF depot_configured
  <2>2. CASE ~Fail(r)
    <3>1. \E l \in {"depot", "sync", "current"} : pc' = [pc EXCEPT ![r] = l]
      BY <1>1, <2>2 DEF depot_configured, After
    <3> QED BY <1>1, <2>2, <3>1, MoveKeeps DEF depot_configured, PCs, Kinds, HostsInv, OkIsDone
  <2> QED BY <2>1, <2>2
<1>2. CASE SyncSkipped(r)
  BY <1>2, MoveKeeps DEF SyncSkipped, PCs, HostsInv, OkIsDone
<1>3. CASE Image(r)
  <2>1. CASE desired_image_get(r) \/ Verify(r)
    BY <2>1, ReadKeeps
  <2>2. CASE drafts_list(r)
    <3>1. CASE Fail(r)
      BY <2>2, <3>1, FailKeeps DEF drafts_list
    <3>2. CASE ~Fail(r)
      <4>1. opt[r].action \in {"fail", "reuse", "delete"}
        <5>1. opt[r] \in Options
          BY <2>2 DEF drafts_list, TypeOK
        <5> QED BY <5>1, VlcmAssumption DEF Options
      <4>2. PICK l \in {"policy", "import", "reuse", "delete"} :
              pc' = [pc EXCEPT ![r] = l] /\ (l = "policy" => opt[r].test) /\ UNCHANGED outcome
        BY <2>2, <3>2, <4>1 DEF drafts_list, Existing
      <4>3. outcome[r] # "ok"
        BY <2>2 DEF drafts_list, HostsInv, OkIsDone
      <4>4. l \in PCs \ {"wait"}
        BY DEF PCs
      <4>5. pc[r] = "drafts" /\ UNCHANGED <<opt, taskVars, committed, hosts, target, moved>>
        BY <2>2 DEF drafts_list
      <4> QED BY <4>2, <4>3, <4>4, <4>5, MoveKeeps
    <3> QED BY <3>1, <3>2
  <2>3. CASE draft_get(r) \/ Relist(r)
    <3>1. CASE Fail(r)
      BY <2>3, <3>1, FailKeeps DEF draft_get, Relist
    <3>2. CASE ~Fail(r)
      <4>1. PICK l \in {"policy", "validate", "commit"} :
              /\ pc' = [pc EXCEPT ![r] = l] /\ UNCHANGED outcome
              /\ l = "policy" => opt[r].test \/ ~opt[r].commit
        BY <2>3, <3>2 DEF draft_get, Relist, WithDraft, After
      <4>2. outcome[r] # "ok"
        BY <2>3 DEF draft_get, Relist, HostsInv, OkIsDone
      <4>3. l \in PCs \ {"wait"}
        BY DEF PCs, Kinds
      <4>4. pc[r] # "done" /\ UNCHANGED <<opt, taskVars, committed, hosts, target, moved>>
        BY <2>3 DEF draft_get, Relist
      <4> QED BY <4>1, <4>2, <4>3, <4>4, MoveKeeps
    <3> QED BY <3>1, <3>2
  <2>4. CASE draft_delete(r) \/ draft_import_software_spec(r)
    <3>1. CASE Fail(r)
      BY <2>4, <3>1, FailKeeps DEF draft_delete, draft_import_software_spec
    <3>2. CASE ~Fail(r)
      BY <2>4, <3>2, MoveKeeps
      DEF draft_delete, draft_import_software_spec, PCs, HostsInv, OkIsDone
    <3> QED BY <3>1, <3>2
  <2> QED BY <1>3, <2>1, <2>2, <2>3, <2>4 DEF Image
<1>4. CASE apply_policy_get(r) \/ apply_policy_set(r)
  <2>1. CASE Fail(r)
    BY <1>4, <2>1, FailKeeps DEF apply_policy_get, apply_policy_set
  <2>2. CASE ~Fail(r)
    <3>1. AfterImage(r)
      BY <1>4 DEF apply_policy_get, apply_policy_set, AfterImage
    <3>2. \E l \in {"scan", "setPolicy"} : pc' = [pc EXCEPT ![r] = l]
      BY <1>4, <2>2 DEF apply_policy_get, apply_policy_set
    <3> QED BY <1>4, <2>2, <3>1, <3>2, MoveKeeps
            DEF apply_policy_get, apply_policy_set, PCs, Kinds, HostsInv, OkIsDone
  <2> QED BY <2>1, <2>2
<1>5. ASSUME NEW k \in Kinds, Refused(r, k) \/ Request(r, k) \/ DryRun(r, k)
      PROVE  HostsInv'
  <2>1. CASE Refused(r, k)
    BY <2>1, FailKeeps DEF Refused, Kinds
  <2>2. CASE DryRun(r, k)
    <3>1. pc[r] = k /\ opt[r].test /\ Proceed(r, k)
          /\ UNCHANGED <<opt, taskVars, committed, hosts, target, moved>>
      BY <2>2 DEF DryRun
    <3>2. CASE k = "apply"
      BY <3>1, <3>2, MoveKeeps DEF Proceed, Succeed, PCs, TypeOK
    <3>3. CASE k # "apply"
      <4>1. After(r, k) \in PCs \ {"wait"}
        BY <3>3, AfterTypes
      <4>2. pc' = [pc EXCEPT ![r] = After(r, k)] /\ UNCHANGED outcome
        BY <3>1, <3>3 DEF Proceed
      <4>3. outcome[r] # "ok"
        BY <3>1 DEF Kinds, HostsInv, OkIsDone
      <4> QED BY <3>1, <4>1, <4>2, <4>3, MoveKeeps DEF Kinds
    <3> QED BY <3>2, <3>3
  <2> QED BY <1>5, <2>1, <2>2, RequestKeeps
<1>6. CASE online_depot_create(r)
  <2>1. CASE Fail(r)
    BY <1>6, <2>1, FailKeeps DEF online_depot_create
  <2>2. CASE ~Fail(r)
    <3>1. PICK l \in {"sync", "current"} : pc' = [pc EXCEPT ![r] = l] /\ UNCHANGED outcome
      BY <1>6, <2>2 DEF online_depot_create, After
    <3>2. outcome[r] # "ok"
      BY <1>6 DEF online_depot_create, HostsInv, OkIsDone
    <3>3. l \in PCs \ {"wait"} /\ pc[r] = "depot"
      BY <1>6, <3>1 DEF online_depot_create, PCs, Kinds
    <3>4. UNCHANGED <<opt, taskVars, committed, hosts, target, moved>>
      BY <1>6 DEF online_depot_create
    <3>5. \A s \in Runs \ {r} : outcome'[s] = outcome[s]
      BY <3>1
    <3>6. pc[r] # "done" /\ outcome'[r] # "ok"
      BY <3>1, <3>2, <3>3
    <3> QED BY <3>1, <3>3, <3>4, <3>5, <3>6, MoveKeeps
  <2> QED BY <2>1, <2>2
<1> QED BY <1>1, <1>2, <1>3, <1>4, <1>5, <1>6, WaitKeeps DEF Steps

LEMMA HostsInvariant == Spec => []HostsInv
<1>1. Init => HostsInv
  BY DEF Init, HostsInv, OkIsDone, ImageIsAsAsked, AfterImage, Bound, Remediates
<1>2. TypeOK /\ HostsInv /\ [Next]_vars => HostsInv'
  <2> SUFFICES ASSUME TypeOK, HostsInv, [Next]_vars
               PROVE  HostsInv'
    OBVIOUS
  <2>1. CASE UNCHANGED vars
    BY <2>1 DEF HostsInv, OkIsDone, ImageIsAsAsked, AfterImage, Bound, Remediates, Binding,
                Running, vars, callVars, taskVars, clusterVars
  <2> QED BY <2>1, StartKeeps, StepKeeps, TaskKeeps, MeddleKeeps DEF Next, Cluster
<1> QED BY <1>1, <1>2, VlcmTypes, PTL DEF Spec

(* No state after image_configured works on another image than the one     *)
(* asked for, until somebody commits a new one. *)
THEOREM ImageSafe == Spec => []ImageIsAsAsked
<1>1. HostsInv => ImageIsAsAsked
  BY DEF HostsInv
<1> QED BY <1>1, HostsInvariant, PTL

(* A highstate that succeeds leaves hosts that run the version it was      *)
(* asked for, and they keep it until a new image is committed. *)
THEOREM HostsSafe == Spec => []HostsAreAsAsked
<1>1. HostsInv => HostsAreAsAsked
  BY DEF HostsInv, HostsAreAsAsked, Bound, Remediates, Binding
<1> QED BY <1>1, HostsInvariant, PTL


(***************************************************************************)
(* The drafts.                                                             *)
(***************************************************************************)

(* A step that makes no draft leaves no more than there were. *)
FewerDrafts == Present' \subseteq Present

LEMMA FewerKeep ==
    ASSUME IsFiniteSet(Present), FewerDrafts
    PROVE  IsFiniteSet(Present') /\ Cardinality(Present') <= Cardinality(Present)
BY FS_Subset DEF FewerDrafts

LEMMA OneMore ==
    ASSUME NEW S, IsFiniteSet(S), NEW d, NEW T, T \subseteq S \cup {d}
    PROVE  IsFiniteSet(T) /\ Cardinality(T) <= Cardinality(S) + 1
<1>1. IsFiniteSet(S \cup {d}) /\ Cardinality(S \cup {d}) \in {Cardinality(S), Cardinality(S) + 1}
  BY FS_AddElement
<1>2. IsFiniteSet(T) /\ Cardinality(T) <= Cardinality(S \cup {d})
  BY <1>1, FS_Subset
<1>3. Cardinality(S) \in Nat /\ Cardinality(T) \in Nat
  BY <1>2, FS_CardinalityType
<1> QED BY <1>1, <1>2, <1>3

LEMMA LandsFewer == ASSUME TypeOK, NEW d \in Present, Lands(d) PROVE FewerDrafts
BY DEF FewerDrafts, Lands, Present, TypeOK

LEMMA EffectFewer ==
    ASSUME TypeOK, NEW r \in Runs, NEW k \in Kinds, Effect(r, k)
    PROVE  FewerDrafts
<1>1. CASE k = "commit"
  BY <1>1, LandsFewer DEF Effect
<1>2. CASE k # "commit"
  BY <1>2 DEF Effect, FewerDrafts, Present
<1> QED BY <1>1, <1>2

(* Where the highstates are after a step that is not one of an import, a   *)
(* deletion or an administrator: none is about to import that was not,     *)
(* unless there is no draft.                                               *)
Onwards ==
    /\ FewerDrafts /\ moves' = moves
    /\ \A s \in Runs : AtWork(s)' => AtWork(s)
    /\ \A s \in Runs : pc'[s] = "import" => pc[s] = "import" \/ Present = {}

LEMMA GoesOn ==
    ASSUME TypeOK, NEW r \in Runs, pc[r] # "new", pc[r] # "done", NEW l, pc' = [pc EXCEPT ![r] = l],
           l = "import" => Present = {}, FewerDrafts, UNCHANGED moves
    PROVE  Onwards
<1>1. \A s \in Runs : pc'[s] = IF s = r THEN l ELSE pc[s]
  BY DEF TypeOK
<1> QED BY <1>1 DEF Onwards, AtWork

LEMMA SameDrafts == ASSUME UNCHANGED drafts PROVE FewerDrafts /\ Present' = Present
BY DEF FewerDrafts, Present

LEMMA RequestOnwards ==
    ASSUME TypeOK, NEW r \in Runs, NEW k \in Kinds, Refused(r, k) \/ Request(r, k) \/ DryRun(r, k)
    PROVE  Onwards
<1>1. pc[r] = k /\ UNCHANGED moves
  BY DEF Refused, Request, DryRun
<1>2. FewerDrafts
  <2>1. CASE Effect(r, k)
    BY <2>1, EffectFewer
  <2>2. CASE UNCHANGED drafts
    BY <2>2, SameDrafts
  <2> QED BY <2>1, <2>2 DEF Refused, Request, DryRun, clusterVars
<1>3. \E l : l # "import" /\ pc' = [pc EXCEPT ![r] = l]
  <2>1. k # "apply" => After(r, k) # "import"
    BY DEF After, Kinds
  <2> QED BY <2>1 DEF Refused, Request, DryRun, Goto, Fail, Proceed, Succeed
<1> QED BY <1>1, <1>2, <1>3, GoesOn DEF Kinds

LEMMA WaitOnwards == ASSUME TypeOK, NEW r \in Runs, Wait(r) PROVE Onwards
<1>1. pc[r] = "wait" /\ UNCHANGED <<drafts, moves>>
  BY DEF Wait, clusterVars
<1>2. CASE UNCHANGED pc
  BY <1>1, <1>2, SameDrafts DEF Onwards, AtWork
<1>3. CASE ~UNCHANGED pc
  <2>1. kind[r] \in Kinds
    BY DEF TypeOK
  <2>2. kind[r] # "apply" => After(r, kind[r]) # "import"
    BY <2>1 DEF After, Kinds
  <2>3. \E l : l # "import" /\ pc' = [pc EXCEPT ![r] = l]
    BY <1>3, <2>2 DEF Wait, Polls, Proceed, Goto, Fail, Succeed
  <2> QED BY <1>1, <2>3, SameDrafts, GoesOn
<1> QED BY <1>2, <1>3

(* A highstate goes on, makes a draft, or deletes one. *)
LEMMA StepOnwards ==
    ASSUME TypeOK, NEW r \in Runs, Steps(r)
    PROVE  Onwards \/ draft_import_software_spec(r) \/ draft_delete(r)
<1>1. ASSUME UNCHANGED <<drafts, moves>>, NEW l, pc' = [pc EXCEPT ![r] = l], pc[r] # "new", pc[r] # "done",
             l = "import" => Present = {}
      PROVE  Onwards
  BY <1>1, SameDrafts, GoesOn
<1>2. CASE depot_configured(r) \/ online_depot_create(r) \/ SyncSkipped(r)
           \/ apply_policy_get(r) \/ apply_policy_set(r)
  <2>1. UNCHANGED <<drafts, moves>> /\ pc[r] # "new" /\ pc[r] # "done"
    BY <1>2 DEF depot_configured, online_depot_create, SyncSkipped, apply_policy_get,
                apply_policy_set, clusterVars
  <2>2. \E l : l # "import" /\ pc' = [pc EXCEPT ![r] = l]
    BY <1>2 DEF depot_configured, online_depot_create, SyncSkipped, apply_policy_get,
                apply_policy_set, Goto, Fail, After
  <2> QED BY <1>1, <2>1, <2>2
<1>3. CASE desired_image_get(r) \/ Verify(r) \/ draft_get(r) \/ Relist(r)
  <2>1. UNCHANGED <<drafts, moves>> /\ pc[r] # "new" /\ pc[r] # "done"
    BY <1>3 DEF desired_image_get, Verify, draft_get, Relist, clusterVars
  <2>2. \E l : l # "import" /\ pc' = [pc EXCEPT ![r] = l]
    BY <1>3 DEF desired_image_get, Verify, draft_get, Relist, Goto, Fail, WithDraft, After
  <2> QED BY <1>1, <2>1, <2>2
<1>4. CASE drafts_list(r)
  <2>1. UNCHANGED <<drafts, moves>> /\ pc[r] = "drafts" /\ opt[r] \in Options
    BY <1>4 DEF drafts_list, clusterVars, TypeOK
  <2>2. Existing(r) # "import"
    BY <2>1, VlcmAssumption DEF Existing, Options
  <2>3. \E l : (l = "import" => Present = {}) /\ pc' = [pc EXCEPT ![r] = l]
    BY <1>4, <2>2 DEF drafts_list, Goto, Fail
  <2> QED BY <1>1, <2>1, <2>3
<1> QED BY <1>2, <1>3, <1>4, WaitOnwards, RequestOnwards DEF Steps, Image

LEMMA OnwardsKeepsDrafts == ASSUME TypeOK, DraftsInv, Onwards PROVE DraftsInv'
<1>1. IsFiniteSet(Present') /\ Cardinality(Present') <= Cardinality(Present)
  BY FewerKeep DEF DraftsInv, Onwards
<1>2. Cardinality(Present) \in Nat /\ Cardinality(Present') \in Nat /\ moves \in Nat
  BY <1>1, FS_CardinalityType DEF DraftsInv, TypeOK
<1>3. Present = {} => Cardinality(Present) = 0
  BY FS_EmptySet
<1>4. ASSUME ~Concurrent, NEW s \in Runs, pc'[s] = "import" PROVE Cardinality(Present') <= moves'
  BY <1>1, <1>2, <1>3, <1>4 DEF DraftsInv, Onwards
<1>5. ~Concurrent => Cardinality(Present') <= 1 + moves'
  BY <1>1, <1>2 DEF DraftsInv, Onwards
<1>6. ~Concurrent => \A s, t \in Runs : AtWork(s)' /\ AtWork(t)' => s = t
  BY DEF DraftsInv, Onwards
<1> QED BY <1>1, <1>4, <1>5, <1>6 DEF DraftsInv

LEMMA StartKeepsDrafts == ASSUME TypeOK, DraftsInv, NEW r \in Runs, Start(r) PROVE DraftsInv'
<1>1. /\ \A s \in Runs : pc'[s] = IF s = r THEN "depots" ELSE pc[s]
      /\ UNCHANGED <<drafts, moves>>
      /\ ~Concurrent => \A s \in Runs : ~AtWork(s)
  BY DEF Start, Goto, TypeOK, clusterVars, AtWork
<1>2. Present' = Present
  BY <1>1, SameDrafts
<1>3. ~Concurrent => \A s, t \in Runs : AtWork(s)' /\ AtWork(t)' => s = t
  BY <1>1 DEF AtWork
<1>4. \A s \in Runs : pc'[s] = "import" => pc[s] = "import"
  BY <1>1
<1> QED BY <1>1, <1>2, <1>3, <1>4 DEF DraftsInv

(* An import makes one draft, and ends what allowed it. *)
LEMMA ImportKeepsDrafts ==
    ASSUME TypeOK, DraftsInv, NEW r \in Runs, draft_import_software_spec(r)
    PROVE  DraftsInv'
<1>1. /\ pc[r] = "import" /\ UNCHANGED moves
      /\ \A s \in Runs \ {r} : pc'[s] = pc[s]
      /\ pc'[r] \in {"relist", "done"}
  BY DEF draft_import_software_spec, Goto, Fail, TypeOK
<1>2. \E d : Present' \subseteq Present \cup {d}
  BY DEF draft_import_software_spec, Present, FreshIds, TypeOK
<1>3. IsFiniteSet(Present') /\ Cardinality(Present') <= Cardinality(Present) + 1
  BY <1>2, OneMore DEF DraftsInv
<1>4. Cardinality(Present) \in Nat /\ Cardinality(Present') \in Nat /\ moves \in Nat
  BY <1>3, FS_CardinalityType DEF DraftsInv, TypeOK
<1>5. ~Concurrent => \A s, t \in Runs : AtWork(s)' /\ AtWork(t)' => s = t
  BY <1>1 DEF DraftsInv, AtWork
<1>6. ~Concurrent => \A s \in Runs : pc'[s] # "import"
  BY <1>1 DEF DraftsInv, AtWork
<1>7. ~Concurrent => Cardinality(Present') <= 1 + moves'
  BY <1>1, <1>3, <1>4 DEF DraftsInv
<1> QED BY <1>3, <1>5, <1>6, <1>7 DEF DraftsInv

(* A deletion takes one away, before the import that it allows. *)
LEMMA DeleteKeepsDrafts ==
    ASSUME TypeOK, DraftsInv, NEW r \in Runs, draft_delete(r)
    PROVE  DraftsInv'
<1>1. /\ pc[r] = "delete" /\ UNCHANGED moves
      /\ \A s \in Runs \ {r} : pc'[s] = pc[s]
      /\ pc'[r] \in {"import", "done"}
  BY DEF draft_delete, Goto, Fail, TypeOK
<1>2. \/ UNCHANGED drafts /\ pc'[r] = "done"
      \/ draft[r] \in Present /\ Present' = Present \ {draft[r]}
  BY DEF draft_delete, Goto, Fail, Present, TypeOK
<1>3. CASE UNCHANGED drafts /\ pc'[r] = "done"
  BY <1>1, <1>3, SameDrafts, OnwardsKeepsDrafts DEF Onwards, AtWork
<1>4. CASE draft[r] \in Present /\ Present' = Present \ {draft[r]}
  <2>1. IsFiniteSet(Present') /\ Cardinality(Present') = Cardinality(Present) - 1
    BY <1>4, FS_RemoveElement DEF DraftsInv
  <2>2. Cardinality(Present) \in Nat /\ Cardinality(Present') \in Nat /\ moves \in Nat
    BY <2>1, FS_CardinalityType DEF DraftsInv, TypeOK
  <2>3. ~Concurrent => \A s, t \in Runs : AtWork(s)' /\ AtWork(t)' => s = t
    BY <1>1 DEF DraftsInv, AtWork
  <2>4. ~Concurrent => Cardinality(Present') <= moves'
    BY <1>1, <2>1, <2>2 DEF DraftsInv
  <2> QED BY <1>1, <2>1, <2>2, <2>3, <2>4 DEF DraftsInv
<1> QED BY <1>2, <1>3, <1>4

(* An administrator makes one at most with every move. *)
LEMMA MeddleKeepsDrafts == ASSUME TypeOK, DraftsInv, Meddle PROVE DraftsInv'
<1>1. moves' = moves + 1 /\ UNCHANGED pc
  BY DEF Meddle, callVars
<1>2. \E d : Present' \subseteq Present \cup {d}
  <2>1. CASE \E d \in Present \cup FreshIds, v \in OptVersions : drafts' = [drafts EXCEPT ![d] = v]
    BY <2>1 DEF Present, TypeOK
  <2>2. CASE \E d \in Present : Lands(d)
    BY <2>2, LandsFewer DEF FewerDrafts
  <2>3. CASE UNCHANGED drafts
    BY <2>3, SameDrafts
  <2> QED BY <2>1, <2>2, <2>3 DEF Meddle, DepotByHand
<1>3. IsFiniteSet(Present') /\ Cardinality(Present') <= Cardinality(Present) + 1
  BY <1>2, OneMore DEF DraftsInv
<1>4. Cardinality(Present) \in Nat /\ Cardinality(Present') \in Nat /\ moves \in Nat
  BY <1>3, FS_CardinalityType DEF DraftsInv, TypeOK
<1>5. ~Concurrent => Cardinality(Present') <= 1 + moves'
  BY <1>1, <1>3, <1>4 DEF DraftsInv
<1>6. ASSUME ~Concurrent, NEW s \in Runs, pc'[s] = "import" PROVE Cardinality(Present') <= moves'
  BY <1>1, <1>3, <1>4, <1>6 DEF DraftsInv
<1> QED BY <1>1, <1>3, <1>5, <1>6 DEF DraftsInv, AtWork

LEMMA TaskKeepsDrafts == ASSUME TypeOK, DraftsInv, NEW r \in Runs, TaskEnds(r) PROVE DraftsInv'
<1>1. UNCHANGED <<pc, moves>> /\ kind[r] \in Kinds
  BY DEF TaskEnds, callVars, TypeOK
<1>2. FewerDrafts
  <2>1. CASE Effect(r, kind[r])
    BY <1>1, <2>1, EffectFewer
  <2>2. CASE Halfway(r, kind[r])
    BY <2>2, SameDrafts DEF Halfway
  <2> QED BY <2>1, <2>2 DEF TaskEnds
<1>3. Onwards
  BY <1>1, <1>2 DEF Onwards, AtWork
<1> QED BY <1>3, OnwardsKeepsDrafts

LEMMA DraftsInvariant == Spec => []DraftsInv
<1>1. Init => DraftsInv
  <2>1. SUFFICES ASSUME Init PROVE DraftsInv
    OBVIOUS
  <2>2. Present = {} /\ moves = 0 /\ \A r \in Runs : pc[r] = "new"
    BY <2>1 DEF Init, Present
  <2>3. IsFiniteSet(Present) /\ Cardinality(Present) = 0
    BY <2>2, FS_EmptySet
  <2> QED BY <2>2, <2>3 DEF DraftsInv, AtWork
<1>2. TypeOK /\ DraftsInv /\ [Next]_vars => DraftsInv'
  <2>1. SUFFICES ASSUME TypeOK, DraftsInv, [Next]_vars PROVE DraftsInv'
    OBVIOUS
  <2>2. CASE UNCHANGED vars
    <3>1. UNCHANGED <<pc, drafts, moves>>
      BY <2>2 DEF vars, callVars, clusterVars
    <3> QED BY <2>1, <3>1, OnwardsKeepsDrafts, SameDrafts DEF Onwards, AtWork
  <2>3. ASSUME NEW r \in Runs, Steps(r) PROVE DraftsInv'
    BY <2>1, <2>3, StepOnwards, OnwardsKeepsDrafts, ImportKeepsDrafts, DeleteKeepsDrafts
  <2> QED BY <2>1, <2>2, <2>3, StartKeepsDrafts, TaskKeepsDrafts, MeddleKeepsDrafts DEF Next, Cluster
<1> QED BY <1>1, <1>2, VlcmTypes, PTL DEF Spec

(* However often highstates fail and are repeated, one after the other, and *)
(* whichever of their answers are lost, they leave at most one draft behind *)
(* beside those an administrator made meanwhile.                            *)
THEOREM DraftsSafe == Spec => []DraftsDoNotPileUp
<1>1. DraftsInv => DraftsDoNotPileUp
  BY DEF DraftsInv, DraftsDoNotPileUp
<1> QED BY <1>1, DraftsInvariant, PTL

(***************************************************************************)
(* The requests of a highstate run out.                                    *)
(***************************************************************************)

LEMMA RankTypes == \A label \in PCs : Rank(label) \in 0..17 /\ (label \in Kinds => Rank(label) > 0)
BY DEF Rank, PCs, Kinds

(* A whole round fits between two ranks. *)
LEMMA Rounds ==
    ASSUME NEW a \in Nat, NEW b \in Nat, a < b
    PROVE  a * Round \in Nat /\ (b - 1) * Round \in Nat /\ b * Round = (b - 1) * Round + Round
           /\ a * Round <= (b - 1) * Round
<1>1. Round \in Nat
  BY VlcmAssumption DEF Round
<1> HIDE DEF Round
<1>2. PICK d \in Nat : b - 1 = a + d
  BY SMT
<1>3. b = a + d + 1
  BY <1>2
<1>4. a * Round \in Nat /\ d * Round \in Nat
  BY <1>1
<1>5. (a + d) * Round = a * Round + d * Round
  BY <1>1
<1>6. (a + d + 1) * Round = (a + d) * Round + Round
  BY <1>1
<1> QED BY <1>1, <1>2, <1>3, <1>4, <1>5, <1>6

(* Ahead is a count, and a highstate makes at most 17 * Round requests. *)
LEMMA AheadBound ==
    ASSUME TypeOK, NEW r \in Runs
    PROVE  /\ Ahead(r) \in Nat /\ Ahead(r) <= 17 * Round
           /\ pc[r] # "done" /\ pc[r] # "new" => Ahead(r) > 0
<1>1. pc[r] \in PCs /\ kind[r] \in Kinds /\ left[r] \in 0..Budget /\ Budget \in Nat
      /\ Round \in Nat \ {0} /\ Kinds \subseteq PCs
  BY VlcmAssumption DEF TypeOK, Round, PCs
<1>2. CASE pc[r] = "wait"
  <2>1. Rank(kind[r]) \in 1..17
    BY <1>1, RankTypes
  <2>2. PICK n \in 0..16 : n = Rank(kind[r]) - 1
    BY <2>1
  <2>3. Ahead(r) = n * Round + left[r] + 1
    BY <1>2, <2>2 DEF Ahead
  <2>4. n * Round \in Nat /\ n * Round <= 16 * Round
    BY <1>1, <2>2, Rounds
  <2>5. left[r] + 1 < Round
    BY <1>1 DEF Round
  <2> QED BY <1>1, <1>2, <2>3, <2>4, <2>5
<1>3. CASE pc[r] # "wait"
  <2>1. PICK n \in 0..17 : n = Rank(pc[r])
    BY <1>1, RankTypes
  <2>2. pc[r] # "done" /\ pc[r] # "new" => n > 0
    BY <1>1, <1>3, <2>1 DEF Rank, PCs, Kinds
  <2>3. Ahead(r) = n * Round
    BY <1>3, <2>1 DEF Ahead
  <2>4. n * Round \in Nat /\ n * Round <= 17 * Round
    BY <1>1, <2>1, Rounds
  <2>5. n > 0 => n * Round > 0
    BY <1>1, <2>1
  <2> QED BY <2>2, <2>3, <2>4, <2>5
<1> QED BY <1>2, <1>3

(* On to a later request. *)
LEMMA LaterAhead ==
    ASSUME TypeOK, NEW r \in Runs, pc'[r] \in PCs \ {"wait"},
           Rank(pc'[r]) < Rank(IF pc[r] = "wait" THEN kind[r] ELSE pc[r])
    PROVE  Ahead(r)' < Ahead(r)
<1> DEFINE b == Rank(IF pc[r] = "wait" THEN kind[r] ELSE pc[r])
           a == Rank(pc'[r])
<1>1. a \in Nat /\ b \in Nat /\ a < b /\ left[r] \in Nat /\ Round \in Nat \ {0}
  BY RankTypes, VlcmAssumption DEF TypeOK, PCs, Round
<1>2. Ahead(r)' = a * Round
  BY DEF Ahead
<1>3. Ahead(r) = IF pc[r] = "wait" THEN (b - 1) * Round + left[r] + 1 ELSE b * Round
  BY DEF Ahead
<1> HIDE DEF a, b
<1>4. a * Round \in Nat /\ (b - 1) * Round \in Nat /\ b * Round = (b - 1) * Round + Round
      /\ a * Round <= (b - 1) * Round
  BY <1>1, Rounds
<1> QED BY <1>1, <1>2, <1>3, <1>4

(* The task of a request is waited for. *)
LEMMA WaitAhead ==
    ASSUME TypeOK, NEW r \in Runs, pc[r] \in Kinds,
           pc'[r] = "wait", kind'[r] = pc[r], left'[r] = Budget
    PROVE  Ahead(r)' < Ahead(r)
<1> DEFINE b == Rank(pc[r])
<1>1. b \in Nat /\ b > 0 /\ Budget \in Nat
  BY RankTypes, VlcmAssumption DEF PCs
<1>2. Ahead(r)' = (b - 1) * Round + Budget + 1
  BY DEF Ahead
<1>3. Ahead(r) = b * Round
  BY DEF Ahead, Kinds
<1> HIDE DEF b
<1>4. (b - 1) * Round \in Nat /\ b * Round = (b - 1) * Round + Round
  BY <1>1, Rounds
<1> QED BY <1>1, <1>2, <1>3, <1>4 DEF Round

LEMMA ProceedRank ==
    ASSUME TypeOK, NEW r \in Runs, NEW k \in Kinds, Proceed(r, k)
    PROVE  pc'[r] \in PCs \ {"wait"} /\ Rank(pc'[r]) < Rank(k)
<1>1. pc'[r] = IF k = "apply" THEN "done" ELSE After(r, k)
  BY DEF Proceed, Succeed, Goto, TypeOK
<1>2. pc'[r] \in PCs \ {"wait"}
  BY ProceedTypes
<1>3. Rank(pc'[r]) < Rank(k)
  BY <1>1 DEF Rank, After, Kinds
<1> QED BY <1>2, <1>3

LEMMA FailRank ==
    ASSUME TypeOK, NEW r \in Runs, Fail(r), pc[r] \notin {"new", "done"}
    PROVE  /\ pc'[r] \in PCs \ {"wait"}
           /\ Rank(pc'[r]) < Rank(IF pc[r] = "wait" THEN kind[r] ELSE pc[r])
<1>1. pc'[r] = "done"
  BY DEF Fail, TypeOK
<1>2. pc[r] \in PCs /\ kind[r] \in Kinds
  BY DEF TypeOK
<1> QED BY <1>1, <1>2 DEF Rank, PCs, Kinds

LEMMA ImageAhead ==
    ASSUME TypeOK, NEW r \in Runs, Image(r)
    PROVE  Ahead(r)' < Ahead(r)
<1>1. pc[r] \in {"current", "drafts", "reuse", "delete", "import", "relist", "verify"}
  BY DEF Image, desired_image_get, drafts_list, draft_get, draft_delete,
         draft_import_software_spec, Relist, Verify
<1>2. CASE Fail(r)
  BY <1>1, <1>2, FailRank, LaterAhead
<1>3. CASE ~Fail(r)
  <2>1. \E l \in PCs \ {"wait"} : Goto(r, l) /\ Rank(l) < Rank(pc[r])
    <3>1. CASE desired_image_get(r)
      BY <1>3, <3>1 DEF desired_image_get, Rank, PCs
    <3>2. CASE drafts_list(r)
      <4>1. opt[r].action \in {"fail", "reuse", "delete"}
        BY <1>1, VlcmAssumption DEF TypeOK, Options
      <4>2. Existing(r) \in {"reuse", "policy", "delete", "done"}
        BY <4>1 DEF Existing
      <4>3. \E l \in {"reuse", "policy", "delete", "import"} : Goto(r, l)
        BY <1>3, <3>2, <4>2 DEF drafts_list
      <4>4. pc[r] = "drafts"
        BY <3>2 DEF drafts_list
      <4> QED BY <4>3, <4>4 DEF Rank, PCs, Kinds
    <3>3. CASE draft_get(r)
      BY <1>3, <3>3 DEF draft_get, WithDraft, After, Rank, PCs, Kinds
    <3>4. CASE draft_delete(r)
      BY <1>3, <3>4 DEF draft_delete, Rank, PCs
    <3>5. CASE draft_import_software_spec(r)
      BY <1>3, <3>5 DEF draft_import_software_spec, Rank, PCs
    <3>6. CASE Relist(r)
      BY <1>3, <3>6 DEF Relist, WithDraft, After, Rank, PCs, Kinds
    <3>7. CASE Verify(r)
      BY <1>3, <3>7 DEF Verify, Rank, PCs
    <3> QED BY <3>1, <3>2, <3>3, <3>4, <3>5, <3>6, <3>7 DEF Image
  <2>2. pc'[r] \in PCs \ {"wait"} /\ Rank(pc'[r]) < Rank(pc[r])
    BY <2>1 DEF Goto, TypeOK
  <2> QED BY <1>1, <2>2, LaterAhead
<1> QED BY <1>2, <1>3

LEMMA StepAhead ==
    ASSUME TypeOK, NEW r \in Runs, Steps(r)
    PROVE  Ahead(r)' < Ahead(r)
<1>1. CASE Image(r)
  BY <1>1, ImageAhead
<1>2. CASE depot_configured(r) \/ online_depot_create(r) \/ SyncSkipped(r)
           \/ apply_policy_get(r) \/ apply_policy_set(r)
  <2>1. pc[r] \in {"depots", "depot", "sync", "policy", "setPolicy"}
    BY <1>2 DEF depot_configured, online_depot_create, SyncSkipped, apply_policy_get,
                apply_policy_set
  <2>2. CASE Fail(r)
    BY <2>1, <2>2, FailRank, LaterAhead
  <2>3. CASE ~Fail(r)
    <3>1. \E l \in PCs \ {"wait"} : Goto(r, l) /\ Rank(l) < Rank(pc[r])
      BY <1>2, <2>3 DEF depot_configured, online_depot_create, SyncSkipped, apply_policy_get,
                        apply_policy_set, After, Rank, PCs, Kinds
    <3>2. pc'[r] \in PCs \ {"wait"} /\ Rank(pc'[r]) < Rank(pc[r])
      BY <3>1 DEF Goto, TypeOK
    <3> QED BY <2>1, <3>2, LaterAhead
  <2> QED BY <2>2, <2>3
<1>3. ASSUME NEW k \in Kinds, Refused(r, k) \/ Request(r, k) \/ DryRun(r, k)
      PROVE  Ahead(r)' < Ahead(r)
  <2>1. pc[r] = k /\ k \notin {"wait", "new", "done"}
    BY <1>3 DEF Refused, Request, DryRun, Kinds
  <2>2. CASE Fail(r)
    BY <2>1, <2>2, FailRank, LaterAhead
  <2>3. CASE Request(r, k) /\ ~Fail(r)
    <3>1. pc'[r] = "wait" /\ kind'[r] = k /\ left'[r] = Budget
      BY <2>3 DEF Request, Goto, TypeOK
    <3> QED BY <2>1, <3>1, WaitAhead
  <2>4. CASE DryRun(r, k)
    <3>1. Proceed(r, k)
      BY <2>4 DEF DryRun
    <3> QED BY <2>1, <3>1, ProceedRank, LaterAhead
  <2> QED BY <1>3, <2>2, <2>3, <2>4 DEF Refused
<1>4. CASE Wait(r)
  <2>1. pc[r] = "wait" /\ kind[r] \in Kinds /\ UNCHANGED kind
    BY <1>4 DEF Wait, TypeOK
  <2>2. CASE Fail(r)
    BY <2>1, <2>2, FailRank, LaterAhead
  <2>3. CASE Proceed(r, kind[r])
    BY <2>1, <2>3, ProceedRank, LaterAhead
  <2>4. CASE Polls(r)
    <3>1. pc'[r] = "wait" /\ kind'[r] = kind[r] /\ left'[r] \in Nat /\ left'[r] < left[r]
      BY <2>1, <2>4 DEF Polls, TypeOK
    <3>2. left[r] \in Nat
      BY DEF TypeOK
    <3> DEFINE before == (Rank(kind[r]) - 1) * Round
    <3>3. before \in Nat
      <4>1. 0 < Rank(kind[r]) /\ Rank(kind[r]) \in Nat
        BY <2>1, RankTypes DEF PCs
      <4> QED BY <4>1, Rounds
    <3>4. Ahead(r) = before + left[r] + 1 /\ Ahead(r)' = before + left'[r] + 1
      BY <2>1, <3>1 DEF Ahead
    <3> QED BY <3>1, <3>2, <3>3, <3>4
  <2> QED BY <1>4, <2>2, <2>3, <2>4 DEF Wait
<1> QED BY <1>1, <1>2, <1>3, <1>4 DEF Steps

(* Nobody else touches where a highstate is. *)
LEMMA OthersAside ==
    ASSUME TypeOK, Next, NEW r \in Runs, pc[r] # "new", ~Steps(r)
    PROVE  UNCHANGED <<pc[r], kind[r], left[r]>>
<1>1. ASSUME NEW s \in Runs \ {r}, Start(s) \/ Steps(s)
      PROVE  UNCHANGED <<pc[r], kind[r], left[r]>>
  <2> USE DEF TypeOK, Goto, Fail, Succeed, Proceed, taskVars
  <2>1. CASE Start(s)
    BY <1>1, <2>1 DEF Start
  <2>2. CASE depot_configured(s) \/ online_depot_create(s) \/ SyncSkipped(s)
             \/ apply_policy_get(s) \/ apply_policy_set(s)
    BY <1>1, <2>2 DEF depot_configured, online_depot_create, SyncSkipped, apply_policy_get,
                      apply_policy_set
  <2>3. CASE desired_image_get(s) \/ drafts_list(s) \/ draft_get(s) \/ draft_delete(s)
    BY <1>1, <2>3 DEF desired_image_get, drafts_list, draft_get, draft_delete
  <2>4. CASE draft_import_software_spec(s) \/ Relist(s) \/ Verify(s)
    BY <1>1, <2>4 DEF draft_import_software_spec, Relist, Verify
  <2>5. ASSUME NEW k \in Kinds, Refused(s, k) \/ Request(s, k) \/ DryRun(s, k)
        PROVE  UNCHANGED <<pc[r], kind[r], left[r]>>
    BY <1>1, <2>5 DEF Refused, Request, DryRun
  <2>6. CASE Wait(s)
    BY <1>1, <2>6 DEF Wait, Leave, Polls
  <2> QED BY <1>1, <2>1, <2>2, <2>3, <2>4, <2>5, <2>6 DEF Steps, Image
<1>2. CASE Start(r)
  BY <1>2 DEF Start
<1>3. CASE Cluster \/ Meddle
  BY <1>3 DEF Cluster, TaskEnds, Meddle, callVars, taskVars
<1> QED BY <1>1, <1>2, <1>3 DEF Next

(* A highstate makes at most 17 * (Budget + 2) requests, whatever becomes  *)
(* of its tasks and whatever the others do meanwhile. *)
THEOREM RequestsRunOutHolds == Spec => RequestsRunOut
<1> DEFINE Nearer == \A r \in Runs : /\ Steps(r) => Ahead(r)' < Ahead(r)
                                     /\ pc[r] # "new" /\ ~Steps(r) => Ahead(r)' = Ahead(r)
<1>1. ASSUME TypeOK, [Next]_vars PROVE [Nearer]_vars
  <2> SUFFICES ASSUME NEW r \in Runs, pc[r] # "new", ~Steps(r), Next
               PROVE  Ahead(r)' = Ahead(r)
    BY <1>1, StepAhead
  <2> QED BY <1>1, OthersAside DEF Ahead
<1> QED BY <1>1, VlcmTypes, PTL DEF Spec, RequestsRunOut
=============================================================================
