---------------------------- MODULE VamiAppliance ----------------------------
(***************************************************************************)
(* The vCenter Server Appliance as clients/vc_patch.py sees it: the update *)
(* state machine behind /rest/appliance/update.  Nothing of the appliance  *)
(* is in the repository; every definition here is external and says only   *)
(* what the client relies on: the states it compares against, the staged   *)
(* update it reads back, and the refusals it handles.                      *)
(***************************************************************************)
EXTENDS Integers

CONSTANTS
    Versions,      \* update versions the appliance knows
    NoVersion,     \* "nothing": no staged update, or no version asked for
    InitInstalled, \* the version the appliance runs at the start
    InitStaged,    \* what may be staged at the start
    InitPending,   \* the updates each source offers at the start
    Rank,          \* where a source lists a version: lower ranks come first
    MaxOutage,     \* longest outage, in polls of the client
    MaxBounces,    \* bound: outages in one behaviour
    MaxMeddling    \* bound: actions of another administrator

Sources == {"url", "online"}

ASSUME ApplianceAssumption ==
    /\ NoVersion \notin Versions
    /\ InitInstalled \in Versions
    /\ InitStaged \subseteq Versions \cup {NoVersion}
    /\ InitPending \in [Sources -> SUBSET Versions]
    /\ Rank \in [Sources -> [Versions -> Nat]]
    /\ MaxOutage \in Nat
    /\ MaxBounces \in Nat
    /\ MaxMeddling \in Nat

VARIABLES
    apState,     \* what GET /rest/appliance/update reports
    apStaged,    \* what GET .../staged reports, NoVersion when 404
    apTarget,    \* the version being staged or installed, or last so
    apInstalled, \* the running version
    apPolicy,    \* the repository policy is the one the states configure
    pending,     \* what GET .../pending lists, per source
    outage,      \* polls for which the services still answer with errors
    spared,      \* what has not yet gone wrong since the last answered status poll
    bounces, meddling,
    meddled      \* another administrator acted during the current call

apVars == <<apState, apStaged, apTarget, apInstalled, apPolicy, pending>>
faultVars == <<outage, spared, bounces, meddling, meddled>>

States == {"UPDATES_PENDING", "UP_TO_DATE", "STAGE_IN_PROGRESS", "STAGE_FAILED",
           "INSTALL_IN_PROGRESS", "INSTALL_FAILED"}

Troubles == {"outage", "expiry"}

Busy == apState \in {"STAGE_IN_PROGRESS", "INSTALL_IN_PROGRESS"}

Listed(v) == \E src \in Sources : v \in pending[src]

ApplianceTypeOK ==
    /\ apState \in States
    /\ apStaged \in Versions \cup {NoVersion}
    /\ apTarget \in Versions \cup {NoVersion}
    /\ apInstalled \in Versions \cup {NoVersion}
    /\ apPolicy \in BOOLEAN
    /\ pending \in [Sources -> SUBSET Versions]
    /\ outage \in 0..MaxOutage
    /\ spared \subseteq Troubles
    /\ bounces \in 0..MaxBounces
    /\ meddling \in 0..MaxMeddling
    /\ meddled \in BOOLEAN

ApplianceInit ==
    /\ apState = "UPDATES_PENDING"
    /\ apStaged \in InitStaged
    /\ apTarget = NoVersion
    /\ apInstalled = InitInstalled
    /\ apPolicy = FALSE
    /\ pending = InitPending
    /\ outage = 0
    /\ spared = Troubles
    /\ bounces = 0
    /\ meddling = 0
    /\ meddled = FALSE

(* POST pending/{v}?action=stage: accepted when nothing runs.  Whether the *)
(* payload staged before is kept until the new one is complete is left open. *)
AcceptStage(v) ==
    /\ ~Busy
    /\ apState' = "STAGE_IN_PROGRESS"
    /\ apTarget' = v
    /\ apStaged' \in {apStaged, NoVersion}
    /\ UNCHANGED <<apInstalled, apPolicy, pending>>

(* POST pending/{v}?action=install: only for the update that is staged. *)
CanInstall(v) == ~Busy /\ apStaged = v

AcceptInstall(v) ==
    /\ CanInstall(v)
    /\ apState' = "INSTALL_IN_PROGRESS"
    /\ apTarget' = v
    /\ UNCHANGED <<apStaged, apInstalled, apPolicy, pending>>

StageDone ==
    /\ apState = "STAGE_IN_PROGRESS"
    /\ apState' = "UPDATES_PENDING"
    /\ apStaged' = apTarget
    /\ UNCHANGED <<apTarget, apInstalled, apPolicy, pending>>

StageFails ==
    /\ apState = "STAGE_IN_PROGRESS"
    /\ apState' = "STAGE_FAILED"
    /\ UNCHANGED <<apStaged, apTarget, apInstalled, apPolicy, pending>>

(* After an install the version is pending no more; other updates may be. *)
InstallDone ==
    /\ apState = "INSTALL_IN_PROGRESS"
    /\ apInstalled' = apTarget
    /\ apStaged' = NoVersion
    /\ pending' = [src \in Sources |-> pending[src] \ {apTarget}]
    /\ apState' \in {"UP_TO_DATE", "UPDATES_PENDING"}
    /\ UNCHANGED <<apTarget, apPolicy>>

InstallFails ==
    /\ apState = "INSTALL_IN_PROGRESS"
    /\ apState' = "INSTALL_FAILED"
    /\ UNCHANGED <<apStaged, apTarget, apInstalled, apPolicy, pending>>

ApplianceWork == StageDone \/ StageFails \/ InstallDone \/ InstallFails

(* The update services restart mid-patch: every request fails for a while.  *)
(* Between two answered status polls there is at most one outage, and at   *)
(* most one session expires: the assumption OutagesAreRidden rests on.     *)
Bounce ==
    /\ outage = 0 /\ "outage" \in spared /\ bounces < MaxBounces
    /\ outage' \in 1..MaxOutage
    /\ spared' = spared \ {"outage"}
    /\ bounces' = bounces + 1
    /\ UNCHANGED <<apVars, meddling, meddled>>

(* DELETE staged, by hand; "nothing staged" is no error and no change. *)
delete_staged_update ==
    /\ apStaged # NoVersion /\ ~Busy
    /\ apStaged' = NoVersion
    /\ UNCHANGED <<apState, apTarget, apInstalled, apPolicy, pending>>

(* The state of that name, of another job: a PUT of the policy, always. *)
repository_configured ==
    /\ apPolicy' = TRUE
    /\ UNCHANGED <<apState, apStaged, apTarget, apInstalled, pending>>

(* Somebody else stages, discards what is staged, or sets the policy, with *)
(* an execution module, another state or in the VAMI UI.                   *)
Meddle ==
    /\ meddling < MaxMeddling
    /\ meddling' = meddling + 1
    /\ meddled' = TRUE
    /\ \/ \E v \in Versions : Listed(v) /\ AcceptStage(v)
       \/ delete_staged_update
       \/ repository_configured
    /\ UNCHANGED <<outage, spared, bounces>>

=============================================================================
