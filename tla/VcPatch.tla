------------------------------- MODULE VcPatch -------------------------------
(***************************************************************************)
(* Self-patching of the vCenter Server Appliance: the state functions      *)
(* update_prepared, update_installed and installed of                      *)
(* states/vcf_vc_patch.py over the calls and polling loops of              *)
(* clients/vc_patch.py, with the session token of utils/vcenter.py, run    *)
(* against the appliance of VamiAppliance.                                 *)
(*                                                                         *)
(* One action is one HTTP request with what the code does on its reply up  *)
(* to the next request; the appliance, an outage of it, the expiry of the  *)
(* session and another administrator act between two requests.             *)
(***************************************************************************)
EXTENDS VamiAppliance

CONSTANTS
    PrefixPairs,     \* <<a, b>>: the string a is a proper prefix of b
    Options,         \* argument combinations of a call
    Entries,         \* "sls": prepared, then installed; "installed": that state
    Faults,          \* replies a healthy appliance may also give
    MaxTransient,    \* max_transient_errors of the call
    DefaultTransient,\* max_transient_errors of the monitor inside the precheck loop
    StageBudget, InnerBudget, WaitBudget, InstallBudget,  \* timeouts, in polls
    MaxCalls         \* bound: calls of state functions in one behaviour

OptionSet == [version : Versions \cup {NoVersion}, repo : BOOLEAN, force : BOOLEAN,
              test : BOOLEAN, monitor : BOOLEAN, precheck : BOOLEAN]

FaultSet == {"hard", "conn", "lost", "stagetimeout"}

ASSUME PatchAssumption ==
    /\ PrefixPairs \subseteq Versions \X Versions
    /\ Options \subseteq OptionSet
    /\ Entries \subseteq {"sls", "installed"}
    /\ Faults \subseteq FaultSet
    /\ MaxTransient \in Nat \ {0} /\ DefaultTransient \in Nat \ {0}
    /\ StageBudget \in Nat /\ InnerBudget \in Nat
    /\ WaitBudget \in Nat /\ InstallBudget \in Nat /\ MaxCalls \in Nat

VARIABLES
    pc,         \* the next request of the running call, "idle" between calls
    flow,       \* which state function runs
    opt,        \* its arguments
    resolved,   \* resolve_update_version's answer
    inner,      \* monitor_stage runs inside _precheck_when_allowed
    transients, \* transient_errors of the running monitor
    left,       \* polls before the deadline of the running loop
    preLeft,    \* rounds before the deadline of _precheck_when_allowed
    token,      \* _SESSION_CACHE entry: none, live, or expired on the server
    outcome,    \* what the last call returned
    prechecked, \* versions whose precheck has passed
    calls

callVars == <<pc, flow, opt, resolved, inner, transients, left, preLeft, outcome>>
vars == <<apVars, faultVars, callVars, token, prechecked, calls>>

Flows == {"prepared", "installed"}
\* requests made only once this call's stage has been accepted
LoopStages == {"waitStaged", "msStaged", "msStatus", "precheck"}
PCs == {"idle", "policy", "lookup", "list", "detail", "probe", "stage", "install", "miStatus"}
         \cup LoopStages
Whys == {"", "noop", "test", "done", "http", "conn", "timeout", "transient", "failed",
         "refused", "readtimeout", "nothing", "nomatch"}

NoOutcome == [call |-> "none", result |-> "none", why |-> ""]

CallTypeOK ==
    /\ pc \in PCs
    /\ flow \in Flows
    /\ opt \in OptionSet
    /\ resolved \in Versions \cup {NoVersion}
    /\ inner \in BOOLEAN
    /\ transients \in Nat
    /\ left \in Nat
    /\ preLeft \in Nat
    /\ outcome \in [call : Flows \cup {"none"}, result : {"none", "true", "false", "test"},
                    why : Whys]

TypeOK ==
    /\ ApplianceTypeOK
    /\ CallTypeOK
    /\ token \in {"none", "live", "expired"}
    /\ prechecked \subseteq Versions \cup {NoVersion}
    /\ calls \in 0..MaxCalls

(***************************************************************************)
(* Versions.                                                               *)
(***************************************************************************)

(* exact, or a prefix in either direction *)
Matches(a, b) == a = b \/ <<a, b>> \in PrefixPairs \/ <<b, a>> \in PrefixPairs

(* A slip: whatever is staged will do. *)
StagedAnything(v) == apStaged # NoVersion

(* staged_matches: something is staged, and under that version *)
StagedMatches(v) == apStaged # NoVersion /\ Matches(apStaged, v)

(* The entry of values that src lists first. *)
First(src, values, v) ==
    /\ v \in values
    /\ \A w \in values : Rank[src][v] <= Rank[src][w]

(* _match_version: an exact match, else the first prefix match in listing order *)
BestMatch(src, want, v) ==
    IF want \in pending[src] THEN v = want
    ELSE First(src, {w \in pending[src] : Matches(w, want)}, v)

(***************************************************************************)
(* Requests.  A bouncing appliance answers none, not even a login; an      *)
(* expired token is refused with 401; get_session logs in when no token is *)
(* cached.  "hard" is any other HTTP error, "conn" an exception that is no *)
(* HTTPError.                                                              *)
(***************************************************************************)

Replies ==
    IF outage > 0 THEN {"transient"}
    ELSE IF token = "expired" THEN {"unauth"}
    ELSE {"ok"} \cup (Faults \cap {"hard", "conn"})

HTTPError == {"transient", "unauth", "hard"}

Ask(r) ==
    /\ r \in Replies
    /\ token' = IF r \in {"ok", "hard"} THEN "live" ELSE token

Sent == UNCHANGED <<apVars, faultVars, prechecked, calls>>

Return(result, why) ==
    /\ pc' = "idle"
    /\ outcome' = [call |-> flow, result |-> result, why |-> why]
    /\ UNCHANGED <<flow, opt, resolved, inner, transients, left, preLeft>>

FailsWith(r) == Return("false", IF r = "conn" THEN "conn" ELSE "http")

Goto(label) ==
    /\ pc' = label
    /\ UNCHANGED <<flow, opt, resolved, inner, transients, left, preLeft, outcome>>

(***************************************************************************)
(* Calls of the state functions.  In the sls order update_installed has    *)
(* update_prepared as a requisite: it runs only after that returned True.  *)
(***************************************************************************)

Begin(f, o) ==
    /\ pc = "idle" /\ calls < MaxCalls
    /\ calls' = calls + 1
    /\ flow' = f
    /\ opt' = o
    /\ pc' = IF f = "prepared" /\ o.repo /\ ~o.test THEN "policy"
             ELSE IF o.version = NoVersion THEN "list" ELSE "lookup"
    /\ resolved' = NoVersion
    /\ inner' = FALSE /\ transients' = 0 /\ left' = 0 /\ preLeft' = 0
    /\ outcome' = NoOutcome
    /\ meddled' = FALSE
    /\ UNCHANGED <<apVars, outage, spared, bounces, meddling, token, prechecked>>

update_prepared == "sls" \in Entries /\ \E o \in Options : Begin("prepared", o)

update_installed ==
    /\ "sls" \in Entries
    /\ outcome.call = "prepared" /\ outcome.result \in {"true", "test"}
    /\ Begin("installed", opt)

installed ==
    /\ "installed" \in Entries
    /\ \E o \in Options : Begin(IF o.test THEN "prepared" ELSE "installed", o)

(***************************************************************************)
(* update_prepared and update_installed, request by request.               *)
(***************************************************************************)

SetPolicy ==
    /\ pc = "policy"
    /\ \E r \in Replies :
         /\ Ask(r)
         /\ IF r = "ok"
            THEN /\ apPolicy' = TRUE
                 /\ Goto(IF opt.version = NoVersion THEN "list" ELSE "lookup")
            ELSE UNCHANGED apPolicy /\ FailsWith(r)
    /\ UNCHANGED <<apState, apStaged, apTarget, apInstalled, pending, faultVars,
                   prechecked, calls>>

AfterResolve(v) ==
    /\ resolved' = v
    /\ IF flow = "prepared"
       THEN pc' = "probe" /\ UNCHANGED outcome
       ELSE IF opt.test
       THEN /\ pc' = "idle"
            /\ outcome' = [call |-> flow, result |-> "test", why |-> "test"]
       ELSE pc' = "install" /\ UNCHANGED outcome
    /\ UNCHANGED <<flow, opt, inner, transients, left, preLeft>>

(* The direct lookup of resolve_update_version; any HTTP error means: list. *)
Lookup ==
    /\ pc = "lookup"
    /\ \E r \in Replies :
         /\ Ask(r)
         /\ IF r = "ok" /\ Listed(opt.version) THEN AfterResolve(opt.version)
            ELSE IF r = "conn" THEN FailsWith(r)
            ELSE Goto("list")
    /\ Sent

Matched(v) ==
    /\ pc' = "detail" /\ resolved' = v
    /\ UNCHANGED <<flow, opt, inner, transients, left, preLeft, outcome>>

(* Listing and matching; update_installed passes no repository_url. *)
ListPending ==
    /\ pc = "list"
    /\ LET src == IF flow = "prepared" /\ opt.repo THEN "url" ELSE "online"
       IN \E r \in Replies :
            /\ Ask(r)
            /\ IF r # "ok" THEN FailsWith(r)
               ELSE IF pending[src] = {} THEN Return("false", "nothing")
               ELSE IF opt.version = NoVersion
               THEN \E v \in pending[src] : First(src, pending[src], v) /\ Matched(v)
               ELSE \/ /\ \A w \in pending[src] : ~Matches(w, opt.version)
                       /\ Return("false", "nomatch")
                    \/ \E v \in pending[src] :
                         BestMatch(src, opt.version, v) /\ Matched(v)
    /\ Sent

(* The details of the update matched; any HTTP error leaves the listed ones. *)
Detail ==
    /\ pc = "detail"
    /\ \E r \in Replies :
         /\ Ask(r)
         /\ IF r = "conn" THEN FailsWith(r) ELSE AfterResolve(resolved)
    /\ Sent

(* Staged already?  A failing lookup counts as nothing staged. *)
ProbeStaged ==
    /\ pc = "probe"
    /\ \E r \in Replies :
         /\ Ask(r)
         /\ IF r = "ok" /\ StagedMatches(resolved) /\ ~opt.force
            THEN Return("true", "noop")
            ELSE IF opt.test THEN Return("test", "test")
            ELSE Goto("stage")
    /\ Sent

(***************************************************************************)
(* What follows staging: monitor_stage if asked, then the prechecks.       *)
(***************************************************************************)

EnterMonitor(inPrecheck, budget) ==
    /\ pc' = "msStaged" /\ inner' = inPrecheck
    /\ transients' = 0 /\ left' = budget
    /\ UNCHANGED <<flow, opt, resolved, outcome>>

AfterMonitor ==
    IF opt.precheck
    THEN /\ pc' = "precheck" /\ preLeft' = StageBudget
         /\ UNCHANGED <<flow, opt, resolved, inner, transients, left, outcome>>
    ELSE Return("true", "done")

(* A slip: the stage is not waited for. *)
AfterStageUnmonitored == AfterMonitor

AfterStage ==
    IF opt.monitor THEN EnterMonitor(FALSE, StageBudget) /\ UNCHANGED preLeft
    ELSE AfterMonitor

(* POST stage.  "stagetimeout" is VAMI's answer that the task still runs;  *)
(* "lost" a request whose answer never comes though it was accepted, which *)
(* carries none of the STAGE_TIMEOUT_MARKERS. *)
Stage ==
    /\ pc = "stage"
    /\ \/ \E r \in Replies \ {"ok"} :
            Ask(r) /\ FailsWith(r) /\ UNCHANGED apVars
       \/ /\ Busy /\ Ask("ok")
          /\ Return("false", "refused") /\ UNCHANGED apVars
       \/ /\ Ask("ok") /\ AcceptStage(resolved)
          /\ \/ AfterStage
             \/ /\ "stagetimeout" \in Faults
                /\ pc' = "waitStaged" /\ left' = WaitBudget
                /\ UNCHANGED <<flow, opt, resolved, inner, transients, preLeft, outcome>>
             \/ /\ "lost" \in Faults
                /\ Return("false", "readtimeout")
    /\ UNCHANGED <<faultVars, prechecked, calls>>

(* time.sleep(poll_interval): an outage wears off, the deadline comes nearer. *)
Sleep(budget) ==
    /\ left' \in 0..(budget - 1)
    /\ outage' = IF outage = 0 THEN 0 ELSE outage - 1

(* One round of wait_for_staged_update. *)
WaitStaged ==
    /\ pc = "waitStaged"
    /\ \E r \in Replies :
         /\ Ask(r)
         /\ IF r = "conn" THEN FailsWith(r) /\ UNCHANGED outage
            ELSE IF r = "ok" /\ StagedMatches(resolved)
            THEN AfterStage /\ UNCHANGED outage
            ELSE IF left = 0 THEN Return("false", "timeout") /\ UNCHANGED outage
            ELSE /\ Sleep(left)
                 /\ UNCHANGED <<pc, flow, opt, resolved, inner, transients, preLeft, outcome>>
    /\ UNCHANGED <<apVars, spared, bounces, meddling, meddled, prechecked, calls>>

(* A slip: the precheck loop has no deadline of its own. *)
MonitorSucceedsUndated ==
    IF ~inner THEN AfterMonitor
    ELSE /\ pc' = "precheck" /\ preLeft' = preLeft - 1
         /\ UNCHANGED <<flow, opt, resolved, inner, transients, left, outcome>>

(* Staged: back to update_prepared, or round again to the precheck. *)
MonitorSucceeds ==
    IF ~inner THEN AfterMonitor
    ELSE IF preLeft = 0 THEN Return("false", "timeout")
    ELSE /\ pc' = "precheck" /\ preLeft' \in 0..(preLeft - 1)
         /\ UNCHANGED <<flow, opt, resolved, inner, transients, left, outcome>>

(* monitor_stage, first request of a round: is it staged? *)
MonitorStaged ==
    /\ pc = "msStaged"
    /\ \E r \in Replies :
         /\ Ask(r)
         /\ IF r = "ok" /\ StagedMatches(resolved) THEN MonitorSucceeds
            ELSE IF r = "conn" THEN FailsWith(r)
            ELSE Goto("msStatus")
    /\ Sent

Limit == IF inner THEN DefaultTransient ELSE MaxTransient

(* A slip: a round does not look at the deadline. *)
NextRoundUndated(label, errors) ==
    /\ pc' = label /\ transients' = errors
    /\ outage' = IF outage = 0 THEN 0 ELSE outage - 1
    /\ UNCHANGED <<flow, opt, resolved, inner, left, preLeft, outcome>>

(* The deadline check that ends a round, and the sleep before the next. *)
NextRound(label, errors) ==
    IF left = 0 THEN Return("false", "timeout") /\ UNCHANGED outage
    ELSE /\ Sleep(left)
         /\ pc' = label /\ transients' = errors
         /\ UNCHANGED <<flow, opt, resolved, inner, preLeft, outcome>>

(* A slip: the session that was refused is kept. *)
TransientErrorSameSession(r, label, limit) ==
    /\ r \in {"transient", "unauth"} /\ r \in Replies
    /\ UNCHANGED <<token, spared>>
    /\ IF transients + 1 >= limit THEN Return("false", "transient") /\ UNCHANGED outage
       ELSE NextRound(label, transients + 1)

(* A status poll that failed: count it, drop the session, give up at the limit. *)
TransientError(r, label, limit) ==
    /\ r \in {"transient", "unauth"} /\ r \in Replies
    /\ token' = "none"
    /\ UNCHANGED spared
    /\ IF transients + 1 >= limit THEN Return("false", "transient") /\ UNCHANGED outage
       ELSE NextRound(label, transients + 1)

(* monitor_stage, second request of a round: has it failed? *)
MonitorStatus ==
    /\ pc = "msStatus"
    /\ \/ \E r \in HTTPError : TransientError(r, "msStaged", Limit)
       \/ \E r \in Replies \cap {"hard", "conn"} :
            Ask(r) /\ FailsWith(r) /\ UNCHANGED <<outage, spared>>
       \/ /\ Ask("ok") /\ spared' = Troubles
          /\ IF apState \in {"STAGE_FAILED", "INSTALL_FAILED"}
             THEN Return("false", "failed") /\ UNCHANGED outage
             ELSE NextRound("msStaged", 0)
    /\ UNCHANGED <<apVars, bounces, meddling, meddled, prechecked, calls>>

(* One attempt of _precheck_when_allowed: VAMI refuses it while it stages. *)
Precheck ==
    /\ pc = "precheck"
    /\ \/ \E r \in Replies \ {"ok"} :
            Ask(r) /\ FailsWith(r) /\ UNCHANGED prechecked
       \/ /\ Ask("ok") /\ apState = "STAGE_IN_PROGRESS"
          /\ EnterMonitor(TRUE, InnerBudget)
          /\ UNCHANGED <<preLeft, prechecked>>
       \/ /\ Ask("ok") /\ apState # "STAGE_IN_PROGRESS"
          /\ prechecked' = prechecked \cup {resolved}
          /\ Return("true", "done")
    /\ UNCHANGED <<apVars, faultVars, calls>>

(* POST install, and monitor_install if asked. *)
Install ==
    /\ pc = "install"
    /\ \/ \E r \in Replies \ {"ok"} :
            Ask(r) /\ FailsWith(r) /\ UNCHANGED apVars
       \/ /\ ~CanInstall(resolved) /\ Ask("ok")
          /\ Return("false", "refused") /\ UNCHANGED apVars
       \/ /\ Ask("ok") /\ AcceptInstall(resolved)
          /\ IF opt.monitor
             THEN /\ pc' = "miStatus" /\ transients' = 0 /\ left' = InstallBudget
                  /\ UNCHANGED <<flow, opt, resolved, inner, preLeft, outcome>>
             ELSE Return("true", "done")
       \/ /\ "lost" \in Faults
          /\ Ask("ok") /\ AcceptInstall(resolved) /\ Return("false", "readtimeout")
    /\ UNCHANGED <<faultVars, prechecked, calls>>

(* One round of monitor_install. *)
MonitorInstall ==
    /\ pc = "miStatus"
    /\ \/ \E r \in HTTPError : TransientError(r, "miStatus", MaxTransient)
       \/ \E r \in Replies \cap {"hard", "conn"} :
            Ask(r) /\ FailsWith(r) /\ UNCHANGED <<outage, spared>>
       \/ /\ Ask("ok") /\ spared' = Troubles
          /\ IF apState = "UP_TO_DATE" THEN Return("true", "done") /\ UNCHANGED outage
             ELSE IF apState = "INSTALL_FAILED"
             THEN Return("false", "failed") /\ UNCHANGED outage
             ELSE NextRound("miStatus", 0)
    /\ UNCHANGED <<apVars, bounces, meddling, meddled, prechecked, calls>>

(***************************************************************************)
(* The environment.                                                        *)
(***************************************************************************)

ExpireSession ==
    /\ token = "live" /\ "expiry" \in spared
    /\ token' = "expired"
    /\ spared' = spared \ {"expiry"}
    /\ UNCHANGED <<apVars, outage, bounces, meddling, meddled, callVars, prechecked, calls>>

Appliance == ApplianceWork /\ UNCHANGED <<faultVars, callVars, token, prechecked, calls>>

Disturb == (Bounce \/ Meddle) /\ UNCHANGED <<callVars, token, prechecked, calls>>

(***************************************************************************)
(* Specification.                                                          *)
(***************************************************************************)

Init ==
    /\ ApplianceInit
    /\ pc = "idle" /\ flow = "prepared"
    /\ opt \in Options
    /\ resolved = NoVersion
    /\ inner = FALSE /\ transients = 0 /\ left = 0 /\ preLeft = 0
    /\ token \in {"none", "expired"}
    /\ outcome = NoOutcome
    /\ prechecked = {}
    /\ calls = 0

Request == SetPolicy \/ Lookup \/ ListPending \/ Detail \/ ProbeStaged \/ Stage \/ WaitStaged
             \/ MonitorStaged \/ MonitorStatus \/ Precheck \/ Install \/ MonitorInstall

Call == update_prepared \/ update_installed \/ installed

Next == Call \/ Request \/ Appliance \/ ExpireSession \/ Disturb

Spec == Init /\ [][Next]_vars

(* A running call goes on.  Nothing is assumed of the appliance, which may *)
(* never finish what it has started. *)
FairSpec == Spec /\ WF_vars(Request)

(***************************************************************************)
(* Properties.                                                             *)
(***************************************************************************)

(* A success the caller may act on: monitored, or found already staged. *)
Claim ==
    IF outcome.result = "true" /\ (opt.monitor \/ outcome.why = "noop")
    THEN [kind |-> outcome.call, version |-> resolved]
    ELSE [kind |-> "nothing", version |-> NoVersion]

Lifecycle == INSTANCE PatchLifecycle
    WITH staged <- apStaged, running <- apInstalled, report <- Claim, disturbed <- meddled

(* What update_prepared and update_installed report agrees with the        *)
(* appliance: a reported "prepared" or "installed" was true when reported, *)
(* and only staged updates are installed, through every interleaving of    *)
(* requests, outages, lost answers and retries. *)
ReportsAreTrue == Lifecycle!Spec

(* Where a running call stands and what the appliance is doing agree.  A   *)
(* call that has staged finds its own version being staged, not another    *)
(* and no install; one that monitored finds a matching update staged when  *)
(* it prechecks; one that installs reads UP_TO_DATE of its own install.    *)
CallAgreesWithAppliance ==
    /\ Busy => apTarget \in Versions
    /\ apState = "INSTALL_IN_PROGRESS" => apStaged = apTarget
    /\ pc # "idle" => outcome = NoOutcome
    /\ pc = "detail" => resolved \in Versions
    /\ pc \in {"probe", "stage"} \cup LoopStages => flow = "prepared" /\ resolved \in Versions
    /\ pc \in {"install", "miStatus"} => flow = "installed" /\ resolved \in Versions
    /\ pc \in LoopStages => apState # "INSTALL_IN_PROGRESS"
    /\ pc \in LoopStages /\ ~meddled => apTarget = resolved
    /\ pc = "precheck" /\ opt.monitor /\ ~meddled => StagedMatches(resolved)
    /\ pc = "miStatus" /\ ~meddled =>
         apTarget = resolved /\ (apState = "UP_TO_DATE" => apInstalled = resolved)

(* Outages shorter than max_transient_errors polls, however many, and an   *)
(* expired session on top, never make monitor_stage or monitor_install     *)
(* give up: each answered poll starts the count anew and each failed one   *)
(* drops the session. *)
OutagesAreRidden ==
    MaxOutage + 1 < MaxTransient /\ MaxOutage + 1 < DefaultTransient
      => outcome.why # "transient"

(* The failed polls an outage and an expired session can still bring about *)
(* before a poll is answered. *)
AheadOutage == IF "outage" \in spared THEN MaxOutage ELSE outage
AheadExpiry == IF token = "expired" \/ "expiry" \in spared THEN 1 ELSE 0

(* Why outages are ridden, as an invariant that steps preserve: at most one *)
(* outage is due or under way; the session a monitor polls with was opened *)
(* by its own call, so at most one expiry is due or has come; and the polls *)
(* that failed and those that may still fail are together too few for the  *)
(* limit. *)
OutagesAreCounted ==
    /\ "outage" \in spared => outage = 0
    /\ pc \in LoopStages \cup {"miStatus"} /\ "expiry" \in spared => token # "expired"
    /\ pc \in {"msStaged", "msStatus", "miStatus"} =>
         transients + AheadOutage + AheadExpiry <= MaxOutage + 1

(* Every call of a state function returns: each loop has its deadline, also *)
(* when the appliance keeps refusing the precheck. *)
CallsReturn == pc # "idle" ~> pc = "idle"

(* The states' module docstring orders the work: stage, run prechecks, then *)
(* install.  What update_installed submits after an update_prepared with    *)
(* run_precheck has passed its precheck. *)
InstallsArePrechecked ==
    [][Install /\ apState' = "INSTALL_IN_PROGRESS" /\ opt.precheck
         => resolved \in prechecked]_vars

(***************************************************************************)
(* What CallsReturn rests on: the most requests a call can still make.     *)
(***************************************************************************)

(* A precheck and, when it is refused, the monitor inside its loop. *)
PrecheckRound == 2 * InnerBudget + 3

AfterStaging == (StageBudget + 1) * PrecheckRound

AheadOfStage == AfterStaging + 2 * StageBudget + 2 + WaitBudget + 2

(* From the version on: probe and stage, or install. *)
AheadOfWork == AheadOfStage + InstallBudget + 3

AfterThisMonitor == IF inner THEN preLeft * PrecheckRound ELSE AfterStaging

Ahead ==
    CASE pc = "policy"     -> AheadOfWork + 4
      [] pc = "lookup"     -> AheadOfWork + 3
      [] pc = "list"       -> AheadOfWork + 2
      [] pc = "detail"     -> AheadOfWork + 1
      [] pc = "probe"      -> AheadOfStage + 1
      [] pc = "stage"      -> AheadOfStage
      [] pc = "waitStaged" -> AfterStaging + 2 * StageBudget + 2 + left + 1
      [] pc = "msStaged"   -> AfterThisMonitor + 2 * left + 2
      [] pc = "msStatus"   -> AfterThisMonitor + 2 * left + 1
      [] pc = "precheck"   -> (preLeft + 1) * PrecheckRound
      [] pc = "install"    -> InstallBudget + 2
      [] pc = "miStatus"   -> left + 1
      [] OTHER             -> 0

(* Every request brings the call nearer to its return, also those that the *)
(* appliance does not answer or refuses; neither outages nor the appliance *)
(* nor another administrator take it back.  The two nested deadlines of    *)
(* _precheck_when_allowed multiply: they bound the call all the same. *)
RequestsRunOut ==
    [][/\ Request => Ahead' < Ahead
       /\ pc # "idle" /\ ~Request => Ahead' = Ahead]_vars
===============================================================================
