---------------------------- MODULE PatchLifecycle ----------------------------
(***************************************************************************)
(* What the owner of an appliance may rely on when the patch states report *)
(* success, whatever happens in between: only an update that is staged is  *)
(* ever installed, "prepared" is reported while a matching update is       *)
(* staged, and "installed" while the appliance runs that very version,     *)
(* unless another administrator interfered during the call.                *)
(***************************************************************************)
CONSTANTS Versions, NoVersion, PrefixPairs

VARIABLES
    staged,    \* the staged update, or NoVersion
    running,   \* the version the appliance runs
    report,    \* the success being reported, or Nothing
    disturbed  \* somebody else has acted since the call began

vars == <<staged, running, report, disturbed>>

Nothing == [kind |-> "nothing", version |-> NoVersion]

SameUpdate(a, b) == a = b \/ <<a, b>> \in PrefixPairs \/ <<b, a>> \in PrefixPairs

Init ==
    /\ staged \in Versions \cup {NoVersion}
    /\ running \in Versions
    /\ report = Nothing
    /\ disturbed = FALSE

(* The payload of some update is staged, or the staged one dropped. *)
Restage ==
    /\ staged' \in Versions \cup {NoVersion}
    /\ UNCHANGED <<running, report, disturbed>>

Upgrade ==
    /\ staged # NoVersion
    /\ running' = staged
    /\ staged' = NoVersion
    /\ UNCHANGED <<report, disturbed>>

Interfere ==
    /\ staged' \in Versions \cup {NoVersion}
    /\ disturbed' = TRUE
    /\ UNCHANGED <<running, report>>

NewCall ==
    /\ report' = Nothing
    /\ disturbed' = FALSE
    /\ UNCHANGED <<staged, running>>

ReportPrepared(v) ==
    /\ report = Nothing
    /\ disturbed \/ (staged # NoVersion /\ SameUpdate(staged, v))
    /\ report' = [kind |-> "prepared", version |-> v]
    /\ UNCHANGED <<staged, running, disturbed>>

ReportInstalled(v) ==
    /\ report = Nothing
    /\ disturbed \/ running = v
    /\ report' = [kind |-> "installed", version |-> v]
    /\ UNCHANGED <<staged, running, disturbed>>

Next ==
    \/ Restage \/ Upgrade \/ Interfere \/ NewCall
    \/ \E v \in Versions : ReportPrepared(v) \/ ReportInstalled(v)

Spec == Init /\ [][Next]_vars
===============================================================================
