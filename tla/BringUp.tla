------------------------------- MODULE BringUp -------------------------------
(***************************************************************************)
(* Bringing up the management domain through the VCF Installer: the states *)
(* complete and validated of states/vcf_installer_bringup.py, with the     *)
(* requests and the two waits of clients/installer_bringup.py.             *)
(*                                                                         *)
(* Each of Runs applies one of the states once; a bring-up takes hours and *)
(* outlives the run that submitted it, so a later run (or one that         *)
(* overlaps) has to find it in the list of the installer.                  *)
(***************************************************************************)
EXTENDS Naturals

CONSTANTS
    Runs,       \* applications of a state
    Concurrent, \* whether they may overlap
    Entries,    \* the states that are applied: "complete", "validated"
    Wait, Test, ValidateFirst, \* values of these options
    Budget,     \* polls before the deadline of a wait
    Faults,     \* "list": the list cannot be read; "conn", "lost": any other request
    None

ASSUME BringUpAssumption ==
    /\ Concurrent \in BOOLEAN
    /\ Entries \subseteq {"complete", "validated"}
    /\ \A choice \in {Wait, Test, ValidateFirst} : choice \subseteq BOOLEAN
    /\ Budget \in Nat
    /\ Faults \subseteq {"list", "conn", "lost"}
    /\ None \notin Runs

VARIABLES
    pc,         \* per run: the request it makes next
    opt,        \* per run: the state and its arguments
    sddc,       \* per run: whose bring-up it waits for or found
    left,       \* per run: polls before a deadline
    outcome,    \* per run: what it returned
    validation, \* per run: the validation it submitted
    bringup,    \* per run: the bring-up it submitted
    blind,      \* history: a run could not read the list
    overlap     \* history: two runs were under way at once

runVars == <<pc, opt, sddc, left, outcome>>
vars == <<runVars, validation, bringup, blind, overlap>>

PCs == {"new", "list", "validate", "waitValidation", "submit", "wait", "done"}
\* result None is "planned"; result True tells what it is true of
Outcomes == {"none", "completed", "submitted", "validated", "planned", "failed"}
Jobs == {"none", "running", "succeeded", "failed"}
Options == [entry : Entries, wait : Wait, test : Test, first : ValidateFirst]

TypeOK ==
    /\ pc \in [Runs -> PCs]
    /\ opt \in [Runs -> Options \cup {None}]
    /\ \A r \in Runs : pc[r] # "new" => opt[r] \in Options
    /\ sddc \in [Runs -> Runs \cup {None}]
    /\ left \in [Runs -> 0..Budget]
    /\ outcome \in [Runs -> Outcomes]
    /\ validation \in [Runs -> Jobs] /\ bringup \in [Runs -> Jobs]
    /\ blind \in BOOLEAN /\ overlap \in BOOLEAN

Goto(r, label) == pc' = [pc EXCEPT ![r] = label] /\ UNCHANGED outcome

Return(r, result) ==
    pc' = [pc EXCEPT ![r] = "done"] /\ outcome' = [outcome EXCEPT ![r] = result]

Await(r, label, s) ==
    /\ Goto(r, label)
    /\ sddc' = [sddc EXCEPT ![r] = s] /\ left' = [left EXCEPT ![r] = Budget]

(***************************************************************************)
(* The state functions.                                                    *)
(***************************************************************************)

Active(r) == pc[r] \notin {"new", "done"}

Start(r) ==
    /\ pc[r] = "new"
    /\ Concurrent \/ \A s \in Runs : ~Active(s)
    /\ overlap' = (overlap \/ \E s \in Runs : Active(s))
    /\ \E o \in Options :
         /\ opt' = [opt EXCEPT ![r] = o]
         /\ Goto(r, IF o.entry = "complete" THEN "list" ELSE "validate")
    /\ UNCHANGED <<sddc, left, validation, bringup, blind>>

(* No bring-up is known: plan, validate or submit one. *)
Fresh(r) ==
    /\ IF opt[r].test THEN Return(r, "planned")
       ELSE Goto(r, IF opt[r].first THEN "validate" ELSE "submit")
    /\ UNCHANGED <<sddc, left>>

(* An earlier bring-up, of s, decides what is left to do. *)
Reuse(r, s) ==
    CASE bringup[s] = "succeeded" ->
           Return(r, "completed") /\ sddc' = [sddc EXCEPT ![r] = s] /\ UNCHANGED left
      [] bringup[s] = "failed" -> Return(r, "failed") /\ UNCHANGED <<sddc, left>>
      [] bringup[s] = "running" /\ ~opt[r].test /\ opt[r].wait -> Await(r, "wait", s)
      [] OTHER -> /\ Return(r, IF opt[r].test THEN "planned" ELSE "submitted")
                  /\ UNCHANGED <<sddc, left>>

Listed == {s \in Runs : bringup[s] # "none"}

RunningNow == {s \in Runs : bringup[s] = "running"}

CandidatesEnded == Listed \ RunningNow

(* The one of the list that counts: the first that runs, or the first of   *)
(* all.  The order of the list is the installer's. *)
Candidates == IF RunningNow # {} THEN RunningNow ELSE Listed

FindActive(r) ==
    /\ pc[r] = "list"
    /\ \/ /\ Candidates = {} /\ Fresh(r)
          /\ UNCHANGED blind
       \/ /\ \E s \in Candidates : Reuse(r, s)
          /\ UNCHANGED blind
       \/ /\ "list" \in Faults /\ Fresh(r)  \* an error counts as an empty list
          /\ blind' = TRUE
    /\ UNCHANGED <<opt, validation, bringup, overlap>>

Failing(r) == Return(r, "failed") /\ UNCHANGED <<sddc, left>>

(* POST /v1/sddcs/validations, also with test=True. *)
Validate(r) ==
    /\ pc[r] = "validate"
    /\ \/ /\ validation' = [validation EXCEPT ![r] = "running"]
          /\ CASE opt[r].entry = "complete" -> Await(r, "waitValidation", None)
               [] ~opt[r].wait -> Return(r, "submitted") /\ UNCHANGED <<sddc, left>>
               [] opt[r].test -> Return(r, "planned") /\ UNCHANGED <<sddc, left>>
               [] OTHER -> Await(r, "waitValidation", None)
       \/ "lost" \in Faults /\ Failing(r) /\ validation' = [validation EXCEPT ![r] = "running"]
    /\ UNCHANGED <<opt, bringup, blind, overlap>>

PollAgainUndated(r) == UNCHANGED <<pc, outcome, sddc, left>>

PollAgainLate(r) == left' = [left EXCEPT ![r] = left[r] - 1] /\ UNCHANGED <<pc, outcome, sddc>>

(* A poll of wait or wait_validation finds the job still running. *)
PollAgain(r) ==
    /\ left[r] > 0 /\ left' = [left EXCEPT ![r] = left[r] - 1]
    /\ UNCHANGED <<pc, outcome, sddc>>

PollAnyEnd(r, job, success) ==
    \/ job = "running" /\ PollAgain(r)
    \/ job = "running" /\ left[r] = 0 /\ Failing(r)
    \/ job \in {"failed", "succeeded"} /\ success /\ UNCHANGED <<sddc, left>>

(* Any status that is neither running nor a success ends the wait as a     *)
(* failure, and so does the deadline. *)
Poll(r, job, success) ==
    \/ job = "running" /\ PollAgain(r)
    \/ job = "running" /\ left[r] = 0 /\ Failing(r)
    \/ job = "failed" /\ Failing(r)
    \/ job = "succeeded" /\ success /\ UNCHANGED <<sddc, left>>

Validated(r) == IF opt[r].entry = "complete" THEN Goto(r, "submit") ELSE Return(r, "validated")

WaitValidation(r) ==
    /\ pc[r] = "waitValidation"
    /\ Poll(r, validation[r], Validated(r))
    /\ UNCHANGED <<opt, validation, bringup, blind, overlap>>

(* POST /v1/sddcs.  The installer may refuse it while another one runs. *)
Submit(r) ==
    /\ pc[r] = "submit"
    /\ \/ /\ bringup' = [bringup EXCEPT ![r] = "running"]
          /\ IF opt[r].wait THEN Await(r, "wait", r)
             ELSE Return(r, "submitted") /\ UNCHANGED <<sddc, left>>
       \/ RunningNow # {} /\ Failing(r) /\ UNCHANGED bringup
       \/ "lost" \in Faults /\ Failing(r) /\ bringup' = [bringup EXCEPT ![r] = "running"]
    /\ UNCHANGED <<opt, validation, blind, overlap>>

WaitBringup(r) ==
    /\ pc[r] = "wait"
    /\ Poll(r, bringup[sddc[r]], Return(r, "completed"))
    /\ UNCHANGED <<opt, validation, bringup, blind, overlap>>

(* A request that does not get through ends the run, a poll like any other; *)
(* that of the list does not. *)
Disconnect(r) ==
    /\ "conn" \in Faults
    /\ pc[r] \in {"validate", "waitValidation", "submit", "wait"}
    /\ Failing(r)
    /\ UNCHANGED <<opt, validation, bringup, blind, overlap>>

(***************************************************************************)
(* The installer, and the operator who retries a failed bring-up.          *)
(***************************************************************************)

ValidationEnds(r) ==
    /\ validation[r] = "running"
    /\ \E end \in {"succeeded", "failed"} : validation' = [validation EXCEPT ![r] = end]
    /\ UNCHANGED <<runVars, bringup, blind, overlap>>

BringupEnds(r) ==
    /\ bringup[r] = "running"
    /\ \E end \in {"succeeded", "failed"} : bringup' = [bringup EXCEPT ![r] = end]
    /\ UNCHANGED <<runVars, validation, blind, overlap>>

retry(r) ==
    /\ bringup[r] = "failed"
    /\ bringup' = [bringup EXCEPT ![r] = "running"]
    /\ UNCHANGED <<runVars, validation, blind, overlap>>

(***************************************************************************)
(* Specification.                                                          *)
(***************************************************************************)

Init ==
    /\ pc = [r \in Runs |-> "new"]
    /\ opt = [r \in Runs |-> None]
    /\ sddc = [r \in Runs |-> None]
    /\ left = [r \in Runs |-> 0]
    /\ outcome = [r \in Runs |-> "none"]
    /\ validation = [r \in Runs |-> "none"] /\ bringup = [r \in Runs |-> "none"]
    /\ blind = FALSE /\ overlap = FALSE

Request(r) == FindActive(r) \/ Validate(r) \/ WaitValidation(r) \/ Submit(r) \/ WaitBringup(r)

Steps(r) == Request(r) \/ Disconnect(r)

Installer(r) == ValidationEnds(r) \/ BringupEnds(r)

Next == \E r \in Runs : Start(r) \/ Steps(r) \/ Installer(r) \/ retry(r)

Spec == Init /\ [][Next]_vars

(* A run goes on; nothing is assumed of the installer, nor that a          *)
(* connection ever fails. *)
FairSpec == Spec /\ \A r \in Runs : WF_vars(Request(r))

(***************************************************************************)
(* Properties.                                                             *)
(***************************************************************************)

(* Runs that come one after the other and can read the list bring up one   *)
(* domain: whatever was lost, timed out or failed in a run, no later one   *)
(* submits a second bring-up. *)
OneBringup == ~blind /\ ~overlap => \A r, s \in Listed : r = s

(* A run that reports a completed bring-up or a valid spec has the         *)
(* installer's word for it, and a bring-up that is complete stays so. *)
SuccessIsTrue ==
    \A r \in Runs :
        /\ outcome[r] = "completed" => sddc[r] # None /\ bringup[sddc[r]] = "succeeded"
        /\ outcome[r] = "validated" => validation[r] = "succeeded"

(* "validate_first runs validation before submitting": with it, nothing is *)
(* submitted unless a validation of this very run has succeeded. *)
ValidatedFirst ==
    [][\A r \in Runs : bringup[r] = "none" /\ bringup'[r] # "none" /\ opt[r].first
           => validation[r] = "succeeded"]_vars

(* Every run returns, whatever becomes of its jobs. *)
RunsEnd == \A r \in Runs : pc[r] # "new" ~> pc[r] = "done"

(***************************************************************************)
(* What OneBringup, SuccessIsTrue and ValidatedFirst rest on: where a run  *)
(* stands and what it and the others have submitted.                       *)
(***************************************************************************)

Preparing == {"validate", "waitValidation", "submit"}

Alone == ~overlap => \A r, s \in Runs : Active(r) /\ Active(s) => r = s

(* A run on its way to submit has seen an empty list, and nobody else has  *)
(* submitted anything since. *)
NoneListed ==
    ~blind /\ ~overlap =>
        \A r \in Runs : pc[r] \in Preparing /\ opt[r].entry = "complete" => Listed = {}

InStep ==
    \A r \in Runs :
        /\ pc[r] \in {"list", "submit"} => opt[r].entry = "complete"
        /\ pc[r] \in Preparing \cup {"new", "list"} => bringup[r] = "none"
        /\ pc[r] = "submit" /\ opt[r].first => validation[r] = "succeeded"
        /\ pc[r] = "wait" => sddc[r] # None
        /\ pc[r] # "done" => outcome[r] = "none"

BringUpInv == Alone /\ NoneListed /\ InStep /\ OneBringup /\ SuccessIsTrue
(***************************************************************************)
(* What RunsEnd rests on.                                                  *)
(***************************************************************************)

(* The most requests a run that has begun can still make. *)
Ahead(r) ==
    CASE pc[r] = "list" -> 2 * Budget + 5
      [] pc[r] = "validate" -> 2 * Budget + 4
      [] pc[r] = "waitValidation" -> Budget + 3 + left[r]
      [] pc[r] = "submit" -> Budget + 2
      [] pc[r] = "wait" -> 1 + left[r]
      [] OTHER -> 0

(* Every request brings its run nearer to the end, and whatever the other  *)
(* runs, the installer and the operator do, they take no run back: a       *)
(* bring-up that is retried for ever keeps none of those who wait for it. *)
RequestsRunOut ==
    [][\A r \in Runs :
         /\ Steps(r) => Ahead(r)' < Ahead(r)
         /\ pc[r] # "new" /\ ~Steps(r) => Ahead(r)' = Ahead(r)]_vars
=============================================================================
