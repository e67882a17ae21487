--------------------------- MODULE BringUpProofs ---------------------------
(***************************************************************************)
(* Proofs about BringUp, for any number of runs, overlapping or not, any   *)
(* options, budget and faults.                                             *)
(***************************************************************************)
EXTENDS BringUp, TLAPS

(***************************************************************************)
(* Types.                                                                  *)
(***************************************************************************)

LEMMA StartTypes ==
    ASSUME TypeOK, NEW r \in Runs, Start(r)
    PROVE  TypeOK'
<1>1. PICK o \in Options :
        /\ opt' = [opt EXCEPT ![r] = o]
        /\ Goto(r, IF o.entry = "complete" THEN "list" ELSE "validate")
  BY DEF Start
<1>2. pc' \in [Runs -> PCs] /\ outcome' \in [Runs -> Outcomes]
  BY <1>1 DEF TypeOK, Goto, PCs
<1>3. opt' \in [Runs -> Options \cup {None}]
  BY <1>1 DEF TypeOK
<1>4. \A s \in Runs : pc'[s] # "new" => opt'[s] \in Options
  BY <1>1 DEF TypeOK, Goto
<1>5. overlap' \in BOOLEAN
  BY Zenon DEF Start, TypeOK
<1> QED BY <1>2, <1>3, <1>4, <1>5 DEF Start, TypeOK

(* A step of a run touches its own entries only. *)
LEMMA OwnStep ==
    ASSUME TypeOK, NEW r \in Runs, Steps(r)
    PROVE  /\ \E label \in PCs \ {"new"} : pc' = [pc EXCEPT ![r] = label]
           /\ \E result \in Outcomes : outcome' = [outcome EXCEPT ![r] = result]
           /\ \E s \in Runs \cup {None} : sddc' = [sddc EXCEPT ![r] = s]
           /\ \E n \in 0..Budget : left' = [left EXCEPT ![r] = n]
           /\ \E job \in Jobs : validation' = [validation EXCEPT ![r] = job]
           /\ \E job \in Jobs : bringup' = [bringup EXCEPT ![r] = job]
           /\ UNCHANGED <<opt, overlap>>
<1> USE BringUpAssumption
        DEF TypeOK, Goto, Return, Await, Failing, PCs, Outcomes, Jobs
<1>0. pc[r] \in PCs \ {"new"}
  BY DEF Steps, Request, FindActive, Validate, WaitValidation, Submit, WaitBringup, Disconnect
<1>1. CASE FindActive(r)
  <2>1. CASE Fresh(r)
    BY <1>1, <2>1 DEF FindActive, Fresh
  <2>2. ASSUME NEW s \in Runs, bringup[s] # "none", Reuse(r, s)
        PROVE  /\ \E label \in PCs \ {"new"} : pc' = [pc EXCEPT ![r] = label]
               /\ \E result \in Outcomes : outcome' = [outcome EXCEPT ![r] = result]
               /\ \E t \in Runs \cup {None} : sddc' = [sddc EXCEPT ![r] = t]
               /\ \E n \in 0..Budget : left' = [left EXCEPT ![r] = n]
    BY <1>0, <2>2 DEF Reuse
  <2> QED BY <1>1, <2>1, <2>2 DEF FindActive, Candidates, Listed, RunningNow
<1>2. CASE Validate(r)
  BY <1>0, <1>2 DEF Validate
<1>3. CASE WaitValidation(r)
  BY <1>0, <1>3 DEF WaitValidation, Poll, PollAgain, Validated
<1>4. CASE Submit(r)
  BY <1>0, <1>4 DEF Submit
<1>5. CASE WaitBringup(r)
  BY <1>0, <1>5 DEF WaitBringup, Poll, PollAgain
<1>6. CASE Disconnect(r)
  <2>1. UNCHANGED <<opt, overlap, sddc, left, validation, bringup>>
    BY <1>6 DEF Disconnect
  <2>2. pc' = [pc EXCEPT ![r] = "done"] /\ outcome' = [outcome EXCEPT ![r] = "failed"]
    BY <1>6 DEF Disconnect
  <2>3. /\ sddc = [sddc EXCEPT ![r] = sddc[r]] /\ left = [left EXCEPT ![r] = left[r]]
        /\ validation = [validation EXCEPT ![r] = validation[r]]
        /\ bringup = [bringup EXCEPT ![r] = bringup[r]]
    OBVIOUS
  <2> QED BY <2>1, <2>2, <2>3
<1> QED BY <1>1, <1>2, <1>3, <1>4, <1>5, <1>6 DEF Steps, Request

LEMMA StepTypes ==
    ASSUME TypeOK, NEW r \in Runs, Steps(r)
    PROVE  TypeOK'
<1>1. blind' \in BOOLEAN
  <2>1. blind' = blind \/ blind' = TRUE
    BY DEF Steps, Request, FindActive, Validate, WaitValidation, Submit, WaitBringup, Disconnect
  <2> QED BY <2>1, Zenon DEF TypeOK
<1>2. pc[r] # "new"
  BY DEF Steps, Request, FindActive, Validate, WaitValidation, Submit, WaitBringup, Disconnect
<1> QED BY OwnStep, <1>1, <1>2 DEF TypeOK

LEMMA JobTypes ==
    ASSUME TypeOK, NEW r \in Runs, Installer(r) \/ retry(r)
    PROVE  TypeOK'
BY DEF TypeOK, Installer, ValidationEnds, BringupEnds, retry, Jobs, runVars

LEMMA NextTypes == TypeOK /\ [Next]_vars => TypeOK'
<1>1. ASSUME TypeOK, UNCHANGED vars PROVE TypeOK'
  BY <1>1 DEF TypeOK, vars, runVars
<1> QED BY <1>1, StartTypes, StepTypes, JobTypes DEF Next

(* The types hold. *)
THEOREM BringUpTypes == Spec => []TypeOK
<1>1. ASSUME Init PROVE TypeOK
  <2>1. blind \in BOOLEAN /\ overlap \in BOOLEAN
    BY <1>1, Zenon DEF Init
  <2>2. left \in [Runs -> 0..Budget]
    BY <1>1, BringUpAssumption DEF Init
  <2>3. opt \in [Runs -> Options \cup {None}] /\ \A r \in Runs : pc[r] = "new"
    BY <1>1 DEF Init
  <2> QED BY <1>1, <2>1, <2>2, <2>3 DEF Init, TypeOK, PCs, Outcomes, Jobs
<1> QED BY <1>1, NextTypes, PTL DEF Spec

(***************************************************************************)
(* The invariant.                                                          *)
(***************************************************************************)

(* Bring-ups and validations come only from the run that submits them. *)
LEMMA Submissions ==
    ASSUME TypeOK, NEW r \in Runs, Steps(r)
    PROVE  /\ \/ bringup' = bringup
              \/ pc[r] = "submit" /\ bringup' = [bringup EXCEPT ![r] = "running"]
           /\ \/ validation' = validation
              \/ pc[r] = "validate" /\ validation' = [validation EXCEPT ![r] = "running"]
           /\ blind => blind'
<1>1. CASE FindActive(r)
  <2>1. blind => blind'
    BY <1>1, Zenon DEF FindActive
  <2> QED BY <1>1, <2>1 DEF FindActive
<1>2. CASE Validate(r) \/ WaitValidation(r) \/ Submit(r) \/ WaitBringup(r) \/ Disconnect(r)
  <2>1. blind' = blind
    BY <1>2 DEF Validate, WaitValidation, Submit, WaitBringup, Disconnect
  <2> QED BY <1>2, <2>1 DEF Validate, WaitValidation, Submit, WaitBringup, Disconnect
<1> QED BY <1>1, <1>2 DEF Steps, Request

LEMMA AloneKept ==
    ASSUME TypeOK, Alone, NEW r \in Runs, Start(r) \/ Steps(r)
    PROVE  Alone'
<1>1. CASE Start(r)
  <2>1. \A s \in Runs \ {r} : pc'[s] = pc[s]
    BY <1>1 DEF Start, Goto, TypeOK
  <2>2. ~overlap' => \A s \in Runs : ~Active(s)
    BY <1>1 DEF Start
  <2> QED BY <2>1, <2>2 DEF Alone, Active
<1>2. CASE Steps(r)
  <2>1. Active(r)
    BY <1>2 DEF Active, Steps, Request, FindActive, Validate, WaitValidation, Submit, WaitBringup,
           Disconnect
  <2>2. overlap' = overlap /\ \A s \in Runs \ {r} : pc'[s] = pc[s]
    BY <1>2, OwnStep DEF TypeOK
  <2> QED BY <2>1, <2>2 DEF Alone, Active
<1> QED BY <1>1, <1>2

(* Where a run's own step leaves it. *)
LEMMA InStepOwn ==
    ASSUME TypeOK, InStep, NEW r \in Runs, Steps(r)
    PROVE  /\ pc'[r] \notin {"new", "list"}
           /\ pc'[r] = "submit" => opt[r].entry = "complete"
           /\ pc'[r] \in Preparing => bringup'[r] = "none"
           /\ pc'[r] = "submit" /\ opt[r].first => validation'[r] = "succeeded"
           /\ pc'[r] = "wait" => sddc'[r] # None
           /\ pc'[r] # "done" => outcome'[r] = "none"
<1> USE BringUpAssumption DEF TypeOK, InStep, Goto, Return, Await, Failing, Preparing
<1>0. opt[r] \in Options
  BY DEF Steps, Request, FindActive, Validate, WaitValidation, Submit, WaitBringup, Disconnect
<1>1. CASE FindActive(r)
  <2>1. CASE Fresh(r)
    BY <1>1, <2>1 DEF FindActive, Fresh
  <2>2. ASSUME NEW s \in Runs, bringup[s] # "none", Reuse(r, s)
        PROVE  /\ pc'[r] \in {"wait", "done"}
               /\ pc'[r] = "wait" => sddc'[r] = s /\ outcome'[r] = outcome[r]
    BY <1>1, <2>2 DEF FindActive, Reuse, Jobs
  <2> QED BY <1>1, <2>1, <2>2 DEF FindActive, Candidates, Listed, RunningNow
<1>2. CASE Validate(r)
  BY <1>2 DEF Validate
<1>3. CASE WaitValidation(r)
  BY <1>3 DEF WaitValidation, Poll, PollAgain, Validated
<1>4. CASE Submit(r)
  BY <1>4 DEF Submit
<1>5. CASE WaitBringup(r)
  BY <1>5 DEF WaitBringup, Poll, PollAgain
<1>6. CASE Disconnect(r)
  BY <1>0, <1>6 DEF Disconnect
<1> QED BY <1>1, <1>2, <1>3, <1>4, <1>5, <1>6 DEF Steps, Request

LEMMA InStepKept ==
    ASSUME TypeOK, InStep, NEW r \in Runs, Start(r) \/ Steps(r)
    PROVE  InStep'
<1>1. CASE Start(r)
  <2>1. PICK o \in Options :
          /\ opt' = [opt EXCEPT ![r] = o]
          /\ Goto(r, IF o.entry = "complete" THEN "list" ELSE "validate")
    BY <1>1 DEF Start
  <2>2. UNCHANGED <<sddc, validation, bringup, outcome>>
    BY <1>1, <2>1 DEF Start, Goto
  <2>3. \A s \in Runs \ {r} : pc'[s] = pc[s] /\ opt'[s] = opt[s]
    BY <2>1 DEF Goto, TypeOK
  <2>4. pc[r] = "new" /\ opt'[r] = o
    BY <1>1, <2>1 DEF Start, TypeOK
  <2>5. (pc'[r] = "list" /\ o.entry = "complete") \/ pc'[r] = "validate"
    BY <2>1 DEF Goto, TypeOK
  <2> QED BY <2>2, <2>3, <2>4, <2>5 DEF InStep, Preparing
<1>2. CASE Steps(r)
  <2>1. \A s \in Runs \ {r} :
          /\ pc'[s] = pc[s] /\ outcome'[s] = outcome[s] /\ sddc'[s] = sddc[s]
          /\ validation'[s] = validation[s] /\ bringup'[s] = bringup[s]
    BY <1>2, OwnStep DEF TypeOK
  <2>2. opt' = opt
    BY <1>2, OwnStep
  <2>3. pc'[r] \in Preparing \cup {"new", "list"} => bringup'[r] = "none"
    BY <1>2, InStepOwn
  <2> QED BY <1>2, <2>1, <2>2, <2>3, InStepOwn DEF InStep
<1> QED BY <1>1, <1>2

(* A run that submits does not prepare any more. *)
LEMMA SubmitLeaves ==
    ASSUME TypeOK, NEW r \in Runs, Steps(r), pc[r] = "submit"
    PROVE  pc'[r] \notin Preparing
BY DEF TypeOK, Steps, Request, FindActive, Validate, WaitValidation, Submit, WaitBringup,
       Disconnect, Preparing,
       Goto, Return, Await, Failing

(* A run that begins to prepare has read an empty list, or none at all. *)
LEMMA FoundNothing ==
    ASSUME TypeOK, NEW r \in Runs, Steps(r), pc[r] \notin Preparing, pc'[r] \in Preparing, ~blind'
    PROVE  Listed = {}
<1>1. CASE FindActive(r)
  <2>1. ASSUME NEW s \in Runs, bringup[s] # "none", Reuse(r, s) PROVE pc'[r] \in {"wait", "done"}
    BY <1>1, <2>1 DEF FindActive, Reuse, Jobs, TypeOK, Goto, Return, Await
  <2>2. Candidates = {}
    BY <1>1, <2>1 DEF FindActive, Preparing, Candidates, Listed, RunningNow
  <2> QED BY <2>2 DEF Candidates, RunningNow, Listed
<1>2. CASE Validate(r) \/ WaitValidation(r) \/ Submit(r)
  BY <1>2 DEF Validate, WaitValidation, Submit, Preparing
<1>3. CASE WaitBringup(r)
  BY <1>3 DEF WaitBringup, Poll, PollAgain, Failing, Return, TypeOK, Preparing
<1>4. CASE Disconnect(r)
  BY <1>4 DEF Disconnect, Failing, Return, TypeOK, Preparing
<1> QED BY <1>1, <1>2, <1>3, <1>4 DEF Steps, Request

LEMMA NoneListedKept ==
    ASSUME TypeOK, Alone, NoneListed, InStep, NEW r \in Runs, Start(r) \/ Steps(r)
    PROVE  NoneListed'
<1>1. CASE Start(r)
  <2>1. PICK o \in Options :
          /\ opt' = [opt EXCEPT ![r] = o]
          /\ Goto(r, IF o.entry = "complete" THEN "list" ELSE "validate")
    BY <1>1 DEF Start
  <2>2. \A s \in Runs \ {r} : pc'[s] = pc[s] /\ opt'[s] = opt[s]
    BY <2>1 DEF Goto, TypeOK
  <2>3. ~(pc'[r] \in Preparing /\ opt'[r].entry = "complete")
    BY <2>1 DEF Goto, TypeOK, Preparing
  <2>4. Listed' = Listed /\ blind' = blind /\ (overlap => overlap')
    BY <1>1 DEF Start, Listed
  <2> QED BY <2>2, <2>3, <2>4 DEF NoneListed
<1>2. CASE Steps(r)
  <2> SUFFICES ASSUME ~blind', ~overlap', NEW s \in Runs,
                      pc'[s] \in Preparing, opt'[s].entry = "complete"
               PROVE  Listed' = {}
    BY DEF NoneListed
  <2>1. ~blind /\ ~overlap /\ opt' = opt
    BY <1>2, OwnStep, Submissions
  <2>2. Active(r)
    BY <1>2 DEF Active, Steps, Request, FindActive, Validate, WaitValidation, Submit, WaitBringup,
           Disconnect
  <2>3. s = r
    <3>1. ASSUME s # r PROVE Active(s)
      BY <1>2, <3>1, OwnStep DEF TypeOK, Active, Preparing
    <3> QED BY <2>1, <2>2, <3>1 DEF Alone
  <2>4. pc[r] # "submit"
    BY <1>2, <2>3, SubmitLeaves
  <2>5. Listed' = Listed
    BY <1>2, <2>4, Submissions DEF Listed
  <2>6. CASE pc[r] \in Preparing
    BY <2>1, <2>3, <2>5, <2>6 DEF NoneListed
  <2>7. CASE pc[r] \notin Preparing
    BY <1>2, <2>1, <2>3, <2>5, <2>7, FoundNothing
  <2> QED BY <2>6, <2>7
<1> QED BY <1>1, <1>2

LEMMA OneKept ==
    ASSUME TypeOK, NoneListed, InStep, OneBringup, NEW r \in Runs, Start(r) \/ Steps(r)
    PROVE  OneBringup'
<1>1. CASE Start(r)
  BY <1>1 DEF Start, OneBringup, Listed
<1>2. CASE Steps(r)
  <2> SUFFICES ASSUME ~blind', ~overlap' PROVE \A s, t \in Listed' : s = t
    BY DEF OneBringup
  <2>1. ~blind /\ ~overlap
    BY <1>2, OwnStep, Submissions
  <2>2. CASE bringup' = bringup
    BY <2>1, <2>2 DEF OneBringup, Listed
  <2>3. CASE pc[r] = "submit" /\ bringup' = [bringup EXCEPT ![r] = "running"]
    <3>1. Listed = {}
      BY <2>1, <2>3 DEF NoneListed, InStep, Preparing
    <3>2. \A s \in Listed' : s = r
      BY <2>3, <3>1 DEF Listed, TypeOK
    <3> QED BY <3>2
  <2> QED BY <1>2, <2>2, <2>3, Submissions
<1> QED BY <1>1, <1>2

(* What a run reports in a step of its own is so at that moment. *)
LEMMA SuccessOwn ==
    ASSUME TypeOK, InStep, SuccessIsTrue, NEW r \in Runs, Steps(r)
    PROVE  /\ outcome'[r] = "completed" => sddc'[r] # None /\ bringup'[sddc'[r]] = "succeeded"
           /\ outcome'[r] = "validated" => validation'[r] = "succeeded"
<1> USE BringUpAssumption DEF TypeOK, InStep, Goto, Return, Await, Failing
<1>0. outcome[r] = "none"
  BY DEF Steps, Request, FindActive, Validate, WaitValidation, Submit, WaitBringup, Disconnect
<1>1. CASE FindActive(r)
  <2>1. CASE Fresh(r)
    BY <1>0, <1>1, <2>1 DEF FindActive, Fresh
  <2>2. ASSUME NEW s \in Runs, bringup[s] # "none", Reuse(r, s)
        PROVE  /\ outcome'[r] # "validated"
               /\ outcome'[r] = "completed" => sddc'[r] = s /\ bringup[s] = "succeeded"
    BY <1>0, <2>2 DEF Reuse, Jobs
  <2>3. bringup' = bringup
    BY <1>1 DEF FindActive
  <2> QED BY <1>1, <2>1, <2>2, <2>3 DEF FindActive, Candidates, Listed, RunningNow
<1>2. CASE Validate(r)
  BY <1>0, <1>2 DEF Validate
<1>3. CASE WaitValidation(r)
  BY <1>0, <1>3 DEF WaitValidation, Poll, PollAgain, Validated
<1>4. CASE Submit(r)
  BY <1>0, <1>4 DEF Submit
<1>5. CASE WaitBringup(r)
  BY <1>0, <1>5 DEF WaitBringup, Poll, PollAgain
<1>6. CASE Disconnect(r)
  BY <1>0, <1>6 DEF Disconnect
<1> QED BY <1>1, <1>2, <1>3, <1>4, <1>5, <1>6 DEF Steps, Request

LEMMA SuccessKept ==
    ASSUME TypeOK, InStep, SuccessIsTrue, NEW r \in Runs, Start(r) \/ Steps(r)
    PROVE  SuccessIsTrue'
<1>1. CASE Start(r)
  BY <1>1 DEF Start, Goto, SuccessIsTrue
<1>2. CASE Steps(r)
  <2>1. \A s \in Runs : bringup[s] = "succeeded" => bringup'[s] = "succeeded"
    BY <1>2, Submissions DEF InStep, Preparing, TypeOK
  <2>2. \A s \in Runs \ {r} :
          outcome'[s] = outcome[s] /\ sddc'[s] = sddc[s] /\ validation'[s] = validation[s]
    BY <1>2, OwnStep DEF TypeOK
  <2>3. \A s \in Runs : sddc[s] \in Runs \cup {None}
    BY DEF TypeOK
  <2>4. /\ outcome'[r] = "completed" => sddc'[r] # None /\ bringup'[sddc'[r]] = "succeeded"
        /\ outcome'[r] = "validated" => validation'[r] = "succeeded"
    BY <1>2, <2>1, SuccessOwn
  <2> QED BY <2>1, <2>2, <2>3, <2>4 DEF SuccessIsTrue
<1> QED BY <1>1, <1>2

(* What the installer does to the jobs keeps everything: it takes up none, *)
(* and one that has succeeded stays so. *)
LEMMA JobsKept ==
    ASSUME TypeOK, BringUpInv, NEW r \in Runs, Installer(r) \/ retry(r)
    PROVE  BringUpInv'
<1>1. UNCHANGED <<runVars, blind, overlap>>
  BY DEF Installer, ValidationEnds, BringupEnds, retry
<1>2. \A s \in Runs :
        /\ bringup[s] = "none" <=> bringup'[s] = "none"
        /\ bringup[s] = "succeeded" => bringup'[s] = "succeeded"
        /\ validation[s] = "succeeded" => validation'[s] = "succeeded"
  BY DEF TypeOK, Installer, ValidationEnds, BringupEnds, retry
<1>3. Listed' = Listed
  BY <1>2 DEF Listed
<1>4. Alone' /\ NoneListed' /\ OneBringup'
  BY <1>1, <1>3 DEF BringUpInv, Alone, NoneListed, OneBringup, Active, runVars
<1>5. InStep'
  BY <1>1, <1>2 DEF BringUpInv, InStep, runVars, Preparing
<1>6. SuccessIsTrue'
  <2>1. \A s \in Runs : sddc[s] \in Runs \cup {None}
    BY DEF TypeOK
  <2> QED BY <1>1, <1>2, <2>1 DEF BringUpInv, SuccessIsTrue, runVars
<1> QED BY <1>4, <1>5, <1>6 DEF BringUpInv

LEMMA NextKeeps == TypeOK /\ BringUpInv /\ [Next]_vars => BringUpInv'
<1> SUFFICES ASSUME TypeOK, BringUpInv, [Next]_vars PROVE BringUpInv'
  OBVIOUS
<1>1. CASE UNCHANGED vars
  BY <1>1 DEF vars, runVars, BringUpInv, Alone, NoneListed, InStep, OneBringup, SuccessIsTrue,
              Active, Listed, Preparing
<1>2. ASSUME NEW r \in Runs, Start(r) \/ Steps(r) PROVE BringUpInv'
  BY <1>2, AloneKept, NoneListedKept, InStepKept, OneKept, SuccessKept DEF BringUpInv
<1>3. ASSUME NEW r \in Runs, Installer(r) \/ retry(r) PROVE BringUpInv'
  BY <1>3, JobsKept
<1> QED BY <1>1, <1>2, <1>3 DEF Next

THEOREM BringUpInvHolds == Spec => []BringUpInv
<1>1. Init => BringUpInv
  BY DEF Init, BringUpInv, Alone, NoneListed, InStep, OneBringup, SuccessIsTrue, Active,
         Listed, Preparing
<1> QED BY <1>1, NextKeeps, BringUpTypes, PTL DEF Spec

(* Runs that come one after the other and can read the list bring up one   *)
(* domain, however many they are and whatever fails in them. *)
THEOREM OneBringupHolds == Spec => []OneBringup
<1>1. BringUpInv => OneBringup
  BY DEF BringUpInv
<1> QED BY <1>1, BringUpInvHolds, PTL

(* What is reported as complete or valid is so, and stays so. *)
THEOREM SuccessHolds == Spec => []SuccessIsTrue
<1>1. BringUpInv => SuccessIsTrue
  BY DEF BringUpInv
<1> QED BY <1>1, BringUpInvHolds, PTL

(* With validate_first nothing is submitted unless its validation has      *)
(* succeeded. *)
THEOREM ValidatedHolds == Spec => ValidatedFirst
<1> DEFINE Checked == \A r \in Runs : bringup[r] = "none" /\ bringup'[r] # "none" /\ opt[r].first
                          => validation[r] = "succeeded"
<1>1. ASSUME TypeOK, BringUpInv, [Next]_vars PROVE [Checked]_vars
  <2>1. ASSUME NEW r \in Runs, Start(r) PROVE Checked
    BY <2>1 DEF Start
  <2>2. ASSUME NEW r \in Runs, Steps(r) PROVE Checked
    BY <1>1, <2>2, Submissions DEF BringUpInv, InStep, TypeOK
  <2>3. ASSUME NEW r \in Runs, Installer(r) \/ retry(r) PROVE Checked
    BY <1>1, <2>3 DEF Installer, ValidationEnds, BringupEnds, retry, TypeOK
  <2> QED BY <1>1, <2>1, <2>2, <2>3 DEF Next
<1> QED BY <1>1, BringUpTypes, BringUpInvHolds, PTL DEF Spec, ValidatedFirst

(***************************************************************************)
(* The requests of a run run out.                                          *)
(***************************************************************************)

(* Ahead is a count, and its beginning bounds the requests of a run. *)
LEMMA AheadBound ==
    ASSUME TypeOK, NEW r \in Runs
    PROVE  /\ Ahead(r) \in 0..(2 * Budget + 5)
           /\ pc[r] # "done" /\ pc[r] # "new" => Ahead(r) > 0
BY BringUpAssumption DEF Ahead, TypeOK, PCs

LEMMA StepAhead ==
    ASSUME TypeOK, NEW r \in Runs, Steps(r)
    PROVE  Ahead(r)' < Ahead(r)
<1> USE BringUpAssumption DEF TypeOK, Ahead, Goto, Return, Await, Failing
<1>1. CASE FindActive(r)
  <2>1. pc[r] = "list" /\ left[r] \in 0..Budget
    BY <1>1 DEF FindActive
  <2>2. CASE Fresh(r)
    BY <2>1, <2>2 DEF Fresh
  <2>3. ASSUME NEW s \in Runs, Reuse(r, s)
        PROVE  Ahead(r)' < Ahead(r)
    BY <2>1, <2>3 DEF Reuse
  <2> QED BY <1>1, <2>2, <2>3 DEF FindActive, Candidates, Listed, RunningNow
<1>2. CASE Validate(r)
  BY <1>2 DEF Validate
<1>3. CASE WaitValidation(r)
  BY <1>3 DEF WaitValidation, Poll, PollAgain, Validated
<1>4. CASE Submit(r)
  BY <1>4 DEF Submit
<1>5. CASE WaitBringup(r)
  BY <1>5 DEF WaitBringup, Poll, PollAgain
<1>6. CASE Disconnect(r)
  BY <1>6 DEF Disconnect
<1> QED BY <1>1, <1>2, <1>3, <1>4, <1>5, <1>6 DEF Steps, Request

(* A run makes at most 2 * Budget + 5 requests, whatever its jobs do. *)
THEOREM RequestsRunOutHolds == Spec => RequestsRunOut
<1> DEFINE Nearer == \A r \in Runs : /\ Steps(r) => Ahead(r)' < Ahead(r)
                                     /\ pc[r] # "new" /\ ~Steps(r) => Ahead(r)' = Ahead(r)
<1>1. ASSUME TypeOK, [Next]_vars PROVE [Nearer]_vars
  <2> SUFFICES ASSUME NEW r \in Runs, pc[r] # "new", ~Steps(r), Next
               PROVE  Ahead(r)' = Ahead(r)
    BY <1>1, StepAhead
  <2>1. UNCHANGED <<pc[r], left[r]>>
    <3>1. ASSUME NEW s \in Runs, Start(s) PROVE UNCHANGED <<pc[r], left[r]>>
      BY <1>1, <3>1 DEF Start, Goto, TypeOK
    <3>2. ASSUME NEW s \in Runs, Steps(s) PROVE UNCHANGED <<pc[r], left[r]>>
      <4>1. PICK label, n : pc' = [pc EXCEPT ![s] = label] /\ left' = [left EXCEPT ![s] = n]
        BY <1>1, <3>2, OwnStep
      <4>2. r # s
        BY <3>2
      <4> QED BY <1>1, <4>1, <4>2 DEF TypeOK
    <3>3. ASSUME NEW s \in Runs, Installer(s) \/ retry(s) PROVE UNCHANGED <<pc[r], left[r]>>
      BY <3>3 DEF Installer, ValidationEnds, BringupEnds, retry, runVars
    <3> QED BY <3>1, <3>2, <3>3 DEF Next
  <2> QED BY <2>1 DEF Ahead
<1> QED BY <1>1, BringUpTypes, PTL DEF Spec, RequestsRunOut
=============================================================================
