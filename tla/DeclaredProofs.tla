---------------------------- MODULE DeclaredProofs ----------------------------
(***************************************************************************)
(* Proofs about Declared, for any catalogue of state functions, any number *)
(* of runs, and any number of faults, changes and tasks: the types, that   *)
(* twins and lost edits take a race, and, for the functions whose requests *)
(* are carried out when they are answered, that success is what it says    *)
(* and that a further run is quiet.                                        *)
(***************************************************************************)
EXTENDS Declared, SequenceTheorems, TLAPS

(***************************************************************************)
(* Types.                                                                  *)
(***************************************************************************)

(* The requests that may be on their way. *)
Known == Range(fn.make) \cup Range(fn.change) \cup fn.calls

(* A run that is writing has requests of its function to send. *)
Fits(s) ==
    /\ s \in Run
    /\ s.pc = "write" => s.todo \subseteq DOMAIN (IF s.found THEN fn.change ELSE fn.make)

Typed ==
    /\ TypeOK
    /\ \A r \in Runs : Fits(run[r])
    /\ \A i \in DOMAIN tasks : tasks[i].q \in Known

Accepted == [by : Runs \cup {Operator}, q : Request, saw : Nat]

LEMMA KnownAreRequests == ASSUME TypeOK PROVE Known \subseteq Request
<1>1. fn.make \in Seq(Request) /\ fn.change \in Seq(Request) /\ fn.calls \subseteq Request
  BY DEF TypeOK, StateFunction
<1>2. Range(fn.make) \subseteq Request /\ Range(fn.change) \subseteq Request
  BY <1>1 DEF Range
<1> QED BY <1>1, <1>2 DEF Known

LEMMA ListedAreKnown ==
    ASSUME Typed, NEW r \in Runs, run[r].pc = "write", NEW i \in run[r].todo
    PROVE  Listed(r)[i] \in Known /\ Listed(r)[i] \in Request
<1>1. i \in DOMAIN Listed(r)
  BY DEF Typed, Fits, Listed
<1>2. Listed(r)[i] \in Known
  BY <1>1 DEF Listed, Known, Range
<1> QED BY <1>2, KnownAreRequests DEF Typed

LEMMA IdleTypes ==
    ASSUME NEW s \in Run, NEW result \in Results
    PROVE  Idle(s, result) \in Run /\ Idle(s, result).pc = "idle"
<1>1. (s.clean /\ result \in {"already", "changed"}) \in BOOLEAN
  OBVIOUS
<1> QED BY <1>1 DEF Idle, Run, Results

LEMMA IdleFits ==
    ASSUME NEW s \in Run, NEW result \in Results PROVE Fits(Idle(s, result))
BY IdleTypes DEF Fits

LEMMA StaleFits == ASSUME NEW s, Fits(s) PROVE Fits(Stale(s))
BY DEF Fits, Stale, Run

(* The types of the runs, when one of them goes on and the others may be overtaken. *)
LEMMA RunsFit ==
    ASSUME Typed, NEW r, NEW next, r \in Runs => Fits(next), UNCHANGED fn,
           \/ run' = [run EXCEPT ![r] = next]
           \/ run' = [s \in Runs |-> IF s = r THEN next ELSE Stale(run[s])]
           \/ run' = [s \in Runs |-> IF s = r THEN Stale(run[s]) ELSE run[s]]
           \/ run' = [s \in Runs |-> Stale(run[s])]
    PROVE  run' \in [Runs -> Run] /\ \A s \in Runs : Fits(run'[s])
<1>1. run \in [Runs -> Run] /\ \A s \in Runs : Fits(run[s]) /\ Fits(Stale(run[s]))
  BY StaleFits DEF Typed, TypeOK
<1>2. \A s \in Runs : Fits(run'[s])
  BY <1>1
<1>3. run' \in [Runs -> Run]
  BY <1>1, <1>2 DEF Fits
<1> QED BY <1>2, <1>3

LEMMA TaskTypes ==
    ASSUME Typed, UNCHANGED fn,
           \/ UNCHANGED tasks
           \/ tasks # <<>> /\ tasks' = Tail(tasks)
           \/ \E t \in Accepted : t.q \in Known /\ tasks' = Append(tasks, t)
    PROVE  tasks' \in Seq(Accepted) /\ \A i \in DOMAIN tasks' : tasks'[i].q \in Known'
<1>1. tasks \in Seq(Accepted) /\ Known' = Known /\ \A i \in DOMAIN tasks : tasks[i].q \in Known
  BY DEF Typed, TypeOK, Accepted, Known
<1>2. CASE UNCHANGED tasks
  BY <1>1, <1>2
<1>3. CASE tasks # <<>> /\ tasks' = Tail(tasks)
  BY <1>1, <1>3
<1>4. CASE \E t \in Accepted : t.q \in Known /\ tasks' = Append(tasks, t)
  BY <1>1, <1>4
<1> QED BY <1>2, <1>3, <1>4

(* What a request does to the object leaves it an object. *)
LEMMA WorksTypes ==
    ASSUME TypeOK, NEW q \in Request, NEW saw \in Nat, Works(q, saw)
    PROVE  copies' \in 0..2 /\ val' \in [Fields -> {"want", "other"}] /\ foreign' \in Nat
<1>1. Blank \in [Fields -> {"want", "other"}] /\ AsMade \in [Fields -> {"want", "other"}]
  BY DEF Blank, AsMade
<1>2. \A v \in [Fields -> {"want", "other"}] : Written(v, q) \in [Fields -> {"want", "other"}]
  BY DEF Written
<1>3. val \in [Fields -> {"want", "other"}] /\ copies \in 0..2 /\ foreign \in Nat
  BY DEF TypeOK
<1>4. CASE Made(q)
  BY <1>1, <1>2, <1>3, <1>4 DEF Made
<1>5. CASE Doubled
  BY <1>3, <1>5 DEF Doubled
<1>6. CASE Changed(q) /\ UNCHANGED foreign
  BY <1>2, <1>3, <1>6 DEF Changed
<1>7. CASE Changed(q) /\ foreign' = saw
  BY <1>2, <1>3, <1>7 DEF Changed
<1>8. CASE Removed
  BY <1>1, <1>3, <1>8 DEF Removed
<1>9. CASE foreign' = foreign + 1 /\ UNCHANGED <<copies, val>>
  BY <1>3, <1>9
<1> QED BY <1>4, <1>5, <1>6, <1>7, <1>8, <1>9 DEF Works

(* The parts of a step, put together. *)
LEMMA TypedNext ==
    ASSUME Typed, UNCHANGED fn, copies' \in 0..2, val' \in [Fields -> {"want", "other"}],
           foreign' \in Nat, run' \in [Runs -> Run], \A s \in Runs : Fits(run'[s]),
           tasks' \in Seq(Accepted), \A i \in DOMAIN tasks' : tasks'[i].q \in Known',
           settled' \in BOOLEAN, own' \in BOOLEAN, faults' \in Nat, edits' \in Nat
    PROVE  Typed'
<1>1. TypeOK'
  BY DEF Typed, TypeOK, Accepted
<1>2. \A s \in Runs : Fits(run[s])'
  BY DEF Fits
<1> QED BY <1>1, <1>2 DEF Typed

LEMMA BeginTypes ==
    ASSUME Typed, NEW r \in Runs, NEW test \in BOOLEAN, Begin(r, test)
    PROVE  Typed'
<1> DEFINE next == [pc |-> "read", test |-> test, found |-> FALSE, todo |-> {},
                    saw |-> 0, result |-> "none", clean |-> FALSE]
<1>1. Fits(next) /\ run' = [run EXCEPT ![r] = next] /\ UNCHANGED <<fn, tasks>>
  BY DEF Fits, Run, Results, Begin
<1>2. run' \in [Runs -> Run] /\ \A s \in Runs : Fits(run'[s])
  <2> HIDE DEF next
  <2> QED BY <1>1, RunsFit
<1>3. tasks' \in Seq(Accepted) /\ \A i \in DOMAIN tasks' : tasks'[i].q \in Known'
  BY <1>1, TaskTypes
<1>4. settled' \in BOOLEAN
  BY DEF Begin, Typed, TypeOK, Succeeded, Run
<1>5. UNCHANGED <<fn, copies, val, foreign, own, faults, edits>>
  BY DEF Begin, objectVars
<1> QED BY <1>2, <1>3, <1>4, <1>5, TypedNext DEF Typed, TypeOK

LEMMA ReadTypes == ASSUME Typed, NEW r \in Runs, Read(r) PROVE Typed'
<1>1. UNCHANGED <<fn, copies, val, foreign, tasks, settled, own, edits>> /\ faults' \in Nat
  BY DEF Read, objectVars, Sound, Fault, Typed, TypeOK
<1>2. run[r] \in Run /\ Body \in Nat
  BY DEF Typed, TypeOK, Body
<1>3. \E next : Fits(next) /\ run' = [run EXCEPT ![r] = next]
  <2>1. CASE Looks(r)
    <3>1. PICK found \in Lookup :
            LET says == Verdict(found, run[r].test)
            IN run' = [run EXCEPT ![r] =
                   IF says # "none" THEN Idle([@ EXCEPT !.clean = Alone], says)
                   ELSE [@ EXCEPT !.pc = "write", !.found = found, !.saw = Body,
                                  !.todo = Needed(found), !.clean = Alone]]
      BY <2>1 DEF Looks
    <3>2. found \in BOOLEAN /\ Alone \in BOOLEAN /\ Verdict(found, run[r].test) \in Results
      <4>1. found \in BOOLEAN
        <5>1. (copies > 0) \in BOOLEAN
          OBVIOUS
        <5> QED BY <5>1, Zenon DEF Lookup
      <4>2. Alone \in BOOLEAN
        BY DEF Alone
      <4>3. Verdict(found, run[r].test) \in Results
        BY DEF Verdict, Results
      <4> QED BY <4>1, <4>2, <4>3
    <3>3. fn.make \in Seq(Request) /\ fn.change \in Seq(Request)
      BY DEF Typed, TypeOK, StateFunction
    <3>4. Needed(found) \subseteq DOMAIN (IF found THEN fn.change ELSE fn.make)
      BY <3>2 DEF Needed
    <3>5. Needed(found) \subseteq Nat
      BY <3>3, <3>4
    <3> DEFINE stop == Idle([run[r] EXCEPT !.clean = Alone], Verdict(found, run[r].test))
               go == [run[r] EXCEPT !.pc = "write", !.found = found, !.saw = Body,
                                    !.todo = Needed(found), !.clean = Alone]
    <3>6. Fits(stop)
      BY <1>2, <3>2, IdleFits DEF Run
    <3>7. Fits(go)
      BY <1>2, <3>2, <3>4, <3>5 DEF Fits, Run
    <3>8. \/ run' = [run EXCEPT ![r] = stop]
          \/ run' = [run EXCEPT ![r] = go]
      BY <3>1, Zenon
    <3> HIDE DEF stop, go
    <3> QED BY <3>6, <3>7, <3>8
  <2>2. CASE run' = [run EXCEPT ![r] = Idle(@, "failed")]
    BY <1>2, <2>2, IdleFits DEF Results
  <2> QED BY <2>1, <2>2 DEF Read
<1>4. run' \in [Runs -> Run] /\ \A s \in Runs : Fits(run'[s])
  BY <1>1, <1>3, RunsFit
<1>5. tasks' \in Seq(Accepted) /\ \A i \in DOMAIN tasks' : tasks'[i].q \in Known'
  BY <1>1, TaskTypes
<1> QED BY <1>1, <1>4, <1>5, TypedNext DEF Typed, TypeOK

(* A request that is sent leaves the run that sent it, the others, the     *)
(* object and the tasks in their types, whatever becomes of it.            *)
LEMMA AnswerTypes ==
    ASSUME Typed, NEW r \in Runs, run[r].pc = "write", NEW i \in run[r].todo,
           faults' \in Nat,
           \/ Answered(r, Listed(r)[i], Advanced(r, i))
           \/ Unanswered(r, Listed(r)[i], Advanced(r, i))
    PROVE  Typed'
<1> DEFINE q == Listed(r)[i]
           after == Advanced(r, i)
           quit == GivenUp(r)
<1>1. run[r] \in Run /\ Fits(run[r]) /\ run \in [Runs -> Run] /\ r # Operator
  BY DeclaredAssumption DEF Typed, TypeOK
<1>2. q \in Known /\ q \in Request
  BY ListedAreKnown
<1>3. Fits(after) /\ (run[r].saw \in Nat => Fits([after EXCEPT !.saw = Body])) /\ Fits(quit)
  <2>1. Fits(quit)
    BY <1>1, IdleFits DEF GivenUp, Results
  <2>2. Fits(after)
    <3>1. Fits(Idle(run[r], "changed"))
      BY <1>1, IdleFits DEF Results
    <3>2. Fits([run[r] EXCEPT !.todo = run[r].todo \ {i}])
      BY <1>1 DEF Fits, Run
    <3> QED BY <3>1, <3>2 DEF Advanced
  <2>3. Body \in Nat
    BY DEF Typed, TypeOK, Body
  <2>4. Fits([after EXCEPT !.saw = Body])
    <3> HIDE DEF after
    <3> QED BY <2>2, <2>3 DEF Fits, Run
  <2> QED BY <2>1, <2>2, <2>4
<1>4. CASE \E next : Fits(next) /\ Ends(r, next)
  <2>1. PICK next : Fits(next) /\ Ends(r, next)
    BY <1>4
  <2>2. UNCHANGED <<fn, copies, val, foreign, tasks, settled, own, edits>>
    BY <2>1 DEF Ends, objectVars
  <2>3. run' \in [Runs -> Run] /\ \A s \in Runs : Fits(run'[s])
    BY <2>1, <2>2, RunsFit DEF Ends
  <2>4. tasks' \in Seq(Accepted) /\ \A j \in DOMAIN tasks' : tasks'[j].q \in Known'
    BY <2>2, TaskTypes
  <2> QED BY <2>2, <2>3, <2>4, TypedNext DEF Typed, TypeOK
<1>5. CASE Works(q, run[r].saw) /\ UNCHANGED tasks /\ \E next : Fits(next) /\ Changes(r, next)
  <2>1. PICK next : Fits(next) /\ Changes(r, next)
    BY <1>5
  <2>2. UNCHANGED <<fn, tasks, edits>> /\ settled' \in BOOLEAN
    BY <1>5, <2>1 DEF Changes
  <2>3. own' \in BOOLEAN
    BY <2>1 DEF Changes
  <2>4. run' \in [Runs -> Run] /\ \A s \in Runs : Fits(run'[s])
    BY <2>1, <2>2, RunsFit DEF Changes
  <2>5. tasks' \in Seq(Accepted) /\ \A j \in DOMAIN tasks' : tasks'[j].q \in Known'
    BY <2>2, TaskTypes
  <2>6. copies' \in 0..2 /\ val' \in [Fields -> {"want", "other"}] /\ foreign' \in Nat
    <3>1. run[r].saw \in Nat /\ TypeOK
      BY <1>1 DEF Typed, Run
    <3> HIDE DEF q
    <3> QED BY <1>2, <1>5, <3>1, WorksTypes
  <2> QED BY <2>2, <2>3, <2>4, <2>5, <2>6, TypedNext DEF Typed, TypeOK
<1>6. CASE Queued(r, q) /\ \E next : Fits(next) /\ run' = [run EXCEPT ![r] = next]
  <2>1. UNCHANGED <<fn, copies, val, foreign, own, edits>> /\ settled' \in BOOLEAN
    BY <1>6 DEF Queued, objectVars
  <2>2. [by |-> r, q |-> q, saw |-> run[r].saw] \in Accepted
    BY <1>1, <1>2 DEF Accepted, Run
  <2>3. tasks' = Append(tasks, [by |-> r, q |-> q, saw |-> run[r].saw])
    BY <1>6 DEF Queued
  <2>4. tasks' \in Seq(Accepted) /\ \A j \in DOMAIN tasks' : tasks'[j].q \in Known'
    BY <1>2, <2>1, <2>2, <2>3, TaskTypes
  <2>5. run' \in [Runs -> Run] /\ \A s \in Runs : Fits(run'[s])
    BY <1>6, <2>1, RunsFit
  <2> QED BY <2>1, <2>4, <2>5, TypedNext DEF Typed, TypeOK
<1>7. \/ \E next : Fits(next) /\ Ends(r, next)
      \/ Works(q, run[r].saw) /\ UNCHANGED tasks /\ \E next : Fits(next) /\ Changes(r, next)
      \/ Queued(r, q) /\ \E next : Fits(next) /\ run' = [run EXCEPT ![r] = next]
  <2>1. run[r].saw \in Nat
    BY <1>1 DEF Run
  <2>2. CASE Answered(r, q, after)
    <3> HIDE DEF q, after, quit
    <3> QED BY <1>3, <2>1, <2>2 DEF Answered, Failed, quit
  <2>3. CASE Unanswered(r, q, after)
    <3> HIDE DEF q, after, quit
    <3> QED BY <1>3, <2>3 DEF Unanswered, Failed, quit
  <2> QED BY <2>2, <2>3
<1> HIDE DEF q, after, quit
<1> QED BY <1>4, <1>5, <1>6, <1>7

LEMMA SendTypes == ASSUME Typed, NEW r \in Runs, Send(r) \/ SendFails(r) PROVE Typed'
<1>1. faults' \in Nat
  BY DEF Send, SendFails, Sound, Fault, Typed, TypeOK
<1>2. run[r].pc = "write" /\ \E i \in run[r].todo :
        Answered(r, Listed(r)[i], Advanced(r, i)) \/ Unanswered(r, Listed(r)[i], Advanced(r, i))
  BY DEF Send, SendFails, Due
<1> QED BY <1>1, <1>2, AnswerTypes

LEMMA LandTypes == ASSUME Typed, Land PROVE Typed'
<1> DEFINE t == Head(tasks)
<1>1. t \in Accepted /\ t.q \in Known /\ t.q \in Request /\ t.saw \in Nat
  <2>1. tasks \in Seq(Accepted) /\ tasks # <<>> /\ \A i \in DOMAIN tasks : tasks[i].q \in Known
    BY DEF Typed, TypeOK, Accepted, Land
  <2>2. t \in Accepted /\ t.q \in Known
    BY <2>1
  <2> QED BY <2>2 DEF Accepted
<1>2. UNCHANGED <<fn, edits>> /\ faults' \in Nat /\ settled' \in BOOLEAN /\ own' \in BOOLEAN
  <2>1. UNCHANGED <<fn, edits>> /\ faults' \in Nat
    BY DEF Land, objectVars, Changes, Sound, Fault, Typed, TypeOK
  <2>2. CASE Changes(t.by, run[t.by])
    BY <2>1, <2>2, Zenon DEF Changes
  <2>3. CASE UNCHANGED <<settled, own>>
    BY <2>1, <2>3 DEF Typed, TypeOK
  <2>4. Changes(t.by, run[t.by]) \/ UNCHANGED <<settled, own>>
    BY DEF Land
  <2> QED BY <2>1, <2>2, <2>3, <2>4, Zenon
<1>3. tasks' \in Seq(Accepted) /\ \A i \in DOMAIN tasks' : tasks'[i].q \in Known'
  BY <1>2, TaskTypes DEF Land
<1>4. copies' \in 0..2 /\ val' \in [Fields -> {"want", "other"}] /\ foreign' \in Nat
  <2>1. CASE Works(t.q, t.saw)
    BY <1>1, <2>1, WorksTypes DEF Typed
  <2>2. CASE UNCHANGED objectVars
    BY <2>2 DEF objectVars, Typed, TypeOK
  <2> QED BY <2>1, <2>2 DEF Land
<1>5. run' \in [Runs -> Run] /\ \A s \in Runs : Fits(run'[s])
  <2>1. t.by \in Runs => Fits(run[t.by])
    BY DEF Typed
  <2>2. \/ run' = [s \in Runs |-> IF s = t.by THEN run[t.by] ELSE Stale(run[s])]
        \/ run' = [s \in Runs |-> IF s = t.by THEN Stale(run[s]) ELSE run[s]]
    BY DEF Land, Changes
  <2> HIDE DEF t
  <2> QED BY <1>2, <2>1, <2>2, RunsFit
<1> QED BY <1>2, <1>3, <1>4, <1>5, TypedNext DEF Typed, TypeOK

LEMMA EditTypes == ASSUME Typed, Edit PROVE Typed'
<1>1. UNCHANGED <<fn, tasks, faults>> /\ settled' = FALSE /\ own' = FALSE /\ edits' \in Nat
  BY DEF Edit, Typed, TypeOK
<1>2. copies' \in 0..2 /\ val' \in [Fields -> {"want", "other"}] /\ foreign' \in Nat
  <2>1. Blank \in [Fields -> {"want", "other"}]
    BY DEF Blank
  <2>2. copies \in 0..2 /\ val \in [Fields -> {"want", "other"}] /\ foreign \in Nat
    BY DEF Typed, TypeOK
  <2> QED BY <2>1, <2>2 DEF Edit
<1>3. run' \in [Runs -> Run] /\ \A s \in Runs : Fits(run'[s])
  BY <1>1, RunsFit DEF Edit, Typed
<1>4. tasks' \in Seq(Accepted) /\ \A i \in DOMAIN tasks' : tasks'[i].q \in Known'
  BY <1>1, TaskTypes
<1> QED BY <1>1, <1>2, <1>3, <1>4, TypedNext DEF Typed, TypeOK

LEMMA ByHandTypes == ASSUME Typed, ByHand PROVE Typed'
<1>1. UNCHANGED <<fn, faults>> /\ settled' = FALSE /\ edits' \in Nat
  BY DEF ByHand, Typed, TypeOK
<1>2. PICK q \in fn.calls, seen \in 0..foreign :
         \/ /\ Awaited(q) /\ Works(q, seen)
            /\ run' = [s \in Runs |-> Stale(run[s])]
            /\ own' = FALSE
            /\ UNCHANGED tasks
         \/ /\ ~Awaited(q) /\ Len(tasks) < MaxTasks
            /\ tasks' = Append(tasks, [by |-> Operator, q |-> q, saw |-> seen])
            /\ UNCHANGED <<objectVars, run, own>>
  BY DEF ByHand
<1>3. q \in Known /\ q \in Request /\ seen \in Nat
  BY KnownAreRequests DEF Known, Typed, TypeOK
<1>4. CASE Awaited(q) /\ Works(q, seen) /\ UNCHANGED tasks /\ own' = FALSE
           /\ run' = [s \in Runs |-> Stale(run[s])]
  <2>1. copies' \in 0..2 /\ val' \in [Fields -> {"want", "other"}] /\ foreign' \in Nat
    BY <1>3, <1>4, WorksTypes DEF Typed
  <2>2. run' \in [Runs -> Run] /\ \A s \in Runs : Fits(run'[s])
    BY <1>1, <1>4, RunsFit DEF Typed
  <2>3. tasks' \in Seq(Accepted) /\ \A i \in DOMAIN tasks' : tasks'[i].q \in Known'
    BY <1>1, <1>4, TaskTypes
  <2> QED BY <1>1, <1>4, <2>1, <2>2, <2>3, TypedNext DEF Typed, TypeOK
<1>5. CASE /\ tasks' = Append(tasks, [by |-> Operator, q |-> q, saw |-> seen])
           /\ UNCHANGED <<objectVars, run, own>>
  <2>1. [by |-> Operator, q |-> q, saw |-> seen] \in Accepted
    BY <1>3 DEF Accepted
  <2>2. tasks' \in Seq(Accepted) /\ \A i \in DOMAIN tasks' : tasks'[i].q \in Known'
    BY <1>1, <1>3, <1>5, <2>1, TaskTypes
  <2> QED BY <1>1, <1>5, <2>2, TypedNext DEF Typed, TypeOK, objectVars
<1> QED BY <1>2, <1>4, <1>5

LEMMA TypedInit == ASSUME Init PROVE Typed
<1>1. fn \in StateFunction
  BY DeclaredAssumption DEF Init
<1>2. val \in [Fields -> {"want", "other"}]
  BY DEF Init
<1>3. run \in [Runs -> Run] /\ \A r \in Runs : run[r].pc = "idle"
  BY DEF Init, Run, Results
<1>4. copies \in 0..2 /\ foreign \in Nat /\ tasks = <<>> /\ settled \in BOOLEAN /\ own \in BOOLEAN
        /\ faults \in Nat /\ edits \in Nat
  <2>1. copies = 0 \/ copies = 1
    BY DEF Init
  <2>2. foreign = 0 /\ tasks = <<>> /\ settled = FALSE /\ own = FALSE /\ faults = 0 /\ edits = 0
    BY DEF Init
  <2>3. copies \in 0..2 /\ foreign \in Nat /\ tasks = <<>> /\ faults \in Nat /\ edits \in Nat
    BY <2>1, <2>2
  <2>4. settled \in BOOLEAN /\ own \in BOOLEAN
    BY <2>2, Zenon
  <2> QED BY <2>3, <2>4
<1>5. TypeOK
  BY <1>1, <1>2, <1>3, <1>4 DEF TypeOK
<1> QED BY <1>3, <1>4, <1>5 DEF Typed, Fits, TypeOK

LEMMA TypedStep == ASSUME Typed, [Next]_vars PROVE Typed'
<1>1. ASSUME NEW r \in Runs, NEW test \in BOOLEAN, Begin(r, test) PROVE Typed'
  BY <1>1, BeginTypes
<1>2. ASSUME NEW r \in Runs, Read(r) PROVE Typed'
  BY <1>2, ReadTypes
<1>3. ASSUME NEW r \in Runs, Send(r) \/ SendFails(r) PROVE Typed'
  BY <1>3, SendTypes
<1>4. CASE Land
  BY <1>4, LandTypes
<1>5. CASE Edit
  BY <1>5, EditTypes
<1>6. CASE ByHand
  BY <1>6, ByHandTypes
<1>7. CASE UNCHANGED vars
  BY <1>7 DEF vars, objectVars, Typed, TypeOK, Fits, Known
<1> QED BY <1>1, <1>2, <1>3, <1>4, <1>5, <1>6, <1>7 DEF Next

(* Which function it is does not change. *)
LEMMA FunctionStays == ASSUME [Next]_vars PROVE UNCHANGED fn
BY DEF Next, Begin, Read, Send, SendFails, Answered, Unanswered, Ends, Changes, Queued, Land, Edit,
       ByHand, vars

LEMMA TypedAlways == Spec => []Typed
<1>1. Init => Typed
  BY TypedInit
<1>2. Typed /\ [Next]_vars => Typed'
  BY TypedStep
<1> QED BY <1>1, <1>2, PTL DEF Spec

(* Every variable has its type, and the requests that a run has still to   *)
(* send are requests of the list it works through.                         *)
THEOREM TypeCorrect == Spec => []TypeOK
<1>1. Typed => TypeOK
  BY DEF Typed
<1> QED BY <1>1, TypedAlways, PTL

(***************************************************************************)
(* Who changes the object.                                                 *)
(***************************************************************************)

(* Run r sends its request i, and it is carried out. *)
Writes(r, i) ==
    /\ run[r].pc = "write" /\ i \in Due(r)
    /\ Awaited(Listed(r)[i])
    /\ Works(Listed(r)[i], run[r].saw)
    /\ Changes(r, Advanced(r, i)) \/ Changes(r, GivenUp(r))
    /\ UNCHANGED <<tasks, edits>>

(* A task is carried out. *)
Lands ==
    /\ tasks # <<>> /\ tasks' = Tail(tasks)
    /\ Works(Head(tasks).q, Head(tasks).saw)
    /\ Changes(Head(tasks).by, run[Head(tasks).by])

LEMMA WhoChangesIt ==
    ASSUME Typed, Next
    PROVE  \/ UNCHANGED objectVars
           \/ \E r \in Runs : \E i \in run[r].todo : Writes(r, i)
           \/ Lands
           \/ Edit
           \/ ByHand
<1>1. ASSUME NEW r \in Runs, NEW test \in BOOLEAN, Begin(r, test) PROVE UNCHANGED objectVars
  BY <1>1 DEF Begin, objectVars
<1>2. ASSUME NEW r \in Runs, Read(r) PROVE UNCHANGED objectVars
  BY <1>2 DEF Read, objectVars
<1>3. ASSUME NEW r \in Runs, Send(r)
      PROVE  UNCHANGED objectVars \/ \E i \in run[r].todo : Writes(r, i)
  <2>1. PICK i \in Due(r) : Answered(r, Listed(r)[i], Advanced(r, i))
    BY <1>3 DEF Send
  <2>2. i \in run[r].todo /\ run[r].pc = "write"
    BY <1>3 DEF Due, Send
  <2>3. CASE UNCHANGED objectVars
    BY <2>3
  <2>4. CASE /\ Awaited(Listed(r)[i]) /\ Works(Listed(r)[i], run[r].saw)
             /\ Changes(r, Advanced(r, i)) /\ UNCHANGED tasks
    BY <2>1, <2>2, <2>4 DEF Writes, Changes
  <2> QED BY <2>1, <2>3, <2>4 DEF Answered, Ends, Queued
<1>4. ASSUME NEW r \in Runs, SendFails(r)
      PROVE  UNCHANGED objectVars \/ \E i \in run[r].todo : Writes(r, i)
  <2>1. PICK i \in Due(r) : Unanswered(r, Listed(r)[i], Advanced(r, i))
    BY <1>4 DEF SendFails
  <2>2. i \in run[r].todo /\ run[r].pc = "write"
    BY <1>4 DEF Due, SendFails
  <2>3. CASE UNCHANGED objectVars
    BY <2>3
  <2>4. CASE /\ Listed(r)[i].wait = "call" /\ Works(Listed(r)[i], run[r].saw)
             /\ Changes(r, GivenUp(r)) /\ UNCHANGED tasks
    BY <2>1, <2>2, <2>4 DEF Writes, Changes, Awaited
  <2> QED BY <2>1, <2>3, <2>4 DEF Unanswered, Ends, Queued
<1>5. CASE Land
  BY <1>5 DEF Land, Lands, objectVars
<1> QED BY <1>1, <1>2, <1>3, <1>4, <1>5 DEF Next

(***************************************************************************)
(* Twins take a race.                                                      *)
(***************************************************************************)

(* What an undisturbed run knows: before it makes the object there is none *)
(* and nothing of its own is on its way; while the task that makes it is   *)
(* on its way there is none either, no other of its tasks makes one, and   *)
(* the run does not make it again.                                         *)
Foresees(r) ==
    run[r].clean =>
        /\ run[r].pc # "read"
        /\ run[r].pc = "write" /\ ~run[r].found /\ 1 \in run[r].todo
             => copies = 0 /\ \A k \in DOMAIN tasks : tasks[k].by # r
        /\ \A k \in DOMAIN tasks : tasks[k].by = r /\ tasks[k].q.op = "add" =>
             /\ copies = 0
             /\ run[r].pc = "write" => ~run[r].found /\ 1 \notin run[r].todo
             /\ \A l \in DOMAIN tasks : tasks[l].by = r /\ l # k => tasks[l].q.op \notin {"add", "upsert"}

Racing == Surely(fn) /\ Plain(fn) => \A r \in Runs : Foresees(r)

LEMMA TailOf ==
    ASSUME Typed, tasks # <<>>
    PROVE  /\ Head(tasks) = tasks[1] /\ 1 \in DOMAIN tasks
           /\ \A k \in DOMAIN Tail(tasks) :
                k + 1 \in DOMAIN tasks /\ k + 1 # 1 /\ Tail(tasks)[k] = tasks[k + 1]
           /\ Tail(tasks) # tasks
<1>1. tasks \in Seq(Accepted)
  BY DEF Typed, TypeOK, Accepted
<1>2. Len(Tail(tasks)) = Len(tasks) - 1 /\ Len(tasks) \in Nat
  BY <1>1
<1>3. Tail(tasks) # tasks
  <2>1. \A n \in Nat : n - 1 # n
    OBVIOUS
  <2>2. Len(Tail(tasks)) # Len(tasks)
    BY <1>2, <2>1, Zenon
  <2> QED BY <2>2, Zenon
<1>4. Head(tasks) = tasks[1] /\ 1 \in DOMAIN tasks
  BY <1>1
<1>5. \A k \in DOMAIN Tail(tasks) :
        k + 1 \in DOMAIN tasks /\ k + 1 # 1 /\ Tail(tasks)[k] = tasks[k + 1]
  BY <1>1
<1> QED BY <1>3, <1>4, <1>5

LEMMA AppendOf ==
    ASSUME Typed, NEW t
    PROVE  \A k \in DOMAIN Append(tasks, t) :
             \/ k \in DOMAIN tasks /\ Append(tasks, t)[k] = tasks[k]
             \/ k = Len(tasks) + 1 /\ k \notin DOMAIN tasks /\ Append(tasks, t)[k] = t
BY DEF Typed, TypeOK

(* A run that is not concerned foresees what it foresaw. *)
LEMMA StillForesees ==
    ASSUME Typed, NEW s \in Runs, Foresees(s),
           \/ ~run'[s].clean
           \/ /\ run'[s] = run[s] /\ UNCHANGED copies
              /\ \/ UNCHANGED tasks
                 \/ tasks # <<>> /\ tasks' = Tail(tasks)
                 \/ \E t : t.by # s /\ tasks' = Append(tasks, t)
    PROVE  Foresees(s)'
<1>1. CASE ~run'[s].clean
  BY <1>1 DEF Foresees
<1>2. CASE run'[s] = run[s] /\ UNCHANGED <<copies, tasks>>
  BY <1>2 DEF Foresees
<1>3. CASE run'[s] = run[s] /\ UNCHANGED copies /\ tasks # <<>> /\ tasks' = Tail(tasks)
  <2>1. \A k \in DOMAIN tasks' :
          k + 1 \in DOMAIN tasks /\ tasks'[k] = tasks[k + 1] /\ k \in Int
    <3>1. tasks' \in Seq(Accepted)
      BY <1>3 DEF Typed, TypeOK, Accepted
    <3> QED BY <1>3, <3>1, TailOf
  <2>2. \A k, l \in DOMAIN tasks' : k # l => k + 1 # l + 1
    BY <2>1
  <2> QED BY <1>3, <2>1, <2>2 DEF Foresees
<1>4. CASE run'[s] = run[s] /\ UNCHANGED copies /\ \E t : t.by # s /\ tasks' = Append(tasks, t)
  <2>1. PICK t : t.by # s /\ tasks' = Append(tasks, t)
    BY <1>4
  <2>2. \A k \in DOMAIN tasks' : tasks'[k].by = s => k \in DOMAIN tasks /\ tasks'[k] = tasks[k]
    BY <2>1, AppendOf
  <2> QED BY <1>4, <2>2 DEF Foresees
<1> QED BY <1>1, <1>2, <1>3, <1>4

(* The run after a request is no longer about to make the object. *)
LEMMA DueIsFirst ==
    ASSUME Typed, NEW r \in Runs, run[r].pc = "write", NEW i \in Due(r)
    PROVE  /\ 1 \in run[r].todo => i = 1
           /\ i \in run[r].todo /\ i \in DOMAIN Listed(r)
           /\ Advanced(r, i).pc = "write" =>
                /\ Advanced(r, i).found = run[r].found
                /\ Advanced(r, i).todo = run[r].todo \ {i}
           /\ Advanced(r, i).pc \in {"write", "idle"}
           /\ Advanced(r, i).clean => run[r].clean
           /\ ~GivenUp(r).clean
<1>1. run[r] \in Run /\ run[r].todo \subseteq DOMAIN Listed(r)
  BY DEF Typed, TypeOK, Fits, Listed
<1>2. fn.make \in Seq(Request) /\ fn.change \in Seq(Request)
  BY DEF Typed, TypeOK, StateFunction
<1>3. \A j \in DOMAIN Listed(r) : j \in Nat /\ j >= 1
  BY <1>2 DEF Listed
<1>4. i \in run[r].todo /\ (1 \in run[r].todo => i <= 1)
  BY DEF Due
<1>5. 1 \in run[r].todo => i = 1
  BY <1>1, <1>3, <1>4
<1>6. ~GivenUp(r).clean
  BY <1>1 DEF GivenUp, Idle, Run
<1>7. /\ Advanced(r, i).pc = "write" =>
           /\ Advanced(r, i).found = run[r].found
           /\ Advanced(r, i).todo = run[r].todo \ {i}
      /\ Advanced(r, i).pc \in {"write", "idle"}
      /\ Advanced(r, i).clean => run[r].clean
  BY <1>1 DEF Advanced, Idle, Run
<1> QED BY <1>1, <1>4, <1>5, <1>6, <1>7

LEMMA BeginForesees ==
    ASSUME Typed, NEW r \in Runs, NEW test \in BOOLEAN, Begin(r, test),
           NEW s \in Runs, Foresees(s)
    PROVE  Foresees(s)'
<1>1. UNCHANGED <<copies, tasks>> /\ run \in [Runs -> Run]
  BY DEF Begin, objectVars, Typed, TypeOK
<1>2. IF s = r THEN ~run'[s].clean ELSE run'[s] = run[s]
  BY <1>1 DEF Begin
<1> QED BY <1>1, <1>2, StillForesees

LEMMA ReadForesees ==
    ASSUME Typed, NEW r \in Runs, Read(r), Surely(fn), NEW s \in Runs, Foresees(s)
    PROVE  Foresees(s)'
<1>1. UNCHANGED <<copies, tasks>> /\ run \in [Runs -> Run]
  BY DEF Read, objectVars, Typed, TypeOK
<1>2. CASE s # r
  <2>1. run'[s] = run[s]
    BY <1>1, <1>2 DEF Read, Looks
  <2> QED BY <1>1, <2>1, StillForesees
<1>3. CASE s = r /\ Looks(r)
  <2>1. PICK found \in Lookup :
          LET says == Verdict(found, run[r].test)
          IN run' = [run EXCEPT ![r] =
                 IF says # "none" THEN Idle([@ EXCEPT !.clean = Alone], says)
                 ELSE [@ EXCEPT !.pc = "write", !.found = found, !.saw = Body,
                                !.todo = Needed(found), !.clean = Alone]]
    BY <1>3 DEF Looks
  <2>2. \/ run'[r].pc = "idle" /\ (run'[r].clean => Alone)
        \/ run'[r].pc = "write" /\ run'[r].found = found /\ (run'[r].clean => Alone)
    BY <1>1, <2>1, Zenon DEF Idle, Run
  <2>3. ~found => copies = 0
    <3>1. found <=> copies > 0
      <4>1. fn.lookup # "maybe"
        BY DEF Surely
      <4>2. found \in {copies > 0}
        BY <4>1 DEF Lookup
      <4> QED BY <4>2, Zenon
    <3> QED BY <3>1 DEF Typed, TypeOK
  <2>4. Alone => tasks' = <<>>
    BY <1>1 DEF Alone
  <2> QED BY <1>1, <1>3, <2>2, <2>3, <2>4 DEF Foresees
<1>4. CASE s = r /\ run' = [run EXCEPT ![r] = Idle(@, "failed")]
  <2>1. ~run'[s].clean
    BY <1>1, <1>4 DEF Idle, Run
  <2> QED BY <1>1, <2>1, StillForesees
<1> QED BY <1>2, <1>3, <1>4 DEF Read

(* A request of another run. *)
LEMMA OthersForesee ==
    ASSUME Typed, NEW r \in Runs, Send(r) \/ SendFails(r), NEW s \in Runs, s # r, Foresees(s)
    PROVE  Foresees(s)'
<1>1. PICK i \in Due(r) : \/ Answered(r, Listed(r)[i], Advanced(r, i))
                         \/ Unanswered(r, Listed(r)[i], Advanced(r, i))
  BY DEF Send, SendFails
<1>2. run \in [Runs -> Run] /\ ~Stale(run[s]).clean
  BY DEF Typed, TypeOK, Stale, Run
<1>3. CASE \E next : Ends(r, next)
  BY <1>2, <1>3, StillForesees DEF Ends, objectVars
<1>4. CASE \E next : Changes(r, next)
  BY <1>2, <1>4, StillForesees DEF Changes
<1>5. CASE \E next : Queued(r, Listed(r)[i]) /\ run' = [run EXCEPT ![r] = next]
  <2>1. run'[s] = run[s] /\ UNCHANGED copies
    BY <1>2, <1>5 DEF Queued, objectVars
  <2>2. \E t : t.by # s /\ tasks' = Append(tasks, t)
    BY <1>5 DEF Queued
  <2> QED BY <2>1, <2>2, StillForesees
<1> QED BY <1>1, <1>3, <1>4, <1>5 DEF Answered, Unanswered

(* Only the first request for a missing object makes one. *)
LEMMA PlainRequests ==
    ASSUME Typed, Plain(fn), NEW r \in Runs, run[r].pc = "write", NEW i \in Due(r)
    PROVE  /\ Listed(r)[i].op = "add" => ~run[r].found /\ 1 \in run[r].todo /\ i = 1
           /\ Listed(r)[i].op = "upsert" => run[r].found \/ 1 \in run[r].todo
<1>1. i \in run[r].todo /\ i \in DOMAIN Listed(r)
  BY DueIsFirst
<1>2. CASE run[r].found
  BY <1>1, <1>2 DEF Plain, Listed, Range
<1>3. CASE ~run[r].found
  BY <1>1, <1>3 DEF Plain, Listed
<1> QED BY <1>2, <1>3

LEMMA SenderForesees ==
    ASSUME Typed, Plain(fn), NEW r \in Runs, Send(r) \/ SendFails(r), Foresees(r)
    PROVE  Foresees(r)'
<1>1. PICK i \in Due(r) : \/ Answered(r, Listed(r)[i], Advanced(r, i))
                         \/ Unanswered(r, Listed(r)[i], Advanced(r, i))
  BY DEF Send, SendFails
<1> DEFINE q == Listed(r)[i]
           after == Advanced(r, i)
<1>2. run[r].pc = "write" /\ run \in [Runs -> Run] /\ copies \in 0..2
  BY DEF Send, SendFails, Typed, TypeOK
<1>3. /\ 1 \in run[r].todo => i = 1
      /\ after.pc = "write" => after.found = run[r].found /\ after.todo = run[r].todo \ {i}
      /\ after.pc \in {"write", "idle"}
      /\ after.clean => run[r].clean
      /\ ~GivenUp(r).clean
  BY <1>2, DueIsFirst
<1>4. /\ q.op = "add" => ~run[r].found /\ 1 \in run[r].todo
      /\ q.op = "upsert" => run[r].found \/ 1 \in run[r].todo
  BY <1>2, PlainRequests
<1> HIDE DEF q, after
<1>5. CASE run'[r].clean = FALSE
  BY <1>5 DEF Foresees
<1>6. CASE /\ UNCHANGED <<copies, tasks>>
           /\ \/ run'[r] = after
              \/ run'[r] = [after EXCEPT !.saw = Body]
  <2>1. /\ run'[r].pc = after.pc /\ run'[r].clean = after.clean
        /\ run'[r].todo = after.todo /\ run'[r].found = after.found
    <3>1. after \in Run
      <4>1. Idle(run[r], "changed") \in Run /\ [run[r] EXCEPT !.todo = run[r].todo \ {i}] \in Run
        BY <1>2, IdleTypes DEF Results, Run
      <4> QED BY <4>1 DEF after, Advanced
    <3> QED BY <1>6, <3>1 DEF Run
  <2> QED BY <1>2, <1>3, <1>6, <2>1 DEF Foresees
<1>7. CASE Works(q, run[r].saw) /\ UNCHANGED tasks /\ run'[r] = after
  <2>1. copies = 0 => q.op \in {"add", "upsert"}
    BY <1>2, <1>7 DEF Works, Doubled, Changed, Removed
  <2>2. run[r].clean =>
          \A k \in DOMAIN tasks : ~(tasks[k].by = r /\ tasks[k].q.op = "add")
    BY <1>2, <1>4, <2>1 DEF Foresees
  <2> QED BY <1>2, <1>3, <1>7, <2>2 DEF Foresees
<1>8. CASE Queued(r, q) /\ run'[r] = after
  <2>1. UNCHANGED copies /\ tasks' = Append(tasks, [by |-> r, q |-> q, saw |-> run[r].saw])
    BY <1>8 DEF Queued, objectVars
  <2>2. \A k \in DOMAIN tasks' :
          \/ k \in DOMAIN tasks /\ tasks'[k] = tasks[k]
          \/ k = Len(tasks) + 1 /\ tasks'[k].q = q /\ tasks'[k].by = r
    BY <2>1, AppendOf
  <2>3. CASE q.op = "add"
    BY <1>2, <1>3, <1>4, <1>8, <2>1, <2>2, <2>3 DEF Foresees
  <2>4. CASE q.op # "add"
    BY <1>2, <1>3, <1>4, <1>8, <2>1, <2>2, <2>4 DEF Foresees
  <2> QED BY <2>3, <2>4
<1>9. \/ run'[r].clean = FALSE
      \/ /\ UNCHANGED <<copies, tasks>>
         /\ \/ run'[r] = after
            \/ run'[r] = [after EXCEPT !.saw = Body]
      \/ Works(q, run[r].saw) /\ UNCHANGED tasks /\ run'[r] = after
      \/ Queued(r, q) /\ run'[r] = after
  <2>1. GivenUp(r).clean = FALSE
    BY <1>2 DEF GivenUp, Idle, Run
  <2>2. CASE Answered(r, q, after)
    BY <1>2, <2>1, <2>2 DEF Answered, Failed, Ends, Changes, objectVars
  <2>3. CASE Unanswered(r, q, after)
    BY <1>2, <2>1, <2>3 DEF Unanswered, Failed, Ends, Changes, objectVars
  <2> QED BY <1>1, <2>2, <2>3 DEF q, after
<1> QED BY <1>5, <1>6, <1>7, <1>8, <1>9

LEMMA LandForesees ==
    ASSUME Typed, Land, NEW s \in Runs, Foresees(s)
    PROVE  Foresees(s)'
<1> DEFINE t == Head(tasks)
<1>1. run \in [Runs -> Run] /\ ~Stale(run[s]).clean /\ copies \in 0..2
  BY DEF Typed, TypeOK, Stale, Run
<1>2. tasks # <<>> /\ tasks' = Tail(tasks)
  BY DEF Land
<1>3. CASE UNCHANGED copies /\ run'[s] \in {run[s], Stale(run[s])}
  BY <1>1, <1>2, <1>3, StillForesees
<1>4. CASE Works(t.q, t.saw) /\ Changes(t.by, run[t.by])
  <2>1. CASE t.by # s
    BY <1>1, <1>4, <2>1, StillForesees DEF Changes
  <2>2. CASE t.by = s
    <3>1. run'[s] = run[s]
      BY <1>4, <2>2 DEF Changes
    <3>2. \A k \in DOMAIN tasks' : k + 1 \in DOMAIN tasks /\ k + 1 # 1 /\ tasks'[k] = tasks[k + 1]
      BY <1>2, TailOf
    <3>3. t = tasks[1] /\ 1 \in DOMAIN tasks
      BY <1>2, TailOf
    <3>4. run[s].clean => ~(run[s].pc = "write" /\ ~run[s].found /\ 1 \in run[s].todo)
      BY <2>2, <3>3 DEF Foresees
    <3>5. copies = 0 => t.q.op \in {"add", "upsert"}
      BY <1>1, <1>4 DEF Works, Doubled, Changed, Removed
    <3>6. run[s].clean => \A k \in DOMAIN tasks' : ~(tasks'[k].by = s /\ tasks'[k].q.op = "add")
      BY <2>2, <3>2, <3>3, <3>5 DEF Foresees
    <3> QED BY <3>1, <3>4, <3>6 DEF Foresees
  <2> QED BY <2>1, <2>2
<1>5. \/ UNCHANGED copies /\ run'[s] \in {run[s], Stale(run[s])}
      \/ Works(t.q, t.saw) /\ Changes(t.by, run[t.by])
  BY DEF Land, objectVars
<1> QED BY <1>3, <1>4, <1>5

LEMMA OutsideForesees ==
    ASSUME Typed, Edit \/ ByHand, NEW s \in Runs, Foresees(s)
    PROVE  Foresees(s)'
<1>1. run \in [Runs -> Run] /\ ~Stale(run[s]).clean /\ s # Operator
  BY DeclaredAssumption DEF Typed, TypeOK, Stale, Run
<1>2. CASE run' = [r \in Runs |-> Stale(run[r])]
  BY <1>1, <1>2, StillForesees
<1>3. CASE UNCHANGED <<objectVars, run>> /\ \E t : t.by = Operator /\ tasks' = Append(tasks, t)
  BY <1>1, <1>3, StillForesees DEF objectVars
<1>4. \/ run' = [r \in Runs |-> Stale(run[r])]
      \/ UNCHANGED <<objectVars, run>> /\ \E t : t.by = Operator /\ tasks' = Append(tasks, t)
  <2>1. CASE Edit
    BY <2>1 DEF Edit
  <2>2. CASE ByHand
    <3>1. \A q, seen : [by |-> Operator, q |-> q, saw |-> seen].by = Operator
      OBVIOUS
    <3> QED BY <2>2, <3>1 DEF ByHand
  <2> QED BY <2>1, <2>2
<1> QED BY <1>2, <1>3, <1>4

LEMMA RacingStep == ASSUME Typed, Racing, [Next]_vars PROVE Racing'
<1>1. CASE UNCHANGED vars
  BY <1>1 DEF vars, objectVars, Racing, Foresees
<1>2. CASE Next
  <2>1. UNCHANGED fn
    BY FunctionStays
  <2>2. SUFFICES ASSUME Surely(fn), Plain(fn), NEW s \in Runs, Foresees(s) PROVE Foresees(s)'
    BY <2>1 DEF Racing
  <2>3. ASSUME NEW r \in Runs, NEW test \in BOOLEAN, Begin(r, test) PROVE Foresees(s)'
    BY <2>2, <2>3, BeginForesees
  <2>4. ASSUME NEW r \in Runs, Read(r) PROVE Foresees(s)'
    BY <2>2, <2>4, ReadForesees
  <2>5. ASSUME NEW r \in Runs, Send(r) \/ SendFails(r) PROVE Foresees(s)'
    BY <2>2, <2>5, OthersForesee, SenderForesees
  <2>6. CASE Land
    BY <2>2, <2>6, LandForesees
  <2>7. CASE Edit \/ ByHand
    BY <2>2, <2>7, OutsideForesees
  <2> QED BY <1>2, <2>3, <2>4, <2>5, <2>6, <2>7 DEF Next
<1> QED BY <1>1, <1>2

(* No undisturbed run makes a twin. *)
TwinStep ==
    copies < 2 /\ copies' = 2 /\ Surely(fn) /\ edits' = edits =>
      IF tasks' = tasks THEN \E r \in Runs : run'[r].todo # run[r].todo /\ ~run[r].clean
      ELSE Head(tasks).by = Operator \/ ~run[Head(tasks).by].clean

LEMMA StepMakesNoTwin == ASSUME Typed, Racing, Plain(fn), [Next]_vars PROVE TwinStep
<1> SUFFICES ASSUME copies < 2, copies' = 2, Surely(fn), edits' = edits
             PROVE  IF tasks' = tasks THEN \E r \in Runs : run'[r].todo # run[r].todo /\ ~run[r].clean
                    ELSE Head(tasks).by = Operator \/ ~run[Head(tasks).by].clean
  BY DEF TwinStep
<1>1. copies \in 0..2 /\ edits \in Nat /\ run \in [Runs -> Run]
  BY DEF Typed, TypeOK
<1>2. Next /\ ~UNCHANGED objectVars
  BY <1>1 DEF vars, objectVars
<1>3. ~Edit /\ ~ByHand
  BY <1>1 DEF Edit, ByHand
<1>4. \A q, saw : Works(q, saw) => q.op = "add" /\ copies > 0
  BY <1>1 DEF Works, Made, Doubled, Changed, Removed
<1>5. ASSUME NEW r \in Runs, NEW i \in run[r].todo, Writes(r, i)
      PROVE  tasks' = tasks /\ run'[r].todo # run[r].todo /\ ~run[r].clean
  <2>1. run[r].pc = "write" /\ i \in Due(r) /\ Listed(r)[i].op = "add" /\ copies > 0
    BY <1>4, <1>5 DEF Writes
  <2>2. ~run[r].found /\ 1 \in run[r].todo
    BY <2>1, PlainRequests
  <2>3. ~run[r].clean
    BY <2>1, <2>2 DEF Racing, Foresees
  <2>4. i \notin run'[r].todo
    <3>1. i \notin Advanced(r, i).todo /\ i \notin GivenUp(r).todo
      BY <1>1 DEF Advanced, GivenUp, Idle, Run
    <3> QED BY <1>5, <3>1 DEF Writes, Changes
  <2> QED BY <1>5, <2>3, <2>4 DEF Writes
<1>6. ASSUME Lands
      PROVE  tasks' # tasks /\ (Head(tasks).by = Operator \/ ~run[Head(tasks).by].clean)
  <2>1. tasks' # tasks /\ Head(tasks) = tasks[1] /\ 1 \in DOMAIN tasks
    BY <1>6, TailOf DEF Lands
  <2>2. Head(tasks).q.op = "add" /\ copies > 0
    BY <1>4, <1>6 DEF Lands
  <2>3. Head(tasks).by \in Runs \cup {Operator}
    <3>1. tasks \in Seq(Accepted)
      BY DEF Typed, TypeOK, Accepted
    <3>2. tasks[1] \in Accepted
      BY <2>1, <3>1
    <3> QED BY <2>1, <3>2 DEF Accepted
  <2> QED BY <2>1, <2>2, <2>3 DEF Racing, Foresees
<1> QED BY <1>2, <1>3, <1>5, <1>6, WhoChangesIt

LEMMA RacingAlways == Spec => []Racing
<1>1. Init => Racing
  BY DEF Init, Racing, Foresees
<1>2. Typed /\ Racing /\ [Next]_vars => Racing'
  BY RacingStep
<1> QED BY <1>1, <1>2, TypedAlways, PTL DEF Spec

LEMMA PlainAlways == Spec /\ Plain(fn) => []Plain(fn)
<1>1. Plain(fn) /\ [Next]_vars => Plain(fn)'
  BY FunctionStays
<1> QED BY <1>1, PTL DEF Spec

(* A second object of the name takes a race or an operator, for every      *)
(* function whose object is made by the first request alone.               *)
THEOREM TwinsTakeARace == Spec /\ Plain(fn) => TwinsNeedARace
<1>1. Typed /\ Racing /\ Plain(fn) /\ [Next]_vars => [TwinStep]_vars
  BY StepMakesNoTwin
<1>2. Spec /\ Plain(fn) => [][TwinStep]_vars
  BY <1>1, TypedAlways, RacingAlways, PlainAlways, PTL DEF Spec
<1> QED BY <1>2 DEF TwinsNeedARace, TwinStep

(***************************************************************************)
(* Success is what it says.                                                *)
(***************************************************************************)

(* The functions the invariant below is about. *)
Judged(f) == Surely(f) /\ Repairs(f) /\ Steady(f)

(* The requests of the function itself; the tasks of the runs are of these. *)
Sent == Range(fn.make) \cup Range(fn.change)
FromRuns == \A k \in DOMAIN tasks : tasks[k].by \in Runs => tasks[k].q \in Sent

(* What a run has still to see done: the requests it has not sent, and its *)
(* tasks that are on their way.                                            *)
Unsent(r) == {Listed(r)[i] : i \in {j \in run[r].todo : run[r].pc = "write"}}
OnTheWay(r) == {tasks[k].q : k \in {j \in DOMAIN tasks : tasks[j].by = r}}
Left(r) == Unsent(r) \cup OnTheWay(r)

(* With n objects and the fields v, what is not as declared yet is what the *)
(* requests of L write, make or remove.                                     *)
Owes(L, n, v) ==
    IF fn.goal = "present"
    THEN /\ n = 0 => \E q \in L : q.op \in {"add", "upsert"}
         /\ \A x \in fn.compared : (n > 0 /\ v[x] = "want") \/ \E q \in L : x \in q.sets
    ELSE n < 2 /\ (n = 0 \/ \E q \in L : q.op = "remove")

Delivers(r) == run[r].clean => run[r].pc # "read" /\ Owes(Left(r), copies, val)

Delivering == Judged(fn) => (\A r \in Runs : Delivers(r)) /\ (settled => IsDeclared)

LEMMA SteadyIsPlain == ASSUME NEW f \in StateFunction, Steady(f) PROVE Plain(f)
<1>1. f.goal \in {"present", "absent"}
  BY DEF StateFunction
<1> QED BY <1>1 DEF Steady, Plain

LEMMA OwesMore ==
    ASSUME NEW L, NEW M, L \subseteq M, NEW n, NEW v, Owes(L, n, v)
    PROVE  Owes(M, n, v)
BY DEF Owes

LEMMA NothingOwed ==
    ASSUME Typed, Owes({}, copies, val) PROVE IsDeclared
<1>1. copies \in 0..2 /\ fn.goal \in {"present", "absent"}
  BY DEF Typed, TypeOK, StateFunction
<1> QED BY <1>1 DEF Owes, IsDeclared

LEMMA DeclaredOwesNothing ==
    ASSUME Typed, IsDeclared, fn.goal = "absent" => copies < 2, NEW L
    PROVE  Owes(L, copies, val)
<1>1. copies \in 0..2 /\ fn.goal \in {"present", "absent"}
  BY DEF Typed, TypeOK, StateFunction
<1> QED BY <1>1 DEF Owes, IsDeclared

(* A request that is carried out is owed no longer, *)
LEMMA Carried ==
    ASSUME Typed, Steady(fn), NEW q \in Sent, NEW saw, Works(q, saw), q.op = "add" => copies = 0,
           NEW L, Owes(L, copies, val)
    PROVE  Owes(L \ {q}, copies', val')
<1>1. copies \in 0..2 /\ fn.goal \in {"present", "absent"} /\ fn.compared \subseteq Fields
  BY DEF Typed, TypeOK, StateFunction
<1>2. q.op \in {"read", "beside"} => q.sets = {}
  BY DEF Sent, Steady
<1>3. \A v, x : x \in Fields => Written(v, q)[x] = IF x \in q.sets THEN "want" ELSE v[x]
  BY DEF Written
<1>4. CASE fn.goal = "present"
  <2>1. q.op # "remove"
    BY <1>4 DEF Sent, Steady
  <2>2. CASE Made(q)
    <3>1. copies' = 1 /\ copies = 0 /\ \A x \in fn.compared : x \in q.sets => val'[x] = "want"
      BY <1>1, <1>3, <2>2 DEF Made
    <3> QED BY <1>4, <3>1 DEF Owes
  <2>3. CASE Changed(q)
    <3>1. /\ copies' = copies /\ copies > 0
          /\ \A x \in fn.compared : val'[x] = IF x \in q.sets THEN "want" ELSE val[x]
      BY <1>1, <1>3, <2>3 DEF Changed
    <3> QED BY <1>4, <3>1 DEF Owes
  <2>4. CASE q.op = "beside" /\ copies > 0 /\ UNCHANGED <<copies, val>>
    BY <1>2, <1>4, <2>4 DEF Owes
  <2> QED BY <2>1, <2>2, <2>3, <2>4 DEF Works, Doubled
<1>5. CASE fn.goal = "absent"
  <2>1. q.op \notin {"add", "upsert"}
    BY <1>5 DEF Sent, Steady, Range
  <2>2. copies < 2 /\ (copies = 0 \/ \E p \in L : p.op = "remove")
    BY <1>5 DEF Owes
  <2>3. CASE Removed
    <3>1. copies' = 0
      BY <1>1, <2>2, <2>3 DEF Removed
    <3> QED BY <1>5, <3>1 DEF Owes
  <2>4. CASE q.op # "remove" /\ UNCHANGED copies
    BY <1>5, <2>2, <2>4 DEF Owes
  <2> QED BY <2>1, <2>3, <2>4 DEF Works, Changed
<1> QED BY <1>1, <1>4, <1>5

(* and neither is one that reads, or that was tried in vain. *)
LEMMA Dropped ==
    ASSUME Typed, Steady(fn), NEW q \in Sent, q.op = "read" \/ q.wait = "tried",
           NEW L, Owes(L, copies, val)
    PROVE  Owes(L \ {q}, copies, val)
<1>1. q.op \in {"read", "set"} /\ q.sets \cap fn.compared = {}
  BY DEF Sent, Steady
<1> QED BY <1>1 DEF Owes

(* The tasks that stay on their way when the first one is carried out, *)
LEMMA TailKeeps ==
    ASSUME Typed, tasks # <<>>, tasks' = Tail(tasks), NEW s
    PROVE  /\ OnTheWay(s) \ {Head(tasks).q} \subseteq OnTheWay(s)'
           /\ Head(tasks).by # s => OnTheWay(s) \subseteq OnTheWay(s)'
<1>1. Head(tasks) = tasks[1] /\ \A k \in DOMAIN tasks : k = 1 \/ k - 1 \in DOMAIN tasks'
  BY DEF Typed, TypeOK
<1>2. \A k \in DOMAIN tasks : k = 1 \/ tasks'[k - 1] = tasks[k]
  BY DEF Typed, TypeOK
<1>3. \A k \in DOMAIN tasks : tasks[k].by = s /\ k # 1 => tasks[k].q \in OnTheWay(s)'
  BY <1>1, <1>2 DEF OnTheWay
<1> QED BY <1>1, <1>3 DEF OnTheWay

(* and when one is accepted. *)
LEMMA AppendKeeps ==
    ASSUME Typed, NEW t, tasks' = Append(tasks, t), NEW s
    PROVE  OnTheWay(s) \subseteq OnTheWay(s)' /\ (t.by = s => t.q \in OnTheWay(s)')
<1>1. \A k \in DOMAIN tasks : k \in DOMAIN tasks' /\ tasks'[k] = tasks[k]
  BY DEF Typed, TypeOK
<1>2. Len(tasks) + 1 \in DOMAIN tasks' /\ tasks'[Len(tasks) + 1] = t
  BY DEF Typed, TypeOK
<1> QED BY <1>1, <1>2 DEF OnTheWay

(* A run that is not concerned delivers what it delivered. *)
LEMMA StillDelivers ==
    ASSUME Typed, NEW s \in Runs, Delivers(s), UNCHANGED fn,
           \/ ~run'[s].clean
           \/ /\ run'[s] = run[s] /\ UNCHANGED objectVars
              /\ \/ UNCHANGED tasks
                 \/ tasks # <<>> /\ tasks' = Tail(tasks) /\ Head(tasks).by # s
                 \/ \E t : t.by # s /\ tasks' = Append(tasks, t)
    PROVE  Delivers(s)'
<1>1. CASE ~run'[s].clean
  BY <1>1 DEF Delivers
<1>2. CASE /\ run'[s] = run[s] /\ UNCHANGED objectVars
           /\ \/ UNCHANGED tasks
              \/ tasks # <<>> /\ tasks' = Tail(tasks) /\ Head(tasks).by # s
              \/ \E t : t.by # s /\ tasks' = Append(tasks, t)
  <2>1. OnTheWay(s) \subseteq OnTheWay(s)'
    <3>1. CASE UNCHANGED tasks
      BY <3>1 DEF OnTheWay
    <3>2. CASE tasks # <<>> /\ tasks' = Tail(tasks) /\ Head(tasks).by # s
      BY <3>2, TailKeeps
    <3>3. CASE \E t : t.by # s /\ tasks' = Append(tasks, t)
      BY <3>3, AppendKeeps
    <3> QED BY <1>2, <3>1, <3>2, <3>3
  <2>2. Unsent(s)' = Unsent(s)
    BY <1>2 DEF Unsent, Listed
  <2>3. Left(s) \subseteq Left(s)'
    BY <2>1, <2>2 DEF Left
  <2>4. Owes(Left(s), copies, val) => Owes(Left(s)', copies, val)
    BY <2>3, OwesMore
  <2>5. Owes(Left(s)', copies, val) => Owes(Left(s), copies, val)'
    BY <1>2 DEF Owes, objectVars
  <2> QED BY <1>2, <2>4, <2>5 DEF Delivers
<1> QED BY <1>1, <1>2

(* A run that succeeded undisturbed has nothing left to see done. *)
LEMMA SucceededDelivers ==
    ASSUME Typed, NEW r \in Runs, Succeeded(r), Delivers(r)
    PROVE  IsDeclared
<1>1. Left(r) = {}
  BY DEF Succeeded, Left, Unsent, OnTheWay
<1>2. Owes({}, copies, val)
  BY <1>1 DEF Succeeded, Delivers
<1> QED BY <1>2, NothingOwed

LEMMA BeginDelivers ==
    ASSUME Typed, NEW r \in Runs, NEW test \in BOOLEAN, Begin(r, test),
           NEW s \in Runs, Delivers(s)
    PROVE  Delivers(s)'
<1>1. UNCHANGED <<fn, objectVars, tasks>> /\ run \in [Runs -> Run]
  BY DEF Begin, Typed, TypeOK
<1>2. IF s = r THEN ~run'[s].clean ELSE run'[s] = run[s]
  BY <1>1 DEF Begin
<1> QED BY <1>1, <1>2, StillDelivers

(* What a lookup that is not disturbed leads to. *)
LEMMA LookDelivers ==
    ASSUME Typed, Judged(fn), NEW r \in Runs, Looks(r), UNCHANGED <<fn, objectVars, tasks>>
    PROVE  Delivers(r)'
<1>1. PICK found \in Lookup :
        LET says == Verdict(found, run[r].test)
        IN run' = [run EXCEPT ![r] =
               IF says # "none" THEN Idle([@ EXCEPT !.clean = Alone], says)
               ELSE [@ EXCEPT !.pc = "write", !.found = found, !.saw = Body,
                              !.todo = Needed(found), !.clean = Alone]]
  BY DEF Looks
<1> DEFINE says == Verdict(found, run[r].test)
<1>2. run \in [Runs -> Run] /\ copies \in 0..2 /\ fn \in StateFunction
  BY DEF Typed, TypeOK
<1>3. found <=> copies > 0
  <2>1. fn.lookup # "maybe"
    BY DEF Judged, Surely
  <2>2. found \in {copies > 0}
    BY <2>1 DEF Lookup
  <2> QED BY <2>2, Zenon
<1>4. fn.goal \in {"present", "absent"} /\ fn.make \in Seq(Request) /\ fn.change \in Seq(Request)
      /\ fn.compared \subseteq Fields
  BY <1>2 DEF StateFunction
<1>5. \/ /\ says # "none" /\ run'[r].pc = "idle"
         /\ run'[r].clean => Alone /\ says \in {"already", "changed"}
      \/ /\ says = "none" /\ run'[r].pc = "write" /\ run'[r].found = found
         /\ run'[r].todo = Needed(found) /\ (run'[r].clean => Alone)
  <2>1. run[r] \in Run /\ Alone \in BOOLEAN /\ (says \in {"already", "changed"}) \in BOOLEAN
    BY <1>2 DEF Alone
  <2> QED BY <1>1, <1>2, <2>1, Zenon DEF Idle, Run
<1>6. says \in {"already", "changed"} => IsDeclared
  <2>1. SUFFICES ASSUME says \in {"already", "changed"} PROVE IsDeclared
    OBVIOUS
  <2>spared. ~fn.spared
    BY DEF Judged, Repairs
  <2>2. found \/ fn.missing = "make"
    BY <2>1, <2>spared DEF Verdict
  <2>3. Needed(found) = {} /\ ~(found /\ (fn.goal = "absent" \/ Differs # {}))
    BY <2>1, <2>spared DEF Verdict
  <2>4. CASE found
    <3>1. fn.goal = "present" /\ Differs = {}
      BY <1>4, <2>3, <2>4
    <3>2. \A x \in fn.compared : val[x] = "want"
      BY <1>4, <3>1 DEF Differs, Typed, TypeOK
    <3> QED BY <1>3, <2>4, <3>1, <3>2 DEF IsDeclared
  <2>5. CASE ~found
    <3>1. DOMAIN fn.make = {}
      BY <2>3, <2>5 DEF Needed
    <3>2. fn.make = <<>>
      <4>1. DOMAIN fn.make = 1..Len(fn.make) /\ Len(fn.make) \in Nat
        BY <1>4
      <4>2. Len(fn.make) = 0
        <5>1. ASSUME Len(fn.make) # 0 PROVE 1 \in DOMAIN fn.make
          BY <4>1, <5>1
        <5> QED BY <3>1, <5>1, Zenon
      <4> QED BY <1>4, <4>2, EmptySeq
    <3>3. fn.goal = "absent"
      BY <1>4, <2>2, <2>5, <3>2 DEF Judged, Repairs
    <3> QED BY <1>2, <1>3, <2>5, <3>3 DEF IsDeclared
  <2> QED BY <2>4, <2>5
<1>7. Alone /\ says = "none" /\ run'[r].pc = "write" /\ run'[r].found = found
        /\ run'[r].todo = Needed(found) => Owes(Unsent(r)', copies, val)
  <2>1. SUFFICES ASSUME Alone, says = "none", run'[r].pc = "write", run'[r].found = found,
                        run'[r].todo = Needed(found)
                 PROVE  Owes(Unsent(r)', copies, val)
    OBVIOUS
  <2>2. Needed(found) # {} /\ (found \/ fn.missing = "make")
    BY <2>1 DEF Verdict
  <2>3. Listed(r)' = IF found THEN fn.change ELSE fn.make
    BY <2>1 DEF Listed
  <2>4. \A i \in Needed(found) : (IF found THEN fn.change ELSE fn.make)[i] \in Unsent(r)'
    BY <2>1, <2>3 DEF Unsent
  <2>5. CASE ~found
    <3>1. Needed(found) = DOMAIN fn.make /\ fn.make # <<>>
      BY <2>2, <2>5 DEF Needed
    <3>2. fn.goal = "present" /\ 1 \in DOMAIN fn.make /\ fn.make[1].op \in {"add", "upsert"}
      BY <1>4, <3>1 DEF Judged, Steady
    <3>3. fn.compared \subseteq Sets(fn.make)
      BY <2>2, <2>5, <3>2 DEF Judged, Repairs
    <3>4. \A x \in fn.compared : \E i \in DOMAIN fn.make : x \in fn.make[i].sets
      BY <3>3 DEF Sets, Range
    <3> QED BY <2>4, <2>5, <3>1, <3>2, <3>4 DEF Owes
  <2>6. CASE found /\ fn.goal = "present"
    <3>1. Differs # {} /\ \A i \in DOMAIN fn.change :
            i \in Needed(found) <=> fn.change[i].on = {} \/ fn.change[i].on \cap Differs # {}
      BY <2>2, <2>6 DEF Needed
    <3>2. \A x \in fn.compared : val[x] = "want" \/ \E i \in Needed(found) : x \in fn.change[i].sets
      <4>1. SUFFICES ASSUME NEW x \in fn.compared, val[x] # "want"
                     PROVE  \E i \in Needed(found) : x \in fn.change[i].sets
        OBVIOUS
      <4>2. x \in Differs
        BY <1>4, <4>1 DEF Differs, Typed, TypeOK
      <4>3. PICK i \in DOMAIN fn.change :
              x \in fn.change[i].sets /\ (fn.change[i].on = {} \/ x \in fn.change[i].on)
        BY <4>1 DEF Judged, Repairs, Range
      <4>4. i \in Needed(found)
        BY <3>1, <4>2, <4>3
      <4> QED BY <4>3, <4>4
    <3>3. copies > 0
      BY <1>3, <2>6
    <3>4. \A x \in fn.compared : val[x] = "want" \/ \E q \in Unsent(r)' : x \in q.sets
      <4>1. \A i \in Needed(found) : fn.change[i] \in Unsent(r)'
        BY <2>4, <2>6
      <4> QED BY <3>2, <4>1
    <3> QED BY <2>6, <3>3, <3>4 DEF Owes
  <2>7. CASE found /\ fn.goal = "absent"
    <3>1. Needed(found) = DOMAIN fn.change
      BY <2>7 DEF Needed
    <3>2. \E i \in DOMAIN fn.change : fn.change[i].op = "remove"
      BY <2>7 DEF Judged, Repairs, Range
    <3>3. copies < 2
      BY <2>1 DEF Alone
    <3> QED BY <2>4, <2>7, <3>1, <3>2, <3>3 DEF Owes
  <2> QED BY <1>4, <2>5, <2>6, <2>7
<1>8. Alone => copies < 2
  BY DEF Alone
<1> HIDE DEF says
<1>9. SUFFICES ASSUME run'[r].clean PROVE run'[r].pc # "read" /\ Owes(Left(r)', copies, val)
  <2>1. Owes(Left(r)', copies, val) => Owes(Left(r), copies, val)'
    BY DEF Owes, objectVars
  <2> QED BY <2>1 DEF Delivers
<1>10. CASE says \in {"already", "changed"} /\ run'[r].pc = "idle" /\ Alone
  BY <1>6, <1>8, <1>10, DeclaredOwesNothing
<1>11. CASE says = "none" /\ run'[r].pc = "write" /\ run'[r].found = found
            /\ run'[r].todo = Needed(found) /\ Alone
  <2>1. Unsent(r)' \subseteq Left(r)'
    BY DEF Left
  <2> QED BY <1>7, <1>11, <2>1, OwesMore
<1> QED BY <1>5, <1>9, <1>10, <1>11

LEMMA ReadDelivers ==
    ASSUME Typed, Judged(fn), NEW r \in Runs, Read(r), NEW s \in Runs, Delivers(s)
    PROVE  Delivers(s)'
<1>1. UNCHANGED <<fn, objectVars, tasks>> /\ run \in [Runs -> Run]
  BY DEF Read, Typed, TypeOK
<1>2. CASE s # r
  <2>1. run'[s] = run[s]
    BY <1>1, <1>2 DEF Read, Looks
  <2> QED BY <1>1, <2>1, StillDelivers
<1>3. CASE s = r /\ Looks(r)
  BY <1>1, <1>3, LookDelivers
<1>4. CASE s = r /\ run' = [run EXCEPT ![r] = Idle(@, "failed")]
  <2>1. ~run'[s].clean
    BY <1>1, <1>4 DEF Idle, Run
  <2> QED BY <1>1, <2>1, StillDelivers
<1> QED BY <1>2, <1>3, <1>4 DEF Read

LEMMA OthersDeliver ==
    ASSUME Typed, NEW r \in Runs, Send(r) \/ SendFails(r), NEW s \in Runs, s # r, Delivers(s)
    PROVE  Delivers(s)'
<1>1. PICK i \in Due(r) : \/ Answered(r, Listed(r)[i], Advanced(r, i))
                         \/ Unanswered(r, Listed(r)[i], Advanced(r, i))
  BY DEF Send, SendFails
<1>2. run \in [Runs -> Run] /\ ~Stale(run[s]).clean
  BY DEF Typed, TypeOK, Stale, Run
<1>3. CASE \E next : Ends(r, next)
  BY <1>2, <1>3, StillDelivers DEF Ends
<1>4. CASE \E next : Changes(r, next)
  BY <1>2, <1>4, StillDelivers DEF Changes
<1>5. CASE \E next : Queued(r, Listed(r)[i]) /\ run' = [run EXCEPT ![r] = next]
  <2>1. run'[s] = run[s] /\ UNCHANGED <<fn, objectVars>>
    BY <1>2, <1>5 DEF Queued
  <2>2. \E t : t.by # s /\ tasks' = Append(tasks, t)
    BY <1>5 DEF Queued
  <2> QED BY <2>1, <2>2, StillDelivers
<1> QED BY <1>1, <1>3, <1>4, <1>5 DEF Answered, Unanswered

(* An undisturbed run after its request: what is left is what it had to do *)
(* but for the request that was carried out.                               *)
LEMMA SenderDelivers ==
    ASSUME Typed, Judged(fn), NEW r \in Runs, Send(r) \/ SendFails(r), Foresees(r), Delivers(r)
    PROVE  Delivers(r)'
<1>1. PICK i \in Due(r) : \/ Answered(r, Listed(r)[i], Advanced(r, i))
                         \/ Unanswered(r, Listed(r)[i], Advanced(r, i))
  BY DEF Send, SendFails
<1> DEFINE q == Listed(r)[i]
           after == Advanced(r, i)
<1>2. run[r].pc = "write" /\ run \in [Runs -> Run] /\ fn \in StateFunction /\ Plain(fn)
  BY SteadyIsPlain DEF Send, SendFails, Typed, TypeOK, Judged
<1>3. /\ i \in run[r].todo /\ i \in DOMAIN Listed(r)
      /\ after.pc = "write" => after.found = run[r].found /\ after.todo = run[r].todo \ {i}
      /\ after.pc \in {"write", "idle"}
      /\ after.clean => run[r].clean
      /\ after.pc = "idle" => run[r].todo \ {i} = {}
      /\ after \in Run
  <2>1. after.pc = "idle" => run[r].todo \ {i} = {}
    BY <1>2 DEF Advanced, Idle, Run
  <2>2. after \in Run
    <3>1. Idle(run[r], "changed") \in Run /\ [run[r] EXCEPT !.todo = run[r].todo \ {i}] \in Run
      BY <1>2, IdleTypes DEF Results, Run
    <3> QED BY <3>1 DEF Advanced
  <2> QED BY <1>2, <2>1, <2>2, DueIsFirst
<1>4. q \in Sent
  BY <1>3 DEF Listed, Sent, Range
<1>5. run[r].clean /\ q.op = "add" => copies = 0
  BY <1>2, PlainRequests DEF Foresees
<1>6. UNCHANGED fn
  BY <1>1 DEF Answered, Unanswered, Ends, Changes, Queued
<1>7. ASSUME run'[r] = after \/ run'[r] = [after EXCEPT !.saw = Body]
      PROVE  /\ Unsent(r) \ {q} \subseteq Unsent(r)'
             /\ run'[r].pc # "read" /\ (run'[r].clean => run[r].clean)
  <2>1. /\ run'[r].pc = after.pc /\ run'[r].todo = after.todo /\ run'[r].found = after.found
        /\ run'[r].clean = after.clean
    <3> HIDE DEF after
    <3> QED BY <1>3, <1>7 DEF Run
  <2>2. CASE after.pc = "idle"
    <3>1. Unsent(r) \ {q} = {}
      BY <1>3, <2>2 DEF Unsent
    <3> QED BY <1>3, <2>1, <2>2, <3>1
  <2>3. CASE after.pc = "write"
    <3>1. Listed(r)' = Listed(r)
      BY <1>3, <1>6, <2>1, <2>3 DEF Listed
    <3>2. run'[r].pc = "write" /\ run'[r].todo = run[r].todo \ {i}
      BY <1>3, <2>1, <2>3
    <3>3. Unsent(r) \ {q} \subseteq Unsent(r)'
      BY <1>2, <3>1, <3>2 DEF Unsent
    <3> QED BY <1>3, <2>1, <2>3, <3>3
  <2> QED BY <1>3, <2>2, <2>3
<1> HIDE DEF q, after
<1>8. CASE ~run'[r].clean
  BY <1>6, <1>8, StillDelivers
<1>9. ASSUME NEW n, NEW v, Owes(Left(r)', n, v), n = copies', v = val', run'[r].pc # "read"
      PROVE  Delivers(r)'
  BY <1>6, <1>9 DEF Delivers, Owes
<1>10. CASE /\ UNCHANGED tasks /\ run'[r].clean
            /\ \/ Works(q, run[r].saw)
               \/ (q.op = "read" \/ q.wait = "tried") /\ UNCHANGED objectVars
            /\ run'[r] = after \/ run'[r] = [after EXCEPT !.saw = Body]
  <2>1. run[r].clean /\ Owes(Left(r), copies, val) /\ run'[r].pc # "read"
    BY <1>7, <1>10 DEF Delivers
  <2>2. Owes(Left(r) \ {q}, copies', val')
    <3>1. CASE Works(q, run[r].saw)
      BY <1>4, <1>5, <2>1, <3>1, Carried DEF Judged
    <3>2. CASE (q.op = "read" \/ q.wait = "tried") /\ UNCHANGED objectVars
      BY <1>4, <2>1, <3>2, Dropped DEF Judged, objectVars
    <3> QED BY <1>10, <3>1, <3>2
  <2>3. Left(r) \ {q} \subseteq Left(r)'
    BY <1>7, <1>10 DEF Left, OnTheWay
  <2>4. Owes(Left(r)', copies', val')
    BY <2>2, <2>3, OwesMore
  <2> QED BY <1>9, <2>1, <2>4
<1>11. CASE Queued(r, q) /\ run'[r].clean /\ run'[r] = after
  <2>1. run[r].clean /\ Owes(Left(r), copies, val) /\ run'[r].pc # "read"
    BY <1>7, <1>11 DEF Delivers
  <2>2. tasks' = Append(tasks, [by |-> r, q |-> q, saw |-> run[r].saw]) /\ UNCHANGED <<copies, val>>
    BY <1>11 DEF Queued, objectVars
  <2>3. OnTheWay(r) \subseteq OnTheWay(r)' /\ q \in OnTheWay(r)'
    BY <2>2, AppendKeeps
  <2>4. Left(r) \subseteq Left(r)'
    BY <1>7, <1>11, <2>3 DEF Left
  <2>5. Owes(Left(r)', copies, val)
    BY <2>1, <2>4, OwesMore
  <2> QED BY <1>9, <2>1, <2>2, <2>5
<1>12. \/ ~run'[r].clean
       \/ /\ UNCHANGED tasks /\ run'[r].clean
          /\ \/ Works(q, run[r].saw)
             \/ (q.op = "read" \/ q.wait = "tried") /\ UNCHANGED objectVars
          /\ run'[r] = after \/ run'[r] = [after EXCEPT !.saw = Body]
       \/ Queued(r, q) /\ run'[r].clean /\ run'[r] = after
  <2>1. ~GivenUp(r).clean
    BY <1>2 DEF GivenUp, Idle, Run
  <2>2. CASE Answered(r, q, after)
    BY <1>2, <2>1, <2>2 DEF Answered, Failed, Ends, Changes
  <2>3. CASE Unanswered(r, q, after)
    BY <1>2, <2>1, <2>3 DEF Unanswered, Failed, Ends, Changes
  <2> QED BY <1>1, <2>2, <2>3 DEF q, after
<1> QED BY <1>8, <1>10, <1>11, <1>12

LEMMA LandDelivers ==
    ASSUME Typed, FromRuns, Judged(fn), Land, NEW s \in Runs, Foresees(s), Delivers(s)
    PROVE  Delivers(s)'
<1> DEFINE t == Head(tasks)
<1>1. run \in [Runs -> Run] /\ ~Stale(run[s]).clean
  BY DEF Typed, TypeOK, Stale, Run
<1>2. tasks # <<>> /\ tasks' = Tail(tasks) /\ UNCHANGED fn /\ t = tasks[1] /\ 1 \in DOMAIN tasks
  BY TailOf DEF Land, Changes
<1>3. CASE ~run'[s].clean
  BY <1>2, <1>3, StillDelivers
<1>4. CASE run'[s] = run[s] /\ UNCHANGED objectVars /\ t.by # s
  BY <1>2, <1>4, StillDelivers
<1>5. CASE Works(t.q, t.saw) /\ t.by = s /\ run'[s] = run[s] /\ run[s].clean
  <2>1. t.q \in Sent
    BY <1>2, <1>5 DEF FromRuns
  <2>2. t.q.op = "add" => copies = 0
    BY <1>2, <1>5 DEF Foresees
  <2>3. Owes(Left(s), copies, val) /\ run[s].pc # "read"
    BY <1>5 DEF Delivers
  <2>4. Owes(Left(s) \ {t.q}, copies', val')
    BY <1>5, <2>1, <2>2, <2>3, Carried DEF Judged
  <2>5. Unsent(s)' = Unsent(s) /\ OnTheWay(s) \ {t.q} \subseteq OnTheWay(s)'
    BY <1>2, <1>5, TailKeeps DEF Unsent, Listed
  <2>6. Left(s) \ {t.q} \subseteq Left(s)'
    BY <2>5 DEF Left
  <2>7. Owes(Left(s)', copies', val')
    BY <2>4, <2>6, OwesMore
  <2>8. Owes(Left(s), copies, val)'
    BY <1>2, <2>7 DEF Owes
  <2> QED BY <1>5, <2>3, <2>8 DEF Delivers
<1>6. \/ ~run'[s].clean
      \/ run'[s] = run[s] /\ UNCHANGED objectVars /\ t.by # s
      \/ Works(t.q, t.saw) /\ t.by = s /\ run'[s] = run[s] /\ run[s].clean
  BY <1>1 DEF Land, Changes
<1> QED BY <1>3, <1>4, <1>5, <1>6

LEMMA OutsideDelivers ==
    ASSUME Typed, Edit \/ ByHand, NEW s \in Runs, Delivers(s)
    PROVE  Delivers(s)'
<1>1. run \in [Runs -> Run] /\ ~Stale(run[s]).clean /\ s # Operator
  BY DeclaredAssumption DEF Typed, TypeOK, Stale, Run
<1>2. UNCHANGED fn
  BY DEF Edit, ByHand
<1>3. CASE run' = [r \in Runs |-> Stale(run[r])]
  BY <1>1, <1>2, <1>3, StillDelivers
<1>4. CASE UNCHANGED <<objectVars, run>> /\ \E t : t.by = Operator /\ tasks' = Append(tasks, t)
  BY <1>1, <1>2, <1>4, StillDelivers
<1>5. \/ run' = [r \in Runs |-> Stale(run[r])]
      \/ UNCHANGED <<objectVars, run>> /\ \E t : t.by = Operator /\ tasks' = Append(tasks, t)
  <2>1. CASE Edit
    BY <2>1 DEF Edit
  <2>2. CASE ByHand
    <3>1. \A q, seen : [by |-> Operator, q |-> q, saw |-> seen].by = Operator
      OBVIOUS
    <3> QED BY <2>2, <3>1 DEF ByHand
  <2> QED BY <2>1, <2>2
<1> QED BY <1>3, <1>4, <1>5

(* While it is settled that a run succeeded, the object stays as declared. *)
LEMMA StaysSettled ==
    ASSUME Typed, Next, settled => IsDeclared, \A r \in Runs : Delivers(r)
    PROVE  settled' => IsDeclared'
<1>1. CASE UNCHANGED <<fn, objectVars, settled>>
  BY <1>1 DEF IsDeclared, objectVars
<1>2. CASE settled' = FALSE
  BY <1>2
<1>3. ASSUME NEW r \in Runs, NEW test \in BOOLEAN, Begin(r, test)
      PROVE  settled' => IsDeclared'
  <2>1. Succeeded(r) => IsDeclared
    BY SucceededDelivers
  <2> QED BY <1>3, <2>1 DEF Begin, IsDeclared, objectVars
<1>4. ASSUME NEW r \in Runs, Read(r) PROVE UNCHANGED <<fn, objectVars, settled>>
  BY <1>4 DEF Read
<1>5. ASSUME NEW r \in Runs, Send(r) \/ SendFails(r)
      PROVE  UNCHANGED <<fn, objectVars, settled>> \/ settled' = FALSE
  BY <1>5 DEF Send, SendFails, Answered, Unanswered, Ends, Changes, Queued
<1>6. ASSUME Land \/ Edit \/ ByHand
      PROVE  UNCHANGED <<fn, objectVars, settled>> \/ settled' = FALSE
  BY <1>6 DEF Land, Edit, ByHand, Changes
<1> QED BY <1>1, <1>2, <1>3, <1>4, <1>5, <1>6 DEF Next

(* The tasks of the runs are requests of the function. *)
LEMMA FromRunsStep == ASSUME Typed, FromRuns, [Next]_vars PROVE FromRuns'
<1>1. Sent' = Sent
  BY FunctionStays DEF Sent
<1>2. CASE UNCHANGED tasks
  BY <1>1, <1>2 DEF FromRuns
<1>3. CASE tasks # <<>> /\ tasks' = Tail(tasks)
  <2>1. \A k \in DOMAIN tasks' : k + 1 \in DOMAIN tasks /\ tasks'[k] = tasks[k + 1]
    BY <1>3, TailOf
  <2> QED BY <1>1, <2>1 DEF FromRuns
<1>4. CASE \E t : (t.by \in Runs => t.q \in Sent) /\ tasks' = Append(tasks, t)
  BY <1>1, <1>4, AppendOf DEF FromRuns
<1>5. \/ UNCHANGED tasks
      \/ tasks # <<>> /\ tasks' = Tail(tasks)
      \/ \E t : (t.by \in Runs => t.q \in Sent) /\ tasks' = Append(tasks, t)
  <2>1. ASSUME NEW r \in Runs, NEW test \in BOOLEAN, Begin(r, test) \/ Read(r) PROVE UNCHANGED tasks
    BY <2>1 DEF Begin, Read
  <2>2. ASSUME NEW r \in Runs, Send(r) \/ SendFails(r)
        PROVE  \/ UNCHANGED tasks
               \/ \E t : (t.by \in Runs => t.q \in Sent) /\ tasks' = Append(tasks, t)
    <3>1. PICK i \in Due(r) : \/ Answered(r, Listed(r)[i], Advanced(r, i))
                             \/ Unanswered(r, Listed(r)[i], Advanced(r, i))
      BY <2>2 DEF Send, SendFails
    <3>2. i \in DOMAIN Listed(r)
      BY <2>2, DueIsFirst DEF Send, SendFails
    <3>3. Listed(r)[i] \in Sent
      BY <3>2 DEF Listed, Sent, Range
    <3>4. CASE Queued(r, Listed(r)[i])
      <4>1. tasks' = Append(tasks, [by |-> r, q |-> Listed(r)[i], saw |-> run[r].saw])
        BY <3>4 DEF Queued
      <4> QED BY <3>3, <4>1
    <3>5. UNCHANGED tasks \/ Queued(r, Listed(r)[i])
      BY <3>1 DEF Answered, Unanswered, Ends
    <3> QED BY <3>4, <3>5
  <2>3. CASE Land
    BY <2>3 DEF Land
  <2>4. CASE Edit
    BY <2>4 DEF Edit
  <2>5. CASE ByHand
    <3>1. UNCHANGED tasks \/ \E q, seen : tasks' = Append(tasks, [by |-> Operator, q |-> q, saw |-> seen])
      BY <2>5 DEF ByHand
    <3>2. \A q, seen : [by |-> Operator, q |-> q, saw |-> seen].by \notin Runs
      BY DeclaredAssumption
    <3> QED BY <3>1, <3>2
  <2>6. CASE UNCHANGED vars
    BY <2>6 DEF vars
  <2> QED BY <2>1, <2>2, <2>3, <2>4, <2>5, <2>6 DEF Next
<1> QED BY <1>2, <1>3, <1>4, <1>5

LEMMA FromRunsAlways == Spec => []FromRuns
<1>1. Init => FromRuns
  BY DEF Init, FromRuns
<1>2. Typed /\ FromRuns /\ [Next]_vars => FromRuns'
  BY FromRunsStep
<1> QED BY <1>1, <1>2, TypedAlways, PTL DEF Spec

LEMMA DeliveringStep ==
    ASSUME Typed, FromRuns, Racing, Delivering, [Next]_vars
    PROVE  Delivering'
<1>1. CASE UNCHANGED vars
  BY <1>1 DEF vars, objectVars, Delivering, Delivers, Owes, Left, Unsent, OnTheWay, IsDeclared, Listed
<1>2. CASE Next
  <2>1. UNCHANGED fn
    BY FunctionStays
  <2>2. SUFFICES ASSUME Judged(fn), \A r \in Runs : Delivers(r), settled => IsDeclared
                 PROVE  (\A s \in Runs : Delivers(s)') /\ (settled' => IsDeclared')
    BY <2>1 DEF Delivering
  <2>3. \A s \in Runs : Foresees(s)
    BY <2>2, SteadyIsPlain DEF Racing, Judged, Typed, TypeOK
  <2>4. ASSUME NEW s \in Runs PROVE Delivers(s)'
    <3>1. ASSUME NEW r \in Runs, NEW test \in BOOLEAN, Begin(r, test) PROVE Delivers(s)'
      BY <2>2, <3>1, BeginDelivers
    <3>2. ASSUME NEW r \in Runs, Read(r) PROVE Delivers(s)'
      BY <2>2, <3>2, ReadDelivers
    <3>3. ASSUME NEW r \in Runs, Send(r) \/ SendFails(r) PROVE Delivers(s)'
      BY <2>2, <2>3, <3>3, OthersDeliver, SenderDelivers
    <3>4. CASE Land
      BY <2>2, <2>3, <3>4, LandDelivers
    <3>5. CASE Edit \/ ByHand
      BY <2>2, <3>5, OutsideDelivers
    <3> QED BY <1>2, <3>1, <3>2, <3>3, <3>4, <3>5 DEF Next
  <2> QED BY <1>2, <2>2, <2>4, StaysSettled
<1> QED BY <1>1, <1>2

LEMMA DeliveringAlways == Spec => []Delivering
<1>1. Init => Delivering
  BY DEF Init, Delivering, Delivers
<1>2. Typed /\ FromRuns /\ Racing /\ Delivering /\ [Next]_vars => Delivering'
  BY DeliveringStep
<1> QED BY <1>1, <1>2, TypedAlways, FromRunsAlways, RacingAlways, PTL DEF Spec

LEMMA SteadyAlways == Spec /\ Steady(fn) => []Steady(fn)
<1>1. Steady(fn) /\ [Next]_vars => Steady(fn)'
  BY FunctionStays
<1> QED BY <1>1, PTL DEF Spec

(* What a run reports as done is done, for every steady function: whatever *)
(* the other runs, the operator, an administrator and the faults did       *)
(* before it looked, and whether or not it waits for its tasks.            *)
THEOREM SuccessIsTrue == Spec /\ Steady(fn) => []SuccessIsDeclared
<1>1. Typed /\ Delivering /\ Steady(fn) => SuccessIsDeclared
  BY SucceededDelivers DEF Delivering, Judged, SuccessIsDeclared
<1> QED BY <1>1, TypedAlways, DeliveringAlways, SteadyAlways, PTL

(***************************************************************************)
(* Nothing is half made.                                                   *)
(***************************************************************************)

(* Who owns the object after a step: nobody wrote to it, or a run wrote to *)
(* it that made it, or to one that a run had made.                         *)
LEMMA WhoOwnsIt ==
    ASSUME Typed, FromRuns, [Next]_vars, own'
    PROVE  \/ own /\ UNCHANGED objectVars
           \/ \E q \in Sent : \E saw : Works(q, saw) /\ (own \/ copies = 0) /\ copies' > 0
<1>1. ASSUME NEW r \in Runs, NEW test \in BOOLEAN, Begin(r, test) PROVE own /\ UNCHANGED objectVars
  BY <1>1 DEF Begin
<1>2. ASSUME NEW r \in Runs, Read(r) PROVE own /\ UNCHANGED objectVars
  BY <1>2 DEF Read
<1>3. ASSUME NEW r \in Runs, Send(r) \/ SendFails(r)
      PROVE  \/ own /\ UNCHANGED objectVars
             \/ \E q \in Sent : \E saw : Works(q, saw) /\ (own \/ copies = 0) /\ copies' > 0
  <2>1. PICK i \in Due(r) : \/ Answered(r, Listed(r)[i], Advanced(r, i))
                           \/ Unanswered(r, Listed(r)[i], Advanced(r, i))
    BY <1>3 DEF Send, SendFails
  <2>2. i \in DOMAIN Listed(r)
    BY <1>3, DueIsFirst DEF Send, SendFails
  <2>3. Listed(r)[i] \in Sent
    BY <2>2 DEF Listed, Sent, Range
  <2>4. CASE Works(Listed(r)[i], run[r].saw) /\ \E next : Changes(r, next)
    BY <2>3, <2>4 DEF Changes
  <2>5. CASE own /\ UNCHANGED objectVars
    BY <2>5
  <2> QED BY <2>1, <2>4, <2>5 DEF Answered, Unanswered, Ends, Queued
<1>4. CASE Land
  <2>1. CASE Works(Head(tasks).q, Head(tasks).saw) /\ Changes(Head(tasks).by, run[Head(tasks).by])
    <3>1. Head(tasks) = tasks[1] /\ 1 \in DOMAIN tasks
      BY <1>4, TailOf DEF Land
    <3>2. Head(tasks).by \in Runs
      <4>1. tasks \in Seq(Accepted)
        BY DEF Typed, TypeOK, Accepted
      <4>2. tasks[1] \in Accepted
        BY <3>1, <4>1
      <4>3. Head(tasks).by # Operator
        BY <2>1 DEF Changes
      <4> QED BY <3>1, <4>2, <4>3 DEF Accepted
    <3>3. Head(tasks).q \in Sent
      BY <3>1, <3>2 DEF FromRuns
    <3> QED BY <2>1, <3>3 DEF Changes
  <2>2. CASE own /\ UNCHANGED objectVars
    BY <2>2
  <2> QED BY <1>4, <2>1, <2>2 DEF Land
<1>5. CASE Edit
  BY <1>5 DEF Edit
<1>6. CASE ByHand
  BY <1>6 DEF ByHand
<1>7. CASE UNCHANGED vars
  BY <1>7 DEF vars
<1> QED BY <1>1, <1>2, <1>3, <1>4, <1>5, <1>6, <1>7 DEF Next

(* What the first request for a missing object writes, and no later run    *)
(* compares, is there as long as only runs wrote to the object.            *)
Kept ==
    own /\ fn.goal = "present" /\ Steady(fn) /\ Remakes(fn)
      => copies > 0 /\ \A i \in DOMAIN fn.make : \A x \in fn.make[i].sets :
                          i = 1 /\ x \notin fn.compared => val[x] = "want"

LEMMA KeptStep == ASSUME Typed, FromRuns, Kept, [Next]_vars PROVE Kept'
<1>1. UNCHANGED fn
  BY FunctionStays
<1>2. SUFFICES ASSUME own', fn.goal = "present", Steady(fn), Remakes(fn)
               PROVE  copies' > 0 /\ \A i \in DOMAIN fn.make : \A x \in fn.make[i].sets :
                                       i = 1 /\ x \notin fn.compared => val'[x] = "want"
  BY <1>1 DEF Kept
<1>3. CASE own /\ UNCHANGED objectVars
  BY <1>2, <1>3 DEF Kept, objectVars
<1>4. ASSUME NEW q \in Sent, NEW saw, Works(q, saw), own \/ copies = 0, copies' > 0
      PROVE  \A i \in DOMAIN fn.make : \A x \in fn.make[i].sets :
               i = 1 /\ x \notin fn.compared => val'[x] = "want"
  <2>1. q.op # "remove"
    BY <1>2 DEF Sent, Steady
  <2>2. SUFFICES ASSUME NEW i \in DOMAIN fn.make, NEW x \in fn.make[i].sets, i = 1, x \notin fn.compared
                 PROVE  val'[x] = "want"
    OBVIOUS
  <2>3. x \in Fields /\ \A v : Written(v, q)[x] = IF x \in q.sets THEN "want" ELSE v[x]
    <3>1. fn.make[i] \in Request
      BY DEF Typed, TypeOK, StateFunction
    <3>2. x \in Fields
      BY <3>1 DEF Request
    <3> QED BY <3>2 DEF Written
  <2>4. CASE Made(q) /\ q.op \in {"add", "upsert"}
    <3>1. CASE q \in Range(fn.make)
      <4>1. PICK j \in DOMAIN fn.make : q = fn.make[j]
        BY <3>1 DEF Range
      <4>2. j = 1
        BY <1>2, <2>4, <4>1 DEF Steady
      <4> QED BY <2>2, <2>3, <2>4, <4>1, <4>2 DEF Made
    <3>2. CASE q \in Range(fn.change)
      <4>1. q.op = "upsert"
        BY <1>2, <2>4, <3>2 DEF Steady
      <4>2. x \in q.sets
        BY <1>2, <2>2, <3>2, <4>1 DEF Remakes
      <4> QED BY <2>3, <2>4, <4>2 DEF Made
    <3> QED BY <3>1, <3>2 DEF Sent
  <2>5. CASE copies > 0
    <3>1. own
      BY <1>4, <2>5
    <3>2. val[x] = "want"
      BY <1>2, <2>2, <3>1 DEF Kept
    <3>3. val' = val \/ val' = Written(val, q)
      BY <1>4, <2>1, <2>5 DEF Works, Made, Doubled, Changed
    <3> QED BY <2>3, <3>2, <3>3
  <2> QED BY <1>4, <2>1, <2>4, <2>5 DEF Works, Doubled, Changed
<1> QED BY <1>2, <1>3, <1>4, WhoOwnsIt

LEMMA KeptAlways == Spec => []Kept
<1>1. Init => Kept
  BY DEF Init, Kept
<1>2. Typed /\ FromRuns /\ Kept /\ [Next]_vars => Kept'
  BY KeptStep
<1> QED BY <1>1, <1>2, TypedAlways, FromRunsAlways, PTL DEF Spec

LEMMA RemakesAlways == Spec /\ Remakes(fn) => []Remakes(fn)
<1>1. Remakes(fn) /\ [Next]_vars => Remakes(fn)'
  BY FunctionStays
<1> QED BY <1>1, PTL DEF Spec

(* A run that fails between the requests that make an object leaves nothing *)
(* that a later run takes for done: for every steady function whose changes *)
(* make the object anew only with everything that nobody compares.          *)
THEOREM HalfMadeIsMadeWhole == Spec /\ Steady(fn) /\ Remakes(fn) => []NothingIsHalfMade
<1>1. Typed /\ Delivering /\ Kept /\ Steady(fn) /\ Remakes(fn) => NothingIsHalfMade
  <2>1. SUFFICES ASSUME Typed, Delivering, Kept, Steady(fn), Remakes(fn), NEW r \in Runs,
                        Succeeded(r), own, fn.goal = "present", Surely(fn), Repairs(fn), Resumes(fn),
                        NEW x \in Sets(fn.make)
                 PROVE  val[x] = "want"
    BY DEF NothingIsHalfMade
  <2>2. \A y \in fn.compared : val[y] = "want"
    <3>1. IsDeclared
      BY <2>1, SucceededDelivers DEF Delivering, Judged
    <3> QED BY <2>1, <3>1 DEF IsDeclared
  <2>3. PICK i \in DOMAIN fn.make : x \in fn.make[i].sets
    BY <2>1 DEF Sets, Range
  <2>4. fn.make \in Seq(Request)
    BY <2>1 DEF Typed, TypeOK, StateFunction
  <2>5. i \in Nat /\ i >= 1 /\ 1 \in DOMAIN fn.make
    BY <2>3, <2>4
  <2>6. x \in fn.compared \/ x \in fn.make[1].sets
    <3>1. i = 1 \/ i > 1
      BY <2>5
    <3> QED BY <2>1, <2>3, <3>1 DEF Resumes
  <2> QED BY <2>1, <2>2, <2>5, <2>6 DEF Kept
<1> QED BY <1>1, TypedAlways, DeliveringAlways, KeptAlways, SteadyAlways, RemakesAlways, PTL

(* No run begins to write when one has succeeded and nothing changed since. *)
QuietStep ==
    \A r \in Runs :
      /\ settled \/ \E s \in Runs : Succeeded(s)
      /\ Surely(fn) /\ Repairs(fn) /\ Ordered(fn) /\ Readable(fn)
      => ~(run[r].pc = "read" /\ run'[r].pc = "write")

LEMMA StepIsQuiet == ASSUME Typed, Delivering, Steady(fn), [Next]_vars PROVE QuietStep
<1> SUFFICES ASSUME NEW r \in Runs, settled \/ \E s \in Runs : Succeeded(s),
                    Surely(fn), Repairs(fn), Readable(fn), run[r].pc = "read", run'[r].pc = "write"
             PROVE  FALSE
  BY DEF QuietStep
<1>1. IsDeclared
  BY SucceededDelivers DEF Delivering, Judged
<1>2. run \in [Runs -> Run] /\ copies \in 0..2 /\ fn.goal \in {"present", "absent"}
  BY DEF Typed, TypeOK, StateFunction
<1>3. Looks(r)
  <2>1. ASSUME NEW s \in Runs, NEW test \in BOOLEAN, Begin(s, test) PROVE FALSE
    BY <1>2, <2>1 DEF Begin
  <2>2. ASSUME NEW s \in Runs, Read(s) PROVE s = r /\ Looks(r)
    <3>1. s = r
      BY <1>2, <2>2 DEF Read, Looks
    <3>2. run' # [run EXCEPT ![r] = Idle(run[r], "failed")]
      <4>1. Idle(run[r], "failed").pc = "idle"
        BY <1>2 DEF Idle, Run
      <4> QED BY <1>2, <4>1
    <3> QED BY <2>2, <3>1, <3>2 DEF Read
  <2>3. ASSUME NEW s \in Runs, Send(s) \/ SendFails(s) PROVE FALSE
    <3>1. run[s].pc = "write" /\ s # r
      BY <2>3 DEF Send, SendFails
    <3>2. run'[r].pc = run[r].pc
      <4>1. Stale(run[r]).pc = run[r].pc
        BY <1>2 DEF Stale, Run
      <4> QED BY <1>2, <2>3, <3>1, <4>1
              DEF Send, SendFails, Answered, Unanswered, Ends, Changes, Queued
    <3> QED BY <3>2
  <2>4. CASE Land \/ Edit \/ ByHand \/ UNCHANGED vars
    <3>1. run'[r].pc = run[r].pc
      <4>1. Stale(run[r]).pc = run[r].pc
        BY <1>2 DEF Stale, Run
      <4> QED BY <2>4, <4>1 DEF Land, Edit, ByHand, Changes, vars
    <3> QED BY <3>1
  <2> QED BY <2>1, <2>2, <2>3, <2>4 DEF Next
<1>4. PICK found \in Lookup : Verdict(found, run[r].test) = "none"
  BY <1>2, <1>3 DEF Looks, Idle, Run
<1>5. found <=> copies > 0
  <2>1. found \in {copies > 0}
    BY DEF Lookup, Surely
  <2> QED BY <2>1, Zenon
<1>6. Needed(found) # {}
  BY <1>4 DEF Verdict
<1>7. CASE fn.goal = "present"
  <2>1. found /\ \A x \in fn.compared : val[x] = "want" /\ x \notin unread
    BY <1>1, <1>5, <1>7 DEF IsDeclared, Readable
  <2>2. Differs = {}
    BY <2>1 DEF Differs
  <2> QED BY <1>6, <1>7, <2>1, <2>2 DEF Needed
<1>8. CASE fn.goal = "absent"
  <2>1. ~found /\ fn.make = <<>>
    BY <1>1, <1>2, <1>5, <1>8 DEF IsDeclared, Steady
  <2> QED BY <1>6, <2>1 DEF Needed
<1> QED BY <1>2, <1>7, <1>8

(* A further run finds nothing to do, for the same functions. *)
THEOREM RepeatsAreQuiet == Spec /\ Steady(fn) => RepeatIsQuiet
<1>1. Typed /\ Delivering /\ Steady(fn) /\ [Next]_vars => [QuietStep]_vars
  BY StepIsQuiet
<1>2. Spec /\ Steady(fn) => [][QuietStep]_vars
  BY <1>1, TypedAlways, DeliveringAlways, SteadyAlways, PTL DEF Spec
<1> QED BY <1>2 DEF RepeatIsQuiet, QuietStep

(***************************************************************************)
(* A run is not in its own way.                                            *)
(***************************************************************************)

OnlyReads(r) == \A i \in run[r].todo : fn.change[i].op = "read"

(* What the requests of an undisturbed run meet: the object its first one  *)
(* made, or the one it found until it has removed it; and no removal of its *)
(* own is on its way as long as it needs the object.                        *)
Meets(r) ==
    run[r].clean /\ run[r].pc = "write" =>
        /\ ~run[r].found /\ 1 \notin run[r].todo => copies > 0
        /\ run[r].found => copies > 0 \/ OnlyReads(r)
        /\ \A k \in DOMAIN tasks : tasks[k].by = r /\ tasks[k].q.op = "remove" =>
              run[r].found /\ OnlyReads(r)

Meeting == Surely(fn) /\ Steady(fn) /\ Direct(fn) => \A r \in Runs : Meets(r)

(* A run that is not concerned meets what it met. *)
LEMMA StillMeets ==
    ASSUME Typed, NEW s \in Runs, Meets(s), UNCHANGED fn,
           \/ ~run'[s].clean
           \/ /\ run'[s] = run[s]
              /\ \/ UNCHANGED <<copies, tasks>>
                 \/ tasks # <<>> /\ tasks' = Tail(tasks) /\ UNCHANGED copies
                 \/ \E t : t.by # s /\ tasks' = Append(tasks, t) /\ UNCHANGED copies
    PROVE  Meets(s)'
<1>1. CASE ~run'[s].clean
  BY <1>1 DEF Meets
<1>2. CASE run'[s] = run[s] /\ UNCHANGED <<copies, tasks>>
  BY <1>2 DEF Meets, OnlyReads
<1>3. CASE run'[s] = run[s] /\ UNCHANGED copies /\ tasks # <<>> /\ tasks' = Tail(tasks)
  <2>1. \A k \in DOMAIN tasks' : k + 1 \in DOMAIN tasks /\ tasks'[k] = tasks[k + 1]
    BY <1>3, TailOf
  <2> QED BY <1>3, <2>1 DEF Meets, OnlyReads
<1>4. CASE run'[s] = run[s] /\ UNCHANGED copies /\ \E t : t.by # s /\ tasks' = Append(tasks, t)
  <2>1. PICK t : t.by # s /\ tasks' = Append(tasks, t)
    BY <1>4
  <2>2. \A k \in DOMAIN tasks' : tasks'[k].by = s => k \in DOMAIN tasks /\ tasks'[k] = tasks[k]
    BY <2>1, AppendOf
  <2> QED BY <1>4, <2>2 DEF Meets, OnlyReads
<1> QED BY <1>1, <1>2, <1>3, <1>4

LEMMA BeginMeets ==
    ASSUME Typed, NEW r \in Runs, NEW test \in BOOLEAN, Begin(r, test), NEW s \in Runs, Meets(s)
    PROVE  Meets(s)'
<1>1. UNCHANGED <<fn, copies, tasks>> /\ run \in [Runs -> Run]
  BY DEF Begin, objectVars, Typed, TypeOK
<1>2. IF s = r THEN ~run'[s].clean ELSE run'[s] = run[s]
  BY <1>1 DEF Begin
<1> QED BY <1>1, <1>2, StillMeets

(* It begins with what it found, and nothing is on its way. *)
LEMMA ReadMeets ==
    ASSUME Typed, NEW r \in Runs, Read(r), Surely(fn), NEW s \in Runs, Meets(s)
    PROVE  Meets(s)'
<1>1. UNCHANGED <<fn, copies, tasks>> /\ run \in [Runs -> Run]
  BY DEF Read, objectVars, Typed, TypeOK
<1>2. CASE s # r
  <2>1. run'[s] = run[s]
    BY <1>1, <1>2 DEF Read, Looks
  <2> QED BY <1>1, <2>1, StillMeets
<1>3. CASE s = r /\ Looks(r)
  <2>1. PICK found \in Lookup :
          LET says == Verdict(found, run[r].test)
          IN run' = [run EXCEPT ![r] =
                 IF says # "none" THEN Idle([@ EXCEPT !.clean = Alone], says)
                 ELSE [@ EXCEPT !.pc = "write", !.found = found, !.saw = Body,
                                !.todo = Needed(found), !.clean = Alone]]
    BY <1>3 DEF Looks
  <2>2. CASE Verdict(found, run[r].test) # "none"
    <3>1. run'[r].pc = "idle"
      BY <1>1, <2>1, <2>2, Zenon DEF Idle, Run
    <3> QED BY <1>3, <3>1 DEF Meets
  <2>3. CASE Verdict(found, run[r].test) = "none"
    <3>1. /\ run'[r].found = found /\ run'[r].todo = Needed(found)
          /\ run'[r].clean => tasks = <<>>
      BY <1>1, <2>1, <2>3 DEF Alone, Run
    <3>2. found <=> copies > 0
      <4>1. fn.lookup # "maybe"
        BY DEF Surely
      <4>2. found \in {copies > 0}
        BY <4>1 DEF Lookup
      <4> QED BY <4>2, Zenon
    <3>3. ~found => 1 \in Needed(found)
      <4>1. SUFFICES ASSUME ~found PROVE 1 \in DOMAIN fn.make
        BY DEF Needed
      <4>2. Needed(found) # {}
        BY <2>3 DEF Verdict
      <4>3. fn.make \in Seq(Request) /\ DOMAIN fn.make # {}
        BY <4>1, <4>2 DEF Needed, Typed, TypeOK, StateFunction
      <4> QED BY <4>3
    <3> QED BY <1>1, <1>3, <3>1, <3>2, <3>3 DEF Meets
  <2> QED BY <2>2, <2>3
<1>4. CASE s = r /\ run' = [run EXCEPT ![r] = Idle(@, "failed")]
  <2>1. ~run'[s].clean
    BY <1>1, <1>4 DEF Idle, Run
  <2> QED BY <1>1, <2>1, StillMeets
<1> QED BY <1>2, <1>3, <1>4 DEF Read

LEMMA OthersMeet ==
    ASSUME Typed, NEW r \in Runs, Send(r) \/ SendFails(r), NEW s \in Runs, s # r, Meets(s)
    PROVE  Meets(s)'
<1>1. PICK i \in Due(r) : \/ Answered(r, Listed(r)[i], Advanced(r, i))
                         \/ Unanswered(r, Listed(r)[i], Advanced(r, i))
  BY DEF Send, SendFails
<1>2. run \in [Runs -> Run] /\ ~Stale(run[s]).clean
  BY DEF Typed, TypeOK, Stale, Run
<1>3. CASE \E next : Ends(r, next)
  BY <1>2, <1>3, StillMeets DEF Ends, objectVars
<1>4. CASE \E next : Changes(r, next)
  BY <1>2, <1>4, StillMeets DEF Changes
<1>5. CASE \E next : Queued(r, Listed(r)[i]) /\ run' = [run EXCEPT ![r] = next]
  <2>1. run'[s] = run[s] /\ UNCHANGED <<fn, copies>>
    BY <1>2, <1>5 DEF Queued, objectVars
  <2>2. \E t : t.by # s /\ tasks' = Append(tasks, t)
    BY <1>5 DEF Queued
  <2> QED BY <2>1, <2>2, StillMeets
<1> QED BY <1>1, <1>3, <1>4, <1>5 DEF Answered, Unanswered

(* What a run that changes the object still has to send after a removal is *)
(* only to be read.                                                        *)
LEMMA AfterRemoval ==
    ASSUME Typed, Steady(fn), Direct(fn), NEW r \in Runs, run[r].pc = "write", NEW i \in Due(r),
           Listed(r)[i].op = "remove"
    PROVE  run[r].found /\ \A j \in run[r].todo \ {i} : fn.change[j].op = "read"
<1>1. i \in run[r].todo /\ i \in DOMAIN Listed(r) /\ run[r].todo \subseteq DOMAIN Listed(r)
  BY DueIsFirst DEF Typed, Fits, Listed
<1>2. run[r].found
  BY <1>1 DEF Steady, Listed, Range
<1>3. fn.change \in Seq(Request)
  BY DEF Typed, TypeOK, StateFunction
<1>4. ASSUME NEW j \in run[r].todo \ {i} PROVE fn.change[j].op = "read"
  <2>1. i <= j /\ i # j
    BY <1>4 DEF Due
  <2>2. i \in DOMAIN fn.change /\ j \in DOMAIN fn.change
    BY <1>1, <1>2, <1>4 DEF Listed
  <2>3. i < j
    BY <1>3, <2>1, <2>2
  <2> QED BY <1>2, <2>2, <2>3 DEF Direct, Listed
<1> QED BY <1>2, <1>4

(* What the request that is due does to the object and to what is to come. *)
LEMMA DueMeets ==
    ASSUME Typed, Surely(fn), Steady(fn), Direct(fn), NEW r \in Runs, run[r].pc = "write",
           run[r].clean, Foresees(r), Meets(r), NEW i \in Due(r)
    PROVE  /\ ~run[r].found => (i = 1 <=> 1 \in run[r].todo)
           /\ Refuses(Listed(r)[i]) => FALSE
           /\ Works(Listed(r)[i], run[r].saw) =>
                \/ copies' > 0
                \/ run[r].found /\ \A j \in run[r].todo \ {i} : fn.change[j].op = "read"
<1> DEFINE q == Listed(r)[i]
<1>1. i \in run[r].todo /\ i \in DOMAIN Listed(r) /\ copies \in 0..2
  BY DueIsFirst DEF Typed, TypeOK
<1>2. 1 \in run[r].todo => i = 1
  BY DueIsFirst
<1>3. Plain(fn)
  BY SteadyIsPlain DEF Typed, TypeOK
<1>4. /\ q.op = "add" => ~run[r].found /\ 1 \in run[r].todo
      /\ q.op = "upsert" => run[r].found \/ 1 \in run[r].todo
  BY <1>3, PlainRequests
<1>5. q.op = "remove" => run[r].found /\ \A j \in run[r].todo \ {i} : fn.change[j].op = "read"
  BY AfterRemoval
<1>6. ~run[r].found /\ 1 \in run[r].todo => q.op \in {"add", "upsert"} /\ copies = 0
  BY <1>1, <1>2 DEF Steady, Listed, Foresees
<1>7. run[r].found /\ OnlyReads(r) => q.op = "read"
  BY <1>1 DEF OnlyReads, Listed
<1> HIDE DEF q
<1>8. ~Refuses(q)
  BY <1>1, <1>4, <1>6, <1>7 DEF Refuses, Meets
<1>9. Works(q, run[r].saw) => copies' > 0 \/ q.op = "remove"
  BY <1>1 DEF Works, Made, Doubled, Changed
<1> QED BY <1>1, <1>2, <1>5, <1>8, <1>9 DEF q

LEMMA SenderMeets ==
    ASSUME Typed, Surely(fn), Steady(fn), Direct(fn), NEW r \in Runs, Send(r) \/ SendFails(r),
           Foresees(r), Meets(r)
    PROVE  Meets(r)'
<1>1. PICK i \in Due(r) : \/ Answered(r, Listed(r)[i], Advanced(r, i))
                         \/ Unanswered(r, Listed(r)[i], Advanced(r, i))
  BY DEF Send, SendFails
<1> DEFINE q == Listed(r)[i]
           after == Advanced(r, i)
<1>2. /\ run[r].pc = "write" /\ run \in [Runs -> Run] /\ copies \in 0..2
      /\ fn' = fn
  BY <1>1 DEF Send, SendFails, Typed, TypeOK, Answered, Unanswered, Ends, Changes, Queued
<1>3. /\ after.pc = "write" => after.found = run[r].found /\ after.todo = run[r].todo \ {i}
      /\ after.pc \in {"write", "idle"}
      /\ after.clean => run[r].clean
      /\ ~GivenUp(r).clean
      /\ i \in run[r].todo /\ i \in DOMAIN Listed(r)
  BY <1>2, DueIsFirst
<1>4. run[r].clean =>
        /\ ~run[r].found => (i = 1 <=> 1 \in run[r].todo)
        /\ Works(q, run[r].saw) =>
             \/ copies' > 0
             \/ run[r].found /\ \A j \in run[r].todo \ {i} : fn.change[j].op = "read"
  BY <1>2, DueMeets
<1>5. \A j \in run[r].todo \ {i} : j \in run[r].todo
  OBVIOUS
<1>remove. q.op = "remove" => run[r].found /\ \A j \in run[r].todo \ {i} : fn.change[j].op = "read"
  BY <1>2, AfterRemoval
<1>first. ~run[r].found /\ i = 1 => q.op \in {"add", "upsert"}
  BY <1>3 DEF Steady, Listed
<1>6. CASE run'[r].clean = FALSE
  BY <1>6 DEF Meets
<1>7. CASE /\ UNCHANGED <<copies, tasks>>
           /\ \/ run'[r] = after
              \/ run'[r] = [after EXCEPT !.saw = Body]
           /\ q.op \notin {"add", "upsert"}
  <2>1. /\ run'[r].pc = after.pc /\ run'[r].clean = after.clean
        /\ run'[r].todo = after.todo /\ run'[r].found = after.found
    <3>1. after \in Run
      <4>1. Idle(run[r], "changed") \in Run /\ [run[r] EXCEPT !.todo = run[r].todo \ {i}] \in Run
        BY <1>2, IdleTypes DEF Results, Run
      <4> QED BY <4>1 DEF after, Advanced
    <3> QED BY <1>7, <3>1 DEF Run
  <2> HIDE DEF q, after
  <2> QED BY <1>2, <1>3, <1>4, <1>5, <1>first, <1>7, <2>1 DEF Meets, OnlyReads
<1>8. CASE Works(q, run[r].saw) /\ UNCHANGED tasks /\ run'[r] = after
  <2> HIDE DEF q, after
  <2>1. run[r].found /\ (\A j \in run[r].todo \ {i} : fn.change[j].op = "read") =>
          (after.pc = "write" => OnlyReads(r)')
    BY <1>2, <1>3, <1>8 DEF OnlyReads
  <2> QED BY <1>2, <1>3, <1>4, <1>5, <1>8, <2>1 DEF Meets, OnlyReads
<1>9. CASE Queued(r, q) /\ ~Awaited(q) /\ run'[r] = after
  <2>1. UNCHANGED copies /\ tasks' = Append(tasks, [by |-> r, q |-> q, saw |-> run[r].saw])
    BY <1>9 DEF Queued, objectVars
  <2>2. \A k \in DOMAIN tasks' :
          \/ k \in DOMAIN tasks /\ tasks'[k] = tasks[k]
          \/ k = Len(tasks) + 1 /\ tasks'[k].q = q /\ tasks'[k].by = r
    BY <2>1, AppendOf
  <2>3. ~run[r].found /\ i = 1 => after.pc = "idle"
    <3>1. SUFFICES ASSUME ~run[r].found, i = 1 PROVE run[r].todo \ {i} = {}
      <4>1. run[r].todo \ {i} = {} => after.pc = "idle"
        BY <1>2 DEF Advanced, Idle, Run
      <4> QED BY <4>1
    <3>2. ~(Len(fn.make) > 1) /\ fn.make \in Seq(Request)
      BY <1>9, <3>1 DEF Direct, Listed, Typed, TypeOK, StateFunction
    <3>3. run[r].todo \subseteq DOMAIN fn.make
      BY <1>2, <3>1 DEF Typed, Fits
    <3>4. \A j \in DOMAIN fn.make : j = 1
      BY <3>2
    <3> QED BY <3>1, <3>3, <3>4
  <2> HIDE DEF q, after
  <2> QED BY <1>2, <1>3, <1>4, <1>5, <1>remove, <1>9, <2>1, <2>2, <2>3 DEF Meets, OnlyReads
<1>10. \/ run'[r].clean = FALSE
       \/ /\ UNCHANGED <<copies, tasks>>
          /\ \/ run'[r] = after
             \/ run'[r] = [after EXCEPT !.saw = Body]
          /\ q.op \notin {"add", "upsert"}
       \/ Works(q, run[r].saw) /\ UNCHANGED tasks /\ run'[r] = after
       \/ Queued(r, q) /\ ~Awaited(q) /\ run'[r] = after
  <2>1. GivenUp(r).clean = FALSE
    BY <1>2 DEF GivenUp, Idle, Run
  <2>2. q.wait = "tried" => q.op = "set"
    BY <1>3 DEF Steady, Listed, Range
  <2> HIDE DEF q, after
  <2>3. CASE Answered(r, q, after)
    BY <1>2, <2>1, <2>2, <2>3 DEF Answered, Failed, Ends, Changes, objectVars
  <2>4. CASE Unanswered(r, q, after)
    BY <1>2, <2>1, <2>2, <2>4 DEF Unanswered, Failed, Ends, Changes, objectVars, Awaited
  <2> QED BY <1>1, <2>3, <2>4 DEF q, after
<1> QED BY <1>6, <1>7, <1>8, <1>9, <1>10

LEMMA LandMeets ==
    ASSUME Typed, Land, NEW s \in Runs, Meets(s), Foresees(s)
    PROVE  Meets(s)'
<1> DEFINE t == Head(tasks)
<1>1. run \in [Runs -> Run] /\ ~Stale(run[s]).clean /\ copies \in 0..2 /\ fn' = fn
  BY DEF Typed, TypeOK, Stale, Run, Land, Changes
<1>2. tasks # <<>> /\ tasks' = Tail(tasks)
  BY DEF Land
<1>3. CASE UNCHANGED copies /\ run'[s] \in {run[s], Stale(run[s])}
  BY <1>1, <1>2, <1>3, StillMeets
<1>4. CASE Works(t.q, t.saw) /\ Changes(t.by, run[t.by])
  <2>1. CASE t.by # s
    BY <1>1, <1>4, <2>1, StillMeets DEF Changes
  <2>2. CASE t.by = s
    <3>1. run'[s] = run[s]
      BY <1>4, <2>2 DEF Changes
    <3>2. \A k \in DOMAIN tasks' : k + 1 \in DOMAIN tasks /\ tasks'[k] = tasks[k + 1]
      BY <1>2, TailOf
    <3>3. t = tasks[1] /\ 1 \in DOMAIN tasks
      BY <1>2, TailOf
    <3>4. copies' > 0 \/ t.q.op = "remove"
      BY <1>1, <1>4 DEF Works, Made, Doubled, Changed
    <3>5. run[s].clean /\ run[s].pc = "write" =>
            copies' > 0 \/ (run[s].found /\ OnlyReads(s))
      BY <2>2, <3>3, <3>4 DEF Meets
    <3> QED BY <1>1, <3>1, <3>2, <3>5 DEF Meets, OnlyReads
  <2> QED BY <2>1, <2>2
<1>5. \/ UNCHANGED copies /\ run'[s] \in {run[s], Stale(run[s])}
      \/ Works(t.q, t.saw) /\ Changes(t.by, run[t.by])
  BY DEF Land, objectVars
<1> QED BY <1>3, <1>4, <1>5

LEMMA OutsideMeets ==
    ASSUME Typed, Edit \/ ByHand, NEW s \in Runs, Meets(s)
    PROVE  Meets(s)'
<1>1. run \in [Runs -> Run] /\ ~Stale(run[s]).clean /\ s # Operator /\ fn' = fn
  BY DeclaredAssumption DEF Typed, TypeOK, Stale, Run, Edit, ByHand
<1>2. CASE run' = [r \in Runs |-> Stale(run[r])]
  BY <1>1, <1>2, StillMeets
<1>3. CASE UNCHANGED <<objectVars, run>> /\ \E t : t.by = Operator /\ tasks' = Append(tasks, t)
  BY <1>1, <1>3, StillMeets DEF objectVars
<1>4. \/ run' = [r \in Runs |-> Stale(run[r])]
      \/ UNCHANGED <<objectVars, run>> /\ \E t : t.by = Operator /\ tasks' = Append(tasks, t)
  <2>1. CASE Edit
    BY <2>1 DEF Edit
  <2>2. CASE ByHand
    <3>1. \A q, seen : [by |-> Operator, q |-> q, saw |-> seen].by = Operator
      OBVIOUS
    <3> QED BY <2>2, <3>1 DEF ByHand
  <2> QED BY <2>1, <2>2
<1> QED BY <1>2, <1>3, <1>4

LEMMA MeetingStep == ASSUME Typed, Racing, Meeting, [Next]_vars PROVE Meeting'
<1>1. CASE UNCHANGED vars
  BY <1>1 DEF vars, objectVars, Meeting, Meets, OnlyReads
<1>2. CASE Next
  <2>1. UNCHANGED fn
    BY FunctionStays
  <2>2. SUFFICES ASSUME Surely(fn), Steady(fn), Direct(fn), NEW s \in Runs, Meets(s), Foresees(s)
                 PROVE  Meets(s)'
    <3>1. Steady(fn) => Plain(fn)
      BY SteadyIsPlain DEF Typed, TypeOK
    <3> QED BY <2>1, <3>1 DEF Meeting, Racing
  <2>3. ASSUME NEW r \in Runs, NEW test \in BOOLEAN, Begin(r, test) PROVE Meets(s)'
    BY <2>2, <2>3, BeginMeets
  <2>4. ASSUME NEW r \in Runs, Read(r) PROVE Meets(s)'
    BY <2>2, <2>4, ReadMeets
  <2>5. ASSUME NEW r \in Runs, Send(r) \/ SendFails(r) PROVE Meets(s)'
    BY <2>2, <2>5, OthersMeet, SenderMeets
  <2>6. CASE Land
    BY <2>2, <2>6, LandMeets
  <2>7. CASE Edit \/ ByHand
    BY <2>2, <2>7, OutsideMeets
  <2> QED BY <1>2, <2>3, <2>4, <2>5, <2>6, <2>7 DEF Next
<1> QED BY <1>1, <1>2

LEMMA MeetingAlways == Spec => []Meeting
<1>1. Init => Meeting
  BY DEF Init, Meeting, Meets
<1>2. Typed /\ Racing /\ Meeting /\ [Next]_vars => Meeting'
  BY MeetingStep
<1> QED BY <1>1, <1>2, TypedAlways, RacingAlways, PTL DEF Spec

(* A run that looks the object up fails for a fault, or for want of it. *)
LEMMA ReadFails ==
    ASSUME Typed, Surely(fn), Repairs(fn), NEW r \in Runs, Read(r), UNCHANGED faults,
           run'[r].result = "failed", run'[r].pc = "idle"
    PROVE  copies = 0 /\ fn.missing # "make"
<1>1. run \in [Runs -> Run] /\ copies \in 0..2 /\ faults \in Nat
  BY DEF Typed, TypeOK
<1>2. Looks(r)
  BY <1>1 DEF Read, Fault
<1>3. PICK found \in Lookup :
        LET says == Verdict(found, run[r].test)
        IN run' = [run EXCEPT ![r] =
               IF says # "none" THEN Idle([@ EXCEPT !.clean = Alone], says)
               ELSE [@ EXCEPT !.pc = "write", !.found = found, !.saw = Body,
                              !.todo = Needed(found), !.clean = Alone]]
  BY <1>2 DEF Looks
<1> DEFINE says == Verdict(found, run[r].test)
<1>4. says = "failed"
  <2>1. CASE says = "none"
    <3>1. run'[r].pc = "write"
      BY <1>1, <1>3, <2>1 DEF Run
    <3> QED BY <3>1
  <2>2. CASE says # "none"
    <3>1. run'[r].result = says
      BY <1>1, <1>3, <2>2 DEF Idle, Run
    <3> QED BY <3>1
  <2> QED BY <2>1, <2>2
<1>5. found <=> copies > 0
  <2>1. fn.lookup # "maybe"
    BY DEF Surely
  <2>2. found \in {copies > 0}
    BY <2>1 DEF Lookup
  <2> QED BY <2>2, Zenon
<1>6. CASE ~found
  BY <1>1, <1>4, <1>5, <1>6 DEF Verdict
<1>7. CASE found
  <2>1. Needed(found) = {} /\ (fn.goal = "absent" \/ Differs # {})
    BY <1>4, <1>7 DEF Verdict
  <2>2. CASE fn.goal = "absent"
    <3>1. DOMAIN fn.change # {}
      BY <2>2 DEF Repairs, Range
    <3> QED BY <1>7, <2>1, <2>2, <3>1 DEF Needed
  <2>3. CASE Differs # {}
    <3>1. PICK x \in fn.compared : x \in Differs
      BY <2>3 DEF Differs
    <3>2. PICK i \in DOMAIN fn.change : fn.change[i].on = {} \/ x \in fn.change[i].on
      BY DEF Repairs, Range
    <3>3. i \in Needed(found)
      BY <1>7, <3>1, <3>2 DEF Needed
    <3> QED BY <2>1, <3>3
  <2> QED BY <2>1, <2>2, <2>3
<1> QED BY <1>6, <1>7

(* An undisturbed run is refused nothing. *)
LEMMA SendFailsNot ==
    ASSUME Typed, Surely(fn), Steady(fn), Direct(fn), NEW r \in Runs, Send(r), run[r].clean,
           Foresees(r), Meets(r)
    PROVE  ~(run'[r].pc = "idle" /\ run'[r].result = "failed")
<1>1. PICK i \in Due(r) : Answered(r, Listed(r)[i], Advanced(r, i))
  BY DEF Send
<1>2. run[r].pc = "write" /\ run \in [Runs -> Run]
  BY DEF Send, Typed, TypeOK
<1>3. ~Refuses(Listed(r)[i])
  BY <1>2, DueMeets
<1>4. \/ run'[r] = Advanced(r, i)
      \/ run'[r] = [Advanced(r, i) EXCEPT !.saw = Body]
  BY <1>1, <1>2, <1>3 DEF Answered, Ends, Changes
<1>5. CASE run[r].todo \ {i} = {}
  <2>0. run[r] \in Run /\ Idle(run[r], "changed") \in Run
    BY <1>2, IdleTypes DEF Results
  <2>1. Advanced(r, i) \in Run /\ Advanced(r, i).result = "changed"
    BY <1>5, <2>0 DEF Advanced, Idle, Run
  <2>2. run'[r].result = "changed"
    BY <1>4, <2>1 DEF Run
  <2> QED BY <2>2
<1>6. CASE run[r].todo \ {i} # {}
  <2>1. Advanced(r, i) \in Run /\ Advanced(r, i).pc = "write"
    BY <1>2, <1>6 DEF Advanced, Run
  <2>2. run'[r].pc = "write"
    BY <1>4, <2>1 DEF Run
  <2> QED BY <2>2
<1> QED BY <1>5, <1>6

(* Nobody ends the run of another. *)
LEMMA OthersEndNothing ==
    ASSUME Typed, Next, NEW r \in Runs, ~Read(r), ~Send(r), ~SendFails(r), run[r].pc # "idle"
    PROVE  run'[r].pc # "idle"
<1>1. run \in [Runs -> Run] /\ Stale(run[r]).pc = run[r].pc
  BY DEF Typed, TypeOK, Stale, Run
<1>2. SUFFICES run'[r] \in {run[r], Stale(run[r])} \/ run'[r].pc = "read"
  BY <1>1
<1>3. ASSUME NEW s \in Runs, NEW test \in BOOLEAN, Begin(s, test)
      PROVE  run'[r] = run[r] \/ run'[r].pc = "read"
  BY <1>1, <1>3 DEF Begin
<1>4. ASSUME NEW s \in Runs, Read(s) PROVE run'[r] = run[r]
  BY <1>1, <1>4 DEF Read, Looks
<1>5. ASSUME NEW s \in Runs, Send(s) \/ SendFails(s) PROVE run'[r] \in {run[r], Stale(run[r])}
  <2>1. s # r
    BY <1>5
  <2>2. PICK i \in Due(s) : \/ Answered(s, Listed(s)[i], Advanced(s, i))
                           \/ Unanswered(s, Listed(s)[i], Advanced(s, i))
    BY <1>5 DEF Send, SendFails
  <2> QED BY <1>1, <2>1, <2>2 DEF Answered, Unanswered, Ends, Changes
<1>6. CASE Land
  BY <1>1, <1>6 DEF Land, Changes
<1>7. CASE Edit \/ ByHand
  BY <1>1, <1>7 DEF Edit, ByHand
<1> QED BY <1>3, <1>4, <1>5, <1>6, <1>7 DEF Next

CausedStep ==
    \A r \in Runs :
       /\ run[r].pc # "idle" /\ run'[r].pc = "idle" /\ run'[r].result = "failed"
       /\ Surely(fn) /\ Repairs(fn) /\ Direct(fn)
       => \/ faults' # faults
          \/ run[r].pc = "read" /\ copies = 0 /\ fn.missing # "make"
          \/ run[r].pc = "write" /\ ~run[r].clean

LEMMA StepHasACause == ASSUME Typed, Racing, Meeting, Steady(fn), Next PROVE CausedStep
<1> SUFFICES ASSUME NEW r \in Runs, run[r].pc # "idle", run'[r].pc = "idle",
                    run'[r].result = "failed", Surely(fn), Repairs(fn), Direct(fn), faults' = faults
             PROVE  \/ run[r].pc = "read" /\ copies = 0 /\ fn.missing # "make"
                    \/ run[r].pc = "write" /\ ~run[r].clean
  BY DEF CausedStep
<1>1. CASE Read(r)
  BY <1>1, ReadFails DEF Read
<1>2. CASE Send(r)
  <2>1. Plain(fn)
    BY SteadyIsPlain DEF Typed, TypeOK
  <2>2. Foresees(r) /\ Meets(r)
    BY <2>1 DEF Racing, Meeting
  <2> QED BY <1>2, <2>2, SendFailsNot DEF Send
<1>3. CASE SendFails(r)
  BY <1>3 DEF SendFails, Fault, Typed, TypeOK
<1> QED BY <1>1, <1>2, <1>3, OthersEndNothing

(* FailuresHaveACause: no run is in its own way, for every function whose   *)
(* requests each do one thing.  With SuccessIsTrue this says that a run     *)
(* which nothing disturbs and no fault meets leaves the object as declared. *)
THEOREM FailuresAreCaused == Spec /\ Steady(fn) => FailuresHaveACause
<1>1. Typed /\ Racing /\ Meeting /\ Steady(fn) /\ [Next]_vars => [CausedStep]_vars
  BY StepHasACause
<1>2. Spec /\ Steady(fn) => [][CausedStep]_vars
  BY <1>1, TypedAlways, RacingAlways, MeetingAlways, SteadyAlways, PTL DEF Spec
<1> QED BY <1>2 DEF FailuresHaveACause, CausedStep

(***************************************************************************)
(* Lost edits take a race.                                                 *)
(***************************************************************************)

RewritesAll == Unmixed(fn) /\ \E q \in Sent : q.op = "whole"

(* The body an undisturbed run holds is the one there is, and so is the    *)
(* one in each of its tasks that are on their way.                         *)
Current(s) ==
    run[s].clean =>
        /\ run[s].pc = "write" => run[s].saw = foreign
        /\ \A k \in DOMAIN tasks : tasks[k].by = s => tasks[k].saw = foreign

Holding == RewritesAll => \A s \in Runs : Current(s)

(* Who holds the body there is puts it back as it is. *)
LEMMA WorksKeeps ==
    ASSUME Typed, RewritesAll, NEW q \in Sent, Works(q, foreign) PROVE foreign' = foreign
<1>1. q.op # "beside"
  BY DEF RewritesAll, Unmixed, Sent
<1> QED BY <1>1 DEF Works, Made, Doubled, Changed, Removed

LEMMA StillCurrent ==
    ASSUME Typed, NEW s \in Runs, Current(s),
           \/ ~run'[s].clean
           \/ /\ run'[s] = run[s] /\ UNCHANGED foreign
              /\ \/ UNCHANGED tasks
                 \/ tasks # <<>> /\ tasks' = Tail(tasks)
                 \/ \E t : t.by # s /\ tasks' = Append(tasks, t)
    PROVE  Current(s)'
<1>1. CASE ~run'[s].clean
  BY <1>1 DEF Current
<1>2. CASE run'[s] = run[s] /\ UNCHANGED <<foreign, tasks>>
  BY <1>2 DEF Current
<1>3. CASE run'[s] = run[s] /\ UNCHANGED foreign /\ tasks # <<>> /\ tasks' = Tail(tasks)
  <2>1. \A k \in DOMAIN tasks' : k + 1 \in DOMAIN tasks /\ tasks'[k] = tasks[k + 1]
    BY <1>3, TailOf
  <2> QED BY <1>3, <2>1 DEF Current
<1>4. CASE run'[s] = run[s] /\ UNCHANGED foreign /\ \E t : t.by # s /\ tasks' = Append(tasks, t)
  <2>1. PICK t : t.by # s /\ tasks' = Append(tasks, t)
    BY <1>4
  <2>2. \A k \in DOMAIN tasks' : tasks'[k].by = s => k \in DOMAIN tasks /\ tasks'[k] = tasks[k]
    BY <2>1, AppendOf
  <2> QED BY <1>4, <2>2 DEF Current
<1> QED BY <1>1, <1>2, <1>3, <1>4

LEMMA BeginCurrent ==
    ASSUME Typed, NEW r \in Runs, NEW test \in BOOLEAN, Begin(r, test),
           NEW s \in Runs, Current(s)
    PROVE  Current(s)'
<1>1. UNCHANGED <<foreign, tasks>> /\ run \in [Runs -> Run]
  BY DEF Begin, objectVars, Typed, TypeOK
<1>2. IF s = r THEN ~run'[s].clean ELSE run'[s] = run[s]
  BY <1>1 DEF Begin
<1> QED BY <1>1, <1>2, StillCurrent

LEMMA ReadCurrent ==
    ASSUME Typed, NEW r \in Runs, Read(r), NEW s \in Runs, Current(s)
    PROVE  Current(s)'
<1>1. UNCHANGED <<foreign, tasks>> /\ run \in [Runs -> Run]
  BY DEF Read, objectVars, Typed, TypeOK
<1>2. CASE s # r
  <2>1. run'[s] = run[s]
    BY <1>1, <1>2 DEF Read, Looks
  <2> QED BY <1>1, <2>1, StillCurrent
<1>3. CASE s = r /\ Looks(r)
  <2>1. PICK found \in Lookup :
          LET says == Verdict(found, run[r].test)
          IN run' = [run EXCEPT ![r] =
                 IF says # "none" THEN Idle([@ EXCEPT !.clean = Alone], says)
                 ELSE [@ EXCEPT !.pc = "write", !.found = found, !.saw = Body,
                                !.todo = Needed(found), !.clean = Alone]]
    BY <1>3 DEF Looks
  <2> DEFINE stop == Idle([run[r] EXCEPT !.clean = Alone], Verdict(found, run[r].test))
             go == [run[r] EXCEPT !.pc = "write", !.found = found, !.saw = Body,
                                  !.todo = Needed(found), !.clean = Alone]
  <2>2. (stop.clean => Alone) /\ stop.pc # "write" /\ (go.clean => Alone) /\ go.saw = foreign
    BY <1>1 DEF Idle, Run, Body
  <2>3. run'[r] = stop \/ run'[r] = go
    BY <1>1, <2>1, Zenon
  <2>4. Alone => \A k \in DOMAIN tasks' : FALSE
    BY <1>1 DEF Alone
  <2> HIDE DEF stop, go
  <2> QED BY <1>1, <1>3, <2>2, <2>3, <2>4 DEF Current
<1>4. CASE s = r /\ run' = [run EXCEPT ![r] = Idle(@, "failed")]
  <2>1. ~run'[s].clean
    BY <1>1, <1>4 DEF Idle, Run
  <2> QED BY <2>1, StillCurrent
<1> QED BY <1>2, <1>3, <1>4 DEF Read

LEMMA OthersCurrent ==
    ASSUME Typed, NEW r \in Runs, Send(r) \/ SendFails(r), NEW s \in Runs, s # r, Current(s)
    PROVE  Current(s)'
<1>1. PICK i \in Due(r) : \/ Answered(r, Listed(r)[i], Advanced(r, i))
                         \/ Unanswered(r, Listed(r)[i], Advanced(r, i))
  BY DEF Send, SendFails
<1>2. run \in [Runs -> Run] /\ ~Stale(run[s]).clean
  BY DEF Typed, TypeOK, Stale, Run
<1>3. CASE \E next : Ends(r, next)
  BY <1>2, <1>3, StillCurrent DEF Ends, objectVars
<1>4. CASE \E next : Changes(r, next)
  BY <1>2, <1>4, StillCurrent DEF Changes
<1>5. CASE \E next : Queued(r, Listed(r)[i]) /\ run' = [run EXCEPT ![r] = next]
  <2>1. run'[s] = run[s] /\ UNCHANGED foreign
    BY <1>2, <1>5 DEF Queued, objectVars
  <2>2. \E t : t.by # s /\ tasks' = Append(tasks, t)
    BY <1>5 DEF Queued
  <2> QED BY <2>1, <2>2, StillCurrent
<1> QED BY <1>1, <1>3, <1>4, <1>5 DEF Answered, Unanswered

LEMMA SenderCurrent ==
    ASSUME Typed, RewritesAll, NEW r \in Runs, Send(r) \/ SendFails(r), Current(r)
    PROVE  Current(r)'
<1>1. PICK i \in Due(r) : \/ Answered(r, Listed(r)[i], Advanced(r, i))
                         \/ Unanswered(r, Listed(r)[i], Advanced(r, i))
  BY DEF Send, SendFails
<1> DEFINE q == Listed(r)[i]
           after == Advanced(r, i)
<1>2. run[r].pc = "write" /\ run \in [Runs -> Run] /\ run[r] \in Run
  BY DEF Send, SendFails, Typed, TypeOK
<1>3. /\ after.clean => run[r].clean
      /\ after.pc = "write" => after.saw = run[r].saw
      /\ after \in Run
      /\ GivenUp(r).clean = FALSE
  <2>1. Idle(run[r], "changed") \in Run /\ Idle(run[r], "changed").pc = "idle"
    BY <1>2, IdleTypes DEF Results
  <2>2. [run[r] EXCEPT !.todo = run[r].todo \ {i}] \in Run
    BY <1>2 DEF Run
  <2> QED BY <1>2, <2>1, <2>2, DueIsFirst DEF Advanced, GivenUp, Idle, Run
<1>4. q \in Sent
  <2>1. i \in DOMAIN Listed(r)
    BY <1>2, DueIsFirst
  <2> QED BY <2>1 DEF Listed, Sent, Range
<1>5. CASE run'[r].clean = FALSE
  BY <1>5 DEF Current
<1>6. CASE UNCHANGED <<foreign, tasks>> /\ run'[r] = after
  <2> HIDE DEF q, after
  <2> QED BY <1>2, <1>3, <1>6 DEF Current
<1>7. CASE UNCHANGED <<foreign, tasks>> /\ run'[r] = [after EXCEPT !.saw = Body]
  <2>1. run'[r].saw = foreign /\ run'[r].clean = after.clean
    <3> HIDE DEF after
    <3> QED BY <1>3, <1>7 DEF Run, Body
  <2> HIDE DEF q, after
  <2> QED BY <1>3, <1>7, <2>1 DEF Current
<1>8. CASE Works(q, run[r].saw) /\ UNCHANGED tasks /\ run'[r] = after
  <2> HIDE DEF q, after
  <2>1. run[r].clean => run[r].saw = foreign /\ foreign' = foreign
    BY <1>2, <1>4, <1>8, WorksKeeps DEF Current
  <2> QED BY <1>2, <1>3, <1>8, <2>1 DEF Current
<1>9. CASE Queued(r, q) /\ run'[r] = after
  <2>1. UNCHANGED foreign /\ tasks' = Append(tasks, [by |-> r, q |-> q, saw |-> run[r].saw])
    BY <1>9 DEF Queued, objectVars
  <2>2. \A k \in DOMAIN tasks' :
          \/ k \in DOMAIN tasks /\ tasks'[k] = tasks[k]
          \/ tasks'[k].saw = run[r].saw
    BY <2>1, AppendOf
  <2> HIDE DEF q, after
  <2> QED BY <1>2, <1>3, <1>9, <2>1, <2>2 DEF Current
<1>10. \/ run'[r].clean = FALSE
       \/ UNCHANGED <<foreign, tasks>> /\ run'[r] = after
       \/ UNCHANGED <<foreign, tasks>> /\ run'[r] = [after EXCEPT !.saw = Body]
       \/ Works(q, run[r].saw) /\ UNCHANGED tasks /\ run'[r] = after
       \/ Queued(r, q) /\ run'[r] = after
  <2> HIDE DEF q, after
  <2>1. CASE Answered(r, q, after)
    BY <1>2, <1>3, <2>1 DEF Answered, Failed, Ends, Changes, objectVars
  <2>2. CASE Unanswered(r, q, after)
    BY <1>2, <1>3, <2>2 DEF Unanswered, Failed, Ends, Changes, objectVars
  <2> QED BY <1>1, <2>1, <2>2 DEF q, after
<1> QED BY <1>5, <1>6, <1>7, <1>8, <1>9, <1>10

LEMMA LandCurrent ==
    ASSUME Typed, FromRuns, RewritesAll, Land, NEW s \in Runs, Current(s)
    PROVE  Current(s)'
<1> DEFINE t == Head(tasks)
<1>1. run \in [Runs -> Run] /\ ~Stale(run[s]).clean
  BY DEF Typed, TypeOK, Stale, Run
<1>2. tasks # <<>> /\ tasks' = Tail(tasks)
  BY DEF Land
<1>3. CASE UNCHANGED foreign /\ run'[s] \in {run[s], Stale(run[s])}
  BY <1>1, <1>2, <1>3, StillCurrent
<1>4. CASE Works(t.q, t.saw) /\ Changes(t.by, run[t.by])
  <2>1. CASE t.by # s
    BY <1>1, <1>4, <2>1, StillCurrent DEF Changes
  <2>2. CASE t.by = s
    <3>1. run'[s] = run[s]
      BY <1>4, <2>2 DEF Changes
    <3>2. t = tasks[1] /\ 1 \in DOMAIN tasks
      BY <1>2, TailOf
    <3>3. t.q \in Sent /\ (run[s].clean => t.saw = foreign)
      BY <2>2, <3>2 DEF FromRuns, Current
    <3>4. run[s].clean => UNCHANGED foreign
      BY <1>4, <3>3, WorksKeeps
    <3> QED BY <1>2, <3>1, <3>4, StillCurrent
  <2> QED BY <2>1, <2>2
<1>5. \/ UNCHANGED foreign /\ run'[s] \in {run[s], Stale(run[s])}
      \/ Works(t.q, t.saw) /\ Changes(t.by, run[t.by])
  BY DEF Land, objectVars
<1> QED BY <1>3, <1>4, <1>5

LEMMA OutsideCurrent ==
    ASSUME Typed, Edit \/ ByHand, NEW s \in Runs, Current(s)
    PROVE  Current(s)'
<1>1. run \in [Runs -> Run] /\ ~Stale(run[s]).clean /\ s # Operator
  BY DeclaredAssumption DEF Typed, TypeOK, Stale, Run
<1>2. CASE run' = [r \in Runs |-> Stale(run[r])]
  BY <1>1, <1>2, StillCurrent
<1>3. CASE UNCHANGED <<objectVars, run>> /\ \E t : t.by = Operator /\ tasks' = Append(tasks, t)
  BY <1>1, <1>3, StillCurrent DEF objectVars
<1>4. \/ run' = [r \in Runs |-> Stale(run[r])]
      \/ UNCHANGED <<objectVars, run>> /\ \E t : t.by = Operator /\ tasks' = Append(tasks, t)
  <2>1. CASE Edit
    BY <2>1 DEF Edit
  <2>2. CASE ByHand
    <3>1. \A q, seen : [by |-> Operator, q |-> q, saw |-> seen].by = Operator
      OBVIOUS
    <3> QED BY <2>2, <3>1 DEF ByHand
  <2> QED BY <2>1, <2>2
<1> QED BY <1>2, <1>3, <1>4

LEMMA HoldingStep == ASSUME Typed, FromRuns, Holding, [Next]_vars PROVE Holding'
<1>1. UNCHANGED fn
  BY FunctionStays
<1>2. SUFFICES ASSUME RewritesAll, NEW s \in Runs, Current(s) PROVE Current(s)'
  BY <1>1 DEF Holding, RewritesAll, Sent
<1>3. CASE UNCHANGED vars
  BY <1>2, <1>3 DEF vars, objectVars, Current
<1>4. ASSUME NEW r \in Runs, NEW test \in BOOLEAN, Begin(r, test) PROVE Current(s)'
  BY <1>2, <1>4, BeginCurrent
<1>5. ASSUME NEW r \in Runs, Read(r) PROVE Current(s)'
  BY <1>2, <1>5, ReadCurrent
<1>6. ASSUME NEW r \in Runs, Send(r) \/ SendFails(r) PROVE Current(s)'
  BY <1>2, <1>6, OthersCurrent, SenderCurrent
<1>7. CASE Land
  BY <1>2, <1>7, LandCurrent
<1>8. CASE Edit \/ ByHand
  BY <1>2, <1>8, OutsideCurrent
<1> QED BY <1>3, <1>4, <1>5, <1>6, <1>7, <1>8 DEF Next

LEMMA HoldingAlways == Spec => []Holding
<1>1. Init => Holding
  BY DEF Init, Holding, Current
<1>2. Typed /\ FromRuns /\ Holding /\ [Next]_vars => Holding'
  BY HoldingStep
<1> QED BY <1>1, <1>2, TypedAlways, FromRunsAlways, PTL DEF Spec

LostStep ==
    foreign' < foreign /\ edits' = edits =>
      IF tasks' = tasks THEN \E r \in Runs : run'[r].todo # run[r].todo /\ ~run[r].clean
      ELSE Head(tasks).by = Operator \/ ~run[Head(tasks).by].clean

(* An undisturbed run or its task, whether it writes the whole body or not, *)
(* puts nothing back.                                                       *)
LEMMA NothingIsPutBack ==
    ASSUME Typed, Unmixed(fn), Holding, NEW s \in Runs, run[s].clean, NEW q \in Sent, NEW saw,
           Works(q, saw), Current(s) => saw = foreign
    PROVE  ~(foreign' < foreign)
<1>1. foreign \in Nat
  BY DEF Typed, TypeOK
<1>2. CASE q.op = "whole"
  <2>1. saw = foreign /\ RewritesAll
    BY <1>2 DEF Holding, RewritesAll
  <2> QED BY <1>1, <2>1, WorksKeeps
<1>3. CASE q.op # "whole"
  BY <1>1, <1>3 DEF Works, Made, Doubled, Changed, Removed
<1> QED BY <1>2, <1>3

LEMMA StepLosesNothing ==
    ASSUME Typed, FromRuns, Holding, Unmixed(fn), [Next]_vars PROVE LostStep
<1> SUFFICES ASSUME foreign' < foreign, edits' = edits
             PROVE  IF tasks' = tasks THEN \E r \in Runs : run'[r].todo # run[r].todo /\ ~run[r].clean
                    ELSE Head(tasks).by = Operator \/ ~run[Head(tasks).by].clean
  BY DEF LostStep
<1>1. foreign \in Nat /\ edits \in Nat /\ run \in [Runs -> Run]
  BY DEF Typed, TypeOK
<1>2. Next /\ ~UNCHANGED objectVars
  BY <1>1 DEF vars, objectVars
<1>3. ~Edit /\ ~ByHand
  BY <1>1 DEF Edit, ByHand
<1>4. ASSUME NEW r \in Runs, NEW i \in run[r].todo, Writes(r, i)
      PROVE  tasks' = tasks /\ run'[r].todo # run[r].todo /\ ~run[r].clean
  <2>1. run[r].pc = "write" /\ i \in Due(r) /\ Works(Listed(r)[i], run[r].saw)
    BY <1>4 DEF Writes
  <2>2. Listed(r)[i] \in Sent
    <3>1. i \in DOMAIN Listed(r)
      BY <2>1, DueIsFirst
    <3> QED BY <3>1 DEF Listed, Sent, Range
  <2>3. run[r].clean /\ Current(r) => run[r].saw = foreign
    BY <2>1 DEF Current
  <2>4. ~run[r].clean
    BY <2>1, <2>2, <2>3, NothingIsPutBack
  <2>5. i \notin run'[r].todo
    <3>1. i \notin Advanced(r, i).todo /\ i \notin GivenUp(r).todo
      BY <1>1 DEF Advanced, GivenUp, Idle, Run
    <3> QED BY <1>4, <3>1 DEF Writes, Changes
  <2> QED BY <1>4, <2>4, <2>5 DEF Writes
<1>5. ASSUME Lands
      PROVE  tasks' # tasks /\ (Head(tasks).by = Operator \/ ~run[Head(tasks).by].clean)
  <2>1. tasks' # tasks /\ Head(tasks) = tasks[1] /\ 1 \in DOMAIN tasks
    BY <1>5, TailOf DEF Lands
  <2>2. Head(tasks).by \in Runs \cup {Operator}
    <3>1. tasks \in Seq(Accepted)
      BY DEF Typed, TypeOK, Accepted
    <3>2. tasks[1] \in Accepted
      BY <2>1, <3>1
    <3> QED BY <2>1, <3>2 DEF Accepted
  <2>3. ASSUME NEW s \in Runs, Head(tasks).by = s, run[s].clean PROVE FALSE
    <3>1. Head(tasks).q \in Sent /\ (Current(s) => Head(tasks).saw = foreign)
      BY <2>1, <2>3 DEF FromRuns, Current
    <3>2. Works(Head(tasks).q, Head(tasks).saw)
      BY <1>5 DEF Lands
    <3> QED BY <2>3, <3>1, <3>2, NothingIsPutBack
  <2> QED BY <2>1, <2>2, <2>3
<1> QED BY <1>2, <1>3, <1>4, <1>5, WhoChangesIt

LEMMA UnmixedAlways == Spec /\ Unmixed(fn) => []Unmixed(fn)
<1>1. Unmixed(fn) /\ [Next]_vars => Unmixed(fn)'
  BY FunctionStays
<1> QED BY <1>1, PTL DEF Spec

(* A change by somebody else is put back only by a run that it overtook,   *)
(* or by an operator, for every function of the catalogue and all others   *)
(* that do not mix bodies written whole with requests beside them.         *)
THEOREM LostEditsTakeARace == Spec /\ Unmixed(fn) => LostEditsNeedARace
<1>1. Typed /\ FromRuns /\ Holding /\ Unmixed(fn) /\ [Next]_vars => [LostStep]_vars
  BY StepLosesNothing
<1>2. Spec /\ Unmixed(fn) => [][LostStep]_vars
  BY <1>1, TypedAlways, FromRunsAlways, HoldingAlways, UnmixedAlways, PTL DEF Spec
<1> QED BY <1>2 DEF LostEditsNeedARace, LostStep

===============================================================================
