------------------------------- MODULE Declared -------------------------------
(***************************************************************************)
(* One declarative state function applied again and again to the object it *)
(* names, by runs that may overlap: two minions, or a schedule and an      *)
(* operator, against one appliance.                                        *)
(*                                                                         *)
(* The function is any of Functions, the catalogue of state functions;     *)
(* which one is decided at the start.  Each of them is the same program:   *)
(* look the object up, compare, answer a dry run, send the requests one by *)
(* one.  Between any two of its steps the other run, an operator with an   *)
(* execution module, an administrator or a task of vCenter that nobody     *)
(* waits for may change the object, a connection may fail, and an answer   *)
(* may get lost.                                                           *)
(***************************************************************************)
EXTENDS StateFunctions, FiniteSets

CONSTANTS
    Functions,  \* the state functions, see StateFunction
    Runs,       \* who applies it
    Operator,   \* who calls the execution modules by hand
    MaxFaults,  \* bound: lost connections, lost answers, failed tasks, timeouts
    MaxEdits,   \* bound: changes by an administrator, calls by the operator
    MaxTasks    \* bound: tasks nobody waits for, at one time

ASSUME DeclaredAssumption ==
    /\ Functions \subseteq StateFunction
    /\ Operator \notin Runs
    /\ MaxFaults \in Nat /\ MaxEdits \in Nat /\ MaxTasks \in Nat

VARIABLES
    fn,      \* the state function, with its arguments
    copies,  \* objects of the name
    val,     \* the fields of the one that is found first
    foreign, \* changes of fields the function is not about
    tasks,   \* accepted and not yet carried out, oldest first
    run,     \* the runs
    settled, \* history: a run succeeded undisturbed, and nothing changed since
    own,     \* history: runs made the object, and nobody else touched it
    faults,  \* faults so far
    edits    \* changes by an administrator and calls by the operator so far

objectVars == <<copies, val, foreign>>
vars == <<fn, objectVars, tasks, run, settled, own, faults, edits>>

Results == {"none", "already", "planned", "changed", "failed"}

(* pc: "idle", "read" before the lookup, "write" with requests to send.    *)
(* todo: the requests not sent yet, saw: the foreign fields that were read. *)
(* clean: nobody else changed the object since the lookup, and no task     *)
(* failed; only kept while the run goes on or succeeded.                   *)
Run == [pc : {"idle", "read", "write"}, test : BOOLEAN, found : BOOLEAN, todo : SUBSET Nat,
        saw : Nat, result : Results, clean : BOOLEAN]

TypeOK ==
    /\ fn \in StateFunction
    /\ copies \in 0..2
    /\ val \in [Fields -> {"want", "other"}]
    /\ foreign \in Nat
    /\ tasks \in Seq([by : Runs \cup {Operator}, q : Request, saw : Nat])
    /\ run \in [Runs -> Run]
    /\ settled \in BOOLEAN /\ own \in BOOLEAN
    /\ faults \in Nat /\ edits \in Nat

(***************************************************************************)
(* The object.                                                             *)
(***************************************************************************)

Sets(q) == UNION {r.sets : r \in Range(q)}
Used(f) == f.compared \cup Sets(f.make) \cup Sets(f.change)

(* An object as it is before anybody wrote to it. *)
Blank == [x \in Fields |-> IF x \in Used(fn) THEN "other" ELSE "want"]
AsMade == [x \in Fields |-> IF x \in Sets(fn.make) \cup Sets(fn.change) THEN "want" ELSE Blank[x]]
Written(v, q) == [x \in Fields |-> IF x \in q.sets THEN "want" ELSE v[x]]

IsDeclared ==
    IF fn.goal = "present" THEN copies > 0 /\ \A x \in fn.compared : val[x] = "want"
    ELSE copies = 0

Made(q) == copies = 0 /\ copies' = 1 /\ val' = Written(Blank, q) /\ UNCHANGED foreign
Doubled == copies > 0 /\ copies' = 2 /\ UNCHANGED <<val, foreign>>
Changed(q) == copies > 0 /\ val' = Written(val, q) /\ UNCHANGED copies

RemovedAnyway == copies' = copies - 1 /\ UNCHANGED <<val, foreign>>

(* The one that is found goes; a second one was made as declared. *)
Removed == /\ copies > 0 /\ copies' = copies - 1
           /\ val' = IF copies = 1 THEN Blank ELSE AsMade
           /\ UNCHANGED foreign

(* The request q of a run that had read the foreign fields as saw is carried out, *)
Works(q, saw) ==
    \/ q.op \in {"add", "upsert"} /\ Made(q)
    \/ q.op = "add" /\ Doubled
    \/ q.op \in {"upsert", "set"} /\ Changed(q) /\ UNCHANGED foreign
    \/ q.op = "whole" /\ Changed(q) /\ foreign' = saw
    \/ q.op = "remove" /\ Removed
    \/ q.op = "beside" /\ copies > 0 /\ foreign' = foreign + 1 /\ UNCHANGED <<copies, val>>

(* or refused: a new object when there is one already, any other when there is none. *)
Refuses(q) ==
    \/ q.op = "add" /\ copies > 0
    \/ q.op \in {"set", "whole", "remove", "beside"} /\ copies = 0

(***************************************************************************)
(* The steps of a run.                                                     *)
(***************************************************************************)

Fault == faults < MaxFaults /\ faults' = faults + 1
Sound == UNCHANGED faults

Idle(run_r, result) ==
    [run_r EXCEPT !.pc = "idle", !.test = FALSE, !.found = FALSE, !.todo = {}, !.saw = 0,
                  !.result = result, !.clean = @ /\ result \in {"already", "changed"}]

(* What the others had read is old when the object has changed. *)
Stale(s) == [s EXCEPT !.clean = FALSE]

(* The last run of r succeeded, nobody disturbed it, and nothing is on its way. *)
Succeeded(r) == /\ run[r].pc = "idle" /\ run[r].result \in {"already", "changed"}
                /\ run[r].clean /\ tasks = <<>>

Begin(r, test) ==
    /\ run[r].pc = "idle"
    /\ run' = [run EXCEPT ![r] = [pc |-> "read", test |-> test, found |-> FALSE, todo |-> {},
                                  saw |-> 0, result |-> "none", clean |-> FALSE]]
    /\ settled' = (settled \/ Succeeded(r))
    /\ UNCHANGED <<fn, objectVars, tasks, own, faults, edits>>

LookupOfFirstPage == {copies > 0, FALSE}

(* Whether an object is found. *)
Lookup == {copies > 0} \cup (IF fn.lookup = "maybe" THEN {FALSE} ELSE {})
DiffersEverywhere == IF \A x \in fn.compared : val[x] = "other" THEN fn.compared ELSE {}

Differs == {x \in fn.compared : val[x] = "other" \/ x \in unread}

NeededFirst(found) ==
    IF ~found THEN {i \in DOMAIN fn.make : i = 1}
    ELSE {i \in DOMAIN fn.change : i = 1 /\ (fn.goal = "absent" \/ Differs # {})}

NeededAlways(found) == IF found THEN DOMAIN fn.change ELSE DOMAIN fn.make

(* The requests that are called for. *)
Needed(found) ==
    IF ~found THEN DOMAIN fn.make
    ELSE {i \in DOMAIN fn.change :
             \/ fn.goal = "absent"
             \/ Differs # {} /\ (fn.change[i].on = {} \/ fn.change[i].on \cap Differs # {})}

(* What the run makes of what it found; "none" when it has to write.  What *)
(* cannot be changed fails, and what came with the product is let be.      *)
Verdict(found, test) ==
    IF found /\ fn.spared THEN "already"
    ELSE IF test /\ fn.blind THEN "planned"
    ELSE IF ~found /\ fn.missing # "make" THEN "failed"
    ELSE IF Needed(found) # {} THEN IF test THEN "planned" ELSE "none"
    ELSE IF found /\ (fn.goal = "absent" \/ Differs # {}) THEN "failed"
    ELSE "already"

OldBody == 0

(* The body a GET returns, as far as the fields go that the function is not about. *)
Body == foreign

(* Nothing is on its way, and there is no second object of the name. *)
Alone == tasks = <<>> /\ copies < 2

Looks(r) ==
    \E found \in Lookup :
      LET says == Verdict(found, run[r].test)
      IN run' = [run EXCEPT ![r] =
                   IF says # "none" THEN Idle([@ EXCEPT !.clean = Alone], says)
                   ELSE [@ EXCEPT !.pc = "write", !.found = found, !.saw = Body,
                                  !.todo = Needed(found), !.clean = Alone]]

Read(r) ==
    /\ run[r].pc = "read"
    /\ \/ Looks(r) /\ Sound
       \/ run' = [run EXCEPT ![r] = Idle(@, "failed")] /\ Fault
    /\ UNCHANGED <<fn, objectVars, tasks, settled, own, edits>>

(* The requests of the run, and the place of the one that is due. *)
Listed(r) == IF run[r].found THEN fn.change ELSE fn.make
Due(r) == {i \in run[r].todo : \A j \in run[r].todo : i <= j}

(* The run after the answer to request i: it goes on, or that was the last one. *)
Advanced(r, i) ==
    LET left == run[r].todo \ {i}
    IN IF left = {} THEN Idle(run[r], "changed") ELSE [run[r] EXCEPT !.todo = left]
GivenUp(r) == Idle(run[r], "failed")

(* The object changes under everybody but r, which goes on as next. *)
Changes(r, next) ==
    /\ run' = [s \in Runs |-> IF s = r THEN next ELSE Stale(run[s])]
    /\ settled' = FALSE
    /\ own' = (r # Operator /\ (own \/ copies = 0) /\ copies' > 0)
    /\ UNCHANGED <<fn, edits>>

Queued(r, q) == /\ Len(tasks) < MaxTasks
                /\ tasks' = Append(tasks, [by |-> r, q |-> q, saw |-> run[r].saw])
                /\ settled' = FALSE
                /\ UNCHANGED <<fn, objectVars, own, edits>>

Ends(r, next) == /\ run' = [run EXCEPT ![r] = next]
                 /\ UNCHANGED <<fn, objectVars, tasks, settled, own, edits>>

(* A request is answered by what it did; a task nobody waits for by its key. *)
(* A refusal ends the run, unless the state only tried the request.          *)
Awaited(q) == q.wait \in {"call", "waited"}
Failed(r, q, next) == IF q.wait = "tried" THEN next ELSE GivenUp(r)

Answered(r, q, next) ==
    \/ q.op = "read" /\ Ends(r, [next EXCEPT !.saw = Body])
    \/ Awaited(q) /\ Works(q, run[r].saw) /\ Changes(r, next) /\ UNCHANGED tasks
    \/ ~Awaited(q) /\ Queued(r, q) /\ run' = [run EXCEPT ![r] = next]
    \/ Refuses(q) /\ Ends(r, Failed(r, q, next))

(* It fails on the way, or its answer does; the client may stop waiting for its task. *)
Unanswered(r, q, next) ==
    \/ Ends(r, Failed(r, q, next))
    \/ q.wait = "call" /\ Works(q, run[r].saw) /\ Changes(r, GivenUp(r)) /\ UNCHANGED tasks
    \/ q.wait # "call" /\ Queued(r, q) /\ run' = [run EXCEPT ![r] = Failed(r, q, next)]

Send(r) ==
    /\ run[r].pc = "write"
    /\ \E i \in Due(r) : Answered(r, Listed(r)[i], Advanced(r, i))
    /\ Sound

SendFails(r) ==
    /\ run[r].pc = "write"
    /\ \E i \in Due(r) : Unanswered(r, Listed(r)[i], Advanced(r, i))
    /\ Fault

(***************************************************************************)
(* vCenter carries the tasks out that nobody waits for, in their order;    *)
(* an administrator changes what the function is about, or what it is not, *)
(* and the operator calls an execution module.                             *)
(***************************************************************************)

Land ==
    /\ tasks # <<>>
    /\ tasks' = Tail(tasks)
    /\ LET t == Head(tasks)
       IN \/ Works(t.q, t.saw) /\ Changes(t.by, run[t.by]) /\ Sound
          \/ /\ \/ Refuses(t.q) /\ Sound
                \/ Fault
             /\ run' = [s \in Runs |-> IF s = t.by THEN Stale(run[s]) ELSE run[s]]
             /\ UNCHANGED <<fn, objectVars, settled, own, edits>>

Edit ==
    /\ edits < MaxEdits /\ edits' = edits + 1
    /\ \/ /\ copies > 0
          /\ \E x \in Used(fn) : val' = [val EXCEPT ![x] = "other"]
          /\ UNCHANGED <<copies, foreign>>
       \/ copies > 0 /\ foreign' = foreign + 1 /\ UNCHANGED <<copies, val>>
       \/ copies > 0 /\ fn.missing # "never" /\ copies' = 0 /\ val' = Blank /\ UNCHANGED foreign
       \/ copies = 0 /\ copies' = 1 /\ UNCHANGED <<val, foreign>>
    /\ run' = [s \in Runs |-> Stale(run[s])]
    /\ settled' = FALSE /\ own' = FALSE
    /\ UNCHANGED <<fn, tasks, faults>>

(* A setting is neither made nor removed: such calls are about something else. *)
AboutIt(q) == fn.missing = "never" => q.op \notin {"add", "remove"}

(* The body of a request that writes it whole may have been read at any time. *)
ByHand ==
    /\ edits < MaxEdits /\ edits' = edits + 1
    /\ \E q \in {c \in fn.calls : AboutIt(c)}, seen \in 0..foreign :
         \/ /\ Awaited(q) /\ Works(q, seen)
            /\ run' = [s \in Runs |-> Stale(run[s])]
            /\ own' = FALSE
            /\ UNCHANGED tasks
         \/ /\ ~Awaited(q) /\ Len(tasks) < MaxTasks
            /\ tasks' = Append(tasks, [by |-> Operator, q |-> q, saw |-> seen])
            /\ UNCHANGED <<objectVars, run, own>>
    /\ settled' = FALSE
    /\ UNCHANGED <<fn, faults>>

(***************************************************************************)
(* The specification.                                                      *)
(***************************************************************************)

Init ==
    /\ fn \in Functions
    /\ copies \in (IF fn.missing = "never" THEN {1} ELSE {0, 1})
    /\ \E v \in [Used(fn) -> {"want", "other"}] :
         /\ copies = 0 => \A x \in Used(fn) : v[x] = "other"
         /\ val = [x \in Fields |-> IF x \in Used(fn) THEN v[x] ELSE "want"]
    /\ foreign = 0
    /\ tasks = <<>>
    /\ run = [r \in Runs |-> [pc |-> "idle", test |-> FALSE, found |-> FALSE, todo |-> {},
                              saw |-> 0, result |-> "none", clean |-> FALSE]]
    /\ settled = FALSE /\ own = FALSE
    /\ faults = 0 /\ edits = 0

Next ==
    \/ \E r \in Runs :
         \/ \E test \in BOOLEAN : Begin(r, test)
         \/ Read(r) \/ Send(r) \/ SendFails(r)
    \/ Land \/ Edit \/ ByHand

Spec == Init /\ [][Next]_vars

(* A run goes on once it has begun, and vCenter works through its tasks; *)
(* nobody has to begin a run.                                            *)
FairSpec == Spec /\ WF_vars(Land) /\ \A r \in Runs : WF_vars(Read(r)) /\ WF_vars(Send(r))

(***************************************************************************)
(* What can be said of a function from its requests.                       *)
(***************************************************************************)

Surely(f) == f.lookup = "sure"

(* A difference in any compared field calls for a request that removes it, *)
(* what is made is made as declared, and nothing is let be.                *)
Repairs(f) ==
    /\ ~f.spared
    /\ f.goal = "absent" => \E q \in Range(f.change) : q.op = "remove"
    /\ f.goal = "present" /\ f.missing = "make" => f.make # <<>> /\ f.compared \subseteq Sets(f.make)
    /\ \A x \in f.compared :
         \E q \in Range(f.change) : x \in q.sets /\ (q.on = {} \/ x \in q.on)

(* What is compared is what can be read. *)
Readable(f) == f.compared \cap unread = {}

(* What follows a removal that nobody waits for is put in line behind it. *)
Ordered(f) ==
    \A q \in {f.make, f.change} : \A i, j \in DOMAIN q :
        i < j /\ q[i].op = "remove" /\ q[i].wait = "task" => q[j].wait = "task"

(* Whether bodies are written back whole, without the revision they were read at. *)
Rewrites(f) == \E q \in Range(f.make) \cup Range(f.change) \cup f.calls : q.op = "whole"

(* A function that does changes nothing beside what it writes. *)
Unmixed(f) ==
    \A p, q \in Range(f.make) \cup Range(f.change) : p.op = "whole" => q.op # "beside"

(* What the first request does not write is compared by later runs. *)
Resumes(f) == \A i \in DOMAIN f.make : i > 1 => f.make[i].sets \subseteq f.make[1].sets \cup f.compared

(* An object is made by the first request for a missing one, and by no other. *)
Plain(f) ==
    /\ \A i \in DOMAIN f.make : f.make[i].op \in {"add", "upsert"} => i = 1
    /\ \A q \in Range(f.change) : q.op # "add"

(* Every request does one thing: the object is made by the first request for *)
(* a missing one and by no other, none undoes what another did, and what is  *)
(* only tried is nothing that was declared.                                  *)
Steady(f) ==
    /\ \A q \in Range(f.make) \cup Range(f.change) :
          /\ q.op \in {"read", "beside"} => q.sets = {}
          /\ q.wait = "tried" => q.op = "set" /\ q.sets \cap f.compared = {}
    /\ \A i \in DOMAIN f.make : f.make[i].op \in {"add", "upsert"} <=> i = 1
    /\ \A q \in Range(f.make) : q.op # "remove"
    /\ f.goal = "present" => \A q \in Range(f.change) : q.op \notin {"add", "remove"}
    /\ f.goal = "absent" => f.make = <<>> /\ \A q \in Range(f.change) : q.op \notin {"add", "upsert"}

(* A change that may have to make the object writes what nobody compares, too. *)
Remakes(f) ==
    \A q \in Range(f.change), i \in DOMAIN f.make :
        q.op = "upsert" /\ i = 1 => f.make[i].sets \subseteq q.sets \cup f.compared

(* A request that needs the object never comes before the task that makes   *)
(* it, nor after the one that removes it.                                   *)
Direct(f) ==
    /\ Len(f.make) > 1 => Awaited(f.make[1])
    /\ \A i, j \in DOMAIN f.change : i < j /\ f.change[i].op = "remove" => f.change[j].op = "read"

(***************************************************************************)
(* Properties.                                                             *)
(***************************************************************************)

(* What a run reports as done is done: when a state function answers that  *)
(* the object is as declared, or that it changed it, and nobody wrote to   *)
(* the object since it looked, the object is as declared once the tasks it *)
(* left behind are carried out.  One request of several that is skipped,   *)
(* sent for the wrong difference, or sent after another that undoes it     *)
(* would break this.                                                       *)
SuccessIsDeclared ==
    \A r \in Runs :
        Succeeded(r) /\ Surely(fn) /\ Repairs(fn) /\ Ordered(fn) => IsDeclared

(* A run that fails between two of the requests that make an object leaves *)
(* something half made, and the next one finds an object of that name.  It *)
(* does not take it for done: what a run made is complete when a run       *)
(* reports success, the fields included that nothing compares.             *)
NothingIsHalfMade ==
    \A r \in Runs :
        Succeeded(r) /\ own /\ fn.goal = "present" /\ Surely(fn) /\ Repairs(fn) /\ Ordered(fn) /\ Resumes(fn)
          => \A x \in Sets(fn.make) : val[x] = "want"

(* A second object of the same name takes a race or an operator: a run     *)
(* that makes one although there is one had been overtaken since its       *)
(* lookup, or looked while a task was on its way.  A run that failed half  *)
(* way, or whose answer was lost, does not make the next run do it.        *)
TwinsNeedARace ==
    [][copies < 2 /\ copies' = 2 /\ Surely(fn) /\ edits' = edits =>
         IF tasks' = tasks THEN \E r \in Runs : run'[r].todo # run[r].todo /\ ~run[r].clean
         ELSE Head(tasks).by = Operator \/ ~run[Head(tasks).by].clean]_vars

(* What an administrator changed in fields the function is not about is    *)
(* put back by a function that writes its body whole, but only if he was   *)
(* between the lookup and the write: a run puts nothing back that was      *)
(* there when it looked, neither by its own requests nor by the tasks it   *)
(* left behind, unless tasks were on their way already.  An operator may   *)
(* hold a body of any age.                                                 *)
LostEditsNeedARace ==
    [][foreign' < foreign /\ edits' = edits =>
         IF tasks' = tasks THEN \E r \in Runs : run'[r].todo # run[r].todo /\ ~run[r].clean
         ELSE Head(tasks).by = Operator \/ ~run[Head(tasks).by].clean]_vars

(* Once a run has succeeded undisturbed, a further run finds nothing to    *)
(* do: no function whose requests repair what it compares goes on sending  *)
(* them at every highstate.                                                *)
RepeatIsQuiet ==
    [][\A r \in Runs :
         /\ settled \/ \E s \in Runs : Succeeded(s)
         /\ Surely(fn) /\ Repairs(fn) /\ Ordered(fn) /\ Readable(fn)
         => ~(run[r].pc = "read" /\ run'[r].pc = "write")]_vars

(* A run does not get in its own way: it fails because a request or its     *)
(* answer got lost, because somebody changed the object after it looked, or *)
(* because the object it is to change is not there, and never because one   *)
(* of its requests is refused for what another of them did, or because it   *)
(* finds a difference it has no request for.                                *)
FailuresHaveACause ==
    [][\A r \in Runs :
         /\ run[r].pc # "idle" /\ run'[r].pc = "idle" /\ run'[r].result = "failed"
         /\ Surely(fn) /\ Repairs(fn) /\ Direct(fn)
         => \/ faults' # faults
            \/ run[r].pc = "read" /\ copies = 0 /\ fn.missing # "make"
            \/ run[r].pc = "write" /\ ~run[r].clean]_vars

(* If runs are begun again and again, the object ends up as declared and   *)
(* stays so, whatever a fault, an overlapping run, an operator or an       *)
(* administrator left behind; where there has to be an object already, if  *)
(* there is one.                                                           *)
RerunsConverge ==
    (\E r \in Runs : []<>(run[r].pc = "read" /\ ~run[r].test))
      => <>[](Surely(fn) /\ Repairs(fn) /\ Ordered(fn) /\ (fn.missing = "fail" => copies > 0) => IsDeclared)
===============================================================================
