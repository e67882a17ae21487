---------------------------- MODULE StateFunctions ----------------------------
(***************************************************************************)
(* The words the catalogue of declarative state functions is written in.   *)
(*                                                                         *)
(* A state function of states/*.py looks one object up, compares what it   *)
(* found with what the caller declared, answers a dry run, and otherwise   *)
(* sends the requests that are missing.  What sets one function apart from *)
(* another is how surely its lookup finds the object, which fields it      *)
(* compares, and which requests it sends in which order: that is the       *)
(* record StateFunction.  The steps they share are in Declared.            *)
(*                                                                         *)
(* A field stands for every argument of the function that is compared and  *)
(* written alike: "spec" for the ones compared and written together,       *)
(* "first", "second" and so on where they are not, "unseen" for those that *)
(* are written but never compared, "unread" for those that are compared    *)
(* with an answer that never shows them, so that they always differ.       *)
(***************************************************************************)
EXTENDS Naturals, Sequences, Functions

spec == {"spec"}
first == {"first"}
second == {"second"}
third == {"third"}
fourth == {"fourth"}
fifth == {"fifth"}
unseen == {"unseen"}
unread == {"unread"}
Fields == spec \cup first \cup second \cup third \cup fourth \cup fifth \cup unseen \cup unread

(***************************************************************************)
(* Requests of clients/*.py.                                               *)
(*   add     POST: a new object; with one of the name there, the appliance *)
(*           refuses it or makes a second one                              *)
(*   upsert  PUT at the path of the object, which need not exist           *)
(*   set     a change of the named fields only                             *)
(*   whole   PUT of the body that was read, with the named fields changed  *)
(*   read    the client reads the body again that it is about to write     *)
(*   remove  the object goes away                                          *)
(*   beside  a change of what no state function of the object is about     *)
(* wait: "call" the answer is the effect; "waited" a task the client waits *)
(* for; "task" a task that is returned as soon as it is accepted; "tried"  *)
(* such a task, sent by a state that ignores that it fails.                *)
(* on: the request is only sent when one of these fields differs; {} when  *)
(* it is always sent.                                                      *)
(***************************************************************************)
Request == [op : {"add", "upsert", "set", "read", "whole", "remove", "beside"},
            sets : SUBSET Fields,
            wait : {"call", "waited", "task", "tried"},
            on : SUBSET Fields]

Call(op, sets) == [op |-> op, sets |-> sets, wait |-> "call", on |-> {}]
Add(sets) == Call("add", sets)
Upsert(sets) == Call("upsert", sets)
Set(sets) == Call("set", sets)
Whole(sets) == Call("whole", sets)
Remove == Call("remove", {})
Beside == Call("beside", {})

(* A client function that reads the whole body, changes it and writes it back. *)
Rewrite(sets) == <<Call("read", {}), Whole(sets)>>

Task(q) == [q EXCEPT !.wait = "task"]
Tried(q) == [q EXCEPT !.wait = "tried"]
Waited(q) == [q EXCEPT !.wait = "waited"]
On(fields, q) == [q EXCEPT !.on = fields]

(***************************************************************************)
(* Lookups of clients/*.py.  A sure one goes by the key the object is      *)
(* created under, or through everything the appliance has: an object that  *)
(* is there is found.  One that goes through the first page of a list, or  *)
(* by a key the appliance chooses, or to a port that must be open, may     *)
(* miss it.                                                                *)
(***************************************************************************)
Lookups == {"sure", "maybe"}
ByKey == "sure"
Scan == "sure"
FirstPage == "maybe"
ByForeignKey == "maybe"
Unreached == "maybe"

(***************************************************************************)
(* State functions of states/*.py.                                         *)
(*   goal      the object is to be "present" or "absent"                   *)
(*   missing   without an object the function is to "make" it, or it has   *)
(*             to "fail"; "never" when there always is one                 *)
(*   compared  the fields it compares                                      *)
(*   make      the requests when no object is found                        *)
(*   change    the requests when one is found that differs; if there are   *)
(*             none to be sent the function fails                          *)
(*   blind     a dry run answers before anything is looked up              *)
(*   spared    the object came with the product: when found it is reported *)
(*             as done and let be, whatever it is like                     *)
(*   calls     the requests the execution modules for the same objects     *)
(*             offer, which an operator sends without any lookup, with the *)
(*             arguments declared; that he sends others, or the request    *)
(*             that does the opposite, is an administrator's change        *)
(***************************************************************************)
StateFunction == [goal : {"present", "absent"},
                  lookup : Lookups,
                  missing : {"make", "fail", "never"},
                  compared : SUBSET Fields,
                  make : Seq(Request),
                  change : Seq(Request),
                  blind : BOOLEAN,
                  spared : BOOLEAN,
                  calls : SUBSET Request]

(* Made when missing, changed when one of the compared fields differs. *)
Managed(lookup, make, compared, change) ==
    [goal |-> "present", lookup |-> lookup, missing |-> "make", compared |-> compared,
     make |-> make, change |-> change, blind |-> FALSE, spared |-> FALSE, calls |-> {}]

(* Made when missing, and never looked at again. *)
Present(lookup, make) == Managed(lookup, make, {}, <<>>)

(* Removed when there. *)
Absent(lookup, change) ==
    [goal |-> "absent", lookup |-> lookup, missing |-> "make", compared |-> {},
     make |-> <<>>, change |-> change, blind |-> FALSE, spared |-> FALSE, calls |-> {}]

(* A setting of the appliance itself. *)
Setting(lookup, compared, change) ==
    [Managed(lookup, <<>>, compared, change) EXCEPT !.missing = "never"]

(* A setting of an object that has to be there. *)
SettingOf(lookup, compared, change) ==
    [Managed(lookup, <<>>, compared, change) EXCEPT !.missing = "fail"]

(* Judged, never changed. *)
Audit(lookup, compared) == SettingOf(lookup, compared, <<>>)

Blind(f) == [f EXCEPT !.blind = TRUE]

(* Of an object that came with the product, if it did: it is always there. *)
Spared(system, f) == IF system THEN [f EXCEPT !.spared = TRUE, !.missing = "never"] ELSE f

(* The state functions beside the execution modules that offer these calls. *)
Offered(calls, functions) == {[f EXCEPT !.calls = calls] : f \in functions}
===============================================================================
