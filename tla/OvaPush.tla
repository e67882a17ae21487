------------------------------- MODULE OvaPush -------------------------------
(***************************************************************************)
(* What a caller of deploy_ova (after find_vm) may rely on, whatever fails *)
(* in between: a call works only on the VM it created, what it returns as  *)
(* deployed is a whole VM, it skips the push only if a VM of the name is   *)
(* there, and a VM that was filled once is never taken away again.  It may *)
(* leave anything else: an empty shell, which the host drops some time,    *)
(* or a VM that nobody powers on.                                          *)
(***************************************************************************)
CONSTANT PowerOn  \* power_on of the call

VARIABLES
    vm,    \* the VM of that name
    busy,  \* a call runs
    mine,  \* whether that VM is the call's own, and the call powers it on
    reply  \* what the last call returned

pushVars == <<vm, busy, mine, reply>>

VMStates == {"none", "shell", "off", "starting", "on"}
Replies == {"none", "deployed", "skipped", "failed"}

PushTypes ==
    /\ vm \in VMStates
    /\ busy \in BOOLEAN
    /\ mine \in {"no", "yes", "started"}
    /\ reply \in Replies

Whole == IF PowerOn THEN "on" ELSE "off"

Call ==
    /\ ~busy /\ busy' = TRUE
    /\ mine' = "no" /\ reply' = "none"
    /\ UNCHANGED vm

(* The call imports a shell, fills it and powers it on; m is what is then  *)
(* its own. *)
Work(m) ==
    \/ vm = "none" /\ mine = "no" /\ vm' = "shell" /\ m = "yes"
    \/ vm = "shell" /\ mine = "yes" /\ vm' = "off" /\ m = "yes"
    \/ PowerOn /\ vm = "off" /\ mine = "yes" /\ vm' = "starting" /\ m = "started"

(* The host ends a lease or a task, whether a call is there or not. *)
Settle ==
    \/ vm = "shell" /\ vm' = "none"
    \/ vm = "starting" /\ vm' \in {"on", "off"}

Move(m) == Work(m) \/ (m = mine /\ (Settle \/ UNCHANGED vm))

GoesOn == \E m \in {"no", "yes", "started"} : Move(m) /\ mine' = m /\ UNCHANGED <<busy, reply>>

Ends ==
    /\ busy /\ busy' = FALSE /\ mine' = "no"
    /\ reply' \in Replies \ {"none"}
    /\ \E m \in {"no", "yes", "started"} :
         /\ Move(m)
         /\ reply' = "deployed" => m # "no" /\ vm' = Whole
         /\ reply' = "skipped" => m = "no" /\ vm # "none"

PushInit == vm = "none" /\ busy = FALSE /\ mine = "no" /\ reply = "none"

PushNext == Call \/ (busy /\ GoesOn) \/ Ends \/ (Settle /\ UNCHANGED <<busy, mine, reply>>)

PushSpec == PushInit /\ [][PushNext]_pushVars
=============================================================================
