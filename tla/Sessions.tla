------------------------------- MODULE Sessions -------------------------------
(***************************************************************************)
(* The connection helpers of utils/*.py and the sessions they keep.        *)
(*                                                                         *)
(* A call of a client goes through one helper: it takes the session of the *)
(* process's cache, or opens one, and sends its request with it.  Every    *)
(* appliance has a helper of its own and every helper a policy of its own: *)
(* what it caches, under which key, and what it does when the appliance    *)
(* refuses the session.  That policy is the record Helper; the steps are   *)
(* the same for all.                                                       *)
(*                                                                         *)
(* One action is one request of the call with everything the code does on  *)
(* its answer up to the next request.  Between two of them, and between    *)
(* two calls of the process, sessions end on the appliance, passwords are  *)
(* changed there and in the pillar, and the process may be replaced.       *)
(***************************************************************************)
EXTENDS Naturals, SessionHelpers

CONSTANTS
    Helpers,      \* the helpers to choose from, see Helper
    Profiles,     \* accounts of one appliance
    MaxFaults,    \* bound: requests and answers that get lost
    MaxEnds,      \* bound: times the appliance ends what an account has open
    MaxRotations  \* bound: changes of a password on the appliance

ASSUME SessionsAssumption ==
    /\ Helpers \subseteq Helper
    /\ \A h \in Helpers :
          /\ h.onRefusal = "exchange" <=> h.from = "refresh"
          /\ h.holds # "session" => h.from = "login" /\ h.onRefusal = "raise"
          /\ h.from = "cookie" => h.onRefusal = "raise" /\ h.keyed
          /\ h.ambient => h.from = "cookie"
    /\ "none" \notin Profiles /\ "shared" \notin Profiles
    /\ MaxFaults \in Nat /\ MaxEnds \in Nat /\ MaxRotations \in Nat

VARIABLES
    helper,    \* the helper, with its policy
    secret,    \* the password of each account on the appliance: how often it was changed
    pillar,    \* the password in the pillar, likewise
    ended,     \* how often the appliance ended the sessions of an account
    forgotten, \* how often it ended its refresh tokens
    cache,     \* what the helper caches, by key
    base,      \* the refresh tokens, or the SOAP sessions, by key
    old,       \* keys whose session has been there for most of its lifetime
    context,   \* the session in the thread's context of pyVmomi
    since,     \* history: for each profile the others whose sessions were put in place
               \* since one of its own was, or it emptied its cache
    call,      \* the call under way, or the last one
    cleared,   \* history: keys emptied since anything ended or changed
    faults, ends, rotations \* history: how many of each so far

accountVars == <<secret, ended, forgotten>>
cacheVars == <<cache, base, old, context, since>>
boundVars == <<faults, ends, rotations>>
vars == <<helper, accountVars, pillar, cacheVars, call, cleared, boundVars>>

(* A session: whose it is, the password it was opened with, and how often  *)
(* the sessions (or the refresh tokens) of the account had ended by then.  *)
NoSession == [who |-> "none"]
Session == [who : Profiles, pw : Nat, born : Nat] \cup {NoSession}

Keys == Profiles \cup {"shared"}
KeyOf(p) == IF helper.keyed THEN p ELSE "shared"

Outcomes == {"none", "ok", "lost", "login", "refused"}

(* p: the profile; again: the request was refused before; with: the        *)
(* session it goes out with; token: the refresh token to be exchanged;     *)
(* done: how often the request took effect, by: under whose session; calm: *)
(* the password was right, and nothing ended or changed since the call     *)
(* began; clear: its key had been emptied and nothing happened since.      *)
Call == [pc : {"idle", "login", "exchange", "send"}, p : Profiles, again : BOOLEAN,
         with : Session, token : Session, result : Outcomes,
         done : Nat, by : Profiles \cup {"none"}, calm : BOOLEAN, clear : BOOLEAN]

TypeOK ==
    /\ helper \in Helper
    /\ secret \in [Profiles -> Nat] /\ pillar \in [Profiles -> Nat]
    /\ ended \in [Profiles -> Nat] /\ forgotten \in [Profiles -> Nat]
    /\ cache \in [Keys -> Session] /\ base \in [Keys -> Session]
    /\ old \subseteq Keys
    /\ context \in Session /\ since \in [Profiles -> SUBSET Profiles]
    /\ call \in Call
    /\ cleared \subseteq Keys
    /\ faults \in Nat /\ ends \in Nat /\ rotations \in Nat

(***************************************************************************)
(* The appliance.                                                          *)
(***************************************************************************)

(* A request is accepted with the right password, or with a session that   *)
(* has not ended; a session outlives a change of the password.             *)
Accepted(s) ==
    IF helper.holds = "session" THEN s.born = ended[s.who] ELSE s.pw = secret[s.who]

OpenedForTheKey(p) == [who |-> KeyOf(p), pw |-> pillar[p], born |-> ended[p]]
Opened(p) == [who |-> p, pw |-> pillar[p], born |-> ended[p]]
Refreshing(p) == [who |-> p, pw |-> pillar[p], born |-> forgotten[p]]

(***************************************************************************)
(* The cache.                                                              *)
(***************************************************************************)

Follows(s) == since' = [p \in Profiles |-> IF p = s.who THEN {} ELSE since[p] \cup {s.who}]

StoresOnce(k, s) ==
    /\ cache' = [cache EXCEPT ![k] = s] /\ Follows(s)
    /\ context' = IF helper.ambient /\ context = NoSession THEN s ELSE context

(* What is opened is cached, and becomes the thread's where the helper says so. *)
Stores(k, s) ==
    /\ cache' = [cache EXCEPT ![k] = s] /\ Follows(s)
    /\ context' = IF helper.ambient THEN s ELSE context

(* What a request goes out with, once it is cached. *)
Stored(k) == IF helper.ambient THEN context ELSE cache[k]

(***************************************************************************)
(* The steps of a call.                                                    *)
(***************************************************************************)

Fault == faults < MaxFaults /\ faults' = faults + 1 /\ UNCHANGED <<ends, rotations>>
Sound == UNCHANGED boundVars

Sends(c, s) == [c EXCEPT !.pc = "send", !.with = s]
Finishes(c, result) ==
    [c EXCEPT !.pc = "idle", !.with = NoSession, !.token = NoSession, !.result = result]

(* What a call does before its first request, if what is cached is usable  *)
(* or not.                                                                 *)
TakesIf(usable, c) ==
    LET k == KeyOf(c.p)
        soap == helper.from = "cookie" /\ base[k] # NoSession
        kept == UNCHANGED <<cache, context, since>>
    IN \/ helper.holds = "nothing" /\ call' = Sends(c, Opened(c.p)) /\ kept
       \/ helper.holds # "nothing" /\ usable /\ call' = Sends(c, Stored(k)) /\ kept
       \/ /\ helper.holds = "password" /\ ~usable
          /\ call' = Sends(c, Opened(c.p)) /\ Stores(k, Opened(c.p))
       \/ soap /\ ~usable /\ call' = Sends(c, base[k]) /\ Stores(k, base[k])
       \/ /\ helper.holds = "session" /\ ~usable /\ ~soap
          /\ call' = [c EXCEPT !.pc = "login"] /\ kept

TakesHoweverOld(c) == TakesIf(cache[KeyOf(c.p)] # NoSession, c)

(* A session that is cached and not old goes out at once. *)
Takes(c) ==
    TakesIf(cache[KeyOf(c.p)] # NoSession /\ ~(helper.ages /\ KeyOf(c.p) \in old), c)

Begin(p) ==
    /\ call.pc = "idle"
    /\ Takes([pc |-> "idle", p |-> p, again |-> FALSE, with |-> NoSession, token |-> NoSession,
              result |-> "none", done |-> 0, by |-> "none",
              calm |-> pillar[p] = secret[p], clear |-> KeyOf(p) \in cleared])
    /\ UNCHANGED <<helper, accountVars, pillar, base, old, cleared, boundVars>>

(* A login gives a session, which is cached; or a refresh token, that is   *)
(* not cached until it has been exchanged for one; or a SOAP session, the  *)
(* cookie of which is copied.                                              *)
Welcomed(p) ==
    LET k == KeyOf(p)
    IN \/ /\ helper.from = "login"
          /\ Stores(k, Opened(p)) /\ UNCHANGED base
          /\ call' = Sends(call, Opened(p))
       \/ /\ helper.from = "refresh"
          /\ call' = [call EXCEPT !.pc = "exchange", !.token = Refreshing(p)]
          /\ UNCHANGED <<cache, base, context, since>>
       \/ /\ helper.from = "cookie"
          /\ Stores(k, Opened(p)) /\ base' = [base EXCEPT ![k] = Opened(p)]
          /\ call' = Sends(call, Opened(p))

Login ==
    /\ call.pc = "login"
    /\ \/ /\ pillar[call.p] = secret[call.p] /\ Sound
          /\ Welcomed(call.p)
          /\ old' = IF helper.from = "refresh" THEN old ELSE old \ {KeyOf(call.p)}
       \/ /\ pillar[call.p] # secret[call.p] /\ Sound
          /\ call' = Finishes(call, "login") /\ UNCHANGED cacheVars
       \/ /\ Fault
          /\ call' = Finishes(call, "lost") /\ UNCHANGED cacheVars
    /\ UNCHANGED <<helper, accountVars, pillar, cleared>>

(* A refresh token that the appliance has forgotten is refused, and what   *)
(* is cached stays.                                                        *)
Exchange ==
    /\ call.pc = "exchange"
    /\ LET t == call.token
           s == [t EXCEPT !.born = ended[t.who]]
           k == KeyOf(call.p)
       IN \/ /\ t.born = forgotten[t.who] /\ Sound
             /\ Stores(k, s) /\ base' = [base EXCEPT ![k] = t]
             /\ old' = old \ {k}
             /\ call' = [Sends(call, s) EXCEPT !.token = NoSession]
          \/ /\ t.born # forgotten[t.who] /\ Sound
             /\ call' = Finishes(call, "refused") /\ UNCHANGED cacheVars
          \/ /\ Fault
             /\ call' = Finishes(call, "lost") /\ UNCHANGED cacheVars
    /\ UNCHANGED <<helper, accountVars, pillar, cleared>>

RepeatsWhenLost ==
    LET c == [call EXCEPT !.done = @ + 1, !.by = call.with.who]
    IN \/ call' = Finishes(c, "ok") /\ Sound
       \/ call' = [c EXCEPT !.again = TRUE] /\ ~call.again /\ Fault

(* The request takes effect; its answer may get lost. *)
TakesEffect ==
    LET c == [call EXCEPT !.done = @ + 1, !.by = call.with.who]
    IN \/ call' = Finishes(c, "ok") /\ Sound
       \/ call' = Finishes(c, "lost") /\ Fault

(* The refusal counts as one of the session; where only the wording tells, *)
(* it need not.                                                            *)
Understood == helper.onRefusal # "raise" /\ ~call.again
GivesUp == helper.onRefusal = "raise" \/ call.again \/ helper.worded

KeepsTheEntry ==
    LET c == [call EXCEPT !.again = TRUE]
    IN \/ GivesUp /\ call' = Finishes(call, "refused") /\ UNCHANGED cacheVars
       \/ /\ Understood /\ helper.onRefusal = "login"
          /\ call' = Sends(c, cache[KeyOf(c.p)]) /\ UNCHANGED cacheVars
       \/ /\ Understood /\ helper.onRefusal = "exchange" /\ base[KeyOf(c.p)] # NoSession
          /\ call' = [c EXCEPT !.pc = "exchange", !.token = base[KeyOf(c.p)]] /\ UNCHANGED cacheVars

Refused ==
    LET c == [call EXCEPT !.again = TRUE]
    IN \/ GivesUp /\ call' = Finishes(call, "refused") /\ UNCHANGED cacheVars
       \/ /\ Understood /\ helper.onRefusal = "login"
          /\ call' = [c EXCEPT !.pc = "login"] /\ cache' = [cache EXCEPT ![KeyOf(c.p)] = NoSession]
          /\ UNCHANGED <<base, old, context, since>>
       \/ /\ Understood /\ helper.onRefusal = "exchange" /\ base[KeyOf(c.p)] # NoSession
          /\ call' = [c EXCEPT !.pc = "exchange", !.token = base[KeyOf(c.p)]] /\ UNCHANGED cacheVars

Send ==
    /\ call.pc = "send"
    /\ \/ Accepted(call.with) /\ TakesEffect /\ UNCHANGED cacheVars
       \/ ~Accepted(call.with) /\ Refused /\ Sound
       \/ call' = Finishes(call, "lost") /\ Fault /\ UNCHANGED cacheVars
    /\ UNCHANGED <<helper, accountVars, pillar, cleared>>

(***************************************************************************)
(* Everybody else.                                                         *)
(***************************************************************************)

(* Something ends or changes under the call. *)
Disturbs == call' = [call EXCEPT !.calm = FALSE, !.clear = FALSE] /\ cleared' = {}

(* Sessions, or refresh tokens, of an account expire or are closed. *)
End(p) ==
    /\ ends < MaxEnds /\ ends' = ends + 1
    /\ \/ ended' = [ended EXCEPT ![p] = @ + 1] /\ UNCHANGED forgotten
       \/ forgotten' = [forgotten EXCEPT ![p] = @ + 1] /\ UNCHANGED ended
    /\ Disturbs
    /\ UNCHANGED <<helper, secret, pillar, cacheVars, faults, rotations>>

(* The clock. *)
Age ==
    /\ helper.ages
    /\ old' = {k \in Keys : cache[k] # NoSession} /\ old' # old
    /\ UNCHANGED <<helper, accountVars, pillar, cache, base, context, since, call, cleared,
                   boundVars>>

(* The password is changed on the appliance, and later in the pillar, *)
(* which a job reads once.                                            *)
Rotate(p) ==
    /\ rotations < MaxRotations /\ rotations' = rotations + 1
    /\ secret' = [secret EXCEPT ![p] = @ + 1]
    /\ Disturbs
    /\ UNCHANGED <<helper, ended, forgotten, pillar, cacheVars, faults, ends>>

Follow(p) ==
    /\ call.pc = "idle"
    /\ pillar[p] # secret[p] /\ pillar' = [pillar EXCEPT ![p] = secret[p]]
    /\ cleared' = {}
    /\ UNCHANGED <<helper, accountVars, cacheVars, call, boundVars>>

RightPasswords == pillar = secret

ForgetsTheKey(p) ==
    /\ call.pc = "idle"
    /\ cleared' = IF RightPasswords THEN cleared \cup {KeyOf(p)} ELSE cleared
    /\ UNCHANGED <<helper, accountVars, pillar, cacheVars, call, boundVars>>

(* invalidate_session, invalidate_token, invalidate_stub and so on. *)
Invalidate(p) ==
    /\ call.pc = "idle"
    /\ cache[KeyOf(p)] # NoSession
    /\ cache' = [cache EXCEPT ![KeyOf(p)] = NoSession]
    /\ base' = IF helper.from = "refresh" THEN [base EXCEPT ![KeyOf(p)] = NoSession] ELSE base
    /\ since' = [since EXCEPT ![p] = {}]
    /\ cleared' = IF RightPasswords THEN cleared \cup {KeyOf(p)} ELSE cleared
    /\ UNCHANGED <<helper, accountVars, pillar, old, context, call, boundVars>>

(* invalidate_service_instance of utils/vim.py also logs out. *)
Logout(p) ==
    /\ call.pc = "idle"
    /\ helper.from = "cookie" /\ base[KeyOf(p)] # NoSession
    /\ ends < MaxEnds /\ ends' = ends + 1
    /\ base' = [base EXCEPT ![KeyOf(p)] = NoSession]
    /\ ended' = [ended EXCEPT ![base[KeyOf(p)].who] = @ + 1]
    /\ Disturbs
    /\ UNCHANGED <<helper, secret, forgotten, pillar, cache, old, context, since, faults, rotations>>

(* The process is replaced, and its caches are gone. *)
Restart ==
    /\ \/ call.pc = "idle" /\ cache # [k \in Keys |-> NoSession] /\ Sound /\ UNCHANGED call
       \/ call.pc # "idle" /\ call' = Finishes(call, "lost") /\ Fault
    /\ cache' = [k \in Keys |-> NoSession] /\ base' = [k \in Keys |-> NoSession] /\ old' = {}
    /\ context' = NoSession /\ since' = [p \in Profiles |-> {}]
    /\ cleared' = IF RightPasswords THEN Keys ELSE {}
    /\ UNCHANGED <<helper, accountVars, pillar>>

(***************************************************************************)
(* The specification.                                                      *)
(***************************************************************************)

Init ==
    /\ helper \in Helpers
    /\ secret = [p \in Profiles |-> 0] /\ pillar = secret
    /\ ended = [p \in Profiles |-> 0] /\ forgotten = ended
    /\ cache = [k \in Keys |-> NoSession] /\ base = cache
    /\ old = {} /\ cleared = {}
    /\ context = NoSession /\ since = [p \in Profiles |-> {}]
    /\ \E p \in Profiles :
         call = [pc |-> "idle", p |-> p, again |-> FALSE, with |-> NoSession,
                 token |-> NoSession, result |-> "none", done |-> 0, by |-> "none",
                 calm |-> FALSE, clear |-> FALSE]
    /\ faults = 0 /\ ends = 0 /\ rotations = 0

Step == Login \/ Exchange \/ Send

Next ==
    \/ \E p \in Profiles :
         Begin(p) \/ End(p) \/ Rotate(p) \/ Follow(p) \/ Invalidate(p) \/ Logout(p)
    \/ Login \/ Exchange \/ Send \/ Age \/ Restart

Spec == Init /\ [][Next]_vars

(* A call that runs goes on, and time passes. *)
FairSpec == Spec /\ WF_vars(Step) /\ WF_vars(Age)

(***************************************************************************)
(* Properties.                                                             *)
(***************************************************************************)

(* A refusal makes the helper open a session anew. *)
Renews(h) == h.holds = "nothing" \/ (h.onRefusal = "login" /\ ~h.worded)

(* It does so at once, or when the old session has become old. *)
Heals(h) == h.holds = "nothing" \/ (h.onRefusal = "login" /\ (h.worded => h.ages))

(* A request that is sent twice takes effect once at most: only a refused  *)
(* one is repeated.  A call that reports success took effect, one that     *)
(* reports a refusal did not.                                              *)
EffectsAsReported ==
    /\ call.done <= 1
    /\ call.result = "ok" => call.done = 1
    /\ call.result \in {"refused", "login"} => call.done = 0

(* Helpers whose sessions reach calls of other profiles: through an        *)
(* incomplete key, or through the thread's context.                        *)
Lends(h) == ~h.keyed \/ h.ambient

(* A request takes effect under another account than its profile's only    *)
(* through one of these, and only if a session of that account was put in  *)
(* place after the caller last opened one itself or emptied its cache: one *)
(* that does either, and is not overtaken, acts as itself.                 *)
OthersOnlyAfterThem ==
    [][call'.done > call.done /\ call'.by # call'.p
         => Lends(helper) /\ call'.by \in since[call'.p]]_vars

(* With one repetition a helper is done: a call that is refused although   *)
(* it opened a session anew has had a session end, or the password change, *)
(* while it ran, or a wrong password to begin with.                        *)
OneRepetitionSuffices ==
    Renews(helper) /\ call.result \in {"refused", "login"} => ~call.calm

(* After an invalidate_session, invalidate_token and so on, nothing of the *)
(* old session is left: no call is refused before something ends again.    *)
EmptiedIsFresh ==
    helper.from # "cookie" /\ call.clear => call.result \notin {"refused", "login"}

(* A session that has ended does not fail the calls for good: if calls are *)
(* made again and again, with the right password, they get through again.  *)
CallsHeal ==
    Heals(helper) /\ []<>(call.pc # "idle") /\ <>[]RightPasswords
      => <>[](call.pc = "idle" => call.result = "ok")

(***************************************************************************)
(* What they rest on.                                                      *)
(***************************************************************************)

(* A request goes out with a session, and nothing has been reported yet. *)
Underway ==
    /\ helper \in Helpers
    /\ call.pc = "login" => helper.holds = "session"
    /\ call.pc = "exchange" => helper.from = "refresh" /\ call.token # NoSession
    /\ call.pc = "send" => call.with # NoSession
    /\ call.pc # "idle" => call.result = "none" /\ call.done = 0 /\ call.by = "none"

(* Whose sessions a profile may find in the cache, and go out with. *)
Cachable(p) == IF helper.keyed THEN {p} ELSE {p} \cup since[p]
Usable(p) == IF Lends(helper) THEN {p} \cup since[p] ELSE {p}

(* What is in place is the profile's own, or was put there since. *)
InPlace ==
    /\ \A p \in Profiles :
         /\ cache[KeyOf(p)].who \in {"none"} \cup Cachable(p)
         /\ base[KeyOf(p)].who \in {"none"} \cup Cachable(p)
         /\ helper.ambient /\ cache[KeyOf(p)] # NoSession => context.who \in Usable(p)
    /\ helper.from = "login" => \A k \in Keys : base[k] = NoSession

GoesOut ==
    /\ call.pc = "exchange" => call.token.who \in Cachable(call.p)
    /\ call.pc = "send" => call.with.who \in Usable(call.p)

(* A call that nothing disturbs has the right password, and what it opened *)
(* anew is accepted.                                                       *)
Renewed ==
    /\ call.calm => pillar[call.p] = secret[call.p]
    /\ Renews(helper) /\ call.calm /\ call.pc = "send" /\ (call.again \/ helper.holds = "nothing")
         => Accepted(call.with)

(* What came under a key after it was emptied is accepted. *)
Fresh ==
    helper.from # "cookie" =>
        /\ cleared # {} => RightPasswords
        /\ \A k \in cleared :
             /\ cache[k] # NoSession => Accepted(cache[k])
             /\ helper.from = "refresh" /\ base[k] # NoSession => base[k].born = forgotten[base[k].who]
        /\ call.clear /\ call.pc # "idle" => KeyOf(call.p) \in cleared
        /\ call.clear /\ call.pc = "send" => Accepted(call.with)
        /\ call.clear /\ call.pc = "exchange" => call.token.born = forgotten[call.token.who]
===============================================================================
