---------------------------- MODULE SessionsProofs ----------------------------
(***************************************************************************)
(* Proofs about Sessions, for any helpers, any number of profiles, and any *)
(* number of faults, ended sessions and changed passwords.                 *)
(***************************************************************************)
EXTENDS Sessions, TLAPS

LEMMA Keyed == \A p \in Profiles : KeyOf(p) \in Keys
BY DEF KeyOf, Keys

LEMMA NoneIsASession == NoSession \in Session
BY DEF Session

LEMMA OpenedTypes ==
    ASSUME TypeOK, NEW p \in Profiles
    PROVE  /\ Opened(p) \in Session /\ Opened(p).who = p
           /\ Refreshing(p) \in Session /\ Refreshing(p).who = p
BY DEF TypeOK, Session, Opened, Refreshing

LEMMA SendsTypes ==
    ASSUME NEW c \in Call, NEW s \in Session
    PROVE  Sends(c, s) \in Call
BY DEF Call, Sends

LEMMA StoresTypes ==
    ASSUME TypeOK, NEW k \in Keys, NEW s \in Session, s.who \in Profiles, Stores(k, s)
    PROVE  /\ cache' \in [Keys -> Session] /\ context' \in Session
           /\ since' \in [Profiles -> SUBSET Profiles]
BY DEF TypeOK, Stores, Follows

LEMMA FinishesTypes ==
    ASSUME NEW c \in Call, NEW result \in Outcomes
    PROVE  Finishes(c, result) \in Call
BY NoneIsASession DEF Call, Finishes

LEMMA TakesTypes ==
    ASSUME TypeOK, NEW c \in Call, Takes(c)
    PROVE  /\ call' \in Call /\ cache' \in [Keys -> Session] /\ context' \in Session
           /\ since' \in [Profiles -> SUBSET Profiles]
<1> DEFINE k == KeyOf(c.p)
<1>1. c.p \in Profiles /\ k \in Keys
  BY Keyed DEF Call
<1>2. Opened(c.p) \in Session /\ Opened(c.p).who \in Profiles
  BY <1>1, OpenedTypes
<1>3. cache[k] \in Session /\ base[k] \in Session /\ Stored(k) \in Session
  BY <1>1 DEF TypeOK, Stored
<1>4. base[k] # NoSession => base[k].who \in Profiles
  BY <1>3 DEF Session
<1>5. [c EXCEPT !.pc = "login"] \in Call
  BY DEF Call
<1>6. /\ Sends(c, Opened(c.p)) \in Call /\ Sends(c, Stored(k)) \in Call
      /\ Sends(c, base[k]) \in Call
  BY <1>2, <1>3, SendsTypes
<1>7. \/ UNCHANGED <<cache, context, since>>
      \/ Stores(k, Opened(c.p))
      \/ base[k] # NoSession /\ Stores(k, base[k])
  BY DEF Takes, TakesIf
<1>8. call' \in Call
  BY <1>5, <1>6 DEF Takes, TakesIf
<1>9. /\ cache' \in [Keys -> Session] /\ context' \in Session
      /\ since' \in [Profiles -> SUBSET Profiles]
  <2>1. CASE UNCHANGED <<cache, context, since>>
    BY <2>1 DEF TypeOK
  <2>2. CASE Stores(k, Opened(c.p))
    BY <1>1, <1>2, <2>2, StoresTypes
  <2>3. CASE base[k] # NoSession /\ Stores(k, base[k])
    BY <1>1, <1>3, <1>4, <2>3, StoresTypes
  <2> QED BY <1>7, <2>1, <2>2, <2>3
<1> QED BY <1>8, <1>9

LEMMA NewCall ==
    ASSUME NEW p \in Profiles, NEW calm \in BOOLEAN, NEW clear \in BOOLEAN
    PROVE  [pc |-> "idle", p |-> p, again |-> FALSE, with |-> NoSession,
            token |-> NoSession, result |-> "none", done |-> 0, by |-> "none",
            calm |-> calm, clear |-> clear] \in Call
BY NoneIsASession DEF Call, Outcomes

LEMMA BeginTypes ==
    ASSUME TypeOK, NEW p \in Profiles, Begin(p)
    PROVE  TypeOK'
<1> DEFINE calm == pillar[p] = secret[p]
           clear == KeyOf(p) \in cleared
           c == [pc |-> "idle", p |-> p, again |-> FALSE, with |-> NoSession,
                 token |-> NoSession, result |-> "none", done |-> 0, by |-> "none",
                 calm |-> calm, clear |-> clear]
<1>1. calm \in BOOLEAN /\ clear \in BOOLEAN
  <2>1. calm \in BOOLEAN
    BY Zenon
  <2>2. clear \in BOOLEAN
    OBVIOUS
  <2> QED BY <2>1, <2>2
<1>2. Takes(c)
  BY DEF Begin
<1>3. c \in Call
  <2> HIDE DEF calm, clear
  <2> QED BY <1>1, NewCall
<1>4. /\ call' \in Call /\ cache' \in [Keys -> Session] /\ context' \in Session
      /\ since' \in [Profiles -> SUBSET Profiles]
  <2> HIDE DEF c
  <2> QED BY <1>2, <1>3, TakesTypes
<1> QED BY <1>4 DEF Begin, TypeOK, accountVars, boundVars

LEMMA Counted == ASSUME TypeOK, Sound \/ Fault
                 PROVE  faults' \in Nat /\ ends' \in Nat /\ rotations' \in Nat
BY DEF TypeOK, Sound, Fault, boundVars

LEMMA LoginTypes ==
    ASSUME TypeOK, Login
    PROVE  TypeOK'
<1> DEFINE Types == /\ cache' \in [Keys -> Session] /\ base' \in [Keys -> Session]
                    /\ context' \in Session /\ since' \in [Profiles -> SUBSET Profiles]
<1>1. call \in Call /\ call.p \in Profiles
  BY DEF TypeOK, Call
<1>2. /\ Opened(call.p) \in Session /\ Refreshing(call.p) \in Session
      /\ Opened(call.p).who \in Profiles /\ KeyOf(call.p) \in Keys
  BY <1>1, OpenedTypes, Keyed
<1>3. ASSUME Welcomed(call.p)
      PROVE  call' \in Call /\ Types
  <2>1. Sends(call, Opened(call.p)) \in Call
    BY <1>1, <1>2, SendsTypes
  <2>2. [call EXCEPT !.pc = "exchange", !.token = Refreshing(call.p)] \in Call
    BY <1>1, <1>2 DEF Call
  <2>3. CASE UNCHANGED <<cache, base, context, since>>
    BY <1>3, <2>1, <2>2, <2>3 DEF Welcomed, TypeOK
  <2>4. CASE /\ Stores(KeyOf(call.p), Opened(call.p))
             /\ \/ UNCHANGED base
                \/ base' = [base EXCEPT ![KeyOf(call.p)] = Opened(call.p)]
    <3>1. base' \in [Keys -> Session]
      BY <1>2, <2>4 DEF TypeOK
    <3>2. call' \in Call
      BY <1>3, <2>1, <2>2 DEF Welcomed
    <3> QED BY <1>2, <2>4, <3>1, <3>2, StoresTypes
  <2> QED BY <1>3, <2>3, <2>4 DEF Welcomed
<1>4. Finishes(call, "login") \in Call /\ Finishes(call, "lost") \in Call
  BY <1>1, FinishesTypes DEF Outcomes
<1>5. UNCHANGED cacheVars => Types
  BY DEF cacheVars, TypeOK
<1>6. call' \in Call /\ Types
  <2> HIDE DEF Types
  <2> QED BY <1>3, <1>4, <1>5 DEF Login
<1>7. old' \subseteq Keys
  BY DEF Login, cacheVars, TypeOK
<1>8. faults' \in Nat /\ ends' \in Nat /\ rotations' \in Nat
  BY Counted DEF Login
<1> QED BY <1>6, <1>7, <1>8 DEF Login, TypeOK, accountVars

(* The session that a refresh token is exchanged for. *)
Exchanged == [call.token EXCEPT !.born = ended[call.token.who]]

LEMMA ExchangedTypes ==
    ASSUME TypeOK, call.token # NoSession
    PROVE  /\ call.token \in Session /\ call.token.who \in Profiles
           /\ Exchanged \in Session /\ Exchanged.who = call.token.who
           /\ Exchanged.pw = call.token.pw /\ Exchanged.born = ended[call.token.who]
           /\ Exchanged # NoSession
<1>1. call.token \in [who : Profiles, pw : Nat, born : Nat]
  BY DEF TypeOK, Call, Session
<1> QED BY <1>1, SessionsAssumption DEF Exchanged, Session, TypeOK, NoSession

LEMMA ExchangeTypes ==
    ASSUME TypeOK, Underway, Exchange
    PROVE  TypeOK'
<1>1. call \in Call /\ call.p \in Profiles
  BY DEF TypeOK, Call
<1>2. call.token # NoSession
  BY DEF Exchange, Underway
<1>3. Exchanged \in Session /\ call.token \in Session
  BY <1>2, ExchangedTypes
<1>4. KeyOf(call.p) \in Keys
  BY <1>1, Keyed
<1>5. Sends(call, Exchanged) \in Call
  BY <1>1, <1>3, SendsTypes
<1>6. [Sends(call, Exchanged) EXCEPT !.token = NoSession] \in Call
  BY <1>5, NoneIsASession DEF Call
<1>7. Finishes(call, "refused") \in Call /\ Finishes(call, "lost") \in Call
  BY <1>1, FinishesTypes DEF Outcomes
<1>8. [base EXCEPT ![KeyOf(call.p)] = call.token] \in [Keys -> Session]
  BY <1>3, <1>4 DEF TypeOK
<1>9. /\ call' \in Call /\ cache' \in [Keys -> Session] /\ base' \in [Keys -> Session]
      /\ context' \in Session /\ since' \in [Profiles -> SUBSET Profiles]
  <2>1. CASE UNCHANGED cacheVars
    BY <1>6, <1>7, <2>1 DEF Exchange, cacheVars, TypeOK, Exchanged
  <2>2. CASE /\ Stores(KeyOf(call.p), Exchanged)
             /\ base' = [base EXCEPT ![KeyOf(call.p)] = call.token]
             /\ call' = [Sends(call, Exchanged) EXCEPT !.token = NoSession]
    <3>1. Exchanged.who \in Profiles
      BY <1>2, ExchangedTypes
    <3> QED BY <1>3, <1>4, <1>6, <1>8, <2>2, <3>1, StoresTypes
  <2> QED BY <2>1, <2>2 DEF Exchange, Exchanged
<1>10. old' \subseteq Keys
  BY DEF Exchange, cacheVars, TypeOK
<1>11. faults' \in Nat /\ ends' \in Nat /\ rotations' \in Nat
  BY Counted DEF Exchange
<1> QED BY <1>9, <1>10, <1>11 DEF Exchange, TypeOK, accountVars

LEMMA SendTypes ==
    ASSUME TypeOK, Underway, Send
    PROVE  TypeOK'
<1>1. call \in Call /\ call.p \in Profiles /\ KeyOf(call.p) \in Keys
  BY Keyed DEF TypeOK, Call
<1>2. call.with.who \in Profiles
  BY DEF Underway, Send, TypeOK, Call, Session
<1>3. [call EXCEPT !.done = @ + 1, !.by = call.with.who] \in Call
  <2>1. \A n \in Nat, w \in Profiles : [call EXCEPT !.done = n, !.by = w] \in Call
    BY <1>1 DEF Call
  <2>2. call.done + 1 \in Nat
    BY <1>1 DEF Call
  <2> QED BY <1>2, <2>1, <2>2
<1>4. [call EXCEPT !.again = TRUE] \in Call
  BY <1>1 DEF Call
<1>5. \A c \in Call : Finishes(c, "ok") \in Call /\ Finishes(c, "lost") \in Call
                      /\ Finishes(c, "refused") \in Call
  BY FinishesTypes DEF Outcomes
<1>6. CASE TakesEffect /\ UNCHANGED cacheVars
  BY <1>3, <1>5, <1>6, Counted DEF TakesEffect, Send, TypeOK, accountVars, cacheVars
<1>7. CASE Refused /\ Sound
  <2>1. \A c \in Call : [c EXCEPT !.pc = "login"] \in Call
    BY DEF Call
  <2>2. \A c \in Call, s \in Session : [c EXCEPT !.pc = "exchange", !.token = s] \in Call
    BY DEF Call
  <2>3. base[KeyOf(call.p)] \in Session
    BY <1>1 DEF TypeOK
  <2>4. base[KeyOf([call EXCEPT !.again = TRUE].p)] \in Session
    BY <1>1, <2>3 DEF Call
  <2>5. call' \in Call
    BY <1>1, <1>4, <1>5, <1>7, <2>1, <2>2, <2>4 DEF Refused
  <2>6. /\ cache' \in [Keys -> Session] /\ base' \in [Keys -> Session] /\ old' \subseteq Keys
        /\ context' \in Session /\ since' \in [Profiles -> SUBSET Profiles]
    BY <1>7, NoneIsASession DEF Refused, TypeOK, cacheVars
  <2> QED BY <1>7, <2>5, <2>6, Counted DEF Send, TypeOK, accountVars
<1>8. CASE call' = Finishes(call, "lost") /\ Fault /\ UNCHANGED cacheVars
  BY <1>1, <1>5, <1>8, Counted DEF Send, TypeOK, accountVars, cacheVars
<1> QED BY <1>6, <1>7, <1>8 DEF Send

LEMMA DisturbedTypes ==
    ASSUME TypeOK, Disturbs
    PROVE  call' \in Call /\ cleared' = {}
BY DEF TypeOK, Disturbs, Call

LEMMA OthersTypes ==
    ASSUME TypeOK,
           Age \/ Restart
             \/ \E p \in Profiles : End(p) \/ Rotate(p) \/ Follow(p) \/ Invalidate(p) \/ Logout(p)
    PROVE  TypeOK'
<1> USE DEF accountVars, boundVars
<1>1. CASE Age
  BY <1>1 DEF Age, TypeOK
<1>2. CASE Restart
  <2>1. call' \in Call
    BY <1>2, FinishesTypes DEF Restart, TypeOK, Outcomes
  <2>2. faults' \in Nat /\ ends' \in Nat /\ rotations' \in Nat
    BY <1>2, Counted DEF Restart
  <2>3. /\ cache' \in [Keys -> Session] /\ base' \in [Keys -> Session]
        /\ context' \in Session /\ since' \in [Profiles -> SUBSET Profiles]
    BY <1>2, NoneIsASession DEF Restart
  <2> QED BY <1>2, <2>1, <2>2, <2>3 DEF Restart, TypeOK
<1>3. ASSUME NEW p \in Profiles, End(p)
      PROVE  TypeOK'
  BY <1>3, DisturbedTypes DEF End, TypeOK, cacheVars
<1>4. ASSUME NEW p \in Profiles, Rotate(p)
      PROVE  TypeOK'
  BY <1>4, DisturbedTypes DEF Rotate, TypeOK, cacheVars
<1>5. ASSUME NEW p \in Profiles, Follow(p)
      PROVE  TypeOK'
  BY <1>5 DEF Follow, TypeOK, cacheVars
<1>6. ASSUME NEW p \in Profiles, Invalidate(p)
      PROVE  TypeOK'
  BY <1>6, Keyed, NoneIsASession DEF Invalidate, TypeOK
<1>7. ASSUME NEW p \in Profiles, Logout(p)
      PROVE  TypeOK'
  <2>1. base[KeyOf(p)] \in Session
    BY Keyed DEF TypeOK
  <2>2. base[KeyOf(p)].who \in Profiles
    BY <1>7, <2>1 DEF Session, Logout
  <2>3. ended' \in [Profiles -> Nat]
    BY <1>7, <2>2 DEF Logout, TypeOK
  <2>4. base' \in [Keys -> Session]
    BY <1>7, Keyed, NoneIsASession DEF Logout, TypeOK
  <2> QED BY <1>7, <2>3, <2>4, DisturbedTypes DEF Logout, TypeOK
<1> QED BY <1>1, <1>2, <1>3, <1>4, <1>5, <1>6, <1>7

(* The invariant: the types, what the properties rest on, and the *)
(* properties.                                                    *)
SessionsInv ==
    /\ TypeOK /\ Underway /\ InPlace /\ GoesOut /\ Renewed /\ Fresh
    /\ EffectsAsReported /\ OneRepetitionSuffices /\ EmptiedIsFresh

LEMMA InitInv == Init => SessionsInv
<1> SUFFICES ASSUME Init
             PROVE  SessionsInv
  OBVIOUS
<1>1. PICK q \in Profiles :
        call = [pc |-> "idle", p |-> q, again |-> FALSE, with |-> NoSession,
                token |-> NoSession, result |-> "none", done |-> 0, by |-> "none",
                calm |-> FALSE, clear |-> FALSE]
  BY DEF Init
<1>2. call \in Call
  BY <1>1, NoneIsASession DEF Call, Outcomes
<1>3. TypeOK
  BY <1>2, NoneIsASession, SessionsAssumption DEF Init, TypeOK
<1>4. Underway /\ EffectsAsReported /\ Renewed
  BY <1>1 DEF Init, Underway, EffectsAsReported, Renewed
<1>5. OneRepetitionSuffices /\ EmptiedIsFresh
  BY <1>1 DEF OneRepetitionSuffices, EmptiedIsFresh
<1>6. InPlace /\ GoesOut
  BY <1>1, Keyed DEF Init, InPlace, GoesOut, NoSession
<1>7. Fresh
  BY <1>1 DEF Init, Fresh
<1> QED BY <1>3, <1>4, <1>5, <1>6, <1>7 DEF SessionsInv

(* What a call does before its first request, in one place: it goes out   *)
(* with what the cache has, or with the password, or to the login.        *)
LEMMA TakesWhat ==
    ASSUME TypeOK, NEW c \in Call, Takes(c)
    PROVE  /\ call'.p = c.p /\ call'.again = c.again /\ call'.token = c.token
           /\ call'.result = c.result /\ call'.done = c.done /\ call'.by = c.by
           /\ call'.calm = c.calm /\ call'.clear = c.clear
           /\ \/ /\ call'.pc = "login" /\ helper.holds = "session"
                 /\ call'.with = c.with /\ UNCHANGED <<cache, context, since>>
              \/ /\ call'.pc = "send" /\ call'.with = Opened(c.p) /\ helper.holds = "nothing"
                 /\ UNCHANGED <<cache, context, since>>
              \/ /\ call'.pc = "send" /\ call'.with = Opened(c.p) /\ helper.holds = "password"
                 /\ Stores(KeyOf(c.p), Opened(c.p))
              \/ /\ call'.pc = "send" /\ helper.holds # "nothing"
                 /\ call'.with = Stored(KeyOf(c.p)) /\ cache[KeyOf(c.p)] # NoSession
                 /\ UNCHANGED <<cache, context, since>>
              \/ /\ call'.pc = "send" /\ helper.from = "cookie"
                 /\ call'.with = base[KeyOf(c.p)] /\ call'.with # NoSession
                 /\ Stores(KeyOf(c.p), base[KeyOf(c.p)])
<1> DEFINE k == KeyOf(c.p)
           soap == base[k]
           Kept(d) == /\ d.p = c.p /\ d.again = c.again /\ d.token = c.token
                      /\ d.result = c.result /\ d.done = c.done /\ d.by = c.by
                      /\ d.calm = c.calm /\ d.clear = c.clear
<1>1. \A s \in Session : Sends(c, s).pc = "send" /\ Sends(c, s).with = s /\ Kept(Sends(c, s))
  BY DEF Sends, Call
<1>2. LET d == [c EXCEPT !.pc = "login"] IN d.pc = "login" /\ d.with = c.with /\ Kept(d)
  BY DEF Call
<1>3. Opened(c.p) \in Session /\ Stored(k) \in Session /\ soap \in Session
  BY Keyed, OpenedTypes DEF Call, TypeOK, Stored
<1>4. \/ /\ helper.holds = "nothing" /\ call' = Sends(c, Opened(c.p))
         /\ UNCHANGED <<cache, context, since>>
      \/ /\ helper.holds # "nothing" /\ cache[k] # NoSession
         /\ call' = Sends(c, Stored(k)) /\ UNCHANGED <<cache, context, since>>
      \/ /\ helper.holds = "password" /\ call' = Sends(c, Opened(c.p))
         /\ Stores(k, Opened(c.p))
      \/ /\ helper.from = "cookie" /\ soap # NoSession
         /\ call' = Sends(c, soap) /\ Stores(k, soap)
      \/ /\ helper.holds = "session" /\ call' = [c EXCEPT !.pc = "login"]
         /\ UNCHANGED <<cache, context, since>>
  BY DEF Takes, TakesIf
<1>5. /\ Sends(c, Opened(c.p)).with = Opened(c.p) /\ Sends(c, Opened(c.p)).pc = "send"
      /\ Kept(Sends(c, Opened(c.p)))
  BY <1>1, <1>3
<1>6. /\ Sends(c, Stored(k)).with = Stored(k) /\ Sends(c, Stored(k)).pc = "send"
      /\ Kept(Sends(c, Stored(k)))
  BY <1>1, <1>3
<1>7. Sends(c, soap).with = soap /\ Sends(c, soap).pc = "send" /\ Kept(Sends(c, soap))
  BY <1>1, <1>3
<1>8. Kept(call')
  BY <1>2, <1>4, <1>5, <1>6, <1>7
<1> QED BY <1>2, <1>4, <1>5, <1>6, <1>7, <1>8

LEMMA OpenedIsASession ==
    ASSUME NEW p \in Profiles
    PROVE  Opened(p) # NoSession /\ Refreshing(p) # NoSession
BY SessionsAssumption DEF Opened, Refreshing, NoSession

LEMMA ASessionIsSomeones ==
    ASSUME NEW s \in Session
    PROVE  s # NoSession <=> s.who \in Profiles
BY SessionsAssumption DEF Session, NoSession

(* What a profile finds in the cache it may go out with. *)
LEMMA UsableWhenCached ==
    ASSUME TypeOK, InPlace, NEW p \in Profiles, cache[KeyOf(p)] # NoSession
    PROVE  Stored(KeyOf(p)) # NoSession /\ Stored(KeyOf(p)).who \in Usable(p)
<1>1. Usable(p) \subseteq Profiles
  BY DEF Usable, TypeOK
<1>2. CASE helper.ambient
  <2>1. context.who \in Usable(p)
    BY <1>2 DEF InPlace
  <2> QED BY <1>1, <1>2, <2>1, ASessionIsSomeones DEF Stored, TypeOK
<1>3. CASE ~helper.ambient
  <2>1. cache[KeyOf(p)] \in Session
    BY Keyed DEF TypeOK
  <2>2. cache[KeyOf(p)].who # "none"
    BY <2>1, ASessionIsSomeones, SessionsAssumption
  <2>3. cache[KeyOf(p)].who \in Cachable(p)
    BY <2>2 DEF InPlace
  <2>4. Cachable(p) \subseteq Usable(p)
    BY DEF Cachable, Usable, Lends
  <2> QED BY <1>3, <2>3, <2>4 DEF Stored
<1> QED BY <1>2, <1>3

(* What is stored under a profile's key may be found there by it, and by   *)
(* those who share the key: for them it came since.                        *)
LEMMA StoresInPlace ==
    ASSUME TypeOK, InPlace, UNCHANGED helper,
           NEW p \in Profiles, NEW s \in Session, s.who \in Cachable(p),
           Stores(KeyOf(p), s),
           \/ /\ UNCHANGED base
              /\ (helper.keyed \/ helper.from = "login")
           \/ /\ helper.from # "login"
              /\ \E t \in Session : t.who = s.who /\ base' = [base EXCEPT ![KeyOf(p)] = t]
    PROVE  InPlace' /\ s.who \in Usable(p)'
<1>1. s.who \in Profiles
  BY DEF Cachable, TypeOK
<1>2. /\ cache' = [cache EXCEPT ![KeyOf(p)] = s]
      /\ context' = IF helper.ambient THEN s ELSE context
      /\ \A q \in Profiles : since'[q] = IF q = s.who THEN {} ELSE since[q] \cup {s.who}
  BY DEF Stores, Follows
<1>3. \A q \in Profiles : s.who \in {q} \cup since'[q]
  BY <1>1, <1>2
<1>4. KeyOf(p) \in Keys /\ \A q \in Profiles : KeyOf(q) \in Keys /\ KeyOf(q)' = KeyOf(q)
  BY Keyed DEF KeyOf
<1>5. cache'[KeyOf(p)] = s
  BY <1>2, <1>4 DEF TypeOK
<1>6. s.who \in Usable(p)'
  BY <1>3 DEF Usable, Cachable, Lends
<1>7. helper.from = "login" => \A k \in Keys : base'[k] = NoSession
  BY DEF InPlace
<1>8. ASSUME NEW q \in Profiles
      PROVE  /\ cache'[KeyOf(q)].who \in {"none"} \cup Cachable(q)'
             /\ base'[KeyOf(q)].who \in {"none"} \cup Cachable(q)'
             /\ helper.ambient => context'.who \in Usable(q)'
  <2>1. helper.ambient => context'.who \in Usable(q)'
    BY <1>2, <1>3 DEF Usable, Lends
  <2>2. CASE ~helper.keyed
    <3>1. KeyOf(q) = KeyOf(p) /\ Cachable(q)' = {q} \cup since'[q]
      BY <2>2 DEF KeyOf, Cachable
    <3>2. cache'[KeyOf(q)].who \in Cachable(q)'
      BY <1>3, <1>5, <3>1
    <3>3. CASE helper.from = "login"
      BY <1>4, <1>7, <2>1, <3>2, <3>3 DEF NoSession
    <3>4. CASE helper.from # "login"
      <4>1. base'[KeyOf(q)].who = s.who
        BY <1>4, <2>2, <3>1, <3>4 DEF TypeOK
      <4> QED BY <1>3, <2>1, <3>1, <3>2, <4>1
    <3> QED BY <3>3, <3>4
  <2>3. CASE helper.keyed
    <3>1. Cachable(q)' = {q} /\ Cachable(q) = {q} /\ s.who = p /\ KeyOf(q) = q /\ KeyOf(p) = p
      BY <2>3 DEF Cachable, KeyOf
    <3>2. cache[q].who \in {"none", q} /\ base[q].who \in {"none", q}
      BY <3>1 DEF InPlace
    <3>3. q \in Keys
      BY <1>4, <3>1
    <3>4. cache'[q].who \in {"none", q}
      BY <1>2, <1>4, <3>1, <3>2, <3>3 DEF TypeOK
    <3>5. base'[q].who \in {"none", q}
      BY <1>4, <3>1, <3>2, <3>3 DEF TypeOK
    <3> QED BY <2>1, <3>1, <3>4, <3>5
  <2> QED BY <2>2, <2>3
<1> QED BY <1>4, <1>6, <1>7, <1>8 DEF InPlace

(* Nothing is in place for another profile than before when entries go. *)
LEMMA EmptiesInPlace ==
    ASSUME InPlace, UNCHANGED <<helper, context, since>>,
           \A k \in Keys : /\ (cache'[k] = cache[k] \/ cache'[k] = NoSession)
                          /\ (base'[k] = base[k] \/ base'[k] = NoSession)
    PROVE  InPlace' /\ \A p \in Profiles : Usable(p)' = Usable(p) /\ Cachable(p)' = Cachable(p)
<1>1. \A p \in Profiles : /\ Usable(p)' = Usable(p) /\ Cachable(p)' = Cachable(p)
                           /\ KeyOf(p)' = KeyOf(p) /\ KeyOf(p) \in Keys
  BY Keyed DEF Usable, Cachable, Lends, KeyOf
<1>2. NoSession.who = "none"
  BY DEF NoSession
<1>3. ASSUME NEW p \in Profiles
      PROVE  /\ cache'[KeyOf(p)'].who \in {"none"} \cup Cachable(p)'
             /\ base'[KeyOf(p)'].who \in {"none"} \cup Cachable(p)'
             /\ helper'.ambient /\ cache'[KeyOf(p)'] # NoSession => context'.who \in Usable(p)'
  <2>1. PICK k \in Keys : k = KeyOf(p)
    BY <1>1
  <2>2. /\ (cache'[k] = cache[k] \/ cache'[k] = NoSession)
        /\ (base'[k] = base[k] \/ base'[k] = NoSession)
    OBVIOUS
  <2>3. /\ cache[k].who \in {"none"} \cup Cachable(p)
        /\ base[k].who \in {"none"} \cup Cachable(p)
        /\ helper.ambient /\ cache[k] # NoSession => context.who \in Usable(p)
    BY <2>1 DEF InPlace
  <2>4. KeyOf(p)' = k /\ Usable(p)' = Usable(p) /\ Cachable(p)' = Cachable(p)
    BY <1>1, <2>1
  <2> QED BY <1>2, <2>2, <2>3, <2>4
<1>4. helper'.from = "login" => \A k \in Keys : base'[k] = NoSession
  BY DEF InPlace
<1>5. InPlace'
  BY <1>3, <1>4 DEF InPlace
<1> QED BY <1>1, <1>5

LEMMA BeginInv ==
    ASSUME SessionsInv, NEW p \in Profiles, Begin(p)
    PROVE  SessionsInv'
<1> USE DEF SessionsInv
<1> DEFINE k == KeyOf(p)
           calm == pillar[p] = secret[p]
           clear == k \in cleared
           c == [pc |-> "idle", p |-> p, again |-> FALSE, with |-> NoSession,
                 token |-> NoSession, result |-> "none", done |-> 0, by |-> "none",
                 calm |-> calm, clear |-> clear]
<1>1. TypeOK'
  BY BeginTypes
<1>2. UNCHANGED <<helper, secret, ended, forgotten, pillar, base, cleared>>
  BY DEF Begin, accountVars
<1>3. k \in Keys
  BY Keyed
<1>4. Takes(c)
  BY DEF Begin
<1>5. c \in Call
  <2>1. calm \in BOOLEAN
    BY Zenon
  <2>2. clear \in BOOLEAN
    OBVIOUS
  <2> HIDE DEF calm, clear
  <2> QED BY <2>1, <2>2, NewCall
<1>6. /\ call'.p = p /\ call'.again = FALSE /\ call'.token = NoSession /\ call'.result = "none"
      /\ call'.done = 0 /\ call'.by = "none"
      /\ call'.calm => pillar[p] = secret[p]
      /\ call'.clear => k \in cleared
  BY <1>4, <1>5, TakesWhat
<1>7. \/ /\ call'.pc = "login" /\ helper.holds = "session"
         /\ call'.with = NoSession /\ UNCHANGED <<cache, context, since>>
      \/ /\ call'.pc = "send" /\ call'.with = Opened(p) /\ helper.holds = "nothing"
         /\ UNCHANGED <<cache, context, since>>
      \/ /\ call'.pc = "send" /\ call'.with = Opened(p) /\ helper.holds = "password"
         /\ Stores(k, Opened(p))
      \/ /\ call'.pc = "send" /\ helper.holds # "nothing"
         /\ call'.with = Stored(k) /\ cache[k] # NoSession
         /\ UNCHANGED <<cache, context, since>>
      \/ /\ call'.pc = "send" /\ helper.from = "cookie"
         /\ call'.with = base[k] /\ call'.with # NoSession
         /\ Stores(k, base[k])
  BY <1>4, <1>5, TakesWhat
<1> HIDE DEF c
<1>8. Opened(p) # NoSession /\ Opened(p).who = p /\ NoSession.who = "none"
  BY OpenedIsASession, OpenedTypes DEF NoSession
<1>9. Underway'
  BY <1>2, <1>6, <1>7, <1>8, UsableWhenCached DEF Underway
<1>10. EffectsAsReported' /\ OneRepetitionSuffices' /\ EmptiedIsFresh'
  BY <1>6 DEF EffectsAsReported, OneRepetitionSuffices, EmptiedIsFresh
<1>11. InPlace' /\ GoesOut'
  <2>1. CASE /\ UNCHANGED <<cache, context, since>>
             /\ call'.pc = "send" => call'.with.who \in Usable(p)
    <3>1. InPlace'
      BY <1>2, <2>1 DEF InPlace, Cachable, Usable, Lends, KeyOf
    <3>2. Usable(p)' = Usable(p)
      BY <1>2, <2>1 DEF Usable, Lends
    <3>3. call'.pc # "exchange"
      BY <1>7
    <3> QED BY <1>6, <2>1, <3>1, <3>2, <3>3 DEF GoesOut
  <2>2. ASSUME NEW s \in Session, Stores(k, s), s.who \in Cachable(p), call'.with = s,
               call'.pc = "send", helper.keyed \/ helper.from = "login"
        PROVE  InPlace' /\ GoesOut'
    BY <1>2, <1>6, <2>2, StoresInPlace DEF GoesOut
  <2>3. p \in Cachable(p) /\ p \in Usable(p)
    BY DEF Cachable, Usable
  <2>4. CASE call'.pc = "login"
    BY <1>7, <2>1, <2>4
  <2>5. CASE call'.with = Opened(p) /\ UNCHANGED <<cache, context, since>>
    BY <1>8, <2>1, <2>3, <2>5
  <2>6. CASE call'.pc = "send" /\ call'.with = Opened(p) /\ helper.holds = "password"
             /\ Stores(k, Opened(p))
    <3>1. helper.from = "login"
      BY <2>6, SessionsAssumption DEF Underway
    <3> QED BY <1>8, <2>2, <2>3, <2>6, <3>1, OpenedTypes
  <2>7. CASE call'.with = Stored(k) /\ cache[k] # NoSession /\ UNCHANGED <<cache, context, since>>
    BY <2>1, <2>7, UsableWhenCached
  <2>8. CASE call'.pc = "send" /\ helper.from = "cookie" /\ call'.with = base[k]
             /\ call'.with # NoSession /\ Stores(k, base[k])
    <3>1. helper.keyed
      BY <2>8, SessionsAssumption DEF Underway
    <3>2. base[k] \in Session
      BY <1>3 DEF TypeOK
    <3>3. base[k].who \in Cachable(p)
      BY <2>8, <3>2, ASessionIsSomeones, SessionsAssumption DEF InPlace
    <3> QED BY <2>2, <2>8, <3>1, <3>2, <3>3
  <2> QED BY <1>7, <2>4, <2>5, <2>6, <2>7, <2>8
<1>12. Renewed'
  <2>1. helper.holds # "session" => helper.from # "cookie"
    BY SessionsAssumption DEF Underway
  <2>2. helper.holds = "nothing" /\ call'.pc = "send" => call'.with = Opened(p)
    BY <1>7, <2>1
  <2>3. helper.holds = "nothing" /\ call'.calm => Accepted(Opened(p))
    BY <1>6 DEF Accepted, Opened
  <2>4. \A s : Accepted(s)' = Accepted(s)
    BY <1>2 DEF Accepted
  <2> QED BY <1>2, <1>6, <2>2, <2>3, <2>4 DEF Renewed, Accepted
<1>13. Fresh'
  <2> SUFFICES ASSUME helper.from # "cookie"
               PROVE  Fresh'
    BY <1>2 DEF Fresh
  <2>1. cleared # {} => pillar[p] = secret[p]
    BY DEF Fresh, RightPasswords
  <2>2. helper.holds # "session" /\ cleared # {} => Accepted(Opened(p))
    BY <2>1 DEF Accepted, Opened
  <2>3. \A j \in cleared : cache'[j] # NoSession => Accepted(cache'[j])
    BY <1>3, <1>7, <2>2 DEF Fresh, TypeOK, Stores
  <2>4. call'.clear /\ call'.pc = "send" => Accepted(call'.with)
    <3>1. ~helper.ambient
      BY SessionsAssumption DEF Underway
    <3> QED BY <1>6, <1>7, <2>2, <3>1 DEF Fresh, Stored
  <2>5. \A s : Accepted(s)' = Accepted(s)
    BY <1>2 DEF Accepted
  <2>6. KeyOf(p)' = KeyOf(p)
    BY <1>2 DEF KeyOf
  <2> QED BY <1>2, <1>6, <1>7, <2>3, <2>4, <2>5, <2>6 DEF Fresh, RightPasswords, Accepted, KeyOf
<1> QED BY <1>1, <1>9, <1>10, <1>11, <1>12, <1>13

(* A call may end with a result that is true, and with a refusal only when *)
(* something disturbed it.                                                 *)
LEMMA FinishesInv ==
    ASSUME SessionsInv, TypeOK',
           UNCHANGED <<helper, accountVars, pillar, cacheVars, cleared>>,
           NEW c \in Call, NEW result \in Outcomes, call' = Finishes(c, result),
           c.p = call.p, c.calm = call.calm, c.clear = call.clear,
           c.done <= 1,
           result = "ok" => c.done = 1,
           result \in {"refused", "login"} =>
               /\ c.done = 0
               /\ Renews(helper) => ~call.calm
               /\ helper.from # "cookie" => ~call.clear
    PROVE  SessionsInv'
<1> USE DEF SessionsInv
<1>1. /\ call'.pc = "idle" /\ call'.p = call.p /\ call'.with = NoSession
      /\ call'.token = NoSession /\ call'.result = result /\ call'.done = c.done
      /\ call'.by = c.by /\ call'.calm = call.calm /\ call'.clear = call.clear
  BY DEF Finishes, Call
<1>2. UNCHANGED <<helper, secret, ended, forgotten, pillar, cache, base, context, since, cleared>>
  BY DEF accountVars, cacheVars
<1>3. Underway' /\ EffectsAsReported'
  BY <1>1, <1>2 DEF Underway, EffectsAsReported
<1>4. OneRepetitionSuffices' /\ EmptiedIsFresh'
  BY <1>1, <1>2 DEF OneRepetitionSuffices, EmptiedIsFresh, Renews
<1>5. InPlace' /\ GoesOut'
  BY <1>1, <1>2 DEF InPlace, GoesOut, Cachable, Usable, Lends, KeyOf
<1>6. Renewed'
  BY <1>1, <1>2 DEF Renewed
<1>7. Fresh'
  BY <1>1, <1>2 DEF Fresh, RightPasswords, Accepted
<1> QED BY <1>3, <1>4, <1>5, <1>6, <1>7

LEMMA LoginInv ==
    ASSUME SessionsInv, Login
    PROVE  SessionsInv'
<1> USE DEF SessionsInv
<1> DEFINE p == call.p
           k == KeyOf(p)
<1>1. TypeOK'
  BY LoginTypes
<1>2. UNCHANGED <<helper, secret, ended, forgotten, pillar, cleared>>
  BY DEF Login, accountVars
<1>3. /\ call \in Call /\ p \in Profiles /\ k \in Keys
      /\ helper.holds = "session" /\ call.pc = "login"
      /\ call.result = "none" /\ call.done = 0 /\ call.by = "none"
  BY Keyed DEF TypeOK, Call, Underway, Login
<1>4. CASE call' = Finishes(call, "lost") /\ UNCHANGED cacheVars
  BY <1>1, <1>2, <1>3, <1>4, FinishesInv DEF Outcomes, Login
<1>5. CASE pillar[p] # secret[p] /\ call' = Finishes(call, "login") /\ UNCHANGED cacheVars
  <2>1. ~call.calm
    BY <1>5 DEF Renewed
  <2>2. helper.from # "cookie" => ~call.clear
    BY <1>3, <1>5 DEF Fresh, RightPasswords
  <2> QED BY <1>1, <1>2, <1>3, <1>5, <2>1, <2>2, FinishesInv DEF Outcomes, Login
<1>6. CASE Welcomed(p)
  <2>1. /\ Opened(p) # NoSession /\ Opened(p).who = p /\ Opened(p) \in Session
        /\ Refreshing(p) # NoSession /\ Refreshing(p).who = p /\ Refreshing(p) \in Session
        /\ NoSession.who = "none"
    BY <1>3, OpenedIsASession, OpenedTypes DEF NoSession
  <2>2. Accepted(Opened(p)) /\ Refreshing(p).born = forgotten[Refreshing(p).who]
    BY <1>3 DEF Accepted, Opened, Refreshing
  <2>3. \A s : Accepted(s)' = Accepted(s)
    BY <1>2 DEF Accepted
  <2>4. /\ call'.p = p /\ call'.result = "none" /\ call'.done = 0 /\ call'.by = "none"
        /\ call'.calm = call.calm /\ call'.clear = call.clear /\ call'.again = call.again
    BY <1>3, <1>6 DEF Welcomed, Sends, Call
  <2>5. \/ /\ helper.from # "refresh" /\ call'.pc = "send" /\ call'.with = Opened(p)
           /\ call'.token = call.token
           /\ Stores(k, Opened(p))
           /\ \/ helper.from = "login" /\ UNCHANGED base
              \/ helper.from = "cookie" /\ base' = [base EXCEPT ![k] = Opened(p)]
        \/ /\ helper.from = "refresh" /\ call'.pc = "exchange" /\ call'.token = Refreshing(p)
           /\ call'.with = call.with /\ UNCHANGED <<cache, base, context, since>>
    <3>1. Sends(call, Opened(p)).pc = "send" /\ Sends(call, Opened(p)).with = Opened(p)
          /\ Sends(call, Opened(p)).token = call.token
      BY <1>3 DEF Sends, Call
    <3>2. LET d == [call EXCEPT !.pc = "exchange", !.token = Refreshing(p)]
          IN d.pc = "exchange" /\ d.token = Refreshing(p) /\ d.with = call.with
      BY <1>3 DEF Call
    <3> QED BY <1>6, <3>1, <3>2 DEF Welcomed
  <2>6. Underway'
    BY <1>2, <2>1, <2>4, <2>5 DEF Underway
  <2>7. EffectsAsReported' /\ OneRepetitionSuffices' /\ EmptiedIsFresh'
    BY <2>4 DEF EffectsAsReported, OneRepetitionSuffices, EmptiedIsFresh
  <2>8. InPlace' /\ GoesOut'
    <3>1. p \in Cachable(p)
      BY DEF Cachable
    <3>2. CASE UNCHANGED <<cache, base, context, since>> /\ call'.pc = "exchange"
               /\ call'.token = Refreshing(p)
      BY <1>2, <2>1, <2>4, <3>1, <3>2 DEF InPlace, GoesOut, Cachable, Usable, Lends, KeyOf
    <3>3. CASE /\ call'.pc = "send" /\ call'.with = Opened(p) /\ Stores(k, Opened(p))
               /\ \/ helper.from = "login" /\ UNCHANGED base
                  \/ helper.from = "cookie" /\ base' = [base EXCEPT ![k] = Opened(p)]
      BY <1>2, <1>3, <2>1, <2>4, <3>1, <3>3, StoresInPlace DEF GoesOut
    <3> QED BY <2>5, <3>2, <3>3
  <2>9. Renewed'
    <3>1. call'.pc = "send" => Accepted(call'.with)
      BY <2>2, <2>5
    <3> QED BY <1>2, <2>3, <2>4, <3>1 DEF Renewed, Accepted
  <2>10. Fresh'
    <3> SUFFICES ASSUME helper.from # "cookie"
                 PROVE  Fresh'
      BY <1>2 DEF Fresh
    <3>1. \A j \in cleared : cache'[j] # NoSession => Accepted(cache'[j])
      BY <1>3, <2>2, <2>5 DEF Fresh, TypeOK, Stores
    <3>2. UNCHANGED base
      BY <2>5
    <3>3. k' = k
      BY <1>2, <2>4 DEF KeyOf
    <3>4. call'.clear /\ call'.pc = "send" => Accepted(call'.with)
      BY <2>2, <2>5
    <3>5. call'.clear /\ call'.pc = "exchange"
            => call'.token.born = forgotten'[call'.token.who]
      BY <1>2, <2>2, <2>5
    <3>6. call'.clear => k \in cleared
      BY <1>3, <2>4 DEF Fresh
    <3> QED BY <1>2, <2>3, <2>4, <3>1, <3>2, <3>3, <3>4, <3>5, <3>6
            DEF Fresh, RightPasswords, Accepted, KeyOf
  <2> QED BY <1>1, <2>6, <2>7, <2>8, <2>9, <2>10
<1> QED BY <1>4, <1>5, <1>6 DEF Login

LEMMA ExchangeInv ==
    ASSUME SessionsInv, Exchange
    PROVE  SessionsInv'
<1> USE DEF SessionsInv
<1> DEFINE p == call.p
           k == KeyOf(p)
           t == call.token
<1>1. TypeOK'
  BY ExchangeTypes
<1>2. UNCHANGED <<helper, secret, ended, forgotten, pillar, cleared>>
  BY DEF Exchange, accountVars
<1>3. /\ call \in Call /\ p \in Profiles /\ k \in Keys
      /\ call.pc = "exchange" /\ t # NoSession
      /\ call.result = "none" /\ call.done = 0 /\ call.by = "none"
  BY Keyed DEF TypeOK, Call, Underway, Exchange
<1>4. helper.from = "refresh" /\ helper.onRefusal = "exchange" /\ helper.holds = "session"
  BY SessionsAssumption, <1>3 DEF Underway, Helper
<1>5. ~Renews(helper)
  BY <1>4 DEF Renews
<1>6. CASE call' = Finishes(call, "lost") /\ UNCHANGED cacheVars
  BY <1>1, <1>2, <1>3, <1>6, FinishesInv DEF Outcomes, Exchange
<1>7. CASE t.born # forgotten[t.who] /\ call' = Finishes(call, "refused") /\ UNCHANGED cacheVars
  <2>1. ~call.clear
    BY <1>3, <1>4, <1>7 DEF Fresh
  <2> QED BY <1>1, <1>2, <1>3, <1>5, <1>7, <2>1, FinishesInv DEF Outcomes, Exchange
<1>8. CASE /\ t.born = forgotten[t.who]
           /\ Stores(k, Exchanged)
           /\ base' = [base EXCEPT ![k] = t]
           /\ call' = [Sends(call, Exchanged) EXCEPT !.token = NoSession]
  <2>1. /\ t \in Session /\ Exchanged \in Session /\ Exchanged # NoSession
        /\ Exchanged.who = t.who /\ Accepted(Exchanged)
    BY <1>3, <1>4, ExchangedTypes DEF Accepted
  <2>2. /\ call'.p = p /\ call'.result = "none" /\ call'.done = 0 /\ call'.by = "none"
        /\ call'.calm = call.calm /\ call'.clear = call.clear
        /\ call'.pc = "send" /\ call'.with = Exchanged /\ call'.token = NoSession
    BY <1>3, <1>8 DEF Sends, Call
  <2>3. \A s : Accepted(s)' = Accepted(s)
    BY <1>2 DEF Accepted
  <2>4. Underway'
    BY <1>2, <2>1, <2>2 DEF Underway
  <2>5. EffectsAsReported' /\ OneRepetitionSuffices' /\ EmptiedIsFresh'
    BY <2>2 DEF EffectsAsReported, OneRepetitionSuffices, EmptiedIsFresh
  <2>6. InPlace' /\ GoesOut'
    <3>1. Exchanged.who \in Cachable(p)
      BY <1>3, <2>1 DEF GoesOut
    <3> QED BY <1>2, <1>3, <1>4, <1>8, <2>1, <2>2, <3>1, StoresInPlace DEF GoesOut
  <2>7. Renewed'
    BY <1>2, <2>1, <2>2, <2>3 DEF Renewed, Accepted
  <2>8. Fresh'
    <3>1. \A j \in cleared : cache'[j] # NoSession => Accepted(cache'[j])
      BY <1>3, <1>4, <1>8, <2>1 DEF Fresh, TypeOK, Stores
    <3>2. \A j \in cleared : base'[j] # NoSession => base'[j].born = forgotten[base'[j].who]
      BY <1>3, <1>4, <1>8 DEF Fresh, TypeOK
    <3>3. k' = k
      BY <1>2, <2>2 DEF KeyOf
    <3>4. call'.clear => k \in cleared
      BY <1>3, <1>4, <2>2 DEF Fresh
    <3>5. cleared # {} => RightPasswords
      BY <1>4 DEF Fresh
    <3> QED BY <1>2, <2>1, <2>2, <2>3, <3>1, <3>2, <3>3, <3>4, <3>5
            DEF Fresh, RightPasswords, Accepted, KeyOf
  <2> QED BY <1>1, <2>4, <2>5, <2>6, <2>7, <2>8
<1> QED BY <1>6, <1>7, <1>8 DEF Exchange, Exchanged

LEMMA SendInv ==
    ASSUME SessionsInv, Send
    PROVE  SessionsInv'
<1> USE DEF SessionsInv
<1> DEFINE p == call.p
           k == KeyOf(p)
           d == [call EXCEPT !.done = @ + 1, !.by = call.with.who]
           c == [call EXCEPT !.again = TRUE]
<1>1. TypeOK'
  BY SendTypes
<1>2. UNCHANGED <<helper, secret, ended, forgotten, pillar, cleared>>
  BY DEF Send, accountVars
<1>3. /\ call \in Call /\ p \in Profiles /\ k \in Keys
      /\ call.pc = "send" /\ call.with # NoSession
      /\ call.result = "none" /\ call.done = 0 /\ call.by = "none"
  BY Keyed DEF TypeOK, Call, Underway, Send
<1>4. CASE call' = Finishes(call, "lost") /\ UNCHANGED cacheVars
  BY <1>1, <1>2, <1>3, <1>4, FinishesInv DEF Outcomes, Send
<1>5. CASE (call' = Finishes(d, "ok") \/ call' = Finishes(d, "lost")) /\ UNCHANGED cacheVars
  <2>1. call.with.who \in Profiles
    BY <1>3 DEF Call, Session
  <2>2. d.done = 1 /\ d.by = call.with.who /\ d.p = p /\ d.calm = call.calm
        /\ d.clear = call.clear
    BY <1>3 DEF Call
  <2>3. d \in Call
    <3>1. \A n \in Nat, w \in Profiles : [call EXCEPT !.done = n, !.by = w] \in Call
      BY <1>3 DEF Call
    <3>2. call.done + 1 \in Nat
      BY <1>3
    <3> QED BY <2>1, <3>1, <3>2
  <2> HIDE DEF d
  <2> QED BY <1>1, <1>2, <1>5, <2>2, <2>3, FinishesInv DEF Outcomes, Send
<1>6. CASE ~Accepted(call.with) /\ GivesUp /\ call' = Finishes(call, "refused")
           /\ UNCHANGED cacheVars
  <2>1. Renews(helper) => ~call.calm
    <3> SUFFICES ASSUME Renews(helper), call.calm
                 PROVE  FALSE
      OBVIOUS
    <3>1. call.again \/ helper.holds = "nothing"
      BY <1>6 DEF GivesUp, Renews
    <3> QED BY <1>3, <1>6, <3>1 DEF Renewed
  <2>2. helper.from # "cookie" => ~call.clear
    BY <1>3, <1>6 DEF Fresh
  <2> QED BY <1>1, <1>2, <1>3, <1>6, <2>1, <2>2, FinishesInv DEF Outcomes, Send
<1>7. ASSUME ~Accepted(call.with), helper.from # "cookie"
      PROVE  ~call.clear
  BY <1>3, <1>7 DEF Fresh
<1>8. /\ c.p = p /\ c.result = "none" /\ c.done = 0 /\ c.by = "none"
      /\ c.calm = call.calm /\ c.clear = call.clear /\ c.with = call.with
      /\ c.token = call.token
  BY <1>3 DEF Call
<1>9. CASE /\ ~Accepted(call.with) /\ helper.onRefusal = "login"
           /\ call' = [c EXCEPT !.pc = "login"]
           /\ cache' = [cache EXCEPT ![k] = NoSession] /\ UNCHANGED <<base, old, context, since>>
  <2>1. helper.holds = "session" /\ helper.from # "cookie"
    BY <1>9, SessionsAssumption DEF Underway, Helper
  <2>2. /\ call'.pc = "login" /\ call'.p = p /\ call'.result = "none" /\ call'.done = 0
        /\ call'.by = "none" /\ call'.calm = call.calm /\ call'.clear = call.clear
        /\ call'.with = call.with /\ call'.token = call.token
    BY <1>3, <1>9 DEF Call
  <2>3. Underway' /\ EffectsAsReported' /\ OneRepetitionSuffices' /\ EmptiedIsFresh'
    BY <1>2, <2>1, <2>2
       DEF Underway, EffectsAsReported, OneRepetitionSuffices, EmptiedIsFresh
  <2>4. InPlace' /\ GoesOut'
    <3>1. \A j \in Keys : cache'[j] = cache[j] \/ cache'[j] = NoSession
      BY <1>3, <1>9 DEF TypeOK
    <3> QED BY <1>2, <1>9, <2>2, <3>1, EmptiesInPlace DEF GoesOut
  <2>5. Renewed'
    BY <1>2, <2>2 DEF Renewed
  <2>6. Fresh'
    <3>1. ~call'.clear
      BY <1>7, <1>9, <2>1, <2>2
    <3>2. \A j \in cleared : cache'[j] # NoSession => cache[j] = cache'[j]
      BY <1>3, <1>9 DEF TypeOK
    <3> QED BY <1>2, <1>9, <3>1, <3>2 DEF Fresh, RightPasswords, Accepted
  <2> QED BY <1>1, <2>3, <2>4, <2>5, <2>6
<1>10. CASE /\ ~Accepted(call.with) /\ helper.onRefusal = "exchange"
            /\ base[KeyOf(p)] # NoSession
            /\ call' = [c EXCEPT !.pc = "exchange", !.token = base[KeyOf(p)]]
            /\ UNCHANGED cacheVars
  <2>1. helper.from = "refresh" /\ ~Renews(helper)
    BY <1>10, SessionsAssumption DEF Underway, Renews
  <2>2. /\ call'.pc = "exchange" /\ call'.p = p /\ call'.result = "none" /\ call'.done = 0
        /\ call'.by = "none" /\ call'.calm = call.calm /\ call'.clear = call.clear
        /\ call'.with = call.with /\ call'.token = base[KeyOf(p)]
    BY <1>3, <1>10 DEF Call
  <2>3. Underway' /\ EffectsAsReported' /\ OneRepetitionSuffices' /\ EmptiedIsFresh'
    BY <1>2, <1>10, <2>1, <2>2
       DEF Underway, EffectsAsReported, OneRepetitionSuffices, EmptiedIsFresh
  <2>4. InPlace' /\ GoesOut'
    <3>1. base[k].who \in Cachable(p)
      <4>1. base[k] \in Session
        BY <1>3 DEF TypeOK
      <4> QED BY <1>3, <1>10, <4>1, ASessionIsSomeones, SessionsAssumption DEF InPlace
    <3> QED BY <1>2, <1>10, <2>2, <3>1
            DEF InPlace, GoesOut, Cachable, Usable, Lends, KeyOf, cacheVars
  <2>5. Renewed'
    BY <1>2, <2>2 DEF Renewed
  <2>6. Fresh'
    <3>1. ~call'.clear
      BY <1>7, <1>10, <2>1, <2>2
    <3> QED BY <1>2, <1>10, <3>1 DEF Fresh, RightPasswords, Accepted, cacheVars
  <2> QED BY <1>1, <2>3, <2>4, <2>5, <2>6
<1> QED
  <2>1. CASE TakesEffect /\ UNCHANGED cacheVars
    BY <1>5, <2>1 DEF TakesEffect
  <2>2. CASE ~Accepted(call.with) /\ Refused
    <3>1. CASE helper.onRefusal = "login" /\ call' = [c EXCEPT !.pc = "login"]
               /\ cache' = [cache EXCEPT ![KeyOf(c.p)] = NoSession] /\ UNCHANGED <<base, old, context, since>>
      BY <1>8, <1>9, <2>2, <3>1
    <3>2. CASE helper.onRefusal = "exchange" /\ base[KeyOf(c.p)] # NoSession
               /\ call' = [c EXCEPT !.pc = "exchange", !.token = base[KeyOf(c.p)]]
               /\ UNCHANGED cacheVars
      BY <1>8, <1>10, <2>2, <3>2
    <3>3. CASE GivesUp /\ call' = Finishes(call, "refused") /\ UNCHANGED cacheVars
      BY <1>6, <2>2, <3>3
    <3> QED BY <2>2, <3>1, <3>2, <3>3 DEF Refused
  <2> QED BY <1>4, <2>1, <2>2 DEF Send

(* Something ends or changes: what is under way is neither calm nor clear. *)
LEMMA DisturbedInv ==
    ASSUME SessionsInv, TypeOK', Disturbs, UNCHANGED <<helper, cache, context, since>>,
           UNCHANGED base \/ \E p \in Profiles : base' = [base EXCEPT ![KeyOf(p)] = NoSession]
    PROVE  SessionsInv'
<1> USE DEF SessionsInv
<1>1. /\ call'.pc = call.pc /\ call'.p = call.p /\ call'.again = call.again
      /\ call'.with = call.with /\ call'.token = call.token /\ call'.result = call.result
      /\ call'.done = call.done /\ call'.by = call.by
      /\ ~call'.calm /\ ~call'.clear
  BY DEF Disturbs, TypeOK, Call
<1>2. cleared' = {}
  BY DEF Disturbs
<1>3. Underway' /\ EffectsAsReported'
  BY <1>1 DEF Underway, EffectsAsReported
<1>4. OneRepetitionSuffices' /\ EmptiedIsFresh' /\ Renewed'
  BY <1>1 DEF OneRepetitionSuffices, EmptiedIsFresh, Renewed
<1>5. InPlace' /\ GoesOut'
  <2>1. \A k \in Keys : base'[k] = base[k] \/ base'[k] = NoSession
    BY Keyed DEF TypeOK
  <2>2. call.p \in Profiles
    BY DEF TypeOK, Call
  <2> QED BY <1>1, <2>1, <2>2, EmptiesInPlace DEF GoesOut
<1>6. Fresh'
  BY <1>1, <1>2 DEF Fresh
<1> QED BY <1>3, <1>4, <1>5, <1>6

LEMMA OthersInv ==
    ASSUME SessionsInv,
           Age \/ Restart
             \/ \E p \in Profiles : End(p) \/ Rotate(p) \/ Follow(p) \/ Invalidate(p) \/ Logout(p)
    PROVE  SessionsInv'
<1> USE DEF SessionsInv
<1>1. TypeOK'
  BY OthersTypes
<1>2. CASE Age
  <2>1. UNCHANGED <<helper, secret, ended, forgotten, pillar, cache, base, context, since, call,
                    cleared>>
    BY <1>2 DEF Age, accountVars
  <2>2. InPlace' /\ Usable(call.p)' = Usable(call.p) /\ Cachable(call.p)' = Cachable(call.p)
    <3>1. call.p \in Profiles
      BY DEF TypeOK, Call
    <3> QED BY <2>1, <3>1, EmptiesInPlace
  <2>3. GoesOut'
    BY <2>1, <2>2 DEF GoesOut
  <2> QED BY <1>1, <2>1, <2>2, <2>3
        DEF Underway, Renewed, Fresh, EffectsAsReported,
            OneRepetitionSuffices, EmptiedIsFresh, Renews, Accepted, RightPasswords, KeyOf
<1>3. CASE Restart
  <2>1. /\ UNCHANGED <<helper, secret, ended, forgotten, pillar>>
        /\ cache' = [k \in Keys |-> NoSession] /\ base' = [k \in Keys |-> NoSession]
        /\ context' = NoSession
        /\ cleared' # {} => RightPasswords
        /\ cleared' \subseteq Keys
    BY <1>1, <1>3 DEF Restart, accountVars, TypeOK
  <2>2. /\ call'.pc = "idle" /\ call'.p = call.p /\ call'.by = call.by
        /\ call'.done = call.done /\ call'.calm = call.calm /\ call'.clear = call.clear
        /\ \/ UNCHANGED call
           \/ call.pc # "idle" /\ call'.result = "lost" /\ call'.with = NoSession
              /\ call'.token = NoSession
    <3>1. CASE UNCHANGED call /\ call.pc = "idle"
      BY <3>1
    <3>2. CASE call.pc # "idle" /\ call' = Finishes(call, "lost")
      BY <3>2 DEF Finishes, TypeOK, Call
    <3> QED BY <1>3, <3>1, <3>2 DEF Restart
  <2>3. Underway' /\ EffectsAsReported'
    BY <2>1, <2>2 DEF Underway, EffectsAsReported
  <2>4. OneRepetitionSuffices' /\ EmptiedIsFresh' /\ Renewed'
    BY <2>1, <2>2 DEF OneRepetitionSuffices, EmptiedIsFresh, Renewed, Renews
  <2>5. InPlace' /\ GoesOut'
    BY <2>1, <2>2, Keyed DEF InPlace, GoesOut, KeyOf, NoSession
  <2>6. Fresh'
    BY <2>1, <2>2 DEF Fresh, RightPasswords
  <2> QED BY <1>1, <2>3, <2>4, <2>5, <2>6
<1>4. ASSUME NEW p \in Profiles, End(p) \/ Rotate(p) \/ Logout(p)
      PROVE  SessionsInv'
  <2>1. Disturbs /\ UNCHANGED <<helper, cache, context, since>>
    BY <1>4 DEF End, Rotate, Logout, cacheVars
  <2>2. UNCHANGED base \/ base' = [base EXCEPT ![KeyOf(p)] = NoSession]
    BY <1>4 DEF End, Rotate, Logout, cacheVars
  <2> QED BY <1>1, <2>1, <2>2, DisturbedInv
<1>5. ASSUME NEW p \in Profiles, Follow(p)
      PROVE  SessionsInv'
  <2>1. /\ UNCHANGED <<helper, secret, ended, forgotten, cache, base, context, since, call>>
        /\ cleared' = {} /\ call.pc = "idle"
        /\ pillar' = [pillar EXCEPT ![p] = secret[p]]
    BY <1>5 DEF Follow, accountVars, cacheVars
  <2>2. Underway' /\ EffectsAsReported' /\ InPlace' /\ GoesOut'
    BY <2>1 DEF Underway, EffectsAsReported, InPlace, GoesOut, Cachable, Usable, Lends, KeyOf
  <2>3. OneRepetitionSuffices' /\ EmptiedIsFresh'
    BY <2>1 DEF OneRepetitionSuffices, EmptiedIsFresh, Renews
  <2>4. Renewed'
    BY <2>1 DEF Renewed, TypeOK, Call
  <2>5. Fresh'
    BY <2>1 DEF Fresh
  <2> QED BY <1>1, <2>2, <2>3, <2>4, <2>5
<1>6. ASSUME NEW p \in Profiles, Invalidate(p)
      PROVE  SessionsInv'
  <2>1. /\ UNCHANGED <<helper, secret, ended, forgotten, pillar, context, call>>
        /\ call.pc = "idle" /\ since' = [since EXCEPT ![p] = {}]
        /\ cache' = [cache EXCEPT ![KeyOf(p)] = NoSession]
        /\ \/ helper.from = "refresh" /\ base' = [base EXCEPT ![KeyOf(p)] = NoSession]
           \/ helper.from # "refresh" /\ UNCHANGED base
        /\ \/ UNCHANGED cleared
           \/ RightPasswords /\ cleared' = cleared \cup {KeyOf(p)}
    BY <1>6 DEF Invalidate, accountVars
  <2>2. KeyOf(p) \in Keys
    BY Keyed
  <2>3. Underway' /\ EffectsAsReported'
    BY <2>1 DEF Underway, EffectsAsReported
  <2>4. OneRepetitionSuffices' /\ EmptiedIsFresh' /\ Renewed'
    BY <2>1 DEF OneRepetitionSuffices, EmptiedIsFresh, Renewed, Renews
  <2>5. InPlace' /\ GoesOut'
    <3>1. \A k \in Keys : /\ (cache'[k] = cache[k] \/ cache'[k] = NoSession)
                          /\ (base'[k] = base[k] \/ base'[k] = NoSession)
      BY <2>1, <2>2 DEF TypeOK
    <3>2. cache'[KeyOf(p)] = NoSession
      BY <2>1, <2>2 DEF TypeOK
    <3>3. base'[KeyOf(p)].who \in {"none", p}
      <4>1. CASE helper.from = "refresh"
        BY <2>1, <2>2, <4>1 DEF TypeOK, NoSession
      <4>2. CASE helper.from = "login"
        BY <2>1, <2>2, <4>2 DEF InPlace, NoSession
      <4>3. CASE helper.from = "cookie"
        <5>1. helper.keyed
          BY <4>3, SessionsAssumption DEF Underway
        <5> QED BY <2>1, <4>3, <5>1 DEF InPlace, Cachable
      <4> QED BY <4>1, <4>2, <4>3 DEF TypeOK, Helper
    <3>4. ASSUME NEW q \in Profiles
          PROVE  /\ cache'[KeyOf(q)].who \in {"none"} \cup Cachable(q)'
                 /\ base'[KeyOf(q)].who \in {"none"} \cup Cachable(q)'
                 /\ helper.ambient /\ cache'[KeyOf(q)] # NoSession => context.who \in Usable(q)'
      <4>1. CASE q = p
        <5>1. p \in Cachable(p)'
          BY DEF Cachable
        <5> QED BY <3>2, <3>3, <4>1, <5>1 DEF NoSession
      <4>2. CASE q # p
        <5>1. since'[q] = since[q]
          BY <2>1, <4>2 DEF TypeOK
        <5>2. Cachable(q)' = Cachable(q) /\ Usable(q)' = Usable(q) /\ KeyOf(q) \in Keys
          BY <2>1, <5>1, Keyed DEF Cachable, Usable, Lends
        <5> QED BY <3>1, <5>2 DEF InPlace, NoSession
      <4> QED BY <4>1, <4>2
    <3>5. InPlace'
      BY <2>1, <3>1, <3>4 DEF InPlace, KeyOf
    <3> QED BY <2>1, <3>5 DEF GoesOut
  <2>6. Fresh'
    <3> SUFFICES ASSUME helper.from # "cookie"
                 PROVE  Fresh'
      BY <2>1 DEF Fresh
    <3>1. cache'[KeyOf(p)] = NoSession
      BY <2>1, <2>2 DEF TypeOK
    <3>2. helper.from = "refresh" => base'[KeyOf(p)] = NoSession
      BY <2>1, <2>2 DEF TypeOK, KeyOf
    <3>3. \A k \in Keys : /\ (cache'[k] = cache[k] \/ cache'[k] = NoSession)
                          /\ (base'[k] = base[k] \/ base'[k] = NoSession)
      BY <2>1, <2>2 DEF TypeOK
    <3>4. cleared' # {} => RightPasswords
      BY <2>1 DEF Fresh
    <3>5. \A k \in cleared' :
             /\ cache'[k] # NoSession => Accepted(cache'[k])
             /\ helper.from = "refresh" /\ base'[k] # NoSession
                  => base'[k].born = forgotten[base'[k].who]
      <4> SUFFICES ASSUME NEW k \in cleared'
                   PROVE  /\ cache'[k] # NoSession => Accepted(cache'[k])
                          /\ helper.from = "refresh" /\ base'[k] # NoSession
                               => base'[k].born = forgotten[base'[k].who]
        OBVIOUS
      <4>1. CASE k = KeyOf(p)
        BY <3>1, <3>2, <4>1
      <4>2. CASE k # KeyOf(p)
        <5>1. k \in cleared /\ k \in Keys
          BY <2>1, <4>2 DEF TypeOK
        <5> QED BY <3>3, <5>1 DEF Fresh
      <4> QED BY <4>1, <4>2
    <3> QED BY <2>1, <3>4, <3>5 DEF Fresh, RightPasswords, Accepted
  <2> QED BY <1>1, <2>3, <2>4, <2>5, <2>6
<1> QED BY <1>2, <1>3, <1>4, <1>5, <1>6

LEMMA StepInv == SessionsInv /\ [Next]_vars => SessionsInv'
<1> SUFFICES ASSUME SessionsInv, [Next]_vars
             PROVE  SessionsInv'
  OBVIOUS
<1>1. ASSUME NEW p \in Profiles, Begin(p)
      PROVE  SessionsInv'
  BY <1>1, BeginInv
<1>2. CASE Login
  BY <1>2, LoginInv
<1>3. CASE Exchange
  BY <1>3, ExchangeInv
<1>4. CASE Send
  BY <1>4, SendInv
<1>5. CASE Age \/ Restart
  BY <1>5, OthersInv
<1>6. ASSUME NEW p \in Profiles,
             End(p) \/ Rotate(p) \/ Follow(p) \/ Invalidate(p) \/ Logout(p)
      PROVE  SessionsInv'
  BY <1>6, OthersInv
<1>7. CASE UNCHANGED vars
  <2>1. UNCHANGED <<helper, cache, base, context, since, call>>
    BY <1>7 DEF vars, cacheVars
  <2>2. InPlace' /\ Usable(call.p)' = Usable(call.p) /\ Cachable(call.p)' = Cachable(call.p)
    <3>1. InPlace /\ call.p \in Profiles
      BY DEF SessionsInv, TypeOK, Call
    <3> QED BY <2>1, <3>1, EmptiesInPlace
  <2>3. GoesOut'
    BY <2>1, <2>2 DEF SessionsInv, GoesOut
  <2> QED BY <1>7, <2>2, <2>3 DEF vars, accountVars, cacheVars, boundVars, SessionsInv, TypeOK, Underway,
              Renewed, Fresh, EffectsAsReported, OneRepetitionSuffices,
              EmptiedIsFresh, Renews, Accepted, RightPasswords, KeyOf
<1> QED BY <1>1, <1>2, <1>3, <1>4, <1>5, <1>6, <1>7 DEF Next

(* What the properties rest on holds in every state. *)
THEOREM Invariance == Spec => []SessionsInv
BY InitInv, StepInv, PTL DEF Spec

(* The types hold for any helpers, any number of profiles, faults, ended   *)
(* sessions and changed passwords.                                         *)
THEOREM TypeCorrect == Spec => []TypeOK
<1>1. SessionsInv => TypeOK
  BY DEF SessionsInv
<1> QED BY <1>1, Invariance, PTL

(* _request of utils/installer.py, vrni.py, vrli.py and vcfa.py sends a    *)
(* request a second time only when the first was refused: whatever gets    *)
(* lost, it takes effect once at most and the report says whether it did.  *)
THEOREM RequestsCountOnce == Spec => []EffectsAsReported
<1>1. SessionsInv => EffectsAsReported
  BY DEF SessionsInv
<1> QED BY <1>1, Invariance, PTL

(* Send is the only step that counts, and it goes out with what GoesOut says. *)
LEMMA StepOthers ==
    SessionsInv /\ [Next]_vars
      => [call'.done > call.done /\ call'.by # call'.p
            => Lends(helper) /\ call'.by \in since[call'.p]]_vars
<1> SUFFICES ASSUME SessionsInv, Next, call'.done > call.done, call'.by # call'.p
             PROVE  Lends(helper) /\ call'.by \in since[call'.p]
  BY DEF SessionsInv
<1> USE DEF SessionsInv
<1>1. call \in Call /\ call.done \in Nat
  BY DEF TypeOK, Call
<1>2. CASE Send
  <2>1. \/ call'.done = call.done
        \/ call'.p = call.p /\ call'.by = call.with.who
    BY <1>1, <1>2 DEF Send, TakesEffect, Refused, Sends, Finishes, Call
  <2>2. call'.p = call.p /\ call'.by = call.with.who
    BY <1>1, <2>1
  <2>3. call.with.who \in Usable(call.p)
    BY <1>2 DEF Send, GoesOut
  <2> QED BY <2>2, <2>3 DEF Usable
<1>3. CASE Login \/ Exchange
  <2>1. call'.done = call.done
    <3>1. CASE Login
      BY <1>1, <3>1 DEF Login, Welcomed, Sends, Finishes, Call
    <3>2. CASE Exchange
      <4> DEFINE s == [call.token EXCEPT !.born = ended[call.token.who]]
      <4>1. \/ call' = [Sends(call, s) EXCEPT !.token = NoSession]
            \/ call' = Finishes(call, "refused")
            \/ call' = Finishes(call, "lost")
        BY <3>2 DEF Exchange
      <4> HIDE DEF s
      <4> QED BY <1>1, <4>1 DEF Sends, Finishes, Call
    <3> QED BY <1>3, <3>1, <3>2
  <2> QED BY <1>1, <2>1
<1>4. ASSUME NEW p \in Profiles, Begin(p)
      PROVE  FALSE
  <2>1. call'.done = 0
    <3> DEFINE calm == pillar[p] = secret[p]
               clear == KeyOf(p) \in cleared
               c == [pc |-> "idle", p |-> p, again |-> FALSE, with |-> NoSession,
                     token |-> NoSession, result |-> "none", done |-> 0, by |-> "none",
                     calm |-> calm, clear |-> clear]
    <3>1. calm \in BOOLEAN
      BY Zenon
    <3>2. clear \in BOOLEAN
      OBVIOUS
    <3>3. c \in Call
      <4> HIDE DEF calm, clear
      <4> QED BY <3>1, <3>2, NewCall
    <3>4. Takes(c)
      BY <1>4 DEF Begin
    <3> QED BY <3>3, <3>4, TakesWhat
  <2> QED BY <1>1, <2>1
<1>5. CASE Age \/ Restart
           \/ \E p \in Profiles : End(p) \/ Rotate(p) \/ Follow(p) \/ Invalidate(p) \/ Logout(p)
  <2>1. CASE Disturbs
    BY <1>1, <2>1 DEF Disturbs, Call
  <2>2. CASE UNCHANGED call \/ call' = Finishes(call, "lost")
    <3>1. call'.done = call.done
      BY <1>1, <2>2 DEF Finishes, Call
    <3> QED BY <1>1, <3>1
  <2> QED BY <1>5, <2>1, <2>2 DEF Age, Restart, End, Rotate, Follow, Invalidate, Logout
<1> QED BY <1>2, <1>3, <1>4, <1>5 DEF Next

(* A request takes effect under the account its profile names, or, with a  *)
(* helper whose key leaves out part of the account (utils/vcfops.py and    *)
(* six others) or whose session is the thread's (utils/pbm.py), under that *)
(* of a profile whose session was put in place after the caller last       *)
(* opened one or emptied its cache; never otherwise.                       *)
THEOREM AccountsMeetOnlySince == Spec => OthersOnlyAfterThem
<1>1. [Next]_vars /\ SessionsInv
        => [call'.done > call.done /\ call'.by # call'.p
              => Lends(helper) /\ call'.by \in since[call'.p]]_vars
  BY StepOthers
<1> QED BY <1>1, Invariance, PTL DEF Spec, OthersOnlyAfterThem

(* A helper that logs in again on a 401 (utils/installer.py and vrni.py)   *)
(* fails only a call in the middle of which something ended or changed.    *)
THEOREM OneRepetitionIsEnough == Spec => []OneRepetitionSuffices
<1>1. SessionsInv => OneRepetitionSuffices
  BY DEF SessionsInv
<1> QED BY <1>1, Invariance, PTL

(* After invalidate_session, invalidate_token and the like no call is      *)
(* refused until something ends again, except for the copied cookies of    *)
(* utils/vsan.py and pbm.py.                                               *)
THEOREM EmptyingHelps == Spec => []EmptiedIsFresh
<1>1. SessionsInv => EmptiedIsFresh
  BY DEF SessionsInv
<1> QED BY <1>1, Invariance, PTL
===============================================================================
