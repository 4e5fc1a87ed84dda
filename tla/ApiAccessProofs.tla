--------------------------- MODULE ApiAccessProofs ---------------------------
(***************************************************************************)
(* Theorems about ApiAccess, for every set of tokens, every number of      *)
(* calls, every window, limit and retention age that satisfies             *)
(* ApiConstants.                                                           *)
(***************************************************************************)
EXTENDS ApiAccess, FiniteSetTheorems, TLAPS

(* A call waits at most MaxWait, was made in the past, and an event that   *)
(* retention deleted is older than any call still waiting can look back.   *)
Timely ==
    \A c \in Calls :
      /\ call[c].at <= now
      /\ Asked(c) => now <= call[c].at + MaxWait
      /\ Granted(c) /\ c \notin events => call[c].at < now - AuditAge

(* A granted call has left the stages before the grant, and only granted   *)
(* calls are answered.                                                     *)
StageInv ==
    \A c \in Calls :
      /\ call[c].stage \in {"new", "asked"} => ~Granted(c)
      /\ call[c].stage \in {"authorized", "answered"} => Granted(c)

(* A revocation that was saved stays, and tokens are granted calls only    *)
(* once they were issued.                                                  *)
TokenInv ==
    /\ \A t \in Tokens :
         closed[t] # Null =>
             /\ token[t].presence \in {"live", "purged"}
             /\ token[t].presence = "live" => token[t].revoked # Null
    /\ \A c \in Calls : Granted(c) => token[call[c].token].presence # "unused"
    /\ \A r \in revoking : token[r.token].presence # "unused"

Inv == TypeOK /\ Timely /\ StageInv /\ TokenInv

-----------------------------------------------------------------------------
LEMMA InitInv == Init => Inv
<1> SUFFICES ASSUME Init PROVE Inv
  OBVIOUS
<1>1. /\ 0 \in Time /\ MaxWait \in Nat /\ now = 0
  BY ApiConstants DEF Time, Init
<1>2. /\ call \in [Calls -> [stage : Stages, token : Tokens, at : Time,
                             granted : BOOLEAN]]
      /\ \A c \in Calls : /\ call[c].stage = "new" /\ call[c].at = 0
                          /\ call[c].granted = FALSE
  BY <1>1 DEF Init, Stages
<1>3. token \in [Tokens -> Row] /\ closed \in [Tokens -> Time \union {Null}]
  BY DEF Init, Row
<1>4. TypeOK
  BY <1>1, <1>2, <1>3 DEF Init, TypeOK
<1>5. Timely /\ StageInv
  BY <1>1, <1>2 DEF Timely, StageInv, Granted, Asked
<1>6. TokenInv
  BY <1>2 DEF Init, TokenInv, Granted
<1>7. QED
  BY <1>4, <1>5, <1>6 DEF Inv

(* What a change of one call's stage leaves alone. *)
LEMMA RefuseInv ==
  ASSUME Inv, NEW c \in Calls, NEW s \in Stages, Refuse(c, s),
         s \notin {"new", "asked", "authorized"},
         s = "answered" => call[c].stage = "authorized"
  PROVE  Inv'
<1>1. /\ \A d \in Calls : /\ call'[d].token = call[d].token
                          /\ call'[d].at = call[d].at
                          /\ call'[d].granted = call[d].granted
                          /\ call'[d].stage = IF d = c THEN s ELSE call[d].stage
      /\ call' \in [Calls -> [stage : Stages, token : Tokens, at : Time,
                              granted : BOOLEAN]]
      /\ UNCHANGED <<now, token, revoking, events, closed>>
  BY DEF Refuse, Inv, TypeOK
<1>2. TypeOK'
  BY <1>1 DEF Inv, TypeOK, Granted
<1>3. Timely'
  BY <1>1 DEF Inv, Timely, Granted, Asked
<1>4. StageInv'
  BY <1>1 DEF Inv, StageInv, Granted
<1>5. TokenInv'
  BY <1>1 DEF Inv, TypeOK, TokenInv, Granted
<1>6. QED
  BY <1>2, <1>3, <1>4, <1>5 DEF Inv

LEMMA InvStep ==
  ASSUME Inv, [Next]_vars
  PROVE  Inv'
<1>0. /\ Window \in Nat /\ AuditAge \in Nat /\ MaxWait \in Nat /\ MaxTime \in Nat
      /\ TokenAge \in Nat /\ Limit \in Nat
  BY ApiConstants
<1>t. now \in Nat /\ \A c \in Calls : call[c].at \in Nat
  BY <1>0 DEF Inv, TypeOK, Time
<1>1. CASE Tick
  BY <1>0, <1>t, <1>1
     DEF Tick, Inv, TypeOK, Timely, StageInv, TokenInv, Granted, Asked, Time
<1>2. ASSUME NEW t \in Tokens, NEW lifetime \in Time, Issue(t, lifetime)
      PROVE  Inv'
  <2>1. /\ token' \in [Tokens -> Row]
        /\ token'[t].presence = "live"
        /\ \A x \in Tokens : x # t => token'[x] = token[x]
        /\ token[t].presence = "unused"
        /\ UNCHANGED <<now, revoking, call, events, closed>>
    BY <1>0, <1>2 DEF Issue, Inv, TypeOK, Row, Time, Null
  <2>2. TypeOK' /\ Timely' /\ StageInv'
    BY <2>1 DEF Inv, TypeOK, Timely, StageInv, Granted, Asked
  <2>3. TokenInv'
    BY <2>1 DEF Inv, TypeOK, TokenInv, Granted, Request
  <2>4. QED
    BY <2>2, <2>3 DEF Inv
<1>3. ASSUME NEW t \in Tokens, OpenRevoke(t)
      PROVE  Inv'
  BY <1>3 DEF OpenRevoke, Inv, TypeOK, Timely, StageInv, TokenInv, Granted, Asked,
              Request
<1>4. ASSUME NEW r \in revoking, SaveRevoke(r)
      PROVE  Inv'
  <2>1. /\ r.token \in Tokens /\ r.at \in Time /\ r.at # Null
        /\ UNCHANGED <<now, call, events>>
        /\ revoking' \subseteq revoking
    BY <1>0, <1>4 DEF SaveRevoke, Inv, TypeOK, Request, Time, Null
  <2>2. CASE token[r.token].presence = "live"
    <3>1. /\ token' = [token EXCEPT ![r.token].revoked = r.at]
          /\ closed' = IF closed[r.token] = Null
                       THEN [closed EXCEPT ![r.token] = now] ELSE closed
      BY <1>4, <2>2 DEF SaveRevoke
    <3>2. /\ token' \in [Tokens -> Row]
          /\ \A x \in Tokens : token'[x].presence = token[x].presence
          /\ token'[r.token].revoked # Null
          /\ \A x \in Tokens : x # r.token => token'[x] = token[x]
      BY <2>1, <3>1 DEF Inv, TypeOK, Row
    <3>3. /\ closed' \in [Tokens -> Time \union {Null}]
          /\ \A x \in Tokens : x # r.token => closed'[x] = closed[x]
      BY <2>1, <3>1 DEF Inv, TypeOK
    <3>4. TypeOK' /\ Timely' /\ StageInv'
      BY <2>1, <3>2, <3>3 DEF Inv, TypeOK, Timely, StageInv, Granted, Asked
    <3>5. TokenInv'
      BY <2>1, <2>2, <3>2, <3>3 DEF Inv, TypeOK, TokenInv, Granted, Request
    <3>6. QED
      BY <3>4, <3>5 DEF Inv
  <2>3. CASE token[r.token].presence # "live"
    BY <1>4, <2>1, <2>3
       DEF SaveRevoke, Inv, TypeOK, Timely, StageInv, TokenInv, Granted, Asked
  <2>4. QED
    BY <2>2, <2>3
<1>5. ASSUME NEW n \in Time, Purge(n)
      PROVE  Inv'
  <2>1. /\ n \in Nat /\ n <= now
        /\ UNCHANGED <<now, revoking, call, closed>>
        /\ events' = events \ ExpiredEvents(n)
    BY <1>0, <1>5 DEF Purge, Time
  <2>2. /\ token' \in [Tokens -> Row]
        /\ \A t \in Tokens :
             \/ token'[t] = token[t]
             \/ token[t].presence = "live" /\ token'[t].presence = "purged"
    BY <1>5 DEF Purge, Inactive, Inv, TypeOK, Row
  <2>3. TypeOK' /\ StageInv'
    BY <2>1, <2>2 DEF Inv, TypeOK, StageInv, Granted
  <2>4. Timely'
    BY <1>0, <1>t, <2>1 DEF Inv, TypeOK, Timely, Granted, Asked, ExpiredEvents
  <2>5. TokenInv'
    BY <2>1, <2>2 DEF Inv, TypeOK, TokenInv, Granted, Request
  <2>6. QED
    BY <2>3, <2>4, <2>5 DEF Inv
<1>6. ASSUME NEW c \in Calls, Ask(c)
      PROVE  Inv'
  <2>1. /\ \A d \in Calls : /\ call'[d].token = call[d].token
                            /\ call'[d].granted = call[d].granted
                            /\ d # c => call'[d] = call[d]
        /\ call'[c].stage = "asked" /\ call'[c].at = now
        /\ call' \in [Calls -> [stage : Stages, token : Tokens, at : Time,
                                granted : BOOLEAN]]
        /\ UNCHANGED <<now, token, revoking, events, closed>>
        /\ call[c].stage = "new"
    BY <1>6 DEF Ask, Inv, TypeOK, Stages
  <2>2. TypeOK' /\ StageInv'
    BY <2>1 DEF Inv, TypeOK, StageInv, Granted
  <2>3. Timely'
    BY <1>0, <1>t, <2>1 DEF Inv, Timely, StageInv, Granted, Asked
  <2>4. TokenInv'
    BY <2>1 DEF Inv, TokenInv, Granted
  <2>5. QED
    BY <2>2, <2>3, <2>4 DEF Inv
<1>7. ASSUME NEW c \in Calls, Authorize(c)
      PROVE  Inv'
  <2>1. /\ \A d \in Calls : /\ call'[d].token = call[d].token
                            /\ call'[d].at = call[d].at
                            /\ d # c => call'[d] = call[d]
        /\ call'[c].stage = "authorized" /\ call'[c].granted = TRUE
        /\ call' \in [Calls -> [stage : Stages, token : Tokens, at : Time,
                                granted : BOOLEAN]]
        /\ events' = events \union {c}
        /\ UNCHANGED <<now, token, revoking, closed>>
        /\ token[call[c].token].presence = "live"
    BY <1>7 DEF Authorize, Active, Inv, TypeOK, Stages
  <2>2. TypeOK' /\ StageInv'
    BY <2>1 DEF Inv, TypeOK, StageInv, Granted
  <2>3. Timely'
    BY <1>0, <1>t, <2>1 DEF Inv, Timely, Granted, Asked
  <2>4. TokenInv'
    BY <2>1 DEF Inv, TokenInv, Granted
  <2>5. QED
    BY <2>2, <2>3, <2>4 DEF Inv
<1>8. ASSUME NEW c \in Calls,
             Unauthorized(c) \/ RateLimited(c) \/ Answer(c) \/ Fail(c)
      PROVE  Inv'
  <2>1. \A s \in {"unauthorized", "rate_limited", "answered", "failed"} :
          s \in Stages /\ s \notin {"new", "asked", "authorized"}
    BY DEF Stages
  <2>2. CASE Unauthorized(c)
    <3>1. Refuse(c, "unauthorized")
      BY <2>2 DEF Unauthorized
    <3>2. QED
      BY <2>1, <3>1, RefuseInv
  <2>3. CASE RateLimited(c)
    <3>1. Refuse(c, "rate_limited")
      BY <2>3 DEF RateLimited
    <3>2. QED
      BY <2>1, <3>1, RefuseInv
  <2>4. CASE Answer(c)
    <3>1. Refuse(c, "answered") /\ call[c].stage = "authorized"
      BY <2>4 DEF Answer
    <3>2. QED
      BY <2>1, <3>1, RefuseInv
  <2>5. CASE Fail(c)
    <3>1. Refuse(c, "failed")
      BY <2>5 DEF Fail
    <3>2. QED
      BY <2>1, <3>1, RefuseInv
  <2>6. QED
    BY <1>8, <2>2, <2>3, <2>4, <2>5
<1>9. CASE UNCHANGED vars
  BY <1>9 DEF vars, Inv, TypeOK, Timely, StageInv, TokenInv, Granted, Asked
<1>10. QED
  BY <1>1, <1>2, <1>3, <1>4, <1>5, <1>6, <1>7, <1>8, <1>9 DEF Next

(* Every state the door can reach has its shape, and the api.read rows are *)
(* rows of granted calls.                                                  *)
THEOREM ApiTypeCorrect == Spec => []TypeOK
<1>1. Inv => TypeOK
  BY DEF Inv
<1>2. QED
  BY InitInv, InvStep, <1>1, PTL DEF Spec

(* No call is answered without an event that survives its audit age. *)
THEOREM AnswersAudited == Spec => []AnswersAreAudited
<1>1. Inv => AnswersAreAudited
  BY DEF Inv, StageInv, Timely, AnswersAreAudited
<1>2. QED
  BY InitInv, InvStep, <1>1, PTL DEF Spec

-----------------------------------------------------------------------------
(* The rate limit. *)

LEMMA StampedFinite ==
  ASSUME NEW t, NEW a
  PROVE  /\ IsFiniteSet(Stamped(t, a))
         /\ Cardinality(Stamped(t, a)) \in Nat
BY ApiConstants, FS_Subset, FS_CardinalityType DEF Stamped

(* Whatever call c can look back on is still in the log, so every granted  *)
(* call in a window with c was counted. *)
LEMMA WindowIsCounted ==
  ASSUME Inv, NEW c \in Calls, Asked(c), NEW a \in Time,
         a <= call[c].at, call[c].at <= a + Window
  PROVE  Stamped(call[c].token, a) \subseteq Recent(call[c].token, call[c].at)
<1>1. /\ Window \in Nat /\ AuditAge \in Nat /\ MaxWait \in Nat
      /\ AuditAge >= Window + MaxWait /\ a \in Nat /\ now \in Nat
  BY ApiConstants DEF Inv, TypeOK, Time
<1>2. \A d \in Calls : call[d].at \in Nat
  BY <1>1, ApiConstants DEF Inv, TypeOK, Time
<1>3. ASSUME NEW d \in Calls, Granted(d), a <= call[d].at
      PROVE  d \in events /\ call[d].at >= call[c].at - Window
  <2>1. call[d].at >= call[c].at - Window
    BY <1>1, <1>2, <1>3
  <2>2. now <= call[c].at + MaxWait
    BY DEF Inv, Timely
  <2>3. d \notin events => call[d].at < now - AuditAge
    BY <1>3 DEF Inv, Timely
  <2>4. QED
    BY <1>1, <1>2, <2>1, <2>2, <2>3
<1>4. QED
  BY <1>3 DEF Stamped, Recent

LEMMA GrantWithinLimit ==
  ASSUME Inv, RateBound, NEW c \in Calls, Authorize(c), NEW t \in Tokens,
         NEW a \in Time
  PROVE  Cardinality(Stamped(t, a)') <= Limit
<1> DEFINE W == Stamped(t, a)
           R == Recent(call[c].token, call[c].at)
<1>0. Limit \in Nat /\ Cardinality(W) <= Limit
  BY ApiConstants DEF RateBound
<1>1. \A d \in Calls : /\ call'[d].token = call[d].token
                       /\ call'[d].at = call[d].at
                       /\ call'[d].granted <=> call[d].granted \/ d = c
  BY DEF Authorize, Inv, TypeOK
<1>2. CASE t = call[c].token /\ a <= call[c].at /\ call[c].at <= a + Window
  <2>1. Stamped(t, a)' = W \union {c}
    BY <1>1, <1>2 DEF Stamped, Granted
  <2>2. W \subseteq R
    BY <1>2, WindowIsCounted DEF Authorize
  <2>3. IsFiniteSet(R) /\ Cardinality(R) < Limit
    <3>1. R \subseteq Calls
      BY DEF Inv, TypeOK, Recent
    <3>2. IsFiniteSet(R)
      BY <3>1, ApiConstants, FS_Subset
    <3>3. QED
      BY <3>2 DEF Authorize
  <2>4. Cardinality(W) <= Cardinality(R)
    BY <2>2, <2>3, FS_Subset
  <2>5. Cardinality(R) \in Nat /\ Cardinality(W) \in Nat /\ IsFiniteSet(W)
    BY <2>3, FS_CardinalityType, StampedFinite
  <2> HIDE DEF W, R
  <2>6. Cardinality(W \union {c}) = IF c \in W THEN Cardinality(W)
                                   ELSE Cardinality(W) + 1
    BY <2>5, FS_AddElement
  <2>7. QED
    BY <1>0, <2>1, <2>3, <2>4, <2>5, <2>6
<1>3. CASE ~(t = call[c].token /\ a <= call[c].at /\ call[c].at <= a + Window)
  <2>1. Stamped(t, a)' = W
    BY <1>1, <1>3 DEF Stamped, Granted
  <2>2. QED
    BY <1>0, <2>1
<1>4. QED
  BY <1>2, <1>3

LEMMA InitRate == Init => RateBound
<1> SUFFICES ASSUME Init, NEW t \in Tokens, NEW a \in Time
             PROVE  Cardinality(Stamped(t, a)) <= Limit
  BY DEF RateBound
<1>1. Stamped(t, a) = {}
  BY DEF Init, Stamped, Granted
<1>2. QED
  BY <1>1, FS_EmptySet, ApiConstants

LEMMA RateStep ==
  ASSUME Inv, RateBound, [Next]_vars
  PROVE  RateBound'
<1> SUFFICES ASSUME NEW t \in Tokens, NEW a \in Time
             PROVE  Cardinality(Stamped(t, a)') <= Limit
  BY DEF RateBound
<1>1. CASE \E c \in Calls : Authorize(c)
  BY <1>1, GrantWithinLimit
<1>2. CASE ~\E c \in Calls : Authorize(c)
  <2>1. ASSUME NEW c \in Calls
        PROVE  /\ call'[c].token = call[c].token
               /\ call'[c].granted = call[c].granted
               /\ call[c].granted => call'[c].at = call[c].at
    <3>1. CASE UNCHANGED call
      BY <3>1
    <3>2. CASE \E d \in Calls : Ask(d)
      BY <3>2 DEF Ask, Inv, TypeOK, StageInv, Granted
    <3>3. CASE \E d \in Calls, s \in Stages : Refuse(d, s)
      BY <3>3 DEF Refuse, Inv, TypeOK
    <3>4. QED
      BY <1>2, <3>1, <3>2, <3>3
         DEF Next, Tick, Issue, OpenRevoke, SaveRevoke, Purge, vars, Unauthorized,
             RateLimited, Answer, Fail, Stages
  <2>2. Stamped(t, a)' = Stamped(t, a)
    BY <2>1 DEF Stamped, Granted
  <2>3. QED
    BY <2>2 DEF RateBound
<1>3. QED
  BY <1>1, <1>2

(* However calls overtake each other between their timestamp and the lock, *)
(* and whatever retention deletes, no window of Window holds more than     *)
(* Limit granted calls of a token.                                         *)
THEOREM RateIsBounded == Spec => []RateBound
BY InitInv, InvStep, InitRate, RateStep, PTL DEF Spec

-----------------------------------------------------------------------------
(* Revocation and expiry. *)

LEMMA InitInactive == Init => NoGrantWhenInactive
BY DEF Init, NoGrantWhenInactive, Granted

LEMMA InactiveStep ==
  ASSUME Inv, NoGrantWhenInactive, [Next]_vars
  PROVE  NoGrantWhenInactive'
<1> SUFFICES ASSUME NEW c \in Calls, Granted(c)'
             PROVE  LET t == call'[c].token IN
                    /\ closed'[t] # Null => call'[c].at <= closed'[t]
                    /\ token'[t].expires # Null => call'[c].at < token'[t].expires
  BY DEF NoGrantWhenInactive
<1> DEFINE t == call[c].token
<1>0. t \in Tokens /\ now \in Time /\ call[c].at <= now
  BY DEF Inv, TypeOK, Timely
<1>1. CASE Authorize(c)
  <2>1. /\ call'[c].token = t /\ call'[c].at = call[c].at
        /\ token' = token /\ closed' = closed
        /\ Active(t, call[c].at)
    BY <1>1 DEF Authorize, Inv, TypeOK
  <2>2. closed[t] = Null
    BY <1>0, <2>1 DEF Active, Inv, TokenInv
  <2>3. token[t].expires # Null => call[c].at < token[t].expires
    BY <2>1 DEF Active
  <2>4. QED
    BY <2>1, <2>2, <2>3
<1>2. CASE ~Authorize(c)
  <2>1. /\ Granted(c)
        /\ call'[c].token = t /\ call'[c].at = call[c].at
    <3>1. CASE UNCHANGED call
      BY <3>1 DEF Granted
    <3>2. CASE \E d \in Calls : Ask(d)
      BY <3>2 DEF Ask, Inv, TypeOK, StageInv, Granted
    <3>3. CASE \E d \in Calls, s \in Stages : Refuse(d, s)
      BY <3>3 DEF Refuse, Inv, TypeOK, Granted
    <3>4. CASE \E d \in Calls : Authorize(d)
      BY <1>2, <3>4 DEF Authorize, Inv, TypeOK, Granted
    <3>5. QED
      BY <1>2, <3>1, <3>2, <3>3, <3>4
         DEF Next, Tick, Issue, OpenRevoke, SaveRevoke, Purge, vars, Unauthorized,
             RateLimited, Answer, Fail, Stages
  <2>2. /\ token[t].presence # "unused"
        /\ closed[t] # Null => call[c].at <= closed[t]
        /\ token[t].expires # Null => call[c].at < token[t].expires
    BY <2>1 DEF Inv, TokenInv, NoGrantWhenInactive
  <2>3. token'[t].expires = token[t].expires
    <3>1. CASE UNCHANGED token
      BY <3>1
    <3>2. CASE \E x \in Tokens, lifetime \in Time : Issue(x, lifetime)
      BY <1>0, <2>2, <3>2 DEF Issue, Inv, TypeOK
    <3>3. ASSUME NEW r \in revoking, SaveRevoke(r)
          PROVE  token'[t].expires = token[t].expires
      <4>1. r.token \in Tokens
        BY DEF Inv, TypeOK, Request
      <4>2. QED
        BY <1>0, <3>3, <4>1 DEF SaveRevoke, Inv, TypeOK, Row
    <3>4. CASE \E n \in Time : Purge(n)
      BY <1>0, <3>4 DEF Purge, Inv, TypeOK
    <3>5. QED
      BY <3>1, <3>2, <3>3, <3>4
         DEF Next, Tick, OpenRevoke, vars, Ask, Authorize, Refuse, Unauthorized,
             RateLimited, Answer, Fail
  <2>4. closed'[t] = closed[t] \/ (closed[t] = Null /\ closed'[t] = now)
    <3>1. CASE UNCHANGED closed
      BY <3>1
    <3>2. ASSUME NEW r \in revoking, SaveRevoke(r)
          PROVE  closed'[t] = closed[t] \/ (closed[t] = Null /\ closed'[t] = now)
      BY <1>0, <3>2 DEF SaveRevoke, Inv, TypeOK
    <3>3. QED
      BY <3>1, <3>2
         DEF Next, Tick, Issue, OpenRevoke, Purge, vars, Ask, Authorize, Refuse,
             Unauthorized, RateLimited, Answer, Fail
  <2>5. QED
    BY <1>0, <2>1, <2>2, <2>3, <2>4
<1>3. QED
  BY <1>1, <1>2

(* No call made after a saved revocation or after the expiry is granted. *)
THEOREM InactiveTokensDenied == Spec => []NoGrantWhenInactive
BY InitInv, InvStep, InitInactive, InactiveStep, PTL DEF Spec

-----------------------------------------------------------------------------
(* The door refines Door.                                                  *)

(* What the abstract door still knows of a row: a revoked token is closed, *)
(* a purged one was closed or has expired.                                 *)
ClosedInv ==
    \A t \in Tokens :
      /\ token[t].revoked # Null => closed[t] # Null
      /\ token[t].presence = "purged" =>
             \/ closed[t] # Null
             \/ token[t].expires # Null /\ token[t].expires <= now
      /\ token[t].presence = "unused" => closed[t] = Null /\ token[t].expires = Null

LEMMA InitClosed == Init => ClosedInv
BY DEF Init, ClosedInv

LEMMA ClosedStep ==
  ASSUME Inv, ClosedInv, [Next]_vars
  PROVE  ClosedInv'
<1>0. /\ now \in Nat /\ TokenAge \in Nat
      /\ \A t \in Tokens : token[t] \in Row /\ closed[t] \in Time \union {Null}
      /\ \A r \in revoking : r.token \in Tokens
  BY ApiConstants DEF Inv, TypeOK, Time, Request
<1>1. CASE Tick
  <2>1. now' = now + 1 /\ UNCHANGED <<token, closed>>
    BY <1>1 DEF Tick
  <2>2. \A t \in Tokens : token[t].expires # Null => token[t].expires \in Nat
    BY <1>0, ApiConstants DEF Row, Time
  <2>3. QED
    BY <1>0, <2>1, <2>2 DEF ClosedInv
<1>2. ASSUME NEW t \in Tokens, NEW lifetime \in Time, Issue(t, lifetime)
      PROVE  ClosedInv'
  <2>1. /\ token'[t].presence = "live" /\ token'[t].revoked = Null
        /\ \A x \in Tokens : x # t => token'[x] = token[x]
        /\ UNCHANGED <<now, closed>>
    BY <1>2 DEF Issue, Inv, TypeOK
  <2>2. QED
    BY <2>1 DEF ClosedInv
<1>3. ASSUME NEW r \in revoking, SaveRevoke(r)
      PROVE  ClosedInv'
  <2>1. CASE token[r.token].presence = "live"
    <3>1. /\ token' = [token EXCEPT ![r.token].revoked = r.at]
          /\ closed' = IF closed[r.token] = Null
                       THEN [closed EXCEPT ![r.token] = now] ELSE closed
          /\ now' = now
      BY <1>3, <2>1 DEF SaveRevoke
    <3>2. /\ token'[r.token].presence = "live"
          /\ \A x \in Tokens : x # r.token =>
                 token'[x] = token[x] /\ closed'[x] = closed[x]
      BY <1>0, <2>1, <3>1 DEF Inv, TypeOK, Row
    <3>3. closed'[r.token] # Null
      BY <1>0, <3>1 DEF Inv, TypeOK, Null
    <3>4. QED
      BY <3>1, <3>2, <3>3 DEF ClosedInv
  <2>2. CASE token[r.token].presence # "live"
    BY <1>3, <2>2 DEF SaveRevoke, ClosedInv
  <2>3. QED
    BY <2>1, <2>2
<1>4. ASSUME NEW n \in Time, Purge(n)
      PROVE  ClosedInv'
  <2>1. /\ n <= now /\ n \in Nat
        /\ \A t \in Tokens : token'[t] = IF Inactive(t, n - TokenAge)
                                         THEN [token[t] EXCEPT !.presence = "purged"]
                                         ELSE token[t]
        /\ UNCHANGED <<now, closed>>
    BY <1>4, ApiConstants DEF Purge, Time
  <2>2. ASSUME NEW t \in Tokens, Inactive(t, n - TokenAge)
        PROVE  \/ closed[t] # Null
               \/ token[t].expires # Null /\ token[t].expires <= now
    <3>1. token[t].expires # Null => token[t].expires \in Nat
      BY <1>0, ApiConstants DEF Row, Time
    <3>2. QED
      BY <1>0, <2>1, <2>2, <3>1 DEF Inactive, ClosedInv
  <2>3. \A t \in Tokens :
          /\ token'[t].expires = token[t].expires
          /\ token'[t].revoked = token[t].revoked
          /\ token'[t].presence =
                IF Inactive(t, n - TokenAge) THEN "purged" ELSE token[t].presence
    BY <1>0, <2>1 DEF Row
  <2>4. QED
    BY <2>1, <2>2, <2>3 DEF ClosedInv
<1>5. CASE UNCHANGED <<now, token, closed>>
  BY <1>5 DEF ClosedInv
<1>6. QED
  BY <1>1, <1>2, <1>3, <1>4, <1>5
     DEF Next, OpenRevoke, vars, Ask, Authorize, Refuse, Unauthorized, RateLimited,
         Answer, Fail

(* While a call waits for the row, the events still in the log are all the *)
(* granted calls it has to count.                                          *)
LEMMA NothingForgotten ==
  ASSUME Inv, NEW c \in Calls, Asked(c)
  PROVE  Recent(call[c].token, call[c].at)
           = TheDoor!GrantedSince(call[c].token, call[c].at - Window)
<1>1. /\ Window \in Nat /\ AuditAge \in Nat /\ MaxWait \in Nat
      /\ AuditAge >= Window + MaxWait /\ now \in Nat
      /\ \A d \in Calls : call[d].at \in Nat
  BY ApiConstants DEF Inv, TypeOK, Time
<1>2. now <= call[c].at + MaxWait
  BY DEF Inv, Timely
<1>3. ASSUME NEW d \in Calls, Granted(d), call[d].at >= call[c].at - Window
      PROVE  d \in events
  <2>1. d \notin events => call[d].at < now - AuditAge
    BY <1>3 DEF Inv, Timely
  <2>2. QED
    BY <1>1, <1>2, <1>3, <2>1
<1>4. \A d \in events : d \in Calls /\ call[d].granted
  BY DEF Inv, TypeOK, Granted
<1>5. QED
  BY <1>3, <1>4 DEF Recent, TheDoor!GrantedSince, Granted

LEMMA CardinalityAgrees ==
  ASSUME NEW S
  PROVE  TheDoor!Cardinality(S) = Cardinality(S)
BY DEF Cardinality, TheDoor!Cardinality

LEMMA FullDecides ==
  ASSUME Inv, NEW c \in Calls, Asked(c)
  PROVE  TheDoor!Full(c) <=> Cardinality(Recent(call[c].token, call[c].at)) >= Limit
<1>1. TheDoor!Full(c) <=>
        Cardinality(TheDoor!GrantedSince(call[c].token, call[c].at - Window)) >= Limit
  BY CardinalityAgrees DEF TheDoor!Full
<1>2. QED
  BY <1>1, NothingForgotten

(* A row lets a call in only if its token is neither closed nor expired,   *)
(* and keeps one out only if it is one of them by now.                     *)
LEMMA ActiveDecides ==
  ASSUME Inv, ClosedInv, NEW c \in Calls
  PROVE  LET t == call[c].token
             Issued == {x \in Tokens : token[x].presence # "unused"}
             Closed == {x \in Tokens : closed[x] # Null}
         IN  /\ Active(t, call[c].at) =>
                  t \in Issued \ Closed /\ ~TheDoor!ExpiredAt(t, call[c].at)
             /\ ~Active(t, call[c].at) =>
                  t \notin Issued \ Closed \/ TheDoor!ExpiredAt(t, now)
<1> DEFINE t == call[c].token
<1>1. /\ t \in Tokens /\ token[t] \in Row /\ call[c].at \in Nat
      /\ now \in Nat /\ call[c].at <= now
      /\ token[t].expires # Null => token[t].expires \in Nat
  BY ApiConstants DEF Inv, TypeOK, Time, Timely, Row
<1>2. TheDoor!ExpiredAt(t, now) <=> token[t].expires # Null /\ token[t].expires <= now
  BY <1>1 DEF TheDoor!ExpiredAt
<1>3. TheDoor!ExpiredAt(t, call[c].at)
        <=> token[t].expires # Null /\ token[t].expires <= call[c].at
  BY <1>1 DEF TheDoor!ExpiredAt
<1>4. ASSUME Active(t, call[c].at)
      PROVE  /\ token[t].presence # "unused" /\ closed[t] = Null
             /\ ~(token[t].expires # Null /\ token[t].expires <= call[c].at)
  BY <1>1, <1>4 DEF Active, Inv, TokenInv
<1>5. ASSUME ~Active(t, call[c].at)
      PROVE  \/ token[t].presence = "unused" \/ closed[t] # Null
             \/ token[t].expires # Null /\ token[t].expires <= now
  <2>1. token[t].presence \in {"unused", "live", "purged"}
    BY <1>1 DEF Row
  <2>2. QED
    BY <1>1, <1>5, <2>1 DEF Active, ClosedInv
<1>6. QED
  BY <1>1, <1>2, <1>3, <1>4, <1>5

LEMMA DoorInit == Init => TheDoor!Init
<1> SUFFICES ASSUME Init PROVE TheDoor!Init
  OBVIOUS
<1>1. {t \in Tokens : token[t].presence # "unused"} = {}
  BY DEF Init
<1>2. {t \in Tokens : closed[t] # Null} = {}
  BY DEF Init
<1>3. [t \in Tokens |-> token[t].expires] = [t \in Tokens |-> Null]
  BY DEF Init
<1>4. QED
  BY <1>1, <1>2, <1>3 DEF Init, TheDoor!Init

(* A change of one call's stage is the abstract one. *)
LEMMA DoorGoes ==
  ASSUME NEW c \in Calls, NEW from, NEW s, call[c].stage \in from, Refuse(c, s)
  PROVE  TheDoor!Goes(c, from, s)
BY DEF Refuse, TheDoor!Goes

LEMMA DoorStep ==
  ASSUME Inv, ClosedInv, [Next]_vars
  PROVE  [TheDoor!Next]_TheDoor!vars
<1> DEFINE Issued == {t \in Tokens : token[t].presence # "unused"}
           Expires == [t \in Tokens |-> token[t].expires]
           Closed == {t \in Tokens : closed[t] # Null}
<1>0. /\ token \in [Tokens -> Row] /\ closed \in [Tokens -> Time \union {Null}]
      /\ now \in Nat /\ \A t \in Tokens : token[t] \in Row
  BY ApiConstants DEF Inv, TypeOK, Time
<1>1. CASE Tick
  <2>1. TheDoor!Tick
    BY <1>1 DEF Tick, TheDoor!Tick
  <2>2. QED
    BY <2>1 DEF TheDoor!Next
<1>2. ASSUME NEW t \in Tokens, NEW lifetime \in Time, Issue(t, lifetime)
      PROVE  TheDoor!Next
  <2>0. PICK until : until = IF lifetime = 0 THEN Null ELSE now + lifetime
    OBVIOUS
  <2>1. /\ token' = [token EXCEPT ![t] =
               [presence |-> "live", revoked |-> Null, expires |-> until]]
        /\ token[t].presence = "unused"
        /\ UNCHANGED <<now, call, closed>>
    BY <1>2, <2>0 DEF Issue
  <2>2. until \in Time \union {Null} /\ (until = Null \/ until > now)
    <3>1. lifetime \in Nat /\ now + lifetime \in Time
      BY <1>2, ApiConstants DEF Issue, Time
    <3>2. QED
      BY <1>0, <2>0, <3>1
  <2>3. Issued' = Issued \union {t}
    BY <1>0, <2>1
  <2>4. Expires' = [Expires EXCEPT ![t] = until]
    BY <1>0, <2>1
  <2>5. t \notin Issued /\ Closed' = Closed
    BY <2>1
  <2>6. TheDoor!Issue(t, until)
    BY <2>1, <2>2, <2>3, <2>4, <2>5 DEF TheDoor!Issue
  <2>7. QED
    BY <2>2, <2>6 DEF TheDoor!Next
<1>3. ASSUME NEW r \in revoking, SaveRevoke(r)
      PROVE  TheDoor!Next \/ UNCHANGED TheDoor!vars
  <2>1. r.token \in Tokens /\ UNCHANGED <<now, call>>
    BY <1>3 DEF Inv, TypeOK, Request, SaveRevoke
  <2>2. CASE token[r.token].presence = "live"
    <3>1. /\ token' = [token EXCEPT ![r.token].revoked = r.at]
          /\ closed' = IF closed[r.token] = Null
                       THEN [closed EXCEPT ![r.token] = now] ELSE closed
      BY <1>3, <2>2 DEF SaveRevoke
    <3>2. \A t \in Tokens : /\ token'[t].presence = token[t].presence
                            /\ token'[t].expires = token[t].expires
      BY <1>0, <3>1 DEF Row
    <3>3. Issued' = Issued /\ Expires' = Expires
      BY <3>2
    <3>4. now # Null
      BY <1>0 DEF Null
    <3>5. Closed' = Closed \union {r.token}
      BY <1>0, <2>1, <3>1, <3>4
    <3>6. r.token \in Issued
      BY <2>1, <2>2
    <3>7. TheDoor!Close(r.token)
      BY <2>1, <3>3, <3>5, <3>6 DEF TheDoor!Close
    <3>8. QED
      BY <2>1, <3>7 DEF TheDoor!Next
  <2>3. CASE token[r.token].presence # "live"
    BY <1>3, <2>1, <2>3 DEF SaveRevoke, TheDoor!vars
  <2>4. QED
    BY <2>2, <2>3
<1>4. ASSUME NEW n \in Time, Purge(n)
      PROVE  UNCHANGED TheDoor!vars
  <2>1. \A t \in Tokens : /\ (token'[t].presence # "unused") = (token[t].presence # "unused")
                          /\ token'[t].expires = token[t].expires
    BY <1>0, <1>4 DEF Purge, Inactive, Row
  <2>2. Issued' = Issued /\ Expires' = Expires
    BY <2>1
  <2>3. UNCHANGED <<now, call, closed>>
    BY <1>4 DEF Purge
  <2>4. QED
    BY <2>2, <2>3 DEF TheDoor!vars
<1>5. ASSUME NEW c \in Calls, Ask(c)
      PROVE  TheDoor!Next
  <2>1. TheDoor!Ask(c)
    BY <1>5 DEF Ask, TheDoor!Ask
  <2>2. QED
    BY <2>1 DEF TheDoor!Next
<1>6. ASSUME NEW c \in Calls, Authorize(c)
      PROVE  TheDoor!Next
  <2>1. IsFiniteSet(Recent(call[c].token, call[c].at))
    <3>1. Recent(call[c].token, call[c].at) \subseteq Calls
      BY DEF Inv, TypeOK, Recent
    <3>2. QED
      BY <3>1, ApiConstants, FS_Subset
  <2>2. Cardinality(Recent(call[c].token, call[c].at)) \in Nat /\ Limit \in Nat
    BY <2>1, FS_CardinalityType, ApiConstants
  <2>3. ~TheDoor!Full(c)
    BY <1>6, <2>2, FullDecides DEF Authorize
  <2>4. TheDoor!Grant(c)
    BY <1>6, <2>3, ActiveDecides DEF Authorize, Asked, TheDoor!Grant
  <2>5. QED
    BY <2>4 DEF TheDoor!Next
<1>7. ASSUME NEW c \in Calls, Unauthorized(c)
      PROVE  TheDoor!Next
  <2>1. TheDoor!Goes(c, {"asked"}, "unauthorized")
    BY <1>7, DoorGoes DEF Unauthorized, Asked
  <2>2. TheDoor!Unauthorized(c)
    BY <1>7, <2>1, ActiveDecides DEF Unauthorized, TheDoor!Unauthorized
  <2>3. QED
    BY <2>2 DEF TheDoor!Next
<1>8. ASSUME NEW c \in Calls, RateLimited(c)
      PROVE  TheDoor!Next
  <2>1. TheDoor!Goes(c, {"asked"}, "rate_limited")
    BY <1>8, DoorGoes DEF RateLimited, Asked
  <2>2. TheDoor!RateLimited(c)
    BY <1>8, <2>1, FullDecides DEF RateLimited, TheDoor!RateLimited
  <2>3. QED
    BY <2>2 DEF TheDoor!Next
<1>9. ASSUME NEW c \in Calls, Answer(c) \/ Fail(c)
      PROVE  TheDoor!Next
  <2>1. TheDoor!Answer(c) \/ TheDoor!Fail(c)
    BY <1>9, DoorGoes DEF Answer, Fail, TheDoor!Answer, TheDoor!Fail
  <2>2. QED
    BY <2>1 DEF TheDoor!Next
<1>10. CASE UNCHANGED <<now, token, call, closed>>
  BY <1>10 DEF TheDoor!vars
<1>11. QED
  BY <1>1, <1>2, <1>3, <1>4, <1>5, <1>6, <1>7, <1>8, <1>9, <1>10
     DEF Next, OpenRevoke, vars

(* The row, its lock, the events retention trims and the revocations in    *)
(* flight decide every call as if nothing were ever deleted.               *)
THEOREM ApiAccessImplementsDoor == Spec => ImplementsDoor
<1>1. Init => Inv /\ ClosedInv
  BY InitInv, InitClosed
<1>2. Inv /\ ClosedInv /\ [Next]_vars => Inv' /\ ClosedInv'
  BY InvStep, ClosedStep
<1>3. Inv /\ ClosedInv /\ [Next]_vars => [TheDoor!Next]_TheDoor!vars
  BY DoorStep
<1>4. QED
  BY <1>1, <1>2, <1>3, DoorInit, PTL DEF Spec, ImplementsDoor, TheDoor!Spec

=============================================================================
