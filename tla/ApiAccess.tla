------------------------------ MODULE ApiAccess ------------------------------
(***************************************************************************)
(* The agent API's door: tokens issued and revoked by the owner            *)
(* (app/gateway/views.py), mailgate_api_authorize (migration 0004, with    *)
(* the same logic in app/gateway/api_auth.py), the view that runs only     *)
(* after it, and the retention job that deletes the tokens and the audit   *)
(* events both of them depend on.                                          *)
(*                                                                         *)
(* Concurrent calls are serialised by the lock on the token row, but each  *)
(* takes its timestamp before it waits for that lock.                      *)
(***************************************************************************)
EXTENDS Integers, FiniteSets

CONSTANTS
    Tokens,      \* ApiToken rows that can be issued; a digest is never reused
    Calls,       \* API requests; each is made at most once
    Window,      \* interval '1 minute'
    Limit,       \* RATE_LIMIT_PER_MINUTE
    AuditAge,    \* RetentionPolicy.audit_days
    TokenAge,    \* RetentionPolicy.token_days
    MaxWait,     \* longest wait for the lock on a token row
    MaxTime      \* bound: the clock stops here

Null == -1       \* an SQL NULL timestamp

(* One day of audit events, the smallest retention above zero, outlasts    *)
(* the rate window and any wait for a row lock.                            *)
ASSUME ApiConstants ==
    /\ IsFiniteSet(Calls)
    /\ {Window, Limit, AuditAge, TokenAge, MaxWait, MaxTime} \subseteq Nat
    /\ Limit > 0
    /\ AuditAge >= Window + MaxWait

Time == 0..MaxTime

VARIABLES
    now,        \* clock_timestamp(), timezone.now()
    token,      \* gateway_apitoken rows
    revoking,   \* token_revoke requests between the check and the save()
    call,       \* API requests
    events,     \* api.read rows of gateway_auditevent, named by their call
    closed      \* history: when the first revocation of a token was saved

vars == <<now, token, revoking, call, events, closed>>

Row == [presence : {"unused", "live", "purged"},
        expires : Time \union {Null}, revoked : Time \union {Null}]
Request == [token : Tokens, at : Time]

(* asked: waiting for the token row's lock; authorized: the audit event is *)
(* committed and the view runs; answered: the approved messages were read. *)
Stages == {"new", "asked", "authorized", "answered", "unauthorized",
           "rate_limited", "failed"}
Asked(c) == call[c].stage = "asked"
Granted(c) == c \in Calls /\ call[c].granted

(* Shape of the state; a refused call leaves no api.read event behind, so  *)
(* it does not count against the limit.                                    *)
TypeOK ==
    /\ now \in Time
    /\ token \in [Tokens -> Row]
    /\ revoking \subseteq Request
    /\ call \in [Calls -> [stage : Stages, token : Tokens, at : Time,
                           granted : BOOLEAN]]
    /\ events \subseteq Calls
    /\ closed \in [Tokens -> Time \union {Null}]
    /\ \A c \in events : Granted(c)

Init ==
    /\ now = 0
    /\ token = [t \in Tokens |->
           [presence |-> "unused", expires |-> Null, revoked |-> Null]]
    /\ revoking = {}
    /\ call \in [Calls -> [stage : {"new"}, token : Tokens, at : {0},
                           granted : {FALSE}]]
    /\ events = {}
    /\ closed = [t \in Tokens |-> Null]

-----------------------------------------------------------------------------
(* Time passes, but no statement waits longer than MaxWait for its lock:   *)
(* the row is locked only by other calls of the same token and by the      *)
(* single UPDATE of token_revoke.                                          *)
Tick ==
    /\ now < MaxTime
    /\ \A c \in Calls : Asked(c) => now < call[c].at + MaxWait
    /\ now' = now + 1
    /\ UNCHANGED <<token, revoking, call, events, closed>>

-----------------------------------------------------------------------------
(* The owner. *)

(* TokenForm.expires_at: lifetime 0 stands for a token that never expires. *)
Issue(t, lifetime) ==
    /\ token[t].presence = "unused"
    /\ now + lifetime \in Time
    /\ token' = [token EXCEPT ![t] =
           [presence |-> "live", revoked |-> Null,
            expires |-> IF lifetime = 0 THEN Null ELSE now + lifetime]]
    /\ UNCHANGED <<now, revoking, call, events, closed>>

OpenRevoke(t) ==
    /\ token[t].presence = "live"
    /\ token[t].revoked = Null
    /\ revoking' = revoking \union {[token |-> t, at |-> now]}
    /\ UNCHANGED <<now, token, call, events, closed>>

(* save(update_fields=("revoked_at",)) of the row read before: another     *)
(* request's timestamp may be overwritten, and a purged row stays away     *)
(* (DatabaseError).                                                        *)
SaveRevoke(r) ==
    /\ r \in revoking
    /\ revoking' = revoking \ {r}
    /\ IF token[r.token].presence = "live"
       THEN /\ token' = [token EXCEPT ![r.token].revoked = r.at]
            /\ closed' = IF closed[r.token] = Null
                         THEN [closed EXCEPT ![r.token] = now] ELSE closed
       ELSE UNCHANGED <<token, closed>>
    /\ UNCHANGED <<now, call, events>>

-----------------------------------------------------------------------------
(* Retention. *)

InactiveOrUnlimited(t, cutoff) ==
    /\ token[t].presence = "live"
    /\ \/ token[t].revoked # Null /\ token[t].revoked < cutoff
       \/ token[t].revoked = Null /\ token[t].expires < cutoff
Inactive(t, cutoff) ==
    /\ token[t].presence = "live"
    /\ \/ token[t].revoked # Null /\ token[t].revoked < cutoff
       \/ /\ token[t].revoked = Null
          /\ token[t].expires # Null /\ token[t].expires < cutoff

(* The ORM would find every inactive event; only api.read ones matter here. *)
ExpiredWithTokenAge(n) == {c \in events : call[c].at < n - TokenAge}
ExpiredEvents(n) == {c \in events : call[c].at < n - AuditAge}

(* purge_retention takes its time n before it waits for its advisory lock, *)
(* and deletes tokens and audit events in one transaction.                 *)
Purge(n) ==
    /\ n <= now
    /\ token' = [t \in Tokens |-> IF Inactive(t, n - TokenAge)
                                  THEN [token[t] EXCEPT !.presence = "purged"]
                                  ELSE token[t]]
    /\ events' = events \ ExpiredEvents(n)
    /\ token' # token \/ events' # events
    /\ UNCHANGED <<now, revoking, call, closed>>

-----------------------------------------------------------------------------
(* The API. *)

(* v_now := clock_timestamp(), before the SELECT ... FOR UPDATE. *)
Ask(c) ==
    /\ call[c].stage = "new"
    /\ call' = [call EXCEPT ![c].stage = "asked", ![c].at = now]
    /\ UNCHANGED <<now, token, revoking, events, closed>>

(* The row as it is when the lock is granted, against the older v_now. *)
ActiveUnlessExpired(t, v) ==
    /\ token[t].presence = "live"
    /\ token[t].expires = Null \/ token[t].expires > v
Active(t, v) ==
    /\ token[t].presence = "live"
    /\ token[t].revoked = Null
    /\ token[t].expires = Null \/ token[t].expires > v

(* v_recent: the events with created_at >= v_now - interval '1 minute' *)
RecentExclusive(t, v) ==
    {d \in events : call[d].token = t /\ call[d].at > v - Window}
Recent(t, v) ==
    {d \in events : call[d].token = t /\ call[d].at >= v - Window}

Authorize(c) ==
    /\ Asked(c)
    /\ Active(call[c].token, call[c].at)
    /\ Cardinality(Recent(call[c].token, call[c].at)) < Limit
    /\ call' = [call EXCEPT ![c].stage = "authorized", ![c].granted = TRUE]
    /\ events' = events \union {c}
    /\ UNCHANGED <<now, token, revoking, closed>>

Refuse(c, stage) ==
    /\ call' = [call EXCEPT ![c].stage = stage]
    /\ UNCHANGED <<now, token, revoking, events, closed>>

Unauthorized(c) ==
    /\ Asked(c)
    /\ ~Active(call[c].token, call[c].at)
    /\ Refuse(c, "unauthorized")

RateLimitedButCounted(c) ==
    /\ Asked(c)
    /\ Active(call[c].token, call[c].at)
    /\ Cardinality(Recent(call[c].token, call[c].at)) >= Limit
    /\ call' = [call EXCEPT ![c].stage = "rate_limited"]
    /\ events' = events \union {c}
    /\ UNCHANGED <<now, token, revoking, closed>>
RateLimited(c) ==
    /\ Asked(c)
    /\ Active(call[c].token, call[c].at)
    /\ Cardinality(Recent(call[c].token, call[c].at)) >= Limit
    /\ Refuse(c, "rate_limited")

(* The view reads mailgate_api_approved_message in a statement of its own. *)
Answer(c) ==
    /\ call[c].stage = "authorized"
    /\ Refuse(c, "answered")

(* The process or its connection dies; an open transaction is rolled back. *)
Fail(c) ==
    /\ call[c].stage \in {"asked", "authorized"}
    /\ Refuse(c, "failed")

-----------------------------------------------------------------------------
Next ==
    \/ Tick
    \/ \E t \in Tokens, lifetime \in Time : Issue(t, lifetime)
    \/ \E t \in Tokens : OpenRevoke(t)
    \/ \E r \in revoking : SaveRevoke(r)
    \/ \E n \in Time : Purge(n)
    \/ \E c \in Calls :
           \/ Ask(c)
           \/ Authorize(c)
           \/ Unauthorized(c)
           \/ RateLimited(c)
           \/ Answer(c)
           \/ Fail(c)

Spec == Init /\ [][Next]_vars

-----------------------------------------------------------------------------
(* Properties. *)

Stamped(t, a) ==
    {c \in Calls : Granted(c) /\ call[c].token = t /\ a <= call[c].at
                   /\ call[c].at <= a + Window}

(* A token is granted at most Limit calls in any window of timestamps,     *)
(* although a call may be stamped before calls that overtake it, and       *)
(* retention deletes the events that are counted (0004, lines 81-129).     *)
RateBound ==
    \A t \in Tokens, a \in Time : Cardinality(Stamped(t, a)) <= Limit

(* A call made after a revocation was saved is not granted, neither by a   *)
(* second revocation in flight nor by retention of the row; nor is a call  *)
(* made after the token's expiry (0004, lines 89-101; views, 264-277).     *)
NoGrantWhenInactive ==
    \A c \in Calls : Granted(c) =>
        LET t == call[c].token IN
        /\ closed[t] # Null => call[c].at <= closed[t]
        /\ token[t].expires # Null => call[c].at < token[t].expires

(* Every answered call left an event that stays in the audit log until     *)
(* retention's audit age has passed (0004, lines 119-129; lifecycle, 58).  *)
AnswersAreAudited ==
    \A c \in Calls :
        call[c].stage = "answered" => c \in events \/ call[c].at < now - AuditAge

(* Calls are judged as if nothing were ever deleted and each revocation    *)
(* were one step: what retention removes, a second revocation in flight    *)
(* and calls that overtake each other neither let a call in nor keep one   *)
(* out (0004, lines 81-132; lifecycle, 36-67; views, 262-277).             *)
TheDoor == INSTANCE Door WITH
    Times <- Time, Never <- Null,
    issued <- {t \in Tokens : token[t].presence # "unused"},
    expires <- [t \in Tokens |-> token[t].expires],
    closed <- {t \in Tokens : closed[t] # Null}
ImplementsDoor == TheDoor!Spec

=============================================================================
