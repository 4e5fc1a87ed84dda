--------------------------------- MODULE Door ---------------------------------
(***************************************************************************)
(* What the agent API promises about its tokens, as if nothing were ever   *)
(* deleted: a call is judged in one step, by the clock reading it took,    *)
(* the expiry of its token, whether the token has been closed, and all     *)
(* calls of the token that were granted before.                            *)
(***************************************************************************)
EXTENDS Integers, FiniteSets

CONSTANTS
    Tokens, Calls, Window, Limit,
    Times,       \* clock readings
    Never        \* the expiry of a token that has none

VARIABLES
    now,         \* the clock
    issued,      \* tokens that have been issued
    expires,     \* when they expire, or Never
    closed,      \* tokens whose revocation has been saved
    call         \* API calls: stage, token, at, granted

vars == <<now, issued, expires, closed, call>>

Init ==
    /\ now = 0 /\ issued = {} /\ closed = {}
    /\ expires = [t \in Tokens |-> Never]
    /\ call \in [Calls -> [stage : {"new"}, token : Tokens, at : {0}, granted : {FALSE}]]

Tick ==
    /\ now' = now + 1
    /\ UNCHANGED <<issued, expires, closed, call>>

Issue(t, e) ==
    /\ t \notin issued /\ (e = Never \/ e > now)
    /\ issued' = issued \union {t}
    /\ expires' = [expires EXCEPT ![t] = e]
    /\ UNCHANGED <<now, closed, call>>

Close(t) ==
    /\ t \in issued
    /\ closed' = closed \union {t}
    /\ UNCHANGED <<now, issued, expires, call>>

Goes(c, from, to) ==
    /\ call[c].stage \in from
    /\ call' = [call EXCEPT ![c].stage = to]
    /\ UNCHANGED <<now, issued, expires, closed>>

Ask(c) ==
    /\ call[c].stage = "new"
    /\ call' = [call EXCEPT ![c].stage = "asked", ![c].at = now]
    /\ UNCHANGED <<now, issued, expires, closed>>

ExpiredAt(t, v) == expires[t] # Never /\ expires[t] <= v

(* All of them, however long ago retention removed their events. *)
GrantedSince(t, v) == {d \in Calls : call[d].granted /\ call[d].token = t /\ call[d].at >= v}
Full(c) == Cardinality(GrantedSince(call[c].token, call[c].at - Window)) >= Limit

Grant(c) ==
    /\ call[c].stage = "asked"
    /\ call[c].token \in issued \ closed
    /\ ~ExpiredAt(call[c].token, call[c].at)
    /\ ~Full(c)
    /\ call' = [call EXCEPT ![c].stage = "authorized", ![c].granted = TRUE]
    /\ UNCHANGED <<now, issued, expires, closed>>

(* Only for a reason.  A token that expires while the call waits may       *)
(* already be gone.                                                        *)
Unauthorized(c) ==
    /\ \/ call[c].token \notin issued \ closed
       \/ ExpiredAt(call[c].token, now)
    /\ Goes(c, {"asked"}, "unauthorized")
RateLimited(c) == Full(c) /\ Goes(c, {"asked"}, "rate_limited")

Answer(c) == Goes(c, {"authorized"}, "answered")
Fail(c) == Goes(c, {"asked", "authorized"}, "failed")

Next ==
    \/ Tick
    \/ \E t \in Tokens, e \in Times \union {Never} : Issue(t, e)
    \/ \E t \in Tokens : Close(t)
    \/ \E c \in Calls :
           Ask(c) \/ Grant(c) \/ Unauthorized(c) \/ RateLimited(c) \/ Answer(c) \/ Fail(c)

Spec == Init /\ [][Next]_vars

===============================================================================
