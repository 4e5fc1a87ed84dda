------------------------------ MODULE MailCheck ------------------------------
(***************************************************************************)
(* The worker checks one message after another (parse_message, verify_dkim *)
(* and _DnsBudget of authentication.py) and asks the DKIM resolver for the *)
(* keys (HttpDnsTxtResolver, worker/mailgate_dkim_resolver).               *)
(*                                                                         *)
(* The resolver handles every request in a thread of its own: when the     *)
(* worker gives up on a request its thread goes on, so threads overlap.    *)
(* A thread reads the clock before it takes the lock of the rate limiter.  *)
(* Outside the code: the clock, the DNS-over-HTTPS service, and dkimpy,    *)
(* which asks for at most one key per signature and finds a signature      *)
(* invalid when it gets none. The clock does not pass the end of a socket  *)
(* operation's timeout before the worker does.                             *)
(***************************************************************************)
EXTENDS MailPolicy

CONSTANTS
    Contents,       \* contents of messages
    HeaderLists,    \* their Authentication-Results headers
    SignatureLists, \* their DKIM-Signature headers
    MaxSignatures,  \* MAX_DKIM_SIGNATURES
    MaxQueries,     \* MAX_DNS_QUERIES
    QueryFloor,     \* the 0.1 s of max(timeout, 0.1)
    QueryTime,      \* DNS_TIMEOUT_SECONDS
    TotalTime,      \* DNS_TOTAL_TIMEOUT_SECONDS
    Operations,     \* bound on the socket operations of a request: connect, send, recv
    Threads,        \* bound on the handler threads that run at once
    RateMax,        \* MAX_REQUESTS_PER_MINUTE
    Window,         \* the minute
    MaxTime         \* bound on the clock: later it goes on only for the message
                    \* being checked, and no message begins

(* malformed: a tag missing or twice; invalid: dkim.ValidationError;       *)
(* broken: another exception of dkimpy; misnamed: the name of its key is   *)
(* refused; good and bad: with its key it verifies, or not; weak: with its *)
(* key dkimpy raises an exception.                                         *)
Kinds == {"malformed", "invalid", "broken", "misnamed", "good", "bad", "weak"}

ASSUME MailCheckConstants ==
    /\ Contents \subseteq Content
    /\ HeaderLists \subseteq Seq(Header)
    /\ SignatureLists \subseteq Seq(Kinds)
    /\ MaxSignatures \in Nat /\ MaxQueries \in Nat
    /\ QueryFloor \in Nat \ {0} /\ QueryTime \in Nat \ {0}
    /\ TotalTime \in Nat \ {0} /\ Operations \in Nat \ {0}
    /\ RateMax \in Nat \ {0} /\ Window \in Nat \ {0} /\ MaxTime \in Nat

VARIABLES
    now,      \* the monotonic clock of the host
    pc,       \* where the worker is
    sigs,     \* DKIM-Signature headers of the message
    index,    \* the signature being verified
    results,  \* their results so far
    got,      \* history: what the lookup of each signature gave
    budget,   \* _DnsBudget
    request,  \* the request in flight: how long and until when its present
              \* socket operation is waited for, and how many are left
    risk,     \* what the last message was found to be
    thread,   \* handler threads of the resolver
    times,    \* REQUEST_TIMES
    admitted, \* history: the times of all requests admitted, in this order
    latest    \* history: the latest time with which the limiter was asked

worker == <<pc, sigs, index, results, got, budget, request, risk>>
limiter == <<times, admitted, latest>>
vars == <<now, worker, thread, limiter>>

Results == {"", "pass", "fail", "temperror", "permerror"}
Lookups == {"unasked", "key", "nokey", "temporary", "permanent"}
Budget == [queries : Nat, last : {"none", "temporary", "permanent"}, started : Nat]
Thread == [pc : {"free", "accepted", "stamped", "resolving"}, at : Nat,
           waited : BOOLEAN]
Free == [pc |-> "free", at |-> 0, waited |-> FALSE]
Request == [timeout : Nat, left : Nat, deadline : Nat]
NoRequest == [timeout |-> 0, left |-> 0, deadline |-> 0]
NewBudget(n) == [queries |-> 0, last |-> "none", started |-> n]

(* The state has its shape; the worker waits exactly for what is served.   *)
TypeOK ==
    /\ now \in Nat
    /\ pc \in {"idle", "verify", "waiting"}
    /\ sigs \in Seq(Kinds)
    /\ index \in 1..Len(sigs) + 1
    /\ results \in [DOMAIN sigs -> Results]
    /\ got \in [DOMAIN sigs -> Lookups]
    /\ budget \in Budget
    /\ request \in Request
    /\ risk \in {"unknown", "refused", "high", "medium", "low"}
    /\ thread \in [Threads -> Thread]
    /\ times \in Seq(Nat) /\ Len(times) <= RateMax
    /\ admitted \in Seq(Nat) /\ latest \in Nat
    /\ pc = "waiting" => index \in DOMAIN sigs
    /\ \A t \in Threads : thread[t].waited => pc = "waiting" /\ thread[t].pc # "free"
    /\ pc = "waiting" => \E t \in Threads : thread[t].waited
    /\ \A t, u \in Threads : thread[t].waited /\ thread[u].waited => t = u

Init ==
    /\ now = 0 /\ pc = "idle"
    /\ sigs = <<>> /\ index = 1 /\ results = <<>> /\ got = <<>>
    /\ budget = NewBudget(0) /\ request = NoRequest /\ risk = "unknown"
    /\ thread = [t \in Threads |-> Free]
    /\ times = <<>> /\ admitted = <<>> /\ latest = 0

-----------------------------------------------------------------------------
Smaller(a, b) == IF a < b THEN a ELSE b
Larger(a, b) == IF a < b THEN b ELSE a

(* Time passes; no socket operation is waited for beyond its deadline. *)
Tick ==
    /\ now < CASE pc = "waiting" -> request.deadline
               [] pc = "verify" -> Larger(MaxTime, budget.started + TotalTime)
               [] OTHER -> MaxTime
    /\ now' = now + 1
    /\ UNCHANGED <<worker, thread, limiter>>

(* A message that is too large is refused before anything else. *)
RefuseLarge ==
    /\ pc = "idle"
    /\ risk' = "refused"
    /\ UNCHANGED <<now, pc, sigs, index, results, got, budget, request, thread, limiter>>

(* With too many signatures none is verified. *)
StartMessage(s) ==
    /\ pc = "idle" /\ now <= MaxTime
    /\ pc' = "verify" /\ sigs' = s
    /\ index' = IF Len(s) > MaxSignatures THEN Len(s) + 1 ELSE 1
    /\ results' = [i \in DOMAIN s |-> ""]
    /\ got' = [i \in DOMAIN s |-> "unasked"]
    /\ budget' = NewBudget(now)
    /\ risk' = "unknown"
    /\ UNCHANGED <<now, request, thread, limiter>>

Ended(result, lookup) ==
    /\ results' = [results EXCEPT ![index] = result]
    /\ got' = [got EXCEPT ![index] = lookup]
    /\ index' = index + 1 /\ pc' = "verify"
    /\ request' = NoRequest
    /\ UNCHANGED <<sigs, risk>>

Verifying == pc = "verify" /\ index \in DOMAIN sigs
Kind == sigs[index]

(* last_error is forgotten before a signature is verified. *)
Stale(b) == b
Fresh(b) == [b EXCEPT !.last = "none"]

(* Decided without a key. *)
Offline == [malformed |-> "permerror", broken |-> "permerror", invalid |-> "fail"]
VerifyOffline ==
    /\ Verifying /\ Kind \in DOMAIN Offline
    /\ Ended(Offline[Kind], "unasked")
    /\ budget' = IF Kind = "malformed" THEN budget ELSE Fresh(budget)
    /\ UNCHANGED <<now, thread, limiter>>

OutcomeOfAnyError(valid, last) ==
    IF valid THEN "pass" ELSE IF last = "none" THEN "fail" ELSE "permerror"
Outcome(valid, last) ==
    IF valid THEN "pass"
    ELSE IF last = "temporary" THEN "temperror"
    ELSE IF last = "permanent" THEN "permerror"
    ELSE "fail"

RemainingPerQuery == TotalTime
Remaining == TotalTime - (now - budget.started)

(* lookup() returns None by itself. *)
LookupError ==
    IF budget.queries >= MaxQueries THEN "permanent"
    ELSE IF Remaining <= 0 THEN "temporary"
    ELSE IF Kind = "misnamed" THEN "permanent"
    ELSE "none"

LookupRefused ==
    /\ Verifying /\ Kind \notin DOMAIN Offline /\ LookupError # "none"
    /\ budget' = [Fresh(budget) EXCEPT !.queries = @ + 1, !.last = LookupError]
    /\ Ended(Outcome(FALSE, LookupError), LookupError)
    /\ UNCHANGED <<now, thread, limiter>>

(* How long a query begun with r left of the budget waits for each of its  *)
(* socket operations.                                                      *)
Patience(r) == Smaller(Larger(r, QueryFloor), QueryTime)

Ask(t) ==
    /\ Verifying /\ Kind \notin DOMAIN Offline /\ LookupError = "none"
    /\ thread[t] = Free
    /\ pc' = "waiting"
    /\ budget' = [Fresh(budget) EXCEPT !.queries = @ + 1]
    /\ request' = [timeout |-> Patience(Remaining), left |-> Operations - 1,
                   deadline |-> now + Patience(Remaining)]
    /\ thread' = [thread EXCEPT ![t] = [pc |-> "accepted", at |-> 0, waited |-> TRUE]]
    /\ UNCHANGED <<now, sigs, index, results, got, risk, limiter>>

(* A socket operation succeeds, the next may take as long again. The last  *)
(* one ends the request: an answer is received with its last piece.        *)
Progress ==
    /\ pc = "waiting" /\ request.left > 0
    /\ request' = [request EXCEPT !.left = @ - 1, !.deadline = now + request.timeout]
    /\ UNCHANGED <<now, pc, sigs, index, results, got, budget, risk, thread, limiter>>

(* What the request gave ends the verification of the signature; an error  *)
(* is a DnsTemporaryError.                                                 *)
Receive(lookup) ==
    LET last == IF lookup = "temporary" THEN lookup ELSE budget.last
        key == lookup = "key" IN
    /\ budget' = [budget EXCEPT !.last = last]
    /\ Ended(IF Kind = "weak" /\ key THEN "permerror"
             ELSE Outcome(Kind = "good" /\ key, last), lookup)

StillWaited == thread
Unwaited == [t \in Threads |-> [thread[t] EXCEPT !.waited = FALSE]]

TimeoutMissed ==
    /\ pc = "waiting" /\ now > request.deadline
    /\ Receive("temporary")
    /\ thread' = Unwaited
    /\ UNCHANGED <<now, limiter>>
Timeout ==
    /\ pc = "waiting" /\ now >= request.deadline
    /\ Receive("temporary")
    /\ thread' = Unwaited
    /\ UNCHANGED <<now, limiter>>

(* The rest of parse_message, and assess. *)
Dkim ==
    IF sigs = <<>> THEN "none"
    ELSE IF Len(sigs) > MaxSignatures THEN "permerror"
    ELSE Overall({results[i] : i \in DOMAIN sigs})

Verified == pc = "verify" /\ index > Len(sigs)
Forget ==
    /\ pc' = "idle"
    /\ sigs' = <<>> /\ index' = 1 /\ results' = <<>> /\ got' = <<>>
    /\ budget' = NewBudget(0) /\ request' = NoRequest

Assess(c, h) ==
    /\ Verified
    /\ risk' = IF Refused(c) THEN "refused" ELSE Risk(c, Claims(h), Dkim)
    /\ Forget
    /\ UNCHANGED <<now, thread, limiter>>

(* The worker is killed; its request goes on. *)
WorkerRestarts ==
    /\ pc # "idle"
    /\ Forget /\ risk' = "unknown"
    /\ thread' = Unwaited
    /\ UNCHANGED <<now, limiter>>

-----------------------------------------------------------------------------
(* The resolver *)

(* do_GET, up to the call of time.monotonic(). *)
Stamp(t) ==
    /\ thread[t].pc = "accepted"
    /\ thread' = [thread EXCEPT ![t].pc = "stamped", ![t].at = now]
    /\ UNCHANGED <<now, worker, limiter>>

(* The queue after the old entries are dropped from its head. *)
FirstRecent(n) ==
    FirstOf({k \in 1..Len(times) + 1 : k <= Len(times) => times[k] > n - Window})
Recent(n) == SubSeq(times, FirstRecent(n), Len(times))

(* A thread answers and ends; nobody listens if the worker gave up. *)
Respond(t, lookup) ==
    /\ thread' = [thread EXCEPT ![t] = Free]
    /\ IF thread[t].waited THEN Receive(lookup) ELSE UNCHANGED worker

(* _rate_allowed *)
FullTooLate(n) == Len(Recent(n)) > RateMax
Full(n) == Len(Recent(n)) >= RateMax

Later(n) == IF n > latest THEN n ELSE latest

Admit(t) ==
    LET at == thread[t].at IN
    /\ thread[t].pc = "stamped" /\ ~Full(at)
    /\ times' = Append(Recent(at), at)
    /\ admitted' = Append(admitted, at)
    /\ latest' = Later(at)
    /\ thread' = [thread EXCEPT ![t].pc = "resolving"]
    /\ UNCHANGED <<now, worker>>

Deny(t) ==
    /\ thread[t].pc = "stamped" /\ Full(thread[t].at)
    /\ times' = Recent(thread[t].at)
    /\ latest' = Later(thread[t].at)
    /\ Respond(t, "temporary")
    /\ UNCHANGED <<now, admitted>>

(* resolve_dkim_txt: a record; NXDOMAIN or no TXT record; anything else,   *)
(* an ambiguous or oversized answer included, is an error of the resolver. *)
Answers == [record |-> "key", nothing |-> "nokey", error |-> "temporary"]
Resolve(t, answer) ==
    /\ thread[t].pc = "resolving"
    /\ Respond(t, Answers[answer])
    /\ UNCHANGED <<now, limiter>>

(* The resolver restarts: threads and queue are gone. *)
ResolverRestarts ==
    /\ thread' = [t \in Threads |-> Free]
    /\ times' = <<>> /\ admitted' = <<>> /\ latest' = 0
    /\ IF pc = "waiting" THEN Receive("temporary") ELSE UNCHANGED worker
    /\ UNCHANGED now

-----------------------------------------------------------------------------
WorkerStep ==
    \/ VerifyOffline \/ LookupRefused \/ Timeout
    \/ \E t \in Threads : Ask(t)
    \/ \E c \in Contents, h \in HeaderLists : Assess(c, h)

Next ==
    \/ Tick \/ RefuseLarge \/ Progress
    \/ \E s \in SignatureLists : StartMessage(s)
    \/ WorkerStep \/ WorkerRestarts
    \/ \E t \in Threads :
           \/ Stamp(t) \/ Admit(t) \/ Deny(t)
           \/ \E answer \in DOMAIN Answers : Resolve(t, answer)
    \/ ResolverRestarts

(* The worker goes on, and so does the clock; the resolver need not.       *)
Fairness == WF_vars(WorkerStep) /\ WF_vars(Tick)

Spec == Init /\ [][Next]_vars /\ Fairness

-----------------------------------------------------------------------------
(* One message never asks more than MAX_DNS_QUERIES keys. However many of  *)
(* its queries are slow, none begins after DNS_TOTAL_TIMEOUT_SECONDS: only *)
(* a query begun with a rest r of the budget may end later, and later by   *)
(* no more than its own socket operations wait, the floor of their timeout *)
(* included (_DnsBudget.lookup 125-146, resolve_txt 88).                   *)
Overdue(r) == TotalTime - r + Operations * Patience(r)
BudgetKept ==
    pc = "waiting" =>
        /\ budget.queries <= MaxQueries
        /\ \E r \in 1..TotalTime : now <= budget.started + Overdue(r)

(* A signature is judged by itself: by its own form and by what its own    *)
(* lookup gave, whatever happened to the signatures before it              *)
(* (verify_dkim 205-222).                                                  *)
OwnResult(k, lookup) ==
    CASE k \in {"malformed", "broken"} -> "permerror"
      [] k = "invalid" -> "fail"
      [] k \in {"misnamed", "good", "bad", "weak"} ->
           CASE lookup = "temporary" -> "temperror"
             [] lookup = "permanent" -> "permerror"
             [] lookup = "key" /\ k = "weak" -> "permerror"
             [] lookup = "key" /\ k = "good" -> "pass"
             [] OTHER -> "fail"
SignaturesAreJudgedAlone ==
    Verified /\ Len(sigs) <= MaxSignatures =>
        \A i \in DOMAIN sigs : results[i] = OwnResult(sigs[i], got[i])

(* An outage of the resolver or of DNS never makes a message guilty of a   *)
(* DKIM failure: that takes a signature that is wrong while no lookup      *)
(* failed temporarily (verify_dkim 224-233, assess 326-329).               *)
OutageIsNotGuilt ==
    Verified /\ "temporary" \in {got[i] : i \in DOMAIN sigs} =>
        Dkim \in {"pass", "temperror"}

(* Low risk is earned: nothing in the message raises a doubt, and either   *)
(* the worker verified a signature with its key or, when there is none,    *)
(* the first trusted server claims a DMARC pass (assess 344-349).          *)
LowIsEarned ==
    [][risk' = "low" /\ risk # "low" =>
         \A c \in Contents, h \in HeaderLists : Assess(c, h) =>
           /\ Signals(c) = {} /\ c.sender
           /\ \/ \E i \in DOMAIN sigs : sigs[i] = "good" /\ got[i] = "key"
              \/ /\ sigs = <<>>
                 /\ \E i \in DOMAIN h :
                      /\ h[i].server \in Trusted /\ h[i].says["dmarc"] = "pass"
                      /\ \A j \in 1..i - 1 : h[j].server \notin Trusted]_vars

(* The limiter is a sliding window: when a request is admitted that no     *)
(* other has overtaken between reading the clock and taking the lock, at   *)
(* most RateMax were admitted in its window (_rate_allowed 44-51).         *)
RateBounded ==
    [][\A t \in Threads :
         thread[t].pc = "stamped" /\ thread'[t].pc = "resolving"
           /\ thread[t].at >= latest =>
             Cardinality({i \in DOMAIN admitted' :
                            admitted'[i] > thread[t].at - Window}) <= RateMax]_vars

(* What the lookup of a signature may give, whatever happens to the others *)
(* but that each of them that asks for a key uses up the budget.           *)
Asked(s, i) == Cardinality({j \in 1..i - 1 : s[j] \notin DOMAIN Offline})
PossibleLookup(s, i) ==
    IF s[i] \in DOMAIN Offline THEN {"unasked"}
    ELSE IF Asked(s, i) >= MaxQueries THEN {"permanent"}
    ELSE IF s[i] = "misnamed" THEN {"permanent", "temporary"}
    ELSE {"key", "nokey", "temporary"}
LookupsOf(s) ==
    {g \in [DOMAIN s -> Lookups] : \A i \in DOMAIN s : g[i] \in PossibleLookup(s, i)}

Finding(s, g) ==
    IF s = <<>> THEN "none" ELSE Overall({OwnResult(s[i], g[i]) : i \in DOMAIN s})

(* The check of a message is a judgement in two steps, of its signatures   *)
(* and of the message, although timeouts, restarts, late answers and the   *)
(* rate limiter come between (verify_dkim 186-233, _DnsBudget.lookup,      *)
(* assess).                                                                *)
PossibleFindings ==
    [s \in SignatureLists |->
        IF Len(s) > MaxSignatures THEN {"permerror"}
        ELSE {Finding(s, g) : g \in LookupsOf(s)}]
PossibleRisks ==
    [f \in {"none", "pass", "fail", "temperror", "permerror"} |->
        {IF Refused(c) THEN "refused" ELSE Risk(c, Claims(h), f) :
            c \in Contents, h \in HeaderLists}]
Found == IF Verified THEN Dkim ELSE "pending"

TheVerdict == INSTANCE Verdict WITH
    Lists <- SignatureLists, Findings <- PossibleFindings, Risks <- PossibleRisks,
    busy <- pc # "idle", sigs <- sigs, found <- Found, risk <- risk
ImplementsVerdict == TheVerdict!Spec

(* The check of a message ends although the resolver may never answer.     *)
CheckEnds == (pc = "verify") ~> (pc = "idle")

=============================================================================
