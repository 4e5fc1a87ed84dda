---------------------------- MODULE MailCheckProofs ----------------------------
(***************************************************************************)
(* Theorems about MailCheck, for every message, every limit and every      *)
(* number of handler threads.                                              *)
(***************************************************************************)
EXTENDS MailCheck, FiniteSetTheorems, SequenceTheorems, WellFoundedInduction, TLAPS

(* FirstOf is what it is used for. *)
LEMMA FirstOfIsFirst ==
  ASSUME NEW S, S \subseteq Nat, S # {}
  PROVE  /\ FirstOf(S) \in S
         /\ \A j \in S : FirstOf(S) <= j
<1> DEFINE R == OpToRel(<, Nat)
<1>1. IsWellFoundedOn(R, Nat)
  BY NatLessThanWellFounded
<1>2. \A x, y \in Nat : <<y, x>> \in R <=> y < x
  BY DEF OpToRel
<1> HIDE DEF R
<1>3. \E x \in S : \A y \in S : ~(<<y, x>> \in R)
  BY <1>1, WFMin, Zenon
<1>4. PICK x \in S : \A y \in S : ~(<<y, x>> \in R)
  BY <1>3
<1>5. ASSUME NEW y \in S
      PROVE  x <= y
  <2>1. x \in Nat /\ y \in Nat
    OBVIOUS
  <2>2. ~(y < x)
    BY <1>2, <1>4, <2>1, Zenon
  <2>3. QED
    BY <2>1, <2>2
<1>6. QED
  BY <1>5 DEF FirstOf

-----------------------------------------------------------------------------
(* The rate limiter.                                                       *)

(* The queue is what is left of all requests admitted: the ones that are   *)
(* gone were old for the latest time with which the limiter was asked.     *)
QueueIs(f) ==
    /\ Len(admitted) = f + Len(times)
    /\ \A i \in 1..Len(times) : times[i] = admitted[f + i]
    /\ \A i \in 1..f : admitted[i] <= latest - Window
LimiterInv ==
    /\ now \in Nat /\ latest \in Nat
    /\ times \in Seq(Nat) /\ admitted \in Seq(Nat)
    /\ thread \in [Threads -> Thread]
    /\ \E f \in Nat : QueueIs(f)

LEMMA RecentOf ==
  ASSUME times \in Seq(Nat), NEW n \in Nat
  PROVE  /\ FirstRecent(n) \in 1..Len(times) + 1
         /\ \A i \in 1..FirstRecent(n) - 1 : times[i] <= n - Window
         /\ Recent(n) \in Seq(Nat)
         /\ Len(Recent(n)) = Len(times) - FirstRecent(n) + 1
         /\ \A i \in 1..Len(Recent(n)) : Recent(n)[i] = times[FirstRecent(n) + i - 1]
<1> DEFINE K == {k \in 1..Len(times) + 1 : k <= Len(times) => times[k] > n - Window}
           k == FirstRecent(n)
<1>0. Len(times) \in Nat /\ Window \in Nat /\ \A i \in 1..Len(times) : times[i] \in Nat
  BY MailCheckConstants
<1>1. K \subseteq Nat /\ Len(times) + 1 \in K
  BY <1>0
<1>2. k \in K /\ \A j \in K : k <= j
  BY <1>1, FirstOfIsFirst DEF FirstRecent
<1>3. ASSUME NEW i \in 1..k - 1
      PROVE  times[i] <= n - Window
  <2>1. i \notin K /\ i \in 1..Len(times)
    BY <1>0, <1>2, <1>3
  <2>2. ~(times[i] > n - Window)
    BY <1>0, <2>1
  <2>3. times[i] \in Nat
    BY <1>0, <2>1
  <2>4. QED
    BY <1>0, <2>2, <2>3
<1>4. k \in 1..Len(times) + 1
  BY <1>2
<1> HIDE DEF k, K
<1>5. /\ SubSeq(times, k, Len(times)) \in Seq(Nat)
      /\ Len(SubSeq(times, k, Len(times))) = Len(times) - k + 1
      /\ \A i \in 1..Len(times) - k + 1 :
            SubSeq(times, k, Len(times))[i] = times[k + i - 1]
  <2>1. \A i \in k..Len(times) : times[i] \in Nat
    BY <1>0, <1>4
  <2>2. k \in Int /\ Len(times) \in Int
    BY <1>0, <1>4
  <2>3. /\ SubSeq(times, k, Len(times)) \in Seq(Nat)
        /\ Len(SubSeq(times, k, Len(times))) =
             IF k <= Len(times) THEN Len(times) - k + 1 ELSE 0
        /\ \A i \in 1..Len(times) - k + 1 :
              SubSeq(times, k, Len(times))[i] = times[k + i - 1]
    BY <2>1, <2>2, SubSeqProperties
  <2>4. QED
    BY <1>0, <1>4, <2>3
<1>6. QED
  BY <1>3, <1>4, <1>5 DEF Recent, k

(* The limiter asked with time n: what it drops is old at that time. *)
LEMMA QueueAsked ==
  ASSUME LimiterInv, NEW n \in Nat
  PROVE  \E g \in Nat :
           /\ Len(admitted) = g + Len(Recent(n))
           /\ \A i \in 1..Len(Recent(n)) : Recent(n)[i] = admitted[g + i]
           /\ \A i \in 1..g : admitted[i] <= Later(n) - Window
<1> USE DEF LimiterInv
<1>1. PICK f \in Nat : QueueIs(f)
  OBVIOUS
<1> DEFINE k == FirstRecent(n)
           g == f + k - 1
<1>2. /\ k \in 1..Len(times) + 1
      /\ \A i \in 1..k - 1 : times[i] <= n - Window
      /\ Len(Recent(n)) = Len(times) - k + 1
      /\ \A i \in 1..Len(Recent(n)) : Recent(n)[i] = times[k + i - 1]
  BY RecentOf
<1> HIDE DEF k
<1>3. Len(times) \in Nat /\ Len(admitted) \in Nat /\ Window \in Nat
      /\ \A i \in 1..Len(admitted) : admitted[i] \in Nat
  BY MailCheckConstants
<1>4. g \in Nat /\ Len(admitted) = g + Len(Recent(n))
  <2>1. Len(admitted) = f + Len(times) /\ f \in Nat
    BY <1>1 DEF QueueIs
  <2>2. k \in Nat /\ k >= 1 /\ Len(Recent(n)) = Len(times) - k + 1
    BY <1>2, <1>3
  <2>3. QED
    BY <1>3, <2>1, <2>2
<1>5. ASSUME NEW i \in 1..Len(Recent(n))
      PROVE  Recent(n)[i] = admitted[g + i]
  <2>1. Recent(n)[i] = times[k + i - 1]
    BY <1>2
  <2>2. k + i - 1 \in 1..Len(times) /\ f + (k + i - 1) = g + i
    BY <1>2, <1>3
  <2>3. QED
    BY <1>1, <2>1, <2>2 DEF QueueIs
<1>6. ASSUME NEW i \in 1..g
      PROVE  admitted[i] <= Later(n) - Window
  <2>1. n <= Later(n) /\ latest <= Later(n) /\ Later(n) \in Nat
    BY DEF Later
  <2>2. i \in 1..Len(admitted) /\ admitted[i] \in Nat
    BY <1>2, <1>3, <1>4
  <2>3. CASE i \in 1..f
    <3>1. admitted[i] <= latest - Window
      BY <1>1, <2>3 DEF QueueIs
    <3>2. QED
      BY <1>3, <2>1, <2>2, <3>1
  <2>4. CASE i \notin 1..f
    <3>1. i - f \in 1..k - 1 /\ i - f \in 1..Len(times) /\ f + (i - f) = i
      BY <1>2, <1>3, <2>4
    <3>2. times[i - f] = admitted[f + (i - f)]
      BY <1>1, <3>1 DEF QueueIs
    <3>3. times[i - f] <= n - Window
      BY <1>2, <3>1
    <3>4. admitted[i] <= n - Window
      BY <3>1, <3>2, <3>3
    <3>5. QED
      BY <1>3, <2>1, <2>2, <3>4
  <2>5. QED
    BY <2>3, <2>4
<1>7. QED
  BY <1>4, <1>5, <1>6

(* Every step is one of these. *)
LEMMA NextCases ==
  ASSUME Next
  PROVE  \/ Tick \/ Progress \/ RefuseLarge \/ VerifyOffline \/ LookupRefused \/ Timeout
         \/ WorkerRestarts \/ ResolverRestarts
         \/ \E s \in SignatureLists : StartMessage(s)
         \/ \E c \in Contents, h \in HeaderLists : Assess(c, h)
         \/ \E t \in Threads : Ask(t)
         \/ \E t \in Threads : Stamp(t)
         \/ \E t \in Threads : Admit(t)
         \/ \E t \in Threads : Deny(t)
         \/ \E t \in Threads, answer \in DOMAIN Answers : Resolve(t, answer)
BY DEF Next, WorkerStep

LEMMA LimiterInit == Init => LimiterInv
<1> SUFFICES ASSUME Init PROVE LimiterInv
  OBVIOUS
<1>1. QueueIs(0)
  BY DEF Init, QueueIs
<1>2. thread \in [Threads -> Thread]
  BY DEF Init, Free, Thread
<1>3. QED
  BY <1>1, <1>2 DEF Init, LimiterInv

(* The records of the threads keep their type. *)
LEMMA ThreadStep ==
  ASSUME thread \in [Threads -> Thread], now \in Nat, [Next]_vars
  PROVE  thread' \in [Threads -> Thread] /\ now' \in Nat
<1>1. Free \in Thread /\ Unwaited \in [Threads -> Thread]
  BY DEF Free, Thread, Unwaited
<1>2. ASSUME NEW t \in Threads, Ask(t) \/ Stamp(t) \/ Admit(t)
      PROVE  thread' \in [Threads -> Thread]
  <2>1. CASE Ask(t)
    BY <2>1 DEF Ask, Thread
  <2>2. CASE Stamp(t)
    <3>1. thread' = [thread EXCEPT ![t] = [thread[t] EXCEPT !.pc = "stamped", !.at = now]]
      BY <2>2 DEF Stamp
    <3>2. [thread[t] EXCEPT !.pc = "stamped", !.at = now] \in Thread
      BY DEF Thread
    <3>3. QED
      BY <3>1, <3>2
  <2>3. CASE Admit(t)
    BY <2>3 DEF Admit, Thread
  <2>4. QED
    BY <1>2, <2>1, <2>2, <2>3
<1>3. ASSUME NEW t \in Threads, NEW l, Respond(t, l)
      PROVE  thread' \in [Threads -> Thread]
  BY <1>1, <1>3 DEF Respond
<1>4. thread' \in [Threads -> Thread]
  <2>1. \A t \in Threads : Deny(t) => thread' \in [Threads -> Thread]
    BY <1>3 DEF Deny
  <2>2. \A t \in Threads, a \in DOMAIN Answers :
           Resolve(t, a) => thread' \in [Threads -> Thread]
    BY <1>3 DEF Resolve
  <2>3. QED
    BY NextCases, <1>1, <1>2, <2>1, <2>2
       DEF Tick, Progress, RefuseLarge, VerifyOffline, LookupRefused, Timeout,
           WorkerRestarts, ResolverRestarts, StartMessage, Assess, vars
<1>5. now' \in Nat
  <2>1. Tick => now' = now + 1
    BY DEF Tick
  <2>2. /\ \A q : StartMessage(q) => now' = now
        /\ \A c, h : Assess(c, h) => now' = now
        /\ \A t : Ask(t) \/ Stamp(t) \/ Admit(t) \/ Deny(t) => now' = now
        /\ \A t, a : Resolve(t, a) => now' = now
        /\ Progress \/ RefuseLarge \/ VerifyOffline \/ LookupRefused \/ Timeout
             \/ WorkerRestarts \/ ResolverRestarts => now' = now
    BY DEF StartMessage, Assess, Ask, Stamp, Admit, Deny, Resolve, Progress, RefuseLarge,
           VerifyOffline, LookupRefused, Timeout, WorkerRestarts, ResolverRestarts
  <2>3. CASE Next
    BY NextCases, <2>1, <2>2, <2>3
  <2>4. CASE UNCHANGED vars
    BY <2>4 DEF vars
  <2>5. QED
    BY <2>3, <2>4
<1>6. QED
  BY <1>4, <1>5

LEMMA LimiterStep ==
  ASSUME LimiterInv, [Next]_vars
  PROVE  LimiterInv'
<1>0. thread' \in [Threads -> Thread] /\ now' \in Nat
  BY ThreadStep DEF LimiterInv
<1>1. ASSUME NEW t \in Threads, Admit(t)
      PROVE  LimiterInv'
  <2> DEFINE n == thread[t].at
             r == Recent(n)
  <2>1. /\ n \in Nat /\ times' = Append(r, n) /\ admitted' = Append(admitted, n)
        /\ latest' = Later(n)
    BY <1>1 DEF Admit, LimiterInv, Thread
  <2>2. PICK g \in Nat :
           /\ Len(admitted) = g + Len(r)
           /\ \A i \in 1..Len(r) : r[i] = admitted[g + i]
           /\ \A i \in 1..g : admitted[i] <= Later(n) - Window
    BY <2>1, QueueAsked
  <2>3. r \in Seq(Nat) /\ admitted \in Seq(Nat) /\ Later(n) \in Nat
    BY <2>1, RecentOf DEF LimiterInv, Later
  <2> HIDE DEF n, r
  <2>4. /\ times' \in Seq(Nat) /\ admitted' \in Seq(Nat) /\ latest' \in Nat
        /\ Len(times') = Len(r) + 1 /\ Len(admitted') = Len(admitted) + 1
        /\ times'[Len(r) + 1] = n /\ admitted'[Len(admitted) + 1] = n
        /\ \A i \in 1..Len(r) : times'[i] = r[i]
        /\ \A i \in 1..Len(admitted) : admitted'[i] = admitted[i]
    BY <2>1, <2>3
  <2>5. Len(r) \in Nat /\ Len(admitted) \in Nat
    BY <2>3
  <2>6. ASSUME NEW i \in 1..Len(times')
        PROVE  times'[i] = admitted'[g + i]
    <3>1. CASE i = Len(r) + 1
      BY <2>2, <2>4, <2>5, <3>1
    <3>2. CASE i \in 1..Len(r)
      <4>1. g + i \in 1..Len(admitted)
        BY <2>2, <2>5, <3>2
      <4>2. QED
        BY <2>2, <2>4, <3>2, <4>1
    <3>3. QED
      BY <2>4, <2>5, <3>1, <3>2
  <2>7. ASSUME NEW i \in 1..g
        PROVE  admitted'[i] <= latest' - Window
    <3>1. i \in 1..Len(admitted)
      BY <2>2, <2>5
    <3>2. QED
      BY <2>1, <2>2, <2>4, <3>1
  <2>8. Len(admitted') = g + Len(times')
    BY <2>2, <2>4, <2>5
  <2>9. QED
    BY <1>0, <2>4, <2>6, <2>7, <2>8 DEF LimiterInv, QueueIs
<1>2. ASSUME NEW t \in Threads, Deny(t)
      PROVE  LimiterInv'
  <2> DEFINE n == thread[t].at
  <2>1. /\ n \in Nat /\ times' = Recent(n) /\ admitted' = admitted /\ latest' = Later(n)
    BY <1>2 DEF Deny, LimiterInv, Thread
  <2>2. Recent(n) \in Seq(Nat) /\ admitted \in Seq(Nat) /\ Later(n) \in Nat
    BY <2>1, RecentOf DEF LimiterInv, Later
  <2>3. \E g \in Nat : QueueIs(g)'
    BY <2>1, QueueAsked DEF QueueIs
  <2>4. QED
    BY <1>0, <2>1, <2>2, <2>3 DEF LimiterInv
<1>3. CASE ResolverRestarts
  <2>1. QueueIs(0)'
    BY <1>3 DEF ResolverRestarts, QueueIs
  <2>2. QED
    BY <1>0, <1>3, <2>1 DEF ResolverRestarts, LimiterInv
<1>4. CASE UNCHANGED limiter
  BY <1>0, <1>4 DEF limiter, LimiterInv, QueueIs
<1>5. QED
  BY NextCases, <1>1, <1>2, <1>3, <1>4
     DEF Tick, Progress, RefuseLarge, VerifyOffline, LookupRefused, Timeout,
         WorkerRestarts, StartMessage, Assess, Ask, Stamp, Resolve, vars

LEMMA AdmitWithin ==
  ASSUME LimiterInv, NEW t \in Threads, Admit(t), thread[t].at >= latest
  PROVE  Cardinality({i \in DOMAIN admitted' : admitted'[i] > thread[t].at - Window})
           <= RateMax
<1> DEFINE n == thread[t].at
           r == Recent(n)
           W == {i \in DOMAIN admitted' : admitted'[i] > n - Window}
<1>1. /\ n \in Nat /\ admitted' = Append(admitted, n) /\ Later(n) = n
      /\ ~(Len(r) >= RateMax)
  BY DEF Admit, LimiterInv, Thread, Later, Full
<1>2. PICK g \in Nat :
         /\ Len(admitted) = g + Len(r)
         /\ \A i \in 1..g : admitted[i] <= n - Window
  BY <1>1, QueueAsked
<1>3. r \in Seq(Nat) /\ admitted \in Seq(Nat) /\ Len(r) \in Nat /\ Len(admitted) \in Nat
  <2>1. times \in Seq(Nat) /\ admitted \in Seq(Nat)
    BY DEF LimiterInv
  <2>2. r \in Seq(Nat)
    BY <1>1, <2>1, RecentOf
  <2>3. QED
    BY <2>1, <2>2
<1> HIDE DEF n, r
<1>4. /\ DOMAIN admitted' = 1..Len(admitted) + 1
      /\ \A i \in 1..Len(admitted) : admitted'[i] = admitted[i] /\ admitted[i] \in Nat
  BY <1>1, <1>3
<1>5. W \subseteq g + 1..Len(admitted) + 1
  <2> SUFFICES ASSUME NEW i \in W
               PROVE  i \in g + 1..Len(admitted) + 1
    OBVIOUS
  <2>1. i \in 1..Len(admitted) + 1 /\ admitted'[i] > n - Window
    BY <1>4
  <2>2. CASE i \in 1..g
    <3>1. i \in 1..Len(admitted)
      BY <1>2, <1>3, <2>2
    <3>2. admitted[i] <= n - Window /\ admitted[i] > n - Window /\ admitted[i] \in Nat
      BY <1>2, <1>4, <2>1, <2>2, <3>1
    <3>3. QED
      BY <1>1, <3>2, MailCheckConstants
  <2>3. QED
    BY <1>3, <2>1, <2>2
<1>6. /\ IsFiniteSet(g + 1..Len(admitted) + 1)
      /\ Cardinality(g + 1..Len(admitted) + 1) = Len(r) + 1
  <2>1. g + 1 \in Int /\ Len(admitted) + 1 \in Int
    BY <1>3
  <2>2. /\ IsFiniteSet(g + 1..Len(admitted) + 1)
        /\ Cardinality(g + 1..Len(admitted) + 1) =
             IF g + 1 > Len(admitted) + 1 THEN 0 ELSE Len(admitted) + 1 - (g + 1) + 1
    BY <2>1, FS_Interval
  <2>3. QED
    BY <1>2, <1>3, <2>2
<1>7. Cardinality(W) <= Len(r) + 1 /\ Cardinality(W) \in Nat
  BY <1>5, <1>6, FS_Subset, FS_CardinalityType
<1>8. Len(r) + 1 <= RateMax
  BY <1>1, <1>3, MailCheckConstants
<1>9. Cardinality(W) <= RateMax
  <2>1. RateMax \in Nat
    BY MailCheckConstants
  <2> HIDE DEF W
  <2>2. QED
    BY <1>3, <1>7, <1>8, <2>1
<1>10. QED
  BY <1>9 DEF n

(* The limiter admits, in the window of a request that was not overtaken,  *)
(* at most RateMax requests, however its threads interleave.               *)
THEOREM LimiterIsBounded == Spec => RateBounded
<1>1. ASSUME LimiterInv, [Next]_vars, NEW t \in Threads,
             thread[t].pc = "stamped", thread'[t].pc = "resolving", thread[t].at >= latest
      PROVE  Admit(t)
  <2>1. \A u \in Threads : thread[u] \in Thread
    BY <1>1 DEF LimiterInv
  <2>0. thread \in [Threads -> Thread] /\ thread[t] # thread'[t]
    BY <1>1 DEF LimiterInv
  <2>2. ASSUME NEW u \in Threads, Ask(u) \/ Stamp(u)
        PROVE  FALSE
    <3>1. CASE Ask(u)
      <4>1. thread' = [thread EXCEPT ![u] = [pc |-> "accepted", at |-> 0, waited |-> TRUE]]
        BY <3>1 DEF Ask
      <4>2. QED
        BY <1>1, <2>0, <4>1
    <3>2. CASE Stamp(u)
      <4>1. thread[u].pc = "accepted"
            /\ thread' = [thread EXCEPT ![u] = [thread[u] EXCEPT !.pc = "stamped", !.at = now]]
        BY <3>2 DEF Stamp
      <4>2. u # t
        BY <1>1, <4>1
      <4>3. QED
        BY <2>0, <4>1, <4>2
    <3>3. QED
      BY <2>2, <3>1, <3>2
  <2>3. ASSUME NEW u \in Threads, Admit(u)
        PROVE  u = t
    <3>1. thread' = [thread EXCEPT ![u] = [thread[u] EXCEPT !.pc = "resolving"]]
      BY <2>3 DEF Admit
    <3>2. QED
      BY <2>0, <3>1
  <2>4. ASSUME NEW u \in Threads, NEW l, Respond(u, l)
        PROVE  FALSE
    <3>1. thread' = [thread EXCEPT ![u] = [pc |-> "free", at |-> 0, waited |-> FALSE]]
      BY <2>4 DEF Respond, Free
    <3>2. QED
      BY <1>1, <2>0, <3>1
  <2>5. ASSUME thread' = Unwaited
        PROVE  FALSE
    <3>1. thread'[t] = [thread[t] EXCEPT !.waited = FALSE]
      BY <2>5 DEF Unwaited
    <3>2. QED
      BY <1>1, <2>1, <3>1 DEF Thread
  <2>6. ASSUME thread' = [u \in Threads |-> Free]
        PROVE  FALSE
    BY <1>1, <2>6 DEF Free
  <2>7. ~Tick /\ ~Progress /\ ~RefuseLarge /\ ~VerifyOffline /\ ~LookupRefused /\ ~(UNCHANGED vars)
        /\ (\A q : ~StartMessage(q)) /\ (\A c, h : ~Assess(c, h))
    BY <2>0 DEF Tick, Progress, RefuseLarge, VerifyOffline, LookupRefused, StartMessage,
                Assess, vars
  <2>8. ~Timeout /\ ~WorkerRestarts /\ ~ResolverRestarts
    BY <2>5, <2>6 DEF Timeout, WorkerRestarts, ResolverRestarts
  <2>9. \A u \in Threads : ~Deny(u) /\ \A a \in DOMAIN Answers : ~Resolve(u, a)
    BY <2>4 DEF Deny, Resolve
  <2>10. QED
    BY <1>1, NextCases, <2>2, <2>3, <2>7, <2>8, <2>9
<1>2. LimiterInv /\ [Next]_vars =>
        [\A t \in Threads :
           thread[t].pc = "stamped" /\ thread'[t].pc = "resolving"
             /\ thread[t].at >= latest =>
               Cardinality({i \in DOMAIN admitted' :
                              admitted'[i] > thread[t].at - Window}) <= RateMax]_vars
  BY <1>1, AdmitWithin
<1>3. QED
  BY <1>2, LimiterInit, LimiterStep, PTL DEF Spec, RateBounded

-----------------------------------------------------------------------------
(* The worker.                                                             *)

WorkerTypes ==
    /\ pc \in {"idle", "verify", "waiting"}
    /\ sigs \in Seq(Kinds)
    /\ index \in 1..Len(sigs) + 1
    /\ results \in [DOMAIN sigs -> Results]
    /\ got \in [DOMAIN sigs -> Lookups]
    /\ budget \in Budget
    /\ request \in Request
    /\ risk \in {"unknown", "refused", "high", "medium", "low"}

(* The worker waits exactly for what is served.                            *)
Waiters ==
    /\ \A t \in Threads : thread[t].waited => pc = "waiting" /\ thread[t].pc # "free"
    /\ pc = "waiting" => \E t \in Threads : thread[t].waited
    /\ \A t, u \in Threads : thread[t].waited /\ thread[u].waited => t = u

(* The signatures behind the worker are judged, each by itself.            *)
Asking == {"misnamed", "good", "bad", "weak"}
Own ==
    /\ Len(sigs) > MaxSignatures =>
         index = Len(sigs) + 1 /\ \A i \in DOMAIN sigs : got[i] = "unasked"
    /\ Len(sigs) <= MaxSignatures =>
         \A i \in 1..index - 1 : results[i] = OwnResult(sigs[i], got[i])
    /\ \A i \in DOMAIN sigs : got[i] # "unasked" => sigs[i] \in Asking

(* The request in flight was begun with a rest r of the budget, and the    *)
(* operations it has left end in time even if each takes its whole time.   *)
InTime ==
    \E r \in 1..TotalTime :
        /\ request.timeout = Patience(r)
        /\ request.deadline + request.left * Patience(r) <= budget.started + Overdue(r)
Waiting ==
    pc = "waiting" =>
        /\ index \in DOMAIN sigs /\ Kind \in {"good", "bad", "weak"}
        /\ budget.last = "none"
        /\ budget.queries <= MaxQueries
        /\ now <= request.deadline /\ InTime

WorkerInv == WorkerTypes /\ Own /\ Waiting

(* No message has begun in the future.                                     *)
Begun == budget.started <= now

CheckInv ==
    /\ LimiterInv /\ Len(times) <= RateMax
    /\ WorkerInv /\ Waiters /\ Begun

LEMMA CheckInvTypes == CheckInv => TypeOK
BY DEF CheckInv, LimiterInv, WorkerInv, WorkerTypes, Waiting, Waiters, TypeOK

LEMMA CheckInit == Init => CheckInv
<1> SUFFICES ASSUME Init PROVE CheckInv
  OBVIOUS
<1>1. LimiterInv /\ Len(times) <= RateMax
  BY LimiterInit, MailCheckConstants DEF Init
<1>2. WorkerTypes
  BY DEF Init, WorkerTypes, NewBudget, Budget, NoRequest, Request
<1>3. Own /\ Waiting
  BY DEF Init, Own, Waiting
<1>4. Waiters /\ Begun
  BY DEF Init, Waiters, Free, Begun, NewBudget
<1>5. QED
  BY <1>1, <1>2, <1>3, <1>4 DEF CheckInv, WorkerInv

(* A verification that ends leaves the signature judged by itself.         *)
LEMMA EndedStep ==
  ASSUME WorkerInv, index \in DOMAIN sigs, NEW result \in Results, NEW lookup \in Lookups,
         result = OwnResult(Kind, lookup), lookup # "unasked" => Kind \in Asking,
         Ended(result, lookup), budget' \in Budget
  PROVE  WorkerInv'
<1>1. /\ sigs' = sigs /\ request' = NoRequest /\ risk' = risk /\ pc' = "verify"
      /\ index' = index + 1
      /\ results' = [results EXCEPT ![index] = result]
      /\ got' = [got EXCEPT ![index] = lookup]
  BY DEF Ended
<1>2. sigs \in Seq(Kinds) /\ Len(sigs) \in Nat /\ DOMAIN sigs = 1..Len(sigs)
  BY DEF WorkerInv, WorkerTypes
<1>3. /\ results \in [DOMAIN sigs -> Results] /\ got \in [DOMAIN sigs -> Lookups]
      /\ index \in 1..Len(sigs)
  BY <1>2 DEF WorkerInv, WorkerTypes
<1>4. WorkerTypes'
  <2>1. index' \in 1..Len(sigs) + 1
    BY <1>1, <1>2, <1>3
  <2>2. results' \in [DOMAIN sigs -> Results] /\ got' \in [DOMAIN sigs -> Lookups]
    BY <1>1, <1>3
  <2>3. QED
    BY <1>1, <2>1, <2>2 DEF WorkerInv, WorkerTypes, NoRequest, Request
<1>5. Own'
  <2>1. Len(sigs) <= MaxSignatures
    BY <1>2, <1>3, MailCheckConstants DEF WorkerInv, Own
  <2>2. ASSUME NEW i \in 1..index' - 1
        PROVE  results'[i] = OwnResult(sigs[i], got'[i])
    <3>1. CASE i = index
      BY <1>1, <1>2, <1>3, <3>1 DEF Kind
    <3>2. CASE i \in 1..index - 1
      <4>1. results[i] = OwnResult(sigs[i], got[i])
        BY <2>1, <3>2 DEF WorkerInv, Own
      <4>2. i # index /\ i \in DOMAIN sigs
        BY <1>2, <1>3, <3>2
      <4>3. results'[i] = results[i] /\ got'[i] = got[i]
        BY <1>1, <1>3, <4>2
      <4>4. QED
        BY <4>1, <4>3
    <3>3. QED
      BY <1>1, <1>3, <3>1, <3>2
  <2>3. ASSUME NEW i \in DOMAIN sigs, got'[i] # "unasked"
        PROVE  sigs[i] \in Asking
    <3>1. CASE i = index
      BY <1>1, <1>3, <2>3, <3>1 DEF Kind
    <3>2. CASE i # index
      <4>1. got'[i] = got[i]
        BY <1>1, <1>3, <3>2
      <4>2. QED
        BY <2>3, <4>1 DEF WorkerInv, Own
    <3>3. QED
      BY <3>1, <3>2
  <2>4. ~(Len(sigs) > MaxSignatures)
    BY <1>2, <2>1, MailCheckConstants
  <2>5. QED
    BY <1>1, <2>2, <2>3, <2>4 DEF Own
<1>6. Waiting'
  BY <1>1 DEF Waiting
<1>7. QED
  BY <1>4, <1>5, <1>6 DEF WorkerInv

LEMMA ReceiveStep ==
  ASSUME WorkerInv, pc = "waiting", NEW lookup \in {"key", "nokey", "temporary"},
         Receive(lookup)
  PROVE  WorkerInv' /\ pc' = "verify"
<1> DEFINE last == IF lookup = "temporary" THEN lookup ELSE budget.last
           result == IF Kind = "weak" /\ lookup = "key" THEN "permerror"
                     ELSE Outcome(Kind = "good" /\ lookup = "key", last)
<1>1. /\ index \in DOMAIN sigs /\ Kind \in {"good", "bad", "weak"} /\ budget.last = "none"
      /\ budget \in Budget
  BY DEF WorkerInv, WorkerTypes, Waiting
<1>2. budget' = [budget EXCEPT !.last = last] /\ Ended(result, lookup)
  BY DEF Receive
<1>3. budget' \in Budget
  BY <1>1, <1>2 DEF Budget
<1>4. result \in Results /\ lookup \in Lookups /\ lookup # "unasked"
  BY <1>1 DEF Outcome, Results, Lookups
<1>5. result = OwnResult(Kind, lookup)
  <2>1. CASE lookup = "temporary"
    BY <1>1, <2>1 DEF Outcome, OwnResult
  <2>2. CASE lookup = "key"
    BY <1>1, <2>2 DEF Outcome, OwnResult
  <2>3. CASE lookup = "nokey"
    BY <1>1, <2>3 DEF Outcome, OwnResult
  <2>4. QED
    BY <2>1, <2>2, <2>3
<1> HIDE DEF result, last
<1>6. WorkerInv'
  BY <1>1, <1>2, <1>3, <1>4, <1>5, EndedStep DEF Asking
<1>7. QED
  BY <1>2, <1>6 DEF Ended

(* What a step does to the worker.                                         *)
LEMMA WorkerSame ==
  ASSUME WorkerInv, UNCHANGED worker, now' = now
  PROVE  WorkerInv'
BY DEF worker, WorkerInv, WorkerTypes, Own, Waiting, InTime, Kind

LEMMA TickStep ==
  ASSUME WorkerInv, now \in Nat, Tick
  PROVE  WorkerInv'
<1>1. UNCHANGED worker /\ now' = now + 1 /\ (pc = "waiting" => now < request.deadline)
  BY DEF Tick
<1>2. WorkerTypes' /\ Own'
  BY <1>1 DEF worker, WorkerInv, WorkerTypes, Own
<1>3. now' <= request.deadline \/ pc # "waiting"
  BY <1>1 DEF WorkerInv, WorkerTypes, Request
<1>4. Waiting'
  BY <1>1, <1>3 DEF worker, WorkerInv, Waiting, InTime, Kind
<1>5. QED
  BY <1>2, <1>4 DEF WorkerInv

LEMMA StartStep ==
  ASSUME WorkerInv, now \in Nat, NEW s \in SignatureLists, StartMessage(s)
  PROVE  WorkerInv'
<1>1. s \in Seq(Kinds) /\ Len(s) \in Nat /\ DOMAIN s = 1..Len(s) /\ MaxSignatures \in Nat
  BY MailCheckConstants
<1>2. /\ pc' = "verify" /\ sigs' = s
      /\ index' = IF Len(s) > MaxSignatures THEN Len(s) + 1 ELSE 1
      /\ results' = [i \in DOMAIN s |-> ""]
      /\ got' = [i \in DOMAIN s |-> "unasked"]
      /\ budget' = NewBudget(now) /\ risk' = "unknown" /\ request' = request
  BY DEF StartMessage
<1>3. budget' \in Budget
  BY <1>2 DEF NewBudget, Budget
<1>4. /\ index' \in 1..Len(s) + 1
      /\ Len(s) > MaxSignatures => index' = Len(s) + 1
      /\ Len(s) <= MaxSignatures => 1..index' - 1 = {}
  <2>1. index' = IF Len(s) > MaxSignatures THEN Len(s) + 1 ELSE 1
    BY <1>2
  <2>2. Len(s) \in Nat /\ MaxSignatures \in Nat
    BY <1>1
  <2>3. CASE Len(s) > MaxSignatures
    BY <2>1, <2>2, <2>3
  <2>4. CASE ~(Len(s) > MaxSignatures)
    <3>1. index' = 1
      BY <2>1, <2>4
    <3>2. QED
      BY <2>2, <2>4, <3>1
  <2>5. QED
    BY <2>3, <2>4
<1>5. WorkerTypes'
  BY <1>1, <1>2, <1>3, <1>4 DEF WorkerInv, WorkerTypes, Results, Lookups
<1>6. Own'
  BY <1>2, <1>4 DEF Own
<1>7. Waiting'
  BY <1>2 DEF Waiting
<1>8. QED
  BY <1>5, <1>6, <1>7 DEF WorkerInv

LEMMA OfflineStep ==
  ASSUME WorkerInv, VerifyOffline
  PROVE  WorkerInv'
<1>1. /\ index \in DOMAIN sigs /\ Kind \in {"malformed", "broken", "invalid"}
      /\ Ended(Offline[Kind], "unasked")
      /\ budget' = IF Kind = "malformed" THEN budget ELSE Fresh(budget)
  BY DEF VerifyOffline, Verifying, Offline
<1>2. budget' \in Budget
  BY <1>1 DEF WorkerInv, WorkerTypes, Budget, Fresh
<1>3. Offline[Kind] \in Results /\ Offline[Kind] = OwnResult(Kind, "unasked")
  <2>1. /\ Offline["malformed"] = "permerror" /\ Offline["broken"] = "permerror"
        /\ Offline["invalid"] = "fail"
    BY DEF Offline
  <2>2. CASE Kind \in {"malformed", "broken"}
    BY <2>1, <2>2 DEF Results, OwnResult
  <2>3. CASE Kind = "invalid"
    BY <2>1, <2>3 DEF Results, OwnResult
  <2>4. QED
    BY <1>1, <2>2, <2>3
<1>4. QED
  BY <1>1, <1>2, <1>3, EndedStep DEF Lookups

LEMMA RefusedStep ==
  ASSUME WorkerInv, LookupRefused
  PROVE  WorkerInv'
<1>1. /\ index \in DOMAIN sigs /\ Kind \in Asking
      /\ LookupError \in {"permanent", "temporary"}
      /\ budget' = [budget EXCEPT !.last = LookupError, !.queries = @ + 1]
      /\ Ended(Outcome(FALSE, LookupError), LookupError)
  <2>1. Kind \in Kinds
    BY DEF LookupRefused, Verifying, WorkerInv, WorkerTypes, Kind
  <2>2. budget' = [Fresh(budget) EXCEPT !.queries = @ + 1, !.last = LookupError]
    BY DEF LookupRefused
  <2>3. [Fresh(budget) EXCEPT !.queries = @ + 1, !.last = LookupError]
          = [budget EXCEPT !.last = LookupError, !.queries = @ + 1]
    BY DEF Fresh, WorkerInv, WorkerTypes, Budget
  <2>4. QED
    BY <2>1, <2>2, <2>3 DEF LookupRefused, Verifying, Kinds, Offline, Asking, LookupError
<1>2. budget' \in Budget
  <2>1. budget \in Budget /\ budget.queries + 1 \in Nat
    BY DEF WorkerInv, WorkerTypes, Budget
  <2>2. QED
    BY <1>1, <2>1 DEF Budget
<1>3. /\ Outcome(FALSE, LookupError) \in Results
      /\ Outcome(FALSE, LookupError) = OwnResult(Kind, LookupError)
      /\ LookupError \in Lookups
  <2>1. CASE LookupError = "permanent"
    BY <1>1, <2>1 DEF Outcome, Results, Lookups, OwnResult, Asking
  <2>2. CASE LookupError = "temporary"
    BY <1>1, <2>2 DEF Outcome, Results, Lookups, OwnResult, Asking
  <2>3. QED
    BY <1>1, <2>1, <2>2
<1>4. QED
  BY <1>1, <1>2, <1>3, EndedStep

(* The time of a request: operation by operation, each as long as the first. *)
LEMMA Times ==
  ASSUME NEW n \in Nat \ {0}, NEW p \in Nat
  PROVE  (n - 1) * p \in Nat /\ n * p \in Nat /\ p + (n - 1) * p = n * p
OBVIOUS

LEMMA PatienceIsNat ==
  ASSUME NEW r \in Nat
  PROVE  Patience(r) \in Nat
BY MailCheckConstants DEF Patience, Smaller, Larger

(* A request is begun while some of the budget is left.                    *)
LEMMA AskStep ==
  ASSUME WorkerInv, Begun, now \in Nat, NEW t \in Threads, Ask(t)
  PROVE  WorkerInv'
<1> DEFINE r == Remaining
<1>1. /\ index \in DOMAIN sigs /\ Kind \in Kinds \ DOMAIN Offline
      /\ LookupError = "none"
      /\ pc' = "waiting"
      /\ budget' = [Fresh(budget) EXCEPT !.queries = @ + 1]
      /\ request' = [timeout |-> Patience(r), left |-> Operations - 1,
                     deadline |-> now + Patience(r)]
      /\ UNCHANGED <<now, sigs, index, results, got, risk>>
  BY DEF Ask, Verifying, WorkerInv, WorkerTypes, Kind
<1>2. /\ Kind \in {"good", "bad", "weak"} /\ ~(budget.queries >= MaxQueries)
      /\ ~(r <= 0)
  BY <1>1 DEF LookupError, Kinds, Offline
<1>3. /\ budget.queries \in Nat /\ budget.started \in Nat
      /\ TotalTime \in Nat /\ MaxQueries \in Nat /\ Operations \in Nat \ {0}
  BY MailCheckConstants DEF WorkerInv, WorkerTypes, Budget
<1>4. /\ budget' \in Budget /\ budget'.last = "none"
      /\ budget'.queries = budget.queries + 1 /\ budget'.started = budget.started
  <2>1. budget \in Budget /\ budget.queries + 1 \in Nat
    BY DEF WorkerInv, WorkerTypes, Budget
  <2>2. budget' = [budget EXCEPT !.last = "none", !.queries = budget.queries + 1]
    BY <1>1, <2>1 DEF Fresh, Budget
  <2>3. QED
    BY <2>1, <2>2 DEF Budget
<1>5. /\ r \in 1..TotalTime /\ Patience(r) \in Nat
      /\ now = budget.started + (TotalTime - r)
  <2>1. r = TotalTime - (now - budget.started) /\ budget.started <= now
    BY DEF Remaining, Begun
  <2>2. r \in 1..TotalTime /\ now = budget.started + (TotalTime - r)
    BY <1>2, <1>3, <2>1
  <2>3. QED
    BY <1>3, <2>2, PatienceIsNat
<1> HIDE DEF r
<1>6. /\ request' \in Request /\ request'.timeout = Patience(r)
      /\ now <= request'.deadline
      /\ request'.deadline + request'.left * Patience(r) <= budget.started + Overdue(r)
  <2>1. /\ Operations - 1 \in Nat /\ now + Patience(r) \in Nat
        /\ request'.timeout = Patience(r) /\ request'.left = Operations - 1
        /\ request'.deadline = now + Patience(r) /\ request' \in Request
    BY <1>1, <1>3, <1>5 DEF Request
  <2> DEFINE p == Patience(r)
             a == (Operations - 1) * p
             b == Operations * p
  <2>2. a \in Nat /\ b \in Nat /\ p \in Nat /\ p + a = b
    BY <1>3, <1>5, Times
  <2>3. Overdue(r) = TotalTime - r + b
    BY DEF Overdue
  <2>4. request'.left * p = a
    BY <2>1
  <2> HIDE DEF a, b, p
  <2>5. now + p + a <= budget.started + (TotalTime - r + b) /\ now <= now + p
    BY <1>3, <1>5, <2>2
  <2>6. QED
    BY <2>1, <2>3, <2>4, <2>5 DEF p
<1>7. WorkerTypes'
  BY <1>1, <1>4, <1>6 DEF WorkerInv, WorkerTypes
<1>8. Own'
  BY <1>1 DEF WorkerInv, Own
<1>9. Waiting'
  <2>1. InTime'
    BY <1>4, <1>5, <1>6 DEF InTime
  <2>2. budget'.queries <= MaxQueries
    BY <1>2, <1>3, <1>4
  <2>3. QED
    BY <1>1, <1>2, <1>4, <1>6, <2>1, <2>2 DEF Waiting, Kind
<1>10. QED
  BY <1>7, <1>8, <1>9 DEF WorkerInv

(* The next socket operation begins before the end of the one before it.   *)
LEMMA ProgressStep ==
  ASSUME WorkerInv, now \in Nat, Progress
  PROVE  WorkerInv'
<1>1. /\ pc = "waiting" /\ request.left > 0
      /\ request' = [request EXCEPT !.left = request.left - 1,
                                    !.deadline = now + request.timeout]
      /\ UNCHANGED <<now, pc, sigs, index, results, got, budget, risk>>
  BY DEF Progress
<1>2. request \in Request /\ budget.started \in Nat
  BY DEF WorkerInv, WorkerTypes, Budget
<1>3. /\ request' \in Request /\ request'.timeout = request.timeout
      /\ request'.left = request.left - 1
      /\ request'.deadline = now + request.timeout /\ now <= request'.deadline
      /\ request.left \in Nat \ {0} /\ request.deadline \in Nat
  <2>1. /\ request.left \in Nat \ {0} /\ request.left - 1 \in Nat
        /\ request.timeout \in Nat /\ request.deadline \in Nat
        /\ now + request.timeout \in Nat
    BY <1>1, <1>2 DEF Request
  <2>2. /\ request'.timeout = request.timeout /\ request'.left = request.left - 1
        /\ request'.deadline = now + request.timeout
        /\ request' \in Request
    BY <1>1, <1>2, <2>1 DEF Request
  <2>3. QED
    BY <2>1, <2>2
<1>4. PICK r \in 1..TotalTime :
         /\ request.timeout = Patience(r)
         /\ request.deadline + request.left * Patience(r) <= budget.started + Overdue(r)
  BY <1>1 DEF WorkerInv, Waiting, InTime
<1>5. request'.deadline + request'.left * Patience(r) <= budget.started + Overdue(r)
  <2> DEFINE p == Patience(r)
             a == (request.left - 1) * p
             b == request.left * p
             o == Overdue(r)
  <2>1. p \in Nat /\ request.timeout = p
    BY <1>2, <1>4 DEF Request
  <2>2. a \in Nat /\ b \in Nat /\ p + a = b
    BY <1>3, <2>1, Times
  <2>3. now <= request.deadline
    BY <1>1 DEF WorkerInv, Waiting
  <2>4. request'.left * p = a /\ request.deadline + b <= budget.started + o
    BY <1>3, <1>4
  <2>5. o \in Int
    <3>1. TotalTime \in Nat /\ Operations \in Nat /\ r \in Nat
      BY MailCheckConstants
    <3>2. Operations * p \in Nat
      BY <2>1, <3>1
    <3>3. QED
      BY <3>1, <3>2 DEF Overdue
  <2> HIDE DEF a, b, p, o
  <2>6. now + p + a <= budget.started + o
    BY <1>2, <1>3, <2>1, <2>2, <2>3, <2>4, <2>5
  <2>7. QED
    BY <1>3, <2>1, <2>4, <2>6 DEF p, o
<1>6. WorkerTypes' /\ Own'
  BY <1>1, <1>3 DEF WorkerInv, WorkerTypes, Own
<1>7. InTime'
  BY <1>1, <1>3, <1>4, <1>5 DEF InTime
<1>8. Waiting'
  BY <1>1, <1>3, <1>7 DEF WorkerInv, Waiting, Kind
<1>9. QED
  BY <1>6, <1>8 DEF WorkerInv

(* The clock goes on, and a message begins now.                            *)
LEMMA BegunStep ==
  ASSUME WorkerInv, Begun, now \in Nat, [Next]_vars
  PROVE  Begun'
<1>1. budget \in Budget /\ budget.started \in Nat
  BY DEF WorkerInv, WorkerTypes, Budget
<1>2. now' \in {now, now + 1}
  BY NextCases
     DEF Tick, Progress, RefuseLarge, VerifyOffline, LookupRefused, Timeout, WorkerRestarts,
         ResolverRestarts, StartMessage, Assess, Ask, Stamp, Admit, Deny, Resolve, vars
<1>3. ASSUME \/ budget' = budget
             \/ \E l : budget' = [budget EXCEPT !.last = l]
             \/ \E l : budget' = [Fresh(budget) EXCEPT !.queries = @ + 1, !.last = l]
             \/ budget' = [Fresh(budget) EXCEPT !.queries = @ + 1]
             \/ budget' = NewBudget(now) \/ budget' = NewBudget(0)
      PROVE  Begun'
  <2>1. budget'.started \in {budget.started, now, 0}
    <3>1. /\ Fresh(budget).started = budget.started
          /\ \A l : [budget EXCEPT !.last = l].started = budget.started
          /\ DOMAIN Fresh(budget) = DOMAIN budget
      BY <1>1 DEF Fresh, Budget
    <3>2. ASSUME NEW q, NEW l,
                 \/ budget' = [Fresh(budget) EXCEPT !.queries = q, !.last = l]
                 \/ budget' = [Fresh(budget) EXCEPT !.queries = q]
          PROVE  budget'.started = budget.started
      BY <1>1, <3>2 DEF Fresh, Budget
    <3>3. NewBudget(now).started = now /\ NewBudget(0).started = 0
      BY DEF NewBudget
    <3>4. QED
      BY <1>3, <3>1, <3>2, <3>3
  <2>2. QED
    BY <1>1, <1>2, <2>1 DEF Begun
<1>4. /\ \A l : Receive(l) => \E k : budget' = [budget EXCEPT !.last = k]
      /\ Forget => budget' = NewBudget(0)
  BY DEF Receive, Forget
<1>5. Tick \/ Progress \/ RefuseLarge \/ UNCHANGED vars => budget' = budget
  BY DEF Tick, Progress, RefuseLarge, vars, worker
<1>6. VerifyOffline => budget' = budget \/ \E l : budget' = [budget EXCEPT !.last = l]
  BY DEF VerifyOffline, Fresh
<1>7. LookupRefused =>
        \E l : budget' = [Fresh(budget) EXCEPT !.queries = @ + 1, !.last = l]
  BY DEF LookupRefused
<1>8. /\ \A t \in Threads : Ask(t) => budget' = [Fresh(budget) EXCEPT !.queries = @ + 1]
      /\ \A s \in SignatureLists : StartMessage(s) => budget' = NewBudget(now)
      /\ \A c \in Contents, h \in HeaderLists : Assess(c, h) => Forget
      /\ WorkerRestarts => Forget
      /\ Timeout => Receive("temporary")
      /\ ResolverRestarts => Receive("temporary") \/ budget' = budget
      /\ \A t \in Threads : Stamp(t) \/ Admit(t) => budget' = budget
  BY DEF Ask, StartMessage, Assess, WorkerRestarts, Timeout, ResolverRestarts, Stamp,
         Admit, worker
<1>9. /\ \A t \in Threads : Deny(t) => Receive("temporary") \/ budget' = budget
      /\ \A t \in Threads, a \in DOMAIN Answers :
            Resolve(t, a) => Receive(Answers[a]) \/ budget' = budget
  BY DEF Deny, Resolve, Respond, worker
<1>10. QED
  BY NextCases, <1>3, <1>4, <1>5, <1>6, <1>7, <1>8, <1>9

LEMMA ForgetStep ==
  ASSUME WorkerInv, Forget, risk' \in {"unknown", "refused", "high", "medium", "low"}
  PROVE  WorkerInv'
<1>1. WorkerTypes'
  BY DEF Forget, NewBudget, Budget, WorkerTypes, NoRequest, Request
<1>2. Own' /\ Waiting'
  BY DEF Forget, Own, Waiting
<1>3. QED
  BY <1>1, <1>2 DEF WorkerInv

(* A thread that answers: the worker judges, or has given up long ago.     *)
LEMMA RespondStep ==
  ASSUME WorkerInv, Waiters, thread \in [Threads -> Thread], now' = now,
         NEW t \in Threads, NEW lookup \in {"key", "nokey", "temporary"},
         Respond(t, lookup)
  PROVE  WorkerInv' /\ Waiters'
<1>1. /\ thread' = [thread EXCEPT ![t] = Free]
      /\ IF thread[t].waited THEN Receive(lookup) ELSE UNCHANGED worker
  BY DEF Respond
<1>2. /\ thread'[t] = Free
      /\ \A u \in Threads \ {t} : thread'[u] = thread[u]
  BY <1>1
<1>3. CASE thread[t].waited
  <2>1. pc = "waiting" /\ Receive(lookup)
    BY <1>1, <1>3 DEF Waiters
  <2>2. WorkerInv' /\ pc' = "verify"
    BY <2>1, ReceiveStep
  <2>3. \A u \in Threads : ~thread'[u].waited
    <3>1. ~Free.waited
      BY DEF Free
    <3>2. \A u \in Threads \ {t} : ~thread[u].waited
      BY <1>3 DEF Waiters
    <3>3. QED
      BY <1>2, <3>1, <3>2
  <2>4. QED
    BY <2>2, <2>3 DEF Waiters
<1>4. CASE ~thread[t].waited
  <2>1. WorkerInv' /\ pc' = pc
    BY <1>1, <1>4, WorkerSame DEF worker
  <2>2. ~thread'[t].waited
    BY <1>2 DEF Free
  <2>3. \A u \in Threads : thread'[u].waited => u # t /\ thread'[u] = thread[u]
    BY <1>2, <2>2
  <2>4. pc' = "waiting" => \E u \in Threads : thread'[u].waited
    <3>1. SUFFICES ASSUME pc' = "waiting" PROVE \E u \in Threads : thread'[u].waited
      OBVIOUS
    <3>2. PICK u \in Threads : thread[u].waited
      BY <2>1, <3>1 DEF Waiters
    <3>3. thread'[u] = thread[u]
      BY <1>2, <1>4, <3>2
    <3>4. QED
      BY <3>2, <3>3
  <2>5. QED
    BY <2>1, <2>3, <2>4 DEF Waiters
<1>5. QED
  BY <1>3, <1>4

(* A thread that goes on with its request.                                 *)
LEMMA WaitersKept ==
  ASSUME Waiters, thread \in [Threads -> Thread], pc' = pc,
         NEW t \in Threads, NEW r \in Thread, r.waited = thread[t].waited, r.pc # "free",
         thread' = [thread EXCEPT ![t] = r]
  PROVE  Waiters'
<1>1. \A u \in Threads :
        /\ thread'[u].waited = thread[u].waited
        /\ thread'[u].pc = "free" => thread[u].pc = "free"
  OBVIOUS
<1>2. QED
  BY <1>1 DEF Waiters

(* Nobody listens any more.                                                *)
LEMMA UnwaitedWaiters ==
  ASSUME thread' = Unwaited \/ thread' = [t \in Threads |-> Free],
         thread \in [Threads -> Thread], pc' # "waiting"
  PROVE  Waiters'
<1>1. \A t \in Threads : ~thread'[t].waited
  <2>1. \A t \in Threads : thread[t] \in Thread
    OBVIOUS
  <2>2. \A t \in Threads : ~[thread[t] EXCEPT !.waited = FALSE].waited
    BY <2>1 DEF Thread
  <2>3. CASE thread' = Unwaited
    BY <2>2, <2>3 DEF Unwaited
  <2>4. CASE thread' = [t \in Threads |-> Free]
    BY <2>4 DEF Free
  <2>5. QED
    BY <2>3, <2>4
<1>2. QED
  BY <1>1 DEF Waiters

LEMMA RestartStep ==
  ASSUME WorkerInv, Waiters, thread \in [Threads -> Thread], ResolverRestarts
  PROVE  WorkerInv' /\ Waiters'
<1>1. /\ thread' = [t \in Threads |-> Free] /\ now' = now
      /\ IF pc = "waiting" THEN Receive("temporary") ELSE UNCHANGED worker
  BY DEF ResolverRestarts
<1>2. WorkerInv' /\ pc' # "waiting"
  <2>1. CASE pc = "waiting"
    BY <1>1, <2>1, ReceiveStep
  <2>2. CASE pc # "waiting"
    BY <1>1, <2>2, WorkerSame DEF worker
  <2>3. QED
    BY <2>1, <2>2
<1>3. QED
  BY <1>1, <1>2, UnwaitedWaiters

LEMMA TimeoutStep ==
  ASSUME WorkerInv, thread \in [Threads -> Thread], Timeout
  PROVE  WorkerInv' /\ Waiters'
<1>1. pc = "waiting" /\ Receive("temporary") /\ thread' = Unwaited
  BY DEF Timeout
<1>2. WorkerInv' /\ pc' = "verify"
  BY <1>1, ReceiveStep
<1>3. QED
  BY <1>1, <1>2, UnwaitedWaiters

(* A worker that begins to wait is the only one.                           *)
LEMMA AskWaiters ==
  ASSUME Waiters, thread \in [Threads -> Thread], NEW t \in Threads, Ask(t)
  PROVE  Waiters'
<1>1. /\ pc = "verify" /\ pc' = "waiting"
      /\ thread' = [thread EXCEPT ![t] = [pc |-> "accepted", at |-> 0, waited |-> TRUE]]
  BY DEF Ask, Verifying
<1>2. \A u \in Threads : ~thread[u].waited
  BY <1>1 DEF Waiters
<1>3. /\ thread'[t].waited /\ thread'[t].pc = "accepted"
      /\ \A u \in Threads : thread'[u].waited => u = t
  BY <1>1, <1>2
<1>4. QED
  BY <1>1, <1>3 DEF Waiters

LEMMA StampWaiters ==
  ASSUME Waiters, thread \in [Threads -> Thread], now \in Nat, pc' = pc,
         NEW t \in Threads, Stamp(t) \/ Admit(t)
  PROVE  Waiters'
<1>1. CASE Stamp(t)
  <2> DEFINE r == [thread[t] EXCEPT !.pc = "stamped", !.at = now]
  <2>1. thread' = [thread EXCEPT ![t] = r]
    BY <1>1 DEF Stamp
  <2>2. r \in Thread /\ r.waited = thread[t].waited /\ r.pc # "free"
    BY DEF Thread
  <2>3. QED
    BY <2>1, <2>2, WaitersKept
<1>2. CASE Admit(t)
  <2> DEFINE r == [thread[t] EXCEPT !.pc = "resolving"]
  <2>1. thread' = [thread EXCEPT ![t] = r]
    BY <1>2 DEF Admit
  <2>2. r \in Thread /\ r.waited = thread[t].waited /\ r.pc # "free"
    BY DEF Thread
  <2>3. QED
    BY <2>1, <2>2, WaitersKept
<1>3. QED
  BY <1>1, <1>2

(* The queue is never longer than the limit.                               *)
LEMMA QueueStep ==
  ASSUME LimiterInv, Len(times) <= RateMax, [Next]_vars
  PROVE  (Len(times) <= RateMax)'
<1>0. RateMax \in Nat /\ times \in Seq(Nat) /\ Len(times) \in Nat
  BY MailCheckConstants DEF LimiterInv
<1>1. ASSUME NEW t \in Threads, Admit(t)
      PROVE  Len(times') <= RateMax
  <2>1. /\ times' = Append(Recent(thread[t].at), thread[t].at)
        /\ ~(Len(Recent(thread[t].at)) >= RateMax) /\ thread[t].at \in Nat
    BY <1>1 DEF Admit, Full, LimiterInv, Thread
  <2>2. Recent(thread[t].at) \in Seq(Nat)
    BY <1>0, <2>1, RecentOf
  <2>3. Len(times') = Len(Recent(thread[t].at)) + 1
        /\ Len(Recent(thread[t].at)) \in Nat
    BY <2>1, <2>2
  <2>4. QED
    BY <1>0, <2>1, <2>3
<1>2. ASSUME NEW t \in Threads, Deny(t)
      PROVE  Len(times') <= RateMax
  <2>1. times' = Recent(thread[t].at) /\ thread[t].at \in Nat
    BY <1>2 DEF Deny, LimiterInv, Thread
  <2>2. /\ FirstRecent(thread[t].at) \in 1..Len(times) + 1
        /\ Len(times') = Len(times) - FirstRecent(thread[t].at) + 1
    BY <1>0, <2>1, RecentOf
  <2>3. QED
    BY <1>0, <2>2
<1>3. CASE ResolverRestarts
  <2>1. Len(times') = 0
    BY <1>3 DEF ResolverRestarts
  <2>2. QED
    BY <1>0, <2>1
<1>4. CASE UNCHANGED limiter
  BY <1>4 DEF limiter
<1>5. QED
  BY NextCases, <1>1, <1>2, <1>3, <1>4
     DEF Tick, Progress, RefuseLarge, VerifyOffline, LookupRefused, Timeout,
         WorkerRestarts, StartMessage, Assess, Ask, Stamp, Resolve, vars

LEMMA CheckStep ==
  ASSUME CheckInv, [Next]_vars
  PROVE  CheckInv'
<1>0. /\ LimiterInv /\ WorkerInv /\ Waiters /\ Begun /\ Len(times) <= RateMax
      /\ thread \in [Threads -> Thread] /\ now \in Nat
  BY DEF CheckInv, LimiterInv
<1>1. CASE Tick
  <2>1. Waiters'
    BY <1>0, <1>1 DEF Tick, worker, Waiters
  <2>2. QED
    BY <1>0, <1>1, <2>1, TickStep, LimiterStep, QueueStep, BegunStep
       DEF CheckInv
<1>2. CASE RefuseLarge
  <2>1. Waiters'
    BY <1>0, <1>2 DEF RefuseLarge, Waiters
  <2>2. WorkerInv'
    BY <1>0, <1>2 DEF RefuseLarge, WorkerInv, WorkerTypes, Own, Waiting
  <2>3. QED
    BY <1>0, <2>1, <2>2, LimiterStep, QueueStep, BegunStep
       DEF CheckInv
<1>3. ASSUME NEW s \in SignatureLists, StartMessage(s)
      PROVE  CheckInv'
  <2>1. Waiters'
    BY <1>0, <1>3 DEF StartMessage, Waiters
  <2>2. QED
    BY <1>0, <1>3, <2>1, StartStep, LimiterStep, QueueStep, BegunStep
       DEF CheckInv
<1>4. CASE VerifyOffline \/ LookupRefused
  <2>1. Waiters'
    BY <1>0, <1>4 DEF VerifyOffline, LookupRefused, Ended, Verifying, Waiters
  <2>2. QED
    BY <1>0, <1>4, <2>1, OfflineStep, RefusedStep, LimiterStep, QueueStep, BegunStep
       DEF CheckInv
<1>5. CASE Timeout
  BY <1>0, <1>5, TimeoutStep, LimiterStep, QueueStep, BegunStep
       DEF CheckInv
<1>6. CASE WorkerRestarts
  <2>1. thread' = Unwaited /\ Forget /\ risk' = "unknown" /\ pc' # "waiting"
    BY <1>6 DEF WorkerRestarts, Forget
  <2>2. WorkerInv' /\ Waiters'
    BY <1>0, <2>1, ForgetStep, UnwaitedWaiters
  <2>3. QED
    BY <1>0, <2>2, LimiterStep, QueueStep, BegunStep
       DEF CheckInv
<1>7. CASE ResolverRestarts
  BY <1>0, <1>7, RestartStep, LimiterStep, QueueStep, BegunStep
       DEF CheckInv
<1>8. ASSUME NEW c \in Contents, NEW h \in HeaderLists, Assess(c, h)
      PROVE  CheckInv'
  <2>1. /\ pc = "verify" /\ Forget /\ thread' = thread
        /\ risk' \in {"unknown", "refused", "high", "medium", "low"}
    BY <1>8 DEF Assess, Verified, Risk
  <2>2. Waiters'
    BY <1>0, <2>1 DEF Forget, Waiters
  <2>3. QED
    BY <1>0, <2>1, <2>2, ForgetStep, LimiterStep, QueueStep, BegunStep
       DEF CheckInv
<1>9. ASSUME NEW t \in Threads, Ask(t)
      PROVE  CheckInv'
  BY <1>0, <1>9, AskStep, AskWaiters, LimiterStep, QueueStep, BegunStep
       DEF CheckInv
<1>10. ASSUME NEW t \in Threads, Stamp(t) \/ Admit(t)
       PROVE  CheckInv'
  <2>1. UNCHANGED worker /\ now' = now /\ pc' = pc
    BY <1>10 DEF Stamp, Admit, worker
  <2>2. Waiters'
    BY <1>0, <1>10, <2>1, StampWaiters
  <2>3. QED
    BY <1>0, <2>1, <2>2, WorkerSame, LimiterStep, QueueStep, BegunStep
       DEF CheckInv
<1>11. ASSUME NEW t \in Threads, Deny(t)
       PROVE  CheckInv'
  <2>1. Respond(t, "temporary") /\ now' = now
    BY <1>11 DEF Deny
  <2>2. QED
    BY <1>0, <2>1, RespondStep, LimiterStep, QueueStep, BegunStep
       DEF CheckInv
<1>12. ASSUME NEW t \in Threads, NEW a \in DOMAIN Answers, Resolve(t, a)
       PROVE  CheckInv'
  <2>1. Respond(t, Answers[a]) /\ now' = now
    BY <1>12 DEF Resolve
  <2>2. Answers[a] \in {"key", "nokey", "temporary"}
    BY DEF Answers
  <2>3. QED
    BY <1>0, <2>1, <2>2, RespondStep, LimiterStep, QueueStep, BegunStep
       DEF CheckInv
<1>13. CASE UNCHANGED vars
  <2>1. UNCHANGED worker /\ now' = now /\ thread' = thread /\ pc' = pc
    BY <1>13 DEF vars, worker
  <2>2. Waiters'
    BY <1>0, <2>1 DEF Waiters
  <2>3. QED
    BY <1>0, <2>1, <2>2, WorkerSame, LimiterStep, QueueStep, BegunStep
       DEF CheckInv
<1>14. CASE Progress
  <2>1. Waiters'
    BY <1>0, <1>14 DEF Progress, Waiters
  <2>2. QED
    BY <1>0, <1>14, <2>1, ProgressStep, LimiterStep, QueueStep, BegunStep
       DEF CheckInv
<1>15. QED
  BY NextCases, <1>1, <1>2, <1>3, <1>4, <1>5, <1>6, <1>7, <1>8, <1>9, <1>10, <1>11,
     <1>12, <1>13, <1>14

LEMMA CheckInvariant == Spec => []CheckInv
BY CheckInit, CheckStep, PTL DEF Spec

(* The worker and the threads of the resolver fit together: somebody       *)
(* listens to a request exactly while the worker waits (HttpDnsTxtResolver *)
(* and the handler threads).                                               *)
THEOREM MailCheckTypes == Spec => []TypeOK
BY CheckInvariant, CheckInvTypes, PTL

(* A message asks for no more than MaxQueries keys, and begins no query    *)
(* when its time is over; only the operations of its last one may end      *)
(* later (_DnsBudget.lookup, resolve_txt).                                 *)
THEOREM BudgetIsKept == Spec => []BudgetKept
<1>1. CheckInv => BudgetKept
  <2> SUFFICES ASSUME CheckInv, pc = "waiting"
               PROVE  /\ budget.queries <= MaxQueries
                      /\ \E r \in 1..TotalTime : now <= budget.started + Overdue(r)
    BY DEF BudgetKept
  <2>1. /\ now \in Nat /\ request \in Request /\ budget \in Budget
        /\ budget.queries <= MaxQueries /\ now <= request.deadline /\ InTime
    BY DEF CheckInv, LimiterInv, WorkerInv, WorkerTypes, Waiting
  <2>2. PICK r \in 1..TotalTime :
           /\ request.timeout = Patience(r)
           /\ request.deadline + request.left * Patience(r) <= budget.started + Overdue(r)
    BY <2>1 DEF InTime
  <2> DEFINE p == Patience(r)
             b == request.left * p
             o == Overdue(r)
  <2>3. p \in Nat /\ request.left \in Nat /\ request.deadline \in Nat
        /\ budget.started \in Nat
    BY <2>1, <2>2 DEF Request, Budget
  <2>4. b \in Nat
    BY <2>3
  <2>5. o \in Int
    <3>1. TotalTime \in Nat /\ Operations \in Nat /\ r \in Nat
      BY MailCheckConstants
    <3>2. Operations * p \in Nat
      BY <2>3, <3>1
    <3>3. QED
      BY <3>1, <3>2 DEF Overdue
  <2>6. request.deadline + b <= budget.started + o
    BY <2>2
  <2> HIDE DEF b, o, p
  <2>7. now <= budget.started + o
    BY <2>1, <2>3, <2>4, <2>5, <2>6
  <2>8. QED
    BY <2>1, <2>7 DEF o
<1>2. QED
  BY <1>1, CheckInvariant, PTL

(* A signature is judged by itself, whatever came before it.               *)
THEOREM SignaturesJudgedAlone == Spec => []SignaturesAreJudgedAlone
<1>1. CheckInv => SignaturesAreJudgedAlone
  <2> SUFFICES ASSUME CheckInv, Verified, Len(sigs) <= MaxSignatures, NEW i \in DOMAIN sigs
               PROVE  results[i] = OwnResult(sigs[i], got[i])
    BY DEF SignaturesAreJudgedAlone
  <2>1. /\ sigs \in Seq(Kinds) /\ index \in 1..Len(sigs) + 1 /\ index > Len(sigs)
        /\ Len(sigs) \in Nat /\ DOMAIN sigs = 1..Len(sigs)
    BY DEF CheckInv, WorkerInv, WorkerTypes, Verified
  <2>2. i \in 1..index - 1
    BY <2>1
  <2>3. QED
    BY <2>2 DEF CheckInv, WorkerInv, Own
<1>2. QED
  BY <1>1, CheckInvariant, PTL

(* A lookup that failed temporarily leaves a message unverified, or        *)
(* verified by another signature; never guilty.                            *)
THEOREM OutageNeverCondemns == Spec => []OutageIsNotGuilt
<1>1. CheckInv => OutageIsNotGuilt
  <2> SUFFICES ASSUME CheckInv, Verified, NEW i \in DOMAIN sigs, got[i] = "temporary"
               PROVE  Dkim \in {"pass", "temperror"}
    BY DEF OutageIsNotGuilt
  <2>1. sigs \in Seq(Kinds) /\ Len(sigs) \in Nat /\ DOMAIN sigs = 1..Len(sigs)
        /\ MaxSignatures \in Nat
    BY MailCheckConstants DEF CheckInv, WorkerInv, WorkerTypes
  <2>2. ~(Len(sigs) > MaxSignatures) /\ sigs[i] \in Asking
    BY DEF CheckInv, WorkerInv, Own
  <2>4. results[i] = OwnResult(sigs[i], got[i])
    <3>1. index \in 1..Len(sigs) + 1 /\ index > Len(sigs)
      BY DEF CheckInv, WorkerInv, WorkerTypes, Verified
    <3>2. i \in 1..index - 1 /\ Len(sigs) <= MaxSignatures
      BY <2>1, <2>2, <3>1
    <3>3. QED
      BY <3>2 DEF CheckInv, WorkerInv, Own
  <2>5. results[i] = "temperror"
    BY <2>2, <2>4 DEF OwnResult, Asking
  <2>6. sigs # <<>>
    BY <2>1
  <2>7. "temperror" \in {results[j] : j \in DOMAIN sigs}
    BY <2>5
  <2>8. Dkim = Overall({results[j] : j \in DOMAIN sigs})
    BY <2>2, <2>6 DEF Dkim
  <2>9. QED
    BY <2>7, <2>8 DEF Overall
<1>2. QED
  BY <1>1, CheckInvariant, PTL


(* Low risk is earned by a verified signature or by the claim of a trusted *)
(* server, and never in spite of a doubt.                                  *)
THEOREM LowRiskIsEarned == Spec => LowIsEarned
<1>1. ASSUME CheckInv, risk' = "low", NEW c \in Contents, NEW h \in HeaderLists,
             Assess(c, h)
      PROVE  /\ Signals(c) = {} /\ c.sender
             /\ \/ \E i \in DOMAIN sigs : sigs[i] = "good" /\ got[i] = "key"
                \/ /\ sigs = <<>>
                   /\ \E i \in DOMAIN h :
                        /\ h[i].server \in Trusted /\ h[i].says["dmarc"] = "pass"
                        /\ \A j \in 1..i - 1 : h[j].server \notin Trusted
  <2>1. Verified /\ Risk(c, Claims(h), Dkim) = "low"
    BY <1>1 DEF Assess
  <2>2. /\ Reasons(c, Claims(h), Dkim) = {}
        /\ Dkim = "pass" \/ Claims(h)["dmarc"] = "pass"
    BY <2>1 DEF Risk
  <2>3. /\ Signals(c) = {} /\ c.sender
        /\ Dkim \notin {"fail", "permerror", "temperror"}
    BY <2>2 DEF Reasons, If
  <2>4. Dkim \in {"none", "pass"} /\ (Dkim = "none" => sigs = <<>>)
    BY <2>3 DEF Dkim, Overall
  <2>5. CASE Dkim = "pass"
    <3>1. ~(Len(sigs) > MaxSignatures) /\ "pass" \in {results[i] : i \in DOMAIN sigs}
      BY <2>5 DEF Dkim, Overall
    <3>2. PICK i \in DOMAIN sigs : results[i] = "pass"
      BY <3>1
    <3>3. results[i] = OwnResult(sigs[i], got[i])
      <4>1. /\ sigs \in Seq(Kinds) /\ index \in 1..Len(sigs) + 1 /\ index > Len(sigs)
            /\ Len(sigs) \in Nat /\ DOMAIN sigs = 1..Len(sigs) /\ MaxSignatures \in Nat
        BY <1>1, <2>1, MailCheckConstants DEF CheckInv, WorkerInv, WorkerTypes, Verified
      <4>2. i \in 1..index - 1 /\ Len(sigs) <= MaxSignatures
        BY <3>1, <4>1
      <4>3. QED
        BY <1>1, <4>2 DEF CheckInv, WorkerInv, Own
    <3>4. sigs[i] \in Kinds /\ got[i] \in Lookups
      BY <1>1 DEF CheckInv, WorkerInv, WorkerTypes
    <3>5. sigs[i] = "good" /\ got[i] = "key"
      BY <3>2, <3>3, <3>4 DEF OwnResult, Kinds, Lookups
    <3>6. QED
      BY <2>3, <3>5
  <2>6. CASE Claims(h)["dmarc"] = "pass" /\ Dkim = "none"
    <3> DEFINE S == FromTrusted(h)
               f == FirstOf(S)
    <3>1. /\ S # {}
          /\ LET said == h[f].says["dmarc"]
             IN  (IF said \in KnownResults THEN said ELSE "unknown") = "pass"
      <4>1. "dmarc" \in Methods
        BY DEF Methods
      <4>2. Claims(h)["dmarc"] =
              IF S = {} THEN "unknown"
              ELSE LET said == h[f].says["dmarc"]
                   IN  IF said \in KnownResults THEN said ELSE "unknown"
        BY <4>1 DEF Claims
      <4>3. QED
        BY <2>6, <4>2
    <3>2. h \in Seq(Header) /\ DOMAIN h = 1..Len(h) /\ Len(h) \in Nat
      BY MailCheckConstants
    <3>3. S \subseteq DOMAIN h /\ S \subseteq Nat
      BY <3>2 DEF FromTrusted
    <3>4. f \in S /\ \A j \in S : f <= j
      BY <3>1, <3>3, FirstOfIsFirst
    <3>5. /\ f \in DOMAIN h /\ h[f].server \in Trusted
      BY <3>4 DEF FromTrusted
    <3> HIDE DEF f
    <3>6. h[f].says["dmarc"] = "pass"
      BY <3>1
    <3>7. \A j \in 1..f - 1 : h[j].server \notin Trusted
      <4> SUFFICES ASSUME NEW j \in 1..f - 1, h[j].server \in Trusted
                   PROVE  FALSE
        OBVIOUS
      <4>1. f \in 1..Len(h) /\ j \in 1..Len(h) /\ ~(f <= j)
        BY <3>2, <3>5
      <4>2. j \in S
        BY <3>2, <4>1 DEF FromTrusted
      <4>3. QED
        BY <3>4, <4>1, <4>2
    <3>8. QED
      BY <2>3, <2>4, <2>6, <3>5, <3>6, <3>7
  <2>7. QED
    BY <2>2, <2>4, <2>5, <2>6
<1>2. CheckInv /\ [Next]_vars =>
        [risk' = "low" /\ risk # "low" =>
           \A c \in Contents, h \in HeaderLists : Assess(c, h) =>
             /\ Signals(c) = {} /\ c.sender
             /\ \/ \E i \in DOMAIN sigs : sigs[i] = "good" /\ got[i] = "key"
                \/ /\ sigs = <<>>
                   /\ \E i \in DOMAIN h :
                        /\ h[i].server \in Trusted /\ h[i].says["dmarc"] = "pass"
                        /\ \A j \in 1..i - 1 : h[j].server \notin Trusted]_vars
  BY <1>1, Zenon
<1>3. QED
  BY <1>2, CheckInvariant, PTL DEF Spec, LowIsEarned

-----------------------------------------------------------------------------
(* The check of a message implements Verdict.                              *)

(* What the lookups behind the worker gave is what they can give, and each *)
(* that asked for a key is counted.                                        *)
QueryInv ==
    /\ IF pc = "idle" THEN sigs = <<>> ELSE sigs \in SignatureLists
    /\ pc # "idle" /\ Len(sigs) <= MaxSignatures =>
         /\ budget.queries = Asked(sigs, index) + (IF pc = "waiting" THEN 1 ELSE 0)
         /\ pc = "waiting" => Asked(sigs, index) < MaxQueries
         /\ \A i \in 1..index - 1 : got[i] \in PossibleLookup(sigs, i)

LEMMA AskedNext ==
  ASSUME NEW s \in Seq(Kinds), NEW i \in DOMAIN s
  PROVE  /\ Asked(s, i) \in Nat
         /\ Asked(s, i + 1) = IF s[i] \in DOMAIN Offline THEN Asked(s, i)
                              ELSE Asked(s, i) + 1
<1> DEFINE A == {j \in 1..i - 1 : s[j] \notin DOMAIN Offline}
           B == {j \in 1..(i + 1) - 1 : s[j] \notin DOMAIN Offline}
<1>1. i \in Nat /\ i >= 1
  OBVIOUS
<1>2. A \subseteq 1..i - 1 /\ IsFiniteSet(1..i - 1)
  <2>1. 1 \in Int /\ i - 1 \in Int
    BY <1>1
  <2>2. QED
    BY <2>1, FS_Interval
<1>3. IsFiniteSet(A) /\ Cardinality(A) \in Nat
  BY <1>2, FS_Subset, FS_CardinalityType
<1>4. i \notin A /\ (1..(i + 1) - 1) = (1..i - 1) \union {i}
  BY <1>1
<1>5. B = IF s[i] \in DOMAIN Offline THEN A ELSE A \union {i}
  BY <1>4
<1>6. Cardinality(A \union {i}) = Cardinality(A) + 1
  BY <1>3, <1>4, FS_AddElement
<1>7. QED
  BY <1>3, <1>5, <1>6 DEF Asked

LEMMA AskedFirst ==
  ASSUME NEW s
  PROVE  Asked(s, 1) = 0
<1>1. {j \in 1..1 - 1 : s[j] \notin DOMAIN Offline} = {}
  OBVIOUS
<1>2. QED
  BY <1>1, FS_EmptySet DEF Asked

(* The verification of a signature ends with a possible lookup, and the    *)
(* queries have been counted.                                              *)
LEMMA EndedQuery ==
  ASSUME WorkerInv, QueryInv, pc # "idle", index \in DOMAIN sigs,
         NEW result, NEW lookup \in PossibleLookup(sigs, index), Ended(result, lookup),
         Len(sigs) <= MaxSignatures => budget'.queries = Asked(sigs, index + 1)
  PROVE  QueryInv'
<1>1. /\ sigs' = sigs /\ index' = index + 1 /\ pc' = "verify"
      /\ got' = [got EXCEPT ![index] = lookup]
  BY DEF Ended
<1>2. /\ sigs \in Seq(Kinds) /\ Len(sigs) \in Nat /\ DOMAIN sigs = 1..Len(sigs)
      /\ index \in 1..Len(sigs) /\ DOMAIN got = DOMAIN sigs
  BY DEF WorkerInv, WorkerTypes
<1>3. ASSUME Len(sigs) <= MaxSignatures, NEW i \in 1..index' - 1
      PROVE  got'[i] \in PossibleLookup(sigs, i)
  <2>1. CASE i = index
    BY <1>1, <1>2, <2>1
  <2>2. CASE i # index
    <3>1. i \in 1..index - 1 /\ got'[i] = got[i]
      BY <1>1, <1>2, <1>3, <2>2
    <3>2. QED
      BY <1>3, <3>1 DEF QueryInv
  <2>3. QED
    BY <2>1, <2>2
<1>4. Asked(sigs, index + 1) \in Nat
  BY <1>2, AskedNext
<1>5. sigs' \in SignatureLists
  BY <1>1 DEF QueryInv
<1>6. Len(sigs) <= MaxSignatures => budget'.queries = Asked(sigs', index') + 0
  BY <1>1, <1>4
<1>7. QED
  BY <1>1, <1>3, <1>5, <1>6 DEF QueryInv

LEMMA WithinLimit ==
  ASSUME WorkerInv, index \in DOMAIN sigs
  PROVE  Len(sigs) <= MaxSignatures
<1>1. Len(sigs) \in Nat /\ index \in 1..Len(sigs) /\ MaxSignatures \in Nat
  BY MailCheckConstants DEF WorkerInv, WorkerTypes
<1>2. QED
  BY <1>1 DEF WorkerInv, Own

LEMMA OfflineQuery ==
  ASSUME WorkerInv, QueryInv, VerifyOffline
  PROVE  QueryInv'
<1>1. /\ pc = "verify" /\ index \in DOMAIN sigs /\ sigs[index] \in DOMAIN Offline
      /\ Ended(Offline[Kind], "unasked")
      /\ budget' = IF Kind = "malformed" THEN budget ELSE Fresh(budget)
  BY DEF VerifyOffline, Verifying, Kind
<1>2. budget'.queries = budget.queries
  BY <1>1 DEF WorkerInv, WorkerTypes, Budget, Fresh
<1>3. Asked(sigs, index + 1) = Asked(sigs, index) /\ Asked(sigs, index) \in Nat
  BY <1>1, AskedNext DEF WorkerInv, WorkerTypes
<1>4. budget'.queries = Asked(sigs, index + 1)
  BY <1>1, <1>2, <1>3, WithinLimit DEF QueryInv
<1>5. "unasked" \in PossibleLookup(sigs, index)
  BY <1>1 DEF PossibleLookup
<1>6. QED
  BY <1>1, <1>4, <1>5, EndedQuery

LEMMA RefusedQuery ==
  ASSUME WorkerInv, QueryInv, LookupRefused
  PROVE  QueryInv'
<1>1. /\ pc = "verify" /\ index \in DOMAIN sigs /\ sigs[index] \notin DOMAIN Offline
      /\ LookupError # "none"
      /\ Ended(Outcome(FALSE, LookupError), LookupError)
      /\ budget' = [Fresh(budget) EXCEPT !.queries = @ + 1, !.last = LookupError]
  BY DEF LookupRefused, Verifying, Kind
<1>2. sigs \in Seq(Kinds) /\ budget \in Budget /\ sigs[index] \in Asking
  <2>1. sigs[index] \in Kinds
    BY <1>1 DEF WorkerInv, WorkerTypes
  <2>2. QED
    BY <1>1, <2>1 DEF WorkerInv, WorkerTypes, Kinds, Offline, Asking
<1>3. budget'.queries = budget.queries + 1 /\ budget.queries \in Nat
  BY <1>1, <1>2 DEF Fresh, Budget
<1>4. budget.queries = Asked(sigs, index) /\ Asked(sigs, index) \in Nat
  BY <1>1, <1>2, <1>3, AskedNext, WithinLimit DEF QueryInv
<1>5. budget'.queries = Asked(sigs, index + 1)
  BY <1>1, <1>2, <1>3, <1>4, AskedNext
<1>6. LookupError \in PossibleLookup(sigs, index)
  <2>0. MaxQueries \in Nat
    BY MailCheckConstants
  <2>1. CASE budget.queries >= MaxQueries
    BY <1>1, <1>4, <2>1 DEF LookupError, PossibleLookup, Kind
  <2>2. CASE ~(budget.queries >= MaxQueries)
    <3>1. /\ Asked(sigs, index) < MaxQueries /\ ~(Asked(sigs, index) >= MaxQueries)
      BY <1>4, <2>0, <2>2
    <3>2. \/ LookupError = "temporary"
          \/ LookupError = "permanent" /\ sigs[index] = "misnamed"
      BY <1>1, <2>2 DEF LookupError, Kind
    <3>3. CASE sigs[index] = "misnamed"
      BY <1>1, <3>1, <3>2, <3>3 DEF PossibleLookup
    <3>4. CASE sigs[index] \in {"good", "bad", "weak"}
      BY <1>1, <3>1, <3>2, <3>4 DEF PossibleLookup
    <3>5. QED
      BY <1>2, <3>3, <3>4 DEF Asking
  <2>3. QED
    BY <2>1, <2>2
<1>7. QED
  BY <1>1, <1>5, <1>6, EndedQuery

LEMMA AskQuery ==
  ASSUME WorkerInv, QueryInv, NEW t \in Threads, Ask(t)
  PROVE  QueryInv'
<1>1. /\ pc = "verify" /\ pc' = "waiting" /\ index \in DOMAIN sigs
      /\ LookupError = "none"
      /\ budget' = [Fresh(budget) EXCEPT !.queries = @ + 1]
      /\ UNCHANGED <<sigs, index, got>>
  BY DEF Ask, Verifying
<1>2. budget'.queries = budget.queries + 1 /\ budget.queries \in Nat /\ MaxQueries \in Nat
  BY <1>1, MailCheckConstants DEF WorkerInv, WorkerTypes, Budget, Fresh
<1>3. budget.queries = Asked(sigs, index) /\ Asked(sigs, index) \in Nat
  BY <1>1, <1>2, AskedNext, WithinLimit DEF QueryInv, WorkerInv, WorkerTypes
<1>4. Asked(sigs, index) < MaxQueries
  BY <1>1, <1>2, <1>3 DEF LookupError
<1>5. QED
  BY <1>1, <1>2, <1>3, <1>4 DEF QueryInv

LEMMA ReceiveQuery ==
  ASSUME WorkerInv, QueryInv, pc = "waiting",
         NEW lookup \in {"key", "nokey", "temporary"}, Receive(lookup)
  PROVE  QueryInv'
<1> DEFINE last == IF lookup = "temporary" THEN lookup ELSE budget.last
<1>1. /\ index \in DOMAIN sigs /\ sigs[index] \in {"good", "bad", "weak"}
      /\ sigs \in Seq(Kinds) /\ budget \in Budget
  BY DEF WorkerInv, WorkerTypes, Waiting, Kind
<1>2. /\ \E result : Ended(result, lookup)
      /\ budget' = [budget EXCEPT !.last = last]
  BY DEF Receive
<1>3. /\ budget.queries = Asked(sigs, index) + 1
      /\ Asked(sigs, index) < MaxQueries
  BY <1>1, WithinLimit DEF QueryInv
<1>4. sigs[index] \notin DOMAIN Offline
  BY <1>1 DEF Offline
<1>5. Asked(sigs, index) \in Nat /\ Asked(sigs, index + 1) = Asked(sigs, index) + 1
  BY <1>1, <1>4, AskedNext
<1>6. budget'.queries = Asked(sigs, index + 1)
  BY <1>1, <1>2, <1>3, <1>5 DEF Budget
<1>7. lookup \in PossibleLookup(sigs, index)
  <2>1. ~(Asked(sigs, index) >= MaxQueries)
    BY <1>3, <1>5, MailCheckConstants
  <2>2. QED
    BY <1>1, <1>3, <1>4, <2>1 DEF PossibleLookup
<1> HIDE DEF last
<1>8. QED
  BY <1>1, <1>2, <1>6, <1>7, EndedQuery

LEMMA RespondQuery ==
  ASSUME WorkerInv, Waiters, QueryInv, NEW t \in Threads,
         NEW lookup \in {"key", "nokey", "temporary"}, Respond(t, lookup)
  PROVE  QueryInv'
<1>1. CASE thread[t].waited
  <2>1. pc = "waiting" /\ Receive(lookup)
    BY <1>1 DEF Respond, Waiters
  <2>2. QED
    BY <2>1, ReceiveQuery
<1>2. CASE ~thread[t].waited
  BY <1>2 DEF Respond, worker, QueryInv
<1>3. QED
  BY <1>1, <1>2

LEMMA QueryStep ==
  ASSUME CheckInv, QueryInv, [Next]_vars
  PROVE  QueryInv'
<1>0. WorkerInv /\ Waiters
  BY DEF CheckInv
<1>1. CASE VerifyOffline \/ LookupRefused
  BY <1>0, <1>1, OfflineQuery, RefusedQuery
<1>2. ASSUME NEW t \in Threads, Ask(t)
      PROVE  QueryInv'
  BY <1>0, <1>2, AskQuery
<1>3. ASSUME NEW t \in Threads, NEW lookup \in {"key", "nokey", "temporary"},
             Respond(t, lookup)
      PROVE  QueryInv'
  BY <1>0, <1>3, RespondQuery
<1>4. CASE Timeout
  BY <1>0, <1>4, ReceiveQuery DEF Timeout
<1>5. CASE ResolverRestarts
  <2>1. CASE pc = "waiting"
    BY <1>0, <1>5, <2>1, ReceiveQuery DEF ResolverRestarts
  <2>2. CASE pc # "waiting"
    BY <1>5, <2>2 DEF ResolverRestarts, worker, QueryInv
  <2>3. QED
    BY <2>1, <2>2
<1>6. ASSUME NEW s \in SignatureLists, StartMessage(s)
      PROVE  QueryInv'
  <2>1. /\ pc' = "verify" /\ sigs' = s /\ budget'.queries = 0
        /\ Len(s) <= MaxSignatures => index' = 1
    <3>1. Len(s) \in Nat /\ MaxSignatures \in Nat
      BY MailCheckConstants
    <3>2. pc' = "verify" /\ sigs' = s /\ budget' = NewBudget(now)
          /\ index' = IF Len(s) > MaxSignatures THEN Len(s) + 1 ELSE 1
      BY <1>6 DEF StartMessage
    <3>3. QED
      BY <3>1, <3>2 DEF NewBudget
  <2>2. Asked(s, 1) = 0
    BY AskedFirst
  <2>3. QED
    BY <2>1, <2>2 DEF QueryInv
<1>7. CASE Forget
  BY <1>7 DEF Forget, QueryInv
<1>8. CASE UNCHANGED <<pc, sigs, index, got, budget>>
  BY <1>8 DEF QueryInv
<1>9. \A t \in Threads : Deny(t) => QueryInv'
  BY <1>3 DEF Deny
<1>10. \A t \in Threads, a \in DOMAIN Answers : Resolve(t, a) => QueryInv'
  <2>1. \A a \in DOMAIN Answers : Answers[a] \in {"key", "nokey", "temporary"}
    BY DEF Answers
  <2>2. QED
    BY <1>3, <2>1 DEF Resolve
<1>11. /\ Tick \/ Progress \/ RefuseLarge \/ UNCHANGED vars =>
            UNCHANGED <<pc, sigs, index, got, budget>>
       /\ \A t \in Threads :
            Stamp(t) \/ Admit(t) => UNCHANGED <<pc, sigs, index, got, budget>>
       /\ WorkerRestarts => Forget
       /\ \A c \in Contents, h \in HeaderLists : Assess(c, h) => Forget
  BY DEF Tick, Progress, RefuseLarge, Stamp, Admit, WorkerRestarts, Assess, vars, worker
<1>12. QED
  BY NextCases, <1>1, <1>2, <1>4, <1>5, <1>6, <1>7, <1>8, <1>9, <1>10, <1>11

(* What verify_dkim finds is possible for the signatures.                  *)
LEMMA FindingIsPossible ==
  ASSUME NEW s \in SignatureLists, NEW r, NEW g \in [DOMAIN s -> Lookups],
         Len(s) <= MaxSignatures =>
           \A i \in DOMAIN s :
              r[i] = OwnResult(s[i], g[i]) /\ g[i] \in PossibleLookup(s, i)
  PROVE  (IF s = <<>> THEN "none"
          ELSE IF Len(s) > MaxSignatures THEN "permerror"
          ELSE Overall({r[i] : i \in DOMAIN s})) \in PossibleFindings[s]
<1>1. PossibleFindings[s] = IF Len(s) > MaxSignatures THEN {"permerror"}
                            ELSE {Finding(s, l) : l \in LookupsOf(s)}
  BY DEF PossibleFindings
<1>2. Len(s) \in Nat /\ MaxSignatures \in Nat
  BY MailCheckConstants
<1>3. CASE Len(s) > MaxSignatures
  <2>1. s # <<>>
    BY <1>2, <1>3
  <2>2. QED
    BY <1>1, <1>3, <2>1
<1>4. CASE ~(Len(s) > MaxSignatures)
  <2>1. \A i \in DOMAIN s : r[i] = OwnResult(s[i], g[i]) /\ g[i] \in PossibleLookup(s, i)
    BY <1>2, <1>4
  <2>2. g \in LookupsOf(s)
    BY <2>1 DEF LookupsOf
  <2>3. {r[i] : i \in DOMAIN s} = {OwnResult(s[i], g[i]) : i \in DOMAIN s}
    BY <2>1
  <2>4. Finding(s, g) = IF s = <<>> THEN "none" ELSE Overall({r[i] : i \in DOMAIN s})
    BY <1>4, <2>3 DEF Finding
  <2>5. QED
    BY <1>1, <1>4, <2>2, <2>4
<1>5. QED
  BY <1>3, <1>4

(* So the result shown is one the signatures allow, before and after.      *)
LEMMA FoundIsPossible ==
  ASSUME CheckInv, QueryInv, pc # "idle"
  PROVE  Found \in {"pending"} \union PossibleFindings[sigs]
<1>1. /\ sigs \in SignatureLists /\ got \in [DOMAIN sigs -> Lookups]
      /\ sigs \in Seq(Kinds) /\ index \in 1..Len(sigs) + 1
      /\ Len(sigs) \in Nat /\ DOMAIN sigs = 1..Len(sigs)
  BY DEF CheckInv, WorkerInv, WorkerTypes, QueryInv
<1>2. CASE Verified
  <2>1. index = Len(sigs) + 1
    BY <1>1, <1>2 DEF Verified
  <2>2. Len(sigs) <= MaxSignatures =>
          \A i \in DOMAIN sigs :
             results[i] = OwnResult(sigs[i], got[i]) /\ got[i] \in PossibleLookup(sigs, i)
    BY <1>1, <2>1 DEF CheckInv, WorkerInv, Own, QueryInv
  <2>3. Dkim \in PossibleFindings[sigs]
    BY <1>1, <2>2, FindingIsPossible DEF Dkim
  <2>4. QED
    BY <1>2, <2>3 DEF Found
<1>3. CASE ~Verified
  BY <1>3 DEF Found
<1>4. QED
  BY <1>2, <1>3

LEMMA VerdictStutter ==
  ASSUME UNCHANGED <<pc, sigs, index, results, risk>>
  PROVE  UNCHANGED TheVerdict!vars
BY DEF TheVerdict!vars, Found, Verified, Dkim

(* A signature is done: perhaps it was the last.                           *)
LEMMA EndedVerdict ==
  ASSUME WorkerInv, pc # "idle", index \in DOMAIN sigs, NEW result, NEW lookup,
         Ended(result, lookup), Found' \in {"pending"} \union PossibleFindings[sigs']
  PROVE  [TheVerdict!Next]_(TheVerdict!vars)
<1>1. pc' # "idle" /\ sigs' = sigs /\ risk' = risk
  BY DEF Ended
<1>2. Found = "pending"
  <2>1. Len(sigs) \in Nat /\ index \in 1..Len(sigs)
    BY DEF WorkerInv, WorkerTypes
  <2>2. ~Verified
    BY <2>1 DEF Verified
  <2>3. QED
    BY <2>2 DEF Found
<1>3. CASE Found' = "pending"
  BY <1>1, <1>2, <1>3 DEF TheVerdict!vars
<1>4. CASE Found' # "pending"
  BY <1>1, <1>2, <1>4 DEF TheVerdict!Next, TheVerdict!Find
<1>5. QED
  BY <1>1, <1>3, <1>4

LEMMA ReceiveVerdict ==
  ASSUME WorkerInv, pc = "waiting", NEW lookup, Receive(lookup),
         Found' \in {"pending"} \union PossibleFindings[sigs']
  PROVE  [TheVerdict!Next]_(TheVerdict!vars)
<1>1. index \in DOMAIN sigs
  BY DEF WorkerInv, Waiting
<1>2. PICK result : Ended(result, lookup)
  BY DEF Receive
<1>3. QED
  BY <1>1, <1>2, EndedVerdict

LEMMA RespondVerdict ==
  ASSUME WorkerInv, Waiters, NEW t \in Threads, NEW lookup, Respond(t, lookup),
         pc' # "idle" => Found' \in {"pending"} \union PossibleFindings[sigs']
  PROVE  [TheVerdict!Next]_(TheVerdict!vars)
<1>1. CASE thread[t].waited
  <2>1. pc = "waiting" /\ Receive(lookup)
    BY <1>1 DEF Respond, Waiters
  <2>2. pc' # "idle"
    BY <2>1 DEF Receive, Ended
  <2>3. QED
    BY <2>1, <2>2, ReceiveVerdict
<1>2. CASE ~thread[t].waited
  BY <1>2, VerdictStutter DEF Respond, worker
<1>3. QED
  BY <1>1, <1>2

LEMMA Forgotten ==
  ASSUME Forget
  PROVE  TheVerdict!Idle'
BY DEF Forget, Found, Verified, TheVerdict!Idle

LEMMA AssessIsJudge ==
  ASSUME NEW c \in Contents, NEW h \in HeaderLists, Assess(c, h)
  PROVE  TheVerdict!Judge
<1>1. Verified /\ pc = "verify" /\ Found = Dkim
  BY DEF Assess, Verified, Found
<1>2. Dkim \in {"none", "pass", "fail", "temperror", "permerror"}
  BY DEF Dkim, Overall
<1>3. risk' \in PossibleRisks[Dkim]
  BY <1>2 DEF Assess, PossibleRisks
<1>4. TheVerdict!Idle'
  BY Forgotten DEF Assess
<1>5. QED
  BY <1>1, <1>2, <1>3, <1>4 DEF TheVerdict!Judge

LEMMA VerdictStep ==
  ASSUME CheckInv, [Next]_vars,
         pc' # "idle" => Found' \in {"pending"} \union PossibleFindings[sigs'],
         pc = "idle" => sigs = <<>>
  PROVE  [TheVerdict!Next]_(TheVerdict!vars)
<1>0. WorkerInv /\ Waiters
  BY DEF CheckInv
<1>1. CASE RefuseLarge
  <2>1. pc = "idle" /\ risk' = "refused" /\ UNCHANGED <<pc, sigs, index, results>>
    BY <1>1 DEF RefuseLarge
  <2>2. Found' = Found
    BY <2>1 DEF Found, Verified, Dkim
  <2>3. TheVerdict!Refuse
    BY <2>1, <2>2 DEF TheVerdict!Refuse
  <2>4. QED
    BY <2>3 DEF TheVerdict!Next
<1>2. ASSUME NEW s \in SignatureLists, StartMessage(s)
      PROVE  TheVerdict!Next
  <2>1. pc = "idle" /\ pc' = "verify" /\ sigs' = s /\ risk' = "unknown"
    BY <1>2 DEF StartMessage
  <2>2. TheVerdict!Begin(s)
    BY <2>1 DEF TheVerdict!Begin
  <2>3. QED
    BY <2>2 DEF TheVerdict!Next
<1>3. CASE VerifyOffline \/ LookupRefused
  <2>1. pc = "verify" /\ index \in DOMAIN sigs /\ \E result, lookup : Ended(result, lookup)
    BY <1>3 DEF VerifyOffline, LookupRefused, Verifying
  <2>2. pc' # "idle"
    BY <2>1 DEF Ended
  <2>3. QED
    BY <1>0, <2>1, <2>2, EndedVerdict
<1>4. CASE Timeout
  <2>1. pc = "waiting" /\ Receive("temporary") /\ pc' # "idle"
    BY <1>4 DEF Timeout, Receive, Ended
  <2>2. QED
    BY <1>0, <2>1, ReceiveVerdict
<1>5. CASE ResolverRestarts
  <2>1. CASE pc = "waiting"
    <3>1. Receive("temporary") /\ pc' # "idle"
      BY <1>5, <2>1 DEF ResolverRestarts, Receive, Ended
    <3>2. QED
      BY <1>0, <2>1, <3>1, ReceiveVerdict
  <2>2. CASE pc # "waiting"
    BY <1>5, <2>2, VerdictStutter DEF ResolverRestarts, worker
  <2>3. QED
    BY <2>1, <2>2
<1>6. CASE WorkerRestarts
  <2>1. TheVerdict!Abandon
    BY <1>6, Forgotten DEF WorkerRestarts, TheVerdict!Abandon
  <2>2. QED
    BY <2>1 DEF TheVerdict!Next
<1>7. ASSUME NEW c \in Contents, NEW h \in HeaderLists, Assess(c, h)
      PROVE  TheVerdict!Next
  BY <1>7, AssessIsJudge DEF TheVerdict!Next
<1>8. ASSUME NEW t \in Threads, Ask(t)
      PROVE  UNCHANGED TheVerdict!vars
  <2>1. /\ pc = "verify" /\ pc' = "waiting" /\ index \in DOMAIN sigs
        /\ UNCHANGED <<sigs, index, results, risk>>
    BY <1>8 DEF Ask, Verifying
  <2>2. Len(sigs) \in Nat /\ index \in 1..Len(sigs)
    BY <1>0, <2>1 DEF WorkerInv, WorkerTypes
  <2>3. ~Verified /\ ~Verified'
    BY <2>1, <2>2 DEF Verified
  <2>4. QED
    BY <2>1, <2>3 DEF TheVerdict!vars, Found
<1>9. ASSUME NEW t \in Threads, NEW lookup, Respond(t, lookup)
      PROVE  [TheVerdict!Next]_(TheVerdict!vars)
  BY <1>0, <1>9, RespondVerdict
<1>10. ASSUME UNCHANGED worker
       PROVE  UNCHANGED TheVerdict!vars
  BY <1>10, VerdictStutter DEF worker
<1>11. /\ Tick \/ UNCHANGED vars => UNCHANGED worker
       /\ Progress => UNCHANGED <<pc, sigs, index, results, risk>>
       /\ \A t \in Threads : Stamp(t) \/ Admit(t) => UNCHANGED worker
  BY DEF Tick, Progress, Stamp, Admit, vars
<1>12. /\ \A t \in Threads : Deny(t) => Respond(t, "temporary")
       /\ \A t \in Threads, a \in DOMAIN Answers : Resolve(t, a) => Respond(t, Answers[a])
  BY DEF Deny, Resolve
<1>13. QED
  BY NextCases, <1>1, <1>2, <1>3, <1>4, <1>5, <1>6, <1>7, <1>8, <1>9, <1>10, <1>11, <1>12,
     VerdictStutter

(* Timeouts, restarts, late answers and the rate limiter change only what  *)
(* a lookup may give: the check of a message is a judgement of its own     *)
(* signatures, and then of the message.                                    *)
THEOREM MailCheckImplementsVerdict == Spec => ImplementsVerdict
<1>1. Init => QueryInv
  BY DEF Init, QueryInv
<1>2. Init => TheVerdict!Init
  BY DEF Init, Found, Verified, TheVerdict!Init, TheVerdict!Idle
<1>3. QueryInv => (pc = "idle" => sigs = <<>>)
  BY DEF QueryInv
<1>4. CheckInv /\ QueryInv =>
        (pc # "idle" => Found \in {"pending"} \union PossibleFindings[sigs])
  BY FoundIsPossible
<1>5. CheckInv /\ [Next]_vars
        /\ (pc # "idle" => Found \in {"pending"} \union PossibleFindings[sigs])'
        /\ (pc = "idle" => sigs = <<>>)
      => [TheVerdict!Next]_(TheVerdict!vars)
  BY VerdictStep
<1>6. QED
  BY <1>1, <1>2, <1>3, <1>4, <1>5, QueryStep, CheckInvariant, PTL
     DEF Spec, TheVerdict!Spec, ImplementsVerdict

-----------------------------------------------------------------------------
(* Whose claims count.                                                     *)

FirstTrusted(h, i) ==
    i \in FromTrusted(h) /\ \A j \in FromTrusted(h) : i <= j

LEMMA ClaimsOfFirst ==
  ASSUME NEW h \in Seq(Header), NEW i, FirstTrusted(h, i)
  PROVE  Claims(h) = [m \in Methods |-> IF h[i].says[m] \in KnownResults
                                        THEN h[i].says[m] ELSE "unknown"]
<1>1. FromTrusted(h) \subseteq Nat /\ FromTrusted(h) # {}
  BY DEF FromTrusted, FirstTrusted
<1>2. FirstOf(FromTrusted(h)) \in FromTrusted(h)
      /\ \A j \in FromTrusted(h) : FirstOf(FromTrusted(h)) <= j
  BY <1>1, FirstOfIsFirst
<1>3. FirstOf(FromTrusted(h)) = i
  BY <1>1, <1>2 DEF FirstTrusted
<1>4. QED
  BY <1>1, <1>3 DEF Claims

(* The claims are those of the first trusted server: headers of others     *)
(* before it, whoever put them there, and anything after it change nothing *)
(* (parse_authentication_results).                                         *)
THEOREM FirstTrustedDecides ==
  ASSUME NEW u \in Seq(Header), NEW h \in Seq(Header), NEW v \in Seq(Header),
         FromTrusted(u) = {}, FromTrusted(h) # {}
  PROVE  Claims(u \o h \o v) = Claims(h)
<1> DEFINE w == u \o h \o v
           i == FirstOf(FromTrusted(h))
<1>1. FirstTrusted(h, i)
  <2>1. FromTrusted(h) \subseteq Nat
    BY DEF FromTrusted
  <2>2. QED
    BY <2>1, FirstOfIsFirst DEF FirstTrusted
<1> HIDE DEF i
<1>2. i \in 1..Len(h) /\ h[i].server \in Trusted
  BY <1>1 DEF FirstTrusted, FromTrusted
<1>3. /\ w \in Seq(Header) /\ Len(w) = Len(u) + Len(h) + Len(v)
      /\ Len(u) \in Nat /\ Len(h) \in Nat /\ Len(v) \in Nat
      /\ \A j \in 1..Len(u) : w[j] = u[j]
      /\ \A j \in 1..Len(h) : w[Len(u) + j] = h[j]
  OBVIOUS
<1> HIDE DEF w
<1>4. Len(u) + i \in FromTrusted(w)
  <2>1. Len(u) + i \in 1..Len(w) /\ w[Len(u) + i] = h[i]
    BY <1>2, <1>3
  <2>2. DOMAIN w = 1..Len(w)
    BY <1>3
  <2>3. QED
    BY <1>2, <2>1, <2>2 DEF FromTrusted
<1>5. ASSUME NEW j \in FromTrusted(w)
      PROVE  Len(u) + i <= j
  <2>1. j \in 1..Len(w) /\ w[j].server \in Trusted
    BY <1>3 DEF FromTrusted
  <2>2. CASE j \in 1..Len(u)
    <3>1. j \in FromTrusted(u)
      BY <1>3, <2>1, <2>2 DEF FromTrusted
    <3>2. QED
      BY <3>1
  <2>3. CASE j \in Len(u) + 1..Len(u) + Len(h)
    <3>1. j - Len(u) \in 1..Len(h) /\ Len(u) + (j - Len(u)) = j
      BY <1>3, <2>3
    <3>2. w[j] = h[j - Len(u)]
      BY <1>3, <3>1
    <3>3. j - Len(u) \in FromTrusted(h)
      BY <2>1, <3>1, <3>2 DEF FromTrusted
    <3>4. i <= j - Len(u)
      BY <1>1, <3>3 DEF FirstTrusted
    <3>5. QED
      BY <1>2, <1>3, <2>1, <3>4
  <2>4. CASE j > Len(u) + Len(h)
    BY <1>2, <1>3, <2>1, <2>4
  <2>5. QED
    BY <1>3, <2>1, <2>2, <2>3, <2>4
<1>6. FirstTrusted(w, Len(u) + i) /\ w[Len(u) + i] = h[i]
  BY <1>2, <1>3, <1>4, <1>5 DEF FirstTrusted
<1>7. Claims(w) = Claims(h)
  BY <1>1, <1>3, <1>6, ClaimsOfFirst
<1>8. QED
  BY <1>7 DEF w

=============================================================================
