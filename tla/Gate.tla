-------------------------------- MODULE Gate --------------------------------
(***************************************************************************)
(* What MailGate promises about one stored message, whatever the worker,   *)
(* the owner and the retention job do concurrently: it enters the store    *)
(* quarantined, it changes state only because the owner asked for exactly  *)
(* that decision while it was stored, and once removed it can come back    *)
(* only through quarantine.  The agent API reads exactly the approved      *)
(* messages (migration 0004, view mailgate_api_approved_message).          *)
(***************************************************************************)
CONSTANT Messages

VARIABLES
    state,     \* state of each message, "absent" when no row exists
    asked      \* decisions the owner submitted and that are not yet applied

vars == <<state, asked>>

Decisions == {"approved", "rejected"}

Stored(k) == state[k] # "absent"

Init ==
    /\ state = [k \in Messages |-> "absent"]
    /\ asked = {}

Ingest(k) ==
    /\ ~Stored(k)
    /\ state' = [state EXCEPT ![k] = "quarantined"]
    /\ UNCHANGED asked

Ask(k, d) ==
    /\ Stored(k)
    /\ asked' = asked \union {<<k, d>>}
    /\ UNCHANGED state

(* The same decision may have been submitted once more and remain. *)
Decide(k, d) ==
    /\ <<k, d>> \in asked
    /\ Stored(k)
    /\ state' = [state EXCEPT ![k] = d]
    /\ asked' \in {asked, asked \ {<<k, d>>}}

(* Retention or mailbox deletion; decisions in flight on S come to nothing. *)
Remove(S) ==
    /\ \A k \in S : Stored(k)
    /\ state' = [k \in Messages |-> IF k \in S THEN "absent" ELSE state[k]]
    /\ asked' = {a \in asked : a[1] \notin S}

Next ==
    \/ \E k \in Messages : Ingest(k)
    \/ \E k \in Messages, d \in Decisions : Ask(k, d) \/ Decide(k, d)
    \/ \E S \in SUBSET Messages : Remove(S)

Spec == Init /\ [][Next]_vars

=============================================================================
