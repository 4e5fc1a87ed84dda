------------------------------- MODULE Verdict -------------------------------
(***************************************************************************)
(* What the check of a message promises, whatever the resolver, DNS and    *)
(* the clock do meanwhile: its DKIM result is found in one step, from its  *)
(* own signatures alone, and its risk in another, from that result; no     *)
(* message leaves anything behind for the next one.                        *)
(***************************************************************************)
CONSTANTS
    Lists,      \* lists of signatures
    Findings,   \* the DKIM results each list may have
    Risks       \* the risks a message with such a result may have

VARIABLES
    busy,       \* whether a message is being checked
    sigs,       \* its signatures
    found,      \* its DKIM result, or "pending"
    risk        \* what the last message was found to be

vars == <<busy, sigs, found, risk>>

Idle == ~busy /\ sigs = <<>> /\ found = "pending"

Init == Idle /\ risk = "unknown"

Refuse ==
    /\ ~busy /\ risk' = "refused"
    /\ UNCHANGED <<busy, sigs, found>>

(* Whether there are signatures to verify shows at once. *)
Begin(s) ==
    /\ ~busy /\ busy'
    /\ sigs' = s /\ risk' = "unknown"
    /\ found' = "pending" \/ found' \in Findings[s]

Find ==
    /\ busy /\ found = "pending"
    /\ found' # "pending" /\ found' \in Findings[sigs]
    /\ UNCHANGED <<busy, sigs, risk>>

Judge ==
    /\ busy /\ found # "pending"
    /\ risk' \in Risks[found]
    /\ Idle'

(* The worker is killed; the message is checked again. *)
Abandon == busy /\ risk' = "unknown" /\ Idle'

Next ==
    \/ Refuse \/ Find \/ Judge \/ Abandon
    \/ \E s \in Lists : Begin(s)

Spec == Init /\ [][Next]_vars

=============================================================================
