------------------------------ MODULE MailPolicy ------------------------------
(***************************************************************************)
(* What one message is worth (app/gateway/mail.py, and the aggregation at  *)
(* the end of verify_dkim in authentication.py): the limits that refuse a  *)
(* message, the signals its content gives, the claims of its mail server,  *)
(* and the risk assess() derives from them.                                *)
(*                                                                         *)
(* A content is what parse_message finds: whether it has MIME defects,     *)
(* control characters, an unknown charset, too much text, too many links,  *)
(* words of a prompt injection, a sender; and its MIME parts in order.     *)
(***************************************************************************)
EXTENDS Integers, Sequences, FiniteSets

CONSTANTS
    Servers,         \* authserv-ids that occur in mail
    Trusted,         \* trusted_authserv_ids of the mailbox
    MaxParts,        \* MAX_PARTS
    MaxAttachments   \* MAX_ATTACHMENTS

ASSUME MailPolicyConstants ==
    /\ Trusted \subseteq Servers
    /\ MaxParts \in Nat /\ MaxAttachments \in Nat

Flags == {"mime_defect", "unicode_controls_in_headers", "unknown_charset",
          "text_truncated", "unicode_controls", "too_many_links",
          "prompt_injection_suspected"}
Parts == {"other", "text", "attachment", "dangerous"}
Content == [flags : SUBSET Flags, sender : BOOLEAN, parts : Seq(Parts)]

Attachments(c) == {i \in DOMAIN c.parts : c.parts[i] \in {"attachment", "dangerous"}}

(* UnsafeMessage *)
Refused(c) ==
    Len(c.parts) > MaxParts \/ Cardinality(Attachments(c)) > MaxAttachments

If(reason, holds) == IF holds THEN {reason} ELSE {}

Signals(c) ==
    c.flags
      \union If("attachment_present", Attachments(c) # {})
      \union If("attachment_content_not_inspected", Attachments(c) # {})
      \union If("dangerous_attachment",
                \E i \in DOMAIN c.parts : c.parts[i] = "dangerous")

(***************************************************************************)
(* parse_authentication_results: only the first header of a trusted server *)
(* counts, whatever the others say.                                        *)
(***************************************************************************)
Methods == {"spf", "dkim", "dmarc"}
KnownResults == {"pass", "fail", "softfail", "neutral", "none", "temperror", "permerror"}
Header == [server : Servers, says : [Methods -> KnownResults \union {"other", "nothing"}]]

FromTrusted(headers) == {i \in DOMAIN headers : headers[i].server \in Trusted}
FirstOf(S) == CHOOSE i \in S : \A j \in S : i <= j

Claims(headers) ==
    [m \in Methods |->
        IF FromTrusted(headers) = {} THEN "unknown"
        ELSE LET said == headers[FirstOf(FromTrusted(headers))].says[m]
             IN  IF said \in KnownResults THEN said ELSE "unknown"]

(* The end of verify_dkim: one result for all signatures. *)
PermanentFirst(results) ==
    IF "pass" \in results THEN "pass"
    ELSE IF "permerror" \in results THEN "permerror"
    ELSE IF "temperror" \in results THEN "temperror"
    ELSE "fail"
Overall(results) ==
    IF "pass" \in results THEN "pass"
    ELSE IF "temperror" \in results THEN "temperror"
    ELSE IF "permerror" \in results THEN "permerror"
    ELSE "fail"

(***************************************************************************)
(* assess                                                                  *)
(***************************************************************************)
Failing == {"fail", "softfail", "permerror", "temperror"}

Reasons(c, claims, dkim) ==
    Signals(c)
      \union If("authentication_failure", \E m \in Methods : claims[m] \in Failing)
      \union If("independent_dkim_failure", dkim \in {"fail", "permerror"})
      \union If("independent_dkim_temperror", dkim = "temperror")
      \union If("missing_sender", ~c.sender)

Grave == {"dangerous_attachment", "authentication_failure",
          "independent_dkim_failure", "prompt_injection_suspected"}

(* A claim is believed although the content raises a doubt. *)
BelievingRisk(c, claims, dkim) ==
    IF Reasons(c, claims, dkim) \intersect Grave # {} THEN "high"
    ELSE IF dkim = "pass" \/ claims["dmarc"] = "pass" THEN "low"
    ELSE "medium"
Risk(c, claims, dkim) ==
    IF Reasons(c, claims, dkim) \intersect Grave # {} THEN "high"
    ELSE IF /\ Reasons(c, claims, dkim) = {}
            /\ dkim = "pass" \/ claims["dmarc"] = "pass" THEN "low"
    ELSE "medium"

=============================================================================
