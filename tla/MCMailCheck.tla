----------------------------- MODULE MCMailCheck -----------------------------
(* A small instance of MailCheck for TLC. *)
EXTENDS MailCheck

Plain(flags, sender, parts) == [flags |-> flags, sender |-> sender, parts |-> parts]
SomeContents ==
    { Plain({}, TRUE, <<"other", "text">>),
      Plain({}, FALSE, <<"text">>),
      Plain({"unicode_controls"}, TRUE, <<"text">>),
      Plain({}, TRUE, <<"text", "dangerous">>),
      Plain({}, TRUE, <<"attachment", "attachment">>),
      Plain({}, TRUE, <<"text", "text", "text">>) }

Says(server, dmarc, spf) ==
    [server |-> server,
     says |-> [m \in Methods |-> CASE m = "dmarc" -> dmarc [] m = "spf" -> spf
                                   [] OTHER -> "nothing"]]
SomeHeaderLists ==
    { <<>>,
      << Says("ours", "pass", "other") >>,
      << Says("theirs", "pass", "pass") >>,
      << Says("theirs", "pass", "pass"), Says("ours", "none", "softfail") >>,
      << Says("ours", "none", "other"), Says("ours", "pass", "other") >> }

SomeSignatureLists ==
    { <<>>, <<"malformed", "broken">>, <<"invalid", "bad">>, <<"misnamed", "weak">>,
      <<"good", "bad", "good">>, <<"good", "weak", "bad", "good">> }

=============================================================================
