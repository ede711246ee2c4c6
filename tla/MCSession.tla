----------------------------- MODULE MCSession -----------------------------
(***************************************************************************)
(* Two tabs, two submissions of the first one's form.  "AL" is typed for   *)
(* the username "al"; "bo" is the bootstrap administrator, whose login an  *)
(* older build may have left in the storage both tabs share.               *)
(***************************************************************************)
EXTENDS Session

MCOwner(s) == "t1"
MCCanonical(text) == IF text = "AL" THEN "al" ELSE text
MCEntries == {[text |-> "AL", password |-> "pw1"], [text |-> "AL", password |-> "pw2"],
              [text |-> "bo", password |-> "pw1"]}
MCAccounts == {[name |-> "bo", password |-> "pw1", role |-> "admin"]}
MCLegacyLogins ==
    {[token |-> [sub |-> "bo", epoch |-> 0], role |-> "admin", name |-> "bo"]}
=============================================================================
