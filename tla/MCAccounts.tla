----------------------------- MODULE MCAccounts -----------------------------
(* Constants for model-checking Accounts. *)
EXTENDS Accounts

\* One mailbox in two spellings.  Both ids are of it, typed differently: the
\* second stands for signing up again.
Spellings == {"Reader@example.pl", "reader@example.pl"}
LowerCase == [a \in Spellings |-> "reader@example.pl"]
OneMailbox ==
  [u \in Ids |-> IF u = CHOOSE v \in Ids : TRUE THEN "Reader@example.pl" ELSE "reader@example.pl"]

=============================================================================
