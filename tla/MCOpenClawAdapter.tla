-------------------------- MODULE MCOpenClawAdapter --------------------------
(* Small instances of OpenClawAdapter: three records of which two share an     *)
(* e-mail address and one goes by an alias, or two that share a canonical id.  *)
EXTENDS OpenClawAdapter

CONSTANTS a, b, b_alias, c, mail_a, mail_c, main, helper

MCCanon == [r \in Accounts |-> IF r = b_alias THEN b ELSE r]
MCEmail == [r \in Accounts |-> IF r = c THEN mail_c ELSE mail_a]
MCFirstAccounts == <<a, b_alias, c>>
MCFirstOrder == [g \in Agents |-> IF g = main THEN <<a, b_alias>> ELSE <<>>]

CollidingEmail == [r \in Accounts |-> IF r = b THEN mail_a ELSE mail_c]
CollidingAccounts == <<b_alias, b>>
CollidingOrder == [g \in Agents |-> <<b>>]
==============================================================================
