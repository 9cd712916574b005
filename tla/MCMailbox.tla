------------------------------ MODULE MCMailbox ------------------------------
(* The mailboxes of a network for TLC: two robots that follow a third, and  *)
(* one that follows another.                                                *)
EXTENDS MailboxProperties, TLC
CONSTANTS a, b, c
Star == {<<a, b>>, <<c, b>>}
Pair == {<<a, b>>}
=============================================================================
