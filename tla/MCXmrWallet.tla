---------------------------- MODULE MCXmrWallet ----------------------------
(* Bounded instances of XmrWallet. *)
EXTENDS XmrWallet
=============================================================================
