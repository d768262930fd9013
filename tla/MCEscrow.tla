------------------------------ MODULE MCEscrow ------------------------------
(***************************************************************************)
(* The two ways money is held outside the orders table.  They share no     *)
(* state, so a behaviour of this run is one of the contract or one of the  *)
(* coin swap while the other stays in an initial state.                    *)
(***************************************************************************)
EXTENDS EscrowLock, CoinSwap

CONSTANTS o1, o2, a1, a2

MCOrderIds == {o1, o2}
MCAccounts == {a1, a2}

VARIABLE scope

MCInit ==
    /\ LockInit /\ SwapInit
    /\ \/ scope = "contract" /\ args = CHOOSE x \in SwapArgs : TRUE
       \/ scope = "coinswap" /\ accepts = {}

MCNext ==
    /\ \/ scope = "contract" /\ LockNext /\ UNCHANGED swapVars
       \/ scope = "coinswap" /\ SwapNext /\ UNCHANGED lockVars
    /\ UNCHANGED scope

(* Blocks keep coming, and a buyer who can have its money back asks for it. *)
MCFairness ==
    /\ WF_lockVars(scope = "contract" /\ BlockTime)
    /\ \A id \in OrderIds : WF_lockVars(scope = "contract" /\ \E a \in Accounts : refund(id, a))

MCSpec == MCInit /\ [][MCNext]_<<lockVars, swapVars, scope>> /\ MCFairness
=============================================================================
