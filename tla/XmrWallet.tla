----------------------------- MODULE XmrWallet -----------------------------
(***************************************************************************)
(* services/payments/xmr.rs against a chain that reorganises: the fork     *)
(* tracker of the view-only client and the confirmations it counts, for    *)
(* the one pending XMR order the payment job asks about                    *)
(* (background/payment_poller.rs).  Every RPC is a step of its own, so the *)
(* chain may change between any two, and may fail.                         *)
(*                                                                         *)
(* The chain is external: a sequence of blocks, numbered in the order they *)
(* were mined, of which each has one height for ever.                      *)
(***************************************************************************)
EXTENDS Naturals, Sequences, FiniteSets

CONSTANTS
    Required,     \* REQUIRED_CONFIRMATIONS_XMR
    MaxBlocks,    \* bound on blocks ever mined
    MaxReorgs,    \* bound on reorganisations
    MaxErrors,    \* bound on RPCs that fail
    MaxRestarts   \* bound on restarts of the worker

ASSUME XmrAssumption == Required \in Nat \ {0} /\ MaxBlocks \in Nat \ {0}

VARIABLES
    chain,      \* block at each height
    mined,      \* blocks mined so far: the next block is mined + 1
    heightOf,   \* height each block was mined at
    tx,         \* the payment: None, Pool, or the block that holds it
    last,       \* last_block_height and last_block_hash
    poll,       \* the poll in progress
    answer,     \* what check_for_fork last returned
    credited,   \* the order was credited
    budget      \* reorganisations, errors and restarts so far

chainVars == <<chain, mined, heightOf, tx>>
vars == <<chainVars, last, poll, answer, credited, budget>>

NoBlock == 0
None == 0      \* tx: not sent
Pool == MaxBlocks + 1
Idle == [pc |-> "idle"]
NeverRan == [height |-> 0, hash |-> NoBlock]

XmrTypeOK ==
    /\ chain \in Seq(1 .. MaxBlocks) /\ Len(chain) >= 1
    /\ mined \in 1 .. MaxBlocks
    /\ \A h \in DOMAIN chain : heightOf[chain[h]] = h
    /\ tx \in 0 .. MaxBlocks + 1
    /\ last \in [height : 0 .. MaxBlocks, hash : 0 .. MaxBlocks]
    /\ poll.pc \in {"idle", "height", "hash", "known", "confirm", "transfers", "credit"}
    /\ answer \in {"none", "healthy", "fork"}

XmrInit ==
    /\ chain = <<1>>
    /\ mined = 1
    /\ heightOf = [b \in 1 .. MaxBlocks |-> IF b = 1 THEN 1 ELSE 0]
    /\ tx = None
    /\ last = NeverRan
    /\ poll = Idle
    /\ answer = "none"
    /\ credited = FALSE
    /\ budget = [reorgs |-> 0, errors |-> 0, restarts |-> 0]

-----------------------------------------------------------------------------
(* The chain *)

InChain(b) == \E h \in DOMAIN chain : chain[h] = b

(* n new blocks on top of the first `keep`.  The payment returns to the    *)
(* pool when its block is gone and is in one of the new blocks or in none. *)
Extend(keep, n) ==
    LET new == [i \in 1 .. n |-> mined + i]
        base == SubSeq(chain, 1, keep) IN
    /\ mined + n <= MaxBlocks
    /\ mined' = mined + n
    /\ chain' = base \o new
    /\ heightOf' = [b \in 1 .. MaxBlocks |-> IF b > mined /\ b <= mined + n
                                               THEN keep + b - mined ELSE heightOf[b]]
    /\ IF tx = None \/ \E h \in DOMAIN base : base[h] = tx
         THEN UNCHANGED tx
         ELSE tx' \in {Pool} \cup {new[i] : i \in 1 .. n}

Mine ==
    /\ Extend(Len(chain), 1)
    /\ UNCHANGED <<last, poll, answer, credited, budget>>

(* The node drops the last blocks and shows the new ones, all or, while it *)
(* catches up, only some of them.                                          *)
Reorg(keep, n) ==
    /\ budget.reorgs < MaxReorgs
    /\ keep \in 1 .. Len(chain) - 1
    /\ Extend(keep, n)
    /\ budget' = [budget EXCEPT !.reorgs = @ + 1]
    /\ poll' = IF poll = Idle THEN Idle ELSE [poll EXCEPT !.reorged = TRUE]
    /\ UNCHANGED <<last, answer, credited>>

Pay ==
    /\ tx = None
    /\ tx' = Pool
    /\ UNCHANGED <<chain, mined, heightOf, last, poll, answer, credited, budget>>

-----------------------------------------------------------------------------
(* check_for_fork runs twice in a poll: before the orders, and again in    *)
(* check_payment_with_confirmations.                                       *)

(* The remembered hash is not that of the block at the remembered height.  *)
Stuck == last # NeverRan /\ heightOf[last.hash] # last.height

(* again: this is the second check.  gone: the remembered block had left   *)
(* the chain when the check began.  reorged: the chain has since changed.  *)
Checking(again, remembered) ==
    [pc |-> "height", again |-> again, height |-> 0, hash |-> NoBlock, reorged |-> FALSE,
     gone |-> remembered # NeverRan /\ heightOf[remembered.hash] = remembered.height
              /\ ~ InChain(remembered.hash)]

StartPoll ==
    /\ poll = Idle
    /\ ~ credited
    /\ poll' = Checking(FALSE, last)
    /\ UNCHANGED <<chainVars, last, answer, credited, budget>>

Fork(remembered) ==
    /\ answer' = "fork"
    /\ last' = remembered
    /\ poll' = Idle

Healthy(remembered) ==
    /\ answer' = "healthy"
    /\ last' = remembered
    /\ poll' = IF poll.again THEN [poll EXCEPT !.pc = "confirm"] ELSE Checking(TRUE, remembered)

get_height ==
    /\ poll.pc = "height"
    /\ poll' = [poll EXCEPT !.pc = "hash", !.height = Len(chain)]
    /\ UNCHANGED <<chainVars, last, answer, credited, budget>>

Seen_NextHeight(h) == [height |-> h + 1, hash |-> chain[h]]
Seen(h) == [height |-> h, hash |-> chain[h]]

(* What the height and hash just read say.  On a greater height the block  *)
(* remembered is asked for first.                                          *)
Compare_NoRegression(h) ==
    \/ h > last.height /\ last # NeverRan /\ poll' = [poll EXCEPT !.pc = "known", !.hash = chain[h]]
       /\ UNCHANGED <<last, answer>>
    \/ (h <= last.height \/ last = NeverRan) /\ Healthy(Seen(h))
Compare_KeepsHeight(h) ==
    \/ last = NeverRan /\ Healthy(Seen(h))
    \/ h < last.height /\ Fork(last)
    \/ h > last.height /\ last # NeverRan /\ poll' = [poll EXCEPT !.pc = "known", !.hash = chain[h]]
       /\ UNCHANGED <<last, answer>>
    \/ h = last.height /\ Healthy(Seen(h))
Compare(h) ==
    \/ last = NeverRan /\ Healthy(Seen(h))
    \/ h < last.height /\ Fork(Seen(h))
    \/ h > last.height /\ last # NeverRan /\ poll' = [poll EXCEPT !.pc = "known", !.hash = chain[h]]
       /\ UNCHANGED <<last, answer>>
    \/ h = last.height /\ Healthy(Seen(h))

(* There is no block at the height any more: an error, which ends the poll.*)
get_block_hash ==
    /\ poll.pc = "hash"
    /\ \/ poll.height <= Len(chain) /\ Compare(poll.height)
       \/ poll.height > Len(chain) /\ poll' = Idle /\ UNCHANGED <<last, answer>>
    /\ UNCHANGED <<chainVars, credited, budget>>

(* The block at the remembered height, against the remembered hash: on a   *)
(* mismatch the hash is replaced and the height is not.                    *)
get_known_hash ==
    /\ poll.pc = "known"
    /\ last.height <= Len(chain)
    /\ \/ /\ chain[last.height] # last.hash
          /\ Fork([last EXCEPT !.hash = poll.hash])
       \/ /\ chain[last.height] = last.hash
          /\ Healthy([height |-> poll.height, hash |-> poll.hash])
    /\ UNCHANGED <<chainVars, credited, budget>>

(* ... and when it cannot be had, nothing is compared. *)
known_hash_unavailable ==
    /\ poll.pc = "known"
    /\ \/ last.height > Len(chain) /\ UNCHANGED budget
       \/ /\ budget.errors < MaxErrors
          /\ budget' = [budget EXCEPT !.errors = @ + 1]
    /\ Healthy([height |-> poll.height, hash |-> poll.hash])
    /\ UNCHANGED <<chainVars, credited>>

(* Any other call that fails ends the poll: an RPC, or a statement of      *)
(* mark_order_funded, the lost conditional UPDATE included.                *)
CallFails ==
    /\ budget.errors < MaxErrors
    /\ poll.pc \in {"height", "hash", "confirm", "transfers", "credit"}
    /\ budget' = [budget EXCEPT !.errors = @ + 1]
    /\ poll' = Idle
    /\ UNCHANGED <<chainVars, last, answer, credited>>

-----------------------------------------------------------------------------
(* get_incoming_transfers: the height is read before the transfers are. *)

confirm_height ==
    /\ poll.pc = "confirm"
    /\ poll' = [poll EXCEPT !.pc = "transfers", !.height = Len(chain), !.reorged = FALSE]
    /\ UNCHANGED <<chainVars, last, answer, credited, budget>>

(* A transfer in the pool has no height and is taken to be at the current. *)
BlockHeight_Zero == IF tx = Pool THEN 0 ELSE heightOf[tx]
BlockHeight == IF tx = Pool THEN poll.height ELSE heightOf[tx]
Confirmations == IF poll.height > BlockHeight THEN poll.height - BlockHeight ELSE 0

get_incoming_transfers ==
    /\ poll.pc = "transfers"
    /\ poll' = IF tx # None /\ Confirmations >= Required THEN [poll EXCEPT !.pc = "credit"] ELSE Idle
    /\ UNCHANGED <<chainVars, last, answer, credited, budget>>

(* After the answer come the jitter of rpc_call, the audit record and      *)
(* mark_order_funded's SELECT and UPDATE; the chain is not asked again.    *)
mark_order_funded ==
    /\ poll.pc = "credit"
    /\ credited' = TRUE
    /\ poll' = Idle
    /\ UNCHANGED <<chainVars, last, answer, budget>>

WorkerRestart ==
    /\ budget.restarts < MaxRestarts
    /\ budget' = [budget EXCEPT !.restarts = @ + 1]
    /\ last' = NeverRan
    /\ poll' = Idle
    /\ UNCHANGED <<chainVars, answer, credited>>

PollStep ==
    \/ StartPoll \/ get_height \/ get_block_hash \/ get_known_hash
    \/ known_hash_unavailable \/ confirm_height \/ get_incoming_transfers \/ mark_order_funded

XmrNext ==
    \/ PollStep
    \/ CallFails
    \/ WorkerRestart
    \/ Mine
    \/ Pay
    \/ \E keep \in 1 .. MaxBlocks, n \in 0 .. MaxBlocks : Reorg(keep, n)

XmrSpec == XmrInit /\ [][XmrNext]_vars

(* The worker's loop polls for ever; miners and buyers owe nothing. *)
FairXmrSpec == XmrSpec /\ WF_vars(PollStep)

-----------------------------------------------------------------------------
Depth(b) == Len(chain) - heightOf[b]
Buried == tx \notin {None, Pool} /\ InChain(tx) /\ Depth(tx) >= Required

(* What is credited has the confirmations asked for, in the chain as it is *)
(* when the row is written, though height and transfers are read one after *)
(* the other, the payment may have moved to another block or back to the   *)
(* pool before, and writing comes seconds later: the one way out is a      *)
(* reorganisation since the height was read.                               *)
CreditedIsBuried ==
    [][~ credited /\ credited' => Buried \/ poll.reorged]_vars

(* A check that reports a healthy chain although the block it remembered   *)
(* had left the chain before it began has met the very height it had       *)
(* remembered, or could not get the hash it wanted to compare.             *)
ForkMissedOnlyAtSameHeight ==
    [][poll.pc \in {"hash", "known"} /\ poll'.pc \in {"height", "confirm"} /\ poll.gone =>
          \/ poll.height = last.height
          \/ poll.pc = "known" /\ (last.height > Len(chain) \/ budget' # budget)]_vars

(* A payment that stays buried is credited, whatever reorganisations and   *)
(* failed calls came before, unless the tracker compares a hash with the   *)
(* block of another height, as it does after a mismatch.                   *)
BuriedIsCreditedOrStuck == <>[](Buried => credited \/ Stuck)

(* "Ok(true) if fork detected, Ok(false) if chain is healthy" (xmr.rs:191):*)
(* when reorganisations have ended, so do the reports of a fork.           *)
ForkReportsEnd == <>[](answer # "fork")
=============================================================================
