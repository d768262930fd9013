-------------------------- MODULE XmrWalletProofs --------------------------
(***************************************************************************)
(* What the fork tracker and the confirmations can be relied on for, with  *)
(* any number of blocks, reorganisations, failed calls and restarts.       *)
(***************************************************************************)
EXTENDS XmrWallet, SequenceTheorems, TLAPS

Blocks == 1 .. MaxBlocks
Remembered == [height : 0 .. MaxBlocks, hash : 0 .. MaxBlocks]
PollState == [pc : {"height", "hash", "known", "confirm", "transfers", "credit"}, again : BOOLEAN,
              height : 0 .. MaxBlocks, hash : 0 .. MaxBlocks, reorged : BOOLEAN, gone : BOOLEAN]
Budget == [reorgs : Nat, errors : Nat, restarts : Nat]

ChainTyped ==
    /\ chain \in Seq(Blocks) /\ Len(chain) >= 1
    /\ mined \in Blocks
    /\ heightOf \in [Blocks -> 0 .. MaxBlocks]
    /\ tx \in 0 .. MaxBlocks + 1
PollTyped ==
    /\ last \in Remembered
    /\ poll \in {Idle} \cup PollState
    /\ answer \in {"none", "healthy", "fork"}
    /\ budget \in Budget

(* The chain is made of blocks that were mined, each at its height. *)
Rooted ==
    /\ Len(chain) <= mined
    /\ \A h \in 1 .. Len(chain) : chain[h] <= mined /\ heightOf[chain[h]] = h

(* A payment that is in a block is in a block of the chain. *)
Placed == tx \in Blocks => InChain(tx)

(* What is remembered, or is about to be, is a block that was mined.       *)
Known ==
    /\ last = NeverRan \/ (last.height >= 1 /\ last.hash \in 1 .. mined)
    /\ poll.pc \in {"hash", "known"} => poll.height >= 1
    /\ poll.pc = "known" => last # NeverRan /\ poll.hash \in 1 .. mined

(* While a check runs, a block that had left the chain stays away, and is  *)
(* what the tracker compares with.                                         *)
Gone(b, h) == heightOf[b] = h /\ ~ InChain(b)
StaysGone ==
    poll.pc \in {"height", "hash", "known"} /\ poll.gone =>
        last # NeverRan /\ Gone(last.hash, last.height)

(* Without a reorganisation the chain is no shorter than the height read,  *)
(* and the payment as deep as it was counted to be.                        *)
Reached ==
    /\ poll.pc = "transfers" /\ ~ poll.reorged => poll.height <= Len(chain)
    /\ poll.pc = "credit" /\ ~ poll.reorged => Buried

ChainInv == ChainTyped /\ Rooted /\ Placed
PollInv == PollTyped /\ Known /\ StaysGone /\ Reached
XmrInv == ChainInv /\ PollInv

-----------------------------------------------------------------------------
(* The chain *)

(* Bounds that the steps below take for granted.                           *)
LEMMA Numbers ==
    ASSUME ChainTyped
    PROVE  /\ MaxBlocks \in Nat \ {0} /\ Required \in Nat \ {0}
           /\ Len(chain) \in Nat /\ DOMAIN chain = 1 .. Len(chain)
           /\ mined \in Nat /\ mined >= 1 /\ mined <= MaxBlocks
           /\ \A h \in 1 .. Len(chain) : chain[h] \in Blocks
<1>1. MaxBlocks \in Nat \ {0} /\ Required \in Nat \ {0}
  BY XmrAssumption
<1>2. Len(chain) \in Nat /\ DOMAIN chain = 1 .. Len(chain)
  BY LenProperties DEF ChainTyped
<1>3. mined \in Nat /\ mined >= 1 /\ mined <= MaxBlocks
  BY <1>1 DEF ChainTyped, Blocks
<1>4. \A h \in 1 .. Len(chain) : chain[h] \in Blocks
  BY ElementOfSeq DEF ChainTyped
<1> QED BY <1>1, <1>2, <1>3, <1>4

(* The blocks kept: the first ones of the chain.                           *)
LEMMA BaseFacts ==
    ASSUME ChainTyped, NEW keep \in 1 .. Len(chain)
    PROVE  LET base == SubSeq(chain, 1, keep) IN
           /\ base \in Seq(Blocks) /\ Len(base) = keep
           /\ \A i \in 1 .. keep : base[i] = chain[i]
<1> DEFINE base == SubSeq(chain, 1, keep)
<1>1. keep \in Int /\ keep >= 1 /\ keep <= Len(chain)
  BY Numbers
<1>2. \A i \in 1 .. keep : chain[i] \in Blocks
  BY <1>1, Numbers
<1>3. base \in Seq(Blocks)
  BY <1>1, <1>2, SubSeqProperties
<1>4. Len(base) = IF 1 <= keep THEN keep - 1 + 1 ELSE 0
  BY <1>1, <1>2, SubSeqProperties
<1>5. \A i \in 1 .. keep - 1 + 1 : base[i] = chain[1 + i - 1]
  BY <1>1, <1>2, SubSeqProperties
<1> HIDE DEF base
<1>6. Len(base) = keep /\ \A i \in 1 .. keep : base[i] = chain[i]
  BY <1>1, <1>4, <1>5
<1> QED BY <1>3, <1>6 DEF base

(* The chain after Extend: the blocks kept, then the new ones, by number.  *)
LEMMA Extended ==
    ASSUME ChainTyped, NEW keep \in 1 .. Len(chain), NEW n \in Nat, Extend(keep, n)
    PROVE  /\ chain' \in Seq(Blocks) /\ Len(chain') = keep + n
           /\ \A h \in 1 .. keep : chain'[h] = chain[h]
           /\ \A h \in keep + 1 .. keep + n : chain'[h] = mined + (h - keep)
<1> DEFINE new == [i \in 1 .. n |-> mined + i]
           base == SubSeq(chain, 1, keep)
<1>1. chain' = base \o new /\ mined + n <= MaxBlocks
  BY DEF Extend
<1>2. keep \in Int /\ keep >= 1 /\ keep <= Len(chain)
  BY Numbers
<1>6. base \in Seq(Blocks) /\ Len(base) = keep /\ \A i \in 1 .. keep : base[i] = chain[i]
  BY BaseFacts
<1>7. new \in Seq(Blocks) /\ Len(new) = n /\ \A i \in 1 .. n : new[i] = mined + i
  <2>1. \A i \in 1 .. n : mined + i \in Blocks
    BY <1>1, Numbers DEF Blocks
  <2>2. new \in [1 .. n -> Blocks]
    BY <2>1
  <2>3. new \in Seq(Blocks)
    BY <2>2
  <2>4. Len(new) = n
    BY <2>2, <2>3, LenProperties
  <2> QED BY <2>3, <2>4
<1> HIDE DEF base, new
<1>8. /\ chain' \in Seq(Blocks) /\ Len(chain') = keep + n
      /\ \A i \in 1 .. keep + n : chain'[i] = IF i <= keep THEN base[i] ELSE new[i - keep]
  BY <1>1, <1>6, <1>7, ConcatProperties, ZenonT(40)
<1>9. \A h \in 1 .. keep : chain'[h] = chain[h]
  BY <1>2, <1>6, <1>8
<1>10. \A h \in keep + 1 .. keep + n : chain'[h] = mined + (h - keep)
  BY <1>2, <1>7, <1>8
<1> QED BY <1>8, <1>9, <1>10

(* New blocks have numbers and heights of their own, and the payment moves *)
(* with its block; a block that is gone does not come back.                *)
LEMMA ExtendKeeps ==
    ASSUME XmrInv, NEW keep \in 1 .. Len(chain), NEW n \in Nat, Extend(keep, n)
    PROVE  /\ ChainInv'
           /\ mined' \in Nat /\ mined <= mined' /\ Len(chain') = keep + n
           /\ \A b \in 1 .. mined : heightOf'[b] = heightOf[b] /\ (InChain(b)' => InChain(b))
<1> USE DEF XmrInv, ChainInv
<1>0. /\ MaxBlocks \in Nat \ {0} /\ Len(chain) \in Nat /\ DOMAIN chain = 1 .. Len(chain)
      /\ mined \in Nat /\ mined >= 1 /\ mined <= MaxBlocks /\ keep \in Nat /\ keep >= 1
      /\ keep <= Len(chain) /\ Len(chain) <= mined
      /\ \A h \in 1 .. Len(chain) : chain[h] \in Blocks
  BY Numbers DEF Rooted
<1>1. /\ chain' \in Seq(Blocks) /\ Len(chain') = keep + n
      /\ \A h \in 1 .. keep : chain'[h] = chain[h]
      /\ \A h \in keep + 1 .. keep + n : chain'[h] = mined + (h - keep)
  BY Extended
<1>2. mined' = mined + n /\ mined + n <= MaxBlocks
  BY DEF Extend
<1>3. heightOf' = [b \in Blocks |-> IF b > mined /\ b <= mined + n
                                     THEN keep + b - mined ELSE heightOf[b]]
  BY DEF Extend, Blocks
<1>4. \A b \in 1 .. mined : b \in Blocks /\ heightOf'[b] = heightOf[b]
  BY <1>0, <1>3 DEF Blocks
<1>5. \A h \in keep + 1 .. keep + n : /\ chain'[h] \in Blocks /\ chain'[h] > mined
                                       /\ chain'[h] <= mined + n /\ heightOf'[chain'[h]] = h
  <2> SUFFICES ASSUME NEW h \in keep + 1 .. keep + n
               PROVE  /\ chain'[h] \in Blocks /\ chain'[h] > mined
                      /\ chain'[h] <= mined + n /\ heightOf'[chain'[h]] = h
    OBVIOUS
  <2> DEFINE b == mined + (h - keep)
  <2>1. chain'[h] = b
    BY <1>1
  <2>2. b \in Blocks /\ b > mined /\ b <= mined + n /\ keep + b - mined = h
    BY <1>0, <1>2 DEF Blocks
  <2> HIDE DEF b
  <2>3. heightOf'[b] = h
    BY <1>3, <2>2
  <2> QED BY <2>1, <2>2, <2>3
<1>6. \A h \in 1 .. keep : /\ chain'[h] = chain[h] /\ chain[h] \in 1 .. mined
                           /\ heightOf'[chain'[h]] = h
  <2> SUFFICES ASSUME NEW h \in 1 .. keep
               PROVE  chain'[h] = chain[h] /\ chain[h] \in 1 .. mined /\ heightOf'[chain'[h]] = h
    OBVIOUS
  <2>1. h \in 1 .. Len(chain) /\ chain'[h] = chain[h]
    BY <1>0, <1>1
  <2>2. chain[h] \in 1 .. mined /\ heightOf[chain[h]] = h
    BY <1>0, <2>1 DEF Rooted, Blocks
  <2> QED BY <1>4, <2>1, <2>2
<1>7. \A h \in 1 .. keep + n : h \in 1 .. keep \/ h \in keep + 1 .. keep + n
  BY <1>0
<1>8. Rooted'
  <2>1. Len(chain') <= mined'
    BY <1>0, <1>1, <1>2
  <2>2. \A h \in 1 .. Len(chain') : chain'[h] <= mined' /\ heightOf'[chain'[h]] = h
    BY <1>0, <1>1, <1>2, <1>5, <1>6, <1>7
  <2> QED BY <2>1, <2>2 DEF Rooted
<1>9. DOMAIN chain' = 1 .. keep + n
  BY <1>1, LenProperties
<1>10. \A b \in 1 .. mined : InChain(b)' => InChain(b)
  <2> SUFFICES ASSUME NEW b \in 1 .. mined, NEW h \in 1 .. keep + n, chain'[h] = b
               PROVE  \E g \in 1 .. Len(chain) : chain[g] = b
    BY <1>0, <1>9 DEF InChain
  <2>1. h \in 1 .. keep
    BY <1>0, <1>5, <1>7
  <2>2. h \in 1 .. Len(chain) /\ chain[h] = b
    BY <1>0, <1>1, <2>1
  <2> QED BY <2>2
<1>11. heightOf' \in [Blocks -> 0 .. MaxBlocks]
  <2>1. \A b \in Blocks : (b > mined /\ b <= mined + n) => keep + b - mined \in 0 .. MaxBlocks
    BY <1>0, <1>2 DEF Blocks
  <2>2. \A b \in Blocks : heightOf[b] \in 0 .. MaxBlocks
    BY DEF ChainTyped
  <2> QED BY <1>3, <2>1, <2>2
<1>12. mined' \in Blocks /\ mined' \in Nat /\ mined <= mined' /\ Len(chain') >= 1
  BY <1>0, <1>1, <1>2 DEF Blocks
<1>13. tx' \in 0 .. MaxBlocks + 1 /\ Placed'
  <2> DEFINE base == SubSeq(chain, 1, keep)
             new == [i \in 1 .. n |-> mined + i]
  <2>1. CASE tx = None
    <3>1. tx' = None
      BY <2>1 DEF Extend
    <3>2. None \notin Blocks /\ None \in 0 .. MaxBlocks + 1
      BY <1>0 DEF None, Blocks
    <3> QED BY <3>1, <3>2 DEF Placed
  <2>2. CASE \E h \in DOMAIN base : base[h] = tx
    <3>1. tx' = tx /\ tx \in 0 .. MaxBlocks + 1
      BY <2>2 DEF Extend, ChainTyped
    <3>5. base \in Seq(Blocks) /\ Len(base) = keep /\ \A i \in 1 .. keep : base[i] = chain[i]
      BY BaseFacts
    <3>6. PICK h \in DOMAIN base : base[h] = tx
      BY <2>2
    <3> HIDE DEF base
    <3>7. h \in 1 .. keep
      BY <3>5, LenProperties
    <3>8. chain'[h] = tx' /\ h \in 1 .. keep + n
      BY <1>0, <1>1, <3>1, <3>5, <3>6, <3>7
    <3>9. InChain(tx)'
      BY <1>9, <3>8 DEF InChain
    <3> QED BY <3>1, <3>9 DEF Placed
  <2>3. CASE tx # None /\ ~ \E h \in DOMAIN base : base[h] = tx
    <3>1. tx' \in {Pool} \cup {new[i] : i \in 1 .. n}
      BY <2>3 DEF Extend
    <3>2. CASE tx' = Pool
      <4>1. Pool \notin Blocks /\ Pool \in 0 .. MaxBlocks + 1
        BY <1>0 DEF Pool, Blocks
      <4> QED BY <3>2, <4>1 DEF Placed
    <3>3. CASE tx' \in {new[i] : i \in 1 .. n}
      <4>1. PICK i \in 1 .. n : tx' = mined + i
        BY <3>3
      <4> DEFINE h == keep + i
      <4>2. h \in keep + 1 .. keep + n /\ h \in 1 .. keep + n /\ h - keep = i
        BY <1>0
      <4> HIDE DEF h
      <4>3. chain'[h] = tx'
        BY <1>1, <4>1, <4>2
      <4>4. InChain(tx)'
        BY <1>9, <4>2, <4>3 DEF InChain
      <4>5. tx' \in 0 .. MaxBlocks + 1
        BY <1>0, <1>2, <4>1
      <4> QED BY <4>4, <4>5 DEF Placed
    <3> QED BY <3>1, <3>2, <3>3
  <2> QED BY <2>1, <2>2, <2>3
<1>14. ChainTyped'
  BY <1>1, <1>11, <1>12, <1>13 DEF ChainTyped
<1> QED BY <1>1, <1>4, <1>8, <1>10, <1>12, <1>13, <1>14

(* A poll leaves the chain alone.                                          *)
LEMMA ChainFrame ==
    ASSUME ChainInv, UNCHANGED chainVars
    PROVE  ChainInv'
<1> USE DEF chainVars, ChainInv
<1>1. ChainTyped'
  BY DEF ChainTyped
<1>2. Rooted'
  BY DEF Rooted
<1>3. Placed'
  BY DEF Placed, InChain
<1> QED BY <1>1, <1>2, <1>3

(* A poll in progress has all its fields.                                  *)
LEMMA PollFacts ==
    ASSUME PollTyped
    PROVE  /\ poll.pc # "idle" => poll \in PollState
           /\ poll # Idle => poll \in PollState
           /\ Idle.pc = "idle"
BY DEF PollTyped, Idle, PollState

(* No poll in progress: only what is remembered matters.                   *)
LEMMA IdleKeeps ==
    ASSUME poll' = Idle, last' \in Remembered, answer' \in {"none", "healthy", "fork"}, budget' \in Budget,
           last' = NeverRan \/ (last'.height >= 1 /\ last'.hash \in 1 .. mined')
    PROVE  PollInv'
<1>1. poll'.pc = "idle"
  BY DEF Idle
<1> QED BY <1>1 DEF PollInv, PollTyped, Known, StaysGone, Reached

(* A check begins by looking whether the block remembered has gone.        *)
LEMMA CheckingKeeps ==
    ASSUME NEW again \in BOOLEAN, UNCHANGED chainVars, poll' = Checking(again, last'),
           last' \in Remembered, answer' \in {"none", "healthy", "fork"}, budget' \in Budget,
           last' = NeverRan \/ (last'.height >= 1 /\ last'.hash \in 1 .. mined')
    PROVE  PollInv'
<1> DEFINE g == last' # NeverRan /\ heightOf[last'.hash] = last'.height /\ ~ InChain(last'.hash)
<1>1. poll' = [pc |-> "height", again |-> again, height |-> 0, hash |-> NoBlock, reorged |-> FALSE, gone |-> g]
  BY DEF Checking
<1>2. g => last' # NeverRan /\ Gone(last.hash, last.height)'
  BY DEF Gone, InChain, chainVars
<1>3. g \in BOOLEAN
  OBVIOUS
<1> HIDE DEF g
<1>4. poll' \in PollState /\ poll'.pc = "height" /\ poll'.gone = g
  BY <1>1, <1>3, XmrAssumption DEF PollState, NoBlock
<1>5. StaysGone'
  BY <1>2, <1>4 DEF StaysGone
<1> QED BY <1>4, <1>5 DEF PollInv, PollTyped, Known, Reached

(* A healthy check goes on, with a block that was mined remembered.        *)
LEMMA HealthyKeeps ==
    ASSUME XmrInv, poll \in PollState, UNCHANGED chainVars, budget' \in Budget,
           NEW m \in Remembered, m.height >= 1, m.hash \in 1 .. mined, Healthy(m)
    PROVE  PollInv'
<1>1. last' = m /\ answer' = "healthy" /\ mined' = mined
  BY DEF Healthy, chainVars
<1>2. CASE poll.again
  <2>1. poll' = [poll EXCEPT !.pc = "confirm"]
    BY <1>2 DEF Healthy
  <2>2. poll' \in PollState /\ poll'.pc = "confirm"
    BY <2>1 DEF PollState
  <2> QED BY <1>1, <2>2 DEF XmrInv, PollInv, PollTyped, Known, StaysGone, Reached
<1>3. CASE ~ poll.again
  <2>1. poll' = Checking(TRUE, last')
    BY <1>1, <1>3 DEF Healthy
  <2> QED BY <1>1, <2>1, CheckingKeeps
<1> QED BY <1>2, <1>3

(* What is at a height of the chain was mined.                             *)
LEMMA SeenFacts ==
    ASSUME ChainInv, NEW h \in 1 .. Len(chain)
    PROVE  /\ Seen(h) \in Remembered /\ Seen(h).height >= 1 /\ Seen(h).hash \in 1 .. mined
           /\ chain[h] \in 1 .. mined /\ chain[h] \in 0 .. MaxBlocks /\ h \in 0 .. MaxBlocks
<1>1. /\ MaxBlocks \in Nat /\ mined \in Nat /\ mined <= MaxBlocks /\ Len(chain) \in Nat
      /\ chain[h] \in Blocks /\ Len(chain) <= mined /\ chain[h] <= mined
  BY Numbers DEF ChainInv, Rooted
<1>2. chain[h] \in 1 .. mined /\ chain[h] \in 0 .. MaxBlocks /\ h \in 0 .. MaxBlocks /\ h >= 1
  BY <1>1 DEF Blocks
<1> QED BY <1>2 DEF Seen, Remembered

(* The reads of a check that only move it on.                              *)
LEMMA GetHeightKeeps ==
    ASSUME XmrInv, get_height
    PROVE  XmrInv'
<1> USE DEF XmrInv
<1>1. /\ poll.pc = "height" /\ UNCHANGED chainVars /\ UNCHANGED <<last, answer, budget>>
      /\ poll' = [poll EXCEPT !.pc = "hash", !.height = Len(chain)]
  BY DEF get_height
<1>2. poll \in PollState
  BY <1>1, PollFacts DEF PollInv
<1>3. Len(chain) \in 0 .. MaxBlocks /\ Len(chain) >= 1
  BY Numbers DEF ChainInv, Rooted, ChainTyped
<1>4. poll' \in PollState /\ poll'.pc = "hash" /\ poll'.height >= 1 /\ poll'.gone = poll.gone
  BY <1>1, <1>2, <1>3 DEF PollState
<1>5. PollTyped' /\ Known' /\ Reached'
  BY <1>1, <1>4 DEF PollInv, PollTyped, Known, Reached, chainVars
<1>6. StaysGone'
  BY <1>1, <1>4 DEF PollInv, StaysGone, Gone, InChain, chainVars
<1> QED BY <1>1, <1>5, <1>6, ChainFrame DEF PollInv

(* Comparing heights: what is remembered next is a block of the chain.     *)
LEMMA GetBlockHashKeeps ==
    ASSUME XmrInv, get_block_hash
    PROVE  XmrInv'
<1> USE DEF XmrInv
<1>1. poll.pc = "hash" /\ UNCHANGED chainVars /\ budget' = budget
  BY DEF get_block_hash
<1>2. poll \in PollState /\ budget \in Budget /\ answer \in {"none", "healthy", "fork"}
  BY <1>1, PollFacts DEF PollInv, PollTyped
<1>3. last \in Remembered /\ (last = NeverRan \/ (last.height >= 1 /\ last.hash \in 1 .. mined))
  BY DEF PollInv, PollTyped, Known
<1>4. mined' = mined /\ ChainInv'
  BY <1>1, ChainFrame DEF chainVars
<1>5. CASE poll.height <= Len(chain) /\ Compare(poll.height)
  <2> DEFINE h == poll.height
  <2>1. h \in 1 .. Len(chain)
    BY <1>1, <1>2, <1>5, Numbers DEF PollInv, Known, PollState, ChainInv
  <2>2. /\ Seen(h) \in Remembered /\ Seen(h).height >= 1 /\ Seen(h).hash \in 1 .. mined
        /\ chain[h] \in 1 .. mined /\ chain[h] \in 0 .. MaxBlocks
    BY <2>1, SeenFacts
  <2>3. PollInv'
    <3>1. CASE Healthy(Seen(h))
      BY <1>1, <1>2, <2>2, <3>1, HealthyKeeps
    <3>2. CASE Fork(Seen(h))
      <4>1. answer' = "fork" /\ last' = Seen(h) /\ poll' = Idle
        BY <3>2 DEF Fork
      <4> QED BY <1>1, <1>2, <1>4, <2>2, <4>1, IdleKeeps
    <3>3. CASE /\ last # NeverRan /\ UNCHANGED <<last, answer>>
               /\ poll' = [poll EXCEPT !.pc = "known", !.hash = chain[h]]
      <4>1. /\ poll' \in PollState /\ poll'.pc = "known" /\ poll'.gone = poll.gone
            /\ poll'.hash = chain[h] /\ poll'.height = h
        BY <1>2, <2>2, <3>3 DEF PollState
      <4>2. PollTyped' /\ Known' /\ Reached'
        BY <1>1, <1>2, <1>3, <1>4, <2>1, <2>2, <3>3, <4>1, Numbers DEF PollTyped, Known, Reached
      <4>3. StaysGone'
        BY <1>1, <3>3, <4>1 DEF PollInv, StaysGone, Gone, InChain, chainVars
      <4> QED BY <4>2, <4>3 DEF PollInv
    <3> QED BY <1>5, <3>1, <3>2, <3>3 DEF Compare
  <2> QED BY <1>4, <2>3
<1>6. CASE poll' = Idle /\ UNCHANGED <<last, answer>>
  BY <1>1, <1>2, <1>3, <1>4, <1>6, IdleKeeps
<1> QED BY <1>5, <1>6 DEF get_block_hash

(* The remembered block against the chain, or the hash not to be had.      *)
LEMMA KnownHashKeeps ==
    ASSUME XmrInv, get_known_hash \/ known_hash_unavailable
    PROVE  XmrInv'
<1> USE DEF XmrInv
<1>1. poll.pc = "known" /\ UNCHANGED chainVars
  BY DEF get_known_hash, known_hash_unavailable
<1>2. poll \in PollState /\ budget \in Budget /\ last \in Remembered
  BY <1>1, PollFacts DEF PollInv, PollTyped
<1>3. budget' \in Budget
  BY <1>2 DEF get_known_hash, known_hash_unavailable, Budget
<1>4. mined' = mined /\ ChainInv'
  BY <1>1, ChainFrame DEF chainVars
<1>5. poll.height >= 1 /\ poll.hash \in 1 .. mined /\ last # NeverRan
  BY <1>1 DEF PollInv, Known
<1>6. PollInv'
  <2>1. CASE Healthy([height |-> poll.height, hash |-> poll.hash])
    <3> DEFINE m == [height |-> poll.height, hash |-> poll.hash]
    <3>1. m \in Remembered /\ m.height >= 1 /\ m.hash \in 1 .. mined
      BY <1>2, <1>5 DEF Remembered, PollState
    <3> HIDE DEF m
    <3>2. Healthy(m)
      BY <2>1 DEF m
    <3> QED BY <1>1, <1>2, <1>3, <3>1, <3>2, HealthyKeeps
  <2>2. CASE Fork([last EXCEPT !.hash = poll.hash])
    <3> DEFINE m == [last EXCEPT !.hash = poll.hash]
    <3>1. m \in Remembered /\ m.height = last.height /\ m.hash = poll.hash
      BY <1>2 DEF Remembered, PollState
    <3>2. last.height >= 1
      BY <1>5 DEF PollInv, Known
    <3>3. last' = m /\ poll' = Idle /\ answer' = "fork"
      BY <2>2 DEF Fork
    <3> HIDE DEF m
    <3> QED BY <1>3, <1>4, <1>5, <3>1, <3>2, <3>3, IdleKeeps
  <2> QED BY <2>1, <2>2 DEF get_known_hash, known_hash_unavailable
<1> QED BY <1>4, <1>6

(* A poll that starts, and one that ends with a failed call or a restart.  *)
LEMMA StartAndStopKeep ==
    ASSUME XmrInv, StartPoll \/ CallFails \/ WorkerRestart
    PROVE  XmrInv'
<1> USE DEF XmrInv
<1>1. UNCHANGED chainVars /\ answer' = answer
  BY DEF StartPoll, CallFails, WorkerRestart
<1>2. /\ last \in Remembered /\ budget \in Budget /\ answer \in {"none", "healthy", "fork"}
      /\ last = NeverRan \/ (last.height >= 1 /\ last.hash \in 1 .. mined)
  BY DEF PollInv, PollTyped, Known
<1>3. budget' \in Budget
  <2>1. CASE StartPoll
    BY <1>2, <2>1 DEF StartPoll
  <2>2. CASE CallFails
    BY <1>2, <2>2 DEF CallFails, Budget
  <2>3. CASE WorkerRestart
    BY <1>2, <2>3 DEF WorkerRestart, Budget
  <2> QED BY <2>1, <2>2, <2>3
<1>4. mined' = mined /\ ChainInv'
  BY <1>1, ChainFrame DEF chainVars
<1>5. PollInv'
  <2>1. CASE StartPoll
    <3>1. poll' = Checking(FALSE, last') /\ last' = last
      BY <2>1 DEF StartPoll
    <3> QED BY <1>1, <1>2, <1>3, <1>4, <3>1, CheckingKeeps
  <2>2. CASE CallFails
    <3>1. poll' = Idle /\ last' = last
      BY <2>2 DEF CallFails
    <3> QED BY <1>1, <1>2, <1>3, <1>4, <3>1, IdleKeeps
  <2>3. CASE WorkerRestart
    <3>1. poll' = Idle /\ last' = NeverRan
      BY <2>3 DEF WorkerRestart
    <3>2. NeverRan \in Remembered
      BY XmrAssumption DEF NeverRan, Remembered, NoBlock
    <3> QED BY <1>1, <1>2, <1>3, <1>4, <3>1, <3>2, IdleKeeps
  <2> QED BY <2>1, <2>2, <2>3
<1> QED BY <1>4, <1>5

(* The height for the confirmations is that of the chain when it is read.  *)
LEMMA ConfirmHeightKeeps ==
    ASSUME XmrInv, confirm_height
    PROVE  XmrInv'
<1> USE DEF XmrInv
<1>1. /\ poll.pc = "confirm" /\ UNCHANGED chainVars /\ UNCHANGED <<last, answer, budget>>
      /\ poll' = [poll EXCEPT !.pc = "transfers", !.height = Len(chain), !.reorged = FALSE]
  BY DEF confirm_height
<1>2. poll \in PollState
  BY <1>1, PollFacts DEF PollInv
<1>3. Len(chain) \in 0 .. MaxBlocks /\ chain' = chain
  BY <1>1, Numbers DEF ChainInv, Rooted, ChainTyped, chainVars
<1>4. poll' \in PollState /\ poll'.pc = "transfers" /\ poll'.height = Len(chain)
  BY <1>1, <1>2, <1>3 DEF PollState
<1>5. PollTyped' /\ Known' /\ StaysGone'
  BY <1>1, <1>4 DEF PollInv, PollTyped, Known, StaysGone, chainVars
<1>6. Reached'
  BY <1>3, <1>4 DEF Reached
<1> QED BY <1>1, <1>5, <1>6, ChainFrame DEF PollInv

(* A transfer counted deep enough is as deep in the chain, unless that     *)
(* changed after its height was read.                                      *)
LEMMA CountedIsBuried ==
    ASSUME XmrInv, poll.pc = "transfers", tx # None, Confirmations >= Required, ~ poll.reorged
    PROVE  Buried
<1> USE DEF XmrInv
<1>1. poll \in PollState /\ poll.height \in Nat /\ Required \in Nat \ {0} /\ MaxBlocks \in Nat
  BY PollFacts, XmrAssumption DEF PollInv, PollState
<1>2. tx # Pool
  <2> SUFFICES ASSUME tx = Pool PROVE FALSE
    OBVIOUS
  <2>1. Confirmations = 0
    BY <1>1 DEF Confirmations, BlockHeight
  <2> QED BY <1>1, <2>1
<1>3. tx \in Blocks
  BY <1>1, <1>2 DEF ChainInv, ChainTyped, None, Pool, Blocks
<1>4. InChain(tx) /\ heightOf[tx] \in Nat
  BY <1>1, <1>3 DEF ChainInv, Placed, ChainTyped
<1>5. poll.height - heightOf[tx] >= Required
  BY <1>1, <1>2, <1>4 DEF Confirmations, BlockHeight
<1>6. poll.height <= Len(chain) /\ Len(chain) \in Nat
  BY Numbers DEF PollInv, Reached, ChainInv
<1>7. Depth(tx) >= Required
  BY <1>1, <1>4, <1>5, <1>6 DEF Depth
<1> QED BY <1>2, <1>4, <1>7 DEF Buried

(* Reading the transfers decides whether the order is going to be credited.*)
LEMMA IncomingKeeps ==
    ASSUME XmrInv, get_incoming_transfers
    PROVE  XmrInv'
<1>1. UNCHANGED chainVars /\ UNCHANGED <<last, answer, budget>> /\ mined' = mined /\ poll.pc = "transfers"
  BY DEF get_incoming_transfers, chainVars
<1>2. CASE poll' = Idle
  <2>1. PollInv'
    BY <1>1, <1>2, IdleKeeps DEF XmrInv, PollInv, PollTyped, Known
  <2> QED BY <1>1, <2>1, ChainFrame DEF XmrInv
<1>3. CASE tx # None /\ Confirmations >= Required /\ poll' = [poll EXCEPT !.pc = "credit"]
  <2>1. poll \in PollState
    BY <1>1, PollFacts DEF XmrInv, PollInv
  <2>2. poll' \in PollState /\ poll'.pc = "credit" /\ poll'.reorged = poll.reorged
    BY <1>3, <2>1 DEF PollState
  <2>3. PollTyped' /\ Known' /\ StaysGone'
    BY <1>1, <2>2 DEF XmrInv, PollInv, PollTyped, Known, StaysGone
  <2>4. ~ poll.reorged => Buried
    BY <1>1, <1>3, CountedIsBuried
  <2>5. Reached'
    BY <1>1, <2>2, <2>4 DEF Reached, Buried, InChain, Depth, chainVars
  <2> QED BY <1>1, <2>3, <2>5, ChainFrame DEF XmrInv, PollInv
<1> QED BY <1>2, <1>3 DEF get_incoming_transfers

(* Crediting ends the poll.                                                *)
LEMMA FundedKeeps ==
    ASSUME XmrInv, mark_order_funded
    PROVE  XmrInv'
<1>1. UNCHANGED chainVars /\ UNCHANGED <<last, answer, budget>> /\ poll' = Idle /\ mined' = mined
  BY DEF mark_order_funded, chainVars
<1>2. PollInv'
  BY <1>1, IdleKeeps DEF XmrInv, PollInv, PollTyped, Known
<1> QED BY <1>1, <1>2, ChainFrame DEF XmrInv

(* A chain that only grows buries a payment deeper.                        *)
LEMMA BuriedDeeper ==
    ASSUME XmrInv, NEW n \in Nat, Extend(Len(chain), n), Buried
    PROVE  Buried'
<1> USE DEF XmrInv, ChainInv
<1>0. /\ MaxBlocks \in Nat \ {0} /\ Required \in Nat \ {0} /\ Len(chain) \in Nat
      /\ DOMAIN chain = 1 .. Len(chain) /\ mined \in Nat /\ Len(chain) \in 1 .. Len(chain)
  BY Numbers DEF ChainTyped
<1>1. /\ chain' \in Seq(Blocks) /\ Len(chain') = Len(chain) + n
      /\ \A h \in 1 .. Len(chain) : chain'[h] = chain[h]
  BY <1>0, Extended
<1>2. PICK h \in 1 .. Len(chain) : chain[h] = tx
  BY <1>0 DEF Buried, InChain
<1>3. SubSeq(chain, 1, Len(chain))[h] = tx /\ h \in DOMAIN SubSeq(chain, 1, Len(chain))
  <2> DEFINE base == SubSeq(chain, 1, Len(chain))
  <2>1. base \in Seq(Blocks) /\ Len(base) = Len(chain) /\ \A i \in 1 .. Len(chain) : base[i] = chain[i]
    BY <1>0, BaseFacts
  <2> HIDE DEF base
  <2>2. base[h] = tx /\ h \in DOMAIN base
    BY <1>2, <2>1, LenProperties
  <2> QED BY <2>2 DEF base
<1>4. tx' = tx
  BY <1>3 DEF Extend
<1>5. InChain(tx)'
  <2>1. DOMAIN chain' = 1 .. Len(chain) + n
    BY <1>1, LenProperties
  <2>2. h \in 1 .. Len(chain) + n /\ chain'[h] = tx'
    BY <1>0, <1>1, <1>2, <1>4
  <2> QED BY <2>1, <2>2 DEF InChain
<1>6. tx \in 1 .. mined
  BY <1>0, <1>2, Numbers DEF Rooted, Blocks
<1>7. heightOf'[tx] = heightOf[tx]
  BY <1>0, <1>6, ExtendKeeps
<1>8. heightOf[tx] \in Nat
  BY <1>0, <1>2 DEF Rooted
<1>9. Len(chain') - heightOf'[tx'] >= Required
  BY <1>0, <1>1, <1>4, <1>7, <1>8 DEF Buried, Depth
<1> QED BY <1>4, <1>5, <1>9 DEF Buried, Depth

(* The chain grows or changes under a poll: what the poll read stays what  *)
(* it was, and a block that had gone stays away.                           *)
LEMMA ChainMoves ==
    ASSUME XmrInv, NEW keep \in 1 .. Len(chain), NEW n \in Nat, Extend(keep, n),
           UNCHANGED <<last, answer>>, budget' \in Budget,
           poll' \in {Idle} \cup PollState, poll' = Idle \/ poll # Idle,
           poll' # Idle => /\ poll'.pc = poll.pc /\ poll'.height = poll.height
                           /\ poll'.hash = poll.hash /\ poll'.gone = poll.gone
                           /\ poll'.reorged \/ (poll'.reorged = poll.reorged /\ keep = Len(chain))
    PROVE  XmrInv'
<1> USE DEF XmrInv
<1>1. /\ ChainInv' /\ mined' \in Nat /\ mined <= mined' /\ Len(chain') = keep + n
      /\ \A b \in 1 .. mined : heightOf'[b] = heightOf[b] /\ (InChain(b)' => InChain(b))
  BY ExtendKeeps, SMTT(30)
<1>2. /\ MaxBlocks \in Nat /\ Len(chain) \in Nat /\ mined \in Nat
  BY Numbers DEF ChainInv
<1>3. 1 .. mined \subseteq 1 .. mined'
  BY <1>1, <1>2
<1>4. /\ last' \in Remembered /\ answer' \in {"none", "healthy", "fork"}
      /\ last' = NeverRan \/ (last'.height >= 1 /\ last'.hash \in 1 .. mined')
  BY <1>3 DEF PollInv, PollTyped, Known
<1>5. CASE poll' = Idle
  BY <1>1, <1>4, <1>5, IdleKeeps
<1>6. CASE poll' # Idle
  <2>1. poll \in PollState /\ poll' \in PollState
    BY <1>6, PollFacts DEF PollInv
  <2>2. PollTyped'
    BY <1>4, <2>1 DEF PollTyped
  <2>3. Known'
    BY <1>3, <1>4, <1>6 DEF PollInv, Known
  <2>4. StaysGone'
    <3> SUFFICES ASSUME poll'.pc \in {"height", "hash", "known"}, poll'.gone
                 PROVE  last' # NeverRan /\ Gone(last.hash, last.height)'
      BY DEF StaysGone
    <3>1. last # NeverRan /\ Gone(last.hash, last.height)
      BY <1>6 DEF PollInv, StaysGone
    <3>2. last.hash \in 1 .. mined
      BY <3>1 DEF PollInv, Known
    <3>3. heightOf'[last.hash] = heightOf[last.hash] /\ (InChain(last.hash)' => InChain(last.hash))
      <4>1. last'.hash = last.hash
        OBVIOUS
      <4> DEFINE b == last.hash
      <4>2. heightOf'[b] = heightOf[b]
        BY <1>1, <3>2
      <4>3. (\E h \in DOMAIN chain' : chain'[h] = b) => InChain(b)
        BY <1>1, <3>2 DEF InChain
      <4> QED BY <4>1, <4>2, <4>3 DEF InChain
    <3> QED BY <3>1, <3>3 DEF Gone
  <2>5. Reached'
    <3>1. ASSUME poll'.pc = "transfers", ~ poll'.reorged
          PROVE  poll'.height <= Len(chain')
      <4>1. poll.height <= Len(chain) /\ keep = Len(chain) /\ poll'.height = poll.height
        BY <1>6, <3>1 DEF PollInv, Reached
      <4>2. poll.height \in Nat
        BY <1>2, <2>1 DEF PollState
      <4> QED BY <1>1, <1>2, <4>1, <4>2
    <3>2. ASSUME poll'.pc = "credit", ~ poll'.reorged
          PROVE  Buried'
      <4>1. keep = Len(chain) /\ Buried
        BY <1>6, <3>2 DEF PollInv, Reached
      <4>2. Extend(Len(chain), n)
        BY <4>1
      <4> QED BY <4>1, <4>2, BuriedDeeper
    <3> QED BY <3>1, <3>2 DEF Reached
  <2> QED BY <1>1, <2>2, <2>3, <2>4, <2>5 DEF PollInv
<1> QED BY <1>5, <1>6

(* A block on top of the chain, under any poll.                            *)
LEMMA MineKeeps ==
    ASSUME XmrInv, Mine
    PROVE  XmrInv'
<1>1. Extend(Len(chain), 1) /\ UNCHANGED <<last, poll, answer, budget>>
  BY DEF Mine
<1>2. Len(chain) \in 1 .. Len(chain)
  BY Numbers DEF XmrInv, ChainInv, ChainTyped
<1>3. poll \in {Idle} \cup PollState /\ budget \in Budget
  BY DEF XmrInv, PollInv, PollTyped
<1> QED BY <1>1, <1>2, <1>3, ChainMoves

(* A reorganisation, which a poll in progress is marked with.              *)
LEMMA ReorgKeeps ==
    ASSUME XmrInv, NEW keep \in 1 .. MaxBlocks, NEW n \in 0 .. MaxBlocks, Reorg(keep, n)
    PROVE  XmrInv'
<1>1. /\ Extend(keep, n) /\ UNCHANGED <<last, answer>>
      /\ poll' = IF poll = Idle THEN Idle ELSE [poll EXCEPT !.reorged = TRUE]
      /\ budget' = [budget EXCEPT !.reorgs = @ + 1]
  BY DEF Reorg
<1>2. keep \in 1 .. Len(chain) /\ n \in Nat
  BY Numbers DEF Reorg, XmrInv, ChainInv
<1>3. budget' \in Budget
  BY <1>1 DEF XmrInv, PollInv, PollTyped, Budget
<1>4. CASE poll = Idle
  <2>1. poll' = Idle
    BY <1>1, <1>4
  <2> QED BY <1>1, <1>2, <1>3, <2>1, ChainMoves
<1>5. CASE poll # Idle
  <2>1. poll \in PollState
    BY <1>5, PollFacts DEF XmrInv, PollInv
  <2>2. poll' = [poll EXCEPT !.reorged = TRUE]
    BY <1>1, <1>5
  <2>3. /\ poll' \in PollState
        /\ poll'.pc = poll.pc /\ poll'.height = poll.height
        /\ poll'.hash = poll.hash /\ poll'.gone = poll.gone /\ poll'.reorged
    BY <2>1, <2>2 DEF PollState
  <2> QED BY <1>1, <1>2, <1>3, <1>5, <2>3, ChainMoves
<1> QED BY <1>4, <1>5

(* The payment enters the pool.                                            *)
LEMMA PayKeeps ==
    ASSUME XmrInv, Pay
    PROVE  XmrInv'
<1> USE DEF XmrInv
<1>1. tx' = Pool /\ UNCHANGED <<chain, mined, heightOf, last, poll, answer, budget>>
  BY DEF Pay
<1>2. Pool \in 0 .. MaxBlocks + 1 /\ Pool \notin Blocks
  BY XmrAssumption DEF Pool, Blocks
<1>3. ChainTyped' /\ Rooted' /\ Placed'
  BY <1>1, <1>2 DEF ChainInv, ChainTyped, Rooted, Placed
<1>4. PollTyped' /\ Known' /\ Reached'
  <2>1. ~ Buried
    BY DEF Pay, Buried
  <2> QED BY <1>1, <2>1 DEF PollInv, PollTyped, Known, Reached
<1>5. StaysGone'
  BY <1>1 DEF PollInv, StaysGone, Gone, InChain
<1> QED BY <1>3, <1>4, <1>5 DEF ChainInv, PollInv

(* One block, no payment, nothing remembered.                              *)
LEMMA XmrInitInv == XmrInit => XmrInv
<1> SUFFICES ASSUME XmrInit PROVE XmrInv
  OBVIOUS
<1> USE DEF XmrInit
<1>0. 1 \in Blocks /\ MaxBlocks \in Nat \ {0} /\ 1 \in 0 .. MaxBlocks /\ 0 \in 0 .. MaxBlocks
  BY XmrAssumption DEF Blocks
<1>1. chain \in Seq(Blocks) /\ Len(chain) = 1 /\ chain[1] = 1
  BY <1>0
<1>2. heightOf \in [Blocks -> 0 .. MaxBlocks] /\ heightOf[1] = 1
  BY <1>0 DEF Blocks
<1>3. tx \in 0 .. MaxBlocks + 1 /\ tx \notin Blocks
  BY <1>0 DEF None, Blocks
<1>4. ChainTyped
  BY <1>0, <1>1, <1>2, <1>3 DEF ChainTyped
<1>5. Rooted /\ Placed
  BY <1>1, <1>2, <1>3 DEF Rooted, Placed
<1>6. PollTyped
  BY <1>0 DEF PollTyped, Remembered, NeverRan, NoBlock, Budget
<1>7. Known /\ StaysGone /\ Reached
  BY DEF Known, StaysGone, Reached, Idle
<1> QED BY <1>4, <1>5, <1>6, <1>7 DEF XmrInv, ChainInv, PollInv

(* The inductive invariant of the wallet client and the chain under it:    *)
(* every call, answered or failed, every block, every reorganisation and   *)
(* every restart keep it.                                                  *)
THEOREM XmrInvariant == XmrSpec => []XmrInv
<1>1. XmrInv /\ [XmrNext]_vars => XmrInv'
  <2> SUFFICES ASSUME XmrInv, [XmrNext]_vars PROVE XmrInv'
    OBVIOUS
  <2>1. CASE UNCHANGED vars
    <3>1. UNCHANGED chainVars /\ UNCHANGED <<last, poll, answer, budget>>
      BY <2>1 DEF vars
    <3>2. PollInv'
      BY <3>1 DEF XmrInv, PollInv, PollTyped, Known, StaysGone, Gone, InChain, Reached, Buried, Depth,
                     chainVars
    <3> QED BY <3>1, <3>2, ChainFrame DEF XmrInv
  <2>2. CASE PollStep
    BY <2>2, StartAndStopKeep, GetHeightKeeps, GetBlockHashKeeps, KnownHashKeeps,
       ConfirmHeightKeeps, IncomingKeeps, FundedKeeps DEF PollStep
  <2>3. CASE XmrNext
    BY <2>2, <2>3, StartAndStopKeep, MineKeeps, PayKeeps, ReorgKeeps DEF XmrNext
  <2> QED BY <2>1, <2>3
<1> QED BY <1>1, XmrInitInv, PTL DEF XmrSpec

(* Types, and every block of the chain at the height it was mined at.      *)
THEOREM XmrTypeCorrect == XmrSpec => []XmrTypeOK
<1>1. XmrInv => XmrTypeOK
  <2> SUFFICES ASSUME XmrInv PROVE XmrTypeOK
    OBVIOUS
  <2> USE DEF XmrInv
  <2>1. DOMAIN chain = 1 .. Len(chain)
    BY Numbers DEF ChainInv
  <2>2. poll.pc \in {"idle", "height", "hash", "known", "confirm", "transfers",
                    "credit"}
    BY DEF PollInv, PollTyped, Idle, PollState
  <2>3. \A h \in DOMAIN chain : heightOf[chain[h]] = h
    BY <2>1 DEF ChainInv, Rooted
  <2>4. last \in [height : 0 .. MaxBlocks, hash : 0 .. MaxBlocks] /\ answer \in {"none", "healthy", "fork"}
    BY DEF PollInv, PollTyped, Remembered
  <2> QED BY <2>2, <2>3, <2>4 DEF XmrTypeOK, ChainInv, ChainTyped, Blocks
<1> QED BY <1>1, XmrInvariant, PTL

(* An order is credited only when its payment lies REQUIRED_CONFIRMATIONS  *)
(* deep in the chain, unless the chain was reorganised between the reading *)
(* of the height and the UPDATE that credits.                              *)
THEOREM XmrCreditedIsBuried == XmrSpec => CreditedIsBuried
<1>1. XmrInv /\ [XmrNext]_vars => [~ credited /\ credited' => Buried \/ poll.reorged]_vars
  <2> SUFFICES ASSUME XmrInv, XmrNext, ~ credited, credited', ~ poll.reorged PROVE Buried
    OBVIOUS
  <2>1. mark_order_funded
    BY DEF XmrNext, PollStep, StartPoll, get_height, get_block_hash, get_known_hash,
           known_hash_unavailable, confirm_height, get_incoming_transfers, CallFails,
           WorkerRestart, Mine, Pay, Reorg
  <2>2. poll.pc = "credit"
    BY <2>1 DEF mark_order_funded
  <2> QED BY <2>2 DEF XmrInv, PollInv, Reached
<1> QED BY <1>1, XmrInvariant, PTL DEF XmrSpec, CreditedIsBuried

(* check_for_fork misses the loss of the block it remembers only when the  *)
(* chain stands at the height remembered, or when that block's hash could  *)
(* not be had.                                                             *)
THEOREM XmrForkMissed == XmrSpec => ForkMissedOnlyAtSameHeight
<1> DEFINE Excused == \/ poll.height = last.height
                      \/ poll.pc = "known" /\ (last.height > Len(chain) \/ budget' # budget)
           Missed == poll.pc \in {"hash", "known"} /\ poll'.pc \in {"height", "confirm"} /\ poll.gone
<1>1. XmrInv /\ [XmrNext]_vars => [Missed => Excused]_vars
  <2> SUFFICES ASSUME XmrInv, XmrNext, Missed PROVE Excused
    OBVIOUS
  <2> USE DEF XmrInv
  <2>1. last # NeverRan /\ ~ InChain(last.hash) /\ last.height >= 1
    BY DEF PollInv, StaysGone, Gone, Known
  <2>2. poll \in PollState /\ budget \in Budget /\ last \in Remembered
    BY PollFacts DEF PollInv, PollTyped
  <2>3. Idle.pc = "idle"
    BY DEF Idle
  <2>4. CASE get_block_hash
    <3>1. poll' # Idle
      BY <2>3
    <3>2. Compare(poll.height) /\ poll.pc = "hash"
      BY <2>4, <3>1 DEF get_block_hash
    <3>3. ~ Fork(Seen(poll.height))
      BY <3>1 DEF Fork
    <3>4. poll' # [poll EXCEPT !.pc = "known", !.hash = chain[poll.height]]
      BY <2>2 DEF PollState
    <3>5. poll.height = last.height
      BY <2>1, <3>2, <3>3, <3>4 DEF Compare
    <3> QED BY <3>5
  <2>5. CASE get_known_hash
    <3>1. ~ Fork([last EXCEPT !.hash = poll.hash])
      BY <2>3 DEF Fork
    <3>2. chain[last.height] = last.hash /\ last.height <= Len(chain)
      BY <2>5, <3>1 DEF get_known_hash
    <3>3. last.height \in DOMAIN chain
      BY <2>1, <2>2, <3>2, Numbers DEF Remembered, ChainInv
    <3> QED BY <2>1, <3>2, <3>3 DEF InChain
  <2>6. CASE known_hash_unavailable
    <3>1. poll.pc = "known"
      BY <2>6 DEF known_hash_unavailable
    <3>2. CASE last.height > Len(chain)
      BY <3>1, <3>2
    <3>3. CASE budget' = [budget EXCEPT !.errors = @ + 1]
      <4>1. budget'.errors = budget.errors + 1 /\ budget.errors \in Nat
        BY <2>2, <3>3 DEF Budget
      <4>2. budget' # budget
        BY <4>1
      <4> QED BY <3>1, <4>2
    <3> QED BY <2>6, <3>2, <3>3 DEF known_hash_unavailable
  <2>7. CASE \/ get_height \/ StartPoll \/ confirm_height \/ get_incoming_transfers
             \/ mark_order_funded \/ CallFails
             \/ WorkerRestart \/ Mine \/ Pay \/ \E keep \in 1 .. MaxBlocks, n \in 0 .. MaxBlocks : Reorg(keep, n)
    <3>1. poll # Idle
      BY <2>3
    <3>2. ~ StartPoll
      BY <3>1 DEF StartPoll
    <3>3. ~ get_height /\ ~ confirm_height /\ ~ get_incoming_transfers /\ ~ mark_order_funded
      BY DEF get_height, confirm_height, get_incoming_transfers, mark_order_funded
    <3>4. ~ CallFails /\ ~ WorkerRestart
      BY <2>3 DEF CallFails, WorkerRestart
    <3>5. ~ Mine /\ ~ Pay
      BY DEF Mine, Pay
    <3>6. ASSUME NEW keep, NEW n, Reorg(keep, n) PROVE FALSE
      <4>1. poll' = [poll EXCEPT !.reorged = TRUE]
        BY <3>1, <3>6 DEF Reorg
      <4>2. poll'.pc = poll.pc
        BY <2>2, <4>1 DEF PollState
      <4> QED BY <4>2
    <3> QED BY <2>7, <3>2, <3>3, <3>4, <3>5, <3>6
  <2> QED BY <2>4, <2>5, <2>6, <2>7 DEF XmrNext, PollStep
<1> QED BY <1>1, XmrInvariant, PTL DEF XmrSpec, ForkMissedOnlyAtSameHeight
=============================================================================
