---------------------------- MODULE CoinMigrator ----------------------------
(* Utils/CoinMigrator: on every request that reaches the memory, the hook  *)
(* looks at the page, asks a predictor whether a slow page is worth moving *)
(* and exchanges it with the next victim among the fast frames.  The pages *)
(* in use are kept in an LRU cache (STC) whose entries train the predictor.*)
EXTENDS Migrator, Integers, Sequences, SequencesExt

CONSTANTS
  VictimOrder,      \* the fast frames, as the VictimPageList lists them
  Set, SetOf,       \* the sets of the STC, and that of a page
  Ways,             \* entries in a set
  Index, HashOf,    \* the entries of pred_table, and that of a page
  InitialWeight,    \* what memory that nobody initialised may hold
  WeightLimit,      \* 32
  Theta, Cost,      \* THETA, COST
  WriteBenefit,     \* 8; a read is worth 1
  Tbypass           \* the sum from which on a page stays where it is

ASSUME CoinAssumption ==
  /\ VictimOrder \in Seq(FastPage)
  /\ \A i, j \in DOMAIN VictimOrder : VictimOrder[i] = VictimOrder[j] => i = j
  /\ SetOf \in [Page -> Set] /\ HashOf \in [Page -> Index]
  /\ Ways \in Nat \ {0}
  /\ {WeightLimit, Theta, Cost, WriteBenefit} \subseteq Nat
  /\ Tbypass \in Int /\ InitialWeight \subseteq Int

VARIABLES
  victim_page_list,   \* the fast frames in the order in which they are used
  stc_cache,          \* set -> its entries, the one used last in front
  pred_table          \* index -> weight
vars == <<tables, victim_page_list, stc_cache, pred_table>>

Entry == [address : Page, yout : -Theta .. Theta, benefit : 0 .. Cost + 1]

TypeOK ==
  /\ TablesTypeOK
  /\ victim_page_list \in Seq(FastPage)
  /\ stc_cache \in [Set -> Seq(Entry)]
  /\ pred_table \in [Index -> Int]

Init ==
  /\ TablesInit
  /\ victim_page_list = VictimOrder
  /\ stc_cache = [s \in Set |-> <<>>]
  /\ pred_table \in [Index -> InitialWeight]
-----------------------------------------------------------------------------
(* VictimPageList.                                                         *)

\* Mutant: the frame goes back to where it was.
UsePageInPlace(keep) ==
  victim_page_list' = (IF keep THEN <<Head(victim_page_list)>> ELSE <<>>) \o Tail(victim_page_list)

\* UsePage takes the first frame and puts it behind the others; a frame that no
\* access had touched is then removed.
UsePage(keep) ==
  victim_page_list' = Tail(victim_page_list) \o (IF keep THEN <<Head(victim_page_list)>> ELSE <<>>)
-----------------------------------------------------------------------------
(* STC and Lru.                                                            *)

Entries(p) == stc_cache[SetOf[p]]
IsInSTC(p) == \E i \in DOMAIN Entries(p) : Entries(p)[i].address = p
Position(p) == CHOOSE i \in DOMAIN Entries(p) : Entries(p)[i].address = p
GetReferBy(p) == Entries(p)[Position(p)]
Full(p) == Len(Entries(p)) = Ways

\* The entries besides that of p: without it, or without the last of a full set.
Others(p) ==
  IF IsInSTC(p) THEN RemoveAt(Entries(p), Position(p))
  ELSE IF Full(p) THEN Front(Entries(p)) ELSE Entries(p)

\* Mutant: a hit leaves the entry where it is.
InsertNodeInPlace(e) ==
  stc_cache' = [stc_cache EXCEPT ![SetOf[e.address]] =
    IF IsInSTC(e.address) THEN [@ EXCEPT ![Position(e.address)] = e]
    ELSE <<e>> \o Others(e.address)]

\* InsertNode: to the front.
InsertNode(e) ==
  stc_cache' = [stc_cache EXCEPT ![SetOf[e.address]] = <<e>> \o Others(e.address)]
-----------------------------------------------------------------------------
(* Train_in_STC.                                                           *)

\* Mutant: yout is not clamped.
WithinUnclamped(x) == x

\* yout and benefit are kept only as far as they are compared.
Within(x) == IF x > Theta THEN Theta ELSE IF x < -Theta THEN -Theta ELSE x
Credit(benefit, write) ==
  LET sum == benefit + (IF write THEN WriteBenefit ELSE 1)
  IN  IF sum > Cost THEN Cost + 1 ELSE sum

Lower(w) == IF w > -WeightLimit THEN w - 1 ELSE -WeightLimit

Raise(w) == IF w < WeightLimit THEN w + 1 ELSE WeightLimit

TrainHit(p, write) ==
  LET entry == GetReferBy(p)
      benefit == Credit(entry.benefit, write)
      trained == IF entry.yout > -Theta /\ benefit > Cost
                 THEN [pred_table EXCEPT ![HashOf[p]] = Lower(@)] ELSE pred_table
  IN  /\ pred_table' = trained
      /\ InsertNode([address |-> p, yout |-> Within(trained[HashOf[p]]), benefit |-> benefit])

TrainMiss(p) ==
  LET evicted == Entries(p)[Len(Entries(p))]
      trained == IF Full(p) /\ (evicted.yout < Theta \/ evicted.benefit <= Cost)
                 THEN [pred_table EXCEPT ![HashOf[evicted.address]] = Raise(@)]
                 ELSE pred_table
  IN  /\ pred_table' = trained
      /\ InsertNode([address |-> p, yout |-> Within(trained[HashOf[p]]), benefit |-> 0])

Train_in_STC(p, write) == IF IsInSTC(p) THEN TrainHit(p, write) ELSE TrainMiss(p)
-----------------------------------------------------------------------------
(* TryMigration.                                                           *)

ChooseVictim == Head(victim_page_list)

NeedsMigration(p) == ~ IsInDRAM(p) /\ ~ pred_table[HashOf[p]] >= Tbypass

\* Was the frame's occupant known before this access?
KnownFrame(f) == inverted_table[f] # None

Stay(p, write) ==
  /\ ~ NeedsMigration(p)
  /\ Touch(p)
  /\ Train_in_STC(p, write)
  /\ UNCHANGED victim_page_list

\* ChooseVictim asserts that the list is not empty.
Migrate(p, write) ==
  /\ NeedsMigration(p)
  /\ victim_page_list # <<>>
  /\ Swap(p, ChooseVictim)
  /\ UsePage(KnownFrame(ChooseVictim))
  /\ Train_in_STC(p, write)

\* The hook is no child of anything: no checkpoint has its state.
Restart ==
  /\ RestoreCheckpoint
  /\ victim_page_list' = VictimOrder
  /\ stc_cache' = [s \in Set |-> <<>>]
  /\ pred_table' \in [Index -> InitialWeight]

Next ==
  \/ \E p \in Page, write \in BOOLEAN : Stay(p, write) \/ Migrate(p, write)
  \/ Restart
Spec == Init /\ [][Next]_vars
=============================================================================
