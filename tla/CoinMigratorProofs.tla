------------------------- MODULE CoinMigratorProofs -------------------------
(* The tables of the migrator stay a permutation and its inverse, however  *)
(* many pages there are and whatever the predictor decides.                *)
EXTENDS HookedMigrator, SequenceTheorems, FunctionTheorems, FiniteSetTheorems,
        WellFoundedInduction, TLAPS

\* The tables are right and the list names frames: what an exchange relies on.
TablesOK ==
  /\ TablesTypeOK
  /\ PagesHaveTheirOwnFrames
  /\ InvertedTableFindsTheOccupant
ListOK == victim_page_list \in Seq(FastPage)
IInv == TablesOK /\ TypeOK

USE PageAssumption

\* A pair of tables, as FirstTouch and Identity pass them on.
Good(t) ==
  /\ t[1] \in [Page -> Page \cup {None}]
  /\ t[2] \in [FastPage -> Page \cup {None}]
  /\ \A p, q \in Page :
       (IF t[1][p] # None THEN t[1][p] ELSE p) = (IF t[1][q] # None THEN t[1][q] ELSE q) => p = q
  /\ \A f \in FastPage : t[1][f] # None => t[2][f] # None
  /\ \A f \in FastPage : t[2][f] # None => t[1][t[2][f]] = f
  /\ \A p \in Page : t[1][p] \in FastPage => t[2][t[1][p]] = p

LEMMA TablesAreGood == TablesOK <=> Good(tables)
BY DEF TablesOK, TablesTypeOK, PagesHaveTheirOwnFrames, InvertedTableFindsTheOccupant,
       Good, tables, Translate, IsMapped

\* Giving an unmapped page its own frame changes where nothing is.  The frame is
\* free of others: its page, unmapped, lives in it.
LEMMA IdentityIsGood ==
  ASSUME NEW r, NEW v, NEW p \in Page, Good(<<r, v>>), r[p] = None
  PROVE  Good(Identity(r, v, p)) /\ Identity(r, v, p)[1][p] = p
BY DEF Good, Identity, Add2Table

LEMMA FirstTouchIsGood ==
  ASSUME NEW p \in Page, TablesOK
  PROVE  /\ Good(FirstTouch(p))
         /\ FirstTouch(p)[1][p] = Translate(p)
<1>1. Good(tables)
  BY TablesAreGood
<1>2. CASE IsMapped(p)
  BY <1>1, <1>2 DEF FirstTouch, Translate, tables
<1>3. CASE ~ IsMapped(p)
  BY <1>1, <1>3, IdentityIsGood DEF FirstTouch, Translate, IsMapped, tables
<1>4. QED
  BY <1>2, <1>3

\* Exchanging a page of slow memory with the page in a fast frame.
LEMMA ExchangeIsGood ==
  ASSUME NEW r, NEW v, Good(<<r, v>>),
         NEW p \in Page, r[p] \in Page \ FastPage,
         NEW f \in FastPage, v[f] # None
  PROVE  Good(<<[r EXCEPT ![p] = r[v[f]], ![v[f]] = r[p]], [v EXCEPT ![f] = p]>>)
<1>1. v[f] \in Page /\ r[v[f]] = f /\ v[f] # p
  BY DEF Good
<1> QED
  BY <1>1 DEF Good

-----------------------------------------------------------------------------
\* A page with an entry keeps one, and that of the access gets one.
MappedStay(p) == IsMapped(p)' /\ \A q \in Page : IsMapped(q) => IsMapped(q)'

LEMMA TouchKeepsTables ==
  ASSUME NEW p \in Page, TablesOK, Touch(p)
  PROVE  TablesOK' /\ MappedStay(p)
<1>1. Good(FirstTouch(p))
  BY FirstTouchIsGood
<1>2. FirstTouch(p) = <<FirstTouch(p)[1], FirstTouch(p)[2]>>
  BY DEF FirstTouch, Identity, tables
<1>3. tables' = FirstTouch(p)
  BY <1>2 DEF Touch, tables
<1>4. Good(tables')
  BY <1>1, <1>3
<1>5. MappedStay(p)
  BY <1>3 DEF FirstTouch, Identity, Add2Table, MappedStay, IsMapped, tables, TablesOK, TablesTypeOK
<1> QED
  BY <1>4, <1>5 DEF TablesOK, TablesTypeOK, PagesHaveTheirOwnFrames, InvertedTableFindsTheOccupant,
              Good, tables, Translate, IsMapped

\* The page is in slow memory; the frame, if nothing was known of it, holds its
\* own page.
LEMMA SwapKeepsTables ==
  ASSUME NEW p \in Page, NEW frame \in FastPage, TablesOK, ~ IsInDRAM(p), Swap(p, frame)
  PROVE  TablesOK' /\ MappedStay(p)
<1> DEFINE touched == FirstTouch(p)
           known == IF touched[2][frame] = None
                    THEN Identity(touched[1], touched[2], frame) ELSE touched
           remap == known[1]
           owner == known[2][frame]
<1>1. Good(touched) /\ touched[1][p] = Translate(p)
  BY FirstTouchIsGood
<1>2. touched = <<touched[1], touched[2]>>
  BY DEF FirstTouch, Identity, tables
<1>3. touched[1][p] \in Page \ FastPage
  BY <1>1 DEF IsInDRAM, TablesOK, TablesTypeOK, Translate, IsMapped
<1>4. /\ Good(known)
      /\ known = <<remap, known[2]>>
      /\ remap[p] \in Page \ FastPage
      /\ owner # None
  <2>1. CASE touched[2][frame] = None
    <3>1. touched[1][frame] = None
      BY <1>1, <2>1 DEF Good
    <3>2. Good(Identity(touched[1], touched[2], frame))
      BY <1>1, <1>2, <3>1, IdentityIsGood
    <3>3. frame # p
      BY <1>3, <3>1
    <3> QED
      BY <1>1, <1>3, <2>1, <3>2, <3>3 DEF Identity, Add2Table, Good
  <2>2. CASE touched[2][frame] # None
    BY <1>1, <1>2, <1>3, <2>2
  <2> QED
    BY <2>1, <2>2
<1>5. tables' = <<[remap EXCEPT ![p] = remap[owner], ![owner] = remap[p]],
                  [known[2] EXCEPT ![frame] = p]>>
  BY DEF Swap, Add2Table, tables
<1>6. \A q \in Page : IsMapped(q) => remap[q] # None
  BY <1>1 DEF FirstTouch, Identity, Add2Table, IsMapped, tables, Good, TablesOK, TablesTypeOK
<1> HIDE DEF known
<1>7. Good(tables')
  BY <1>4, <1>5, ExchangeIsGood
<1>8. MappedStay(p)
  <2>1. remap \in [Page -> Page \cup {None}] /\ remap[owner] = frame
    BY <1>4 DEF Good
  <2>2. remap_table' = [remap EXCEPT ![p] = remap[owner], ![owner] = remap[p]]
    BY <1>5 DEF tables
  <2> QED
    BY <1>4, <1>6, <2>1, <2>2 DEF MappedStay, IsMapped
<1> QED
  BY <1>7, <1>8 DEF TablesOK, TablesTypeOK, PagesHaveTheirOwnFrames, InvertedTableFindsTheOccupant,
              Good, tables, Translate, IsMapped
-----------------------------------------------------------------------------
(* The STC.                                                                *)

Sets == [Set -> Seq(Entry)]

LEMMA RemovedAt ==
  ASSUME NEW S, NEW s \in Seq(S), NEW i \in 1 .. Len(s)
  PROVE  /\ RemoveAt(s, i) \in Seq(S)
         /\ Len(RemoveAt(s, i)) = Len(s) - 1
         /\ \A k \in 1 .. Len(s) - 1 :
              RemoveAt(s, i)[k] = IF k < i THEN s[k] ELSE s[k + 1]
<1> DEFINE a == SubSeq(s, 1, i - 1)
           b == SubSeq(s, i + 1, Len(s))
<1>1. \A k \in 1 .. Len(s) : s[k] \in S
  BY ElementOfSeq
<1>2. a \in Seq(S) /\ Len(a) = i - 1 /\ \A k \in 1 .. i - 1 : a[k] = s[k]
  BY <1>1, SubSeqProperties
<1>3. b \in Seq(S) /\ Len(b) = Len(s) - i /\ \A k \in 1 .. Len(s) - i : b[k] = s[i + k]
  BY <1>1, SubSeqProperties
<1> HIDE DEF a, b
<1>4. \A k \in 1 .. Len(a) + Len(b) : (a \o b)[k] = IF k <= Len(a) THEN a[k] ELSE b[k - Len(a)]
  BY <1>2, <1>3, ConcatProperties
<1>5. a \o b \in Seq(S) /\ Len(a \o b) = Len(s) - 1
  <2>1. a \o b \in Seq(S) /\ Len(a \o b) = Len(a) + Len(b)
    BY <1>2, <1>3, ConcatProperties
  <2>2. Len(a) + Len(b) = Len(s) - 1
    BY <1>2, <1>3
  <2> QED
    BY <2>1, <2>2
<1>6. \A k \in 1 .. Len(s) - 1 : k >= i => b[k - (i - 1)] = s[k + 1]
  BY <1>3
<1>7. \A k \in 1 .. Len(s) - 1 : (a \o b)[k] = IF k < i THEN s[k] ELSE s[k + 1]
  <2> TAKE k \in 1 .. Len(s) - 1
  <2>1. (a \o b)[k] = IF k <= i - 1 THEN a[k] ELSE b[k - (i - 1)]
    BY <1>2, <1>3, <1>4
  <2> QED
    BY <1>2, <1>6, <2>1
<1>8. RemoveAt(s, i) = a \o b
  BY DEF RemoveAt, a, b
<1> QED
  BY <1>5, <1>7, <1>8

\* An entry of a set, and the place where GetReferBy finds it.
LEMMA EntriesTyped ==
  ASSUME NEW p \in Page, stc_cache \in Sets
  PROVE  /\ Entries(p) \in Seq(Entry) /\ Len(Entries(p)) \in Nat
         /\ DOMAIN Entries(p) = 1 .. Len(Entries(p))
         /\ \A k \in 1 .. Len(Entries(p)) : Entries(p)[k] \in Entry
         /\ IsInSTC(p) => /\ Position(p) \in 1 .. Len(Entries(p))
                          /\ Entries(p)[Position(p)].address = p
<1>1. Entries(p) \in Seq(Entry)
  BY CoinAssumption DEF Entries, Sets
<1> HIDE DEF Entries
<1>2. Len(Entries(p)) \in Nat /\ DOMAIN Entries(p) = 1 .. Len(Entries(p))
  BY <1>1
<1>3. \A k \in 1 .. Len(Entries(p)) : Entries(p)[k] \in Entry
  BY <1>1, ElementOfSeq
<1>4. IsInSTC(p) => /\ Position(p) \in 1 .. Len(Entries(p))
                    /\ Entries(p)[Position(p)].address = p
  BY <1>2 DEF IsInSTC, Position
<1> QED
  BY <1>1, <1>2, <1>3, <1>4

\* What is behind the new entry: the old entries, without one perhaps.
LEMMA OthersTyped ==
  ASSUME NEW p \in Page, stc_cache \in Sets
  PROVE  /\ Others(p) \in Seq(Entry)
         /\ IsInSTC(p) =>
              /\ Len(Others(p)) = Len(Entries(p)) - 1
              /\ \A k \in 1 .. Len(Entries(p)) - 1 :
                   Others(p)[k] = IF k < Position(p) THEN Entries(p)[k] ELSE Entries(p)[k + 1]
         /\ ~ IsInSTC(p) =>
              /\ Len(Others(p)) = IF Full(p) THEN Len(Entries(p)) - 1 ELSE Len(Entries(p))
              /\ \A k \in 1 .. Len(Others(p)) : Others(p)[k] = Entries(p)[k]
<1>1. CASE IsInSTC(p)
  BY <1>1, EntriesTyped, RemovedAt DEF Others
<1>2. CASE ~ IsInSTC(p) /\ ~ Full(p)
  BY <1>2, EntriesTyped DEF Others
<1>3. CASE ~ IsInSTC(p) /\ Full(p)
  <2>1. Others(p) = SubSeq(Entries(p), 1, Len(Entries(p)) - 1)
    BY <1>3 DEF Others, Front
  <2>2. Len(Entries(p)) \in Nat \ {0}
    BY <1>3, CoinAssumption DEF Full
  <2> DEFINE s == Entries(p)
  <2>3. \A k \in 1 .. Len(s) - 1 : s[k] \in Entry
    BY <2>2, EntriesTyped
  <2>4. /\ SubSeq(s, 1, Len(s) - 1) \in Seq(Entry)
        /\ Len(SubSeq(s, 1, Len(s) - 1)) = Len(s) - 1
        /\ \A k \in 1 .. Len(s) - 1 : SubSeq(s, 1, Len(s) - 1)[k] = s[1 + k - 1]
    <3> DEFINE n == Len(s) - 1
    <3>1. n \in Nat
      BY <2>2
    <3> HIDE DEF s, n
    <3>2. n - 1 + 1 = n /\ (IF 1 <= n THEN n - 1 + 1 ELSE 0) = n
      BY <3>1
    <3>3. \A k \in 1 .. n : s[k] \in Entry
      BY <2>3 DEF n
    <3>4. SubSeq(s, 1, n) \in Seq(Entry) /\ Len(SubSeq(s, 1, n)) = n
          /\ \A k \in 1 .. n : SubSeq(s, 1, n)[k] = s[1 + k - 1]
      BY <3>1, <3>2, <3>3, SubSeqProperties
    <3> QED
      BY <3>4 DEF n
  <2>5. \A k \in 1 .. Len(s) - 1 : Others(p)[k] = s[k]
    BY <2>1, <2>2, <2>4
  <2> QED
    BY <1>3, <2>1, <2>4, <2>5
<1> QED
  BY <1>1, <1>2, <1>3

\* InsertNode puts an entry in front of the others, in its own set.
LEMMA Inserted ==
  ASSUME NEW e \in Entry, stc_cache \in Sets, InsertNode(e)
  PROVE  LET p == e.address
             new == stc_cache'[SetOf[p]]
         IN  /\ stc_cache' \in Sets
             /\ \A s \in Set : s # SetOf[p] => stc_cache'[s] = stc_cache[s]
             /\ new \in Seq(Entry) /\ Len(new) = Len(Others(p)) + 1
             /\ new[1] = e
             /\ \A k \in 1 .. Len(Others(p)) : new[k + 1] = Others(p)[k]
<1> DEFINE p == e.address
           others == Others(p)
           new == <<e>> \o others
<1>1. p \in Page /\ SetOf[p] \in Set
  BY CoinAssumption DEF Entry
<1>2. others \in Seq(Entry) /\ Len(others) \in Nat
  BY <1>1, OthersTyped
<1> HIDE DEF others
<1>3. <<e>> \in Seq(Entry) /\ Len(<<e>>) = 1 /\ <<e>>[1] = e
  OBVIOUS
<1>4. /\ new \in Seq(Entry) /\ Len(new) = Len(others) + 1 /\ new[1] = e
      /\ \A k \in 1 .. Len(others) : new[k + 1] = others[k]
  <2>1. \A k \in 1 .. 1 + Len(others) : new[k] = IF k <= 1 THEN <<e>>[k] ELSE others[k - 1]
    BY <1>2, <1>3, ConcatProperties
  <2>2. new \in Seq(Entry) /\ Len(new) = Len(others) + 1
    BY <1>2, <1>3, ConcatProperties
  <2> HIDE DEF new
  <2>3. new[1] = e
    BY <1>2, <1>3, <2>1
  <2>4. \A k \in 1 .. Len(others) : new[k + 1] = others[k]
    <3> TAKE k \in 1 .. Len(others)
    <3>1. k + 1 \in 1 .. 1 + Len(others) /\ ~ k + 1 <= 1 /\ (k + 1) - 1 = k
      BY <1>2
    <3> QED
      BY <2>1, <3>1
  <2> QED
    BY <2>2, <2>3, <2>4
<1> HIDE DEF new
<1>5. stc_cache' = [stc_cache EXCEPT ![SetOf[p]] = new]
  BY DEF InsertNode, new, others
<1>6. stc_cache' \in Sets /\ stc_cache'[SetOf[p]] = new
      /\ \A s \in Set : s # SetOf[p] => stc_cache'[s] = stc_cache[s]
  BY <1>1, <1>4, <1>5 DEF Sets
<1> QED
  BY <1>4, <1>6 DEF others

\* Training writes an entry of the page, and keeps weights integers.
TrainingOK(p) ==
  /\ pred_table' \in [Index -> Int]
  /\ \E e \in Entry : e.address = p /\ InsertNode(e)

LEMMA TrainWrites ==
  ASSUME NEW p \in Page, NEW write \in BOOLEAN, stc_cache \in Sets, pred_table \in [Index -> Int],
         Train_in_STC(p, write)
  PROVE  TrainingOK(p)
<1> USE CoinAssumption
<1>1. \A x \in Int : Within(x) \in -Theta .. Theta
  BY DEF Within
<1>2. \A b \in 0 .. Cost + 1 : Credit(b, write) \in 0 .. Cost + 1
  BY DEF Credit
<1>3. \A w \in Int : Lower(w) \in Int /\ Raise(w) \in Int
  BY DEF Lower, Raise
<1>4. \A q \in Page : HashOf[q] \in Index
  OBVIOUS
<1>5. CASE IsInSTC(p)
  <2> DEFINE entry == GetReferBy(p)
             benefit == Credit(entry.benefit, write)
             trained == IF entry.yout > -Theta /\ benefit > Cost
                        THEN [pred_table EXCEPT ![HashOf[p]] = Lower(@)] ELSE pred_table
  <2>1. entry \in Entry
    BY <1>5, EntriesTyped DEF GetReferBy
  <2>2. benefit \in 0 .. Cost + 1
    BY <1>2, <2>1 DEF Entry
  <2> HIDE DEF entry, benefit
  <2>3. trained \in [Index -> Int]
    BY <1>3, <1>4
  <2>4. pred_table' = trained
        /\ InsertNode([address |-> p, yout |-> Within(trained[HashOf[p]]), benefit |-> benefit])
    BY <1>5 DEF Train_in_STC, TrainHit, entry, benefit
  <2> HIDE DEF trained
  <2>5. [address |-> p, yout |-> Within(trained[HashOf[p]]), benefit |-> benefit] \in Entry
    BY <1>1, <1>4, <2>2, <2>3 DEF Entry
  <2> QED
    BY <2>3, <2>4, <2>5 DEF TrainingOK
<1>6. CASE ~ IsInSTC(p)
  <2> DEFINE evicted == Entries(p)[Len(Entries(p))]
             trained == IF Full(p) /\ (evicted.yout < Theta \/ evicted.benefit <= Cost)
                        THEN [pred_table EXCEPT ![HashOf[evicted.address]] = Raise(@)]
                        ELSE pred_table
  <2>1. Full(p) => evicted.address \in Page
    <3>1. Full(p) => evicted \in Entry
      BY EntriesTyped DEF Full
    <3> HIDE DEF evicted
    <3> QED
      BY <3>1 DEF Entry
  <2> HIDE DEF evicted
  <2>2. trained \in [Index -> Int]
    BY <1>3, <1>4, <2>1
  <2>3. pred_table' = trained
        /\ InsertNode([address |-> p, yout |-> Within(trained[HashOf[p]]), benefit |-> 0])
    BY <1>6 DEF Train_in_STC, TrainMiss, evicted
  <2> HIDE DEF trained
  <2>4. [address |-> p, yout |-> Within(trained[HashOf[p]]), benefit |-> 0] \in Entry
    <3>1. Within(trained[HashOf[p]]) \in -Theta .. Theta
      BY <1>1, <1>4, <2>2
    <3>2. 0 \in 0 .. Cost + 1
      OBVIOUS
    <3> QED
      BY <3>1, <3>2 DEF Entry
  <2> QED
    BY <2>2, <2>3, <2>4 DEF TrainingOK
<1> QED
  BY <1>5, <1>6
-----------------------------------------------------------------------------
LEMMA InitOK == ASSUME Init PROVE IInv
<1>1. TablesOK /\ victim_page_list \in Seq(FastPage) /\ pred_table \in [Index -> Int]
  BY CoinAssumption
     DEF Init, TablesOK, TablesInit, TablesTypeOK, PagesHaveTheirOwnFrames,
         InvertedTableFindsTheOccupant, Translate, IsMapped
<1>2. stc_cache \in [Set -> Seq(Entry)]
  BY EmptySeq DEF Init
<1> QED
  BY <1>1, <1>2 DEF IInv, TypeOK, TablesOK

\* A process that goes on from a checkpoint starts from the beginning.
LEMMA RestartOK == ASSUME Restart PROVE IInv'
<1>1. TablesOK' /\ victim_page_list' \in Seq(FastPage) /\ pred_table' \in [Index -> Int]
  BY CoinAssumption
     DEF Restart, RestoreCheckpoint, CreateCheckpoint, TablesOK, TablesTypeOK,
         PagesHaveTheirOwnFrames, InvertedTableFindsTheOccupant, Translate, IsMapped
<1>2. stc_cache' \in [Set -> Seq(Entry)]
  BY EmptySeq DEF Restart
<1> QED
  BY <1>1, <1>2 DEF IInv, TypeOK, TablesOK

LEMMA UsePageKeepsList ==
  ASSUME ListOK, victim_page_list # <<>>, NEW keep \in BOOLEAN, UsePage(keep)
  PROVE  ListOK'
<1>1. Head(victim_page_list) \in FastPage /\ Tail(victim_page_list) \in Seq(FastPage)
  BY DEF ListOK
<1>2. <<Head(victim_page_list)>> \in Seq(FastPage) /\ <<>> \in Seq(FastPage)
  BY <1>1
<1> QED
  BY <1>1, <1>2 DEF UsePage, ListOK

\* What training leaves is of its type.
LEMMA TrainingKeepsTypes ==
  ASSUME NEW p \in Page, NEW write \in BOOLEAN, TypeOK, Train_in_STC(p, write)
  PROVE  TrainingOK(p) /\ stc_cache' \in Sets
<1>1. stc_cache \in Sets /\ pred_table \in [Index -> Int]
  BY DEF TypeOK, Sets
<1>2. TrainingOK(p)
  BY <1>1, TrainWrites
<1>3. PICK e \in Entry : InsertNode(e)
  BY <1>2 DEF TrainingOK
<1> QED
  BY <1>1, <1>2, <1>3, Inserted

\* An access to a page, whether it makes the page change its place or not.
LEMMA AccessKeepsIInv ==
  ASSUME NEW p \in Page, NEW write \in BOOLEAN, IInv, Stay(p, write) \/ Migrate(p, write)
  PROVE  IInv' /\ MappedStay(p) /\ TrainingOK(p)
<1>1. TrainingOK(p) /\ stc_cache' \in Sets
  BY TrainingKeepsTypes DEF Stay, Migrate, IInv
<1>2. ListOK
  BY DEF IInv, TypeOK, ListOK
<1>3. TablesOK' /\ MappedStay(p) /\ ListOK'
  <2>1. CASE Stay(p, write)
    BY <1>2, <2>1, TouchKeepsTables DEF Stay, IInv, ListOK
  <2>2. CASE Migrate(p, write)
    <3>1. ChooseVictim \in FastPage
      BY <1>2, <2>2 DEF ListOK, Migrate, ChooseVictim
    <3>2. TablesOK' /\ MappedStay(p)
      BY <2>2, <3>1, SwapKeepsTables DEF Migrate, NeedsMigration, IInv
    <3>3. ListOK'
      BY <1>2, <2>2, UsePageKeepsList DEF Migrate, KnownFrame
    <3> QED
      BY <3>2, <3>3
  <2> QED
    BY <2>1, <2>2
<1> QED
  BY <1>1, <1>3 DEF IInv, TypeOK, TablesOK, ListOK, TrainingOK, Sets

LEMMA NextKeepsIInv == IInv /\ [Next]_vars => IInv'
<1> SUFFICES ASSUME IInv, [Next]_vars PROVE IInv'
  OBVIOUS
<1>1. ASSUME NEW p \in Page, NEW write \in BOOLEAN, Stay(p, write) \/ Migrate(p, write) PROVE IInv'
  BY <1>1, AccessKeepsIInv
<1>2. CASE Restart
  BY <1>2, RestartOK
<1>3. CASE UNCHANGED vars
  BY <1>3 DEF vars, tables, IInv, TypeOK, TablesOK, TablesTypeOK, PagesHaveTheirOwnFrames,
              InvertedTableFindsTheOccupant, Translate, IsMapped
<1> QED
  BY <1>1, <1>2, <1>3 DEF Next

LEMMA Invariance == Spec => []IInv
BY InitOK, NextKeepsIInv, PTL DEF Spec

\* However pages are exchanged, no two live in one frame.
THEOREM OwnFrames == Spec => []PagesHaveTheirOwnFrames
BY Invariance, PTL DEF IInv, TablesOK

\* The page that an exchange demotes is the one that lives in the victim frame.
THEOREM OccupantsFound == Spec => []InvertedTableFindsTheOccupant
BY Invariance, PTL DEF IInv, TablesOK

\* The tables hold frames for pages, the victim list frames of fast memory, and
\* what the STC remembers for training stays within its bounds.
THEOREM MigratorType == Spec => []TypeOK
BY Invariance, PTL DEF IInv
-----------------------------------------------------------------------------
(* What has happened, and in which order.                                  *)

SinceOK ==
  /\ accessed \subseteq Page /\ accessedSince \in [Page -> SUBSET Page]
  /\ filled \subseteq FastPage /\ filledSince \in [FastPage -> SUBSET FastPage]
  /\ \A p \in Page : p \notin accessedSince[p]
  /\ \A f \in FastPage : f \notin filledSince[f]
HistoryInv == IInv /\ SinceOK /\ VictimsTakeTurns /\ STCHoldsTheLatestPages

\* Nothing has happened since it happened itself.
LEMMA HappensOK ==
  ASSUME NEW S, NEW since \in [S -> SUBSET S], NEW x \in S, \A y \in S : y \notin since[y]
  PROVE  /\ Happens(since, x) \in [S -> SUBSET S]
         /\ \A y \in S : y \notin Happens(since, x)[y]
         /\ Happens(since, x)[x] = {}
         /\ \A y \in S : y # x => Happens(since, x)[y] = since[y] \cup {x}
BY DEF Happens

\* The list after its first frame was used: the others have moved up.
LEMMA Used ==
  ASSUME ListOK, victim_page_list # <<>>, NEW keep \in BOOLEAN, UsePage(keep)
  PROVE  LET old == victim_page_list
             new == victim_page_list'
         IN  /\ Len(old) \in Nat \ {0}
             /\ DOMAIN old = 1 .. Len(old) /\ DOMAIN new = 1 .. Len(new)
             /\ \A i \in 1 .. Len(old) : old[i] \in FastPage
             /\ ChooseVictim = old[1]
             /\ Len(new) = IF keep THEN Len(old) ELSE Len(old) - 1
             /\ \A i \in 1 .. Len(old) - 1 : new[i] = old[i + 1]
             /\ keep => new[Len(old)] = old[1]
<1> DEFINE old == victim_page_list
           n == Len(old)
           tail == Tail(old)
           last == IF keep THEN <<Head(old)>> ELSE <<>>
<1>1. old \in Seq(FastPage) /\ old # <<>>
  BY DEF ListOK
<1>2. n \in Nat \ {0} /\ DOMAIN old = 1 .. n /\ Head(old) = old[1]
      /\ \A i \in 1 .. n : old[i] \in FastPage
  BY <1>1, ElementOfSeq
<1>3. tail \in Seq(FastPage) /\ Len(tail) = n - 1 /\ \A i \in 1 .. n - 1 : tail[i] = old[i + 1]
  BY <1>1, HeadTailProperties
<1>4. last \in Seq(FastPage) /\ Len(last) = (IF keep THEN 1 ELSE 0) /\ (keep => last[1] = old[1])
  BY <1>2
<1>5. victim_page_list' = tail \o last
  BY DEF UsePage
<1> HIDE DEF tail, last, n
<1>6. /\ tail \o last \in Seq(FastPage) /\ Len(tail \o last) = Len(tail) + Len(last)
      /\ \A i \in 1 .. Len(tail) + Len(last) :
           (tail \o last)[i] = IF i <= Len(tail) THEN tail[i] ELSE last[i - Len(tail)]
  BY <1>3, <1>4, ConcatProperties
<1>7. DOMAIN victim_page_list' = 1 .. Len(victim_page_list')
  BY <1>5, <1>6
<1>8. Len(tail \o last) = IF keep THEN n ELSE n - 1
  BY <1>2, <1>3, <1>4, <1>6
<1>9. \A i \in 1 .. n - 1 : (tail \o last)[i] = old[i + 1]
  BY <1>2, <1>3, <1>4, <1>6
<1>10. keep => (tail \o last)[n] = old[1]
  <2> SUFFICES ASSUME keep PROVE (tail \o last)[n] = old[1]
    OBVIOUS
  <2>1. n \in 1 .. Len(tail) + Len(last) /\ ~ n <= Len(tail) /\ n - Len(tail) = 1
    BY <1>2, <1>3, <1>4
  <2>2. (tail \o last)[n] = last[1]
    BY <1>6, <2>1
  <2> QED
    BY <1>4, <2>2
<1> QED
  BY <1>2, <1>5, <1>7, <1>8, <1>9, <1>10 DEF ChooseVictim, n

\* A frame that is filled again has to wait for all others on the list.
LEMMA TurnsAreKept ==
  ASSUME ListOK, SinceOK, VictimsTakeTurns, victim_page_list # <<>>,
         NEW keep \in BOOLEAN, UsePage(keep),
         filled' = filled \cup {ChooseVictim}, filledSince' = Happens(filledSince, ChooseVictim)
  PROVE  VictimsTakeTurns'
<1> DEFINE old == victim_page_list
           new == victim_page_list'
           n == Len(old)
           h == ChooseVictim
<1>1. /\ n \in Nat \ {0} /\ DOMAIN old = 1 .. n /\ DOMAIN new = 1 .. Len(new)
      /\ \A i \in 1 .. n : old[i] \in FastPage
      /\ h = old[1] /\ h \in FastPage
      /\ Len(new) = IF keep THEN n ELSE n - 1
      /\ \A i \in 1 .. n - 1 : new[i] = old[i + 1]
      /\ keep => new[n] = old[1]
  BY Used
<1>2. /\ filled' = filled \cup {h}
      /\ filledSince'[h] = {}
      /\ \A f \in FastPage : f # h => filledSince'[f] = filledSince[f] \cup {h}
  <2>1. /\ filledSince \in [FastPage -> SUBSET FastPage]
        /\ \A f \in FastPage : f \notin filledSince[f]
        /\ h \in FastPage
    BY <1>1 DEF SinceOK
  <2> HIDE DEF h
  <2>2. filled' = filled \cup {h} /\ filledSince' = Happens(filledSince, h)
    BY DEF h
  <2> QED
    BY <2>1, <2>2, HappensOK
<1> HIDE DEF n, h, new
<1>3. \A i, j \in 1 .. n :
        i < j => IF old[i] \in filled THEN old[j] \in filledSince[old[i]]
                 ELSE old[j] \in filled \/ ListedBefore(old[i], old[j])
  BY <1>1 DEF VictimsTakeTurns
<1> HIDE DEF old
<1>4. \A i \in 2 .. n : old[i] # h
  <2> SUFFICES ASSUME NEW i \in 2 .. n, old[i] = h PROVE FALSE
    OBVIOUS
  <2>1. IF h \in filled THEN h \in filledSince[h] ELSE h \in filled \/ ListedBefore(h, h)
    <3>1. 1 \in 1 .. n /\ i \in 1 .. n /\ 1 < i
      BY <1>1
    <3> QED
      BY <1>1, <1>3, <3>1
  <2>2. ~ ListedBefore(h, h)
    <3>1. \A a, b \in DOMAIN VictimOrder : VictimOrder[a] = VictimOrder[b] => a = b
      BY CoinAssumption
    <3>2. VictimOrder \in Seq(FastPage)
      BY CoinAssumption
    <3>3. \A a \in DOMAIN VictimOrder : a \in Nat
      BY <3>2
    <3> QED
      BY <3>1, <3>3 DEF ListedBefore
  <2> QED
    BY <1>1, <2>1, <2>2 DEF SinceOK
<1>5. ASSUME NEW i \in 1 .. Len(new), NEW j \in 1 .. Len(new), i < j
      PROVE  IF new[i] \in filled' THEN new[j] \in filledSince'[new[i]]
             ELSE new[j] \in filled' \/ ListedBefore(new[i], new[j])
  <2>1. i \in 1 .. n - 1 /\ i + 1 \in 2 .. n /\ new[i] = old[i + 1]
        /\ old[i + 1] \in FastPage /\ old[i + 1] # h
    BY <1>1, <1>4, <1>5
  <2>2. CASE j = n
    <3>1. new[j] = h
      BY <1>1, <2>2
    <3> QED
      BY <1>2, <2>1, <3>1
  <2>3. CASE j # n
    <3>1. j \in 1 .. n - 1 /\ j + 1 \in 1 .. n /\ i + 1 \in 1 .. n /\ i + 1 < j + 1 /\ new[j] = old[j + 1]
      BY <1>1, <1>5, <2>1, <2>3
    <3>2. IF old[i + 1] \in filled THEN old[j + 1] \in filledSince[old[i + 1]]
          ELSE old[j + 1] \in filled \/ ListedBefore(old[i + 1], old[j + 1])
      BY <1>3, <3>1
    <3> QED
      BY <1>2, <2>1, <3>1, <3>2
  <2> QED
    BY <2>2, <2>3
<1>6. ToSet(VictimOrder) \ filled' \subseteq ToSet(new)
  <2> SUFFICES ASSUME NEW f \in ToSet(VictimOrder), f \notin filled' PROVE f \in ToSet(new)
    OBVIOUS
  <2>1. f \notin filled /\ f # h
    BY DEF h
  <2>2. PICK k \in 1 .. n : old[k] = f
    BY <1>1, <2>1 DEF VictimsTakeTurns, ToSet, old
  <2>3. k - 1 \in 1 .. n - 1 /\ new[k - 1] = old[k] /\ k - 1 \in DOMAIN new
    <3>1. k # 1
      BY <1>1, <2>1, <2>2
    <3>2. k - 1 \in 1 .. n - 1 /\ (k - 1) + 1 = k
      BY <1>1, <2>2, <3>1
    <3> QED
      BY <1>1, <3>2
  <2> QED
    BY <2>2, <2>3 DEF ToSet
<1>7. \A f, g : ListedBefore(f, g)' <=> ListedBefore(f, g)
  BY DEF ListedBefore
<1> QED
  BY <1>1, <1>5, <1>6, <1>7 DEF VictimsTakeTurns, new

\* The entries behind the new one, by where they were; none is of the page itself.
LEMMA OthersHold ==
  ASSUME NEW p \in Page, stc_cache \in Sets, SinceOK, STCHoldsTheLatestPages
  PROVE  LET old == Entries(p)
             others == Others(p)
             m == Len(others)
         IN  /\ m \in Nat /\ Len(old) \in Nat
             /\ m = IF IsInSTC(p) \/ Full(p) THEN Len(old) - 1 ELSE Len(old)
             /\ \A k \in 1 .. m :
                  \E i \in 1 .. Len(old) :
                    /\ others[k] = old[i] /\ others[k].address # p
                    /\ {others[j].address : j \in 1 .. k - 1} \cup {p}
                         = {old[j].address : j \in 1 .. i - 1} \cup {p}
             /\ \A i \in 1 .. Len(old) :
                  \/ old[i].address = p
                  \/ \E k \in 1 .. m : others[k] = old[i]
                  \/ /\ ~ IsInSTC(p) /\ Full(p) /\ i = Len(old) /\ m = i - 1
                     /\ \A k \in 1 .. m : others[k] = old[k]
<1> DEFINE old == Entries(p)
           others == Others(p)
           n == Len(old)
           m == Len(others)
           at == Position(p)
<1>1. /\ n \in Nat /\ old = stc_cache[SetOf[p]] /\ DOMAIN old = 1 .. n
      /\ \A k \in 1 .. n : old[k] \in Entry
      /\ IsInSTC(p) => at \in 1 .. n /\ old[at].address = p
  BY EntriesTyped DEF Entries
<1>2. /\ m \in Nat
      /\ IsInSTC(p) =>
           /\ m = n - 1
           /\ \A k \in 1 .. n - 1 : others[k] = IF k < at THEN old[k] ELSE old[k + 1]
      /\ ~ IsInSTC(p) =>
           /\ m = IF Full(p) THEN n - 1 ELSE n
           /\ \A k \in 1 .. m : others[k] = old[k]
  BY OthersTyped
<1>3. \A i \in 1 .. n : /\ old[i].address \in Page
                         /\ \A j \in 1 .. i - 1 : old[j].address \in accessedSince[old[i].address]
  <2>1. SetOf[p] \in Set
    BY CoinAssumption
  <2>2. \A i \in 1 .. n : {old[j].address : j \in 1 .. i - 1} \subseteq accessedSince[old[i].address]
    <3> DEFINE ofSet == {q \in accessed : SetOf[q] = SetOf[p]}
    <3>1. \A i \in DOMAIN stc_cache[SetOf[p]] :
            accessedSince[stc_cache[SetOf[p]][i].address] \cap ofSet
              = {stc_cache[SetOf[p]][j].address : j \in 1 .. i - 1}
      BY <2>1 DEF STCHoldsTheLatestPages
    <3> HIDE DEF ofSet
    <3>2. \A i \in 1 .. n :
            accessedSince[old[i].address] \cap ofSet = {old[j].address : j \in 1 .. i - 1}
      <4> HIDE DEF old
      <4>1. old = stc_cache[SetOf[p]] /\ DOMAIN old = 1 .. n
        BY <1>1 DEF old
      <4> HIDE DEF n
      <4> QED
        BY <3>1, <4>1
    <3> HIDE DEF old, n
    <3> QED
      BY <3>2
  <2>3. \A i \in 1 .. n : old[i].address \in Page
    BY <1>1 DEF Entry
  <2> QED
    BY <2>2, <2>3
<1>4. IsInSTC(p) <=> \E i \in 1 .. n : old[i].address = p
  BY <1>1 DEF IsInSTC
<1>5. Full(p) => n \in Nat \ {0}
  BY CoinAssumption DEF Full
<1> HIDE DEF old, others, n, m, at
<1>6. \A i, j \in 1 .. n : old[i].address = old[j].address => i = j
  <2>1. \A i, j \in 1 .. n : i < j => old[i].address # old[j].address
    <3> SUFFICES ASSUME NEW i \in 1 .. n, NEW j \in 1 .. n, i < j
                 PROVE  old[i].address # old[j].address
      OBVIOUS
    <3>1. i \in 1 .. j - 1
      BY <1>1
    <3>2. old[j].address \in Page /\ old[i].address \in accessedSince[old[j].address]
      BY <1>3, <3>1
    <3> QED
      BY <3>2 DEF SinceOK
  <2> QED
    BY <1>1, <2>1
<1>7. m = IF IsInSTC(p) \/ Full(p) THEN n - 1 ELSE n
  BY <1>2
<1>8. ASSUME NEW k \in 1 .. m
      PROVE  \E i \in 1 .. n :
               /\ others[k] = old[i] /\ others[k].address # p
               /\ {others[j].address : j \in 1 .. k - 1} \cup {p}
                    = {old[j].address : j \in 1 .. i - 1} \cup {p}
  <2>1. CASE ~ IsInSTC(p)
    <3>1. k \in 1 .. n /\ \A j \in 1 .. k : j \in 1 .. m
      BY <1>1, <1>2, <2>1
    <3>2. \A j \in 1 .. k : others[j] = old[j]
      BY <1>2, <2>1, <3>1
    <3>3. k \in 1 .. k /\ \A j \in 1 .. k - 1 : j \in 1 .. k
      BY <1>1, <3>1
    <3> QED
      BY <1>4, <2>1, <3>1, <3>2, <3>3
  <2>2. CASE IsInSTC(p) /\ k < at
    <3>1. k \in 1 .. n /\ at \in 1 .. n /\ \A j \in 1 .. k : j \in 1 .. n - 1 /\ j < at
      BY <1>1, <1>2, <2>2
    <3>2. \A j \in 1 .. k : others[j] = old[j]
      BY <1>2, <2>2, <3>1
    <3>3. k \in 1 .. k /\ \A j \in 1 .. k - 1 : j \in 1 .. k
      BY <1>1, <3>1
    <3>4. old[k].address # p
      BY <1>1, <1>6, <2>2, <3>1
    <3> QED
      BY <3>1, <3>2, <3>3, <3>4
  <2>3. CASE IsInSTC(p) /\ ~ k < at
    <3>1. /\ k + 1 \in 1 .. n /\ at \in 1 .. n /\ k \in 1 .. n - 1 /\ at \in 1 .. k
          /\ (k + 1) - 1 = k /\ k + 1 # at
      BY <1>1, <1>2, <2>3
    <3>2. others[k] = old[k + 1] /\ old[k + 1].address # p
      BY <1>1, <1>2, <1>6, <2>3, <3>1
    <3>3. ASSUME NEW j \in 1 .. k - 1 PROVE \E i \in 1 .. k : others[j] = old[i]
      <4>1. j \in 1 .. n - 1 /\ j \in 1 .. k /\ j + 1 \in 1 .. k
        BY <1>1, <3>1
      <4> QED
        BY <1>2, <2>3, <4>1
    <3>4. ASSUME NEW i \in 1 .. k PROVE i = at \/ \E j \in 1 .. k - 1 : others[j] = old[i]
      <4>1. CASE i < at
        <5>1. i \in 1 .. k - 1 /\ i \in 1 .. n - 1
          BY <1>1, <3>1, <4>1
        <5> QED
          BY <1>2, <2>3, <4>1, <5>1
      <4>2. CASE i > at
        <5>1. i - 1 \in 1 .. k - 1 /\ i - 1 \in 1 .. n - 1 /\ ~ i - 1 < at /\ (i - 1) + 1 = i
          BY <1>1, <3>1, <4>2
        <5> QED
          BY <1>2, <2>3, <5>1
      <4> QED
        BY <3>1, <4>1, <4>2
    <3>5. {others[j].address : j \in 1 .. k - 1} \cup {p} = {old[j].address : j \in 1 .. k} \cup {p}
      <4>1. \A j \in 1 .. k - 1 : others[j].address \in {old[i].address : i \in 1 .. k}
        <5> TAKE j \in 1 .. k - 1
        <5>1. PICK i \in 1 .. k : others[j] = old[i]
          BY <3>3
        <5> QED
          BY <5>1
      <4>2. \A i \in 1 .. k : old[i].address \in {others[j].address : j \in 1 .. k - 1} \cup {p}
        <5> TAKE i \in 1 .. k
        <5>1. i = at => old[i].address = p
          BY <1>1, <2>3
        <5>2. i # at => \E j \in 1 .. k - 1 : others[j] = old[i]
          BY <3>4
        <5> QED
          BY <5>1, <5>2
      <4> QED
        BY <4>1, <4>2
    <3> QED
      BY <3>1, <3>2, <3>5
  <2> QED
    BY <2>1, <2>2, <2>3
<1>9. ASSUME NEW i \in 1 .. n
      PROVE  \/ old[i].address = p
             \/ \E k \in 1 .. m : others[k] = old[i]
             \/ /\ ~ IsInSTC(p) /\ Full(p) /\ i = n /\ m = i - 1
                /\ \A k \in 1 .. m : others[k] = old[k]
  <2>1. CASE ~ IsInSTC(p)
    BY <1>1, <1>2, <2>1
  <2>2. CASE IsInSTC(p) /\ i < at
    <3>1. i \in 1 .. n - 1
      BY <1>1, <2>2
    <3> QED
      BY <1>2, <2>2, <3>1
  <2>3. CASE IsInSTC(p) /\ i > at
    <3>1. i - 1 \in 1 .. n - 1 /\ ~ i - 1 < at /\ (i - 1) + 1 = i
      BY <1>1, <2>3
    <3> QED
      BY <1>2, <2>3, <3>1
  <2>4. CASE IsInSTC(p) /\ i = at
    BY <1>1, <2>4
  <2> QED
    BY <1>1, <2>1, <2>2, <2>3, <2>4
<1> QED
  BY <1>1, <1>2, <1>7, <1>8, <1>9 DEF old, others, n, m

\* The entries of a set hold its pages accessed last.
HoldsLatest(entries, ofSet, since) ==
  LET page(i) == entries[i].address
      held == {page(i) : i \in DOMAIN entries}
  IN  /\ Len(entries) <= Ways /\ held \subseteq ofSet
      /\ \A i \in DOMAIN entries : since[page(i)] \cap ofSet = {page(j) : j \in 1 .. i - 1}
      /\ \A q \in ofSet \ held : Len(entries) = Ways /\ held \subseteq since[q]
EntriesMapped(entries, table) == \A i \in DOMAIN entries : table[entries[i].address] # None

LEMMA SetsHoldLatest ==
  STCHoldsTheLatestPages <=>
    \A s \in Set : /\ HoldsLatest(stc_cache[s], {q \in accessed : SetOf[q] = s}, accessedSince)
                   /\ EntriesMapped(stc_cache[s], remap_table)
BY DEF STCHoldsTheLatestPages, HoldsLatest, EntriesMapped, IsMapped

\* The set of the page that is accessed.
LEMMA OwnSetHoldsLatest ==
  ASSUME NEW p \in Page, NEW new \in Seq(Entry), stc_cache \in Sets, SinceOK, STCHoldsTheLatestPages,
         Len(new) = Len(Others(p)) + 1, new[1].address = p,
         \A k \in 1 .. Len(Others(p)) : new[k + 1] = Others(p)[k]
  PROVE  HoldsLatest(new, {q \in accessed \cup {p} : SetOf[q] = SetOf[p]}, Happens(accessedSince, p))
<1> DEFINE old == Entries(p)
           others == Others(p)
           n == Len(old)
           m == Len(others)
           ofSet == {q \in accessed : SetOf[q] = SetOf[p]}
           ofSetNow == {q \in accessed \cup {p} : SetOf[q] = SetOf[p]}
           since == Happens(accessedSince, p)
           InSTC == IsInSTC(p)
           IsFull == Full(p)
<1>1. /\ m \in Nat /\ n \in Nat
      /\ m = IF InSTC \/ IsFull THEN n - 1 ELSE n
      /\ \A k \in 1 .. m :
           \E i \in 1 .. n :
             /\ others[k] = old[i] /\ others[k].address # p
             /\ {others[j].address : j \in 1 .. k - 1} \cup {p}
                  = {old[j].address : j \in 1 .. i - 1} \cup {p}
      /\ \A i \in 1 .. n :
           \/ old[i].address = p
           \/ \E k \in 1 .. m : others[k] = old[i]
           \/ /\ ~ InSTC /\ IsFull /\ i = n /\ m = i - 1
              /\ \A k \in 1 .. m : others[k] = old[k]
  BY OthersHold
<1>2. /\ DOMAIN old = 1 .. n /\ \A i \in 1 .. n : old[i].address \in Page
      /\ HoldsLatest(old, ofSet, accessedSince)
      /\ IsFull <=> n = Ways
      /\ Ways \in Nat
      /\ ~ InSTC => \A i \in 1 .. n : old[i].address # p
  <2>1. DOMAIN old = 1 .. n /\ \A i \in 1 .. n : old[i] \in Entry
    BY EntriesTyped
  <2>2. HoldsLatest(old, ofSet, accessedSince)
    <3>1. SetOf[p] \in Set
      BY CoinAssumption
    <3> QED
      BY <3>1, SetsHoldLatest DEF Entries
  <2>3. Ways \in Nat
    BY CoinAssumption
  <2> QED
    BY <2>1, <2>2, <2>3 DEF Full, IsInSTC, Entry
<1>3. /\ DOMAIN new = 1 .. m + 1 /\ Len(new) = m + 1 /\ new[1].address = p
      /\ \A k \in 1 .. m : new[k + 1] = others[k]
  OBVIOUS
<1>4. since[p] = {} /\ \A q \in Page : q # p => since[q] = accessedSince[q] \cup {p}
  BY HappensOK DEF SinceOK
<1>5. ofSetNow = ofSet \cup {p} /\ ofSet \subseteq Page
  BY DEF SinceOK
<1> HIDE DEF old, others, n, m, ofSet, ofSetNow, since, InSTC, IsFull
<1>6. /\ n <= Ways /\ \A i \in 1 .. n : old[i].address \in ofSet
      /\ \A i \in 1 .. n :
           accessedSince[old[i].address] \cap ofSet = {old[j].address : j \in 1 .. i - 1}
      /\ \A q \in ofSet :
           \/ \E i \in 1 .. n : q = old[i].address
           \/ n = Ways /\ \A i \in 1 .. n : old[i].address \in accessedSince[q]
  <2>1. Len(old) = n /\ DOMAIN old = 1 .. n
    BY <1>2 DEF n
  <2>2. n <= Ways /\ \A i \in 1 .. n : old[i].address \in ofSet
    BY <1>2, <2>1 DEF HoldsLatest
  <2>3. \A i \in 1 .. n :
          accessedSince[old[i].address] \cap ofSet = {old[j].address : j \in 1 .. i - 1}
    <3>1. \A i \in DOMAIN old :
            accessedSince[old[i].address] \cap ofSet = {old[j].address : j \in 1 .. i - 1}
      BY <1>2 DEF HoldsLatest
    <3> QED
      BY <2>1, <3>1
  <2>4. ASSUME NEW q \in ofSet, \A i \in 1 .. n : q # old[i].address
        PROVE  n = Ways /\ \A i \in 1 .. n : old[i].address \in accessedSince[q]
    <3>1. q \in ofSet \ {old[i].address : i \in DOMAIN old}
      BY <2>1, <2>4
    <3>2. Len(old) = Ways /\ {old[i].address : i \in DOMAIN old} \subseteq accessedSince[q]
      BY <1>2, <3>1 DEF HoldsLatest
    <3> QED
      BY <2>1, <3>2
  <2> QED
    BY <2>2, <2>3, <2>4
<1> DEFINE held == {new[i].address : i \in DOMAIN new}
<1>7. /\ \A k \in 1 .. m : k + 1 \in 1 .. m + 1
      /\ \A i \in 1 .. m + 1 : i = 1 \/ (i - 1 \in 1 .. m /\ (i - 1) + 1 = i)
      /\ 1 \in 1 .. m + 1
  BY <1>1
<1>8. held = {p} \cup {others[k].address : k \in 1 .. m}
  <2>1. \A i \in 1 .. m + 1 : new[i].address \in {p} \cup {others[k].address : k \in 1 .. m}
    <3> TAKE i \in 1 .. m + 1
    <3>1. CASE i = 1
      BY <1>3, <3>1
    <3>2. CASE i - 1 \in 1 .. m /\ (i - 1) + 1 = i
      <4>1. new[(i - 1) + 1] = others[i - 1]
        BY <1>3, <3>2
      <4> QED
        BY <3>2, <4>1
    <3> QED
      BY <1>7, <3>1, <3>2
  <2>2. \A k \in 1 .. m : others[k].address \in held
    BY <1>3, <1>7
  <2>3. p \in held
    BY <1>3, <1>7
  <2> QED
    BY <1>3, <2>1, <2>2, <2>3
<1> HIDE DEF held
<1>9. Len(new) <= Ways
  BY <1>1, <1>2, <1>3, <1>6
<1>10. held \subseteq ofSetNow
  <2>1. \A k \in 1 .. m : others[k].address \in ofSet
    <3> TAKE k \in 1 .. m
    <3>1. PICK i \in 1 .. n : others[k] = old[i]
      BY <1>1
    <3> QED
      BY <1>6, <3>1
  <2> QED
    BY <1>5, <1>8, <2>1
<1>11. ASSUME NEW i \in DOMAIN new
       PROVE  since[new[i].address] \cap ofSetNow = {new[j].address : j \in 1 .. i - 1}
  <2>1. CASE i = 1
    BY <1>3, <1>4, <2>1
  <2>2. CASE i # 1
    <3>1. i - 1 \in 1 .. m /\ (i - 1) + 1 = i
      BY <1>3, <1>7, <2>2
    <3> DEFINE k == i - 1
    <3> HIDE DEF k
    <3>2. k \in 1 .. m /\ i = k + 1 /\ new[i] = others[k] /\ 1 .. i - 1 = 1 .. k
      BY <1>3, <3>1 DEF k
    <3>3. PICK at \in 1 .. n :
            /\ others[k] = old[at] /\ others[k].address # p
            /\ {others[j].address : j \in 1 .. k - 1} \cup {p}
                 = {old[j].address : j \in 1 .. at - 1} \cup {p}
      BY <1>1, <3>2
    <3>4. since[new[i].address] = accessedSince[old[at].address] \cup {p}
      BY <1>2, <1>4, <3>2, <3>3
    <3>5. accessedSince[old[at].address] \cap ofSet = {old[j].address : j \in 1 .. at - 1}
      BY <1>6
    <3>6. since[new[i].address] \cap ofSetNow = {others[j].address : j \in 1 .. k - 1} \cup {p}
      BY <1>5, <3>3, <3>4, <3>5
    <3>7. {others[j].address : j \in 1 .. k - 1} \cup {p} = {new[j].address : j \in 1 .. k}
      <4>1. \A j \in 1 .. k - 1 : j + 1 \in 1 .. k /\ new[j + 1] = others[j]
        <5> TAKE j \in 1 .. k - 1
        <5>1. j + 1 \in 1 .. k /\ j \in 1 .. m
          BY <1>1, <3>2
        <5> QED
          BY <1>3, <5>1
      <4>2. \A j \in 1 .. k : j = 1 \/ (j - 1 \in 1 .. k - 1 /\ (j - 1) + 1 = j)
        BY <1>1, <3>2
      <4>3. 1 \in 1 .. k
        BY <1>1, <3>2
      <4>4. \A j \in 1 .. k : new[j].address \in {others[l].address : l \in 1 .. k - 1} \cup {p}
        <5> TAKE j \in 1 .. k
        <5>1. CASE j = 1
          BY <1>3, <5>1
        <5>2. CASE j - 1 \in 1 .. k - 1 /\ (j - 1) + 1 = j
          <6>1. new[j] = others[j - 1]
            BY <4>1, <5>2
          <6> QED
            BY <5>2, <6>1
        <5> QED
          BY <4>2, <5>1, <5>2
      <4>5. \A j \in 1 .. k - 1 : others[j].address \in {new[l].address : l \in 1 .. k}
        BY <4>1
      <4>6. p \in {new[l].address : l \in 1 .. k}
        BY <1>3, <4>3
      <4>7. \A x \in {others[j].address : j \in 1 .. k - 1} \cup {p} : x \in {new[j].address : j \in 1 .. k}
        BY <4>5, <4>6
      <4>8. \A x \in {new[j].address : j \in 1 .. k} :
              x \in {others[j].address : j \in 1 .. k - 1} \cup {p}
        BY <4>4
      <4> QED
        BY <4>7, <4>8
    <3> QED
      BY <3>2, <3>6, <3>7
  <2> QED
    BY <2>1, <2>2
<1>12. ASSUME NEW q \in ofSetNow \ held
       PROVE  Len(new) = Ways /\ held \subseteq since[q]
  <2>1. q # p /\ q \in ofSet /\ q \in Page /\ since[q] = accessedSince[q] \cup {p}
    BY <1>4, <1>5, <1>8
  <2>2. CASE \E i \in 1 .. n : q = old[i].address
    <3>1. PICK i \in 1 .. n : q = old[i].address
      BY <2>2
    <3>2. /\ ~ InSTC /\ IsFull /\ i = n /\ m = i - 1
          /\ \A k \in 1 .. m : others[k] = old[k]
      <4>1. \A k \in 1 .. m : others[k].address # q
        BY <1>8
      <4>2. old[i].address # p
        BY <2>1, <3>1
      <4>3. ~ \E k \in 1 .. m : others[k] = old[i]
        BY <3>1, <4>1
      <4> QED
        BY <1>1, <4>2, <4>3
    <3>3. accessedSince[q] \cap ofSet = {old[j].address : j \in 1 .. i - 1}
      BY <1>6, <3>1
    <3>4. Len(new) = Ways
      BY <1>1, <1>2, <1>3, <3>2
    <3>5. \A k \in 1 .. m : others[k].address \in accessedSince[q]
      <4>1. \A j \in 1 .. i - 1 : old[j].address \in {old[l].address : l \in 1 .. i - 1}
        OBVIOUS
      <4> QED
        BY <3>2, <3>3, <4>1
    <3> QED
      BY <1>8, <2>1, <3>4, <3>5
  <2>3. CASE n = Ways /\ \A i \in 1 .. n : old[i].address \in accessedSince[q]
    <3>1. Len(new) = Ways
      BY <1>1, <1>2, <1>3, <2>3
    <3>2. \A k \in 1 .. m : others[k].address \in accessedSince[q]
      <4> TAKE k \in 1 .. m
      <4>1. PICK i \in 1 .. n : others[k] = old[i]
        BY <1>1
      <4> QED
        BY <2>3, <4>1
    <3> QED
      BY <1>8, <2>1, <3>1, <3>2
  <2> QED
    BY <1>6, <2>1, <2>2, <2>3
<1>13. HoldsLatest(new, ofSetNow, since)
  BY <1>9, <1>10, <1>11, <1>12 DEF HoldsLatest, held
<1> QED
  BY <1>13 DEF ofSetNow, since

\* The sets of other pages, of which none was accessed.
LEMMA OtherSetsHoldLatest ==
  ASSUME NEW p \in Page, NEW s \in Set, s # SetOf[p], NEW entries, SinceOK,
         DOMAIN entries = 1 .. Len(entries),
         HoldsLatest(entries, {q \in accessed : SetOf[q] = s}, accessedSince)
  PROVE  HoldsLatest(entries, {q \in accessed \cup {p} : SetOf[q] = s}, Happens(accessedSince, p))
<1> DEFINE ofSet == {q \in accessed : SetOf[q] = s}
           since == Happens(accessedSince, p)
           held == {entries[i].address : i \in DOMAIN entries}
<1>1. {q \in accessed \cup {p} : SetOf[q] = s} = ofSet /\ p \notin ofSet /\ ofSet \subseteq Page
  BY DEF SinceOK
<1>2. \A q \in Page : q # p => since[q] = accessedSince[q] \cup {p}
  BY HappensOK DEF SinceOK
<1>3. /\ Len(entries) <= Ways /\ held \subseteq ofSet
      /\ \A i \in DOMAIN entries :
           accessedSince[entries[i].address] \cap ofSet = {entries[j].address : j \in 1 .. i - 1}
      /\ \A q \in ofSet \ held : Len(entries) = Ways /\ held \subseteq accessedSince[q]
  BY DEF HoldsLatest
<1> HIDE DEF ofSet, since
<1>4. \A q \in ofSet : since[q] \cap ofSet = accessedSince[q] \cap ofSet
                        /\ accessedSince[q] \subseteq since[q]
  BY <1>1, <1>2
<1>5. \A i \in DOMAIN entries : entries[i].address \in ofSet
  BY <1>3
<1>6. \A i \in DOMAIN entries :
        since[entries[i].address] \cap ofSet = {entries[j].address : j \in 1 .. i - 1}
  BY <1>3, <1>4, <1>5
<1> HIDE DEF held
<1>7. \A q \in ofSet \ held : Len(entries) = Ways /\ held \subseteq since[q]
  BY <1>3, <1>4
<1>8. HoldsLatest(entries, ofSet, since)
  BY <1>3, <1>6, <1>7 DEF HoldsLatest, held
<1> QED
  BY <1>1, <1>8 DEF since

LEMMA LatestAreKept ==
  ASSUME NEW p \in Page, IInv, SinceOK, STCHoldsTheLatestPages, TrainingOK(p), MappedStay(p),
         accessed' = accessed \cup {p}, accessedSince' = Happens(accessedSince, p)
  PROVE  STCHoldsTheLatestPages'
<1>1. PICK e \in Entry : e.address = p /\ InsertNode(e)
  BY DEF TrainingOK
<1>2. stc_cache \in Sets /\ SetOf[p] \in Set
  BY CoinAssumption DEF IInv, TypeOK, Sets
<1> DEFINE new == stc_cache'[SetOf[p]]
           now(s) == {q \in accessed \cup {p} : SetOf[q] = s}
<1>3. /\ stc_cache' \in Sets
      /\ \A s \in Set : s # SetOf[p] => stc_cache'[s] = stc_cache[s]
      /\ new \in Seq(Entry) /\ Len(new) = Len(Others(p)) + 1
      /\ new[1] = e
      /\ \A k \in 1 .. Len(Others(p)) : new[k + 1] = Others(p)[k]
  BY <1>1, <1>2, Inserted
<1>4. ASSUME NEW s \in Set, s # SetOf[p]
      PROVE  HoldsLatest(stc_cache'[s], now(s), accessedSince') /\ EntriesMapped(stc_cache'[s], remap_table')
  <2>1. /\ HoldsLatest(stc_cache[s], {q \in accessed : SetOf[q] = s}, accessedSince)
        /\ EntriesMapped(stc_cache[s], remap_table)
    BY SetsHoldLatest
  <2>2. stc_cache[s] \in Seq(Entry) /\ stc_cache'[s] = stc_cache[s]
    BY <1>2, <1>3, <1>4 DEF Sets
  <2>3. DOMAIN stc_cache[s] = 1 .. Len(stc_cache[s])
        /\ \A i \in DOMAIN stc_cache[s] : stc_cache[s][i].address \in Page
    <3>1. \A i \in DOMAIN stc_cache[s] : stc_cache[s][i] \in Entry
      BY <2>2
    <3> QED
      BY <2>2, <3>1 DEF Entry
  <2>4. HoldsLatest(stc_cache[s], now(s), accessedSince')
    BY <1>4, <2>1, <2>3, OtherSetsHoldLatest
  <2>5. \A i \in DOMAIN stc_cache[s] : remap_table'[stc_cache[s][i].address] # None
    BY <2>1, <2>2, <2>3 DEF EntriesMapped, MappedStay, IsMapped
  <2> QED
    BY <2>2, <2>4, <2>5 DEF EntriesMapped
<1>5. HoldsLatest(new, now(SetOf[p]), accessedSince') /\ EntriesMapped(new, remap_table')
  <2>1. HoldsLatest(new, now(SetOf[p]), accessedSince')
    BY <1>1, <1>2, <1>3, OwnSetHoldsLatest
  <2>2. \A k \in 1 .. Len(Others(p)) :
          \E i \in 1 .. Len(Entries(p)) : Others(p)[k] = Entries(p)[i]
    BY <1>2, OthersHold
  <2>3. EntriesMapped(Entries(p), remap_table) /\ \A i \in 1 .. Len(Entries(p)) : Entries(p)[i] \in Entry
        /\ DOMAIN Entries(p) = 1 .. Len(Entries(p))
    BY <1>2, SetsHoldLatest, EntriesTyped DEF Entries
  <2>4. \A i \in DOMAIN new : i = 1 \/ (i - 1 \in 1 .. Len(Others(p)) /\ (i - 1) + 1 = i)
    <3>1. Len(Others(p)) \in Nat /\ DOMAIN new = 1 .. Len(Others(p)) + 1
      BY <1>2, <1>3, OthersTyped
    <3> HIDE DEF new
    <3> QED
      BY <3>1
  <2>5. ASSUME NEW i \in DOMAIN new PROVE remap_table'[new[i].address] # None
    <3>1. CASE i = 1
      BY <1>1, <1>3, <3>1 DEF MappedStay, IsMapped
    <3>2. CASE i - 1 \in 1 .. Len(Others(p)) /\ (i - 1) + 1 = i
      <4>1. PICK k \in 1 .. Len(Entries(p)) : new[i] = Entries(p)[k]
        <5>1. new[(i - 1) + 1] = Others(p)[i - 1]
          BY <1>3, <3>2
        <5> QED
          BY <2>2, <3>2, <5>1
      <4>2. new[i].address \in Page /\ remap_table[new[i].address] # None
        <5>1. Entries(p)[k] \in Entry /\ remap_table[Entries(p)[k].address] # None
          BY <2>3 DEF EntriesMapped
        <5> QED
          BY <4>1, <5>1 DEF Entry
      <4> QED
        BY <4>2 DEF MappedStay, IsMapped
    <3> QED
      BY <2>4, <3>1, <3>2
  <2> QED
    BY <2>1, <2>5 DEF EntriesMapped
<1>6. \A s \in Set : HoldsLatest(stc_cache'[s], {q \in accessed' : SetOf[q] = s}, accessedSince')
                      /\ EntriesMapped(stc_cache'[s], remap_table')
  BY <1>4, <1>5
<1> QED
  BY <1>6 DEF STCHoldsTheLatestPages, HoldsLatest, EntriesMapped, IsMapped
-----------------------------------------------------------------------------
LEMMA NoHistoryOK ==
  ASSUME IInv, accessed = {}, accessedSince = NothingSince(Page),
         filled = {}, filledSince = NothingSince(FastPage),
         victim_page_list = VictimOrder, stc_cache = [s \in Set |-> <<>>]
  PROVE  HistoryInv
<1>1. SinceOK
  BY DEF SinceOK, NothingSince
<1>2. VictimsTakeTurns
  <2>1. \A i, j \in DOMAIN VictimOrder : i < j => ListedBefore(VictimOrder[i], VictimOrder[j])
    BY DEF ListedBefore
  <2> QED
    BY <2>1 DEF VictimsTakeTurns
<1>3. STCHoldsTheLatestPages
  <2>1. Ways \in Nat /\ Len(<<>>) = 0 /\ DOMAIN <<>> = {}
    BY CoinAssumption
  <2> QED
    BY <2>1 DEF STCHoldsTheLatestPages
<1> QED
  BY <1>1, <1>2, <1>3 DEF HistoryInv

LEMMA AccessKeepsHistory ==
  ASSUME NEW p \in Page, NEW write \in BOOLEAN, HistoryInv, Access(p, write)
  PROVE  HistoryInv'
<1>1. Stay(p, write) \/ Migrate(p, write)
  BY DEF Access
<1>2. IInv' /\ MappedStay(p) /\ TrainingOK(p)
  BY <1>1, AccessKeepsIInv DEF HistoryInv
<1>3. STCHoldsTheLatestPages'
  BY <1>2, LatestAreKept DEF HistoryInv, Access
<1>4. ListOK /\ ListOK'
  BY <1>2 DEF HistoryInv, IInv, TypeOK, ListOK
<1>5. /\ accessed' \subseteq Page /\ accessedSince' \in [Page -> SUBSET Page]
      /\ \A q \in Page : q \notin accessedSince'[q]
  BY HappensOK DEF HistoryInv, SinceOK, Access
<1>6. CASE Stay(p, write) /\ UNCHANGED <<filled, filledSince>>
  <2>1. UNCHANGED victim_page_list
    BY <1>6 DEF Stay
  <2> QED
    BY <1>2, <1>3, <1>5, <1>6, <2>1 DEF HistoryInv, SinceOK, VictimsTakeTurns, ListedBefore
<1>7. CASE Migrate(p, write) /\ filled' = filled \cup {ChooseVictim}
           /\ filledSince' = Happens(filledSince, ChooseVictim)
  <2>1. victim_page_list # <<>> /\ UsePage(KnownFrame(ChooseVictim)) /\ ChooseVictim \in FastPage
    BY <1>4, <1>7 DEF Migrate, ListOK, ChooseVictim
  <2>2. VictimsTakeTurns'
    BY <1>4, <1>7, <2>1, TurnsAreKept DEF HistoryInv, KnownFrame
  <2>3. /\ filled' \subseteq FastPage /\ filledSince' \in [FastPage -> SUBSET FastPage]
        /\ \A f \in FastPage : f \notin filledSince'[f]
    BY <1>7, <2>1, HappensOK DEF HistoryInv, SinceOK
  <2> QED
    BY <1>2, <1>3, <1>5, <2>2, <2>3 DEF HistoryInv, SinceOK
<1> QED
  BY <1>6, <1>7 DEF Access

LEMMA HistoryInvariance == HistorySpec => []HistoryInv
<1>1. HistoryInit => HistoryInv
  BY InitOK, NoHistoryOK DEF HistoryInit, Init
<1>2. HistoryInv /\ [HistoryNext]_historyVars => HistoryInv'
  <2> SUFFICES ASSUME HistoryInv, [HistoryNext]_historyVars PROVE HistoryInv'
    OBVIOUS
  <2>1. CASE HistoryRestart
    <3>1. IInv'
      BY <2>1, RestartOK DEF HistoryRestart
    <3>2. /\ accessed' = {} /\ accessedSince' = NothingSince(Page)
          /\ filled' = {} /\ filledSince' = NothingSince(FastPage)
          /\ victim_page_list' = VictimOrder /\ stc_cache' = [s \in Set |-> <<>>]
      BY <2>1 DEF HistoryRestart, Restart
    <3>3. SinceOK'
      BY <3>2 DEF SinceOK, NothingSince
    <3>4. VictimsTakeTurns'
      <4>1. \A i, j \in DOMAIN VictimOrder : i < j => ListedBefore(VictimOrder[i], VictimOrder[j])'
        BY DEF ListedBefore
      <4> QED
        BY <3>2, <4>1 DEF VictimsTakeTurns
    <3>5. STCHoldsTheLatestPages'
      <4>1. Ways \in Nat /\ Len(<<>>) = 0 /\ DOMAIN <<>> = {}
        BY CoinAssumption
      <4> QED
        BY <3>2, <4>1 DEF STCHoldsTheLatestPages
    <3> QED
      BY <3>1, <3>3, <3>4, <3>5 DEF HistoryInv
  <2>2. ASSUME NEW p \in Page, NEW write \in BOOLEAN, Access(p, write) PROVE HistoryInv'
    BY <2>2, AccessKeepsHistory
  <2>3. CASE UNCHANGED historyVars
    BY <2>3 DEF historyVars, vars, tables, HistoryInv, IInv, TypeOK, TablesOK, TablesTypeOK,
                PagesHaveTheirOwnFrames, InvertedTableFindsTheOccupant, Translate, IsMapped,
                SinceOK, VictimsTakeTurns, ListedBefore, STCHoldsTheLatestPages
  <2> QED
    BY <2>1, <2>2, <2>3 DEF HistoryNext
<1> QED
  BY <1>1, <1>2, PTL DEF HistorySpec

\* The fast frames are filled in turn, for any number of them, and however the
\* list has shrunk.
THEOREM VictimsInTurn == HistorySpec => []VictimsTakeTurns
BY HistoryInvariance, PTL DEF HistoryInv

\* Every set of the STC holds the pages accessed last, with any number of ways.
THEOREM STCIsLRU == HistorySpec => []STCHoldsTheLatestPages
BY HistoryInvariance, PTL DEF HistoryInv
-----------------------------------------------------------------------------
(* What hangs the migrator into a memory system lets it do nothing else.   *)

\* With its hooks, the simulator and the checkpoints around it, the migrator is
\* still the one of CoinHistory: the detailed specification implements it.
THEOREM HookedMigratorMigrates == HookedSpec => HistorySpec
<1>1. HookedInit => HistoryInit
  BY DEF HookedInit
<1>2. [HookedNext]_hookedVars => [HistoryNext]_historyVars
  <2> SUFFICES ASSUME [HookedNext]_hookedVars PROVE [HistoryNext]_historyVars
    OBVIOUS
  <2>1. ASSUME NEW p \in Page, NEW write \in BOOLEAN, IssueCommand(p, write)
        PROVE  [HistoryNext]_historyVars
    <3>1. CASE Access(p, write)
      BY <3>1 DEF HistoryNext
    <3>2. CASE UNCHANGED historyVars
      BY <3>2
    <3> QED
      BY <2>1, <3>1, <3>2 DEF IssueCommand
  <2>2. CASE HookedRestart
    BY <2>2 DEF HookedRestart, HistoryNext
  <2>3. CASE Serve \/ Complete \/ UNCHANGED hookedVars
    BY <2>3 DEF Serve, Complete, hookedVars
  <2> QED
    BY <2>1, <2>2, <2>3 DEF HookedNext
<1> QED
  BY <1>1, <1>2, PTL DEF HookedSpec, HistorySpec

\* Nor does its history add anything to what it does.
THEOREM HistoryMigrates == HistorySpec => Spec
<1>1. HistoryInit => Init
  BY DEF HistoryInit
<1>2. [HistoryNext]_historyVars => [Next]_vars
  <2> SUFFICES ASSUME [HistoryNext]_historyVars PROVE [Next]_vars
    OBVIOUS
  <2>1. ASSUME NEW p \in Page, NEW write \in BOOLEAN, Access(p, write) PROVE [Next]_vars
    BY <2>1 DEF Access, Next
  <2>2. CASE HistoryRestart
    BY <2>2 DEF HistoryRestart, Next
  <2>3. CASE UNCHANGED historyVars
    BY <2>3 DEF historyVars
  <2> QED
    BY <2>1, <2>2, <2>3 DEF HistoryNext
<1> QED
  BY <1>1, <1>2, PTL DEF HistorySpec, Spec

\* No two pages live in one frame, whatever hooks there are.
THEOREM HookedOwnFrames == HookedSpec => []PagesHaveTheirOwnFrames
BY HookedMigratorMigrates, HistoryMigrates, OwnFrames

\* The victim frame's page is found, whatever hooks there are.
THEOREM HookedOccupantsFound == HookedSpec => []InvertedTableFindsTheOccupant
BY HookedMigratorMigrates, HistoryMigrates, OccupantsFound
-----------------------------------------------------------------------------
(* The hooks that a request meets.                                         *)

HIDE PageAssumption

\* A set of numbers that holds zero and, with a number, the next one.
LEMMA CountingUp ==
  ASSUME NEW n \in Nat, NEW T, 0 \in T, \A k \in 1 .. n : k - 1 \in T => k \in T
  PROVE  \A k \in 0 .. n : k \in T
<1> DEFINE R == OpToRel(<, Nat)
           rest == {k \in 0 .. n : k \notin T}
<1>1. IsWellFoundedOn(R, Nat)
  BY NatLessThanWellFounded
<1>2. \A x, y \in rest : <<y, x>> \in R <=> y < x
  BY DEF OpToRel
<1>3. rest \in SUBSET Nat
  OBVIOUS
<1> HIDE DEF R
<1>4. SUFFICES ASSUME rest # {}
               PROVE  FALSE
  OBVIOUS
<1>5. PICK x \in rest : \A y \in rest : ~ (<<y, x>> \in R)
  BY <1>1, <1>3, <1>4, WFMin
<1>6. x \in 1 .. n /\ x - 1 \in 0 .. n
  BY <1>5
<1>7. x - 1 \in rest
  BY <1>5, <1>6
<1>8. <<x - 1, x>> \in R
  BY <1>2, <1>6, <1>7
<1>9. QED
  BY <1>5, <1>7, <1>8

\* A function that is the base where the rank is zero, else made of the value before.
IsMadeOf(f, rank, before, base, step) ==
  \A x \in DOMAIN f : f[x] = IF rank[x] = 0 THEN base ELSE step[x][f[before[x]]]

\* A function whose value at a place is made from that at the place before it.
LEMMA RecursiveFunctions ==
  ASSUME NEW D, NEW V, NEW n \in Nat, NEW rank \in [D -> 0 .. n], NEW before \in [D -> D],
         NEW base \in V, NEW step \in [D -> [V -> V]],
         \A x \in D : rank[x] # 0 => rank[before[x]] = rank[x] - 1
  PROVE  \E f \in [D -> V] : IsMadeOf(f, rank, before, base, step)
<1> DEFINE Value(f, x) == IF rank[x] = 0 THEN base ELSE step[x][f[before[x]]]
           T == {k \in 0 .. n : \E f \in [D -> V] : \A x \in D : rank[x] <= k => f[x] = Value(f, x)}
<1>1. 0 \in T
  <2> DEFINE f == [x \in D |-> base]
  <2>1. f \in [D -> V] /\ \A x \in D : rank[x] <= 0 => f[x] = Value(f, x)
    OBVIOUS
  <2>2. QED
    BY <2>1
<1>2. ASSUME NEW k \in 1 .. n, k - 1 \in T
      PROVE  k \in T
  <2>1. PICK f \in [D -> V] : \A x \in D : rank[x] <= k - 1 => f[x] = Value(f, x)
    BY <1>2
  <2> DEFINE g == [x \in D |-> IF rank[x] <= k - 1 THEN f[x] ELSE Value(f, x)]
  <2>2. \A x \in D : Value(f, x) \in V
    OBVIOUS
  <2>3. g \in [D -> V]
    BY <2>2
  <2>4. \A x \in D : rank[x] <= k - 1 => g[x] = f[x]
    OBVIOUS
  <2>5. \A x \in D : g[x] = Value(f, x) \/ rank[x] > k - 1
    BY <2>1
  <2>6. \A x \in D : rank[x] > k - 1 => g[x] = Value(f, x)
    OBVIOUS
  <2>7. \A x \in D : g[x] = Value(f, x)
    BY <2>5, <2>6
  <2> HIDE DEF g
  <2>8. ASSUME NEW x \in D, rank[x] <= k
        PROVE  g[x] = Value(g, x)
    <3>1. rank[x] # 0 => g[before[x]] = f[before[x]]
      BY <2>4, <2>8
    <3>2. QED
      BY <2>7, <3>1
  <2>9. QED
    BY <2>3, <2>8
<1>3. n \in T
  <2> HIDE DEF T
  <2>1. \A k \in 0 .. n : k \in T
    BY <1>1, <1>2, CountingUp
  <2>2. QED
    BY <2>1
<1>4. PICK f \in [D -> V] : \A x \in D : rank[x] <= n => f[x] = Value(f, x)
  BY <1>3
<1>5. QED
  BY <1>4 DEF IsMadeOf

\* A list of the elements of a set, each of them once.
Lists(c, S) == c \in Seq(S) /\ IsInjective(c) /\ ToSet(c) = S

LEMMA ListsByIndex ==
  ASSUME NEW c, NEW S
  PROVE  Lists(c, S) <=>
           /\ c \in Seq(S)
           /\ \A i, j \in 1 .. Len(c) : c[i] = c[j] => i = j
           /\ \A x \in S : \E i \in 1 .. Len(c) : c[i] = x
<1>1. ASSUME c \in Seq(S)
      PROVE  /\ DOMAIN c = 1 .. Len(c) /\ \A i \in 1 .. Len(c) : c[i] \in S
             /\ ToSet(c) = {c[i] : i \in 1 .. Len(c)}
  BY <1>1, LenProperties, ElementOfSeq DEF ToSet
<1>2. ASSUME c \in Seq(S)
      PROVE  /\ IsInjective(c) <=> \A i, j \in 1 .. Len(c) : c[i] = c[j] => i = j
             /\ ToSet(c) = S <=> \A x \in S : \E i \in 1 .. Len(c) : c[i] = x
  <2> DEFINE n == Len(c)
  <2>1. DOMAIN c = 1 .. n /\ ToSet(c) = {c[i] : i \in 1 .. n} /\ \A i \in 1 .. n : c[i] \in S
    BY <1>1, <1>2
  <2> HIDE DEF n
  <2>2. QED
    <3>1. IsInjective(c) <=> \A i, j \in 1 .. n : c[i] = c[j] => i = j
      BY <2>1 DEF IsInjective
    <3>2. ToSet(c) = S <=> \A x \in S : \E i \in 1 .. n : c[i] = x
      BY <2>1
    <3>3. QED
      BY <3>1, <3>2 DEF n
<1>3. QED
  BY <1>2 DEF Lists

LEMMA ListOfNone == Lists(<<>>, {})
<1>1. <<>> \in Seq({}) /\ Len(<<>>) = 0
  BY EmptySeq
<1>2. \A i \in 1 .. Len(<<>>) : FALSE
  BY <1>1
<1>3. QED
  BY <1>1, <1>2, ListsByIndex

LEMMA ListsTogether ==
  ASSUME NEW A, NEW B, NEW a, NEW b, Lists(a, A), Lists(b, B), A \cap B = {}
  PROVE  Lists(a \o b, A \cup B)
<1> DEFINE c == a \o b
           U == A \cup B
<1>1. /\ a \in Seq(A) /\ b \in Seq(B)
      /\ \A i, j \in 1 .. Len(a) : a[i] = a[j] => i = j
      /\ \A i, j \in 1 .. Len(b) : b[i] = b[j] => i = j
      /\ \A x \in A : \E i \in 1 .. Len(a) : a[i] = x
      /\ \A x \in B : \E i \in 1 .. Len(b) : b[i] = x
  BY ListsByIndex
<1>2. /\ Len(a) \in Nat /\ Len(b) \in Nat
      /\ \A i \in 1 .. Len(a) : a[i] \in A
      /\ \A i \in 1 .. Len(b) : b[i] \in B
  BY <1>1, LenProperties, ElementOfSeq
<1>3. /\ c \in Seq(U) /\ Len(c) = Len(a) + Len(b)
      /\ \A i \in 1 .. Len(a) + Len(b) : c[i] = IF i <= Len(a) THEN a[i] ELSE b[i - Len(a)]
  <2>1. a \in Seq(U) /\ b \in Seq(U)
    BY <1>1, SeqMonotonic
  <2>2. QED
    BY <2>1, ConcatProperties
<1> HIDE DEF c, U
<1>4. \A i, j \in 1 .. Len(c) : c[i] = c[j] => i = j
  <2> SUFFICES ASSUME NEW i \in 1 .. Len(c), NEW j \in 1 .. Len(c), c[i] = c[j]
               PROVE  i = j
    OBVIOUS
  <2>1. /\ i <= Len(a) => i \in 1 .. Len(a)
        /\ j <= Len(a) => j \in 1 .. Len(a)
        /\ ~ i <= Len(a) => i - Len(a) \in 1 .. Len(b)
        /\ ~ j <= Len(a) => j - Len(a) \in 1 .. Len(b)
    BY <1>2, <1>3
  <2>2. i <= Len(a) <=> j <= Len(a)
    BY <1>2, <1>3, <2>1
  <2>3. CASE i <= Len(a)
    BY <1>1, <1>3, <2>1, <2>2, <2>3
  <2>4. CASE ~ i <= Len(a)
    <3>1. i - Len(a) = j - Len(a)
      BY <1>1, <1>3, <2>1, <2>2, <2>4
    <3>2. QED
      BY <1>2, <1>3, <3>1
  <2>5. QED
    BY <2>3, <2>4
<1>5. \A x \in U : \E i \in 1 .. Len(c) : c[i] = x
  <2>1. ASSUME NEW x \in A
        PROVE  \E i \in 1 .. Len(c) : c[i] = x
    <3>1. PICK i \in 1 .. Len(a) : a[i] = x
      BY <1>1
    <3>2. i \in 1 .. Len(a) + Len(b) /\ i <= Len(a)
      BY <1>2
    <3>3. QED
      BY <1>3, <3>1, <3>2
  <2>2. ASSUME NEW x \in B
        PROVE  \E i \in 1 .. Len(c) : c[i] = x
    <3>1. PICK i \in 1 .. Len(b) : b[i] = x
      BY <1>1
    <3>2. i + Len(a) \in 1 .. Len(a) + Len(b) /\ ~ i + Len(a) <= Len(a) /\ (i + Len(a)) - Len(a) = i
      BY <1>2
    <3>3. QED
      BY <1>3, <3>1, <3>2
  <2>3. QED
    BY <2>1, <2>2 DEF U
<1>6. Lists(c, U)
  BY <1>3, <1>4, <1>5, ListsByIndex
<1>7. QED
  BY <1>6 DEF c, U

LEMMA ListWithOneMore ==
  ASSUME NEW A, NEW a, NEW x, Lists(a, A), x \notin A
  PROVE  Lists(Append(a, x), A \cup {x})
<1>1. <<x>> \in Seq({x}) /\ Len(<<x>>) = 1 /\ <<x>>[1] = x
  OBVIOUS
<1>2. Lists(<<x>>, {x})
  <2> DEFINE c == <<x>>
  <2>1. c \in Seq({x}) /\ Len(c) = 1 /\ c[1] = x
    BY <1>1
  <2> HIDE DEF c
  <2>2. Lists(c, {x})
    <3>1. /\ \A i, j \in 1 .. Len(c) : c[i] = c[j] => i = j
          /\ \A y \in {x} : \E i \in 1 .. Len(c) : c[i] = y
      BY <2>1
    <3>2. QED
      BY <2>1, <3>1, ListsByIndex
  <2>3. QED
    BY <2>2 DEF c
<1>3. Append(a, x) = a \o <<x>>
  <2>1. a \in Seq(A \cup {x}) /\ x \in A \cup {x}
    BY SeqMonotonic DEF Lists
  <2>2. QED
    BY <2>1, AppendIsConcat
<1>4. QED
  BY <1>2, <1>3, ListsTogether

\* A part of what a list lists is found at as many places.
LEMMA PlacesOfAPart ==
  ASSUME NEW c, NEW S, Lists(c, S), NEW P \in SUBSET S, IsFiniteSet(P)
  PROVE  Cardinality({i \in DOMAIN c : c[i] \in P}) = Cardinality(P)
<1> DEFINE places == {i \in DOMAIN c : c[i] \in P}
           f == [i \in places |-> c[i]]
<1>1. DOMAIN c = 1 .. Len(c) /\ Len(c) \in Nat
  BY LenProperties DEF Lists
<1>2. IsFiniteSet(places)
  <2>1. IsFiniteSet(1 .. Len(c))
    BY <1>1, FS_Interval
  <2>2. QED
    BY <1>1, <2>1, FS_Subset
<1>3. f \in Bijection(places, P)
  <2>1. \A i, j \in places : c[i] = c[j] => i = j
    BY <1>1, ListsByIndex
  <2>2. \A x \in P : \E i \in places : c[i] = x
    BY <1>1, ListsByIndex
  <2> HIDE DEF places
  <2>3. f \in [places -> P]
    BY DEF places
  <2>4. \A x, y \in places : f[x] = f[y] => x = y
    BY <2>1
  <2>5. \A x \in P : \E i \in places : f[i] = x
    BY <2>2
  <2> HIDE DEF f
  <2>6. QED
    BY <2>3, <2>4, <2>5, Fun_IsBij
<1>4. QED
  BY <1>2, <1>3, FS_Bijection DEF ExistsBijection

Hook == ToSet(HookList)
HookLists == [Sides -> Seq(Hook)]
NoHooks == [side \in Sides |-> <<>>]

\* The lists of an object that has been given each of some hooks, once at least.
ListsOf(hooks, H) ==
  hooks \in HookLists /\ \A side \in Sides : Lists(hooks[side], {h \in H : side \in SidesOf(h)})

LEMMA HookAdded ==
  ASSUME NEW hooks \in HookLists, NEW h \in Hook
  PROVE  /\ AddHook(hooks, h) \in HookLists
         /\ \A H \in SUBSET Hook : ListsOf(hooks, H) => ListsOf(AddHook(hooks, h), H \cup {h})
<1>1. AddHook(hooks, h) \in HookLists
  BY AppendProperties DEF AddHook, AddHookUnique, HookLists
<1>2. ASSUME NEW H \in SUBSET Hook, ListsOf(hooks, H), NEW side \in Sides
      PROVE  Lists(AddHook(hooks, h)[side], {x \in H \cup {h} : side \in SidesOf(x)})
  <2> DEFINE old == {x \in H : side \in SidesOf(x)}
             new == {x \in H \cup {h} : side \in SidesOf(x)}
  <2>1. Lists(hooks[side], old) /\ ToSet(hooks[side]) = old
    BY <1>2 DEF ListsOf, Lists
  <2>2. AddHook(hooks, h)[side] =
          IF side \in SidesOf(h) THEN AddHookUnique(hooks[side], h) ELSE hooks[side]
    BY DEF AddHook
  <2>3. CASE side \in SidesOf(h) /\ h \notin old
    <3>1. AddHook(hooks, h)[side] = Append(hooks[side], h)
      BY <2>1, <2>2, <2>3 DEF AddHookUnique
    <3>2. new = old \cup {h}
      BY <2>3
    <3>3. QED
      BY <2>1, <2>3, <3>1, <3>2, ListWithOneMore
  <2>4. CASE ~ (side \in SidesOf(h) /\ h \notin old)
    <3>1. AddHook(hooks, h)[side] = hooks[side]
      BY <2>1, <2>2, <2>4 DEF AddHookUnique
    <3>2. new = old
      BY <2>4
    <3>3. QED
      BY <2>1, <3>1, <3>2
  <2>5. QED
    BY <2>3, <2>4
<1>3. QED
  BY <1>1, <1>2 DEF ListsOf

\* AddHooks adds one hook after the other.
LEMMA AddHooksUnfolds ==
  ASSUME NEW list \in Seq(Hook)
  PROVE  \E added \in [0 .. Len(list) -> HookLists] :
           /\ added[0] = NoHooks /\ AddHooks(list) = added[Len(list)]
           /\ \A i \in 1 .. Len(list) : added[i] = AddHook(added[i - 1], list[i])
<1> DEFINE n == Len(list)
           D == 0 .. n
           IsIt(f) == f = [i \in D |-> IF i = 0 THEN NoHooks ELSE AddHook(f[i - 1], list[i])]
           rank == [i \in D |-> i]
           before == [i \in D |-> IF i = 0 THEN 0 ELSE i - 1]
           step == [i \in D |-> [v \in HookLists |-> IF i = 0 THEN v ELSE AddHook(v, list[i])]]
<1>1. n \in Nat /\ \A i \in 1 .. n : list[i] \in Hook
  BY LenProperties, ElementOfSeq
<1>2. NoHooks \in HookLists
  BY EmptySeq DEF NoHooks, HookLists
<1>3. \A i \in D : i # 0 => i \in 1 .. n
  BY <1>1
<1>4. step \in [D -> [HookLists -> HookLists]]
  BY <1>1, <1>3, HookAdded
<1>5. rank \in [D -> 0 .. n] /\ before \in [D -> D]
      /\ \A i \in D : rank[i] # 0 => rank[before[i]] = rank[i] - 1
  BY <1>1
<1>6. PICK f \in [D -> HookLists] :
        \A i \in D : f[i] = IF rank[i] = 0 THEN NoHooks ELSE step[i][f[before[i]]]
  <2> HIDE DEF n, D, rank, before, step
  <2>1. /\ n \in Nat /\ rank \in [D -> 0 .. n] /\ before \in [D -> D]
        /\ \A i \in D : rank[i] # 0 => rank[before[i]] = rank[i] - 1
    BY <1>1, <1>5
  <2>2. PICK f \in [D -> HookLists] : IsMadeOf(f, rank, before, NoHooks, step)
    BY <1>2, <1>4, <2>1, RecursiveFunctions
  <2>3. QED
    BY <2>2 DEF IsMadeOf
<1>7. \A i \in D : f[i] = IF i = 0 THEN NoHooks ELSE AddHook(f[i - 1], list[i])
  <2> SUFFICES ASSUME NEW i \in D PROVE f[i] = IF i = 0 THEN NoHooks ELSE AddHook(f[i - 1], list[i])
    OBVIOUS
  <2>1. CASE i = 0
    BY <1>6, <2>1
  <2>2. CASE i # 0
    <3>1. i - 1 \in D /\ before[i] = i - 1 /\ rank[i] # 0
      BY <1>1, <2>2
    <3>2. f[i - 1] \in HookLists
      BY <3>1
    <3>3. f[i] = step[i][f[i - 1]]
      BY <1>6, <3>1
    <3>4. QED
      BY <2>2, <3>2, <3>3
  <2>3. QED
    BY <2>1, <2>2
<1>8. IsIt(f)
  <2>1. f = [i \in D |-> f[i]]
    OBVIOUS
  <2>2. QED
    BY <1>7, <2>1
<1> DEFINE g == CHOOSE f_1 : IsIt(f_1)
<1>9. IsIt(g)
  BY <1>8
<1>10. AddHooks(list) = g[n]
  BY DEF AddHooks, NoHooks
<1> HIDE DEF g
<1>11. g = f
  <2>1. \A i \in D : g[i] = IF i = 0 THEN NoHooks ELSE AddHook(g[i - 1], list[i])
    BY <1>9
  <2> DEFINE T == {k \in D : g[k] = f[k]}
  <2>2. 0 \in T
    BY <1>1, <1>7, <2>1
  <2>3. \A k \in 1 .. n : k - 1 \in T => k \in T
    BY <1>1, <1>7, <2>1
  <2>4. \A k \in 0 .. n : k \in T
    <3> HIDE DEF T
    <3>1. QED
      BY <1>1, <2>2, <2>3, CountingUp
  <2>5. g = [i \in D |-> g[i]]
    BY <1>9
  <2>6. QED
    BY <2>4, <2>5
<1>12. QED
  <2>1. \A i \in 1 .. n : i \in D /\ i # 0
    BY <1>1
  <2>2. \A i \in 1 .. n : f[i] = AddHook(f[i - 1], list[i])
    BY <1>7, <2>1
  <2>3. f[0] = NoHooks
    BY <1>1, <1>7
  <2>4. QED
    BY <1>10, <1>11, <2>2, <2>3

LEMMA HooksAdded ==
  ASSUME NEW list \in Seq(Hook)
  PROVE  ListsOf(AddHooks(list), ToSet(list))
<1> DEFINE n == Len(list)
           H(k) == {list[i] : i \in 1 .. k}
<1>1. n \in Nat /\ \A i \in 1 .. n : list[i] \in Hook
  BY LenProperties, ElementOfSeq
<1>2. PICK added \in [0 .. n -> HookLists] :
           /\ added[0] = NoHooks /\ AddHooks(list) = added[n]
           /\ \A i \in 1 .. n : added[i] = AddHook(added[i - 1], list[i])
  BY AddHooksUnfolds
<1> DEFINE T == {k \in 0 .. n : ListsOf(added[k], H(k))}
<1>3. 0 \in T
  <2>1. H(0) = {}
    OBVIOUS
  <2>2. ListsOf(NoHooks, {})
    BY ListOfNone, EmptySeq DEF ListsOf, NoHooks, HookLists
  <2>3. QED
    BY <1>1, <1>2, <2>1, <2>2
<1>4. ASSUME NEW k \in 1 .. n, k - 1 \in T
      PROVE  k \in T
  <2>1. k - 1 \in 0 .. n /\ k \in 0 .. n /\ added[k - 1] \in HookLists /\ H(k - 1) \in SUBSET Hook
    BY <1>1, <1>2
  <2>2. ListsOf(added[k - 1], H(k - 1))
    BY <1>4
  <2>3. H(k) = H(k - 1) \cup {list[k]}
    <3>1. 1 .. k = (1 .. k - 1) \cup {k}
      BY <1>1
    <3>2. QED
      BY <3>1
  <2> HIDE DEF H
  <2>4. ListsOf(added[k], H(k))
    BY <1>1, <1>2, <2>1, <2>2, <2>3, HookAdded
  <2>5. QED
    BY <2>1, <2>4
<1>5. n \in T
  <2> HIDE DEF T
  <2>1. \A k \in 0 .. n : k \in T
    BY <1>1, <1>3, <1>4, CountingUp
  <2>2. QED
    BY <1>1, <2>1
<1>6. ToSet(list) = H(n)
  BY LenProperties DEF ToSet
<1>7. QED
  BY <1>2, <1>5, <1>6

LEMMA HookListTyped == HookList \in Seq(Hook)
<1>1. HookList \in Seq(STRING) /\ Range(HookList) = Hook
  BY HookedAssumption DEF Hook, ToSet, Range
<1>2. QED
  BY <1>1, SeqOfRange

\* A child gets every hook of its parent, once on each of its sides.
LEMMA HooksCopied ==
  ASSUME NEW hooks \in HookLists
  PROVE  /\ CopiedHooks(hooks) \in HookLists
         /\ ListsOf(hooks, Hook) => ListsOf(CopiedHooks(hooks), Hook)
<1> DEFINE pre == hooks["PREISSUE"]
           post == hooks["POSTISSUE"]
<1>1. Sides = {"PREISSUE", "POSTISSUE"}
  BY DEF Sides
<1>2. pre \in Seq(Hook) /\ post \in Seq(Hook)
  BY <1>1 DEF HookLists
<1>3. pre \o post \in Seq(Hook)
  BY <1>2, ConcatProperties
<1>4. CopiedHooks(hooks) \in HookLists
  BY <1>3, HooksAdded DEF CopiedHooks, ListsOf
<1>5. ASSUME ListsOf(hooks, Hook)
      PROVE  ListsOf(CopiedHooks(hooks), Hook)
  <2>1. /\ Lists(pre, {h \in Hook : "PREISSUE" \in SidesOf(h)})
        /\ Lists(post, {h \in Hook : "POSTISSUE" \in SidesOf(h)})
    BY <1>1, <1>5 DEF ListsOf
  <2>2. ToSet(pre) = {h \in Hook : "PREISSUE" \in SidesOf(h)} /\ ToSet(post) = {h \in Hook : "POSTISSUE" \in SidesOf(h)}
    BY <2>1 DEF Lists
  <2>3. ToSet(pre \o post) = ToSet(pre) \cup ToSet(post)
    <3>1. Range(pre \o post) = Range(pre) \cup Range(post)
      BY <1>2, RangeConcatenation
    <3>2. QED
      BY <3>1 DEF Range, ToSet
  <2>4. \A h \in Hook : SidesOf(h) # {} /\ SidesOf(h) \in SUBSET {"PREISSUE", "POSTISSUE"}
    BY <1>1, NVMObjectAssumption DEF Hook, ToSet, SidesOf
  <2>5. ToSet(pre \o post) = Hook
    BY <2>2, <2>3, <2>4
  <2>6. QED
    BY <1>3, <2>5, HooksAdded DEF CopiedHooks
<1>6. QED
  BY <1>4, <1>5

\* Every layer knows all hooks, whatever was copied on the way to it.
LEMMA HooksOfLayers ==
  \A layer \in 1 .. Len(Layers) : ListsOf(GetHooks[layer], Hook)
<1> DEFINE n == Len(Layers)
           D == 1 .. n
           Value(f, layer) == IF layer = 1 THEN AddHooks(HookList) ELSE CopiedHooks(f[layer - 1])
           IsIt(f) == f = [layer \in D |-> Value(f, layer)]
           rank == [layer \in D |-> layer - 1]
           before == [layer \in D |-> IF layer = 1 THEN 1 ELSE layer - 1]
           step == [layer \in D |-> [v \in HookLists |-> CopiedHooks(v)]]
<1>1. n \in Nat /\ n > 2
  BY HookedAssumption, NVMObjectAssumption, LenProperties
<1>2. ListsOf(AddHooks(HookList), Hook) /\ AddHooks(HookList) \in HookLists
  BY HookListTyped, HooksAdded DEF Hook, ListsOf
<1>3. step \in [D -> [HookLists -> HookLists]]
  BY HooksCopied
<1>4. /\ n - 1 \in Nat /\ rank \in [D -> 0 .. n - 1] /\ before \in [D -> D]
      /\ \A i \in D : rank[i] # 0 => rank[before[i]] = rank[i] - 1
  BY <1>1
<1>5. PICK f \in [D -> HookLists] : \A i \in D : f[i] = Value(f, i)
  <2>1. PICK f \in [D -> HookLists] : IsMadeOf(f, rank, before, AddHooks(HookList), step)
    <3> HIDE DEF n, D, rank, before, step
    <3>1. QED
      BY <1>2, <1>3, <1>4, RecursiveFunctions
  <2>2. ASSUME NEW i \in D
        PROVE  f[i] = Value(f, i)
    <3>1. f[i] = IF rank[i] = 0 THEN AddHooks(HookList) ELSE step[i][f[before[i]]]
      BY <2>1 DEF IsMadeOf
    <3>2. CASE i = 1
      BY <3>1, <3>2
    <3>3. CASE i # 1
      <4>1. before[i] = i - 1 /\ i - 1 \in D /\ rank[i] # 0
        BY <1>1, <3>3
      <4>2. f[i - 1] \in HookLists
        BY <4>1
      <4>3. QED
        BY <3>1, <3>3, <4>1, <4>2
    <3>4. QED
      BY <3>2, <3>3
  <2>3. QED
    BY <2>2
<1>6. IsIt(f)
  <2>1. f = [i \in D |-> f[i]]
    OBVIOUS
  <2>2. QED
    BY <1>5, <2>1
<1>7. GetHooks = CHOOSE g : IsIt(g)
  BY DEF GetHooks
<1>8. IsIt(GetHooks)
  BY <1>6, <1>7
<1>9. \A i \in D : GetHooks[i] = Value(GetHooks, i)
  BY <1>8
<1> DEFINE T == {k \in 0 .. n : k = 0 \/ ListsOf(GetHooks[k], Hook)}
<1>10. 0 \in T
  BY <1>1
<1>11. ASSUME NEW k \in 1 .. n, k - 1 \in T
       PROVE  k \in T
  <2>1. CASE k = 1
    BY <1>1, <1>2, <1>9, <2>1
  <2>2. CASE k # 1
    <3>1. ListsOf(GetHooks[k - 1], Hook)
      BY <1>1, <1>11, <2>2
    <3>2. GetHooks[k] = CopiedHooks(GetHooks[k - 1])
      BY <1>1, <1>9, <2>2
    <3>3. ListsOf(GetHooks[k], Hook)
      BY <3>1, <3>2, HooksCopied DEF ListsOf
    <3>4. QED
      BY <1>1, <3>3
  <2>3. QED
    BY <2>1, <2>2
<1>12. \A k \in 0 .. n : k \in T
  <2> HIDE DEF T
  <2>1. QED
    BY <1>1, <1>10, <1>11, CountingUp
<1>13. QED
  BY <1>1, <1>12

Call == [event : {"issue", "complete"}, layer : STRING, side : Sides, hook : Hook]

\* The calls due on some layers: each hook on each of its sides.
CallsOf(event, layers) ==
  {c \in Call : /\ c.event = event /\ c.side \in SidesOf(c.hook)
                /\ \E layer \in layers : c.layer = Layers[layer]}
CallsOfSide(event, layer, side) == {c \in CallsOf(event, {layer}) : c.side = side}

LEMMA LayersTyped ==
  /\ Len(Layers) \in Nat /\ Len(Layers) > 2
  /\ \A i \in 1 .. Len(Layers) : Layers[i] \in STRING
  /\ \A i, j \in 1 .. Len(Layers) : Layers[i] = Layers[j] => i = j
<1>1. Layers \in Seq(STRING) /\ IsInjective(Layers)
  BY HookedAssumption
<1>2. DOMAIN Layers = 1 .. Len(Layers)
  BY <1>1, LenProperties
<1>3. QED
  BY <1>1, <1>2, LenProperties, ElementOfSeq, NVMObjectAssumption DEF IsInjective

LEMMA HookCallsListed ==
  ASSUME NEW event \in {"issue", "complete"}, NEW layer \in 1 .. Len(Layers), NEW side \in Sides
  PROVE  Lists(HookCalls(event, layer, side), CallsOfSide(event, layer, side))
<1> DEFINE hooks == GetHooks[layer][side]
           S == CallsOfSide(event, layer, side)
           n == Len(hooks)
           c == HookCalls(event, layer, side)
<1>1. Lists(hooks, {h \in Hook : side \in SidesOf(h)})
  BY HooksOfLayers DEF ListsOf
<1>2. /\ n \in Nat /\ DOMAIN hooks = 1 .. n
      /\ \A i \in 1 .. n : hooks[i] \in Hook /\ side \in SidesOf(hooks[i])
      /\ \A i, j \in 1 .. n : hooks[i] = hooks[j] => i = j
      /\ \A h \in Hook : side \in SidesOf(h) => \E i \in 1 .. n : hooks[i] = h
  <2>1. hooks \in Seq({h \in Hook : side \in SidesOf(h)})
    BY <1>1 DEF Lists
  <2>2. \A i \in 1 .. n : hooks[i] \in {h \in Hook : side \in SidesOf(h)}
    BY <2>1, ElementOfSeq
  <2>3. QED
    BY <1>1, <2>1, <2>2, ListsByIndex, LenProperties
<1>3. c = [i \in 1 .. n |-> [event |-> event, layer |-> Layers[layer], side |-> side, hook |-> hooks[i]]]
  BY <1>2 DEF HookCalls
<1>4. \A i \in 1 .. n : c[i] \in S /\ c[i].hook = hooks[i]
  BY <1>2, <1>3, LayersTyped DEF CallsOfSide, CallsOf, Call
<1>5. c \in [1 .. n -> S]
  BY <1>3, <1>4
<1>6. \A x \in S : \E i \in 1 .. n : c[i] = x
  <2> SUFFICES ASSUME NEW x \in S
               PROVE  \E i \in 1 .. n : c[i] = x
    OBVIOUS
  <2>1. x = [event |-> event, layer |-> Layers[layer], side |-> side, hook |-> x.hook]
        /\ x.hook \in Hook /\ side \in SidesOf(x.hook)
    BY DEF CallsOfSide, CallsOf, Call
  <2>2. PICK i \in 1 .. n : hooks[i] = x.hook
    BY <1>2, <2>1
  <2>3. QED
    BY <1>3, <2>1, <2>2
<1> HIDE DEF S, n, c
<1>7. c \in Seq(S) /\ Len(c) = n
  BY <1>2, <1>5, LenProperties
<1>8. \A i, j \in 1 .. Len(c) : c[i] = c[j] => i = j
  BY <1>2, <1>4, <1>7
<1>9. Lists(c, S)
  BY <1>6, <1>7, <1>8, ListsByIndex
<1>10. QED
  BY <1>9 DEF c, S

\* What a layer calls before and after what it calls in turn.
LEMMA AroundListed ==
  ASSUME NEW event \in {"issue", "complete"}, NEW layer \in 1 .. Len(Layers),
         NEW layers \in SUBSET (1 .. Len(Layers)), layer \notin layers,
         NEW c, Lists(c, CallsOf(event, layers))
  PROVE  /\ Lists(HookCalls(event, layer, "PREISSUE") \o c \o HookCalls(event, layer, "POSTISSUE"),
                  CallsOf(event, layers \cup {layer}))
         /\ Lists(HookCalls(event, layer, "PREISSUE") \o HookCalls(event, layer, "POSTISSUE") \o c,
                  CallsOf(event, layers \cup {layer}))
<1> DEFINE pre == HookCalls(event, layer, "PREISSUE")
           post == HookCalls(event, layer, "POSTISSUE")
           P == CallsOfSide(event, layer, "PREISSUE")
           Q == CallsOfSide(event, layer, "POSTISSUE")
           C == CallsOf(event, layers)
<1>1. Lists(pre, P) /\ Lists(post, Q)
  BY HookCallsListed DEF Sides
<1>2. P \cap Q = {}
  BY DEF CallsOfSide
<1>3. P \cap C = {} /\ Q \cap C = {}
  BY LayersTyped DEF CallsOfSide, CallsOf
<1>4. CallsOf(event, layers \cup {layer}) = (P \cup C) \cup Q
  <2>1. CallsOf(event, {layer}) = P \cup Q
    BY DEF CallsOf, CallsOfSide, Call, Sides
  <2>2. CallsOf(event, layers \cup {layer}) = CallsOf(event, layers) \cup CallsOf(event, {layer})
    BY DEF CallsOf
  <2>3. QED
    BY <2>1, <2>2
<1> HIDE DEF pre, post, P, Q, C
<1>5. Lists(pre \o c, P \cup C)
  BY <1>1, <1>3, ListsTogether DEF C
<1>6. Lists((pre \o c) \o post, (P \cup C) \cup Q)
  BY <1>1, <1>2, <1>3, <1>5, ListsTogether
<1>7. Lists(pre \o post, P \cup Q)
  BY <1>1, <1>2, ListsTogether
<1>8. Lists((pre \o post) \o c, (P \cup Q) \cup C)
  BY <1>3, <1>7, ListsTogether DEF C
<1>9. (P \cup Q) \cup C = (P \cup C) \cup Q
  OBVIOUS
<1>10. QED
  BY <1>4, <1>6, <1>8, <1>9 DEF pre, post

LEMMA HookCallsTyped ==
  ASSUME NEW event \in {"issue", "complete"}, NEW layer \in 1 .. Len(Layers), NEW side \in Sides
  PROVE  HookCalls(event, layer, side) \in Seq(Call)
<1>1. HookCalls(event, layer, side) \in Seq(CallsOfSide(event, layer, side))
  BY HookCallsListed DEF Lists
<1>2. CallsOfSide(event, layer, side) \subseteq Call
  BY DEF CallsOfSide, CallsOf
<1>3. QED
  BY <1>1, <1>2, SeqMonotonic

\* Nobody is called on no layer.
LEMMA NoneCalled == \A event : Lists(<<>>, CallsOf(event, {}))
<1>1. \A event : CallsOf(event, {}) = {}
  BY DEF CallsOf
<1>2. QED
  BY <1>1, ListOfNone

LEMMA IssueCommandListed ==
  ASSUME NEW last \in 1 .. Len(Layers), NEW first \in 1 .. last
  PROVE  Lists(IssueCommandCalls(first, last), CallsOf("issue", first .. last))
<1> DEFINE n == last + 1 - first
           D == first .. last + 1
           Around(layer, c) ==
             HookCalls("issue", layer, "PREISSUE") \o c \o HookCalls("issue", layer, "POSTISSUE")
           Value(f, layer) == IF layer > last THEN <<>> ELSE Around(layer, f[layer + 1])
           IsIt(f) == f = [layer \in D |-> Value(f, layer)]
           rank == [layer \in D |-> last + 1 - layer]
           before == [layer \in D |-> IF layer > last THEN layer ELSE layer + 1]
           step == [layer \in D |-> [v \in Seq(Call) |-> IF layer > last THEN v ELSE Around(layer, v)]]
<1>1. Len(Layers) \in Nat /\ last \in Nat /\ first \in Nat /\ n \in Nat /\ first \in D
  BY LayersTyped
<1>2. \A layer \in D : layer > last \/ layer \in 1 .. Len(Layers)
  BY <1>1
<1>3. step \in [D -> [Seq(Call) -> Seq(Call)]]
  <2>1. ASSUME NEW layer \in 1 .. Len(Layers), NEW v \in Seq(Call)
        PROVE  Around(layer, v) \in Seq(Call)
    <3>1. /\ HookCalls("issue", layer, "PREISSUE") \in Seq(Call)
          /\ HookCalls("issue", layer, "POSTISSUE") \in Seq(Call)
      BY HookCallsTyped DEF Sides
    <3>2. QED
      BY <3>1, ConcatProperties
  <2>2. QED
    BY <1>2, <2>1
<1>4. /\ rank \in [D -> 0 .. n] /\ before \in [D -> D]
      /\ \A i \in D : rank[i] # 0 => rank[before[i]] = rank[i] - 1
  BY <1>1
<1>5. PICK f \in [D -> Seq(Call)] : \A i \in D : f[i] = Value(f, i)
  <2>1. PICK f \in [D -> Seq(Call)] : IsMadeOf(f, rank, before, <<>>, step)
    <3>1. <<>> \in Seq(Call)
      BY EmptySeq
    <3> HIDE DEF n, D, rank, before, step
    <3>2. QED
      BY <1>1, <1>3, <1>4, <3>1, RecursiveFunctions
  <2>2. ASSUME NEW i \in D
        PROVE  f[i] = Value(f, i)
    <3>1. f[i] = IF rank[i] = 0 THEN <<>> ELSE step[i][f[before[i]]]
      BY <2>1 DEF IsMadeOf
    <3>2. CASE i > last
      <4>1. rank[i] = 0
        BY <1>1, <3>2
      <4>2. QED
        BY <3>1, <3>2, <4>1
    <3>3. CASE ~ i > last
      <4>1. before[i] = i + 1 /\ i + 1 \in D /\ rank[i] # 0
        BY <1>1, <3>3
      <4>2. f[i + 1] \in Seq(Call)
        BY <4>1
      <4>3. f[i] = step[i][f[i + 1]]
        BY <3>1, <4>1
      <4>4. step[i][f[i + 1]] = Around(i, f[i + 1])
        BY <3>3, <4>2
      <4>5. QED
        BY <3>3, <4>3, <4>4
    <3>4. QED
      BY <3>2, <3>3
  <2>3. QED
    BY <2>2
<1>6. IsIt(f)
  <2>1. f = [i \in D |-> f[i]]
    OBVIOUS
  <2>2. QED
    BY <1>5, <2>1
<1> DEFINE g == CHOOSE f_1 : IsIt(f_1)
<1>7. IsIt(g)
  BY <1>6
<1>8. IssueCommandCalls(first, last) = g[first]
  BY DEF IssueCommandCalls
<1> HIDE DEF g
<1>9. \A i \in D : g[i] = Value(g, i)
  BY <1>7
<1> DEFINE T == {k \in 0 .. n : Lists(g[last + 1 - k], CallsOf("issue", last + 1 - k .. last))}
<1>10. 0 \in T
  <2>1. last + 1 - 0 = last + 1 /\ last + 1 .. last = {} /\ last + 1 \in D /\ last + 1 > last
    BY <1>1
  <2>2. g[last + 1] = <<>>
    BY <1>9, <2>1
  <2>3. QED
    BY <1>1, <2>1, <2>2, NoneCalled
<1>11. ASSUME NEW k \in 1 .. n, k - 1 \in T
       PROVE  k \in T
  <2> DEFINE layer == last + 1 - k
             below == layer + 1 .. last
  <2>1. /\ layer \in D /\ layer \in 1 .. Len(Layers) /\ ~ layer > last
        /\ last + 1 - (k - 1) = layer + 1
        /\ below \in SUBSET (1 .. Len(Layers)) /\ layer \notin below
        /\ layer .. last = below \cup {layer}
    <3>1. k \in Nat /\ k >= 1 /\ k <= n
      BY <1>1
    <3>2. layer \in D /\ ~ layer > last /\ layer \in Int /\ layer >= 1
      BY <1>1, <3>1
    <3>3. last + 1 - (k - 1) = layer + 1
      BY <1>1, <3>1
    <3> HIDE DEF layer
    <3>4. layer \in 1 .. Len(Layers) /\ below \in SUBSET (1 .. Len(Layers))
      BY <1>1, <3>2
    <3>5. layer \notin below /\ layer .. last = below \cup {layer}
      BY <1>1, <3>2
    <3>6. QED
      BY <3>2, <3>3, <3>4, <3>5
  <2>2. Lists(g[layer + 1], CallsOf("issue", below))
    BY <1>11, <2>1
  <2>3. g[layer] = Around(layer, g[layer + 1])
    BY <1>9, <2>1
  <2> HIDE DEF layer, below
  <2>4. Lists(g[layer], CallsOf("issue", below \cup {layer}))
    BY <2>1, <2>2, <2>3, AroundListed
  <2>5. Lists(g[layer], CallsOf("issue", layer .. last))
    BY <2>1, <2>4
  <2>6. k \in 0 .. n
    BY <1>1
  <2>7. QED
    BY <2>5, <2>6 DEF layer
<1>12. n \in T
  <2> HIDE DEF T, n
  <2>1. \A k \in 0 .. n : k \in T
    BY <1>1, <1>10, <1>11, CountingUp
  <2>2. QED
    BY <1>1, <2>1
<1>13. last + 1 - n = first
  BY <1>1
<1>14. QED
  BY <1>8, <1>12, <1>13

LEMMA CompletionListed ==
  ASSUME NEW first \in 1 .. Len(Layers)
  PROVE  Lists(RequestCompleteCalls(first), CallsOf("complete", 1 .. first))
<1> DEFINE D == 0 .. first
           Value(f, layer) == IF layer = 0 THEN <<>> ELSE CompletionCalls(layer) \o f[layer - 1]
           IsIt(f) == f = [layer \in D |-> Value(f, layer)]
           rank == [layer \in D |-> layer]
           before == [layer \in D |-> IF layer = 0 THEN layer ELSE layer - 1]
           step == [layer \in D |-> [v \in Seq(Call) |-> IF layer = 0 THEN v ELSE CompletionCalls(layer) \o v]]
<1>1. Len(Layers) \in Nat /\ first \in Nat
  BY LayersTyped
<1>2. \A layer \in D : layer = 0 \/ layer \in 1 .. Len(Layers)
  BY <1>1
<1>3. step \in [D -> [Seq(Call) -> Seq(Call)]]
  <2>1. ASSUME NEW layer \in 1 .. Len(Layers), NEW v \in Seq(Call)
        PROVE  CompletionCalls(layer) \o v \in Seq(Call)
    <3>1. /\ HookCalls("complete", layer, "PREISSUE") \in Seq(Call)
          /\ HookCalls("complete", layer, "POSTISSUE") \in Seq(Call)
      BY HookCallsTyped DEF Sides
    <3>2. QED
      BY <3>1, ConcatProperties DEF CompletionCalls
  <2>2. QED
    BY <1>2, <2>1
<1>4. /\ rank \in [D -> 0 .. first] /\ before \in [D -> D]
      /\ \A i \in D : rank[i] # 0 => rank[before[i]] = rank[i] - 1
  BY <1>1
<1>5. PICK f \in [D -> Seq(Call)] : \A i \in D : f[i] = Value(f, i)
  <2>1. PICK f \in [D -> Seq(Call)] : IsMadeOf(f, rank, before, <<>>, step)
    <3>1. <<>> \in Seq(Call)
      BY EmptySeq
    <3> HIDE DEF D, rank, before, step
    <3>2. QED
      BY <1>1, <1>3, <1>4, <3>1, RecursiveFunctions
  <2>2. ASSUME NEW i \in D
        PROVE  f[i] = Value(f, i)
    <3>1. f[i] = IF rank[i] = 0 THEN <<>> ELSE step[i][f[before[i]]]
      BY <2>1 DEF IsMadeOf
    <3>2. CASE i = 0
      BY <3>1, <3>2
    <3>3. CASE i # 0
      <4>1. before[i] = i - 1 /\ i - 1 \in D /\ rank[i] # 0
        BY <1>1, <3>3
      <4>2. f[i - 1] \in Seq(Call)
        BY <4>1
      <4>3. f[i] = step[i][f[i - 1]]
        BY <3>1, <4>1
      <4>4. step[i][f[i - 1]] = CompletionCalls(i) \o f[i - 1]
        BY <3>3, <4>2
      <4>5. QED
        BY <3>3, <4>3, <4>4
    <3>4. QED
      BY <3>2, <3>3
  <2>3. QED
    BY <2>2
<1>6. IsIt(f)
  <2>1. f = [i \in D |-> f[i]]
    OBVIOUS
  <2>2. QED
    BY <1>5, <2>1
<1> DEFINE g == CHOOSE f_1 : IsIt(f_1)
<1>7. IsIt(g)
  BY <1>6
<1>8. RequestCompleteCalls(first) = g[first]
  BY DEF RequestCompleteCalls
<1> HIDE DEF g
<1>9. \A i \in D : g[i] = Value(g, i)
  BY <1>7
<1> DEFINE T == {k \in D : Lists(g[k], CallsOf("complete", 1 .. k))}
<1>10. 0 \in T
  <2>1. 1 .. 0 = {} /\ g[0] = <<>> /\ 0 \in D
    BY <1>1, <1>9
  <2>2. QED
    BY <2>1, NoneCalled
<1>11. ASSUME NEW k \in 1 .. first, k - 1 \in T
       PROVE  k \in T
  <2> DEFINE above == 1 .. k - 1
  <2>1. /\ k \in D /\ k # 0 /\ k \in 1 .. Len(Layers) /\ 1 .. k = above \cup {k}
        /\ above \in SUBSET (1 .. Len(Layers)) /\ k \notin above
    <3>1. k \in Nat /\ k >= 1 /\ k <= first
      BY <1>1
    <3>2. 1 .. k = above \cup {k} /\ k \notin above
      BY <3>1
    <3>3. k \in 1 .. Len(Layers) /\ above \in SUBSET (1 .. Len(Layers))
      BY <1>1, <3>1
    <3>4. QED
      BY <1>1, <3>1, <3>2, <3>3
  <2>2. Lists(g[k - 1], CallsOf("complete", above))
    BY <1>11
  <2>3. g[k] = CompletionCalls(k) \o g[k - 1]
    BY <1>9, <2>1
  <2> HIDE DEF above
  <2>4. Lists(g[k], CallsOf("complete", above \cup {k}))
    <3> DEFINE c == g[k - 1]
               event == "complete"
    <3>1. g[k] = (HookCalls(event, k, "PREISSUE") \o HookCalls(event, k, "POSTISSUE")) \o c
      BY <2>3 DEF CompletionCalls
    <3>2. Lists(c, CallsOf(event, above)) /\ event \in {"issue", "complete"}
      BY <2>2
    <3> HIDE DEF c, event
    <3>3. Lists(HookCalls(event, k, "PREISSUE") \o HookCalls(event, k, "POSTISSUE") \o c,
                CallsOf(event, above \cup {k}))
      BY <2>1, <3>2, AroundListed, Zenon
    <3>4. QED
      BY <3>1, <3>3 DEF event
  <2>5. QED
    BY <2>1, <2>4
<1>12. first \in T
  <2> HIDE DEF T
  <2>1. \A k \in 0 .. first : k \in T
    BY <1>1, <1>10, <1>11, CountingUp
  <2>2. QED
    BY <1>1, <2>1
<1>13. QED
  BY <1>8, <1>12

\* How often a kind of call is made.
LEMMA TimesCalled ==
  ASSUME NEW c, NEW S, Lists(c, S), NEW P \in SUBSET S, IsFiniteSet(P),
         NEW places, places = {i \in DOMAIN c : c[i] \in P}
  PROVE  Cardinality(places) = Cardinality(P)
BY PlacesOfAPart

LEMMA ListedCallsTyped ==
  ASSUME NEW c, NEW S, Lists(c, S)
  PROVE  \A i \in DOMAIN c : c[i] \in S
BY DEF Lists, ToSet

LEMMA SidesAreFinite == \A h : IsFiniteSet(SidesOf(h)) /\ SidesOf(h) \in SUBSET Sides
<1>1. IsFiniteSet({"PREISSUE", "POSTISSUE"})
  <2>1. {"PREISSUE", "POSTISSUE"} = {"PREISSUE"} \cup {"POSTISSUE"}
    OBVIOUS
  <2>2. IsFiniteSet({"PREISSUE"})
    BY FS_Singleton
  <2>3. QED
    BY <2>1, <2>2, FS_AddElement
<1>2. \A h : SidesOf(h) \in SUBSET {"PREISSUE", "POSTISSUE"}
  BY DEF SidesOf, Sides
<1>3. QED
  BY <1>1, <1>2, FS_Subset DEF Sides

LEMMA HookMetOnce ==
  ASSUME NEW event \in {"issue", "complete"}, NEW layers \in SUBSET (1 .. Len(Layers)),
         NEW c, Lists(c, CallsOf(event, layers)), NEW h \in Hook, NEW l \in 1 .. Len(Layers)
  PROVE  Cardinality({i \in DOMAIN c : c[i].hook = h /\ c[i].layer = Layers[l]}) =
           IF l \in layers THEN Cardinality(SidesOf(h)) ELSE 0
<1> DEFINE S == CallsOf(event, layers)
           P == {x \in S : x.hook = h /\ x.layer = Layers[l]}
           places == {i \in DOMAIN c : c[i].hook = h /\ c[i].layer = Layers[l]}
           call(side) == [event |-> event, layer |-> Layers[l], side |-> side, hook |-> h]
<1>1. places = {i \in DOMAIN c : c[i] \in P} /\ P \in SUBSET S
  BY ListedCallsTyped
<1>2. CASE l \in layers
  <2> DEFINE f == [side \in SidesOf(h) |-> call(side)]
  <2>1. \A side \in SidesOf(h) : call(side) \in P
    BY <1>2, LayersTyped, SidesAreFinite DEF CallsOf, Call
  <2>2. \A x \in P : x.side \in SidesOf(h) /\ x = call(x.side)
    BY DEF CallsOf, Call
  <2> HIDE DEF P
  <2>3. f \in [SidesOf(h) -> P]
    BY <2>1
  <2>4. \A a, b \in SidesOf(h) : f[a] = f[b] => a = b
    OBVIOUS
  <2>5. \A x \in P : \E a \in SidesOf(h) : f[a] = x
    BY <2>2
  <2> HIDE DEF f
  <2>6. f \in Bijection(SidesOf(h), P)
    BY <2>3, <2>4, <2>5, Fun_IsBij
  <2>7. IsFiniteSet(P) /\ Cardinality(P) = Cardinality(SidesOf(h))
    BY <2>6, SidesAreFinite, FS_Bijection DEF ExistsBijection
  <2> HIDE DEF places, S
  <2>8. Cardinality(places) = Cardinality(P)
    BY <1>1, <2>7, TimesCalled DEF S
  <2>9. QED
    BY <1>2, <2>7, <2>8 DEF places
<1>3. CASE l \notin layers
  <2>1. P = {}
    BY <1>3, LayersTyped DEF CallsOf, Call
  <2>2. places = {}
    BY <1>1, <2>1
  <2>3. QED
    BY <1>3, <2>2, FS_EmptySet
<1>4. QED
  BY <1>2, <1>3

LEMMA OneCall ==
  ASSUME NEW c, NEW S, Lists(c, S), NEW x \in S,
         NEW places, places = {i \in DOMAIN c : c[i] = x}
  PROVE  Cardinality(places) = 1
<1>1. places = {i \in DOMAIN c : c[i] \in {x}}
  OBVIOUS
<1>2. IsFiniteSet({x}) /\ Cardinality({x}) = 1
  BY FS_Singleton
<1>3. {x} \in SUBSET S
  OBVIOUS
<1>4. QED
  BY <1>1, <1>2, <1>3, TimesCalled

\* The migrator counts a command when NVMain returns from it.
LEMMA TrainedOnce ==
  ASSUME NEW event \in {"issue", "complete"}, NEW layers \in SUBSET (1 .. Len(Layers)),
         NEW c, Lists(c, CallsOf(event, layers))
  PROVE  Cardinality({i \in DOMAIN c : Trains(c[i])}) = IF event = "issue" /\ 2 \in layers THEN 1 ELSE 0
<1> DEFINE S == CallsOf(event, layers)
           places == {i \in DOMAIN c : Trains(c[i])}
           x == [event |-> "issue", layer |-> "NVMain", side |-> "POSTISSUE", hook |-> "CoinMigrator"]
<1>1. Layers[2] = "NVMain" /\ 2 \in 1 .. Len(Layers)
  BY HookedAssumption, LayersTyped
<1>2. "CoinMigrator" \in Hook /\ SidesOf("CoinMigrator") = Sides
  BY HookedAssumption DEF Hook, SidesOf
<1>3. \A y \in S : Trains(y) <=> y = x
  BY DEF CallsOf, Call, Trains
<1>4. places = {i \in DOMAIN c : c[i] = x}
  <2>1. \A i \in DOMAIN c : c[i] \in S
    BY ListedCallsTyped
  <2> HIDE DEF x, S
  <2>2. QED
    BY <1>3, <2>1
<1>5. CASE event = "issue" /\ 2 \in layers
  <2>1. x \in S
    BY <1>1, <1>2, <1>5, LayersTyped DEF CallsOf, Call, Sides
  <2> HIDE DEF places, x
  <2>2. Cardinality(places) = 1
    BY <1>4, <2>1, OneCall
  <2>3. QED
    BY <1>5, <2>2 DEF places
<1>6. CASE ~ (event = "issue" /\ 2 \in layers)
  <2>1. x \notin S
    BY <1>1, <1>6, LayersTyped DEF CallsOf, Call
  <2>2. places = {}
    BY <1>4, <2>1, ListedCallsTyped
  <2>3. QED
    BY <1>6, <2>2, FS_EmptySet
<1>7. QED
  BY <1>5, <1>6

\* PostTrace records a command when a bank is given it.
LEMMA RecordedOnce ==
  ASSUME NEW event \in {"issue", "complete"}, NEW layers \in SUBSET (1 .. Len(Layers)),
         NEW c, Lists(c, CallsOf(event, layers))
  PROVE  Cardinality({i \in DOMAIN c : Records(c[i])}) =
           IF event = "issue" /\ \E l \in layers : Layers[l] = "DDR3Bank" THEN 1 ELSE 0
<1> DEFINE S == CallsOf(event, layers)
           places == {i \in DOMAIN c : Records(c[i])}
           x == [event |-> "issue", layer |-> "DDR3Bank", side |-> "PREISSUE", hook |-> "PostTrace"]
<1>2. "PostTrace" \in Hook /\ SidesOf("PostTrace") = {"PREISSUE"}
  BY HookedAssumption DEF Hook, SidesOf, Sides
<1>3. \A y \in S : Records(y) <=> y = x
  BY <1>2 DEF CallsOf, Call, Records
<1>4. places = {i \in DOMAIN c : c[i] = x}
  <2>1. \A i \in DOMAIN c : c[i] \in S
    BY ListedCallsTyped
  <2> HIDE DEF x, S
  <2>2. QED
    BY <1>3, <2>1
<1>5. CASE event = "issue" /\ \E l \in layers : Layers[l] = "DDR3Bank"
  <2>1. x \in S
    BY <1>2, <1>5, LayersTyped DEF CallsOf, Call, Sides
  <2> HIDE DEF places, x
  <2>2. Cardinality(places) = 1
    BY <1>4, <2>1, OneCall
  <2>3. QED
    BY <1>5, <2>2 DEF places
<1>6. CASE ~ (event = "issue" /\ \E l \in layers : Layers[l] = "DDR3Bank")
  <2>1. x \notin S
    BY <1>6, LayersTyped DEF CallsOf, Call
  <2>2. places = {}
    BY <1>4, <2>1, ListedCallsTyped
  <2>3. QED
    BY <1>6, <2>2, FS_EmptySet
<1>7. QED
  BY <1>5, <1>6

\* What the request has met last are all the calls of the way it has gone last.
RequestInv ==
  /\ manual \in BOOLEAN
  /\ request.state \in {"none", "queued", "served", "complete"}
  /\ request.calls = CASE request.state = "none" -> <<>>
                       [] request.state = "queued" -> IssueCalls[manual]
                       [] request.state = "served" -> ServeCalls
                       [] request.state = "complete" -> CompleteCalls

LEMMA RequestInvariance == HookedSpec => []RequestInv
<1>1. HookedInit => RequestInv
  BY DEF HookedInit, RequestInv
<1>2. RequestInv /\ [HookedNext]_hookedVars => RequestInv'
  <2> SUFFICES ASSUME RequestInv, [HookedNext]_hookedVars PROVE RequestInv'
    OBVIOUS
  <2>1. ASSUME NEW p \in Page, NEW write \in BOOLEAN, IssueCommand(p, write)
        PROVE  RequestInv'
    BY <2>1 DEF IssueCommand, RequestInv
  <2>2. CASE Serve
    BY <2>2 DEF Serve, RequestInv
  <2>3. CASE Complete
    BY <2>3 DEF Complete, RequestInv
  <2>4. CASE HookedRestart
    BY <2>4 DEF HookedRestart, RequestInv
  <2>5. CASE UNCHANGED hookedVars
    BY <2>5 DEF hookedVars, RequestInv
  <2>6. QED
    BY <2>1, <2>2, <2>3, <2>4, <2>5 DEF HookedNext
<1>3. QED
  BY <1>1, <1>2, PTL DEF HookedSpec

\* Once on each of its sides, at the layers that were passed, whatever was copied.
THEOREM HooksMeetRequestsOnce == HookedSpec => []HooksMeetARequestOnce
<1>1. ASSUME RequestInv
      PROVE  HooksMeetARequestOnce
  <2> DEFINE n == Len(Layers)
             c == request.calls
             passes == CASE request.state = "none" -> {}
                         [] request.state = "queued" -> (IF manual THEN 1 ELSE 2) .. 3
                         [] request.state = "served" -> 4 .. n
                         [] request.state = "complete" -> 1 .. n - 1
             event == IF request.state = "complete" THEN "complete" ELSE "issue"
  <2>1. PICK b \in 4 .. n : Layers[b] = "DDR3Bank"
    BY HookedAssumption
  <2>2. n \in Nat /\ n >= 4 /\ Layers[2] = "NVMain" /\ \A l \in 1 .. 3 : Layers[l] # "DDR3Bank"
    <3>1. n \in Nat /\ b \in 1 .. n /\ n >= 4 /\ b > 3
      BY <2>1, LayersTyped
    <3>2. QED
      BY <2>1, <3>1, LayersTyped, HookedAssumption
  <2>3. Lists(c, CallsOf(event, passes)) /\ passes \in SUBSET (1 .. n)
    <3>1. CASE request.state = "none"
      BY <1>1, <3>1, NoneCalled DEF RequestInv
    <3>2. CASE request.state = "queued"
      <4> DEFINE first == IF manual THEN 1 ELSE 2
      <4>1. c = IssueCommandCalls(first, 3)
        BY <1>1, <3>2 DEF RequestInv, IssueCalls
      <4>2. first \in 1 .. 3 /\ 3 \in 1 .. n /\ passes = first .. 3 /\ event = "issue"
        BY <2>2, <3>2
      <4>3. passes \in SUBSET (1 .. n)
        <5>1. first .. 3 \in SUBSET (1 .. n)
          BY <2>2
        <5>2. QED
          BY <4>2, <5>1
      <4> HIDE DEF first, c
      <4>4. Lists(c, CallsOf("issue", first .. 3))
        BY <4>1, <4>2, IssueCommandListed
      <4>5. QED
        BY <4>2, <4>3, <4>4
    <3>3. CASE request.state = "served"
      <4>1. c = IssueCommandCalls(4, n) /\ passes = 4 .. n /\ event = "issue"
        BY <1>1, <3>3 DEF RequestInv, ServeCalls
      <4>2. n \in 1 .. n /\ 4 \in 1 .. n /\ passes \in SUBSET (1 .. n)
        <5>1. n \in 1 .. n /\ 4 \in 1 .. n /\ 4 .. n \in SUBSET (1 .. n)
          BY <2>2
        <5>2. QED
          BY <4>1, <5>1
      <4>3. Lists(IssueCommandCalls(4, n), CallsOf("issue", 4 .. n))
        BY <4>2, IssueCommandListed
      <4>4. QED
        BY <4>1, <4>2, <4>3
    <3>4. CASE request.state = "complete"
      <4>1. c = RequestCompleteCalls(n - 1) /\ passes = 1 .. n - 1 /\ event = "complete"
        BY <1>1, <3>4 DEF RequestInv, CompleteCalls
      <4>2. n - 1 \in 1 .. n /\ passes \in SUBSET (1 .. n)
        BY <2>2, <4>1
      <4>3. Lists(RequestCompleteCalls(n - 1), CallsOf("complete", 1 .. n - 1))
        BY <4>2, CompletionListed
      <4>4. QED
        BY <4>1, <4>2, <4>3
    <3>5. QED
      BY <1>1, <3>1, <3>2, <3>3, <3>4 DEF RequestInv
  <2>4. event \in {"issue", "complete"}
    OBVIOUS
  <2>5. event = "issue" /\ 2 \in passes <=> request.state = "queued"
    BY <1>1, <2>2 DEF RequestInv
  <2>6. event = "issue" /\ (\E l \in passes : Layers[l] = "DDR3Bank") <=> request.state = "served"
    BY <1>1, <2>1, <2>2 DEF RequestInv
  <2> HIDE DEF passes, event
  <2>7. TimesTrained = IF request.state = "queued" THEN 1 ELSE 0
    BY <2>3, <2>4, <2>5, TrainedOnce DEF TimesTrained
  <2>8. TimesRecorded = IF request.state = "served" THEN 1 ELSE 0
    BY <2>3, <2>4, <2>6, RecordedOnce DEF TimesRecorded
  <2>9. \A h \in ToSet(HookList), l \in 1 .. n :
           Cardinality({i \in DOMAIN c : c[i].hook = h /\ c[i].layer = Layers[l]}) =
             IF l \in passes THEN Cardinality(SidesOf(h)) ELSE 0
    BY <2>3, <2>4, HookMetOnce DEF Hook
  <2>10. QED
    BY <2>7, <2>8, <2>9 DEF HooksMeetARequestOnce, passes
<1>2. QED
  BY <1>1, RequestInvariance, PTL
=============================================================================
