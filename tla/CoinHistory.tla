---------------------------- MODULE CoinHistory ----------------------------
(* What has been accessed and filled, and what since: for properties only. *)
EXTENDS CoinMigrator

VARIABLES
  accessed,        \* the pages that were accessed
  accessedSince,   \* page -> the pages accessed since it was
  filled,          \* the fast frames that were filled
  filledSince      \* frame -> the frames filled since it was
historyVars == <<vars, accessed, accessedSince, filled, filledSince>>

NothingSince(S) == [x \in S |-> {}]

HistoryInit ==
  /\ Init
  /\ accessed = {} /\ accessedSince = NothingSince(Page)
  /\ filled = {} /\ filledSince = NothingSince(FastPage)

\* x happens again: since then nothing else has, and it has since everything else.
Happens(since, x) == [y \in DOMAIN since |-> IF y = x THEN {} ELSE since[y] \cup {x}]

Access(p, write) ==
  /\ accessed' = accessed \cup {p}
  /\ accessedSince' = Happens(accessedSince, p)
  /\ \/ Stay(p, write) /\ UNCHANGED <<filled, filledSince>>
     \/ /\ Migrate(p, write)
        /\ filled' = filled \cup {ChooseVictim}
        /\ filledSince' = Happens(filledSince, ChooseVictim)

\* History begins again, with the tables.
HistoryRestart ==
  /\ Restart
  /\ accessed' = {} /\ accessedSince' = NothingSince(Page)
  /\ filled' = {} /\ filledSince' = NothingSince(FastPage)

HistoryNext == HistoryRestart \/ \E p \in Page, write \in BOOLEAN : Access(p, write)
HistorySpec == HistoryInit /\ [][HistoryNext]_historyVars
-----------------------------------------------------------------------------
\* ChooseVictim circles through the fast memory: the frames on the list that
\* were never filled come first, in the list's first order, then those that were,
\* the one filled longest ago in front; and none leaves the list unfilled.
ListedBefore(f, g) == \E i, j \in DOMAIN VictimOrder : i < j /\ VictimOrder[i] = f /\ VictimOrder[j] = g

VictimsTakeTurns ==
  /\ \A i, j \in DOMAIN victim_page_list :
       LET f == victim_page_list[i]
           g == victim_page_list[j]
       IN  i < j => IF f \in filled THEN g \in filledSince[f] ELSE g \in filled \/ ListedBefore(f, g)
  /\ ToSet(VictimOrder) \ filled \subseteq ToSet(victim_page_list)

\* Lru keeps the pages of its set that were accessed last, as many as have room
\* and no others, the latest in front; and all of them are mapped, which
\* GetEntryFromRemapTable asserts when Train_in_STC trains on one of them.
STCHoldsTheLatestPages ==
  \A s \in Set :
    LET entries == stc_cache[s]
        page(i) == entries[i].address
        held == {page(i) : i \in DOMAIN entries}
        ofSet == {q \in accessed : SetOf[q] = s}
    IN  /\ Len(entries) <= Ways /\ held \subseteq ofSet
        /\ \A i \in DOMAIN entries :
             /\ accessedSince[page(i)] \cap ofSet = {page(j) : j \in 1 .. i - 1}
             /\ IsMapped(page(i))
        /\ \A q \in ofSet \ held : Len(entries) = Ways /\ held \subseteq accessedSince[q]
=============================================================================
