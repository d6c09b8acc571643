------------------------------ MODULE CacheBank ------------------------------
(* Utils/Caches: what CacheBank does to one set, a sequence with an entry  *)
(* for each way, the one used last in front.                               *)
EXTENDS Naturals, Sequences, SequencesExt

CONSTANTS
  Invalid,   \* an entry without CACHE_ENTRY_VALID
  numSets    \* in a row; not always a power of two

ASSUME CacheBankAssumption == numSets \in Nat \ {0}

\* DefaultDecoder: the columns of a row share its sets.
SetID(col) == col % numSets
Cleared(assoc) == [way \in 1 .. assoc |-> Invalid]

Entry(line) == [line |-> line, dirty |-> FALSE]
Holds(entry, line) == entry # Invalid /\ entry.line = line

Present(set, line) == \E i \in DOMAIN set : Holds(set[i], line)
SetFull(set) == Invalid \notin ToSet(set)

\* Into the first entry that is not valid; a full set stays as it is.
Install(set, line) ==
  IF SetFull(set) THEN set
  ELSE LET free == CHOOSE i \in DOMAIN set :
                     set[i] = Invalid /\ \A j \in 1 .. i - 1 : set[j] # Invalid
       IN  [set EXCEPT ![free] = Entry(line)]

ChooseVictim(set) == Last(set).line

\* Evict returns whether the line was dirty, and the set without it.
EvictsDirty(set, line) == \E i \in DOMAIN set : Holds(set[i], line) /\ set[i].dirty
Evict(set, line) == [i \in DOMAIN set |-> IF Holds(set[i], line) THEN Invalid ELSE set[i]]

\* A line goes to the set in place of the last entry of a full set, unless there.
MakeRoom(set, line) ==
  IF SetFull(set) /\ ~ Present(set, line) THEN Evict(set, ChooseVictim(set)) ELSE set
=============================================================================
