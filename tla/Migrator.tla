------------------------------ MODULE Migrator ------------------------------
(* Decoders/Migrator: the two tables that say where a page of a hybrid     *)
(* memory has been moved.  A frame is named by the page that lives in it   *)
(* before anything moves, so that both are members of Page; the pages of   *)
(* channel 0 are the fast ones.                                            *)
EXTENDS Naturals, FiniteSets

CONSTANTS
  Page,        \* the rows of the memory, by physical address
  FastPage,    \* those that AddressTranslator::Translate puts in channel 0
  None         \* a key that a table does not hold (MAX_UINT64)

ASSUME PageAssumption ==
  /\ FastPage \subseteq Page
  /\ None \notin Page

VARIABLES
  remap_table,     \* page -> the frame it lives in
  inverted_table   \* fast frame -> the page that lives in it
tables == <<remap_table, inverted_table>>

TablesTypeOK ==
  /\ remap_table \in [Page -> Page \cup {None}]
  /\ inverted_table \in [FastPage -> Page \cup {None}]

TablesInit ==
  /\ remap_table = [p \in Page |-> None]
  /\ inverted_table = [f \in FastPage |-> None]
-----------------------------------------------------------------------------
IsMapped(p) == remap_table[p] # None

\* Translate: a page that the table does not hold is where it always was.
Translate(p) == IF IsMapped(p) THEN remap_table[p] ELSE p

IsInDRAM(p) == Translate(p) \in FastPage

Add2Table(table, key, value) == [table EXCEPT ![key] = value]

\* The page is its own frame, in the tables (remap, inverted).
Identity(remap, inverted, p) ==
  <<Add2Table(remap, p, p),
    IF p \in FastPage THEN Add2Table(inverted, p, p) ELSE inverted>>

\* The entry that an access to p finds or makes, in both tables.
FirstTouch(p) ==
  IF IsMapped(p) THEN tables ELSE Identity(remap_table, inverted_table, p)
-----------------------------------------------------------------------------
\* Mutant: the frame gets entries of its own whether or not it has some.
SwapForgettingTheOccupant(p, frame) ==
  LET touched == FirstTouch(p)
      known == Identity(touched[1], touched[2], frame)
      remap == known[1]
      owner == known[2][frame]
  IN  /\ remap_table' = [remap EXCEPT ![p] = remap[owner], ![owner] = remap[p]]
      /\ inverted_table' = Add2Table(known[2], frame, p)

\* Mutant: the inverted table is not told.
SwapWithoutInverted(p, frame) ==
  LET touched == FirstTouch(p)
      known == IF touched[2][frame] = None
               THEN Identity(touched[1], touched[2], frame) ELSE touched
      remap == known[1]
      owner == known[2][frame]
  IN  /\ remap_table' = [remap EXCEPT ![p] = remap[owner], ![owner] = remap[p]]
      /\ inverted_table' = known[2]

\* TryMigration: p, a page of slow memory, and the page that lives in the fast
\* frame change places; a frame never touched before gets its entries first.
Swap(p, frame) ==
  LET touched == FirstTouch(p)
      known == IF touched[2][frame] = None
               THEN Identity(touched[1], touched[2], frame) ELSE touched
      remap == known[1]
      owner == known[2][frame]
  IN  /\ remap_table' = [remap EXCEPT ![p] = remap[owner], ![owner] = remap[p]]
      /\ inverted_table' = Add2Table(known[2], frame, p)

\* An access that moves nothing.
Touch(p) ==
  /\ remap_table' = FirstTouch(p)[1]
  /\ inverted_table' = FirstTouch(p)[2]
-----------------------------------------------------------------------------
\* A checkpoint has migrationMap, which nothing fills: the tables are not saved,
\* and the process that goes on from it has new ones.
CreateCheckpoint == [remap |-> [p \in Page |-> None], inverted |-> [f \in FastPage |-> None]]

RestoreCheckpoint ==
  /\ remap_table' = CreateCheckpoint.remap
  /\ inverted_table' = CreateCheckpoint.inverted
-----------------------------------------------------------------------------
\* No two pages live in one frame, so no page's data is lost to another's: the
\* table, with the entries it does not hold, is a permutation of the pages
\* (Migrator::Translate, CoinMigrator::TryMigration).
PagesHaveTheirOwnFrames ==
  \A p, q \in Page : Translate(p) = Translate(q) => p = q

\* The inverted table names the page that lives in a fast frame, for every page
\* that has been accessed, and it knows every frame whose own page has been: the
\* next demotion moves the page it names (TryMigration, real_demo_addr).
InvertedTableFindsTheOccupant ==
  /\ \A f \in FastPage : IsMapped(f) => inverted_table[f] # None
  /\ \A f \in FastPage : inverted_table[f] # None => remap_table[inverted_table[f]] = f
  /\ \A p \in Page : remap_table[p] \in FastPage => inverted_table[remap_table[p]] = p
=============================================================================
