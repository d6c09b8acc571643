-------------------------- MODULE OffChipBusProofs --------------------------
(***************************************************************************)
(* Theorems about a channel, for any number of ranks, banks and subarrays, *)
(* any refresh groups and any timing parameters of its devices: first      *)
(* about the timing of what is issued, then about what the banks and the   *)
(* ranks know of their open rows.                                          *)
(***************************************************************************)
EXTENDS OffChipBusHistory, FiniteSetTheorems, SequenceTheorems, WellFoundedInduction, TLAPS

Waits == [Constraint -> Nat]
Window == {raw \in Seq(Nat) : Len(raw) = RAW}

\* What the proofs need of a rank: the rank's own constraints and window.
IsRank(k) ==
  /\ DOMAIN k = {"state", "wait", "raw", "bank"}
  /\ k.wait \in Waits
  /\ k.raw \in Window
RanksOK == DOMAIN rank = Rank /\ \A r \in Rank : IsRank(rank[r])

\* The burst that a rank would start next, in a number of cycles.
NextBurst(r, write, cycles) == [in |-> cycles, rank |-> r, write |-> write]
BurstType == [in : Int, rank : Rank, write : BOOLEAN]

\* A burst leaves the pins to another one in time.
Clear(b, next) == b.in + tBURST + Gap(b, next) <= next.in

\* However soon a rank reads or writes next, all bursts so far are clear of it.
PinsAreLeftTo(r, wait) ==
  \A b \in bursts : /\ Clear(b, NextBurst(r, FALSE, wait["read"] + tCAS))
                    /\ Clear(b, NextBurst(r, TRUE, wait["write"] + tCWD))
PinsInv ==
  /\ bursts \subseteq BurstType
  /\ \A r \in Rank : PinsAreLeftTo(r, rank[r].wait)

\* The window has the age of every activation in it, and the next one has to
\* wait for the distance to each.
WindowInv ==
  \A r \in Rank :
    /\ activations[r] \subseteq Nat
    /\ \A a \in activations[r] :
         /\ a < tRAW \/ a = 0
         /\ \E i \in 1 .. RAW : rank[r].raw[i] = tRAW - a
         /\ tRRDR <= rank[r].wait["activate"] + a
    /\ \A a, b \in activations[r] : a < b => b - a >= tRRDR
ActivationsOK == DOMAIN activations = Rank /\ WindowInv

USE DeviceTimingAssumption
-----------------------------------------------------------------------------
LEMMA DelaysAreNatural ==
  {tCMD, tAL, tCAS, tCWD, tBURST, tCCD, tWTR, tWR, tRTP, tRTRS, tOST, tRFC, tRRDR, tPPD, tRAW, tRP,
   tRCD, tRAS} \subseteq Nat /\ RAW \in Nat \ {0}
BY DEF Delays

LEMMA LaterIsNatural ==
  ASSUME NEW a \in Nat, NEW b \in Nat
  PROVE  Later(a, b) \in Nat /\ Later(a, b) >= a /\ Later(a, b) >= b
BY DEF Later

\* Two constraints move at once, for the columns; or one, for the rows.
LEMMA ColumnsNotBefore ==
  ASSUME NEW wait \in Waits, NEW r \in Nat, NEW w \in Nat
  PROVE  LET after == NotBefore(wait, [read |-> r, write |-> w])
         IN  /\ after \in Waits
             /\ after["read"] >= r /\ after["write"] >= w
             /\ after["activate"] = wait["activate"]
             /\ \A c \in Constraint : after[c] >= wait[c]
<1>1. /\ DOMAIN wait = Constraint
      /\ \A c \in Constraint : wait[c] \in Nat
  BY DEF Waits
<1>2. NotBefore(wait, [read |-> r, write |-> w])
        = [c \in Constraint |-> IF c = "read" THEN Later(wait[c], r)
                                ELSE IF c = "write" THEN Later(wait[c], w) ELSE wait[c]]
  BY <1>1 DEF NotBefore
<1>3. \A c \in Constraint : /\ Later(wait[c], r) \in Nat /\ Later(wait[c], r) >= r
                             /\ Later(wait[c], r) >= wait[c]
                             /\ Later(wait[c], w) \in Nat /\ Later(wait[c], w) >= w
                             /\ Later(wait[c], w) >= wait[c]
  BY <1>1, LaterIsNatural
<1>4. QED
  BY <1>1, <1>2, <1>3 DEF Waits, Constraint

LEMMA RowsNotBefore ==
  ASSUME NEW wait \in Waits, NEW n \in Nat
  PROVE  /\ NotBefore(wait, [activate |-> n]) \in Waits
         /\ NotBefore(wait, [activate |-> n])["activate"] >= n
         /\ NotBefore(wait, [precharge |-> n]) \in Waits
         /\ \A c \in Constraint : /\ NotBefore(wait, [activate |-> n])[c] >= wait[c]
                                   /\ NotBefore(wait, [precharge |-> n])[c] >= wait[c]
<1>1. /\ DOMAIN wait = Constraint
      /\ \A c \in Constraint : wait[c] \in Nat
  BY DEF Waits
<1>2. /\ NotBefore(wait, [activate |-> n])
           = [c \in Constraint |-> IF c = "activate" THEN Later(wait[c], n) ELSE wait[c]]
      /\ NotBefore(wait, [precharge |-> n])
           = [c \in Constraint |-> IF c = "precharge" THEN Later(wait[c], n) ELSE wait[c]]
  BY <1>1 DEF NotBefore
<1>3. \A c \in Constraint : /\ Later(wait[c], n) \in Nat /\ Later(wait[c], n) >= n
                             /\ Later(wait[c], n) >= wait[c]
  BY <1>1, LaterIsNatural
<1>4. QED
  BY <1>1, <1>2, <1>3 DEF Waits, Constraint

\* The constraints after a command of the rank.
LEMMA WaitsAfterRead ==
  ASSUME NEW wait \in Waits, NEW type \in Reads
  PROVE  /\ RankWaits(wait, type) \in Waits
         /\ RankWaits(wait, type)["read"] >= tBURST
         /\ RankWaits(wait, type)["write"] >= tCAS + tBURST + tRTRS - tCWD
         /\ \A c \in Constraint : RankWaits(wait, type)[c] >= wait[c]
<1>1. type \notin {"ACTIVATE", "REFRESH"} /\ type \notin {"PRECHARGE", "PRECHARGE_ALL"}
      /\ type \notin Writes
  BY DEF Reads, Writes
<1>2. RankWaits(wait, type) = NotBefore(wait, [read |-> Later(tBURST, tCCD),
                                               write |-> tCAS + tBURST + tRTRS - tCWD])
  BY <1>1 DEF RankWaits, BankWaits
<1>3. Later(tBURST, tCCD) \in Nat /\ Later(tBURST, tCCD) >= tBURST
  BY DelaysAreNatural, LaterIsNatural
<1>4. tCAS + tBURST + tRTRS - tCWD \in Nat /\ tBURST \in Nat
  BY DelaysAreNatural
<1>5. QED
  BY <1>2, <1>3, <1>4, ColumnsNotBefore DEF Waits, Constraint

LEMMA WaitsAfterWrite ==
  ASSUME NEW wait \in Waits, NEW type \in Writes
  PROVE  /\ RankWaits(wait, type) \in Waits
         /\ RankWaits(wait, type)["read"] >= tCWD + tBURST + tWTR
         /\ RankWaits(wait, type)["write"] >= tBURST
         /\ \A c \in Constraint : RankWaits(wait, type)[c] >= wait[c]
<1>1. type \notin {"ACTIVATE", "REFRESH"} /\ type \notin {"PRECHARGE", "PRECHARGE_ALL"}
      /\ type \notin Reads
  BY DEF Reads, Writes
<1>2. RankWaits(wait, type) = NotBefore(wait, [read |-> tCWD + tBURST + tWTR,
                                               write |-> Later(tBURST, tCCD)])
  BY <1>1 DEF RankWaits, BankWaits
<1>3. Later(tBURST, tCCD) \in Nat /\ Later(tBURST, tCCD) >= tBURST
  BY DelaysAreNatural, LaterIsNatural
<1>4. tCWD + tBURST + tWTR \in Nat /\ tBURST \in Nat
  BY DelaysAreNatural
<1>5. QED
  BY <1>2, <1>3, <1>4, ColumnsNotBefore DEF Waits, Constraint

LEMMA WaitsAfterOther ==
  ASSUME NEW wait \in Waits, NEW type \in CommandType \ (Reads \cup Writes)
  PROVE  /\ RankWaits(wait, type) \in Waits
         /\ \A c \in Constraint : RankWaits(wait, type)[c] >= wait[c]
         /\ type \in {"ACTIVATE", "REFRESH"} => RankWaits(wait, type)["activate"] >= tRRDR
<1>1. CASE type \in {"ACTIVATE", "REFRESH"}
  <2>1. RankWaits(wait, type) = NotBefore(wait, [activate |-> tRRDR])
    BY <1>1 DEF RankWaits
  <2>2. tRRDR \in Nat
    BY DelaysAreNatural
  <2>3. QED
    BY <2>1, <2>2, RowsNotBefore
<1>2. CASE type \in {"PRECHARGE", "PRECHARGE_ALL"}
  <2>1. RankWaits(wait, type) = NotBefore(wait, [precharge |-> tPPD])
    BY <1>2 DEF RankWaits
  <2>2. tPPD \in Nat
    BY DelaysAreNatural
  <2>3. QED
    BY <1>2, <2>1, <2>2, RowsNotBefore
<1>3. QED
  BY <1>1, <1>2 DEF CommandType

\* A rank that is notified of another's burst.
LEMMA NotifiedWaits ==
  ASSUME NEW k, IsRank(k), NEW type \in CommandType
  PROVE  /\ IsRank(Notified(k, type))
         /\ Notified(k, type).raw = k.raw
         /\ \A c \in Constraint : Notified(k, type).wait[c] >= k.wait[c]
         /\ Notified(k, type).wait["activate"] = k.wait["activate"]
         /\ type \in Reads => /\ Notified(k, type).wait["read"] >= tBURST + tRTRS
                              /\ Notified(k, type).wait["write"] >= tCAS + tBURST + tRTRS - tCWD
         /\ type \in Writes => /\ Notified(k, type).wait["read"] >= tBURST + tCWD + tRTRS - tCAS
                               /\ Notified(k, type).wait["write"] >= tBURST + tOST
<1> DEFINE after == CASE type \in Reads -> NotBefore(k.wait, [read  |-> tBURST + tRTRS,
                                                   write |-> tCAS + tBURST + tRTRS - tCWD])
                      [] type \in Writes -> NotBefore(k.wait, [read  |-> tBURST + tCWD + tRTRS - tCAS,
                                                   write |-> tBURST + tOST])
                      [] OTHER -> k.wait
<1>1. Notified(k, type) = [state |-> k.state, wait |-> after, raw |-> k.raw, bank |-> k.bank]
  BY DEF Notified, IsRank
<1>2. k.wait \in Waits
  BY DEF IsRank
<1>3. /\ after \in Waits
      /\ \A c \in Constraint : after[c] >= k.wait[c]
      /\ after["activate"] = k.wait["activate"]
      /\ type \in Reads => after["read"] >= tBURST + tRTRS
                           /\ after["write"] >= tCAS + tBURST + tRTRS - tCWD
      /\ type \in Writes => after["read"] >= tBURST + tCWD + tRTRS - tCAS
                            /\ after["write"] >= tBURST + tOST
  <2>1. /\ tBURST + tRTRS \in Nat /\ tCAS + tBURST + tRTRS - tCWD \in Nat
        /\ tBURST + tCWD + tRTRS - tCAS \in Nat /\ tBURST + tOST \in Nat
    BY DelaysAreNatural
  <2>2. CASE type \in Reads
    <3>1. type \notin Writes
      BY <2>2 DEF Reads, Writes
    <3>2. after = NotBefore(k.wait, [read  |-> tBURST + tRTRS, write |-> tCAS + tBURST + tRTRS - tCWD])
      BY <2>2, <3>1
    <3>3. QED
      BY <1>2, <2>1, <3>1, <3>2, ColumnsNotBefore
  <2>3. CASE type \in Writes
    <3>1. type \notin Reads
      BY <2>3 DEF Reads, Writes
    <3>2. after = NotBefore(k.wait, [read  |-> tBURST + tCWD + tRTRS - tCAS, write |-> tBURST + tOST])
      BY <2>3, <3>1
    <3>3. QED
      BY <1>2, <2>1, <3>1, <3>2, ColumnsNotBefore
  <2>4. CASE type \notin Reads \cup Writes
    BY <1>2, <2>4 DEF Waits, Constraint
  <2>5. QED
    BY <2>2, <2>3, <2>4
<1> HIDE DEF after
<1>4. QED
  BY <1>1, <1>3 DEF IsRank

LEMMA WindowMoves ==
  ASSUME NEW raw \in Window
  PROVE  /\ Append(Tail(raw), tRAW) \in Window
         /\ Append(Tail(raw), tRAW)[RAW] = tRAW
         /\ \A i \in 2 .. RAW : Append(Tail(raw), tRAW)[i - 1] = raw[i]
<1>1. raw \in Seq(Nat) /\ Len(raw) = RAW /\ raw # <<>> /\ tRAW \in Nat /\ RAW \in Nat \ {0}
  BY DelaysAreNatural DEF Window
<1>2. /\ Tail(raw) \in Seq(Nat) /\ Len(Tail(raw)) = RAW - 1
      /\ \A i \in 1 .. RAW - 1 : Tail(raw)[i] = raw[i + 1]
  BY <1>1, HeadTailProperties
<1>3. /\ Append(Tail(raw), tRAW) \in Seq(Nat) /\ Len(Append(Tail(raw), tRAW)) = RAW
      /\ \A i \in 1 .. RAW - 1 : Append(Tail(raw), tRAW)[i] = Tail(raw)[i]
      /\ Append(Tail(raw), tRAW)[RAW] = tRAW
  BY <1>1, <1>2, AppendProperties
<1>4. ASSUME NEW i \in 2 .. RAW PROVE Append(Tail(raw), tRAW)[i - 1] = raw[i]
  <2>1. i - 1 \in 1 .. RAW - 1 /\ (i - 1) + 1 = i
    BY <1>1
  <2>2. QED
    BY <1>2, <1>3, <2>1
<1>5. QED
  BY <1>3, <1>4 DEF Window

\* A command only touches the constraints and the window of the rank that it is for.
LEMMA CommandedRank ==
  ASSUME NEW k, IsRank(k), NEW cmd \in Commands
  PROVE  /\ IsRank(RankAfter(k, cmd))
         /\ RankAfter(k, cmd).wait = RankWaits(k.wait, cmd.type)
         /\ RankAfter(k, cmd).raw = IF Activates(cmd) THEN Append(Tail(k.raw), tRAW) ELSE k.raw
         /\ \A c \in Constraint : RankWaits(k.wait, cmd.type)[c] >= k.wait[c]
<1>1. cmd.type \in CommandType /\ k.wait \in Waits /\ k.raw \in Window
  BY DEF Commands, IsRank
<1>2. /\ RankWaits(k.wait, cmd.type) \in Waits
      /\ \A c \in Constraint : RankWaits(k.wait, cmd.type)[c] >= k.wait[c]
  <2>1. CASE cmd.type \in Reads
    BY <1>1, <2>1, WaitsAfterRead
  <2>2. CASE cmd.type \in Writes
    BY <1>1, <2>2, WaitsAfterWrite
  <2>3. CASE cmd.type \notin Reads \cup Writes
    BY <1>1, <2>3, WaitsAfterOther
  <2>4. QED
    BY <2>1, <2>2, <2>3
<1>3. Append(Tail(k.raw), tRAW) \in Window
  BY <1>1, WindowMoves
<1>4. QED
  BY <1>1, <1>2, <1>3 DEF RankAfter, IsRank

LEMMA AnsweredRank ==
  ASSUME NEW k, IsRank(k), NEW r
  PROVE  /\ IsRank(RankAfterResponse(k, r))
         /\ RankAfterResponse(k, r).wait = k.wait
         /\ RankAfterResponse(k, r).raw = k.raw
BY DEF RankAfterResponse, IsRank

LEMMA ElapsedRank ==
  ASSUME NEW k, IsRank(k)
  PROVE  /\ IsRank(RankElapsed(k))
         /\ \A c \in Constraint : RankElapsed(k).wait[c] = Later(0, k.wait[c] - 1)
         /\ \A i \in 1 .. RAW : RankElapsed(k).raw[i] = Later(0, k.raw[i] - 1)
<1> DEFINE wait == Elapsed(k.wait)
           raw == [i \in DOMAIN k.raw |-> Later(0, k.raw[i] - 1)]
           bank == [b \in Bank |-> BankElapsed(k.bank[b])]
<1>1. k.wait \in Waits /\ k.raw \in Window /\ RAW \in Nat
  BY DelaysAreNatural DEF IsRank
<1>2. /\ DOMAIN RankElapsed(k) = {"state", "wait", "raw", "bank"}
      /\ RankElapsed(k).wait = wait /\ RankElapsed(k).raw = raw
  <2> DEFINE k1 == [k EXCEPT !.wait = wait]
             k2 == [k1 EXCEPT !.raw = raw]
             k3 == [k2 EXCEPT !.bank = bank]
  <2>1. RankElapsed(k) = k3
    BY DEF RankElapsed
  <2> HIDE DEF wait, raw, bank
  <2>2. DOMAIN k1 = {"state", "wait", "raw", "bank"} /\ k1.wait = wait
    BY DEF IsRank
  <2> HIDE DEF k1
  <2>3. DOMAIN k2 = {"state", "wait", "raw", "bank"} /\ k2.wait = wait /\ k2.raw = raw
    BY <2>2
  <2> HIDE DEF k2
  <2>4. QED
    BY <2>1, <2>3
<1>3. wait \in Waits /\ \A c \in Constraint : wait[c] = Later(0, k.wait[c] - 1)
  BY <1>1 DEF Elapsed, Later, Waits
<1>4. raw \in Window /\ \A i \in 1 .. RAW : raw[i] = Later(0, k.raw[i] - 1)
  <2>1. DOMAIN k.raw = 1 .. RAW /\ \A i \in 1 .. RAW : k.raw[i] \in Nat
    BY <1>1 DEF Window
  <2>2. \A i \in 1 .. RAW : Later(0, k.raw[i] - 1) \in Nat
    BY <2>1 DEF Later
  <2>3. raw = [i \in 1 .. RAW |-> Later(0, k.raw[i] - 1)]
    BY <2>1
  <2>4. raw \in Seq(Nat) /\ Len(raw) = RAW
    BY <1>1, <2>2, <2>3
  <2>5. QED
    BY <2>3, <2>4 DEF Window
<1> HIDE DEF wait, raw, bank
<1>5. QED
  BY <1>2, <1>3, <1>4 DEF IsRank
-----------------------------------------------------------------------------
IInv == RanksOK /\ PinsInv /\ BurstsNeverCollide /\ ActivationsOK

LEMMA InitialInv == HistoryInit => IInv
<1> SUFFICES ASSUME HistoryInit PROVE IInv
  OBVIOUS
<1>1. /\ rank = [r \in Rank |-> InitRank] /\ bursts = {} /\ activations = [r \in Rank |-> {}]
  BY DEF HistoryInit, Init
<1>2. IsRank(InitRank)
  <2>1. [c \in Constraint |-> tCMD] \in Waits
    BY DelaysAreNatural DEF Waits
  <2>2. [i \in 1 .. RAW |-> tRAW] \in Window
    BY DelaysAreNatural DEF Window
  <2>3. QED
    BY <2>1, <2>2 DEF InitRank, IsRank
<1>3. QED
  BY <1>1, <1>2 DEF IInv, RanksOK, PinsInv, PinsAreLeftTo, BurstsNeverCollide, ActivationsOK, WindowInv

\* A rank that is commanded or notified keeps its constraints in force, and what it
\* is to wait for because of the new burst is added.
LEMMA CommandKeepsRanks ==
  ASSUME RanksOK, NEW cmd \in Commands, IssueCommand(cmd)
  PROVE  /\ RanksOK' /\ Rank' = Rank /\ cmd.rank \in Rank
         /\ \A r \in Rank : /\ rank'[r].wait \in Waits
                            /\ \A c \in Constraint : rank'[r].wait[c] >= rank[r].wait[c]
         /\ rank'[cmd.rank].wait = RankWaits(rank[cmd.rank].wait, cmd.type)
         /\ rank'[cmd.rank].raw = IF Activates(cmd) THEN Append(Tail(rank[cmd.rank].raw), tRAW)
                                  ELSE rank[cmd.rank].raw
         /\ \A r \in Rank \ {cmd.rank} : /\ rank'[r] = Notified(rank[r], cmd.type)
                                         /\ rank'[r].raw = rank[r].raw
<1>1. Rank' = Rank /\ cmd.rank \in Rank /\ cmd.type \in CommandType
  BY DEF IssueCommand, Rank, Commands
<1>2. \A r \in Rank : rank'[r] = IF r = cmd.rank THEN RankAfter(rank[r], cmd)
                                 ELSE Notified(rank[r], cmd.type)
  BY DEF IssueCommand, RanksAfter
<1>3. DOMAIN rank' = Rank
  BY DEF IssueCommand, RanksAfter
<1>4. \A r \in Rank : IsRank(rank[r])
  BY DEF RanksOK
<1>5. IsRank(RankAfter(rank[cmd.rank], cmd))
  BY <1>1, <1>4, CommandedRank
<1>6. \A r \in Rank \ {cmd.rank} : IsRank(Notified(rank[r], cmd.type))
  BY <1>1, <1>4, NotifiedWaits
<1>7. \A r \in Rank : IsRank(rank'[r])
  BY <1>2, <1>5, <1>6
<1>8. RanksOK'
  BY <1>1, <1>3, <1>7 DEF RanksOK, IsRank
<1>9. \A r \in Rank : \A c \in Constraint : rank'[r].wait[c] >= rank[r].wait[c]
  <2>1. \A c \in Constraint : rank'[cmd.rank].wait[c] >= rank[cmd.rank].wait[c]
    BY <1>1, <1>2, <1>4, CommandedRank
  <2>2. \A r \in Rank \ {cmd.rank} : \A c \in Constraint : rank'[r].wait[c] >= rank[r].wait[c]
    BY <1>1, <1>2, <1>4, NotifiedWaits
  <2>3. QED
    BY <2>1, <2>2
<1>10. \A r \in Rank : rank'[r].wait \in Waits
  BY <1>7 DEF IsRank
<1>11. /\ rank'[cmd.rank].wait = RankWaits(rank[cmd.rank].wait, cmd.type)
       /\ rank'[cmd.rank].raw = IF Activates(cmd) THEN Append(Tail(rank[cmd.rank].raw), tRAW)
                                ELSE rank[cmd.rank].raw
  BY <1>1, <1>2, <1>4, CommandedRank
<1>12. \A r \in Rank \ {cmd.rank} : /\ rank'[r] = Notified(rank[r], cmd.type)
                                   /\ rank'[r].raw = rank[r].raw
  BY <1>1, <1>2, <1>4, NotifiedWaits
<1>13. QED
  BY <1>1, <1>8, <1>9, <1>10, <1>11, <1>12

\* What a rank has to wait for after a burst of one of the ranks.
LEMMA BurstIsLeftTime ==
  ASSUME RanksOK, NEW cmd \in Commands, IssueCommand(cmd), NEW b \in Burst(cmd), NEW r \in Rank
  PROVE  /\ b \in BurstType
         /\ Clear(b, NextBurst(r, FALSE, rank'[r].wait["read"] + tCAS))
         /\ Clear(b, NextBurst(r, TRUE, rank'[r].wait["write"] + tCWD))
<1>1. /\ cmd.rank \in Rank /\ cmd.type \in CommandType
      /\ rank[cmd.rank].wait \in Waits /\ IsRank(rank[r])
  BY CommandKeepsRanks DEF RanksOK, IsRank, Commands
<1>2. \A d \in {tCAS, tCWD, tBURST, tWTR, tRTRS, tOST} : d \in Nat
  BY DelaysAreNatural
<1>3. rank'[r].wait["read"] \in Nat /\ rank'[r].wait["write"] \in Nat
  BY CommandKeepsRanks DEF Waits, Constraint
<1>4. CASE cmd.type \in Reads
  <2>1. b = [in |-> tCAS, rank |-> cmd.rank, write |-> FALSE]
    BY <1>4 DEF Burst, Reads, Writes
  <2>2. CASE r = cmd.rank
    <3>1. rank'[r].wait["read"] >= tBURST /\ rank'[r].wait["write"] >= tCAS + tBURST + tRTRS - tCWD
      BY <1>1, <1>4, <2>2, CommandKeepsRanks, WaitsAfterRead
    <3>2. QED
      BY <1>1, <1>2, <1>3, <2>1, <2>2, <3>1 DEF Clear, NextBurst, Gap, BurstType
  <2>3. CASE r # cmd.rank
    <3>1. /\ rank'[r].wait["read"] >= tBURST + tRTRS
          /\ rank'[r].wait["write"] >= tCAS + tBURST + tRTRS - tCWD
      BY <1>1, <1>4, <2>3, CommandKeepsRanks, NotifiedWaits
    <3>2. QED
      BY <1>1, <1>2, <1>3, <2>1, <2>3, <3>1 DEF Clear, NextBurst, Gap, BurstType
  <2>4. QED
    BY <2>2, <2>3
<1>5. CASE cmd.type \in Writes
  <2>1. b = [in |-> tCWD, rank |-> cmd.rank, write |-> TRUE]
    BY <1>5 DEF Burst, Reads, Writes
  <2>2. CASE r = cmd.rank
    <3>1. rank'[r].wait["read"] >= tCWD + tBURST + tWTR /\ rank'[r].wait["write"] >= tBURST
      BY <1>1, <1>5, <2>2, CommandKeepsRanks, WaitsAfterWrite
    <3>2. QED
      BY <1>1, <1>2, <1>3, <2>1, <2>2, <3>1 DEF Clear, NextBurst, Gap, BurstType
  <2>3. CASE r # cmd.rank
    <3>1. /\ rank'[r].wait["read"] >= tBURST + tCWD + tRTRS - tCAS
          /\ rank'[r].wait["write"] >= tBURST + tOST
      BY <1>1, <1>5, <2>3, CommandKeepsRanks, NotifiedWaits
    <3>2. QED
      BY <1>1, <1>2, <1>3, <2>1, <2>3, <3>1 DEF Clear, NextBurst, Gap, BurstType
  <2>4. QED
    BY <2>2, <2>3
<1>6. QED
  BY <1>4, <1>5 DEF Burst

LEMMA CommandKeepsPins ==
  ASSUME RanksOK, PinsInv, NEW cmd \in Commands, IssueCommand(cmd), bursts' = bursts \cup Burst(cmd)
  PROVE  PinsInv'
<1>1. Rank' = Rank
  BY CommandKeepsRanks
<1>2. bursts' \subseteq BurstType
  BY BurstIsLeftTime, CommandKeepsRanks DEF PinsInv
<1>3. ASSUME NEW b \in bursts, NEW r \in Rank
      PROVE  /\ Clear(b, NextBurst(r, FALSE, rank'[r].wait["read"] + tCAS))
             /\ Clear(b, NextBurst(r, TRUE, rank'[r].wait["write"] + tCWD))
  <2>1. /\ Clear(b, NextBurst(r, FALSE, rank[r].wait["read"] + tCAS))
        /\ Clear(b, NextBurst(r, TRUE, rank[r].wait["write"] + tCWD))
    BY <1>3 DEF PinsInv, PinsAreLeftTo
  <2>2. b.in \in Int
    BY <1>3 DEF PinsInv, BurstType
  <2>3. /\ rank[r].wait["read"] \in Nat /\ rank[r].wait["write"] \in Nat
        /\ rank'[r].wait["read"] \in Nat /\ rank'[r].wait["write"] \in Nat
        /\ rank'[r].wait["read"] >= rank[r].wait["read"]
        /\ rank'[r].wait["write"] >= rank[r].wait["write"]
    BY CommandKeepsRanks DEF RanksOK, IsRank, Waits, Constraint
  <2>4. tCAS \in Nat /\ tCWD \in Nat /\ tBURST \in Nat /\ tRTRS \in Nat /\ tOST \in Nat
    BY DelaysAreNatural
  <2>5. QED
    BY <2>1, <2>2, <2>3, <2>4 DEF Clear, NextBurst, Gap
<1>4. \A r \in Rank : \A b \in bursts' :
         /\ Clear(b, NextBurst(r, FALSE, rank'[r].wait["read"] + tCAS))
         /\ Clear(b, NextBurst(r, TRUE, rank'[r].wait["write"] + tCWD))
  BY <1>3, BurstIsLeftTime
<1>5. QED
  BY <1>1, <1>2, <1>4 DEF PinsInv, PinsAreLeftTo, BurstType, Clear, NextBurst, Gap

\* A burst that may start now is clear of those before it, which are earlier.
LEMMA CommandKeepsBurstsApart ==
  ASSUME RanksOK, PinsInv, BurstsNeverCollide, NEW cmd \in Commands, IssueCommand(cmd),
         bursts' = bursts \cup Burst(cmd)
  PROVE  BurstsNeverCollide'
<1>1. rank[cmd.rank].wait[ConstraintOf(cmd.type)] = 0
  BY DEF IssueCommand, IsIssuable, RankAccepts
<1>2. cmd.rank \in Rank
  BY CommandKeepsRanks
<1>3. \A b \in Burst(cmd) : \A a \in bursts : Clear(a, b)
  <2>1. CASE cmd.type \in Reads
    <3>1. Burst(cmd) = {NextBurst(cmd.rank, FALSE, tCAS)} /\ ConstraintOf(cmd.type) = "read"
      BY <2>1 DEF Burst, NextBurst, Reads, Writes, ConstraintOf
    <3>2. 0 + tCAS = tCAS
      BY DelaysAreNatural
    <3>3. QED
      BY <1>1, <1>2, <3>1, <3>2 DEF PinsInv, PinsAreLeftTo
  <2>2. CASE cmd.type \in Writes
    <3>1. Burst(cmd) = {NextBurst(cmd.rank, TRUE, tCWD)} /\ ConstraintOf(cmd.type) = "write"
      BY <2>2 DEF Burst, NextBurst, Reads, Writes, ConstraintOf
    <3>2. 0 + tCWD = tCWD
      BY DelaysAreNatural
    <3>3. QED
      BY <1>1, <1>2, <3>1, <3>2 DEF PinsInv, PinsAreLeftTo
  <2>3. QED
    BY <2>1, <2>2 DEF Burst
<1>4. \A b, c \in Burst(cmd) : b = c
  BY DEF Burst, Reads, Writes
<1>5. \A b \in bursts' : b.in \in Int
  BY BurstIsLeftTime, CommandKeepsRanks DEF PinsInv, BurstType
<1>6. tBURST \in Nat \ {0} /\ tRTRS \in Nat /\ tOST \in Nat
  BY DelaysAreNatural
<1>7. ASSUME NEW a \in bursts', NEW b \in bursts', a # b, a.in <= b.in PROVE Clear(a, b)
  <2>1. CASE a \in bursts /\ b \in bursts
    BY <1>7, <2>1 DEF BurstsNeverCollide, Clear
  <2>2. CASE b \in Burst(cmd)
    BY <1>3, <1>4, <1>7, <2>2
  <2>3. CASE a \in Burst(cmd) /\ b \in bursts
    <3>1. Clear(b, a)
      BY <1>3, <2>3
    <3>2. QED
      BY <1>5, <1>6, <1>7, <3>1 DEF Clear, Gap
  <2>4. QED
    BY <2>1, <2>2, <2>3
<1>8. QED
  BY <1>7 DEF BurstsNeverCollide, Clear, Gap

-----------------------------------------------------------------------------
(* The window of activations.                                              *)

LEMMA CommandKeepsWindow ==
  ASSUME RanksOK, ActivationsOK, NEW cmd \in Commands, IssueCommand(cmd),
         activations' = [r \in Rank |-> IF r = cmd.rank /\ Activates(cmd)
                                        THEN activations[r] \cup {0} ELSE activations[r]]
  PROVE  ActivationsOK'
<1>1. tRRDR \in Nat /\ tRAW \in Nat /\ RAW \in Nat \ {0}
  BY DelaysAreNatural
<1>2. Rank' = Rank /\ DOMAIN activations' = Rank
  BY CommandKeepsRanks
<1>3. ASSUME NEW r \in Rank
      PROVE  /\ rank[r].wait["activate"] \in Nat /\ rank'[r].wait["activate"] \in Nat
             /\ rank'[r].wait["activate"] >= rank[r].wait["activate"]
  BY CommandKeepsRanks DEF RanksOK, IsRank, Waits, Constraint
<1>4. ASSUME NEW r \in Rank, ~ (r = cmd.rank /\ Activates(cmd))
      PROVE  rank'[r].raw = rank[r].raw /\ activations'[r] = activations[r]
  BY <1>4, CommandKeepsRanks
<1>5. ASSUME NEW r \in Rank, ~ (r = cmd.rank /\ Activates(cmd))
      PROVE  /\ activations'[r] \subseteq Nat
             /\ \A a \in activations'[r] :
                  /\ a < tRAW \/ a = 0
                  /\ \E i \in 1 .. RAW : rank'[r].raw[i] = tRAW - a
                  /\ tRRDR <= rank'[r].wait["activate"] + a
             /\ \A a, b \in activations'[r] : a < b => b - a >= tRRDR
  BY <1>1, <1>3, <1>4, <1>5 DEF ActivationsOK, WindowInv
<1>6. ASSUME Activates(cmd), NEW r \in Rank, r = cmd.rank
      PROVE  /\ activations'[r] \subseteq Nat
             /\ \A a \in activations'[r] :
                  /\ a < tRAW \/ a = 0
                  /\ \E i \in 1 .. RAW : rank'[r].raw[i] = tRAW - a
                  /\ tRRDR <= rank'[r].wait["activate"] + a
             /\ \A a, b \in activations'[r] : a < b => b - a >= tRRDR
  <2>1. activations'[r] = activations[r] \cup {0}
    BY <1>6
  <2>2. rank[r].raw \in Window /\ rank'[r].raw = Append(Tail(rank[r].raw), tRAW)
    BY <1>6, CommandKeepsRanks DEF RanksOK, IsRank
  <2>3. rank[r].wait["activate"] = 0 /\ rank'[r].wait["activate"] >= tRRDR
    <3>1. cmd.type \in {"ACTIVATE", "REFRESH"} /\ cmd.type \in CommandType \ (Reads \cup Writes)
      BY <1>6 DEF Activates, Commands, Reads, Writes
    <3>2. ConstraintOf(cmd.type) = "activate"
      BY <3>1 DEF ConstraintOf, Reads, Writes
    <3>3. rank[r].wait \in Waits
      BY DEF RanksOK, IsRank
    <3>4. QED
      BY <1>6, <3>1, <3>2, <3>3, CommandKeepsRanks, WaitsAfterOther
         DEF IssueCommand, IsIssuable, RankAccepts
  <2>4. rank[r].raw[1] = 0
    BY <1>6, <2>2, HeadTailProperties DEF IssueCommand, IsIssuable, RankAccepts, Window
  <2>5. activations[r] \subseteq Nat /\ \A a, b \in activations[r] : a < b => b - a >= tRRDR
    BY DEF ActivationsOK, WindowInv
  <2>6. \A a \in activations[r] : a >= tRRDR /\ a \in Nat
    BY <1>1, <2>3, <2>5 DEF ActivationsOK, WindowInv
  <2>7. ASSUME NEW a \in activations'[r]
        PROVE  /\ a < tRAW \/ a = 0
               /\ \E i \in 1 .. RAW : rank'[r].raw[i] = tRAW - a
    <3>1. a < tRAW \/ a = 0
      BY <2>1, <2>7 DEF ActivationsOK, WindowInv
    <3>2. CASE a = 0
      <4>1. rank'[r].raw[RAW] = tRAW
        BY <2>2, WindowMoves
      <4>2. RAW \in 1 .. RAW /\ tRAW - 0 = tRAW
        BY <1>1
      <4>3. QED
        BY <3>2, <4>1, <4>2
    <3>3. CASE a # 0
      <4>1. a \in activations[r] /\ a < tRAW /\ a \in Nat
        BY <2>1, <2>5, <2>7, <3>1, <3>3
      <4>2. PICK i \in 1 .. RAW : rank[r].raw[i] = tRAW - a
        BY <4>1 DEF ActivationsOK, WindowInv
      <4>3. i \in 2 .. RAW
        BY <1>1, <2>4, <4>1, <4>2
      <4>4. rank'[r].raw[i - 1] = tRAW - a
        BY <2>2, <4>2, <4>3, WindowMoves
      <4>5. i - 1 \in 1 .. RAW
        BY <1>1, <4>3
      <4>6. QED
        BY <3>1, <4>4, <4>5
    <3>4. QED
      BY <3>1, <3>2, <3>3
  <2>8. QED
    BY <1>1, <1>3, <2>1, <2>3, <2>5, <2>6, <2>7
<1>7. QED
  BY <1>2, <1>5, <1>6 DEF ActivationsOK, WindowInv

-----------------------------------------------------------------------------
(* Time passes, and responses come.                                        *)

LEMMA CycleKeepsRanks ==
  ASSUME RanksOK, Cycle
  PROVE  /\ RanksOK' /\ Rank' = Rank
         /\ \A r \in Rank :
              /\ \A c \in Constraint : /\ rank[r].wait[c] \in Nat
                                        /\ rank'[r].wait[c] = Later(0, rank[r].wait[c] - 1)
              /\ \A i \in 1 .. RAW : /\ rank[r].raw[i] \in Nat
                                     /\ rank'[r].raw[i] = Later(0, rank[r].raw[i] - 1)
<1>1. Rank' = Rank
  BY DEF Cycle, Rank
<1>2. DOMAIN rank' = Rank /\ \A r \in Rank : rank'[r] = RankElapsed(rank[r])
  BY DEF Cycle
<1>3. \A r \in Rank : IsRank(rank[r])
  BY DEF RanksOK
<1>4. \A r \in Rank : IsRank(rank'[r])
  BY <1>2, <1>3, ElapsedRank
<1>5. RanksOK'
  BY <1>1, <1>2, <1>4 DEF RanksOK, IsRank
<1>6. ASSUME NEW r \in Rank
      PROVE  /\ \A c \in Constraint : rank[r].wait[c] \in Nat
             /\ \A i \in 1 .. RAW : rank[r].raw[i] \in Nat
  <2>1. rank[r].wait \in Waits /\ rank[r].raw \in Window
    BY <1>3 DEF IsRank
  <2>2. QED
    BY <2>1, ElementOfSeq DEF Waits, Window
<1>7. QED
  BY <1>1, <1>2, <1>3, <1>5, <1>6, ElapsedRank

LEMMA CycleKeepsPins ==
  ASSUME RanksOK, PinsInv, BurstsNeverCollide, Cycle,
         bursts' = {b \in {[c EXCEPT !.in = @ - 1] : c \in bursts} :
                       b.in + tBURST + Later(tRTRS, tOST) > 0}
  PROVE  PinsInv' /\ BurstsNeverCollide'
<1>1. Rank' = Rank
  BY CycleKeepsRanks
<1>2. tCAS \in Nat /\ tCWD \in Nat /\ tBURST \in Nat /\ tRTRS \in Nat /\ tOST \in Nat
  BY DelaysAreNatural
<1>3. ASSUME NEW b \in bursts'
      PROVE  \E c \in bursts : /\ c.in \in Int /\ b.in = c.in - 1 /\ b \in BurstType
                               /\ b.rank = c.rank /\ b.write = c.write
  <2>1. PICK c \in bursts : b = [c EXCEPT !.in = c.in - 1]
    OBVIOUS
  <2>2. c \in BurstType
    BY DEF PinsInv
  <2>3. QED
    BY <2>1, <2>2 DEF BurstType
<1>4. bursts' \subseteq BurstType
  BY <1>3
<1>5. ASSUME NEW r \in Rank, NEW b \in bursts'
      PROVE  /\ Clear(b, NextBurst(r, FALSE, rank'[r].wait["read"] + tCAS))
             /\ Clear(b, NextBurst(r, TRUE, rank'[r].wait["write"] + tCWD))
  <2>1. PICK c \in bursts : /\ c.in \in Int /\ b.in = c.in - 1
                            /\ b.rank = c.rank /\ b.write = c.write
    BY <1>3
  <2>2. /\ Clear(c, NextBurst(r, FALSE, rank[r].wait["read"] + tCAS))
        /\ Clear(c, NextBurst(r, TRUE, rank[r].wait["write"] + tCWD))
    BY DEF PinsInv, PinsAreLeftTo
  <2>3. /\ rank[r].wait["read"] \in Nat /\ rank[r].wait["write"] \in Nat
        /\ rank'[r].wait["read"] = Later(0, rank[r].wait["read"] - 1)
        /\ rank'[r].wait["write"] = Later(0, rank[r].wait["write"] - 1)
    BY CycleKeepsRanks DEF Constraint
  <2>4. /\ rank'[r].wait["read"] \in Nat /\ rank'[r].wait["write"] \in Nat
        /\ rank'[r].wait["read"] >= rank[r].wait["read"] - 1
        /\ rank'[r].wait["write"] >= rank[r].wait["write"] - 1
    BY <2>3 DEF Later
  <2>5. QED
    BY <1>2, <2>1, <2>2, <2>3, <2>4 DEF Clear, NextBurst, Gap
<1>6. PinsInv'
  BY <1>1, <1>4, <1>5 DEF PinsInv, PinsAreLeftTo, BurstType, Clear, NextBurst, Gap
<1>7. ASSUME NEW a \in bursts', NEW b \in bursts', a # b, a.in <= b.in PROVE Clear(a, b)
  <2>1. PICK c \in bursts : a = [c EXCEPT !.in = c.in - 1]
    OBVIOUS
  <2>2. PICK d \in bursts : b = [d EXCEPT !.in = d.in - 1]
    OBVIOUS
  <2>3. c # d
    BY <1>7, <2>1, <2>2
  <2>4. /\ c.in \in Int /\ a.in = c.in - 1 /\ a.rank = c.rank /\ a.write = c.write
        /\ d.in \in Int /\ b.in = d.in - 1 /\ b.rank = d.rank /\ b.write = d.write
    BY <2>1, <2>2 DEF PinsInv, BurstType
  <2>5. Clear(c, d)
    BY <1>7, <2>3, <2>4 DEF BurstsNeverCollide, Clear
  <2>6. QED
    BY <1>2, <2>4, <2>5 DEF Clear, Gap
<1>8. BurstsNeverCollide'
  BY <1>7 DEF BurstsNeverCollide, Clear, Gap
<1>9. QED
  BY <1>6, <1>8

LEMMA CycleKeepsWindow ==
  ASSUME RanksOK, ActivationsOK, Cycle,
         activations' = [r \in Rank |-> {ago + 1 : ago \in activations[r]} \cap 0 .. tRAW - 1]
  PROVE  ActivationsOK'
<1>1. tRRDR \in Nat /\ tRAW \in Nat /\ RAW \in Nat \ {0}
  BY DelaysAreNatural
<1>2. Rank' = Rank /\ DOMAIN activations' = Rank
  BY CycleKeepsRanks
<1>3. ASSUME NEW r \in Rank, NEW a \in activations'[r]
      PROVE  a - 1 \in activations[r] /\ a - 1 \in Nat /\ a \in Nat /\ a < tRAW
  <2>1. PICK ago \in activations[r] : a = ago + 1
    OBVIOUS
  <2>2. a \in 0 .. tRAW - 1 /\ ago \in Nat
    BY DEF ActivationsOK, WindowInv
  <2>3. QED
    BY <1>1, <2>1, <2>2
<1>4. ASSUME NEW r \in Rank, NEW a \in activations'[r]
      PROVE  /\ \E i \in 1 .. RAW : rank'[r].raw[i] = tRAW - a
             /\ tRRDR <= rank'[r].wait["activate"] + a
  <2>1. PICK i \in 1 .. RAW : rank[r].raw[i] = tRAW - (a - 1)
    BY <1>3 DEF ActivationsOK, WindowInv
  <2>2. rank'[r].raw[i] = Later(0, rank[r].raw[i] - 1) /\ rank[r].raw[i] \in Nat
    BY CycleKeepsRanks
  <2>3. rank'[r].raw[i] = tRAW - a
    BY <1>1, <1>3, <2>1, <2>2 DEF Later
  <2>4. /\ rank[r].wait["activate"] \in Nat
        /\ rank'[r].wait["activate"] = Later(0, rank[r].wait["activate"] - 1)
    BY CycleKeepsRanks DEF Constraint
  <2>5. tRRDR <= rank[r].wait["activate"] + (a - 1)
    BY <1>3 DEF ActivationsOK, WindowInv
  <2>6. QED
    BY <1>1, <1>3, <2>3, <2>4, <2>5 DEF Later
<1>5. ASSUME NEW r \in Rank, NEW a \in activations'[r], NEW b \in activations'[r], a < b
      PROVE  b - a >= tRRDR
  <2>1. (b - 1) - (a - 1) >= tRRDR
    BY <1>3, <1>5 DEF ActivationsOK, WindowInv
  <2>2. QED
    BY <1>1, <1>3, <2>1
<1>6. QED
  BY <1>2, <1>3, <1>4, <1>5 DEF ActivationsOK, WindowInv

LEMMA ResponseKeepsInv ==
  ASSUME IInv, RequestComplete, UNCHANGED <<bursts, activations>>
  PROVE  IInv'
<1> DEFINE h == Head(responses[0])
<1>1. Rank' = Rank
  BY DEF RequestComplete, Rank
<1>2. /\ DOMAIN rank = Rank /\ \A r \in Rank : IsRank(rank[r])
      /\ rank' = [rank EXCEPT ![h.rank] = RankAfterResponse(rank[h.rank], h)]
  BY DEF RequestComplete, IInv, RanksOK
<1> HIDE DEF h
<1>3. DOMAIN rank' = Rank
  BY <1>2
<1>4. \A r \in Rank : /\ IsRank(rank'[r])
                     /\ rank'[r].wait = rank[r].wait
                     /\ rank'[r].raw = rank[r].raw
  <2>1. \A r \in Rank : rank'[r] = rank[r] \/ rank'[r] = RankAfterResponse(rank[r], h)
    BY <1>2
  <2>2. QED
    BY <1>2, <2>1, AnsweredRank
<1>5. RanksOK'
  BY <1>1, <1>3, <1>4 DEF RanksOK, IsRank
<1>6. PinsInv'
  BY <1>1, <1>4 DEF IInv, PinsInv, PinsAreLeftTo, BurstType, Clear, NextBurst, Gap
<1>7. ActivationsOK'
  BY <1>1, <1>4 DEF IInv, ActivationsOK, WindowInv
<1>8. QED
  BY <1>5, <1>6, <1>7 DEF IInv, BurstsNeverCollide, Gap

-----------------------------------------------------------------------------
LEMMA NextKeepsInv == IInv /\ [HistoryNext]_historyVars => IInv'
<1> SUFFICES ASSUME IInv, [HistoryNext]_historyVars PROVE IInv'
  OBVIOUS
<1>1. ASSUME NEW cmd \in Commands, IssueCommand(cmd),
             bursts' = bursts \cup Burst(cmd),
             activations' = [r \in Rank |-> IF r = cmd.rank /\ Activates(cmd)
                                            THEN activations[r] \cup {0} ELSE activations[r]]
      PROVE  IInv'
  BY <1>1, CommandKeepsRanks, CommandKeepsPins, CommandKeepsBurstsApart, CommandKeepsWindow DEF IInv
<1>2. ASSUME Cycle,
             bursts' = {b \in {[c EXCEPT !.in = @ - 1] : c \in bursts} :
                           b.in + tBURST + Later(tRTRS, tOST) > 0},
             activations' = [r \in Rank |-> {ago + 1 : ago \in activations[r]} \cap 0 .. tRAW - 1]
      PROVE  IInv'
  BY <1>2, CycleKeepsRanks, CycleKeepsPins, CycleKeepsWindow DEF IInv
<1>3. CASE UNCHANGED historyVars
  BY <1>3 DEF historyVars, vars, IInv, RanksOK, IsRank, PinsInv, PinsAreLeftTo, BurstType, Clear,
              NextBurst, Gap, BurstsNeverCollide, ActivationsOK, WindowInv, Rank
<1>4. QED
  BY <1>1, <1>2, <1>3, ResponseKeepsInv DEF HistoryNext

LEMMA AlwaysIInv == HistorySpec => []IInv
BY InitialInv, NextKeepsInv, PTL DEF HistorySpec

\* Whatever commands a controller chooses, in any order and as early as the device
\* accepts them: no two bursts meet on the data pins, and the pins have time to
\* change hands between two ranks (OffChipBus::IssueCommand's notices, and the
\* constraints of StandardRank::Read, Write and Notify).
THEOREM PinsAreNeverShared == HistorySpec => []BurstsNeverCollide
BY AlwaysIInv, PTL DEF IInv

\* The ring of the last RAW activations and nextActivate bound the activations of
\* every rank, however refreshes and activations follow each other
\* (StandardRank::IsIssuable, Activate, Refresh).
THEOREM ActivationsStaySpread == HistorySpec => []ActivationsAreSpread
<1>1. ASSUME IInv PROVE ActivationsAreSpread
  <2>1. WindowInv /\ RAW \in Nat /\ tRAW \in Nat
    BY <1>1, DelaysAreNatural DEF IInv, ActivationsOK
  <2>2. ASSUME NEW r \in Rank PROVE Cardinality(activations[r]) <= RAW
    <3> DEFINE place == [a \in activations[r] |->
                          CHOOSE i \in 1 .. RAW : rank[r].raw[i] = tRAW - a]
    <3>1. \A a \in activations[r] : /\ a \in Nat /\ place[a] \in 1 .. RAW
                                     /\ rank[r].raw[place[a]] = tRAW - a
      BY <2>1 DEF WindowInv
    <3>2. place \in Injection(activations[r], 1 .. RAW)
      <4>1. place \in [activations[r] -> 1 .. RAW]
        BY <3>1
      <4> HIDE DEF place
      <4>2. \A a, b \in activations[r] : place[a] = place[b] => a = b
        BY <2>1, <3>1
      <4>3. QED
        BY <4>1, <4>2 DEF Injection, IsInjective
    <3>3. IsFiniteSet(1 .. RAW) /\ Cardinality(1 .. RAW) = RAW
      BY <2>1, FS_Interval
    <3>4. QED
      BY <3>2, <3>3, FS_Injection
  <2>3. QED
    BY <2>1, <2>2 DEF ActivationsAreSpread, WindowInv
<1>2. QED
  BY <1>1, AlwaysIInv, PTL
-----------------------------------------------------------------------------
(***************************************************************************)
(* What banks and ranks know of their open rows.  The inductive invariant  *)
(* (DeviceInv) relates every response in the event queue to the subarray   *)
(* it is for: a subarray waits for one response at most, which finds it in *)
(* the state it was sent for (SubArrayInv), and behind every response that *)
(* may close the last row of a rank comes a look of that rank (LooksInv).  *)
(***************************************************************************)
(***************************************************************************)
(* Sequences.                                                              *)
(***************************************************************************)

Distinct(s) == \A i, j \in DOMAIN s : s[i] = s[j] => i = j

\* A set of natural numbers has a least element.
LEMMA LeastExists ==
  ASSUME NEW T \in SUBSET Nat, T # {}
  PROVE  \E x \in T : \A y \in T : x <= y
<1> DEFINE R == OpToRel(<, Nat)
<1>1. IsWellFoundedOn(R, Nat)
  BY NatLessThanWellFounded
<1>2. \A x, y \in T : <<y, x>> \in R <=> y < x
  BY DEF OpToRel
<1> HIDE DEF R
<1>3. PICK x \in T : \A y \in T : ~ (<<y, x>> \in R)
  BY <1>1, WFMin
<1>4. \A y \in T : ~ y < x
  BY <1>2, <1>3
<1> QED
  BY <1>4

\* A sequence without one of its places.
LEMMA Removing ==
  ASSUME NEW S, NEW s \in Seq(S), NEW i \in 1 .. Len(s)
  PROVE  /\ RemoveAt(s, i) \in Seq(S) /\ Len(RemoveAt(s, i)) = Len(s) - 1
         /\ \A k \in 1 .. Len(s) - 1 : RemoveAt(s, i)[k] = IF k < i THEN s[k] ELSE s[k + 1]
<1> DEFINE a == SubSeq(s, 1, i - 1)
           b == SubSeq(s, i + 1, Len(s))
<1>0. Len(s) \in Nat /\ i \in Nat
  OBVIOUS
<1>1. /\ a \in Seq(S) /\ Len(a) = i - 1
      /\ b \in Seq(S) /\ Len(b) = Len(s) - i
      /\ \A k \in 1 .. i - 1 : a[k] = s[k]
      /\ \A k \in 1 .. Len(s) - i : b[k] = s[k + i]
  BY SubSeqProperties
<1>2. RemoveAt(s, i) = a \o b
  BY DEF RemoveAt
<1> HIDE DEF a, b
<1>3. /\ a \o b \in Seq(S) /\ Len(a \o b) = Len(a) + Len(b)
      /\ \A k \in 1 .. Len(a) + Len(b) : (a \o b)[k] = IF k <= Len(a) THEN a[k] ELSE b[k - Len(a)]
  BY <1>1, ConcatProperties
<1>4. Len(a) + Len(b) = Len(s) - 1
  <2> DEFINE m == Len(a)
             n == Len(b)
  <2>1. m = i - 1 /\ n = Len(s) - i
    BY <1>1
  <2> HIDE DEF m, n
  <2>2. m + n = Len(s) - 1
    BY <1>0, <2>1
  <2> QED
    BY <2>2 DEF m, n
<1>5. ASSUME NEW k \in 1 .. Len(s) - 1
      PROVE  (a \o b)[k] = IF k < i THEN s[k] ELSE s[k + 1]
  <2>1. k \in 1 .. Len(a) + Len(b)
    BY <1>4
  <2>2. (a \o b)[k] = IF k <= Len(a) THEN a[k] ELSE b[k - Len(a)]
    BY <1>3, <2>1
  <2>3. CASE k < i
    <3>1. k <= i - 1 /\ k \in 1 .. i - 1
      BY <1>0, <2>3
    <3> QED
      BY <1>1, <2>2, <2>3, <3>1
  <2>4. CASE ~ k < i
    <3>1. ~ k <= i - 1 /\ k - (i - 1) \in 1 .. Len(s) - i /\ (k - (i - 1)) + i = k + 1
      BY <1>0, <2>4
    <3> QED
      BY <1>1, <2>2, <2>4, <3>1
  <2> QED
    BY <2>3, <2>4
<1> QED
  BY <1>2, <1>3, <1>4, <1>5

\* RemoveFirst takes an element out of a sequence that has it once.
LEMMA RemovingFirst ==
  ASSUME NEW S, NEW s \in Seq(S), Distinct(s), NEW e
  PROVE  /\ RemoveFirst(s, e) \in Seq(S) /\ Distinct(RemoveFirst(s, e))
         /\ ToSet(RemoveFirst(s, e)) = ToSet(s) \ {e}
<1>1. CASE e \notin ToSet(s)
  <2>1. ~ \E i \in 1 .. Len(s) : s[i] = e
    BY <1>1 DEF ToSet
  <2>2. RemoveFirst(s, e) = s
    BY <2>1 DEF RemoveFirst
  <2> QED
    BY <1>1, <2>2
<1>2. CASE e \in ToSet(s)
  <2> DEFINE I == {i \in 1 .. Len(s) : s[i] = e}
             i == SelectInSeq(s, LAMBDA v : v = e)
             t == RemoveAt(s, i)
  <2>1. I \in SUBSET Nat /\ I # {}
    BY <1>2 DEF ToSet
  <2>2. PICK x \in I : \A y \in I : x <= y
    BY <2>1, LeastExists
  <2>3. i \in I
    BY <2>1, <2>2 DEF SelectInSeq, Min
  <2>4. RemoveFirst(s, e) = t
    BY <2>3 DEF RemoveFirst
  <2> HIDE DEF i, t
  <2>5. i \in 1 .. Len(s) /\ s[i] = e /\ Len(s) \in Nat /\ DOMAIN s = 1 .. Len(s)
    BY <2>3
  <2>6. /\ t \in Seq(S) /\ Len(t) = Len(s) - 1 /\ DOMAIN t = 1 .. Len(s) - 1
        /\ \A k \in 1 .. Len(s) - 1 : t[k] = IF k < i THEN s[k] ELSE s[k + 1]
    <3>1. /\ RemoveAt(s, i) \in Seq(S) /\ Len(RemoveAt(s, i)) = Len(s) - 1
          /\ \A k \in 1 .. Len(s) - 1 : RemoveAt(s, i)[k] = IF k < i THEN s[k] ELSE s[k + 1]
      BY <2>5, Removing
    <3>2. t = RemoveAt(s, i)
      BY DEF t
    <3> HIDE DEF t
    <3>3. t \in Seq(S) /\ Len(t) = Len(s) - 1
      BY <3>1, <3>2
    <3> QED
      BY <3>1, <3>2, <3>3
  <2>7. Distinct(t)
    <3> SUFFICES ASSUME NEW j \in 1 .. Len(s) - 1, NEW k \in 1 .. Len(s) - 1, t[j] = t[k]
                 PROVE  j = k
      BY <2>6 DEF Distinct
    <3> DEFINE f(n) == IF n < i THEN n ELSE n + 1
    <3>1. f(j) \in DOMAIN s /\ f(k) \in DOMAIN s /\ s[f(j)] = s[f(k)]
      BY <2>5, <2>6
    <3>2. f(j) = f(k)
      BY <3>1 DEF Distinct
    <3> QED
      BY <2>5, <3>2
  <2>8. ASSUME NEW y \in ToSet(t) PROVE y \in ToSet(s) /\ y # e
    <3>1. PICK k \in 1 .. Len(s) - 1 : y = t[k]
      BY <2>6 DEF ToSet
    <3>2. CASE k < i
      BY <2>5, <2>6, <3>1, <3>2 DEF ToSet, Distinct
    <3>3. CASE ~ k < i
      <4>1. k + 1 \in DOMAIN s /\ k + 1 # i /\ y = s[k + 1]
        BY <2>5, <2>6, <3>1, <3>3
      <4> QED
        BY <2>5, <4>1 DEF ToSet, Distinct
    <3> QED
      BY <3>2, <3>3
  <2>9. ASSUME NEW y \in ToSet(s), y # e PROVE y \in ToSet(t)
    <3>1. PICK k \in 1 .. Len(s) : y = s[k]
      BY <2>5 DEF ToSet
    <3>2. k # i
      BY <2>5, <2>9, <3>1
    <3>3. CASE k < i
      <4>1. k \in 1 .. Len(s) - 1 /\ t[k] = y
        BY <2>5, <2>6, <3>1, <3>3
      <4> QED
        BY <2>6, <4>1 DEF ToSet
    <3>4. CASE k > i
      <4>1. k - 1 \in 1 .. Len(s) - 1 /\ ~ (k - 1 < i) /\ (k - 1) + 1 = k
        BY <2>5, <3>4
      <4>2. t[k - 1] = y
        BY <2>6, <3>1, <4>1
      <4> QED
        BY <2>6, <4>1, <4>2 DEF ToSet
    <3> QED
      BY <2>5, <3>2, <3>3, <3>4
  <2> QED
    BY <2>4, <2>6, <2>7, <2>8, <2>9
<1> QED
  BY <1>1, <1>2

\* Constraints move to later cycles only.
LEMMA NotBeforeKeeps ==
  ASSUME NEW D, NEW wait \in [D -> Nat], NEW bound,
         \A c \in D \cap DOMAIN bound : bound[c] \in Nat
  PROVE  /\ NotBefore(wait, bound) \in [D -> Nat]
         /\ \A c \in D : NotBefore(wait, bound)[c] >= wait[c]
         /\ \A c \in D \cap DOMAIN bound : NotBefore(wait, bound)[c] >= bound[c]
<1>1. ASSUME NEW c \in D
      PROVE  /\ (IF c \in DOMAIN bound THEN Later(wait[c], bound[c]) ELSE wait[c]) \in Nat
             /\ (IF c \in DOMAIN bound THEN Later(wait[c], bound[c]) ELSE wait[c]) >= wait[c]
             /\ c \in DOMAIN bound => Later(wait[c], bound[c]) >= bound[c]
  BY DEF Later
<1>2. NotBefore(wait, bound)
        = [c \in D |-> IF c \in DOMAIN bound THEN Later(wait[c], bound[c]) ELSE wait[c]]
  BY DEF NotBefore
<1> QED
  BY <1>1, <1>2

\* The parameters of a channel.
IsChannel ==
  /\ p.RANKS \in Nat \ {0} /\ p.BANKS \in Nat \ {0} /\ p.SUBARRAYS \in Nat \ {0}
  /\ p.BanksPerRefresh \in Nat \ {0} /\ p.BANKS % p.BanksPerRefresh = 0
  /\ tWP \in Nat

LEMMA ChannelsAreChannels == p \in Configurations => IsChannel
BY OffChipBusAssumption DEF IsChannel, tWP

\* No response takes longer than Latest.
LEMMA LatestIsLatest ==
  ASSUME IsChannel
  PROVE  /\ Latest \in Nat /\ tRP \in 1 .. Latest /\ tRFC \in 1 .. Latest
         /\ ImplicitPrecharge("READ_PRECHARGE") \in 0 .. Latest
         /\ ImplicitPrecharge("WRITE_PRECHARGE") \in 0 .. Latest
         /\ ImplicitPrecharge("READ_PRECHARGE") = tAL + tRTP
         /\ ImplicitPrecharge("WRITE_PRECHARGE") = tAL + tCWD + tBURST + tWP + tWR
         /\ tAL + tCWD + tBURST + tWR \in 0 .. Latest
<1> DEFINE r == ImplicitPrecharge("READ_PRECHARGE")
           w == ImplicitPrecharge("WRITE_PRECHARGE")
<1>1. r = tAL + tRTP /\ w = tAL + tCWD + tBURST + tWP + tWR /\ r \in Nat /\ w \in Nat
  BY DelaysAreNatural DEF ImplicitPrecharge, IsChannel
<1>2. tRP \in Nat \ {0} /\ tRFC \in Nat \ {0}
  BY DelaysAreNatural
<1>3. Latest = Later(Later(tRP, tRFC), Later(r, w))
  BY DEF Latest
<1>4. tAL + tCWD + tBURST + tWR \in Nat /\ tAL + tCWD + tBURST + tWR <= w
  BY <1>1, DelaysAreNatural DEF IsChannel
<1> HIDE DEF r, w
<1>5. Latest \in Nat /\ Latest >= tRP /\ Latest >= tRFC /\ Latest >= r /\ Latest >= w
  BY <1>1, <1>2, <1>3 DEF Later
<1>6. /\ Latest \in Nat /\ tRP \in 1 .. Latest /\ tRFC \in 1 .. Latest
      /\ r \in 0 .. Latest /\ w \in 0 .. Latest
  BY <1>1, <1>2, <1>5
<1>7. tAL + tCWD + tBURST + tWR \in 0 .. Latest
  BY <1>1, <1>4, <1>5
<1> QED
  BY <1>1, <1>6, <1>7 DEF r, w
-----------------------------------------------------------------------------
Closing == {"READ_PRECHARGE", "WRITE_PRECHARGE"}
Precharging == {"PRECHARGE", "PRECHARGE_ALL"}

\* The constraints of a subarray after a command; a row that closes itself blocks all.
LEMMA SubArrayWaitsType ==
  ASSUME IsChannel, NEW wait \in [Constraint -> Nat], NEW type \in CommandType
  PROVE  /\ SubArrayWaits(wait, type) \in [Constraint -> Nat]
         /\ type \in Closing =>
              \A c \in Constraint : SubArrayWaits(wait, type)[c] >= ImplicitPrecharge(type)
<1>0. tWP \in Nat
  BY DEF IsChannel
<1>1. CASE type = "ACTIVATE"
  <2> DEFINE bound == [precharge |-> Later(tRCD, tRAS), read |-> tRCD - tAL, write |-> tRCD - tAL]
  <2>1. SubArrayWaits(wait, type) = NotBefore(wait, bound)
    BY <1>1 DEF SubArrayWaits
  <2>2. Later(tRCD, tRAS) \in Nat /\ tRCD - tAL \in Nat
    BY DelaysAreNatural DEF Later
  <2>3. \A c \in Constraint \cap DOMAIN bound : bound[c] \in Nat
    BY <2>2
  <2> HIDE DEF bound
  <2> QED
    BY <1>1, <2>1, <2>3, NotBeforeKeeps DEF Closing
<1>2. CASE type = "READ"
  <2> DEFINE bound == [precharge |-> tAL + tBURST + tRTP - tCCD,
                       read |-> Later(tBURST, tCCD),
                       write |-> tCAS + tBURST + tRTRS - tCWD]
  <2>1. SubArrayWaits(wait, type) = NotBefore(wait, bound)
    BY <1>2 DEF SubArrayWaits
  <2>2. /\ tAL + tBURST + tRTP - tCCD \in Nat /\ Later(tBURST, tCCD) \in Nat
        /\ tCAS + tBURST + tRTRS - tCWD \in Nat
    BY DelaysAreNatural DEF Later
  <2>3. \A c \in Constraint \cap DOMAIN bound : bound[c] \in Nat
    BY <2>2
  <2> HIDE DEF bound
  <2> QED
    BY <1>2, <2>1, <2>3, NotBeforeKeeps DEF Closing
<1>3. CASE type = "WRITE"
  <2> DEFINE bound == [precharge |-> tAL + tCWD + tBURST + tWP + tWR,
                       read |-> tCWD + tBURST + tWTR + tWP,
                       write |-> Later(tBURST, tCCD) + tWP]
  <2>1. SubArrayWaits(wait, type) = NotBefore(wait, bound)
    BY <1>3 DEF SubArrayWaits
  <2>2. /\ tAL + tCWD + tBURST + tWP + tWR \in Nat /\ tCWD + tBURST + tWTR + tWP \in Nat
        /\ Later(tBURST, tCCD) + tWP \in Nat
    BY <1>0, DelaysAreNatural DEF Later
  <2>3. \A c \in Constraint \cap DOMAIN bound : bound[c] \in Nat
    BY <2>2
  <2> HIDE DEF bound
  <2> QED
    BY <1>3, <2>1, <2>3, NotBeforeKeeps DEF Closing
<1>4. CASE type \in Closing
  <2> DEFINE a == Later(wait.activate, ImplicitPrecharge(type) + tRP)
             bound == [activate |-> a, precharge |-> a, read |-> a, write |-> a]
  <2>1. SubArrayWaits(wait, type) = NotBefore(wait, bound)
    BY <1>4 DEF SubArrayWaits, WaitsForClosed, Closing
  <2>2. ImplicitPrecharge(type) \in Nat /\ tRP \in Nat
    BY <1>4, LatestIsLatest DEF Closing
  <2>3. wait["activate"] \in Nat
    BY DEF Constraint
  <2>4. a \in Nat /\ a >= ImplicitPrecharge(type)
    BY <2>2, <2>3 DEF Later
  <2> HIDE DEF a
  <2>5. \A c \in Constraint : c \in DOMAIN bound /\ bound[c] = a
    BY DEF Constraint
  <2> HIDE DEF bound
  <2>6. \A c \in Constraint \cap DOMAIN bound : bound[c] \in Nat
    BY <2>4, <2>5
  <2>7. /\ NotBefore(wait, bound) \in [Constraint -> Nat]
        /\ \A c \in Constraint \cap DOMAIN bound : NotBefore(wait, bound)[c] >= bound[c]
    BY <2>6, NotBeforeKeeps
  <2>8. \A c \in Constraint : NotBefore(wait, bound)[c] >= ImplicitPrecharge(type)
    BY <2>2, <2>4, <2>5, <2>7
  <2> QED
    BY <2>1, <2>7, <2>8
<1>5. CASE type \in Precharging
  <2>1. SubArrayWaits(wait, type) = NotBefore(wait, [activate |-> tRP])
    BY <1>5 DEF SubArrayWaits, Precharging
  <2>2. \A c \in Constraint \cap DOMAIN [activate |-> tRP] : [activate |-> tRP][c] \in Nat
    BY DelaysAreNatural
  <2> QED
    BY <1>5, <2>1, <2>2, NotBeforeKeeps DEF Closing, Precharging
<1>6. CASE type = "REFRESH"
  <2>1. SubArrayWaits(wait, type) = NotBefore(wait, [activate |-> tRFC])
    BY <1>6 DEF SubArrayWaits
  <2>2. \A c \in Constraint \cap DOMAIN [activate |-> tRFC] : [activate |-> tRFC][c] \in Nat
    BY DelaysAreNatural
  <2> QED
    BY <1>6, <2>1, <2>2, NotBeforeKeeps DEF Closing
<1> QED
  BY <1>1, <1>2, <1>3, <1>4, <1>5, <1>6 DEF CommandType, Reads, Writes, Closing, Precharging

\* The state of a subarray that a pending response finds.
Expected(kind) ==
  CASE kind = "implicit precharge" -> "OPEN"
    [] kind = "precharge" -> "PRECHARGING"
    [] OTHER -> "REFRESHING"

\* A response that subarray s of bank b waits for.
Answers(e, r, b, s) == e.kind # "rank" /\ e = Response(e.kind, r, b, s)

\* A subarray after a command that it accepts.
LEMMA CommandedSubArray ==
  ASSUME IsChannel, NEW sa \in SubArrayType, NEW type \in CommandType
  PROVE  /\ AfterCommand(sa, type) \in SubArrayType
         /\ AfterCommand(sa, type).state =
              IF type = "ACTIVATE" THEN "OPEN"
              ELSE IF type \in Precharging THEN "PRECHARGING"
              ELSE IF type = "REFRESH" THEN "REFRESHING" ELSE sa.state
         /\ type \in Closing =>
              \A c \in Constraint : AfterCommand(sa, type).wait[c] >= ImplicitPrecharge(type)
<1>1. sa.wait \in [Constraint -> Nat] /\ sa.state \in {"OPEN", "CLOSED", "PRECHARGING", "REFRESHING"}
  BY DEF SubArrayType
<1>2. AfterCommand(sa, type).wait = SubArrayWaits(sa.wait, type)
  BY DEF AfterCommand
<1>3. AfterCommand(sa, type).state =
              IF type = "ACTIVATE" THEN "OPEN"
              ELSE IF type \in Precharging THEN "PRECHARGING"
              ELSE IF type = "REFRESH" THEN "REFRESHING" ELSE sa.state
  BY DEF AfterCommand, Precharging
<1>4. AfterCommand(sa, type) =
        [state |-> AfterCommand(sa, type).state, wait |-> AfterCommand(sa, type).wait]
  BY DEF AfterCommand
<1>5. AfterCommand(sa, type) \in SubArrayType
  <2> DEFINE x == AfterCommand(sa, type).state
             y == AfterCommand(sa, type).wait
  <2>1. x \in {"OPEN", "CLOSED", "PRECHARGING", "REFRESHING"}
    BY <1>1, <1>3
  <2>2. y \in [Constraint -> Nat]
    BY <1>1, <1>2, SubArrayWaitsType
  <2>3. AfterCommand(sa, type) = [state |-> x, wait |-> y]
    BY <1>4
  <2> HIDE DEF x, y
  <2> QED
    BY <2>1, <2>2, <2>3 DEF SubArrayType
<1> QED
  BY <1>1, <1>2, <1>3, <1>5, SubArrayWaitsType

\* What a command for a subarray announces.
LEMMA AnnouncedResponse ==
  ASSUME IsChannel, NEW type \in CommandType
  PROVE  /\ SubArrayResponse(type).in \in 0 .. Latest
         /\ SubArrayResponse(type).kind =
              IF type \in Closing THEN "implicit precharge"
              ELSE IF type \in Precharging THEN "precharge"
              ELSE IF type = "REFRESH" THEN "refresh" ELSE "none"
         /\ type \in Closing => SubArrayResponse(type).in = ImplicitPrecharge(type)
         /\ type = "REFRESH" => SubArrayResponse(type).in = tRFC
<1>1. SubArrayResponse(type) =
        IF type \in Closing THEN [kind |-> "implicit precharge", in |-> ImplicitPrecharge(type)]
        ELSE IF type \in Precharging THEN [kind |-> "precharge", in |-> tRP]
        ELSE IF type = "REFRESH" THEN [kind |-> "refresh", in |-> tRFC] ELSE [kind |-> "none", in |-> 0]
  BY DEF SubArrayResponse, Closing, Precharging
<1>2. Latest \in Nat /\ tRP \in 0 .. Latest /\ tRFC \in 0 .. Latest /\ 0 \in 0 .. Latest
  BY LatestIsLatest
<1>3. type \in Closing => ImplicitPrecharge(type) \in 0 .. Latest
  BY LatestIsLatest DEF Closing
<1>4. /\ type \in Precharging => type \notin Closing
      /\ type = "REFRESH" => type \notin Closing /\ type \notin Precharging
  BY DEF Closing, Precharging
<1>5. CASE type \in Closing
  <2>1. SubArrayResponse(type) = [kind |-> "implicit precharge", in |-> ImplicitPrecharge(type)]
    BY <1>1, <1>5
  <2>2. /\ SubArrayResponse(type).kind = "implicit precharge"
        /\ SubArrayResponse(type).in = ImplicitPrecharge(type)
    <3> DEFINE x == ImplicitPrecharge(type)
               y == SubArrayResponse(type)
    <3>1. y = [kind |-> "implicit precharge", in |-> x]
      BY <2>1
    <3> HIDE DEF x, y
    <3>2. y.kind = "implicit precharge" /\ y.in = x
      BY <3>1
    <3> QED
      BY <3>2 DEF x, y
  <2> QED
    BY <1>3, <1>4, <1>5, <2>2
<1>6. CASE type \in Precharging
  BY <1>1, <1>2, <1>4, <1>6
<1>7. CASE type = "REFRESH"
  BY <1>1, <1>2, <1>4, <1>7
<1>8. CASE type \notin Closing /\ type \notin Precharging /\ type # "REFRESH"
  <2>1. SubArrayResponse(type) = [kind |-> "none", in |-> 0]
    BY <1>1, <1>8
  <2>2. SubArrayResponse(type).kind = "none" /\ SubArrayResponse(type).in = 0
    BY <2>1
  <2> QED
    BY <1>2, <1>8, <2>2
<1> QED
  BY <1>5, <1>6, <1>7, <1>8

\* The states in which a subarray accepts a command.
LEMMA AcceptingState ==
  ASSUME NEW sa, NEW type \in CommandType, SubArrayAccepts(sa, type)
  PROVE  /\ \E c \in Constraint : sa.wait[c] = 0
         /\ type \in {"ACTIVATE", "REFRESH"} => sa.state = "CLOSED"
         /\ type \in Precharging => sa.state \in {"OPEN", "CLOSED"}
         /\ type \in Reads \cup Writes => sa.state = "OPEN"
<1>1. ConstraintOf(type) \in Constraint
  BY DEF ConstraintOf, Constraint, CommandType, Reads, Writes
<1>2. sa.wait[ConstraintOf(type)] = 0
  BY DEF SubArrayAccepts
<1>3. /\ type \in {"ACTIVATE", "REFRESH"} => sa.state \in {"CLOSED"}
      /\ type \in {"PRECHARGE", "PRECHARGE_ALL"} => sa.state \in {"OPEN", "CLOSED"}
      /\ type \notin {"ACTIVATE", "REFRESH", "PRECHARGE", "PRECHARGE_ALL"} => sa.state \in {"OPEN"}
  BY DEF SubArrayAccepts
<1>4. type \in Reads \cup Writes => type \notin {"ACTIVATE", "REFRESH", "PRECHARGE", "PRECHARGE_ALL"}
  BY DEF Reads, Writes
<1> QED
  BY <1>1, <1>2, <1>3, <1>4 DEF Precharging
-----------------------------------------------------------------------------
\* An element more at the front of a sequence that does not have it.
LEMMA Prepending ==
  ASSUME NEW S, NEW old \in Seq(S), Distinct(old), NEW e \in S, e \notin ToSet(old)
  PROVE  /\ <<e>> \o old \in Seq(S) /\ Distinct(<<e>> \o old)
         /\ ToSet(<<e>> \o old) = ToSet(old) \cup {e}
<1> DEFINE one == <<e>>
           new == one \o old
<1>1. one \in Seq(S) /\ Len(one) = 1 /\ one[1] = e
  OBVIOUS
<1> HIDE DEF one
<1>2. /\ new \in Seq(S) /\ Len(new) = Len(one) + Len(old)
      /\ \A i \in 1 .. Len(one) + Len(old) :
           new[i] = IF i <= Len(one) THEN one[i] ELSE old[i - Len(one)]
  BY <1>1, ConcatProperties
<1> HIDE DEF new
<1>3. /\ Len(old) \in Nat /\ DOMAIN old = 1 .. Len(old)
      /\ DOMAIN new = 1 .. 1 + Len(old)
  BY <1>1, <1>2
<1>4. \A i \in 1 .. 1 + Len(old) : new[i] = IF i <= 1 THEN one[i] ELSE old[i - 1]
  BY <1>1, <1>2
<1>5. 1 \in DOMAIN new /\ new[1] = e
  BY <1>1, <1>3, <1>4
<1>6. ASSUME NEW k \in DOMAIN new, k # 1
      PROVE  k - 1 \in DOMAIN old /\ new[k] = old[k - 1] /\ new[k] # e
  <2>1. k - 1 \in DOMAIN old /\ new[k] = old[k - 1]
    BY <1>3, <1>4, <1>6
  <2> QED
    BY <2>1 DEF ToSet
<1>7. Distinct(new)
  <2> SUFFICES ASSUME NEW i \in DOMAIN new, NEW j \in DOMAIN new, new[i] = new[j]
               PROVE  i = j
    BY DEF Distinct
  <2>1. CASE i = 1 \/ j = 1
    BY <1>5, <1>6, <2>1
  <2>2. CASE i # 1 /\ j # 1
    <3>1. i - 1 = j - 1
      BY <1>6, <2>2 DEF Distinct
    <3> QED
      BY <1>3, <3>1
  <2> QED
    BY <2>1, <2>2
<1>8. ASSUME NEW x \in ToSet(new) PROVE x \in ToSet(old) \cup {e}
  <2>1. PICK i \in DOMAIN new : x = new[i]
    BY DEF ToSet
  <2>2. CASE i = 1
    BY <1>5, <2>1, <2>2
  <2>3. CASE i # 1
    BY <1>6, <2>1, <2>3 DEF ToSet
  <2> QED
    BY <2>2, <2>3
<1>9. ASSUME NEW x \in ToSet(old) PROVE x \in ToSet(new)
  <2>1. PICK i \in DOMAIN old : x = old[i]
    BY DEF ToSet
  <2>2. i + 1 \in DOMAIN new /\ ~ (i + 1 <= 1) /\ (i + 1) - 1 = i
    BY <1>3
  <2>3. new[i + 1] = x
    BY <1>3, <1>4, <2>1, <2>2
  <2> QED
    BY <2>2, <2>3 DEF ToSet
<1>10. e \in ToSet(new)
  BY <1>5 DEF ToSet
<1>11. ToSet(new) = ToSet(old) \cup {e}
  BY <1>8, <1>9, <1>10
<1> QED
  BY <1>2, <1>7, <1>11 DEF new, one

\* The subarrays that a command of a bank goes to.
LEMMA TouchedSubArrays ==
  ASSUME NEW bank \in BankType, NEW cmd \in Commands
  PROVE  /\ Addressed(bank, cmd) \in Seq(SubArray)
         /\ cmd.type = "PRECHARGE_ALL" => Addressed(bank, cmd) = bank.active
         /\ cmd.type # "PRECHARGE_ALL" => Addressed(bank, cmd) = <<cmd.sub>>
         /\ cmd.type # "PRECHARGE_ALL" => ToSet(Addressed(bank, cmd)) = {cmd.sub}
<1>1. bank.active \in Seq(SubArray) /\ cmd.sub \in SubArray
  BY DEF BankType, Commands
<1>2. /\ cmd.type = "PRECHARGE_ALL" => Addressed(bank, cmd) = bank.active
      /\ cmd.type # "PRECHARGE_ALL" => Addressed(bank, cmd) = <<cmd.sub>>
  BY DEF Addressed
<1>3. <<cmd.sub>> \in Seq(SubArray) /\ ToSet(<<cmd.sub>>) = {cmd.sub}
  BY <1>1 DEF ToSet
<1> QED
  BY <1>1, <1>2, <1>3

\* The bank's own constraints.
LEMMA WaitsOfBank ==
  ASSUME NEW D, {"read", "write"} \subseteq D, NEW wait \in [D -> Nat], NEW type \in CommandType
  PROVE  BankWaits(wait, type) \in [D -> Nat]
<1>1. CASE type \in Reads
  <2> DEFINE bound == [read |-> Later(tBURST, tCCD), write |-> tCAS + tBURST + tRTRS - tCWD]
  <2>0. type \notin Writes
    BY <1>1 DEF Reads, Writes
  <2>1. BankWaits(wait, type) = NotBefore(wait, bound)
    BY <1>1, <2>0 DEF BankWaits
  <2>2. Later(tBURST, tCCD) \in Nat /\ tCAS + tBURST + tRTRS - tCWD \in Nat
    BY DelaysAreNatural DEF Later
  <2>3. \A c \in D \cap DOMAIN bound : bound[c] \in Nat
    BY <2>2
  <2> HIDE DEF bound
  <2> QED
    BY <2>1, <2>3, NotBeforeKeeps
<1>2. CASE type \in Writes
  <2> DEFINE bound == [read |-> tCWD + tBURST + tWTR, write |-> Later(tBURST, tCCD)]
  <2>0. type \notin Reads
    BY <1>2 DEF Reads, Writes
  <2>1. BankWaits(wait, type) = NotBefore(wait, bound)
    BY <1>2, <2>0 DEF BankWaits
  <2>2. Later(tBURST, tCCD) \in Nat /\ tCWD + tBURST + tWTR \in Nat
    BY DelaysAreNatural DEF Later
  <2>3. \A c \in D \cap DOMAIN bound : bound[c] \in Nat
    BY <2>2
  <2> HIDE DEF bound
  <2> QED
    BY <2>1, <2>3, NotBeforeKeeps
<1>3. CASE type \notin Reads \cup Writes
  BY <1>3 DEF BankWaits
<1> QED
  BY <1>1, <1>2, <1>3

Leaves(type) == type \in {"PRECHARGE", "READ_PRECHARGE", "WRITE_PRECHARGE"}

\* A bank after a command that it accepts.
LEMMA CommandedBank ==
  ASSUME IsChannel, NEW bank \in BankType, Distinct(bank.active), NEW cmd \in Commands,
         cmd.type = "ACTIVATE" => cmd.sub \notin ToSet(bank.active)
  PROVE  LET after == BankAfter(bank, cmd)
         IN  /\ after \in BankType
             /\ Distinct(after.active)
             /\ ToSet(after.active) =
                  IF cmd.type = "ACTIVATE" THEN ToSet(bank.active) \cup {cmd.sub}
                  ELSE IF Leaves(cmd.type) THEN ToSet(bank.active) \ {cmd.sub}
                  ELSE IF cmd.type = "PRECHARGE_ALL" THEN {} ELSE ToSet(bank.active)
             /\ (bank.state = "OPEN" <=> bank.active # <<>>)
                  => (after.state = "OPEN" <=> after.active # <<>>)
             /\ \A s \in SubArray :
                  after.sub[s] = IF s \in ToSet(Addressed(bank, cmd))
                                 THEN AfterCommand(bank.sub[s], cmd.type) ELSE bank.sub[s]
<1> DEFINE after == BankAfter(bank, cmd)
           touched == ToSet(Addressed(bank, cmd))
           active == ActiveAfter(bank, cmd)
           closes == cmd.type \in {"PRECHARGE", "PRECHARGE_ALL", "READ_PRECHARGE", "WRITE_PRECHARGE"}
           state == IF cmd.type = "ACTIVATE" THEN "OPEN"
                    ELSE IF closes /\ active = <<>> THEN "CLOSED" ELSE bank.state
           wait == BankWaits(bank.wait, cmd.type)
           sub == [s \in SubArray |-> IF s \in touched THEN AfterCommand(bank.sub[s], cmd.type)
                                      ELSE bank.sub[s]]
<1>1. after = [state |-> state, active |-> active, wait |-> wait, sub |-> sub]
  BY DEF BankAfter
<1>2. /\ bank.state \in {"OPEN", "CLOSED"} /\ bank.active \in Seq(SubArray)
      /\ bank.wait \in [{"read", "write"} -> Nat] /\ bank.sub \in [SubArray -> SubArrayType]
      /\ cmd.type \in CommandType /\ cmd.sub \in SubArray
  BY DEF BankType, Commands
<1>3. wait \in [{"read", "write"} -> Nat]
  BY <1>2, WaitsOfBank
<1>4. sub \in [SubArray -> SubArrayType]
  <2>1. \A s \in SubArray : AfterCommand(bank.sub[s], cmd.type) \in SubArrayType
    BY <1>2, CommandedSubArray
  <2> HIDE DEF touched
  <2> QED
    BY <1>2, <2>1
<1>5. /\ active \in Seq(SubArray) /\ Distinct(active)
      /\ ToSet(active) = IF cmd.type = "ACTIVATE" THEN ToSet(bank.active) \cup {cmd.sub}
                  ELSE IF Leaves(cmd.type) THEN ToSet(bank.active) \ {cmd.sub}
                  ELSE IF cmd.type = "PRECHARGE_ALL" THEN {} ELSE ToSet(bank.active)
  <2>1. CASE cmd.type = "ACTIVATE"
    <3>1. active = <<cmd.sub>> \o bank.active /\ ~ Leaves(cmd.type)
      BY <2>1 DEF ActiveAfter, Leaves
    <3> HIDE DEF active
    <3> QED
      BY <1>2, <2>1, <3>1, Prepending
  <2>2. CASE Leaves(cmd.type)
    <3>1. active = RemoveFirst(bank.active, cmd.sub) /\ cmd.type # "ACTIVATE"
      BY <2>2 DEF ActiveAfter, Leaves
    <3> QED
      BY <1>2, <2>2, <3>1, RemovingFirst
  <2>3. CASE cmd.type = "PRECHARGE_ALL"
    <3>1. active = <<>> /\ ~ Leaves(cmd.type)
      BY <2>3 DEF ActiveAfter, Leaves
    <3> QED
      BY <2>3, <3>1 DEF Distinct, ToSet
  <2>4. CASE cmd.type # "ACTIVATE" /\ ~ Leaves(cmd.type) /\ cmd.type # "PRECHARGE_ALL"
    <3>1. active = bank.active
      BY <2>4 DEF ActiveAfter, Leaves
    <3> QED
      BY <1>2, <2>4, <3>1
  <2> QED
    BY <2>1, <2>2, <2>3, <2>4
<1>6. state \in {"OPEN", "CLOSED"}
  BY <1>2
<1>7. (bank.state = "OPEN" <=> bank.active # <<>>) => (state = "OPEN" <=> active # <<>>)
  <2> SUFFICES ASSUME bank.state = "OPEN" <=> bank.active # <<>>
               PROVE  state = "OPEN" <=> active # <<>>
    OBVIOUS
  <2>1. CASE cmd.type = "ACTIVATE"
    <3>1. state = "OPEN" /\ cmd.sub \in ToSet(active)
      BY <1>5, <2>1
    <3> HIDE DEF active, state
    <3>2. active # <<>>
      BY <3>1 DEF ToSet
    <3> QED
      BY <3>1, <3>2
  <2>2. CASE cmd.type # "ACTIVATE" /\ closes
    <3> HIDE DEF active
    <3>1. ToSet(active) \subseteq ToSet(bank.active)
      BY <1>5, <2>2
    <3>2. active # <<>> => bank.active # <<>>
      <4>1. ASSUME active # <<>>, bank.active = <<>> PROVE FALSE
        <5>1. active[1] \in ToSet(active)
          BY <1>5, <4>1 DEF ToSet
        <5>2. ToSet(bank.active) = {}
          BY <4>1 DEF ToSet
        <5> QED
          BY <3>1, <5>1, <5>2
      <4> QED
        BY <4>1
    <3> QED
      BY <2>2, <3>2
  <2>3. CASE cmd.type # "ACTIVATE" /\ ~ closes
    <3>1. active = bank.active
      BY <2>3 DEF ActiveAfter
    <3> QED
      BY <2>3, <3>1
  <2> QED
    BY <2>1, <2>2, <2>3
<1>8. \A s \in SubArray :
        sub[s] = IF s \in touched THEN AfterCommand(bank.sub[s], cmd.type) ELSE bank.sub[s]
  OBVIOUS
<1> HIDE DEF state, active, wait, sub
<1>9. /\ after \in BankType /\ after.state = state /\ after.active = active /\ after.sub = sub
  BY <1>1, <1>3, <1>4, <1>5, <1>6 DEF BankType
<1> HIDE DEF after, touched
<1>10. \A s \in SubArray :
         after.sub[s] = IF s \in touched THEN AfterCommand(bank.sub[s], cmd.type) ELSE bank.sub[s]
  BY <1>8, <1>9
<1> QED
  BY <1>5, <1>7, <1>9, <1>10 DEF after, touched

\* A group of banks that are refreshed together ends before the banks do.
LEMMA GroupsFit ==
  ASSUME NEW n \in Nat \ {0}, NEW a \in Nat, NEW b \in Nat, a % n = 0, b % n = 0, a < b
  PROVE  a + n <= b
<1>1. a = n * (a \div n) /\ b = n * (b \div n) /\ a \div n \in Int /\ b \div n \in Int
  OBVIOUS
<1> DEFINE x == a \div n
           y == b \div n
<1>2. x < y
  <2> HIDE DEF x, y
  <2>1. \A i, j \in Int : i >= j => n * i >= n * j
    OBVIOUS
  <2> QED
    BY <1>1, <2>1 DEF x, y
<1>3. y >= x + 1
  BY <1>1, <1>2
<1>4. \A i, j \in Int : i >= j + 1 => n * i >= n * j + n
  OBVIOUS
<1> QED
  BY <1>1, <1>3, <1>4

SubArrayName == [bank : Bank, sub : SubArray]
At(b, s) == [bank |-> b, sub |-> s]

\* A refresh goes to the banks of its group, once to each.
LEMMA RefreshedBanks ==
  ASSUME IsChannel, NEW cmd \in Commands, cmd.type = "REFRESH"
  PROVE  /\ Banks(cmd) \in Seq(Bank) /\ Len(Banks(cmd)) = BanksPerRefresh
         /\ DOMAIN Banks(cmd) = 1 .. BanksPerRefresh
         /\ Distinct(Banks(cmd)) /\ cmd.bank \in ToSet(Banks(cmd))
<1> DEFINE n == p.BanksPerRefresh
           m == p.BANKS
           f == [i \in 1 .. n |-> cmd.bank + i - 1]
<1>1. /\ n \in Nat \ {0} /\ m \in Nat /\ m % n = 0 /\ cmd.bank \in 0 .. m - 1
      /\ cmd.bank % n = 0 /\ BanksPerRefresh = n /\ Bank = 0 .. m - 1
  BY DEF IsChannel, Commands, Bank, BanksPerRefresh
<1>2. Banks(cmd) = f
  BY <1>1 DEF Banks
<1> HIDE DEF n, m
<1>3. cmd.bank + n <= m
  BY <1>1, GroupsFit
<1>4. \A i \in 1 .. n : f[i] \in 0 .. m - 1
  BY <1>1, <1>3
<1>5. f \in Seq(0 .. m - 1) /\ Len(f) = n /\ DOMAIN f = 1 .. n
  BY <1>1, <1>4
<1>6. \A i, j \in 1 .. n : f[i] = f[j] => i = j
  BY <1>1
<1>7. 1 \in 1 .. n /\ f[1] = cmd.bank
  BY <1>1
<1> HIDE DEF f
<1>8. Distinct(f) /\ cmd.bank \in ToSet(f)
  BY <1>5, <1>6, <1>7 DEF Distinct, ToSet
<1> QED
  BY <1>1, <1>2, <1>5, <1>8

\* The banks that a command goes to.
LEMMA ReachedBanks ==
  ASSUME IsChannel, NEW cmd \in Commands
  PROVE  /\ ToSet(Banks(cmd)) \subseteq Bank /\ cmd.bank \in ToSet(Banks(cmd))
         /\ cmd.type # "REFRESH" => ToSet(Banks(cmd)) = {cmd.bank}
<1>1. cmd.bank \in Bank
  BY DEF Commands
<1>2. CASE cmd.type = "REFRESH"
  <2>1. Banks(cmd) \in Seq(Bank) /\ cmd.bank \in ToSet(Banks(cmd))
    BY <1>2, RefreshedBanks
  <2>2. ToSet(Banks(cmd)) \subseteq Bank
    BY <2>1 DEF ToSet
  <2> QED
    BY <1>2, <2>1, <2>2
<1>3. CASE cmd.type # "REFRESH"
  <2>1. Banks(cmd) = <<cmd.bank>>
    BY <1>3 DEF Banks
  <2>2. ToSet(<<cmd.bank>>) = {cmd.bank}
    BY DEF ToSet
  <2> QED
    BY <1>1, <2>1, <2>2
<1> QED
  BY <1>2, <1>3

\* A command reaches every subarray that it changes, once.
LEMMA ReachedOnce ==
  ASSUME IsChannel, NEW k, k.bank \in [Bank -> BankType],
         \A b \in Bank : Distinct(k.bank[b].active), NEW cmd \in Commands
  PROVE  /\ Reached(k, cmd) \in Seq(SubArrayName) /\ Distinct(Reached(k, cmd))
         /\ \A b \in Bank, s \in SubArray :
              At(b, s) \in ToSet(Reached(k, cmd))
                <=> b \in ToSet(Banks(cmd)) /\ s \in ToSet(Addressed(k.bank[b], cmd))
<1>1. cmd.bank \in Bank /\ cmd.sub \in SubArray /\ cmd.type \in CommandType
  BY DEF Commands
<1>2. CASE cmd.type = "REFRESH"
  <2> DEFINE B == Banks(cmd)
             L == [i \in DOMAIN B |-> [bank |-> B[i], sub |-> cmd.sub]]
  <2>1. Reached(k, cmd) = L
    BY <1>2 DEF Reached
  <2>2. B \in Seq(Bank) /\ Distinct(B)
    BY <1>2, RefreshedBanks
  <2>3. \A b \in Bank : ToSet(Addressed(k.bank[b], cmd)) = {cmd.sub}
    BY <1>2, TouchedSubArrays
  <2> HIDE DEF B
  <2>4. Len(B) \in Nat /\ DOMAIN B = 1 .. Len(B) /\ \A i \in 1 .. Len(B) : B[i] \in Bank
    BY <2>2
  <2>5. \A i \in 1 .. Len(B) : L[i] \in SubArrayName
    BY <1>1, <2>4 DEF SubArrayName
  <2>6. L \in Seq(SubArrayName) /\ DOMAIN L = DOMAIN B
    BY <2>4, <2>5
  <2>7. \A i, j \in DOMAIN L : L[i] = L[j] => B[i] = B[j]
    OBVIOUS
  <2>8. Distinct(L)
    BY <2>2, <2>6, <2>7 DEF Distinct
  <2>9. \A b \in Bank, s \in SubArray :
          At(b, s) \in ToSet(L) <=> b \in ToSet(B) /\ s \in {cmd.sub}
    <3>1. ASSUME NEW b \in Bank, NEW s \in SubArray, At(b, s) \in ToSet(L)
          PROVE  b \in ToSet(B) /\ s \in {cmd.sub}
      <4>1. PICK i \in DOMAIN B : At(b, s) = [bank |-> B[i], sub |-> cmd.sub]
        BY <3>1 DEF ToSet
      <4>2. b = B[i] /\ s = cmd.sub
        BY <4>1 DEF At
      <4> QED
        BY <4>2 DEF ToSet
    <3>2. ASSUME NEW b \in Bank, NEW s \in SubArray, b \in ToSet(B), s \in {cmd.sub}
          PROVE  At(b, s) \in ToSet(L)
      <4>1. PICK i \in DOMAIN B : b = B[i]
        BY <3>2 DEF ToSet
      <4>2. L[i] = At(b, s) /\ i \in DOMAIN L
        BY <3>2, <4>1 DEF At
      <4> QED
        BY <4>2 DEF ToSet
    <3> QED
      BY <3>1, <3>2
  <2> QED
    BY <2>1, <2>3, <2>6, <2>8, <2>9 DEF B
<1>3. CASE cmd.type # "REFRESH"
  <2> DEFINE A == Addressed(k.bank[cmd.bank], cmd)
             L == [i \in DOMAIN A |-> [bank |-> cmd.bank, sub |-> A[i]]]
  <2>1. Reached(k, cmd) = L
    BY <1>3 DEF Reached
  <2>2. A \in Seq(SubArray) /\ Distinct(A)
    <3>1. k.bank[cmd.bank] \in BankType
      BY <1>1
    <3>2. CASE cmd.type = "PRECHARGE_ALL"
      BY <1>1, <3>1, <3>2, TouchedSubArrays
    <3>3. CASE cmd.type # "PRECHARGE_ALL"
      <4>1. A = <<cmd.sub>> /\ A \in Seq(SubArray)
        BY <3>1, <3>3, TouchedSubArrays
      <4> QED
        BY <4>1 DEF Distinct
    <3> QED
      BY <3>2, <3>3
  <2>3. ToSet(Banks(cmd)) = {cmd.bank}
    BY <1>3, ReachedBanks
  <2> HIDE DEF A
  <2>4. Len(A) \in Nat /\ DOMAIN A = 1 .. Len(A) /\ \A i \in 1 .. Len(A) : A[i] \in SubArray
    BY <2>2
  <2>5. \A i \in 1 .. Len(A) : L[i] \in SubArrayName
    BY <1>1, <2>4 DEF SubArrayName
  <2>6. L \in Seq(SubArrayName) /\ DOMAIN L = DOMAIN A
    BY <2>4, <2>5
  <2>7. \A i, j \in DOMAIN L : L[i] = L[j] => A[i] = A[j]
    OBVIOUS
  <2>8. Distinct(L)
    BY <2>2, <2>6, <2>7 DEF Distinct
  <2>9. \A b \in Bank, s \in SubArray :
          At(b, s) \in ToSet(L) <=> b = cmd.bank /\ s \in ToSet(A)
    <3>1. ASSUME NEW b \in Bank, NEW s \in SubArray, At(b, s) \in ToSet(L)
          PROVE  b = cmd.bank /\ s \in ToSet(A)
      <4>1. PICK i \in DOMAIN A : At(b, s) = [bank |-> cmd.bank, sub |-> A[i]]
        BY <3>1 DEF ToSet
      <4>2. b = cmd.bank /\ s = A[i]
        BY <4>1 DEF At
      <4> QED
        BY <4>2 DEF ToSet
    <3>2. ASSUME NEW b \in Bank, NEW s \in SubArray, b = cmd.bank, s \in ToSet(A)
          PROVE  At(b, s) \in ToSet(L)
      <4>1. PICK i \in DOMAIN A : s = A[i]
        BY <3>2 DEF ToSet
      <4>2. L[i] = At(b, s) /\ i \in DOMAIN L
        BY <3>2, <4>1 DEF At
      <4> QED
        BY <4>2 DEF ToSet
    <3> QED
      BY <3>1, <3>2
  <2>10. \A b \in Bank, s \in SubArray :
           (b \in ToSet(Banks(cmd)) /\ s \in ToSet(Addressed(k.bank[b], cmd)))
             <=> b = cmd.bank /\ s \in ToSet(A)
    BY <2>3 DEF A
  <2> HIDE DEF L
  <2> QED
    BY <2>1, <2>6, <2>8, <2>9, <2>10
<1> QED
  BY <1>2, <1>3
-----------------------------------------------------------------------------
QueueType == [0 .. Latest -> Seq(ResponseType)]

\* A list goes behind the events of its cycle.
Inserted(q, after, in, list) ==
  /\ after \in QueueType
  /\ \A c \in 0 .. Latest : \A i \in DOMAIN q[c] : i \in DOMAIN after[c] /\ after[c][i] = q[c][i]
  /\ \A j \in DOMAIN list : /\ Len(q[in]) + j \in DOMAIN after[in]
                            /\ after[in][Len(q[in]) + j] = list[j]
  /\ \A c \in 0 .. Latest : \A i \in DOMAIN after[c] :
       i \in DOMAIN q[c] \/ (c = in /\ \E j \in DOMAIN list : i = Len(q[c]) + j)

\* InsertEvent is Inserted.
LEMMA InsertedEvents ==
  ASSUME NEW q \in QueueType, NEW new, new.in \in 0 .. Latest, new.list \in Seq(ResponseType)
  PROVE  Inserted(q, InsertEvent(q, new), new.in, new.list)
<1> DEFINE after == InsertEvent(q, new)
           in == new.in
           list == new.list
           old == q[in]
           both == old \o list
<1>1. after = [q EXCEPT ![in] = both]
  BY DEF InsertEvent
<1>2. old \in Seq(ResponseType) /\ list \in Seq(ResponseType) /\ in \in 0 .. Latest
  BY DEF QueueType
<1> HIDE DEF old, list, in
<1>3. /\ both \in Seq(ResponseType) /\ Len(both) = Len(old) + Len(list)
      /\ \A i \in 1 .. Len(old) + Len(list) :
           both[i] = IF i <= Len(old) THEN old[i] ELSE list[i - Len(old)]
  BY <1>2, ConcatProperties
<1> HIDE DEF both, after
<1>4. after \in QueueType /\ after[in] = both /\ \A c \in 0 .. Latest : c # in => after[c] = q[c]
  BY <1>1, <1>2, <1>3 DEF QueueType
<1>5. /\ Len(old) \in Nat /\ Len(list) \in Nat /\ DOMAIN old = 1 .. Len(old)
      /\ DOMAIN list = 1 .. Len(list) /\ DOMAIN both = 1 .. Len(old) + Len(list)
  BY <1>2, <1>3
<1>7. \A i \in DOMAIN old : i \in DOMAIN both /\ both[i] = old[i]
  BY <1>3, <1>5
<1>8. \A j \in DOMAIN list : Len(old) + j \in DOMAIN both /\ both[Len(old) + j] = list[j]
  <2> SUFFICES ASSUME NEW j \in DOMAIN list
               PROVE  Len(old) + j \in DOMAIN both /\ both[Len(old) + j] = list[j]
    OBVIOUS
  <2>1. Len(old) + j \in 1 .. Len(old) + Len(list) /\ ~ (Len(old) + j <= Len(old))
        /\ Len(old) + j - Len(old) = j
    BY <1>5
  <2> QED
    BY <1>3, <1>5, <2>1
<1>9. \A i \in DOMAIN both : i \in DOMAIN old \/ \E j \in DOMAIN list : i = Len(old) + j
  <2> SUFFICES ASSUME NEW i \in DOMAIN both, i \notin DOMAIN old
               PROVE  \E j \in DOMAIN list : i = Len(old) + j
    OBVIOUS
  <2>1. i - Len(old) \in DOMAIN list /\ i = Len(old) + (i - Len(old))
    BY <1>5
  <2> QED
    BY <2>1
<1>11. \A c \in 0 .. Latest : \A i \in DOMAIN q[c] : i \in DOMAIN after[c] /\ after[c][i] = q[c][i]
  BY <1>4, <1>7 DEF old
<1>12. \A j \in DOMAIN list :
         Len(q[in]) + j \in DOMAIN after[in] /\ after[in][Len(q[in]) + j] = list[j]
  BY <1>4, <1>8 DEF old
<1>13. \A c \in 0 .. Latest : \A i \in DOMAIN after[c] :
         i \in DOMAIN q[c] \/ (c = in /\ \E j \in DOMAIN list : i = Len(q[c]) + j)
  BY <1>4, <1>9 DEF old
<1> QED
  BY <1>4, <1>11, <1>12, <1>13 DEF Inserted, after, in, list

\* What a command announces: for the subarrays that it reaches, and for the rank.
Announced(k, cmd) == BankResponses(k, cmd).list

\* One response for each subarray that a command reaches, or none.
LEMMA AnnouncedList ==
  ASSUME IsChannel, NEW k, k.bank \in [Bank -> BankType],
         \A b \in Bank : Distinct(k.bank[b].active), NEW cmd \in Commands
  PROVE  LET new == BankResponses(k, cmd)
             kind == SubArrayResponse(cmd.type).kind
         IN  /\ new.in \in 0 .. Latest /\ new.list \in Seq(ResponseType) /\ Distinct(new.list)
             /\ new.in = SubArrayResponse(cmd.type).in
             /\ \A i \in DOMAIN new.list : new.list[i].rank = cmd.rank /\ new.list[i].kind = kind
                                           /\ kind # "none"
             /\ \A b \in Bank, s \in SubArray :
                  Response(kind, cmd.rank, b, s) \in ToSet(new.list)
                    <=> kind # "none" /\ b \in ToSet(Banks(cmd)) /\ s \in ToSet(Addressed(k.bank[b], cmd))
<1> DEFINE new == BankResponses(k, cmd)
           response == SubArrayResponse(cmd.type)
           L == Reached(k, cmd)
           list == [i \in DOMAIN L |-> Response(response.kind, cmd.rank, L[i].bank, L[i].sub)]
<1>1. cmd.rank \in Rank /\ cmd.type \in CommandType
  BY DEF Commands
<1>2. new = [in |-> response.in, list |-> IF response.kind = "none" THEN <<>> ELSE list]
  BY DEF BankResponses
<1>3. response.in \in 0 .. Latest
      /\ response.kind \in {"implicit precharge", "precharge", "refresh", "none"}
  BY <1>1, AnnouncedResponse
<1>4. /\ L \in Seq(SubArrayName) /\ Distinct(L)
      /\ \A b \in Bank, s \in SubArray :
           At(b, s) \in ToSet(L) <=> b \in ToSet(Banks(cmd)) /\ s \in ToSet(Addressed(k.bank[b], cmd))
  BY ReachedOnce
<1> HIDE DEF response, L
<1>5. /\ Len(L) \in Nat /\ DOMAIN L = 1 .. Len(L)
      /\ \A i \in 1 .. Len(L) : L[i] \in SubArrayName /\ L[i].bank \in Bank /\ L[i].sub \in SubArray
  <2>1. /\ Len(L) \in Nat /\ DOMAIN L = 1 .. Len(L)
        /\ \A i \in 1 .. Len(L) : L[i] \in SubArrayName
    BY <1>4
  <2>2. \A x \in SubArrayName : x.bank \in Bank /\ x.sub \in SubArray
    BY DEF SubArrayName
  <2> QED
    BY <2>1, <2>2
<1>6. CASE response.kind = "none"
  <2>1. new.in = response.in /\ new.list = <<>>
    BY <1>2, <1>6
  <2>2. <<>> \in Seq(ResponseType) /\ DOMAIN <<>> = {} /\ ToSet(<<>>) = {}
    BY DEF ToSet
  <2> HIDE DEF new
  <2> QED
    BY <1>3, <1>6, <2>1, <2>2 DEF new, response, Distinct
<1>7. CASE response.kind # "none"
  <2>1. new.in = response.in /\ new.list = list
    BY <1>2, <1>7
  <2>2. \A i \in 1 .. Len(L) : list[i] \in ResponseType
    BY <1>1, <1>3, <1>5, <1>7 DEF Response, ResponseType
  <2>3. list \in Seq(ResponseType) /\ DOMAIN list = DOMAIN L
    BY <1>5, <2>2
  <2>4. ASSUME NEW i \in DOMAIN L, NEW j \in DOMAIN L, list[i] = list[j] PROVE i = j
    <3>1. L[i].bank = L[j].bank /\ L[i].sub = L[j].sub
      BY <2>4 DEF Response
    <3>2. L[i] = L[j]
      BY <1>5, <3>1 DEF SubArrayName
    <3> QED
      BY <1>4, <3>2 DEF Distinct
  <2>5. Distinct(list)
    BY <2>3, <2>4 DEF Distinct
  <2>6. \A i \in DOMAIN list : list[i].rank = cmd.rank /\ list[i].kind = response.kind
    BY DEF Response
  <2>7. \A b \in Bank, s \in SubArray :
          Response(response.kind, cmd.rank, b, s) \in ToSet(list) <=> At(b, s) \in ToSet(L)
    <3>1. ASSUME NEW b \in Bank, NEW s \in SubArray,
                 Response(response.kind, cmd.rank, b, s) \in ToSet(list)
          PROVE  At(b, s) \in ToSet(L)
      <4>1. PICK i \in DOMAIN L : Response(response.kind, cmd.rank, b, s) = list[i]
        BY <3>1 DEF ToSet
      <4>2. b = L[i].bank /\ s = L[i].sub
        BY <4>1 DEF Response
      <4>3. At(b, s) = L[i]
        BY <1>5, <4>2 DEF At, SubArrayName
      <4> QED
        BY <4>3 DEF ToSet
    <3>2. ASSUME NEW b \in Bank, NEW s \in SubArray, At(b, s) \in ToSet(L)
          PROVE  Response(response.kind, cmd.rank, b, s) \in ToSet(list)
      <4>1. PICK i \in DOMAIN L : At(b, s) = L[i]
        BY <3>2 DEF ToSet
      <4>2. L[i].bank = b /\ L[i].sub = s
        BY <4>1 DEF At
      <4>3. list[i] = Response(response.kind, cmd.rank, b, s) /\ i \in DOMAIN list
        BY <4>2
      <4> HIDE DEF list
      <4> QED
        BY <4>3 DEF ToSet
    <3> QED
      BY <3>1, <3>2
  <2> HIDE DEF new, list
  <2>8. /\ new.in \in 0 .. Latest /\ new.list \in Seq(ResponseType) /\ Distinct(new.list)
        /\ new.in = response.in
    BY <1>3, <2>1, <2>3, <2>5
  <2>9. \A i \in DOMAIN new.list : /\ new.list[i].rank = cmd.rank /\ new.list[i].kind = response.kind
                                   /\ response.kind # "none"
    BY <1>7, <2>1, <2>6
  <2>10. \A b \in Bank, s \in SubArray :
          Response(response.kind, cmd.rank, b, s) \in ToSet(new.list)
            <=> response.kind # "none" /\ b \in ToSet(Banks(cmd)) /\ s \in ToSet(Addressed(k.bank[b], cmd))
    BY <1>4, <1>7, <2>1, <2>7
  <2> QED
    BY <2>8, <2>9, <2>10 DEF new, response
<1> QED
  BY <1>6, <1>7

\* The look of the rank, in the same cycle as the closing of its rows.
LEMMA AnnouncedLook ==
  ASSUME IsChannel, NEW cmd \in Commands
  PROVE  LET look == RankResponses(cmd)
         IN  /\ look.in \in 0 .. Latest /\ look.list \in Seq(ResponseType)
             /\ \A i \in DOMAIN look.list : look.list[i].rank = cmd.rank /\ look.list[i].kind = "rank"
             /\ cmd.type \in Closing \cup {"REFRESH"} => DOMAIN look.list = 1 .. 1
             /\ cmd.type = "REFRESH" \/ (cmd.type \in Closing /\ tWP = 0)
                  => look.in = SubArrayResponse(cmd.type).in
<1> DEFINE e == Response("rank", cmd.rank, cmd.bank, cmd.sub)
           look == RankResponses(cmd)
           one == <<e>>
<1>1. cmd.rank \in Rank /\ cmd.bank \in Bank /\ cmd.sub \in SubArray /\ cmd.type \in CommandType
  BY DEF Commands
<1>2. e \in ResponseType /\ e.rank = cmd.rank /\ e.kind = "rank"
  BY <1>1 DEF Response, ResponseType
<1> HIDE DEF e
<1>3. /\ one \in Seq(ResponseType) /\ DOMAIN one = 1 .. 1
      /\ \A i \in DOMAIN one : one[i].rank = cmd.rank /\ one[i].kind = "rank"
  BY <1>2
<1> HIDE DEF one
<1>4. look = CASE cmd.type = "READ_PRECHARGE" -> [in |-> tAL + tRTP, list |-> one]
               [] cmd.type = "WRITE_PRECHARGE" -> [in |-> tAL + tCWD + tBURST + tWR, list |-> one]
               [] cmd.type = "REFRESH" -> [in |-> tRFC, list |-> one]
               [] OTHER -> [in |-> 0, list |-> <<>>]
  BY DEF RankResponses, one, e
<1> HIDE DEF look
<1>5. CASE cmd.type = "READ_PRECHARGE"
  <2>1. look.in = tAL + tRTP /\ look.list = one
    BY <1>4, <1>5
  <2>2. /\ tAL + tRTP \in 0 .. Latest
        /\ SubArrayResponse(cmd.type).in = tAL + tRTP
    BY <1>1, <1>5, LatestIsLatest, AnnouncedResponse DEF Closing
  <2> QED
    BY <1>3, <2>1, <2>2 DEF look
<1>6. CASE cmd.type = "WRITE_PRECHARGE"
  <2>1. look.in = tAL + tCWD + tBURST + tWR /\ look.list = one
    BY <1>4, <1>6
  <2>2. /\ tAL + tCWD + tBURST + tWR \in 0 .. Latest
        /\ SubArrayResponse(cmd.type).in = tAL + tCWD + tBURST + tWP + tWR
    BY <1>1, <1>6, LatestIsLatest, AnnouncedResponse DEF Closing
  <2>3. tWP = 0 => tAL + tCWD + tBURST + tWP + tWR = tAL + tCWD + tBURST + tWR
    BY DelaysAreNatural
  <2>4. tWP = 0 => look.in = SubArrayResponse(cmd.type).in
    BY <2>1, <2>2, <2>3
  <2>5. cmd.type # "REFRESH"
    BY <1>6
  <2> QED
    BY <1>3, <2>1, <2>2, <2>4, <2>5 DEF look
<1>7. CASE cmd.type = "REFRESH"
  <2>1. look.in = tRFC /\ look.list = one
    BY <1>4, <1>7
  <2>2. /\ tRFC \in 0 .. Latest
        /\ SubArrayResponse(cmd.type).in = tRFC
    BY <1>1, <1>7, LatestIsLatest, AnnouncedResponse
  <2> QED
    BY <1>3, <2>1, <2>2 DEF look
<1>8. CASE cmd.type \notin Closing \cup {"REFRESH"}
  <2>1. look.in = 0 /\ look.list = <<>>
    BY <1>4, <1>8 DEF Closing
  <2>2. 0 \in 0 .. Latest /\ <<>> \in Seq(ResponseType) /\ DOMAIN <<>> = {}
    BY LatestIsLatest
  <2> QED
    BY <1>8, <2>1, <2>2 DEF look
<1> QED
  BY <1>5, <1>6, <1>7, <1>8 DEF Closing
-----------------------------------------------------------------------------
\* The queue after a command: what was in it stays, and what the command announces
\* is behind it, once, with the rank's look behind the responses that need one.
NeedsLook(type) == type = "REFRESH" \/ (type \in Closing /\ tWP = 0)

LookBehind(queue, c, i, r) ==
  \E j \in DOMAIN queue[c] : j > i /\ queue[c][j].kind = "rank" /\ queue[c][j].rank = r

QueueMoved(q, after, cmd, list) ==
  LET in == SubArrayResponse(cmd.type).in
  IN  /\ after \in QueueType
      /\ \A c \in 0 .. Latest : \A i \in DOMAIN q[c] : i \in DOMAIN after[c] /\ after[c][i] = q[c][i]
      /\ \A c \in 0 .. Latest : \A i \in DOMAIN after[c] \ DOMAIN q[c] :
           /\ after[c][i].rank = cmd.rank
           /\ after[c][i].kind # "rank" => c = in /\ after[c][i] \in ToSet(list)
           /\ after[c][i].kind # "rank" /\ NeedsLook(cmd.type) => LookBehind(after, c, i, cmd.rank)
      /\ \A c, d \in 0 .. Latest :
           \A i \in DOMAIN after[c] \ DOMAIN q[c], j \in DOMAIN after[d] \ DOMAIN q[d] :
             after[c][i].kind # "rank" /\ after[c][i] = after[d][j] => c = d /\ i = j
      /\ \A e \in ToSet(list) : \E i \in DOMAIN after[in] : after[in][i] = e

\* The queue after a command.
LEMMA QueueAfterCommand ==
  ASSUME IsChannel, NEW k, k.bank \in [Bank -> BankType],
         \A b \in Bank : Distinct(k.bank[b].active), NEW cmd \in Commands, NEW q \in QueueType,
         NEW after, after = InsertEvent(InsertEvent(q, Responses(k, cmd)[1]), Responses(k, cmd)[2])
  PROVE  QueueMoved(q, after, cmd, Announced(k, cmd))
<1> DEFINE new == BankResponses(k, cmd)
           look == RankResponses(cmd)
           mid == InsertEvent(q, new)
           in == SubArrayResponse(cmd.type).in
           follows == NeedsLook(cmd.type)
           kind == SubArrayResponse(cmd.type).kind
<1>1. after = InsertEvent(mid, look)
  BY DEF Responses
<1>2. /\ new.in \in 0 .. Latest /\ new.list \in Seq(ResponseType) /\ Distinct(new.list)
      /\ new.in = in
      /\ \A i \in DOMAIN new.list : new.list[i].rank = cmd.rank /\ new.list[i].kind = kind
  BY AnnouncedList
<1>3. /\ look.in \in 0 .. Latest /\ look.list \in Seq(ResponseType)
      /\ \A i \in DOMAIN look.list : look.list[i].rank = cmd.rank /\ look.list[i].kind = "rank"
      /\ cmd.type \in Closing \cup {"REFRESH"} => DOMAIN look.list = 1 .. 1
      /\ follows => look.in = in
  BY AnnouncedLook DEF NeedsLook
<1> HIDE DEF new, look, mid, in, follows, kind
<1>4. /\ mid \in QueueType
      /\ \A c \in 0 .. Latest : \A i \in DOMAIN q[c] : i \in DOMAIN mid[c] /\ mid[c][i] = q[c][i]
      /\ \A j \in DOMAIN new.list :
           Len(q[in]) + j \in DOMAIN mid[in] /\ mid[in][Len(q[in]) + j] = new.list[j]
      /\ \A c \in 0 .. Latest : \A i \in DOMAIN mid[c] :
           i \in DOMAIN q[c] \/ (c = in /\ \E j \in DOMAIN new.list : i = Len(q[c]) + j)
  <2>1. Inserted(q, mid, new.in, new.list)
    BY <1>2, InsertedEvents, Zenon DEF mid
  <2> QED
    BY <1>2, <2>1 DEF Inserted
<1>5. /\ after \in QueueType
      /\ \A c \in 0 .. Latest : \A i \in DOMAIN mid[c] : i \in DOMAIN after[c] /\ after[c][i] = mid[c][i]
      /\ \A j \in DOMAIN look.list :
           /\ Len(mid[look.in]) + j \in DOMAIN after[look.in]
           /\ after[look.in][Len(mid[look.in]) + j] = look.list[j]
      /\ \A c \in 0 .. Latest : \A i \in DOMAIN after[c] :
           i \in DOMAIN mid[c] \/ (c = look.in /\ \E j \in DOMAIN look.list : i = Len(mid[c]) + j)
  <2>1. Inserted(mid, after, look.in, look.list)
    BY <1>1, <1>3, <1>4, InsertedEvents, Zenon
  <2> QED
    BY <2>1 DEF Inserted
<1>6. \A c \in 0 .. Latest : \A i \in DOMAIN q[c] : i \in DOMAIN after[c] /\ after[c][i] = q[c][i]
  BY <1>4, <1>5
<1>7. ASSUME NEW c \in 0 .. Latest, NEW i \in DOMAIN after[c], i \notin DOMAIN mid[c]
      PROVE  after[c][i].rank = cmd.rank /\ after[c][i].kind = "rank"
  <2>1. PICK j \in DOMAIN look.list : c = look.in /\ i = Len(mid[c]) + j
    BY <1>5, <1>7
  <2>2. after[c][i] = look.list[j]
    BY <1>5, <2>1
  <2> QED
    BY <1>3, <2>2
<1>8. ASSUME NEW c \in 0 .. Latest, NEW i \in DOMAIN mid[c], i \notin DOMAIN q[c]
      PROVE  /\ c = in
             /\ \E j \in DOMAIN new.list : i = Len(q[in]) + j /\ after[c][i] = new.list[j]
             /\ after[c][i].rank = cmd.rank
  <2>1. PICK j \in DOMAIN new.list : c = in /\ i = Len(q[c]) + j
    BY <1>4, <1>8
  <2>2. after[c][i] = new.list[j]
    BY <1>4, <1>5, <1>8, <2>1
  <2> QED
    BY <1>2, <2>1, <2>2
<1>9. ASSUME NEW c \in 0 .. Latest, NEW i \in DOMAIN after[c] \ DOMAIN q[c]
      PROVE  /\ after[c][i].rank = cmd.rank
             /\ after[c][i].kind # "rank" => c = in /\ after[c][i] \in ToSet(new.list)
             /\ after[c][i].kind # "rank" /\ follows => LookBehind(after, c, i, cmd.rank)
  <2>1. CASE i \notin DOMAIN mid[c]
    BY <1>7, <2>1
  <2>2. CASE i \in DOMAIN mid[c]
    <3>1. c = in /\ after[c][i].rank = cmd.rank /\ after[c][i] \in ToSet(new.list)
      BY <1>8, <2>2 DEF ToSet
    <3>2. ASSUME follows PROVE LookBehind(after, c, i, cmd.rank)
      <4>1. look.in = c /\ 1 \in DOMAIN look.list
        BY <1>3, <3>1, <3>2 DEF follows, NeedsLook
      <4>2. Len(mid[c]) + 1 \in DOMAIN after[c] /\ after[c][Len(mid[c]) + 1] = look.list[1]
        BY <1>5, <4>1
      <4>3. mid[c] \in Seq(ResponseType)
        BY <1>4 DEF QueueType
      <4>4. Len(mid[c]) + 1 > i
        BY <2>2, <4>3
      <4> QED
        BY <1>3, <4>1, <4>2, <4>4 DEF LookBehind
    <3> QED
      BY <3>1, <3>2
  <2> QED
    BY <2>1, <2>2
<1>10. ASSUME NEW c \in 0 .. Latest, NEW d \in 0 .. Latest,
              NEW i \in DOMAIN after[c] \ DOMAIN q[c], NEW j \in DOMAIN after[d] \ DOMAIN q[d],
              after[c][i].kind # "rank", after[c][i] = after[d][j]
       PROVE  c = d /\ i = j
  <2>1. i \in DOMAIN mid[c] /\ j \in DOMAIN mid[d]
    BY <1>7, <1>10
  <2>2. PICK x \in DOMAIN new.list : i = Len(q[in]) + x /\ after[c][i] = new.list[x] /\ c = in
    BY <1>8, <2>1
  <2>3. PICK y \in DOMAIN new.list : j = Len(q[in]) + y /\ after[d][j] = new.list[y] /\ d = in
    BY <1>8, <2>1
  <2>4. x = y
    BY <1>2, <1>10, <2>2, <2>3 DEF Distinct
  <2> QED
    BY <2>2, <2>3, <2>4
<1>11. ASSUME NEW e \in ToSet(new.list) PROVE \E i \in DOMAIN after[in] : after[in][i] = e
  <2>1. PICK j \in DOMAIN new.list : e = new.list[j]
    BY DEF ToSet
  <2>2. Len(q[in]) + j \in DOMAIN mid[in] /\ mid[in][Len(q[in]) + j] = new.list[j] /\ in \in 0 .. Latest
    BY <1>2, <1>4
  <2>3. Len(q[in]) + j \in DOMAIN after[in] /\ after[in][Len(q[in]) + j] = e
    BY <1>5, <2>1, <2>2
  <2> QED
    BY <2>3
<1> QED
  BY <1>5, <1>6, <1>9, <1>10, <1>11 DEF QueueMoved, new, in, follows, Announced

\* The row of subarray s of bank b is going to close itself.
Closes(q, r, b, s) ==
  \E c \in 0 .. Latest : \E i \in DOMAIN q[c] : q[c][i] = Response("implicit precharge", r, b, s)

Quiet(q, r, b, s) == \A c \in 0 .. Latest : \A i \in DOMAIN q[c] : ~ Answers(q[c][i], r, b, s)

\* A subarray waits for one response at most, which finds it as it has to be, and
\* accepts nothing before its row has closed itself.
Finds(e, sa, c) ==
  /\ sa.state = Expected(e.kind)
  /\ e.kind = "implicit precharge" => \A x \in Constraint : sa.wait[x] >= c

SubArrayInv(q, sa, r, b, s) ==
  /\ \A c \in 0 .. Latest : \A i \in DOMAIN q[c] : Answers(q[c][i], r, b, s) => Finds(q[c][i], sa, c)
  /\ \A c, d \in 0 .. Latest : \A i \in DOMAIN q[c], j \in DOMAIN q[d] :
       Answers(q[c][i], r, b, s) /\ Answers(q[d][j], r, b, s) => c = d /\ i = j

\* BanksKnowTheirOpenRows of one bank.
BankInv(q, bank, r, b) ==
  /\ Distinct(bank.active)
  /\ \A s \in SubArray : s \in ToSet(bank.active) <=> bank.sub[s].state = "OPEN" /\ ~ Closes(q, r, b, s)
  /\ bank.state = "OPEN" <=> bank.active # <<>>

RowsInv(q, k, r) ==
  \A b \in Bank : /\ BankInv(q, k.bank[b], r, b)
                  /\ \A s \in SubArray : SubArrayInv(q, k.bank[b].sub[s], r, b, s)

Touches(k, cmd, b, s) == b \in ToSet(Banks(cmd)) /\ s \in ToSet(Addressed(k.bank[b], cmd))

LEMMA ImplicitAnswers ==
  \A q, r, b, s : Quiet(q, r, b, s) => ~ Closes(q, r, b, s)
<1> SUFFICES ASSUME NEW q, NEW r, NEW b, NEW s, Quiet(q, r, b, s), Closes(q, r, b, s) PROVE FALSE
  OBVIOUS
<1>1. PICK c \in 0 .. Latest : \E i \in DOMAIN q[c] : q[c][i] = Response("implicit precharge", r, b, s)
  BY DEF Closes
<1>2. PICK i \in DOMAIN q[c] : q[c][i] = Response("implicit precharge", r, b, s)
  BY <1>1
<1> DEFINE e == Response("implicit precharge", r, b, s)
<1>3. e.kind = "implicit precharge"
  BY DEF Response
<1>4. Answers(q[c][i], r, b, s)
  BY <1>2, <1>3 DEF Answers
<1> QED
  BY <1>4 DEF Quiet

\* What accepts a command waits for no response.
LEMMA AcceptingIsQuiet ==
  ASSUME IsChannel, NEW q \in QueueType, q[0] = <<>>, NEW r, NEW b, NEW s, NEW sa \in SubArrayType,
         SubArrayInv(q, sa, r, b, s), NEW type \in CommandType, SubArrayAccepts(sa, type)
  PROVE  Quiet(q, r, b, s)
<1> SUFFICES ASSUME NEW c \in 0 .. Latest, NEW i \in DOMAIN q[c], Answers(q[c][i], r, b, s) PROVE FALSE
  BY DEF Quiet
<1>1. q[c] \in Seq(ResponseType) /\ Latest \in Nat
  BY LatestIsLatest DEF QueueType
<1>2. q[c][i] \in ResponseType
  BY <1>1
<1>3. q[c][i].kind \in {"implicit precharge", "precharge", "refresh"}
  BY <1>2 DEF ResponseType, Answers
<1>4. /\ sa.state = Expected(q[c][i].kind)
      /\ q[c][i].kind = "implicit precharge" => \A x \in Constraint : sa.wait[x] >= c
  <2>1. Finds(q[c][i], sa, c)
    BY DEF SubArrayInv
  <2> DEFINE e == q[c][i]
  <2> HIDE DEF e
  <2>2. Finds(e, sa, c)
    BY <2>1 DEF e
  <2>3. /\ sa.state = Expected(e.kind)
        /\ e.kind = "implicit precharge" => \A x \in Constraint : sa.wait[x] >= c
    BY <2>2 DEF Finds
  <2> QED
    BY <2>3 DEF e
<1>5. /\ \E x \in Constraint : sa.wait[x] = 0
      /\ sa.state \in {"OPEN", "CLOSED"}
  BY AcceptingState DEF CommandType, Precharging
<1>6. q[c][i].kind = "implicit precharge"
  BY <1>3, <1>4, <1>5 DEF Expected
<1>7. c # 0
  BY <1>1 DEF QueueType
<1>8. PICK x \in Constraint : sa.wait[x] = 0
  BY <1>5
<1>9. 0 >= c
  BY <1>4, <1>6, <1>8
<1> QED
  BY <1>1, <1>7, <1>9

\* The parts of a rank after a command.
LEMMA RankAfterFields ==
  ASSUME NEW k, NEW cmd
  PROVE  /\ DOMAIN RankAfter(k, cmd) = {"state", "wait", "raw", "bank"}
         /\ RankAfter(k, cmd).state = RankStateAfter(k.state, RankAfter(k, cmd).bank, cmd.type)
         /\ RankAfter(k, cmd).wait = RankWaits(k.wait, cmd.type)
         /\ RankAfter(k, cmd).raw = IF Activates(cmd) THEN Append(Tail(k.raw), tRAW) ELSE k.raw
         /\ RankAfter(k, cmd).bank = [b \in Bank |-> IF b \in ToSet(Banks(cmd)) THEN BankAfter(k.bank[b], cmd)
                                                     ELSE k.bank[b]]
<1> DEFINE banks == [b \in Bank |-> IF b \in ToSet(Banks(cmd)) THEN BankAfter(k.bank[b], cmd) ELSE k.bank[b]]
           state == RankStateAfter(k.state, banks, cmd.type)
           wait == RankWaits(k.wait, cmd.type)
           raw == IF Activates(cmd) THEN Append(Tail(k.raw), tRAW) ELSE k.raw
           new == RankAfter(k, cmd)
<1>1. new = [state |-> state, wait |-> wait, raw |-> raw, bank |-> banks]
  BY DEF RankAfter
<1> HIDE DEF banks, wait, raw, new
<1>2. new.bank = banks /\ new.wait = wait /\ new.raw = raw /\ DOMAIN new = {"state", "wait", "raw", "bank"}
  BY <1>1
<1>3. new.state = state
  <2> HIDE DEF state
  <2> QED
    BY <1>1
<1> QED
  BY <1>2, <1>3 DEF banks, wait, raw, new

\* The banks after a command.
BanksMoved(k, new, cmd) ==
  /\ new \in [Bank -> BankType]
  /\ \A b \in Bank :
       /\ Distinct(new[b].active)
       /\ new[b].state = "OPEN" <=> new[b].active # <<>>
       /\ ToSet(new[b].active) =
            IF b \notin ToSet(Banks(cmd)) THEN ToSet(k.bank[b].active)
            ELSE IF cmd.type = "ACTIVATE" THEN ToSet(k.bank[b].active) \cup {cmd.sub}
            ELSE IF Leaves(cmd.type) THEN ToSet(k.bank[b].active) \ {cmd.sub}
            ELSE IF cmd.type = "PRECHARGE_ALL" THEN {} ELSE ToSet(k.bank[b].active)
       /\ \A s \in SubArray :
            new[b].sub[s] = IF Touches(k, cmd, b, s)
                            THEN AfterCommand(k.bank[b].sub[s], cmd.type) ELSE k.bank[b].sub[s]

LEMMA BanksAfterCommand ==
  ASSUME IsChannel, NEW k, k.bank \in [Bank -> BankType], NEW cmd \in Commands, RankAccepts(k, cmd),
         NEW q, RowsInv(q, k, cmd.rank)
  PROVE  BanksMoved(k, RankAfter(k, cmd).bank, cmd)
<1> DEFINE new == RankAfter(k, cmd).bank
           touched == ToSet(Banks(cmd))
<1>1. new = [b \in Bank |-> IF b \in touched THEN BankAfter(k.bank[b], cmd) ELSE k.bank[b]]
  BY RankAfterFields
<1> HIDE DEF new, touched
<1>2. cmd.type \in CommandType /\ cmd.sub \in SubArray
  BY DEF Commands
<1>3. ASSUME NEW b \in Bank
      PROVE  /\ new[b] \in BankType
             /\ Distinct(new[b].active)
             /\ new[b].state = "OPEN" <=> new[b].active # <<>>
             /\ ToSet(new[b].active) =
                       IF b \notin touched THEN ToSet(k.bank[b].active)
                       ELSE IF cmd.type = "ACTIVATE" THEN ToSet(k.bank[b].active) \cup {cmd.sub}
                       ELSE IF Leaves(cmd.type) THEN ToSet(k.bank[b].active) \ {cmd.sub}
                       ELSE IF cmd.type = "PRECHARGE_ALL" THEN {} ELSE ToSet(k.bank[b].active)
             /\ \A s \in SubArray :
                       new[b].sub[s] = IF b \in touched /\ s \in ToSet(Addressed(k.bank[b], cmd))
                                       THEN AfterCommand(k.bank[b].sub[s], cmd.type) ELSE k.bank[b].sub[s]
  <2> DEFINE bank == k.bank[b]
  <2>1. bank \in BankType
    OBVIOUS
  <2>2. BankInv(q, bank, cmd.rank, b)
    BY DEF RowsInv
  <2> HIDE DEF bank
  <2>3. /\ Distinct(bank.active)
        /\ bank.state = "OPEN" <=> bank.active # <<>>
        /\ \A s \in SubArray : s \in ToSet(bank.active) => bank.sub[s].state = "OPEN"
    BY <2>2 DEF BankInv
  <2>4. CASE b \notin touched
    <3>1. new[b] = bank
      BY <1>1, <2>4 DEF bank
    <3> QED
      BY <2>1, <2>3, <2>4, <3>1 DEF bank
  <2>5. CASE b \in touched
    <3>1. new[b] = BankAfter(bank, cmd)
      BY <1>1, <2>5 DEF bank
    <3>2. BankAccepts(bank, cmd)
      BY <2>5 DEF RankAccepts, touched, bank
    <3>3. ASSUME cmd.type = "ACTIVATE" PROVE cmd.sub \notin ToSet(bank.active)
      <4>1. cmd.sub \in ToSet(Addressed(bank, cmd))
        BY <2>1, <3>3, TouchedSubArrays
      <4>2. SubArrayAccepts(bank.sub[cmd.sub], cmd.type)
        BY <3>2, <4>1 DEF BankAccepts
      <4>3. bank.sub[cmd.sub].state = "CLOSED"
        BY <1>2, <3>3, <4>2, AcceptingState
      <4> QED
        BY <1>2, <2>3, <4>3
    <3> DEFINE after == BankAfter(bank, cmd)
    <3>4. /\ after \in BankType
          /\ Distinct(after.active)
          /\ ToSet(after.active) =
                  IF cmd.type = "ACTIVATE" THEN ToSet(bank.active) \cup {cmd.sub}
                  ELSE IF Leaves(cmd.type) THEN ToSet(bank.active) \ {cmd.sub}
                  ELSE IF cmd.type = "PRECHARGE_ALL" THEN {} ELSE ToSet(bank.active)
          /\ (bank.state = "OPEN" <=> bank.active # <<>>) => (after.state = "OPEN" <=> after.active # <<>>)
          /\ \A s \in SubArray :
                  after.sub[s] = IF s \in ToSet(Addressed(bank, cmd))
                                 THEN AfterCommand(bank.sub[s], cmd.type) ELSE bank.sub[s]
      BY <2>1, <2>3, <3>3, CommandedBank
    <3>5. new[b] = after
      BY <3>1
    <3> HIDE DEF after
    <3> QED
      BY <2>3, <2>5, <3>4, <3>5 DEF bank
  <2> QED
    BY <2>4, <2>5
<1>4. new \in [Bank -> BankType]
  BY <1>1, <1>3
<1> QED
  BY <1>3, <1>4 DEF BanksMoved, new, touched, Touches

\* A command keeps the type of a rank.
LEMMA RankTypeAfterCommand ==
  ASSUME IsChannel, NEW k \in RankType, NEW cmd \in Commands, RankAccepts(k, cmd),
         NEW q, RowsInv(q, k, cmd.rank)
  PROVE  RankAfter(k, cmd) \in RankType
<1> DEFINE new == RankAfter(k, cmd)
<1>1. /\ k.state \in {"OPEN", "CLOSED", "REFRESHING"} /\ k.wait \in Waits
      /\ k.raw \in [1 .. RAW -> Nat] /\ k.bank \in [Bank -> BankType] /\ RAW \in Nat
  BY DelaysAreNatural DEF RankType, Waits
<1>2. k.raw \in Window
  BY <1>1 DEF Window
<1>3. /\ new.state = RankStateAfter(k.state, new.bank, cmd.type)
      /\ new.wait = RankWaits(k.wait, cmd.type)
      /\ new.raw = IF Activates(cmd) THEN Append(Tail(k.raw), tRAW) ELSE k.raw
  BY RankAfterFields
<1>4. DOMAIN new = {"state", "wait", "raw", "bank"}
      /\ new = [state |-> new.state, wait |-> new.wait, raw |-> new.raw, bank |-> new.bank]
  BY DEF RankAfter
<1>5. new.bank \in [Bank -> BankType]
  BY <1>1, BanksAfterCommand DEF BanksMoved
<1>6. cmd.type \in CommandType
  BY DEF Commands
<1> HIDE DEF new
<1>7. new.state \in {"OPEN", "CLOSED", "REFRESHING"}
  BY <1>1, <1>3 DEF RankStateAfter
<1>8. new.wait \in [Constraint -> Nat]
  <2>1. CASE cmd.type \in Reads
    BY <1>1, <1>3, <2>1, WaitsAfterRead DEF Waits
  <2>2. CASE cmd.type \in Writes
    BY <1>1, <1>3, <2>2, WaitsAfterWrite DEF Waits
  <2>3. CASE cmd.type \notin Reads \cup Writes
    BY <1>1, <1>3, <1>6, <2>3, WaitsAfterOther DEF Waits
  <2> QED
    BY <2>1, <2>2, <2>3
<1>9. new.raw \in [1 .. RAW -> Nat]
  <2>1. Append(Tail(k.raw), tRAW) \in Window
    BY <1>2, WindowMoves
  <2>2. new.raw \in Window
    BY <1>2, <1>3, <2>1
  <2> QED
    BY <1>1, <2>2 DEF Window
<1> DEFINE st == new.state
           wt == new.wait
           rw == new.raw
           bk == new.bank
<1>10. new = [state |-> st, wait |-> wt, raw |-> rw, bank |-> bk]
  BY <1>4
<1> HIDE DEF st, wt, rw, bk
<1> QED
  BY <1>5, <1>7, <1>8, <1>9, <1>10 DEF RankType, st, wt, rw, bk, new

\* What happens to the queue of one rank when a command is issued to another.
QueueKept(q, after, r) ==
  /\ after \in QueueType
  /\ \A c \in 0 .. Latest : \A i \in DOMAIN q[c] : i \in DOMAIN after[c] /\ after[c][i] = q[c][i]
  /\ \A c \in 0 .. Latest : \A i \in DOMAIN after[c] : i \in DOMAIN q[c] \/ after[c][i].rank # r

LEMMA AnswersTheRank == \A e, r, b, s : Answers(e, r, b, s) => e.rank = r
<1> SUFFICES ASSUME NEW e, NEW r, NEW b, NEW s, Answers(e, r, b, s) PROVE e.rank = r
  OBVIOUS
<1> DEFINE f == Response(e.kind, r, b, s)
<1>1. f.rank = r
  BY DEF Response
<1>2. e = f
  BY DEF Answers
<1> HIDE DEF f
<1> QED
  BY <1>1, <1>2

LEMMA ClosingAnswers ==
  \A e, r, b, s : e = Response("implicit precharge", r, b, s) <=>
                    Answers(e, r, b, s) /\ e.kind = "implicit precharge"
<1> SUFFICES ASSUME NEW e, NEW r, NEW b, NEW s
             PROVE  e = Response("implicit precharge", r, b, s) <=>
                      Answers(e, r, b, s) /\ e.kind = "implicit precharge"
  OBVIOUS
<1> DEFINE f == Response("implicit precharge", r, b, s)
<1>1. f.kind = "implicit precharge"
  BY DEF Response
<1>2. ASSUME e = f PROVE Answers(e, r, b, s) /\ e.kind = "implicit precharge"
  <2>1. e.kind = "implicit precharge"
    BY <1>1, <1>2
  <2> HIDE DEF f
  <2>2. e = Response(e.kind, r, b, s)
    BY <1>2, <2>1 DEF f
  <2> QED
    BY <2>1, <2>2 DEF Answers
<1>3. ASSUME Answers(e, r, b, s), e.kind = "implicit precharge" PROVE e = f
  BY <1>3 DEF Answers
<1> QED
  BY <1>2, <1>3

\* A subarray for which nothing new comes.
LEMMA SubArrayInvKept ==
  ASSUME NEW q, NEW after, NEW sa, NEW r, NEW b, NEW s, SubArrayInv(q, sa, r, b, s),
         \A c \in 0 .. Latest : \A i \in DOMAIN after[c] :
           Answers(after[c][i], r, b, s) => i \in DOMAIN q[c] /\ after[c][i] = q[c][i]
  PROVE  SubArrayInv(after, sa, r, b, s)
<1>1. ASSUME NEW c \in 0 .. Latest, NEW i \in DOMAIN after[c], Answers(after[c][i], r, b, s)
      PROVE  i \in DOMAIN q[c] /\ after[c][i] = q[c][i] /\ Answers(q[c][i], r, b, s)
  <2>1. i \in DOMAIN q[c] /\ after[c][i] = q[c][i]
    BY <1>1
  <2> QED
    BY <1>1, <2>1
<1>2. ASSUME NEW c \in 0 .. Latest, NEW i \in DOMAIN after[c], Answers(after[c][i], r, b, s)
      PROVE  Finds(after[c][i], sa, c)
  <2>1. Finds(q[c][i], sa, c)
    BY <1>1, <1>2 DEF SubArrayInv
  <2>2. after[c][i] = q[c][i]
    BY <1>1, <1>2
  <2> QED
    BY <2>1, <2>2
<1>3. ASSUME NEW c \in 0 .. Latest, NEW d \in 0 .. Latest, NEW i \in DOMAIN after[c],
             NEW j \in DOMAIN after[d], Answers(after[c][i], r, b, s), Answers(after[d][j], r, b, s)
      PROVE  c = d /\ i = j
  BY <1>1, <1>3 DEF SubArrayInv
<1> QED
  BY <1>2, <1>3 DEF SubArrayInv

\* A command leaves the rows of the other ranks.
LEMMA OtherRowsKept ==
  ASSUME NEW q, NEW after, NEW r, QueueKept(q, after, r), NEW k, NEW new, new.bank = k.bank,
         RowsInv(q, k, r)
  PROVE  RowsInv(after, new, r)
<1>1. ASSUME NEW b, NEW s
      PROVE  /\ \A c \in 0 .. Latest : \A i \in DOMAIN after[c] :
                  Answers(after[c][i], r, b, s) => i \in DOMAIN q[c] /\ after[c][i] = q[c][i]
             /\ \A c \in 0 .. Latest : \A i \in DOMAIN q[c] :
                  i \in DOMAIN after[c] /\ after[c][i] = q[c][i]
  BY AnswersTheRank DEF QueueKept
<1>2. ASSUME NEW b, NEW s PROVE Closes(after, r, b, s) <=> Closes(q, r, b, s)
  <2>1. ASSUME NEW c \in 0 .. Latest, NEW i \in DOMAIN after[c],
               after[c][i] = Response("implicit precharge", r, b, s)
        PROVE  i \in DOMAIN q[c] /\ q[c][i] = Response("implicit precharge", r, b, s)
    <3>1. Answers(after[c][i], r, b, s)
      BY <2>1, ClosingAnswers, Zenon
    <3>2. i \in DOMAIN q[c] /\ after[c][i] = q[c][i]
      BY <1>1, <3>1
    <3> QED
      BY <2>1, <3>2
  <2> QED
    BY <1>1, <2>1 DEF Closes
<1>3. ASSUME NEW b, NEW s, NEW sa, SubArrayInv(q, sa, r, b, s) PROVE SubArrayInv(after, sa, r, b, s)
  <2>1. \A c \in 0 .. Latest : \A i \in DOMAIN after[c] :
          Answers(after[c][i], r, b, s) => i \in DOMAIN q[c] /\ after[c][i] = q[c][i]
    BY <1>1
  <2> QED
    BY <1>3, <2>1, SubArrayInvKept
<1>4. ASSUME NEW b, NEW bank, BankInv(q, bank, r, b) PROVE BankInv(after, bank, r, b)
  BY <1>2, <1>4 DEF BankInv
<1> QED
  BY <1>3, <1>4 DEF RowsInv

\* A command keeps what the banks of its rank know.
LEMMA CommandKeepsRows ==
  ASSUME IsChannel, NEW k \in RankType, NEW cmd \in Commands, RankAccepts(k, cmd),
         NEW q \in QueueType, q[0] = <<>>, RowsInv(q, k, cmd.rank),
         NEW after, after = InsertEvent(InsertEvent(q, Responses(k, cmd)[1]), Responses(k, cmd)[2])
  PROVE  RowsInv(after, RankAfter(k, cmd), cmd.rank)
<1> DEFINE r == cmd.rank
           new == RankAfter(k, cmd).bank
           in == SubArrayResponse(cmd.type).in
           kind == SubArrayResponse(cmd.type).kind
           list == Announced(k, cmd)
<1>1. k.bank \in [Bank -> BankType] /\ cmd.type \in CommandType /\ cmd.sub \in SubArray
  BY DEF RankType, Commands
<1>2. \A b \in Bank : Distinct(k.bank[b].active)
  BY DEF RowsInv, BankInv
<1>3. /\ new \in [Bank -> BankType]
      /\ \A b \in Bank :
                  /\ Distinct(new[b].active)
                  /\ new[b].state = "OPEN" <=> new[b].active # <<>>
                  /\ ToSet(new[b].active) =
                       IF b \notin ToSet(Banks(cmd)) THEN ToSet(k.bank[b].active)
                       ELSE IF cmd.type = "ACTIVATE" THEN ToSet(k.bank[b].active) \cup {cmd.sub}
                       ELSE IF Leaves(cmd.type) THEN ToSet(k.bank[b].active) \ {cmd.sub}
                       ELSE IF cmd.type = "PRECHARGE_ALL" THEN {} ELSE ToSet(k.bank[b].active)
                  /\ \A s \in SubArray :
                       new[b].sub[s] = IF Touches(k, cmd, b, s)
                                       THEN AfterCommand(k.bank[b].sub[s], cmd.type) ELSE k.bank[b].sub[s]
  <2>1. BanksMoved(k, new, cmd)
    BY <1>1, BanksAfterCommand
  <2> HIDE DEF new
  <2> QED
    BY <2>1 DEF BanksMoved
<1>4. /\ after \in QueueType
      /\ \A c \in 0 .. Latest : \A i \in DOMAIN q[c] : i \in DOMAIN after[c] /\ after[c][i] = q[c][i]
      /\ \A c \in 0 .. Latest : \A i \in DOMAIN after[c] \ DOMAIN q[c] :
              after[c][i].kind # "rank" => c = in /\ after[c][i] \in ToSet(list)
      /\ \A c, d \in 0 .. Latest :
              \A i \in DOMAIN after[c] \ DOMAIN q[c], j \in DOMAIN after[d] \ DOMAIN q[d] :
                after[c][i].kind # "rank" /\ after[c][i] = after[d][j] => c = d /\ i = j
      /\ \A e \in ToSet(list) : \E i \in DOMAIN after[in] : after[in][i] = e
  <2>1. QueueMoved(q, after, cmd, list)
    BY <1>1, <1>2, QueueAfterCommand
  <2> HIDE DEF list, in
  <2> QED
    BY <2>1 DEF QueueMoved, in
<1>5. /\ \A e \in ToSet(list) : e.kind = kind
      /\ \A b \in Bank, s \in SubArray :
           Response(kind, r, b, s) \in ToSet(list) <=> kind # "none" /\ Touches(k, cmd, b, s)
  <2>1. /\ \A i \in DOMAIN list : list[i].kind = kind
        /\ \A b \in Bank, s \in SubArray :
             Response(kind, r, b, s) \in ToSet(list) <=> kind # "none" /\ Touches(k, cmd, b, s)
    BY <1>1, <1>2, AnnouncedList DEF Announced, Touches
  <2> HIDE DEF list, kind
  <2> QED
    BY <2>1 DEF ToSet
<1>6. /\ in \in 0 .. Latest
      /\ kind = IF cmd.type \in Closing THEN "implicit precharge"
                ELSE IF cmd.type \in Precharging THEN "precharge"
                ELSE IF cmd.type = "REFRESH" THEN "refresh" ELSE "none"
      /\ cmd.type \in Closing => in = ImplicitPrecharge(cmd.type)
  BY <1>1, AnnouncedResponse
<1> HIDE DEF r, new, in, kind, list
\* A new response for a subarray comes from the command that touched it.
<1>7. ASSUME NEW b \in Bank, NEW s \in SubArray, NEW c \in 0 .. Latest,
             NEW i \in DOMAIN after[c], Answers(after[c][i], r, b, s), i \notin DOMAIN q[c]
      PROVE  Touches(k, cmd, b, s) /\ c = in /\ after[c][i] = Response(kind, r, b, s)
             /\ after[c][i].kind = kind
  <2>1. c = in /\ after[c][i] \in ToSet(list)
    BY <1>4, <1>7 DEF Answers
  <2>2. after[c][i].kind = kind
    BY <1>5, <2>1
  <2>3. after[c][i] = Response(kind, r, b, s)
    BY <1>7, <2>2 DEF Answers
  <2> QED
    BY <1>5, <2>1, <2>2, <2>3
<1>8. ASSUME NEW b \in Bank, NEW s \in SubArray, Touches(k, cmd, b, s)
      PROVE  SubArrayAccepts(k.bank[b].sub[s], cmd.type) /\ Quiet(q, r, b, s)
  <2>1. SubArrayAccepts(k.bank[b].sub[s], cmd.type)
    BY <1>8 DEF Touches, RankAccepts, BankAccepts
  <2>2. k.bank[b].sub[s] \in SubArrayType /\ SubArrayInv(q, k.bank[b].sub[s], r, b, s)
    BY <1>1 DEF BankType, RowsInv, r
  <2> QED
    BY <1>1, <2>1, <2>2, AcceptingIsQuiet
<1>9. ASSUME NEW b \in Bank, NEW s \in SubArray
      PROVE  SubArrayInv(after, new[b].sub[s], r, b, s)
  <2>1. CASE ~ Touches(k, cmd, b, s)
    <3>1. new[b].sub[s] = k.bank[b].sub[s]
      BY <1>3, <2>1
    <3>2. SubArrayInv(q, k.bank[b].sub[s], r, b, s)
      BY DEF RowsInv, r
    <3>3. \A c \in 0 .. Latest : \A i \in DOMAIN after[c] :
            Answers(after[c][i], r, b, s) => i \in DOMAIN q[c] /\ after[c][i] = q[c][i]
      BY <1>4, <1>7, <2>1
    <3>4. SubArrayInv(after, k.bank[b].sub[s], r, b, s)
      BY <3>2, <3>3, SubArrayInvKept
    <3> QED
      BY <3>1, <3>4
  <2>2. CASE Touches(k, cmd, b, s)
    <3> DEFINE sa == k.bank[b].sub[s]
               na == new[b].sub[s]
    <3>1. Quiet(q, r, b, s) /\ SubArrayAccepts(sa, cmd.type)
      BY <1>8, <2>2
    <3>2. na = AfterCommand(sa, cmd.type) /\ sa \in SubArrayType
      BY <1>1, <1>3, <2>2 DEF BankType
    <3> HIDE DEF sa, na
    <3>3. ASSUME NEW c \in 0 .. Latest, NEW i \in DOMAIN after[c], Answers(after[c][i], r, b, s)
          PROVE  /\ i \notin DOMAIN q[c] /\ c = in
                 /\ after[c][i] = Response(kind, r, b, s) /\ after[c][i].kind = kind
      BY <1>4, <1>7, <3>1, <3>3 DEF Quiet
    <3>4. /\ na.state = IF cmd.type = "ACTIVATE" THEN "OPEN"
              ELSE IF cmd.type \in Precharging THEN "PRECHARGING"
              ELSE IF cmd.type = "REFRESH" THEN "REFRESHING" ELSE sa.state
          /\ cmd.type \in Closing => \A x \in Constraint : na.wait[x] >= ImplicitPrecharge(cmd.type)
      BY <1>1, <3>2, CommandedSubArray
    <3>5. cmd.type \in Closing => sa.state = "OPEN"
      BY <1>1, <3>1, AcceptingState DEF Closing, Reads, Writes
    <3>6. /\ kind # "none" => na.state = Expected(kind)
          /\ kind = "implicit precharge" => \A x \in Constraint : na.wait[x] >= in
      BY <1>6, <3>4, <3>5 DEF Expected, Closing, Precharging
    <3>7. ASSUME NEW c \in 0 .. Latest, NEW i \in DOMAIN after[c], Answers(after[c][i], r, b, s)
          PROVE  kind # "none"
      BY <1>4, <1>5, <3>3, <3>7 DEF Answers
    <3>8. ASSUME NEW c \in 0 .. Latest, NEW d \in 0 .. Latest, NEW i \in DOMAIN after[c],
                 NEW j \in DOMAIN after[d],
                 Answers(after[c][i], r, b, s), Answers(after[d][j], r, b, s)
          PROVE  c = d /\ i = j
      <4>1. i \notin DOMAIN q[c] /\ j \notin DOMAIN q[d] /\ after[c][i] = after[d][j]
        BY <3>3, <3>8
      <4>2. after[c][i].kind # "rank"
        BY <3>8 DEF Answers
      <4> QED
        BY <1>4, <4>1, <4>2
    <3>10. ASSUME NEW c \in 0 .. Latest, NEW i \in DOMAIN after[c], Answers(after[c][i], r, b, s)
           PROVE  Finds(after[c][i], na, c)
      <4> DEFINE e == after[c][i]
      <4>1. c = in /\ e.kind = kind /\ kind # "none"
        BY <3>3, <3>7, <3>10
      <4> HIDE DEF e
      <4>2. Finds(e, na, c)
        BY <3>6, <4>1 DEF Finds
      <4> QED
        BY <4>2 DEF e
    <3>9. SubArrayInv(after, na, r, b, s)
      BY <3>8, <3>10 DEF SubArrayInv
    <3> QED
      BY <3>9 DEF na
  <2> QED
    BY <2>1, <2>2
<1>10. ASSUME NEW b \in Bank, NEW s \in SubArray
       PROVE  Closes(after, r, b, s)
                <=> Closes(q, r, b, s) \/ (Touches(k, cmd, b, s) /\ cmd.type \in Closing)
  <2>1. ASSUME Closes(after, r, b, s)
        PROVE  Closes(q, r, b, s) \/ (Touches(k, cmd, b, s) /\ cmd.type \in Closing)
    <3>1. PICK c \in 0 .. Latest : \E i \in DOMAIN after[c] : after[c][i] = Response("implicit precharge", r, b, s)
      BY <2>1 DEF Closes
    <3>2. PICK i \in DOMAIN after[c] : after[c][i] = Response("implicit precharge", r, b, s)
      BY <3>1
    <3>3. Answers(after[c][i], r, b, s) /\ after[c][i].kind = "implicit precharge"
      BY <3>2, ClosingAnswers
    <3>4. CASE i \in DOMAIN q[c]
      <4>1. q[c][i] = Response("implicit precharge", r, b, s)
        BY <1>4, <3>2, <3>4
      <4> QED
        BY <3>4, <4>1 DEF Closes
    <3>5. CASE i \notin DOMAIN q[c]
      <4>1. Touches(k, cmd, b, s) /\ kind = "implicit precharge"
        BY <1>7, <3>3, <3>5
      <4> QED
        BY <1>6, <4>1
    <3> QED
      BY <3>4, <3>5
  <2>2. ASSUME Closes(q, r, b, s) PROVE Closes(after, r, b, s)
    <3>1. PICK c \in 0 .. Latest : \E i \in DOMAIN q[c] : q[c][i] = Response("implicit precharge", r, b, s)
      BY <2>2 DEF Closes
    <3>2. PICK i \in DOMAIN q[c] : q[c][i] = Response("implicit precharge", r, b, s)
      BY <3>1
    <3>3. i \in DOMAIN after[c] /\ after[c][i] = Response("implicit precharge", r, b, s)
      BY <1>4, <3>2
    <3> QED
      BY <3>3 DEF Closes
  <2>3. ASSUME Touches(k, cmd, b, s), cmd.type \in Closing PROVE Closes(after, r, b, s)
    <3>1. kind = "implicit precharge"
      BY <1>6, <2>3
    <3>2. Response("implicit precharge", r, b, s) \in ToSet(list)
      BY <1>5, <2>3, <3>1
    <3>3. \E i \in DOMAIN after[in] : after[in][i] = Response("implicit precharge", r, b, s)
      BY <1>4, <3>2
    <3> QED
      BY <1>6, <3>3 DEF Closes
  <2> QED
    BY <2>1, <2>2, <2>3
<1>11. ASSUME NEW b \in Bank, NEW s \in SubArray
       PROVE  s \in ToSet(new[b].active) <=> new[b].sub[s].state = "OPEN" /\ ~ Closes(after, r, b, s)
  <2> DEFINE sa == k.bank[b].sub[s]
             old == ToSet(k.bank[b].active)
             now == ToSet(new[b].active)
             na == new[b].sub[s]
  <2>1. /\ s \in old <=> sa.state = "OPEN" /\ ~ Closes(q, r, b, s)
        /\ k.bank[b] \in BankType
    BY <1>1 DEF RowsInv, BankInv, r
  <2>2. /\ now = IF b \notin ToSet(Banks(cmd)) THEN old
                       ELSE IF cmd.type = "ACTIVATE" THEN old \cup {cmd.sub}
                       ELSE IF Leaves(cmd.type) THEN old \ {cmd.sub}
                       ELSE IF cmd.type = "PRECHARGE_ALL" THEN {} ELSE old
        /\ na = IF Touches(k, cmd, b, s) THEN AfterCommand(sa, cmd.type) ELSE sa
    BY <1>3
  <2>3. sa \in SubArrayType
    BY <2>1 DEF BankType
  <2>4. /\ cmd.type = "PRECHARGE_ALL" => ToSet(Addressed(k.bank[b], cmd)) = old
        /\ cmd.type # "PRECHARGE_ALL" => ToSet(Addressed(k.bank[b], cmd)) = {cmd.sub}
    BY <2>1, TouchedSubArrays
  <2> HIDE DEF old, now, sa, na
  <2>5. CASE ~ Touches(k, cmd, b, s)
    <3>1. na = sa /\ (Closes(after, r, b, s) <=> Closes(q, r, b, s))
      BY <1>10, <2>2, <2>5
    <3>2. s \in now <=> s \in old
      BY <2>2, <2>4, <2>5 DEF Touches, Leaves
    <3> QED
      BY <2>1, <3>1, <3>2 DEF now, na
  <2>6. CASE Touches(k, cmd, b, s)
    <3>1. Quiet(q, r, b, s) /\ SubArrayAccepts(sa, cmd.type)
      BY <1>8, <2>6 DEF sa
    <3>2. ~ Closes(q, r, b, s) /\ (Closes(after, r, b, s) <=> cmd.type \in Closing)
      BY <1>10, <2>6, <3>1, ImplicitAnswers
    <3>3. na.state = IF cmd.type = "ACTIVATE" THEN "OPEN"
              ELSE IF cmd.type \in Precharging THEN "PRECHARGING"
              ELSE IF cmd.type = "REFRESH" THEN "REFRESHING" ELSE sa.state
      BY <1>1, <2>2, <2>3, <2>6, CommandedSubArray
    <3>4. /\ cmd.type \in {"ACTIVATE", "REFRESH"} => sa.state = "CLOSED"
          /\ cmd.type \in Reads \cup Writes => sa.state = "OPEN"
      BY <1>1, <3>1, AcceptingState
    <3>5. b \in ToSet(Banks(cmd)) /\ (cmd.type # "PRECHARGE_ALL" => s = cmd.sub)
      BY <2>4, <2>6 DEF Touches
    <3>6. CASE cmd.type = "ACTIVATE"
      <4>1. s \in now /\ na.state = "OPEN" /\ ~ Closes(after, r, b, s)
        BY <2>2, <3>2, <3>3, <3>5, <3>6 DEF Closing
      <4> QED
        BY <4>1 DEF now, na
    <3>7. CASE cmd.type \in Closing
      <4>1. s \notin now
        BY <2>2, <3>5, <3>7 DEF Closing, Leaves
      <4> QED
        BY <3>2, <3>7, <4>1 DEF now, na
    <3>8. CASE cmd.type \in Precharging
      <4>1. s \notin now /\ na.state = "PRECHARGING"
        BY <2>2, <3>3, <3>5, <3>8 DEF Precharging, Leaves
      <4> QED
        BY <4>1 DEF now, na
    <3>9. CASE cmd.type = "REFRESH"
      <4>1. s \notin now /\ na.state = "REFRESHING"
        BY <2>1, <2>2, <3>3, <3>4, <3>5, <3>9 DEF Precharging, Leaves
      <4> QED
        BY <4>1 DEF now, na
    <3>10. CASE cmd.type \in {"READ", "WRITE"}
      <4>1. (s \in now <=> s \in old) /\ na.state = sa.state /\ ~ Closes(after, r, b, s)
        BY <2>2, <3>2, <3>3, <3>5, <3>10 DEF Precharging, Leaves, Closing
      <4> QED
        BY <2>1, <3>2, <4>1 DEF now, na
    <3> QED
      BY <1>1, <3>6, <3>7, <3>8, <3>9, <3>10 DEF CommandType, Reads, Writes, Closing, Precharging
  <2> QED
    BY <2>5, <2>6
<1>12. \A b \in Bank : BankInv(after, new[b], r, b)
  BY <1>3, <1>11 DEF BankInv
<1> QED
  BY <1>9, <1>12 DEF RowsInv, new, r

\* StandbyMeansIdle of one rank, with the look that is still to come when the last
\* row has just closed.
StandbyInv(q, k, r) ==
  /\ k.state = "CLOSED" => RankIdle(k.bank)
  /\ tWP = 0 /\ RankIdle(k.bank) /\ k.state # "CLOSED" =>
       \E i \in DOMAIN q[0] : q[0][i].kind = "rank" /\ q[0][i].rank = r

\* The rank looks behind the responses that may close its last row.
Closer(e) == e.kind = "refresh" \/ (e.kind = "implicit precharge" /\ tWP = 0)
LooksInv(q) ==
  \A c \in 0 .. Latest : \A i \in DOMAIN q[c] : Closer(q[c][i]) => LookBehind(q, c, i, q[c][i].rank)

DeviceInv ==
  /\ TypeOK
  /\ LooksInv(responses)
  /\ \A r \in Rank : RowsInv(responses, rank[r], r) /\ StandbyInv(responses, rank[r], r)

\* Whatever a command makes close the last row is followed by a look.
LEMMA CommandKeepsLooks ==
  ASSUME IsChannel, NEW k, k.bank \in [Bank -> BankType],
         \A b \in Bank : Distinct(k.bank[b].active), NEW cmd \in Commands, NEW q \in QueueType,
         LooksInv(q), NEW after, QueueMoved(q, after, cmd, Announced(k, cmd))
  PROVE  LooksInv(after)
<1> DEFINE list == Announced(k, cmd)
           kind == SubArrayResponse(cmd.type).kind
<1>1. cmd.type \in CommandType
  BY DEF Commands
<1>2. \A e \in ToSet(list) : e.kind = kind
  <2>1. \A i \in DOMAIN list : list[i].kind = kind
    BY AnnouncedList DEF Announced
  <2> HIDE DEF list, kind
  <2> QED
    BY <2>1 DEF ToSet
<1>3. kind = IF cmd.type \in Closing THEN "implicit precharge"
                ELSE IF cmd.type \in Precharging THEN "precharge"
                ELSE IF cmd.type = "REFRESH" THEN "refresh" ELSE "none"
  BY <1>1, AnnouncedResponse
<1> HIDE DEF list, kind
<1>4. /\ \A c \in 0 .. Latest : \A i \in DOMAIN q[c] : i \in DOMAIN after[c] /\ after[c][i] = q[c][i]
      /\ \A c \in 0 .. Latest : \A i \in DOMAIN after[c] \ DOMAIN q[c] :
           /\ after[c][i].rank = cmd.rank
           /\ after[c][i].kind # "rank" => after[c][i] \in ToSet(list)
           /\ after[c][i].kind # "rank" /\ NeedsLook(cmd.type) => LookBehind(after, c, i, cmd.rank)
  BY DEF QueueMoved, list
<1> SUFFICES ASSUME NEW c \in 0 .. Latest, NEW i \in DOMAIN after[c], Closer(after[c][i])
             PROVE  LookBehind(after, c, i, after[c][i].rank)
  BY DEF LooksInv
<1>5. CASE i \in DOMAIN q[c]
  <2> DEFINE r == after[c][i].rank
  <2>1. after[c][i] = q[c][i]
    BY <1>4, <1>5
  <2>2. LookBehind(q, c, i, r)
    BY <1>5, <2>1 DEF LooksInv
  <2> HIDE DEF r
  <2>3. PICK j \in DOMAIN q[c] : j > i /\ q[c][j].kind = "rank" /\ q[c][j].rank = r
    BY <2>2 DEF LookBehind
  <2>4. j \in DOMAIN after[c] /\ after[c][j] = q[c][j]
    BY <1>4
  <2>5. LookBehind(after, c, i, r)
    BY <2>3, <2>4 DEF LookBehind
  <2> QED
    BY <2>5 DEF r
<1>6. CASE i \notin DOMAIN q[c]
  <2>1. after[c][i].kind # "rank"
    BY DEF Closer
  <2>2. after[c][i].kind = kind
    BY <1>2, <1>4, <1>6, <2>1
  <2>3. NeedsLook(cmd.type)
    BY <1>3, <2>2 DEF Closer, NeedsLook
  <2> QED
    BY <1>4, <1>6, <2>1, <2>3
<1> QED
  BY <1>5, <1>6

IdleStates == {"CLOSED", "PRECHARGING"}

LEMMA IdleRank ==
  \A banks : RankIdle(banks) <=> \A b \in Bank, s \in SubArray : banks[b].sub[s].state \in IdleStates
BY DEF RankIdle, BankIdle, SubArrayIdle, IdleStates

\* A command keeps the state of its rank true.
LEMMA CommandKeepsStandby ==
  ASSUME IsChannel, NEW k \in RankType, NEW cmd \in Commands, RankAccepts(k, cmd),
         NEW q, q[0] = <<>>, RowsInv(q, k, cmd.rank), StandbyInv(q, k, cmd.rank), NEW after
  PROVE  StandbyInv(after, RankAfter(k, cmd), cmd.rank)
<1> DEFINE new == RankAfter(k, cmd).bank
           state == RankAfter(k, cmd).state
<1>1. k.bank \in [Bank -> BankType] /\ cmd.type \in CommandType /\ cmd.sub \in SubArray /\ cmd.bank \in Bank
  BY DEF RankType, Commands
<1>2. BanksMoved(k, new, cmd)
  BY <1>1, BanksAfterCommand
<1>3. state = RankStateAfter(k.state, new, cmd.type)
  BY RankAfterFields
<1> HIDE DEF new, state
<1>4. /\ k.state = "CLOSED" => RankIdle(k.bank)
      /\ tWP = 0 /\ RankIdle(k.bank) => k.state = "CLOSED"
  BY DEF StandbyInv
<1>5. ASSUME NEW b \in Bank, NEW s \in SubArray
      PROVE  new[b].sub[s].state =
               IF ~ Touches(k, cmd, b, s) THEN k.bank[b].sub[s].state
               ELSE IF cmd.type = "ACTIVATE" THEN "OPEN"
               ELSE IF cmd.type \in Precharging THEN "PRECHARGING"
               ELSE IF cmd.type = "REFRESH" THEN "REFRESHING" ELSE k.bank[b].sub[s].state
  <2> DEFINE sa == k.bank[b].sub[s]
  <2>1. new[b].sub[s] = IF Touches(k, cmd, b, s) THEN AfterCommand(sa, cmd.type) ELSE sa
    BY <1>2 DEF BanksMoved
  <2>2. sa \in SubArrayType
    BY <1>1 DEF BankType
  <2> HIDE DEF sa
  <2>3. AfterCommand(sa, cmd.type).state =
              IF cmd.type = "ACTIVATE" THEN "OPEN"
              ELSE IF cmd.type \in Precharging THEN "PRECHARGING"
              ELSE IF cmd.type = "REFRESH" THEN "REFRESHING" ELSE sa.state
    BY <1>1, <2>2, CommandedSubArray
  <2> QED
    BY <2>1, <2>3 DEF sa
<1>6. cmd.type # "PRECHARGE_ALL" => Touches(k, cmd, cmd.bank, cmd.sub)
  BY <1>1, ReachedBanks, TouchedSubArrays DEF Touches
<1>7. CASE cmd.type \in {"ACTIVATE", "REFRESH"}
  <2>1. new[cmd.bank].sub[cmd.sub].state \notin IdleStates
    BY <1>1, <1>5, <1>6, <1>7 DEF IdleStates, Precharging
  <2>2. ~ RankIdle(new)
    BY <1>1, <2>1, IdleRank
  <2>3. state # "CLOSED"
    BY <1>3, <1>7 DEF RankStateAfter
  <2> QED
    BY <2>2, <2>3 DEF StandbyInv, new, state
<1>8. CASE cmd.type \in Precharging
  <2>1. ASSUME RankIdle(k.bank) PROVE RankIdle(new)
    <3>1. \A b \in Bank, s \in SubArray : new[b].sub[s].state \in IdleStates
      <4> SUFFICES ASSUME NEW b \in Bank, NEW s \in SubArray PROVE new[b].sub[s].state \in IdleStates
        OBVIOUS
      <4>1. k.bank[b].sub[s].state \in IdleStates
        BY <2>1, IdleRank
      <4> QED
        BY <1>5, <1>8, <4>1 DEF IdleStates, Precharging
    <3> QED
      BY <3>1, IdleRank
  <2>2. state = IF RankIdle(new) THEN "CLOSED" ELSE k.state
    BY <1>3, <1>8 DEF RankStateAfter, Precharging
  <2> QED
    BY <1>4, <2>1, <2>2 DEF StandbyInv, new, state
<1>9. CASE cmd.type \in Reads \cup Writes
  <2>1. \A b \in Bank, s \in SubArray : new[b].sub[s].state = k.bank[b].sub[s].state
    BY <1>5, <1>9 DEF Precharging, Reads, Writes
  <2>2. RankIdle(new) <=> RankIdle(k.bank)
    <3>1. (\A b \in Bank, s \in SubArray : new[b].sub[s].state \in IdleStates)
            <=> \A b \in Bank, s \in SubArray : k.bank[b].sub[s].state \in IdleStates
      BY <2>1
    <3> QED
      BY <3>1, IdleRank
  <2>3. state = k.state
    BY <1>3, <1>9 DEF RankStateAfter, Reads, Writes
  <2> QED
    BY <1>4, <2>2, <2>3 DEF StandbyInv, new, state
<1> QED
  BY <1>1, <1>7, <1>8, <1>9 DEF CommandType, Precharging

\* A rank taken apart.
LEMMA RankTypeIsRank ==
  ASSUME NEW k \in RankType
  PROVE  /\ IsRank(k) /\ k = [state |-> k.state, wait |-> k.wait, raw |-> k.raw, bank |-> k.bank]
         /\ k.state \in {"OPEN", "CLOSED", "REFRESHING"} /\ k.bank \in [Bank -> BankType]
<1>1. k.raw \in [1 .. RAW -> Nat] /\ RAW \in Nat /\ k.wait \in [Constraint -> Nat]
  BY DelaysAreNatural DEF RankType
<1>2. k.raw \in Window
  BY <1>1 DEF Window
<1>3. /\ DOMAIN k = {"state", "wait", "raw", "bank"}
      /\ k = [state |-> k.state, wait |-> k.wait, raw |-> k.raw, bank |-> k.bank]
      /\ k.state \in {"OPEN", "CLOSED", "REFRESHING"} /\ k.bank \in [Bank -> BankType]
  BY DEF RankType
<1> QED
  BY <1>1, <1>2, <1>3 DEF IsRank, Waits

\* A rank from its parts.
LEMMA RankFromParts ==
  ASSUME NEW k, DOMAIN k = {"state", "wait", "raw", "bank"},
         k = [state |-> k.state, wait |-> k.wait, raw |-> k.raw, bank |-> k.bank],
         IsRank(k), k.state \in {"OPEN", "CLOSED", "REFRESHING"}, k.bank \in [Bank -> BankType]
  PROVE  k \in RankType
<1> DEFINE st == k.state
           wt == k.wait
           rw == k.raw
           bk == k.bank
<1>1. wt \in [Constraint -> Nat] /\ rw \in Window /\ RAW \in Nat
  BY DelaysAreNatural DEF IsRank, Waits
<1>2. rw \in [1 .. RAW -> Nat]
  BY <1>1 DEF Window
<1>3. k = [state |-> st, wait |-> wt, raw |-> rw, bank |-> bk] /\ st \in {"OPEN", "CLOSED", "REFRESHING"}
      /\ bk \in [Bank -> BankType]
  OBVIOUS
<1> HIDE DEF st, wt, rw, bk
<1> QED
  BY <1>1, <1>2, <1>3 DEF RankType

\* A notice changes only the constraints of the rank.
LEMMA NotifiedRank ==
  ASSUME NEW k \in RankType, NEW type \in CommandType
  PROVE  /\ Notified(k, type) \in RankType
         /\ Notified(k, type).bank = k.bank /\ Notified(k, type).state = k.state
<1> DEFINE new == Notified(k, type)
<1>1. /\ IsRank(k) /\ k.state \in {"OPEN", "CLOSED", "REFRESHING"} /\ k.bank \in [Bank -> BankType]
      /\ DOMAIN k = {"state", "wait", "raw", "bank"}
  BY RankTypeIsRank DEF IsRank
<1>2. IsRank(new)
  BY <1>1, NotifiedWaits
<1>3. /\ DOMAIN new = {"state", "wait", "raw", "bank"}
      /\ new = [state |-> new.state, wait |-> new.wait, raw |-> new.raw, bank |-> new.bank]
      /\ new.state = k.state /\ new.bank = k.bank
  BY <1>1 DEF Notified
<1> HIDE DEF new
<1>4. new \in RankType
  BY <1>1, <1>2, <1>3, RankFromParts
<1> QED
  BY <1>3, <1>4 DEF new

\* The parameters of the channel stay what they are.
LEMMA SameChannel ==
  ASSUME p' = p
  PROVE  /\ Rank' = Rank /\ Bank' = Bank /\ SubArray' = SubArray /\ Latest' = Latest /\ tWP' = tWP
         /\ RankType' = RankType /\ QueueType' = QueueType
<1>1. Rank' = Rank /\ Bank' = Bank /\ SubArray' = SubArray /\ tWP' = tWP
  BY DEF Rank, Bank, SubArray, tWP
<1>2. Latest' = Latest
  BY <1>1 DEF Latest, ImplicitPrecharge
<1>3. RankType' = RankType
  BY <1>1 DEF RankType, BankType, SubArrayType
<1>4. QueueType' = QueueType
  BY <1>1, <1>2 DEF QueueType, ResponseType
<1> QED
  BY <1>1, <1>2, <1>3, <1>4

LEMMA SameInvariant ==
  ASSUME p' = p, p \in Configurations, rank' \in [Rank -> RankType], responses' \in QueueType,
         commandIssued' \in BOOLEAN, LooksInv(responses'),
         \A r \in Rank : RowsInv(responses', rank'[r], r) /\ StandbyInv(responses', rank'[r], r)
  PROVE  DeviceInv'
<1>1. TypeOK'
  BY SameChannel DEF TypeOK, QueueType
<1>2. LooksInv(responses)'
  BY SameChannel DEF LooksInv, Closer, LookBehind
<1>3. ASSUME NEW r \in Rank PROVE RowsInv(responses, rank[r], r)'
  <2>1. ASSUME NEW b \in Bank PROVE BankInv(responses, rank[r].bank[b], r, b)'
    <3>1. BankInv(responses', rank'[r].bank[b], r, b)
      BY DEF RowsInv
    <3> QED
      BY <3>1, SameChannel DEF BankInv, Closes
  <2>2. ASSUME NEW b \in Bank, NEW s \in SubArray PROVE SubArrayInv(responses, rank[r].bank[b].sub[s], r, b, s)'
    <3>1. SubArrayInv(responses', rank'[r].bank[b].sub[s], r, b, s)
      BY DEF RowsInv
    <3> QED
      BY <3>1, SameChannel DEF SubArrayInv
  <2> QED
    BY <2>1, <2>2, SameChannel DEF RowsInv
<1>4. ASSUME NEW r \in Rank PROVE StandbyInv(responses, rank[r], r)'
  BY SameChannel DEF StandbyInv, RankIdle, BankIdle
<1> QED
  BY <1>1, <1>2, <1>3, <1>4, SameChannel DEF DeviceInv

\* The action IssueCommand keeps the invariant.
LEMMA IssueKeepsDevice ==
  ASSUME DeviceInv, NEW cmd \in Commands, IssueCommand(cmd)
  PROVE  DeviceInv'
<1> DEFINE k == rank[cmd.rank]
           q == responses
           after == responses'
<1>1. IsChannel /\ p \in Configurations
  BY ChannelsAreChannels DEF DeviceInv, TypeOK
<1>2. /\ q \in QueueType /\ rank \in [Rank -> RankType] /\ cmd.rank \in Rank /\ cmd.type \in CommandType
  BY DEF DeviceInv, TypeOK, QueueType, Commands
<1>3. q[0] = <<>> /\ RankAccepts(k, cmd) /\ p' = p /\ commandIssued' = TRUE
  BY DEF IssueCommand, Due, IsIssuable
<1>4. after = InsertEvent(InsertEvent(q, Responses(k, cmd)[1]), Responses(k, cmd)[2])
  BY DEF IssueCommand
<1>5. rank' = [r \in Rank |-> IF r = cmd.rank THEN RankAfter(rank[r], cmd) ELSE Notified(rank[r], cmd.type)]
  BY DEF IssueCommand, RanksAfter
<1>6. /\ k \in RankType /\ k.bank \in [Bank -> BankType]
      /\ RowsInv(q, k, cmd.rank) /\ StandbyInv(q, k, cmd.rank)
  BY <1>2, RankTypeIsRank DEF DeviceInv
<1>7. \A b \in Bank : Distinct(k.bank[b].active)
  BY <1>6 DEF RowsInv, BankInv
<1> HIDE DEF k, q, after
<1>8. QueueMoved(q, after, cmd, Announced(k, cmd))
  BY <1>1, <1>2, <1>4, <1>6, <1>7, QueueAfterCommand
<1>9. RankAfter(k, cmd) \in RankType
  BY <1>1, <1>3, <1>6, RankTypeAfterCommand
<1>10. RowsInv(after, RankAfter(k, cmd), cmd.rank)
  BY <1>1, <1>2, <1>3, <1>4, <1>6, CommandKeepsRows
<1>11. StandbyInv(after, RankAfter(k, cmd), cmd.rank)
  BY <1>1, <1>3, <1>6, CommandKeepsStandby
<1>12. LooksInv(after)
  BY <1>1, <1>2, <1>6, <1>7, <1>8, CommandKeepsLooks DEF DeviceInv, q
<1>13. ASSUME NEW r \in Rank
       PROVE  rank'[r] \in RankType /\ RowsInv(after, rank'[r], r) /\ StandbyInv(after, rank'[r], r)
  <2>1. CASE r = cmd.rank
    <3>1. rank'[r] = RankAfter(k, cmd)
      BY <1>5, <2>1 DEF k
    <3> QED
      BY <1>9, <1>10, <1>11, <2>1, <3>1
  <2>2. CASE r # cmd.rank
    <3> DEFINE old == rank[r]
               new == rank'[r]
    <3>1. new = Notified(old, cmd.type)
      BY <1>5, <2>2
    <3>2. old \in RankType /\ RowsInv(q, old, r) /\ StandbyInv(q, old, r)
      BY <1>2 DEF DeviceInv, q
    <3> HIDE DEF old, new
    <3>3. new \in RankType /\ new.bank = old.bank /\ new.state = old.state
      BY <1>2, <3>1, <3>2, NotifiedRank
    <3>4. QueueKept(q, after, r)
      BY <1>8, <2>2 DEF QueueMoved, QueueKept
    <3>5. RowsInv(after, new, r)
      BY <3>2, <3>3, <3>4, OtherRowsKept
    <3>6. StandbyInv(after, new, r)
      <4>1. /\ old.state = "CLOSED" => RankIdle(old.bank)
            /\ tWP = 0 /\ RankIdle(old.bank) => old.state = "CLOSED"
        BY <1>3, <3>2 DEF StandbyInv
      <4> QED
        BY <3>3, <4>1 DEF StandbyInv
    <3> QED
      BY <3>3, <3>5, <3>6 DEF new
  <2> QED
    BY <2>1, <2>2
<1>14. rank' \in [Rank -> RankType]
  BY <1>5, <1>13
<1>15. after \in QueueType
  BY <1>8 DEF QueueMoved
<1> QED
  BY <1>1, <1>3, <1>12, <1>13, <1>14, <1>15, SameInvariant DEF after

\* One cycle less for every constraint of a bank.
LEMMA ElapsedBank ==
  ASSUME NEW bank \in BankType
  PROVE  /\ BankElapsed(bank) \in BankType
         /\ BankElapsed(bank).state = bank.state /\ BankElapsed(bank).active = bank.active
         /\ \A s \in SubArray :
              /\ BankElapsed(bank).sub[s].state = bank.sub[s].state
              /\ \A x \in Constraint : BankElapsed(bank).sub[s].wait[x] = Later(0, bank.sub[s].wait[x] - 1)
<1> DEFINE wait == Elapsed(bank.wait)
           sub == [s \in SubArray |-> [bank.sub[s] EXCEPT !.wait = Elapsed(bank.sub[s].wait)]]
           mid == [bank EXCEPT !.wait = wait]
           new == [mid EXCEPT !.sub = sub]
<1>1. /\ DOMAIN bank = {"state", "active", "wait", "sub"}
      /\ bank.state \in {"OPEN", "CLOSED"} /\ bank.active \in Seq(SubArray)
      /\ bank.wait \in [{"read", "write"} -> Nat] /\ bank.sub \in [SubArray -> SubArrayType]
      /\ bank = [state |-> bank.state, active |-> bank.active, wait |-> bank.wait, sub |-> bank.sub]
  BY DEF BankType
<1>2. BankElapsed(bank) = new
  BY <1>1 DEF BankElapsed
<1>3. wait \in [{"read", "write"} -> Nat]
  BY <1>1 DEF Elapsed, Later
<1>4. ASSUME NEW s \in SubArray
      PROVE  /\ sub[s] \in SubArrayType /\ sub[s].state = bank.sub[s].state
             /\ \A x \in Constraint : sub[s].wait[x] = Later(0, bank.sub[s].wait[x] - 1)
  <2> DEFINE sa == bank.sub[s]
             na == [sa EXCEPT !.wait = Elapsed(sa.wait)]
             wt == Elapsed(sa.wait)
  <2>1. sa \in SubArrayType
    BY <1>1
  <2> HIDE DEF sa
  <2>2. /\ sa.wait \in [Constraint -> Nat] /\ sa.state \in {"OPEN", "CLOSED", "PRECHARGING", "REFRESHING"}
        /\ sa = [state |-> sa.state, wait |-> sa.wait]
    BY <2>1 DEF SubArrayType
  <2>3. wt \in [Constraint -> Nat] /\ \A x \in Constraint : wt[x] = Later(0, sa.wait[x] - 1)
    BY <2>2 DEF Elapsed, Later
  <2> HIDE DEF wt
  <2>4. na = [state |-> sa.state, wait |-> wt]
    BY <2>2 DEF wt
  <2>5. na.state = sa.state /\ na.wait = wt /\ na \in SubArrayType
    BY <2>2, <2>3, <2>4 DEF SubArrayType
  <2>6. sub[s] = na
    BY DEF sa
  <2> HIDE DEF na
  <2> QED
    BY <2>3, <2>5, <2>6 DEF sa
<1>5. sub \in [SubArray -> SubArrayType]
  BY <1>4
<1> HIDE DEF wait, sub
<1>6. mid = [state |-> bank.state, active |-> bank.active, wait |-> wait, sub |-> bank.sub]
  BY <1>1
<1> HIDE DEF mid
<1>7. new = [state |-> bank.state, active |-> bank.active, wait |-> wait, sub |-> sub]
  BY <1>6
<1>8. new \in BankType /\ new.state = bank.state /\ new.active = bank.active /\ new.sub = sub
  BY <1>1, <1>3, <1>5, <1>7 DEF BankType
<1> HIDE DEF new
<1> QED
  BY <1>2, <1>4, <1>8

\* And of a rank.
LEMMA ElapsedRankType ==
  ASSUME NEW k \in RankType
  PROVE  /\ RankElapsed(k) \in RankType /\ RankElapsed(k).state = k.state
         /\ RankElapsed(k).bank = [b \in Bank |-> BankElapsed(k.bank[b])]
<1> DEFINE wait == Elapsed(k.wait)
           raw == [i \in DOMAIN k.raw |-> Later(0, k.raw[i] - 1)]
           bank == [b \in Bank |-> BankElapsed(k.bank[b])]
           k1 == [k EXCEPT !.wait = wait]
           k2 == [k1 EXCEPT !.raw = raw]
           k3 == [k2 EXCEPT !.bank = bank]
           new == RankElapsed(k)
<1>1. /\ IsRank(k) /\ k = [state |-> k.state, wait |-> k.wait, raw |-> k.raw, bank |-> k.bank]
      /\ k.state \in {"OPEN", "CLOSED", "REFRESHING"} /\ k.bank \in [Bank -> BankType]
  BY RankTypeIsRank
<1>2. new = k3
  BY <1>1 DEF RankElapsed
<1>3. IsRank(new)
  BY <1>1, ElapsedRank
<1>4. bank \in [Bank -> BankType]
  BY <1>1, ElapsedBank
<1> HIDE DEF wait, raw, bank, new
<1>5. k1 = [state |-> k.state, wait |-> wait, raw |-> k.raw, bank |-> k.bank]
  BY <1>1
<1> HIDE DEF k1
<1>6. k2 = [state |-> k.state, wait |-> wait, raw |-> raw, bank |-> k.bank]
  BY <1>5
<1> HIDE DEF k2
<1>7. k3 = [state |-> k.state, wait |-> wait, raw |-> raw, bank |-> bank]
  BY <1>6
<1> HIDE DEF k3
<1>8. /\ DOMAIN new = {"state", "wait", "raw", "bank"} /\ new.state = k.state /\ new.bank = bank
      /\ new = [state |-> new.state, wait |-> new.wait, raw |-> new.raw, bank |-> new.bank]
  BY <1>2, <1>7
<1>9. new \in RankType
  BY <1>1, <1>3, <1>4, <1>8, RankFromParts
<1> QED
  BY <1>8, <1>9 DEF new, bank

\* Everything in the queue comes a cycle nearer.
Nearer(q, after) ==
  /\ after \in QueueType
  /\ \A c \in 0 .. Latest : \A i \in DOMAIN after[c] :
       c + 1 \in 0 .. Latest /\ after[c] = q[c + 1]
  /\ \A c \in 0 .. Latest : \A i \in DOMAIN q[c] :
       c - 1 \in 0 .. Latest /\ after[c - 1] = q[c]

LEMMA QueueAfterCycle ==
  ASSUME IsChannel, NEW q \in QueueType, q[0] = <<>>,
         NEW after, after = [c \in 0 .. Latest |-> IF c = Latest THEN <<>> ELSE q[c + 1]]
  PROVE  Nearer(q, after)
<1>1. Latest \in Nat
  BY LatestIsLatest
<1>2. ASSUME NEW c \in 0 .. Latest PROVE after[c] \in Seq(ResponseType)
  <2>1. CASE c = Latest
    BY <2>1
  <2>2. CASE c # Latest
    <3>1. c + 1 \in 0 .. Latest /\ after[c] = q[c + 1]
      BY <1>1, <2>2
    <3> QED
      BY <3>1 DEF QueueType
  <2> QED
    BY <2>1, <2>2
<1>3. after \in QueueType
  BY <1>2 DEF QueueType
<1>4. ASSUME NEW c \in 0 .. Latest, NEW i \in DOMAIN after[c]
      PROVE  c + 1 \in 0 .. Latest /\ after[c] = q[c + 1]
  <2>1. c # Latest
    <3>1. ASSUME c = Latest PROVE FALSE
      <4>1. after[c] = <<>>
        BY <3>1
      <4>2. i \in DOMAIN <<>>
        BY <4>1
      <4> QED
        BY <4>2
    <3> QED
      BY <3>1
  <2> QED
    BY <1>1, <2>1
<1>5. ASSUME NEW c \in 0 .. Latest, NEW i \in DOMAIN q[c]
      PROVE  c - 1 \in 0 .. Latest /\ after[c - 1] = q[c]
  <2>1. c # 0
    <3>1. ASSUME c = 0 PROVE FALSE
      <4>1. i \in DOMAIN <<>>
        BY <3>1
      <4> QED
        BY <4>1
    <3> QED
      BY <3>1
  <2>2. c - 1 \in 0 .. Latest /\ c - 1 # Latest /\ (c - 1) + 1 = c
    BY <1>1, <2>1
  <2> QED
    BY <2>2
<1> QED
  BY <1>3, <1>4, <1>5 DEF Nearer

\* A cycle brings responses and constraints nearer alike.
LEMMA CycleKeepsRows ==
  ASSUME NEW q \in QueueType, NEW after, Nearer(q, after), NEW k \in RankType, NEW r, RowsInv(q, k, r)
  PROVE  RowsInv(after, RankElapsed(k), r)
<1> DEFINE new == RankElapsed(k).bank
<1>1. /\ k.bank \in [Bank -> BankType]
      /\ new = [b \in Bank |-> BankElapsed(k.bank[b])]
  BY RankTypeIsRank, ElapsedRankType
<1> HIDE DEF new
<1>2. ASSUME NEW b \in Bank
      PROVE  /\ new[b].state = k.bank[b].state /\ new[b].active = k.bank[b].active
             /\ \A s \in SubArray :
                  /\ new[b].sub[s].state = k.bank[b].sub[s].state
                  /\ \A x \in Constraint : /\ k.bank[b].sub[s].wait[x] \in Nat
                                           /\ new[b].sub[s].wait[x] = Later(0, k.bank[b].sub[s].wait[x] - 1)
  <2> DEFINE old == k.bank[b]
  <2>1. old \in BankType /\ new[b] = BankElapsed(old)
    BY <1>1
  <2> HIDE DEF old
  <2>2. \A s \in SubArray, x \in Constraint : old.sub[s].wait[x] \in Nat
    BY <2>1 DEF BankType, SubArrayType
  <2> QED
    BY <2>1, <2>2, ElapsedBank DEF old
<1>3. ASSUME NEW b, NEW s PROVE Closes(after, r, b, s) <=> Closes(q, r, b, s)
  <2>1. ASSUME Closes(after, r, b, s) PROVE Closes(q, r, b, s)
    <3>1. PICK c \in 0 .. Latest : \E i \in DOMAIN after[c] : after[c][i] = Response("implicit precharge", r, b, s)
      BY <2>1 DEF Closes
    <3>2. c + 1 \in 0 .. Latest /\ after[c] = q[c + 1]
      BY <3>1 DEF Nearer
    <3> QED
      BY <3>1, <3>2 DEF Closes
  <2>2. ASSUME Closes(q, r, b, s) PROVE Closes(after, r, b, s)
    <3>1. PICK c \in 0 .. Latest : \E i \in DOMAIN q[c] : q[c][i] = Response("implicit precharge", r, b, s)
      BY <2>2 DEF Closes
    <3>2. c - 1 \in 0 .. Latest /\ after[c - 1] = q[c]
      BY <3>1 DEF Nearer
    <3> QED
      BY <3>1, <3>2 DEF Closes
  <2> QED
    BY <2>1, <2>2
<1>4. ASSUME NEW b \in Bank PROVE BankInv(after, new[b], r, b)
  <2> DEFINE old == k.bank[b]
             now == new[b]
  <2>1. BankInv(q, old, r, b)
    BY DEF RowsInv
  <2>2. now.state = old.state /\ now.active = old.active
        /\ \A s \in SubArray : now.sub[s].state = old.sub[s].state
    BY <1>2
  <2> HIDE DEF old, now
  <2>3. BankInv(after, now, r, b)
    BY <1>3, <2>1, <2>2 DEF BankInv
  <2> QED
    BY <2>3 DEF now
<1>5. ASSUME NEW b \in Bank, NEW s \in SubArray PROVE SubArrayInv(after, new[b].sub[s], r, b, s)
  <2> DEFINE sa == k.bank[b].sub[s]
             na == new[b].sub[s]
  <2>1. SubArrayInv(q, sa, r, b, s)
    BY DEF RowsInv
  <2>2. /\ na.state = sa.state
        /\ \A x \in Constraint : sa.wait[x] \in Nat /\ na.wait[x] = Later(0, sa.wait[x] - 1)
    BY <1>2
  <2> HIDE DEF sa, na
  <2>3. ASSUME NEW c \in 0 .. Latest, NEW i \in DOMAIN after[c], Answers(after[c][i], r, b, s)
        PROVE  Finds(after[c][i], na, c)
    <3> DEFINE e == after[c][i]
    <3>1. c + 1 \in 0 .. Latest /\ after[c] = q[c + 1]
      BY DEF Nearer
    <3>2. Finds(e, sa, c + 1)
      BY <2>1, <2>3, <3>1 DEF SubArrayInv
    <3> HIDE DEF e
    <3>3. Finds(e, na, c)
      <4>1. na.state = Expected(e.kind)
        BY <2>2, <3>2 DEF Finds
      <4>2. ASSUME e.kind = "implicit precharge", NEW x \in Constraint PROVE na.wait[x] >= c
        <5> DEFINE w == sa.wait[x]
                   v == na.wait[x]
        <5>1. w >= c + 1 /\ w \in Nat /\ v = Later(0, w - 1)
          BY <2>2, <3>2, <4>2 DEF Finds
        <5> HIDE DEF w, v
        <5>2. v >= c
          BY <5>1 DEF Later
        <5> QED
          BY <5>2 DEF v
      <4> QED
        BY <4>1, <4>2 DEF Finds
    <3> QED
      BY <3>3 DEF e
  <2>4. ASSUME NEW c \in 0 .. Latest, NEW d \in 0 .. Latest, NEW i \in DOMAIN after[c],
               NEW j \in DOMAIN after[d], Answers(after[c][i], r, b, s), Answers(after[d][j], r, b, s)
        PROVE  c = d /\ i = j
    <3>1. c + 1 \in 0 .. Latest /\ after[c] = q[c + 1] /\ d + 1 \in 0 .. Latest /\ after[d] = q[d + 1]
      BY DEF Nearer
    <3>2. i \in DOMAIN q[c + 1] /\ j \in DOMAIN q[d + 1]
          /\ Answers(q[c + 1][i], r, b, s) /\ Answers(q[d + 1][j], r, b, s)
      BY <2>4, <3>1
    <3>3. c + 1 = d + 1 /\ i = j
      BY <2>1, <3>1, <3>2 DEF SubArrayInv
    <3> QED
      BY <3>3
  <2>5. SubArrayInv(after, na, r, b, s)
    BY <2>3, <2>4 DEF SubArrayInv
  <2> QED
    BY <2>5 DEF na
<1> QED
  BY <1>4, <1>5 DEF RowsInv, new

\* The action Cycle keeps the invariant.
LEMMA CycleKeepsDevice ==
  ASSUME DeviceInv, Cycle
  PROVE  DeviceInv'
<1> DEFINE q == responses
           after == responses'
<1>1. IsChannel /\ p \in Configurations /\ p' = p /\ commandIssued' \in BOOLEAN
  BY ChannelsAreChannels DEF DeviceInv, TypeOK, Cycle
<1>2. q \in QueueType /\ rank \in [Rank -> RankType] /\ q[0] = <<>>
  BY DEF DeviceInv, TypeOK, QueueType, Cycle, Due
<1>3. after = [c \in 0 .. Latest |-> IF c = Latest THEN <<>> ELSE q[c + 1]]
  BY DEF Cycle
<1>4. rank' = [r \in Rank |-> RankElapsed(rank[r])]
  BY DEF Cycle
<1>5. LooksInv(q) /\ \A r \in Rank : RowsInv(q, rank[r], r) /\ StandbyInv(q, rank[r], r)
  BY DEF DeviceInv
<1> HIDE DEF q, after
<1>6. Nearer(q, after)
  BY <1>1, <1>2, <1>3, QueueAfterCycle
<1>7. ASSUME NEW r \in Rank
      PROVE  rank'[r] \in RankType /\ RowsInv(after, rank'[r], r) /\ StandbyInv(after, rank'[r], r)
  <2> DEFINE old == rank[r]
             new == rank'[r]
  <2>1. new = RankElapsed(old) /\ old \in RankType /\ RowsInv(q, old, r) /\ StandbyInv(q, old, r)
    BY <1>2, <1>4, <1>5
  <2> HIDE DEF old, new
  <2>2. /\ new \in RankType /\ new.state = old.state
        /\ new.bank = [b \in Bank |-> BankElapsed(old.bank[b])]
    BY <2>1, ElapsedRankType
  <2>3. RowsInv(after, new, r)
    BY <1>2, <1>6, <2>1, CycleKeepsRows
  <2>4. RankIdle(new.bank) <=> RankIdle(old.bank)
    <3>1. old.bank \in [Bank -> BankType]
      BY <2>1, RankTypeIsRank
    <3>2. \A b \in Bank, s \in SubArray : new.bank[b].sub[s].state = old.bank[b].sub[s].state
      BY <2>2, <3>1, ElapsedBank
    <3>3. (\A b \in Bank, s \in SubArray : new.bank[b].sub[s].state \in IdleStates)
            <=> \A b \in Bank, s \in SubArray : old.bank[b].sub[s].state \in IdleStates
      BY <3>2
    <3> QED
      BY <3>3, IdleRank
  <2>5. StandbyInv(after, new, r)
    <3>1. /\ old.state = "CLOSED" => RankIdle(old.bank)
          /\ tWP = 0 /\ RankIdle(old.bank) => old.state = "CLOSED"
      BY <1>2, <2>1 DEF StandbyInv
    <3> QED
      BY <2>2, <2>4, <3>1 DEF StandbyInv
  <2> QED
    BY <2>2, <2>3, <2>5 DEF new
<1>8. LooksInv(after)
  <2> SUFFICES ASSUME NEW c \in 0 .. Latest, NEW i \in DOMAIN after[c], Closer(after[c][i])
               PROVE  LookBehind(after, c, i, after[c][i].rank)
    BY DEF LooksInv
  <2>1. c + 1 \in 0 .. Latest /\ after[c] = q[c + 1]
    BY <1>6 DEF Nearer
  <2>2. LookBehind(q, c + 1, i, after[c][i].rank)
    BY <1>5, <2>1 DEF LooksInv
  <2> QED
    BY <2>1, <2>2 DEF LookBehind
<1>9. after \in QueueType
  BY <1>6 DEF Nearer
<1>10. rank' \in [Rank -> RankType]
  BY <1>4, <1>7
<1> QED
  BY <1>1, <1>7, <1>8, <1>9, <1>10, SameInvariant DEF after

\* The response that is due is taken from the queue; an implicit precharge answers
\* once more.
Answered(q, after, h) ==
  /\ after \in QueueType
  /\ \A i \in DOMAIN after[0] : i + 1 \in DOMAIN q[0] /\ after[0][i] = q[0][i + 1]
  /\ \A i \in DOMAIN q[0] : i # 1 => i - 1 \in DOMAIN after[0] /\ after[0][i - 1] = q[0][i]
  /\ \A c \in 1 .. Latest : \A i \in DOMAIN q[c] : i \in DOMAIN after[c] /\ after[c][i] = q[c][i]
  /\ \A c \in 1 .. Latest : \A i \in DOMAIN after[c] : i \notin DOMAIN q[c] =>
       /\ h.kind = "implicit precharge" /\ c = tRP /\ i = Len(q[c]) + 1
       /\ after[c][i] = Response("precharge", h.rank, h.bank, h.sub)

\* The queue without the response at its head.
Rest(q, rest) ==
  /\ rest \in QueueType
  /\ \A i \in DOMAIN rest[0] : i + 1 \in DOMAIN q[0] /\ rest[0][i] = q[0][i + 1]
  /\ \A i \in DOMAIN q[0] : i # 1 => i - 1 \in DOMAIN rest[0] /\ rest[0][i - 1] = q[0][i]
  /\ \A c \in 1 .. Latest : rest[c] = q[c]

LEMMA RestOfQueue ==
  ASSUME IsChannel, NEW q \in QueueType, q[0] # <<>>
  PROVE  /\ Rest(q, [q EXCEPT ![0] = Tail(q[0])])
         /\ Head(q[0]) \in ResponseType /\ 1 \in DOMAIN q[0] /\ q[0][1] = Head(q[0])
<1> DEFINE q0 == q[0]
           t == Tail(q0)
           rest == [q EXCEPT ![0] = t]
<1>1. Latest \in Nat /\ 0 \in 0 .. Latest
  BY LatestIsLatest
<1>2. q0 \in Seq(ResponseType) /\ q0 # <<>>
  BY <1>1 DEF QueueType
<1> HIDE DEF q0
<1>3. /\ Head(q0) \in ResponseType /\ t \in Seq(ResponseType) /\ Len(t) = Len(q0) - 1
      /\ \A i \in 1 .. Len(t) : t[i] = q0[i + 1]
  BY <1>2, HeadTailProperties
<1>4. Len(q0) \in Nat \ {0} /\ DOMAIN q0 = 1 .. Len(q0) /\ Head(q0) = q0[1]
  BY <1>2
<1> HIDE DEF t
<1>5. DOMAIN t = 1 .. Len(q0) - 1
  BY <1>3
<1>6. /\ \A i \in DOMAIN t : i + 1 \in DOMAIN q0 /\ t[i] = q0[i + 1]
      /\ \A i \in DOMAIN q0 : i # 1 => i - 1 \in DOMAIN t /\ t[i - 1] = q0[i]
  <2>1. ASSUME NEW i \in DOMAIN t PROVE i + 1 \in DOMAIN q0 /\ t[i] = q0[i + 1]
    BY <1>3, <1>4, <1>5
  <2>2. ASSUME NEW i \in DOMAIN q0, i # 1 PROVE i - 1 \in DOMAIN t /\ t[i - 1] = q0[i]
    <3>1. i - 1 \in 1 .. Len(q0) - 1 /\ (i - 1) + 1 = i
      BY <1>4, <2>2
    <3> QED
      BY <1>3, <1>5, <3>1
  <2> QED
    BY <2>1, <2>2
<1>7. /\ rest \in QueueType /\ rest[0] = t
      /\ \A c \in 1 .. Latest : rest[c] = q[c]
  BY <1>1, <1>3 DEF QueueType
<1> HIDE DEF rest
<1>8. Rest(q, rest)
  BY <1>6, <1>7 DEF Rest, q0
<1> QED
  BY <1>3, <1>4, <1>8 DEF rest, t, q0

\* An implicit precharge answers again, as a precharge.
LEMMA AnswerAgain ==
  ASSUME NEW h \in ResponseType
  PROVE  /\ [h EXCEPT !.kind = "precharge"] = Response("precharge", h.rank, h.bank, h.sub)
         /\ Response("precharge", h.rank, h.bank, h.sub) \in ResponseType
<1> DEFINE kd == h.kind
           rk == h.rank
           bk == h.bank
           sb == h.sub
<1>1. h = [kind |-> kd, rank |-> rk, bank |-> bk, sub |-> sb] /\ rk \in Rank /\ bk \in Bank /\ sb \in SubArray
  BY DEF ResponseType
<1> HIDE DEF kd, rk, bk, sb
<1>2. [h EXCEPT !.kind = "precharge"] = [kind |-> "precharge", rank |-> rk, bank |-> bk, sub |-> sb]
  BY <1>1
<1>3. [kind |-> "precharge", rank |-> rk, bank |-> bk, sub |-> sb] \in ResponseType
  BY <1>1 DEF ResponseType
<1> QED
  BY <1>2, <1>3 DEF Response, rk, bk, sb

\* A second answer, behind the events of its cycle.
LEMMA RestWithAnswer ==
  ASSUME IsChannel, NEW q \in QueueType, NEW rest, Rest(q, rest), NEW e \in ResponseType, NEW after,
         Inserted(rest, after, tRP, <<e>>)
  PROVE  /\ after \in QueueType
         /\ \A i \in DOMAIN after[0] : i + 1 \in DOMAIN q[0] /\ after[0][i] = q[0][i + 1]
         /\ \A i \in DOMAIN q[0] : i # 1 => i - 1 \in DOMAIN after[0] /\ after[0][i - 1] = q[0][i]
         /\ \A c \in 1 .. Latest : \A i \in DOMAIN q[c] : i \in DOMAIN after[c] /\ after[c][i] = q[c][i]
         /\ \A c \in 1 .. Latest : \A i \in DOMAIN after[c] : i \notin DOMAIN q[c] =>
              c = tRP /\ i = Len(q[c]) + 1 /\ after[c][i] = e
<1> DEFINE list == <<e>>
<1>1. Latest \in Nat /\ 0 \in 0 .. Latest /\ tRP \in 1 .. Latest
  BY LatestIsLatest
<1>2. \A c \in 1 .. Latest : c \in 0 .. Latest /\ c # 0
  BY <1>1
<1>3. DOMAIN list = {1} /\ list[1] = e
  OBVIOUS
<1> HIDE DEF list
<1>4. /\ after \in QueueType
      /\ \A c \in 0 .. Latest : \A i \in DOMAIN rest[c] : i \in DOMAIN after[c] /\ after[c][i] = rest[c][i]
      /\ Len(rest[tRP]) + 1 \in DOMAIN after[tRP] /\ after[tRP][Len(rest[tRP]) + 1] = e
      /\ \A c \in 0 .. Latest : \A i \in DOMAIN after[c] :
           i \in DOMAIN rest[c] \/ (c = tRP /\ i = Len(rest[c]) + 1)
  BY <1>3 DEF Inserted, list
<1>5. /\ \A i \in DOMAIN rest[0] : i + 1 \in DOMAIN q[0] /\ rest[0][i] = q[0][i + 1]
      /\ \A i \in DOMAIN q[0] : i # 1 => i - 1 \in DOMAIN rest[0] /\ rest[0][i - 1] = q[0][i]
      /\ \A c \in 1 .. Latest : rest[c] = q[c]
  BY DEF Rest
<1>6. 0 # tRP
  BY <1>1
<1>7. \A i : i \in DOMAIN after[0] <=> i \in DOMAIN rest[0]
  BY <1>1, <1>4, <1>6
<1>8. \A i \in DOMAIN rest[0] : after[0][i] = rest[0][i]
  BY <1>1, <1>4
<1>9. \A i \in DOMAIN after[0] : i + 1 \in DOMAIN q[0] /\ after[0][i] = q[0][i + 1]
  BY <1>5, <1>7, <1>8
<1>10. \A i \in DOMAIN q[0] : i # 1 => i - 1 \in DOMAIN after[0] /\ after[0][i - 1] = q[0][i]
  BY <1>5, <1>7, <1>8
<1>11. \A c \in 1 .. Latest : \A i \in DOMAIN q[c] : i \in DOMAIN after[c] /\ after[c][i] = q[c][i]
  BY <1>2, <1>4, <1>5
<1>12. ASSUME NEW c \in 1 .. Latest, NEW i \in DOMAIN after[c], i \notin DOMAIN q[c]
       PROVE  c = tRP /\ i = Len(q[c]) + 1 /\ after[c][i] = e
  <2>1. c \in 0 .. Latest /\ rest[c] = q[c]
    BY <1>2, <1>5
  <2>2. c = tRP /\ i = Len(q[c]) + 1
    BY <1>4, <1>12, <2>1
  <2> QED
    BY <1>4, <2>1, <2>2
<1> QED
  BY <1>4, <1>9, <1>10, <1>11, <1>12

\* RequestComplete, in the queue.
ResponsesAfter(q, h) ==
  LET rest == [q EXCEPT ![0] = Tail(q[0])]
  IN  IF h.kind = "implicit precharge"
      THEN InsertEvent(rest, [in |-> tRP, list |-> <<[h EXCEPT !.kind = "precharge"]>>])
      ELSE rest

LEMMA QueueAfterResponse ==
  ASSUME IsChannel, NEW q \in QueueType, q[0] # <<>>
  PROVE  LET h == Head(q[0])
         IN  /\ Answered(q, ResponsesAfter(q, h), h)
             /\ h \in ResponseType /\ 1 \in DOMAIN q[0] /\ q[0][1] = h
<1> DEFINE h == Head(q[0])
           rest == [q EXCEPT ![0] = Tail(q[0])]
           after == ResponsesAfter(q, h)
<1>1. Rest(q, rest) /\ h \in ResponseType /\ 1 \in DOMAIN q[0] /\ q[0][1] = h
  BY RestOfQueue
<1>2. \A c \in 1 .. Latest : c \in 0 .. Latest
  BY LatestIsLatest
<1>3. ASSUME h.kind # "implicit precharge" PROVE after = rest
  BY <1>3 DEF ResponsesAfter
<1>4. ASSUME h.kind = "implicit precharge"
      PROVE  after = InsertEvent(rest, [in |-> tRP, list |-> <<[h EXCEPT !.kind = "precharge"]>>])
  BY <1>4 DEF ResponsesAfter
<1> HIDE DEF h, rest, after
<1>5. CASE h.kind # "implicit precharge"
  <2>1. Answered(q, rest, h)
    BY <1>1 DEF Rest, Answered
  <2> QED
    BY <1>1, <1>3, <1>5, <2>1 DEF h, after
<1>6. CASE h.kind = "implicit precharge"
  <2> DEFINE e == Response("precharge", h.rank, h.bank, h.sub)
             list == <<e>>
             new == [in |-> tRP, list |-> list]
  <2>1. [h EXCEPT !.kind = "precharge"] = e /\ e \in ResponseType
    BY <1>1, AnswerAgain
  <2> HIDE DEF e
  <2>3. after = InsertEvent(rest, new)
    BY <1>4, <1>6, <2>1
  <2>4. list \in Seq(ResponseType)
    BY <2>1
  <2> HIDE DEF list
  <2>5. new.in = tRP /\ new.list = list /\ tRP \in 0 .. Latest
    BY <1>2, LatestIsLatest
  <2> HIDE DEF new
  <2>6. rest \in QueueType
    BY <1>1 DEF Rest
  <2>7. Inserted(rest, InsertEvent(rest, new), new.in, new.list)
    <3>1. new.in \in 0 .. Latest /\ new.list \in Seq(ResponseType)
      BY <2>4, <2>5
    <3> QED
      BY <2>6, <3>1, InsertedEvents, Zenon
  <2>8. Inserted(rest, after, tRP, <<e>>)
    BY <2>3, <2>5, <2>7 DEF list
  <2> HIDE DEF after
  <2>9. /\ after \in QueueType
        /\ \A i \in DOMAIN after[0] : i + 1 \in DOMAIN q[0] /\ after[0][i] = q[0][i + 1]
        /\ \A i \in DOMAIN q[0] : i # 1 => i - 1 \in DOMAIN after[0] /\ after[0][i - 1] = q[0][i]
        /\ \A c \in 1 .. Latest : \A i \in DOMAIN q[c] : i \in DOMAIN after[c] /\ after[c][i] = q[c][i]
        /\ \A c \in 1 .. Latest : \A i \in DOMAIN after[c] : i \notin DOMAIN q[c] =>
             c = tRP /\ i = Len(q[c]) + 1 /\ after[c][i] = e
    BY <1>1, <2>1, <2>8, RestWithAnswer
  <2>10. Answered(q, after, h)
    BY <1>6, <2>9 DEF Answered, e
  <2> QED
    BY <1>1, <2>10 DEF h, after
<1> QED
  BY <1>5, <1>6

\* Who gets a response, and how.
LEMMA RankAnswered ==
  ASSUME NEW k \in RankType, NEW h \in ResponseType
  PROVE  LET new == RankAfterResponse(k, h)
         IN  /\ new \in RankType
             /\ new.state = IF h.kind = "rank" /\ RankIdle(k.bank) THEN "CLOSED" ELSE k.state
             /\ \A b \in Bank :
                  /\ new.bank[b].active = k.bank[b].active /\ new.bank[b].state = k.bank[b].state
                  /\ \A s \in SubArray :
                       new.bank[b].sub[s] = IF h.kind # "rank" /\ b = h.bank /\ s = h.sub
                                            THEN AfterResponse(k.bank[b].sub[s], h.kind) ELSE k.bank[b].sub[s]
<1> DEFINE new == RankAfterResponse(k, h)
<1>1. /\ IsRank(k) /\ k = [state |-> k.state, wait |-> k.wait, raw |-> k.raw, bank |-> k.bank]
      /\ k.state \in {"OPEN", "CLOSED", "REFRESHING"} /\ k.bank \in [Bank -> BankType]
      /\ DOMAIN k = {"state", "wait", "raw", "bank"}
  BY RankTypeIsRank DEF IsRank
<1>2. h.bank \in Bank /\ h.sub \in SubArray
  BY DEF ResponseType
<1>3. IsRank(new)
  BY <1>1, AnsweredRank
<1>4. CASE h.kind = "rank"
  <2> DEFINE state == IF RankIdle(k.bank) THEN "CLOSED" ELSE k.state
  <2>1. new = [k EXCEPT !.state = state]
    BY <1>4 DEF RankAfterResponse
  <2>2. state \in {"OPEN", "CLOSED", "REFRESHING"}
    BY <1>1
  <2> HIDE DEF state, new
  <2>3. new = [state |-> state, wait |-> k.wait, raw |-> k.raw, bank |-> k.bank]
    BY <1>1, <2>1
  <2>4. /\ DOMAIN new = {"state", "wait", "raw", "bank"} /\ new.state = state /\ new.bank = k.bank
        /\ new = [state |-> new.state, wait |-> new.wait, raw |-> new.raw, bank |-> new.bank]
    BY <2>3
  <2>5. new \in RankType
    BY <1>1, <1>3, <2>2, <2>4, RankFromParts
  <2> QED
    BY <1>4, <2>4, <2>5 DEF new, state
<1>5. CASE h.kind # "rank"
  <2> DEFINE bank == k.bank[h.bank]
             sa == bank.sub[h.sub]
             na == AfterResponse(sa, h.kind)
             sub == [bank.sub EXCEPT ![h.sub] = na]
             nb == [bank EXCEPT !.sub = sub]
             banks == [k.bank EXCEPT ![h.bank] = nb]
  <2>1. new = [k EXCEPT !.bank = banks]
    BY <1>5 DEF RankAfterResponse
  <2>2. bank \in BankType
    BY <1>1, <1>2
  <2> HIDE DEF bank, new
  <2>3. /\ bank.sub \in [SubArray -> SubArrayType] /\ bank.active \in Seq(SubArray)
        /\ bank.state \in {"OPEN", "CLOSED"} /\ bank.wait \in [{"read", "write"} -> Nat]
        /\ bank = [state |-> bank.state, active |-> bank.active, wait |-> bank.wait, sub |-> bank.sub]
    BY <2>2 DEF BankType
  <2>4. sa \in SubArrayType
    BY <1>2, <2>3
  <2> HIDE DEF sa
  <2>5. na \in SubArrayType
    BY <2>4 DEF AfterResponse, SubArrayType
  <2> HIDE DEF na
  <2>6. sub \in [SubArray -> SubArrayType]
        /\ \A s \in SubArray : sub[s] = IF s = h.sub THEN na ELSE bank.sub[s]
    BY <1>2, <2>3, <2>5
  <2> HIDE DEF sub
  <2>7. nb = [state |-> bank.state, active |-> bank.active, wait |-> bank.wait, sub |-> sub]
    BY <2>3
  <2>8. nb \in BankType /\ nb.state = bank.state /\ nb.active = bank.active /\ nb.sub = sub
    BY <2>3, <2>6, <2>7 DEF BankType
  <2> HIDE DEF nb
  <2>9. /\ banks \in [Bank -> BankType]
        /\ \A b \in Bank : banks[b] = IF b = h.bank THEN nb ELSE k.bank[b]
    BY <1>1, <1>2, <2>8
  <2> HIDE DEF banks
  <2>10. new = [state |-> k.state, wait |-> k.wait, raw |-> k.raw, bank |-> banks]
    BY <1>1, <2>1
  <2>11. /\ DOMAIN new = {"state", "wait", "raw", "bank"} /\ new.state = k.state /\ new.bank = banks
         /\ new = [state |-> new.state, wait |-> new.wait, raw |-> new.raw, bank |-> new.bank]
    BY <2>10
  <2>12. new \in RankType
    BY <1>1, <1>3, <2>9, <2>11, RankFromParts
  <2>13. ASSUME NEW b \in Bank
         PROVE  /\ banks[b].active = k.bank[b].active /\ banks[b].state = k.bank[b].state
                /\ \A s \in SubArray :
                     banks[b].sub[s] = IF b = h.bank /\ s = h.sub
                                       THEN AfterResponse(k.bank[b].sub[s], h.kind) ELSE k.bank[b].sub[s]
    <3>1. CASE b = h.bank
      <4>1. banks[b] = nb /\ k.bank[b] = bank
        BY <2>9, <3>1 DEF bank
      <4>2. \A s \in SubArray : sub[s] = IF s = h.sub THEN AfterResponse(bank.sub[s], h.kind) ELSE bank.sub[s]
        BY <2>6 DEF na, sa
      <4> QED
        BY <2>8, <3>1, <4>1, <4>2
    <3>2. CASE b # h.bank
      BY <2>9, <3>2
    <3> QED
      BY <3>1, <3>2
  <2> QED
    BY <1>5, <2>11, <2>12, <2>13 DEF new
<1> QED
  BY <1>4, <1>5

\* Where a response was before the head of the queue was taken, and where it is.
Was(c, i) == IF c = 0 THEN i + 1 ELSE i
Is(c, j) == IF c = 0 THEN j - 1 ELSE j

OldPlace(q, after, c, i) ==
  /\ Was(c, i) \in DOMAIN q[c] /\ after[c][i] = q[c][Was(c, i)]
  /\ c = 0 => Was(c, i) # 1

NewPlace(q, after, h, c, i) ==
  /\ h.kind = "implicit precharge" /\ c = tRP /\ i = Len(q[c]) + 1
  /\ after[c][i] = Response("precharge", h.rank, h.bank, h.sub)

Places(q, after, h) ==
  /\ \A c \in 0 .. Latest : \A i \in DOMAIN after[c] : OldPlace(q, after, c, i) \/ NewPlace(q, after, h, c, i)
  /\ \A c \in 0 .. Latest : \A j \in DOMAIN q[c] :
       (c = 0 => j # 1) => Is(c, j) \in DOMAIN after[c] /\ after[c][Is(c, j)] = q[c][j]
  /\ \A c \in 0 .. Latest : \A i \in DOMAIN after[c] : i \in Nat \ {0}
  /\ \A c \in 0 .. Latest : \A j \in DOMAIN q[c] : j \in Nat \ {0}

LEMMA AnsweredPlaces ==
  ASSUME IsChannel, NEW q \in QueueType, NEW after, NEW h, Answered(q, after, h)
  PROVE  Places(q, after, h)
<1>1. Latest \in Nat /\ \A c \in 0 .. Latest : c = 0 \/ c \in 1 .. Latest
  BY LatestIsLatest
<1>2. /\ after \in QueueType
      /\ \A i \in DOMAIN after[0] : i + 1 \in DOMAIN q[0] /\ after[0][i] = q[0][i + 1]
      /\ \A i \in DOMAIN q[0] : i # 1 => i - 1 \in DOMAIN after[0] /\ after[0][i - 1] = q[0][i]
      /\ \A c \in 1 .. Latest : \A i \in DOMAIN q[c] : i \in DOMAIN after[c] /\ after[c][i] = q[c][i]
      /\ \A c \in 1 .. Latest : \A i \in DOMAIN after[c] : i \notin DOMAIN q[c] =>
           NewPlace(q, after, h, c, i)
  BY DEF Answered, NewPlace
<1>3. \A x \in QueueType : \A c \in 0 .. Latest : \A i \in DOMAIN x[c] : i \in Nat \ {0}
  <2> SUFFICES ASSUME NEW x \in QueueType, NEW c \in 0 .. Latest, NEW i \in DOMAIN x[c] PROVE i \in Nat \ {0}
    OBVIOUS
  <2>1. x[c] \in Seq(ResponseType)
    BY DEF QueueType
  <2>2. DOMAIN x[c] = 1 .. Len(x[c]) /\ Len(x[c]) \in Nat
    BY <2>1
  <2> QED
    BY <2>2
<1>4. ASSUME NEW c \in 0 .. Latest, NEW i \in DOMAIN after[c]
      PROVE  OldPlace(q, after, c, i) \/ NewPlace(q, after, h, c, i)
  <2>1. i \in Nat \ {0}
    BY <1>2, <1>3
  <2>2. CASE c = 0
    <3>1. i + 1 # 1 /\ Was(c, i) = i + 1
      BY <2>1, <2>2 DEF Was
    <3> QED
      BY <1>2, <2>2, <3>1 DEF OldPlace
  <2>3. CASE c \in 1 .. Latest
    <3>1. c # 0 /\ Was(c, i) = i
      BY <2>3 DEF Was
    <3> QED
      BY <1>2, <2>3, <3>1 DEF OldPlace
  <2> QED
    BY <1>1, <2>2, <2>3
<1>5. ASSUME NEW c \in 0 .. Latest, NEW j \in DOMAIN q[c], c = 0 => j # 1
      PROVE  Is(c, j) \in DOMAIN after[c] /\ after[c][Is(c, j)] = q[c][j]
  <2>1. CASE c = 0
    <3>1. Is(c, j) = j - 1 /\ j # 1
      BY <1>5, <2>1 DEF Is
    <3> QED
      BY <1>2, <2>1, <3>1
  <2>2. CASE c \in 1 .. Latest
    <3>1. Is(c, j) = j
      BY <2>2 DEF Is
    <3> QED
      BY <1>2, <2>2, <3>1
  <2> QED
    BY <1>1, <2>1, <2>2
<1> QED
  BY <1>2, <1>3, <1>4, <1>5 DEF Places

\* The subarray that a response is for.
LEMMA AnswersItsSubArray ==
  ASSUME NEW h \in ResponseType, NEW r, NEW b, NEW s
  PROVE  Answers(h, r, b, s) <=> h.kind # "rank" /\ r = h.rank /\ b = h.bank /\ s = h.sub
<1> DEFINE kd == h.kind
           rk == h.rank
           bk == h.bank
           sb == h.sub
           f == Response(kd, r, b, s)
<1>1. h = [kind |-> kd, rank |-> rk, bank |-> bk, sub |-> sb]
  BY DEF ResponseType
<1>2. Answers(h, r, b, s) <=> kd # "rank" /\ h = f
  BY DEF Answers
<1> HIDE DEF kd, rk, bk, sb
<1>3. f = [kind |-> kd, rank |-> r, bank |-> b, sub |-> s]
  BY DEF Response
<1>4. h = f <=> rk = r /\ bk = b /\ sb = s
  BY <1>1, <1>3
<1> QED
  BY <1>2, <1>4 DEF kd, rk, bk, sb

\* The second answer is for the same subarray.
LEMMA SecondAnswer ==
  ASSUME NEW h \in ResponseType, h.kind = "implicit precharge", NEW e,
         e = Response("precharge", h.rank, h.bank, h.sub), NEW r, NEW b, NEW s
  PROVE  /\ Answers(e, r, b, s) => Answers(h, r, b, s)
         /\ e.kind = "precharge"
<1>1. e.kind = "precharge" /\ e.rank = h.rank /\ e.bank = h.bank /\ e.sub = h.sub
  BY DEF Response
<1>2. e \in ResponseType
  BY AnswerAgain
<1>3. Answers(e, r, b, s) <=> e.kind # "rank" /\ r = e.rank /\ b = e.bank /\ s = e.sub
  BY <1>2, AnswersItsSubArray
<1>4. Answers(h, r, b, s) <=> h.kind # "rank" /\ r = h.rank /\ b = h.bank /\ s = h.sub
  BY AnswersItsSubArray
<1> QED
  BY <1>1, <1>3, <1>4

\* A response leaves the subarrays it is not for, and what they wait for.
LEMMA OtherSubArraysKept ==
  ASSUME NEW q, NEW after, NEW h \in ResponseType, Places(q, after, h), q[0][1] = h,
         NEW r, NEW b, NEW s, ~ Answers(h, r, b, s), NEW sa, SubArrayInv(q, sa, r, b, s)
  PROVE  SubArrayInv(after, sa, r, b, s) /\ (Closes(after, r, b, s) <=> Closes(q, r, b, s))
<1>1. ASSUME NEW c \in 0 .. Latest, NEW i \in DOMAIN after[c], Answers(after[c][i], r, b, s)
      PROVE  Was(c, i) \in DOMAIN q[c] /\ after[c][i] = q[c][Was(c, i)]
  <2>1. ~ NewPlace(q, after, h, c, i)
    BY <1>1, SecondAnswer DEF NewPlace
  <2> QED
    BY <2>1 DEF Places, OldPlace
<1>2. ASSUME NEW c \in 0 .. Latest, NEW i \in DOMAIN after[c], Answers(after[c][i], r, b, s)
      PROVE  Finds(after[c][i], sa, c)
  <2>1. Was(c, i) \in DOMAIN q[c] /\ after[c][i] = q[c][Was(c, i)]
    BY <1>1, <1>2
  <2>2. Finds(q[c][Was(c, i)], sa, c)
    BY <1>2, <2>1 DEF SubArrayInv
  <2> QED
    BY <2>1, <2>2
<1>3. ASSUME NEW c \in 0 .. Latest, NEW d \in 0 .. Latest, NEW i \in DOMAIN after[c],
             NEW j \in DOMAIN after[d], Answers(after[c][i], r, b, s), Answers(after[d][j], r, b, s)
      PROVE  c = d /\ i = j
  <2>1. /\ Was(c, i) \in DOMAIN q[c] /\ after[c][i] = q[c][Was(c, i)]
        /\ Was(d, j) \in DOMAIN q[d] /\ after[d][j] = q[d][Was(d, j)]
    BY <1>1, <1>3
  <2>2. c = d /\ Was(c, i) = Was(d, j)
    BY <1>3, <2>1 DEF SubArrayInv
  <2>3. i \in Nat /\ j \in Nat
    BY DEF Places
  <2> QED
    BY <2>2, <2>3 DEF Was
<1>4. ASSUME Closes(after, r, b, s) PROVE Closes(q, r, b, s)
  <2>1. PICK c \in 0 .. Latest : \E i \in DOMAIN after[c] : after[c][i] = Response("implicit precharge", r, b, s)
    BY <1>4 DEF Closes
  <2>2. PICK i \in DOMAIN after[c] : after[c][i] = Response("implicit precharge", r, b, s)
    BY <2>1
  <2>3. Answers(after[c][i], r, b, s)
    BY <2>2, ClosingAnswers, Zenon
  <2>4. Was(c, i) \in DOMAIN q[c] /\ after[c][i] = q[c][Was(c, i)]
    BY <1>1, <2>3
  <2> QED
    BY <2>2, <2>4 DEF Closes
<1>5. ASSUME Closes(q, r, b, s) PROVE Closes(after, r, b, s)
  <2>1. PICK c \in 0 .. Latest : \E i \in DOMAIN q[c] : q[c][i] = Response("implicit precharge", r, b, s)
    BY <1>5 DEF Closes
  <2>2. PICK i \in DOMAIN q[c] : q[c][i] = Response("implicit precharge", r, b, s)
    BY <2>1
  <2>3. Answers(q[c][i], r, b, s)
    BY <2>2, ClosingAnswers, Zenon
  <2>4. c = 0 => i # 1
    BY <2>3
  <2>5. Is(c, i) \in DOMAIN after[c] /\ after[c][Is(c, i)] = q[c][i]
    BY <2>4 DEF Places
  <2> QED
    BY <2>2, <2>5 DEF Closes
<1> QED
  BY <1>2, <1>3, <1>4, <1>5 DEF SubArrayInv

\* What the subarray it is for waits for then.
GetsIt(q, after, h, sa, r, b, s) ==
  /\ SubArrayInv(after, AfterResponse(sa, h.kind), r, b, s) /\ ~ Closes(after, r, b, s)
  /\ sa.state = Expected(h.kind)
  /\ AfterResponse(sa, h.kind).state = IF h.kind = "implicit precharge" THEN "PRECHARGING" ELSE "CLOSED"
  /\ h.kind = "implicit precharge" => Closes(q, r, b, s)

LEMMA AnsweredSubArray ==
  ASSUME IsChannel, NEW q, NEW after, NEW h \in ResponseType, Places(q, after, h),
         1 \in DOMAIN q[0], q[0][1] = h,
         NEW r, NEW b, NEW s, Answers(h, r, b, s), NEW sa \in SubArrayType, SubArrayInv(q, sa, r, b, s)
  PROVE  GetsIt(q, after, h, sa, r, b, s)
<1> DEFINE na == AfterResponse(sa, h.kind)
<1>1. Latest \in Nat /\ 0 \in 0 .. Latest
  BY LatestIsLatest
<1>2. na.state = IF h.kind = "implicit precharge" THEN "PRECHARGING" ELSE "CLOSED"
  BY DEF AfterResponse, SubArrayType
<1> HIDE DEF na
<1>3. sa.state = Expected(h.kind)
  <2>1. Finds(h, sa, 0)
    BY <1>1 DEF SubArrayInv
  <2> QED
    BY <2>1 DEF Finds
<1>4. ASSUME NEW c \in 0 .. Latest, NEW i \in DOMAIN after[c], Answers(after[c][i], r, b, s)
      PROVE  NewPlace(q, after, h, c, i) /\ after[c][i].kind = "precharge"
  <2>1. ~ OldPlace(q, after, c, i)
    <3>1. ASSUME OldPlace(q, after, c, i) PROVE FALSE
      <4>1. Was(c, i) \in DOMAIN q[c] /\ Answers(q[c][Was(c, i)], r, b, s) /\ (c = 0 => Was(c, i) # 1)
        BY <1>4, <3>1 DEF OldPlace
      <4>2. c = 0 /\ Was(c, i) = 1
        BY <1>1, <4>1 DEF SubArrayInv
      <4> QED
        BY <4>1, <4>2
    <3> QED
      BY <3>1
  <2>2. NewPlace(q, after, h, c, i)
    BY <2>1 DEF Places
  <2>3. after[c][i].kind = "precharge"
    BY <2>2, SecondAnswer DEF NewPlace
  <2> QED
    BY <2>2, <2>3
<1>5. ASSUME NEW c \in 0 .. Latest, NEW i \in DOMAIN after[c], Answers(after[c][i], r, b, s)
      PROVE  Finds(after[c][i], na, c)
  <2> DEFINE e == after[c][i]
  <2>1. h.kind = "implicit precharge" /\ e.kind = "precharge"
    BY <1>4, <1>5 DEF NewPlace
  <2> HIDE DEF e
  <2>2. Finds(e, na, c)
    BY <1>2, <2>1 DEF Finds, Expected
  <2> QED
    BY <2>2 DEF e
<1>6. ASSUME NEW c \in 0 .. Latest, NEW d \in 0 .. Latest, NEW i \in DOMAIN after[c],
             NEW j \in DOMAIN after[d], Answers(after[c][i], r, b, s), Answers(after[d][j], r, b, s)
      PROVE  c = d /\ i = j
  <2>1. NewPlace(q, after, h, c, i) /\ NewPlace(q, after, h, d, j)
    BY <1>4, <1>6
  <2> QED
    BY <2>1 DEF NewPlace
<1>7. ~ Closes(after, r, b, s)
  <2> SUFFICES ASSUME NEW c \in 0 .. Latest, NEW i \in DOMAIN after[c],
                      after[c][i] = Response("implicit precharge", r, b, s)
               PROVE  FALSE
    BY DEF Closes
  <2>1. Answers(after[c][i], r, b, s) /\ after[c][i].kind = "implicit precharge"
    BY ClosingAnswers, Zenon
  <2>2. after[c][i].kind = "precharge"
    BY <1>4, <2>1
  <2> QED
    BY <2>1, <2>2
<1>8. ASSUME h.kind = "implicit precharge" PROVE Closes(q, r, b, s)
  <2>1. h = Response("implicit precharge", r, b, s)
    <3>1. \A x : h = Response(x, r, b, s) /\ x = "implicit precharge" => h = Response("implicit precharge", r, b, s)
      OBVIOUS
    <3>2. h = Response(h.kind, r, b, s)
      BY DEF Answers
    <3> QED
      BY <1>8, <3>1, <3>2, Zenon
  <2> QED
    BY <1>1, <2>1 DEF Closes
<1>9. SubArrayInv(after, na, r, b, s)
  BY <1>5, <1>6 DEF SubArrayInv
<1> QED
  BY <1>2, <1>3, <1>7, <1>8, <1>9 DEF na, GetsIt

\* What a response does to the banks of rank r.
BanksAnswered(k, new, h, r) ==
  \A b \in Bank :
    /\ new[b].active = k.bank[b].active /\ new[b].state = k.bank[b].state
    /\ \A s \in SubArray :
         new[b].sub[s] = IF Answers(h, r, b, s) THEN AfterResponse(k.bank[b].sub[s], h.kind)
                         ELSE k.bank[b].sub[s]

\* A response keeps what the banks know.
LEMMA ResponseKeepsRows ==
  ASSUME IsChannel, NEW q, NEW after, NEW h \in ResponseType, Places(q, after, h),
         1 \in DOMAIN q[0], q[0][1] = h, NEW r, NEW k \in RankType, RowsInv(q, k, r),
         NEW new, BanksAnswered(k, new, h, r)
  PROVE  \A b \in Bank : /\ BankInv(after, new[b], r, b)
                         /\ \A s \in SubArray : SubArrayInv(after, new[b].sub[s], r, b, s)
<1> SUFFICES ASSUME NEW b \in Bank
             PROVE  /\ BankInv(after, new[b], r, b)
                    /\ \A s \in SubArray : SubArrayInv(after, new[b].sub[s], r, b, s)
  OBVIOUS
<1> DEFINE old == k.bank[b]
           now == new[b]
<1>1. old \in BankType
  BY RankTypeIsRank
<1>2. BankInv(q, old, r, b) /\ \A s \in SubArray : SubArrayInv(q, old.sub[s], r, b, s)
  BY DEF RowsInv
<1>3. /\ now.active = old.active /\ now.state = old.state
      /\ \A s \in SubArray :
           now.sub[s] = IF Answers(h, r, b, s) THEN AfterResponse(old.sub[s], h.kind) ELSE old.sub[s]
  BY DEF BanksAnswered
<1> HIDE DEF old, now
<1>4. ASSUME NEW s \in SubArray
      PROVE  /\ SubArrayInv(after, now.sub[s], r, b, s)
             /\ s \in ToSet(now.active) <=> now.sub[s].state = "OPEN" /\ ~ Closes(after, r, b, s)
  <2> DEFINE sa == old.sub[s]
             na == now.sub[s]
  <2>1. sa \in SubArrayType /\ SubArrayInv(q, sa, r, b, s)
    BY <1>1, <1>2 DEF BankType
  <2>2. na = IF Answers(h, r, b, s) THEN AfterResponse(sa, h.kind) ELSE sa
    BY <1>3
  <2>3. s \in ToSet(now.active) <=> sa.state = "OPEN" /\ ~ Closes(q, r, b, s)
    BY <1>2, <1>3 DEF BankInv
  <2> HIDE DEF sa, na
  <2>4. CASE Answers(h, r, b, s)
    <3>1. /\ SubArrayInv(after, AfterResponse(sa, h.kind), r, b, s) /\ ~ Closes(after, r, b, s)
          /\ sa.state = Expected(h.kind)
          /\ AfterResponse(sa, h.kind).state = IF h.kind = "implicit precharge" THEN "PRECHARGING" ELSE "CLOSED"
          /\ h.kind = "implicit precharge" => Closes(q, r, b, s)
      <4>1. GetsIt(q, after, h, sa, r, b, s)
        BY <2>1, <2>4, AnsweredSubArray, Zenon
      <4> QED
        BY <4>1 DEF GetsIt
    <3>2. na = AfterResponse(sa, h.kind)
      BY <2>2, <2>4
    <3>3. na.state # "OPEN"
      BY <3>1, <3>2
    <3>4. s \notin ToSet(now.active)
      BY <2>3, <3>1 DEF Expected
    <3> QED
      BY <3>1, <3>2, <3>3, <3>4 DEF na
  <2>5. CASE ~ Answers(h, r, b, s)
    <3>1. SubArrayInv(after, sa, r, b, s) /\ (Closes(after, r, b, s) <=> Closes(q, r, b, s))
      BY <2>1, <2>5, OtherSubArraysKept
    <3>2. na = sa
      BY <2>2, <2>5
    <3> QED
      BY <2>3, <3>1, <3>2 DEF na
  <2> QED
    BY <2>4, <2>5
<1>5. BankInv(after, now, r, b)
  BY <1>2, <1>3, <1>4 DEF BankInv
<1> QED
  BY <1>4, <1>5 DEF now

\* A look that is still behind a response stays behind it.
LEMMA ResponseKeepsLooks ==
  ASSUME NEW q, NEW after, NEW h \in ResponseType, Places(q, after, h), LooksInv(q)
  PROVE  LooksInv(after)
<1> SUFFICES ASSUME NEW c \in 0 .. Latest, NEW i \in DOMAIN after[c], Closer(after[c][i])
             PROVE  LookBehind(after, c, i, after[c][i].rank)
  BY DEF LooksInv
<1> DEFINE r == after[c][i].rank
           m == Was(c, i)
<1>1. ~ NewPlace(q, after, h, c, i)
  <2>1. ASSUME NewPlace(q, after, h, c, i) PROVE after[c][i].kind = "precharge"
    BY <2>1, SecondAnswer DEF NewPlace
  <2> QED
    BY <2>1 DEF Closer
<1>2. m \in DOMAIN q[c] /\ after[c][i] = q[c][m]
  BY <1>1 DEF Places, OldPlace
<1>3. LookBehind(q, c, m, r)
  BY <1>2 DEF LooksInv
<1> HIDE DEF r
<1>4. PICK j \in DOMAIN q[c] : j > m /\ q[c][j].kind = "rank" /\ q[c][j].rank = r
  BY <1>3 DEF LookBehind
<1>5. i \in Nat \ {0} /\ j \in Nat
  BY DEF Places
<1>6. Is(c, j) > i /\ (c = 0 => j # 1)
  BY <1>4, <1>5 DEF Is, Was
<1>7. Is(c, j) \in DOMAIN after[c] /\ after[c][Is(c, j)] = q[c][j]
  BY <1>6 DEF Places
<1>8. LookBehind(after, c, i, r)
  BY <1>4, <1>6, <1>7 DEF LookBehind
<1> QED
  BY <1>8 DEF r

\* A look of rank r that is still to come comes nearer.
LookComes(q, i, r) == i \in DOMAIN q[0] /\ q[0][i].kind = "rank" /\ q[0][i].rank = r

LEMMA LookStays ==
  ASSUME IsChannel, NEW q, NEW after, NEW h, Places(q, after, h), NEW i, NEW r, LookComes(q, i, r), i # 1
  PROVE  \E j : LookComes(after, j, r)
<1>1. 0 \in 0 .. Latest
  BY LatestIsLatest
<1>2. Is(0, i) \in DOMAIN after[0] /\ after[0][Is(0, i)] = q[0][i]
  BY <1>1 DEF Places, LookComes
<1>3. LookComes(after, Is(0, i), r)
  BY <1>2 DEF LookComes
<1> QED
  BY <1>3

LEMMA StandbyLooks ==
  ASSUME NEW q, NEW k, NEW r
  PROVE  StandbyInv(q, k, r) <=>
           /\ k.state = "CLOSED" => RankIdle(k.bank)
           /\ tWP = 0 /\ RankIdle(k.bank) /\ k.state # "CLOSED" => \E i : LookComes(q, i, r)
BY DEF StandbyInv, LookComes

\* The last row of a rank that closes has a look behind it.
LEMMA ResponseKeepsStandby ==
  ASSUME IsChannel, NEW q, NEW after, NEW h \in ResponseType, Places(q, after, h),
         1 \in DOMAIN q[0], q[0][1] = h, LooksInv(q), NEW r, NEW k \in RankType,
         RowsInv(q, k, r), StandbyInv(q, k, r),
         NEW new, BanksAnswered(k, new.bank, h, r),
         new.state = IF r = h.rank /\ h.kind = "rank" /\ RankIdle(k.bank) THEN "CLOSED" ELSE k.state
  PROVE  StandbyInv(after, new, r)
<1>1. 0 \in 0 .. Latest
  BY LatestIsLatest
<1>2. /\ k.state = "CLOSED" => RankIdle(k.bank)
      /\ tWP = 0 /\ RankIdle(k.bank) /\ k.state # "CLOSED" => \E i : LookComes(q, i, r)
  BY StandbyLooks
<1>3. ASSUME NEW b \in Bank, NEW s \in SubArray
      PROVE  new.bank[b].sub[s].state =
               IF ~ Answers(h, r, b, s) THEN k.bank[b].sub[s].state
               ELSE IF h.kind = "implicit precharge" THEN "PRECHARGING" ELSE "CLOSED"
  <2> DEFINE sa == k.bank[b].sub[s]
  <2>1. new.bank[b].sub[s] = IF Answers(h, r, b, s) THEN AfterResponse(sa, h.kind) ELSE sa
    BY DEF BanksAnswered
  <2>2. sa \in SubArrayType
    BY RankTypeIsRank DEF BankType
  <2> HIDE DEF sa
  <2>3. AfterResponse(sa, h.kind).state = IF h.kind = "implicit precharge" THEN "PRECHARGING" ELSE "CLOSED"
    BY <2>2 DEF AfterResponse, SubArrayType
  <2> QED
    BY <2>1, <2>3 DEF sa
<1>4. RankIdle(k.bank) => RankIdle(new.bank)
  <2> SUFFICES ASSUME RankIdle(k.bank) PROVE \A b \in Bank, s \in SubArray : new.bank[b].sub[s].state \in IdleStates
    BY IdleRank
  <2> SUFFICES ASSUME NEW b \in Bank, NEW s \in SubArray PROVE new.bank[b].sub[s].state \in IdleStates
    OBVIOUS
  <2>1. k.bank[b].sub[s].state \in IdleStates
    BY IdleRank
  <2> QED
    BY <1>3, <2>1 DEF IdleStates
<1>5. new.state = "CLOSED" => RankIdle(new.bank)
  BY <1>2, <1>4
<1>6. ASSUME tWP = 0, RankIdle(new.bank), new.state # "CLOSED", RankIdle(k.bank)
      PROVE  \E i : LookComes(after, i, r)
  <2>1. k.state # "CLOSED" /\ ~ (r = h.rank /\ h.kind = "rank")
    BY <1>6
  <2>2. PICK i : LookComes(q, i, r)
    BY <1>2, <1>6, <2>1
  <2>3. i # 1
    BY <2>1, <2>2 DEF LookComes
  <2> QED
    BY <2>2, <2>3, LookStays
<1>7. ASSUME tWP = 0, RankIdle(new.bank), ~ RankIdle(k.bank)
      PROVE  \E i : LookComes(after, i, r)
  <2>1. PICK b \in Bank, s \in SubArray : k.bank[b].sub[s].state \notin IdleStates
    BY <1>7, IdleRank
  <2>2. new.bank[b].sub[s].state \in IdleStates
    BY <1>7, IdleRank
  <2>3. Answers(h, r, b, s)
    BY <1>3, <2>1, <2>2
  <2>4. k.bank[b].sub[s] \in SubArrayType /\ SubArrayInv(q, k.bank[b].sub[s], r, b, s)
    BY RankTypeIsRank DEF BankType, RowsInv
  <2>5. k.bank[b].sub[s].state = Expected(h.kind)
    <3>1. GetsIt(q, after, h, k.bank[b].sub[s], r, b, s)
      BY <2>3, <2>4, AnsweredSubArray, Zenon
    <3> QED
      BY <3>1 DEF GetsIt
  <2>6. h.kind \in {"implicit precharge", "precharge", "refresh", "rank"}
    BY DEF ResponseType
  <2>7. h.kind \in {"implicit precharge", "refresh"} /\ h.rank = r
    BY <2>1, <2>3, <2>5, <2>6, AnswersTheRank DEF Expected, IdleStates, Answers
  <2>8. Closer(h)
    BY <1>7, <2>7 DEF Closer
  <2>9. LookBehind(q, 0, 1, r)
    BY <1>1, <2>7, <2>8 DEF LooksInv
  <2>10. PICK j \in DOMAIN q[0] : j > 1 /\ q[0][j].kind = "rank" /\ q[0][j].rank = r
    BY <2>9 DEF LookBehind
  <2>11. LookComes(q, j, r) /\ j # 1
    BY <2>10 DEF LookComes
  <2> QED
    BY <2>11, LookStays
<1>8. tWP = 0 /\ RankIdle(new.bank) /\ new.state # "CLOSED" => \E i : LookComes(after, i, r)
  BY <1>6, <1>7
<1> QED
  BY <1>5, <1>8, StandbyLooks

\* The action RequestComplete keeps the invariant.
LEMMA ResponseKeepsDevice ==
  ASSUME DeviceInv, RequestComplete
  PROVE  DeviceInv'
<1> DEFINE q == responses
           after == responses'
           h == Head(q[0])
<1>1. IsChannel /\ p \in Configurations /\ p' = p /\ commandIssued' \in BOOLEAN
  BY ChannelsAreChannels DEF DeviceInv, TypeOK, RequestComplete
<1>2. q \in QueueType /\ rank \in [Rank -> RankType] /\ q[0] # <<>>
  BY DEF DeviceInv, TypeOK, QueueType, RequestComplete, Due
<1>3. after = ResponsesAfter(q, h)
  BY DEF RequestComplete, ResponsesAfter
<1>4. rank' = [rank EXCEPT ![h.rank] = RankAfterResponse(rank[h.rank], h)]
  BY DEF RequestComplete
<1>5. LooksInv(q) /\ \A r \in Rank : RowsInv(q, rank[r], r) /\ StandbyInv(q, rank[r], r)
  BY DEF DeviceInv
<1>6. /\ Answered(q, ResponsesAfter(q, h), h)
      /\ h \in ResponseType /\ 1 \in DOMAIN q[0] /\ q[0][1] = h
  BY <1>1, <1>2, QueueAfterResponse
<1> HIDE DEF q, after, h
<1>7. Answered(q, after, h) /\ after \in QueueType
  BY <1>3, <1>6 DEF Answered
<1>8. Places(q, after, h)
  BY <1>1, <1>2, <1>7, AnsweredPlaces
<1>9. h.rank \in Rank
  BY <1>6 DEF ResponseType
<1>10. ASSUME NEW r \in Rank
       PROVE  rank'[r] \in RankType /\ RowsInv(after, rank'[r], r) /\ StandbyInv(after, rank'[r], r)
  <2> DEFINE k == rank[r]
             new == rank'[r]
  <2>1. new = IF r = h.rank THEN RankAfterResponse(k, h) ELSE k
    BY <1>2, <1>4, <1>9
  <2>2. k \in RankType /\ RowsInv(q, k, r) /\ StandbyInv(q, k, r)
    BY <1>2, <1>5
  <2> HIDE DEF k, new
  <2>3. /\ new \in RankType /\ BanksAnswered(k, new.bank, h, r)
        /\ new.state = IF r = h.rank /\ h.kind = "rank" /\ RankIdle(k.bank) THEN "CLOSED" ELSE k.state
    <3>1. CASE r = h.rank
      <4>1. /\ new \in RankType
            /\ new.state = IF h.kind = "rank" /\ RankIdle(k.bank) THEN "CLOSED" ELSE k.state
            /\ \A b \in Bank :
                  /\ new.bank[b].active = k.bank[b].active /\ new.bank[b].state = k.bank[b].state
                  /\ \A s \in SubArray :
                       new.bank[b].sub[s] = IF h.kind # "rank" /\ b = h.bank /\ s = h.sub
                                            THEN AfterResponse(k.bank[b].sub[s], h.kind) ELSE k.bank[b].sub[s]
        BY <1>6, <2>1, <2>2, <3>1, RankAnswered
      <4>2. \A b, s : Answers(h, r, b, s) <=> h.kind # "rank" /\ b = h.bank /\ s = h.sub
        BY <1>6, <3>1, AnswersItsSubArray
      <4>3. BanksAnswered(k, new.bank, h, r)
        BY <4>1, <4>2 DEF BanksAnswered
      <4> QED
        BY <3>1, <4>1, <4>3
    <3>2. CASE r # h.rank
      <4>1. new = k
        BY <2>1, <3>2
      <4>2. \A b, s : ~ Answers(h, r, b, s)
        BY <3>2, AnswersTheRank
      <4>3. BanksAnswered(k, new.bank, h, r)
        BY <4>1, <4>2 DEF BanksAnswered
      <4> QED
        BY <2>2, <3>2, <4>1, <4>3
    <3> QED
      BY <3>1, <3>2
  <2>4. RowsInv(after, new, r)
    BY <1>1, <1>6, <1>8, <2>2, <2>3, ResponseKeepsRows DEF RowsInv
  <2>5. StandbyInv(after, new, r)
    BY <1>1, <1>5, <1>6, <1>8, <2>2, <2>3, ResponseKeepsStandby
  <2> QED
    BY <2>3, <2>4, <2>5 DEF new
<1>11. LooksInv(after)
  BY <1>5, <1>6, <1>8, ResponseKeepsLooks
<1>12. rank' \in [Rank -> RankType]
  BY <1>2, <1>4, <1>10
<1> QED
  BY <1>1, <1>7, <1>10, <1>11, <1>12, SameInvariant DEF after
-----------------------------------------------------------------------------
\* The invariant is inductive.
LEMMA InitialDevice == Init => DeviceInv
<1> SUFFICES ASSUME Init PROVE DeviceInv
  OBVIOUS
<1> DEFINE q == responses
<1>1. p \in Configurations /\ IsChannel /\ commandIssued \in BOOLEAN
  BY ChannelsAreChannels DEF Init
<1>2. q \in QueueType /\ \A c \in 0 .. Latest : DOMAIN q[c] = {}
  BY DEF Init, QueueType
<1>3. rank = [r \in Rank |-> InitRank]
  BY DEF Init
<1>4. InitSubArray \in SubArrayType /\ InitSubArray.state = "CLOSED"
  BY DEF InitSubArray, SubArrayType
<1>5. /\ InitBank \in BankType /\ InitBank.active = <<>> /\ InitBank.state = "CLOSED"
      /\ \A s \in SubArray : InitBank.sub[s] = InitSubArray
  BY <1>4 DEF InitBank, BankType
<1>6. /\ InitRank \in RankType /\ InitRank.state = "CLOSED"
      /\ \A b \in Bank : InitRank.bank[b] = InitBank
  BY <1>5, DelaysAreNatural DEF InitRank, RankType
<1>7. TypeOK
  BY <1>1, <1>2, <1>3, <1>6 DEF TypeOK, QueueType
<1> HIDE DEF q
<1>8. LooksInv(q)
  BY <1>2 DEF LooksInv
<1>9. ASSUME NEW r \in Rank PROVE RowsInv(q, rank[r], r) /\ StandbyInv(q, rank[r], r)
  <2>1. rank[r] = InitRank
    BY <1>3
  <2>2. \A b, s : ~ Closes(q, r, b, s)
    BY <1>2 DEF Closes
  <2>3. ASSUME NEW b \in Bank PROVE BankInv(q, InitRank.bank[b], r, b)
    <3>1. InitRank.bank[b] = InitBank
      BY <1>6
    <3>2. Distinct(InitBank.active) /\ ToSet(InitBank.active) = {}
      BY <1>5 DEF Distinct, ToSet
    <3>3. BankInv(q, InitBank, r, b)
      BY <1>4, <1>5, <2>2, <3>2 DEF BankInv
    <3> QED
      BY <3>1, <3>3
  <2>4. \A b \in Bank, s \in SubArray : SubArrayInv(q, InitRank.bank[b].sub[s], r, b, s)
    BY <1>2 DEF SubArrayInv
  <2>5. RankIdle(InitRank.bank)
    BY <1>4, <1>5, <1>6, IdleRank DEF IdleStates
  <2> QED
    BY <1>6, <2>1, <2>3, <2>4, <2>5 DEF RowsInv, StandbyInv
<1> QED
  BY <1>7, <1>8, <1>9 DEF DeviceInv, q

LEMMA AlwaysDevice == Spec => []DeviceInv
<1>1. DeviceInv /\ [Next]_vars => DeviceInv'
  <2> SUFFICES ASSUME DeviceInv, [Next]_vars PROVE DeviceInv'
    OBVIOUS
  <2>1. ASSUME NEW cmd \in Commands, IssueCommand(cmd) PROVE DeviceInv'
    BY <2>1, IssueKeepsDevice
  <2>2. CASE RequestComplete
    BY <2>2, ResponseKeepsDevice
  <2>3. CASE Cycle
    BY <2>3, CycleKeepsDevice
  <2>4. CASE UNCHANGED vars
    <3>1. p' = p /\ rank' = rank /\ responses' = responses /\ commandIssued' = commandIssued
      BY <2>4 DEF vars
    <3>2. /\ p \in Configurations /\ rank \in [Rank -> RankType] /\ responses \in QueueType
          /\ commandIssued \in BOOLEAN /\ LooksInv(responses)
          /\ \A r \in Rank : RowsInv(responses, rank[r], r) /\ StandbyInv(responses, rank[r], r)
      BY DEF DeviceInv, TypeOK, QueueType
    <3> QED
      BY <3>1, <3>2, SameInvariant
  <2> QED
    BY <2>1, <2>2, <2>3, <2>4 DEF Next
<1> QED
  BY <1>1, InitialDevice, PTL DEF Spec

\* Every command and response leaves a state of the program: in particular no
\* response is inserted later than Latest, whatever the timing parameters.
THEOREM OffChipBusType == Spec => []TypeOK
<1>1. DeviceInv => TypeOK
  BY DEF DeviceInv
<1> QED
  BY <1>1, AlwaysDevice, PTL

\* For any commands: activeSubArrayQueue has the open subarrays that do not close
\* themselves, once each, and the bank is open while it has one (DDR3Bank::Activate,
\* Read, Write, Precharge; SubArray::RequestComplete).
THEOREM BanksAlwaysKnowTheirRows == Spec => []BanksKnowTheirOpenRows
<1>1. DeviceInv => BanksKnowTheirOpenRows
  <2> SUFFICES ASSUME DeviceInv PROVE BanksKnowTheirOpenRows
    OBVIOUS
  <2>1. DOMAIN responses = 0 .. Latest
    BY DEF DeviceInv, TypeOK
  <2>2. \A r, b, s : ClosesItself(r, b, s) <=> Closes(responses, r, b, s)
    BY <2>1 DEF ClosesItself, Closes, ToSet
  <2>3. ASSUME NEW r \in Rank, NEW b \in Bank
        PROVE  /\ Distinct(rank[r].bank[b].active)
               /\ \A s \in SubArray :
                    s \in ToSet(rank[r].bank[b].active)
                      <=> rank[r].bank[b].sub[s].state = "OPEN" /\ ~ ClosesItself(r, b, s)
               /\ rank[r].bank[b].state = "OPEN" <=> rank[r].bank[b].active # <<>>
    <3> DEFINE bank == rank[r].bank[b]
    <3>1. BankInv(responses, bank, r, b)
      BY DEF DeviceInv, RowsInv
    <3> HIDE DEF bank
    <3>2. /\ Distinct(bank.active)
          /\ \A s \in SubArray :
               s \in ToSet(bank.active) <=> bank.sub[s].state = "OPEN" /\ ~ ClosesItself(r, b, s)
          /\ bank.state = "OPEN" <=> bank.active # <<>>
      BY <2>2, <3>1 DEF BankInv
    <3> QED
      BY <3>2 DEF bank
  <2> QED
    BY <2>3 DEF BanksKnowTheirOpenRows, Distinct
<1> QED
  BY <1>1, AlwaysDevice, PTL

\* The rank's events come behind the responses that may close its last row, so that
\* without write pulses it always sees them closed (StandardRank::RequestComplete).
THEOREM StandbyIsIdle == Spec => []StandbyMeansIdle
<1>1. DeviceInv => StandbyMeansIdle
  <2> SUFFICES ASSUME DeviceInv, ~ Due, NEW r \in Rank
               PROVE  /\ rank[r].state = "CLOSED" => RankIdle(rank[r].bank)
                      /\ tWP = 0 /\ RankIdle(rank[r].bank) => rank[r].state = "CLOSED"
    BY DEF StandbyMeansIdle
  <2>1. StandbyInv(responses, rank[r], r) /\ responses[0] = <<>>
    BY DEF DeviceInv, Due
  <2> QED
    BY <2>1 DEF StandbyInv
<1> QED
  BY <1>1, AlwaysDevice, PTL
=============================================================================
