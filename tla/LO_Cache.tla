------------------------------ MODULE LO_Cache ------------------------------
(* MemControl/LO-Cache: a direct-mapped DRAM cache in front of a main      *)
(* memory.  Hits and writes are known when the DRAM has been accessed; a   *)
(* read that misses goes on to main memory, whose answer both returns to   *)
(* the requestor and comes back as a fill through the cache's own queue.   *)
(* PredictorDRC has the next-state relation.                               *)
EXTENDS NVMain, CacheBank

CONSTANTS
  Request,             \* identities of the requests from above
  DRCQueueSize,
  PerfectFills         \* the values of the parameter to be checked

ASSUME LO_CacheAssumption ==
  /\ DRCQueueSize \in Nat \ {0}
  /\ PerfectFills \subseteq BOOLEAN

\* One row; a line's number is its column in the cache.
CacheSets == 0 .. numSets - 1

VARIABLES
  perfectFills,       \* the parameter, fixed from the start
  access,             \* what a request asks for, and whether it was answered
  drcQueue,           \* the requests in the cache's queue
  drcBanks,           \* those that the DRAM works on
  functionalCache,    \* set -> its single entry
  outstandingFills,   \* the read misses that main memory has not answered
  mainMemory          \* an NVMain
vars == <<perfectFills, access, drcQueue, drcBanks, functionalCache, outstandingFills, mainMemory>>

Idle == [type |-> "none", line |-> 0, answered |-> FALSE]
DRCRequest(tag, id) == [tag |-> tag, id |-> id, line |-> access[id].line]
MemRequest(tag, type, id, line) ==
  [tag |-> tag, type |-> type, id |-> id, line |-> line, place |-> line]
InMainMemory ==
  mainMemory.queue \cup mainMemory.banks \cup mainMemory.responses
    \cup ToSet(mainMemory.pendingMemoryRequests)

NothingUnderWay == drcQueue = {} /\ drcBanks = {} /\ outstandingFills = {}

\* A channel of the cache, direct-mapped.
EmptyCache == [s \in CacheSets |-> Cleared(1)]
ChannelInit == perfectFills \in PerfectFills /\ functionalCache = EmptyCache

\* The channel and, as the last child, main memory.
Init ==
  /\ NothingUnderWay /\ ChannelInit
  /\ access = [r \in Request |-> Idle]
  /\ mainMemory = Empty
-----------------------------------------------------------------------------
(* From above.                                                             *)

Unused(r) == access[r] = Idle

DRCIsIssuable == Cardinality(drcQueue) < DRCQueueSize

Room(line) == MakeRoom(functionalCache[SetID(line)], line)
FillSet(line) ==
  functionalCache' = [functionalCache EXCEPT ![SetID(line)] = Install(Room(line), line)]

\* With PerfectFills a write, or a fill, is there at once: IssueCommand evicts
\* whatever the set holds, the line itself too.
InstallAtOnce(line) ==
  functionalCache' = [functionalCache EXCEPT ![SetID(line)] = <<Entry(line)>>]

\* What predictors ask: a write is always a hit.
IssueFunctional(type, line) == type = "WRITE" \/ Present(functionalCache[SetID(line)], line)

\* Warming up: a read that misses is installed, a write installs nothing.
IssueAtomic(type, line) ==
  IF IssueFunctional(type, line) THEN UNCHANGED functionalCache ELSE FillSet(line)

IssueCommandTo(r, type, line) ==
  /\ Unused(r) /\ DRCIsIssuable
  /\ access' = [access EXCEPT ![r] = [type |-> type, line |-> line, answered |-> FALSE]]
  /\ LET req == [tag |-> "NONE", id |-> r, line |-> line]
     IN  IF perfectFills /\ type = "WRITE"
         THEN drcBanks' = drcBanks \cup {req} /\ InstallAtOnce(line) /\ UNCHANGED drcQueue
         ELSE drcQueue' = drcQueue \cup {req} /\ UNCHANGED <<drcBanks, functionalCache>>
  /\ UNCHANGED <<perfectFills, outstandingFills, mainMemory>>

\* Cycle: any of the transactions may be the one whose commands are issued.
Cycle(q) ==
  /\ q \in drcQueue
  /\ drcQueue' = drcQueue \ {q}
  /\ drcBanks' = drcBanks \cup {q}
  /\ UNCHANGED <<perfectFills, access, functionalCache, outstandingFills, mainMemory>>
-----------------------------------------------------------------------------
(* RequestComplete, for what the cache's own DRAM has done.                *)

Answer(r) == access' = [access EXCEPT ![r].answered = TRUE]

\* A dirty victim is written back.
WriteBack(q) ==
  LET set == functionalCache[SetID(q.line)]
      victim == ChooseVictim(set)
      evicts == SetFull(set) /\ ~ Present(set, q.line)
  IN  IF evicts /\ EvictsDirty(set, victim)
      THEN mainMemory' = IssueOrWait(mainMemory, MemRequest("EVICT", "WRITE", q.id, victim))
      ELSE UNCHANGED mainMemory

CompleteFill(q) ==
  /\ q \in drcBanks /\ q.tag = "FILL"
  /\ drcBanks' = drcBanks \ {q}
  /\ FillSet(q.line)
  /\ WriteBack(q)
  /\ UNCHANGED <<perfectFills, access, drcQueue, outstandingFills>>

CompleteWrite(q) ==
  /\ q \in drcBanks /\ q.tag = "NONE" /\ access[q.id].type = "WRITE"
  /\ drcBanks' = drcBanks \ {q}
  /\ FillSet(q.line)
  /\ WriteBack(q)
  /\ Answer(q.id)
  /\ UNCHANGED <<perfectFills, drcQueue, outstandingFills>>

Hit(q) == Present(functionalCache[SetID(q.line)], q.line)

CompleteReadHit(q) ==
  /\ q \in drcBanks /\ q.tag = "NONE" /\ access[q.id].type = "READ" /\ Hit(q)
  /\ drcBanks' = drcBanks \ {q}
  /\ Answer(q.id)
  /\ UNCHANGED <<perfectFills, drcQueue, functionalCache, outstandingFills, mainMemory>>

CompleteReadMiss(q) ==
  /\ q \in drcBanks /\ q.tag = "NONE" /\ access[q.id].type = "READ" /\ ~ Hit(q)
  /\ drcBanks' = drcBanks \ {q}
  /\ outstandingFills' = outstandingFills \cup {q.id}
  /\ mainMemory' = IssueOrWait(mainMemory, MemRequest("MEMREAD", "READ", q.id, q.line))
  /\ UNCHANGED <<perfectFills, access, drcQueue, functionalCache>>

\* Refreshes aside, every request that the DRAM completes is one of these.
CompleteDRC(q) == CompleteFill(q) \/ CompleteWrite(q) \/ CompleteReadHit(q) \/ CompleteReadMiss(q)
-----------------------------------------------------------------------------
(* Main memory.                                                            *)

MemoryCycle(q) ==
  /\ q \in mainMemory.queue
  /\ mainMemory' = LeavesQueue(mainMemory, q)
  /\ UNCHANGED <<perfectFills, access, drcQueue, drcBanks, functionalCache, outstandingFills>>

\* The fill goes into the cache's queue whether or not it has room.
Fill(q) ==
  IF perfectFills
  THEN drcBanks' = drcBanks \cup {DRCRequest("FILL", q.id)} /\ InstallAtOnce(q.line) /\ UNCHANGED drcQueue
  ELSE drcQueue' = drcQueue \cup {DRCRequest("FILL", q.id)} /\ UNCHANGED <<drcBanks, functionalCache>>

\* DRAMCache: to the cache what its channels own, up what bypassed it.
Returned(q) ==
  CASE q.tag = "MEMREAD" ->
         Fill(q) /\ outstandingFills' = outstandingFills \ {q.id} /\ Answer(q.id)
    [] q.tag = "BYPASS" ->
         Answer(q.id) /\ UNCHANGED <<drcQueue, drcBanks, functionalCache, outstandingFills>>
    [] OTHER -> UNCHANGED <<access, drcQueue, drcBanks, functionalCache, outstandingFills>>

\* NVMain::RequestComplete: the owner first, then a pending request.
MemoryRequestComplete(q) ==
  LET done == Completed(mainMemory, q)
  IN  /\ q \in mainMemory.banks \cup mainMemory.responses
      /\ Returned(q)
      /\ mainMemory' = RetryPending(IF q.tag = "PREFETCH" THEN IntoPrefetchBuffer(done, q) ELSE done)
      /\ UNCHANGED perfectFills
-----------------------------------------------------------------------------
(* Checkpoints.  gem5 takes them when the memory is drained.               *)

\* Mutant: the cache's own requests are waited for, not those that left it.
DrainedCacheOnly == drcQueue = {} /\ drcBanks = {}

\* drain: no request from above is left; fills and prefetches may be.
Drained == \A r \in Request : access[r] # Idle => access[r].answered

CreateCheckpoint == functionalCache

\* Another process goes on with the lines of the checkpoint, and with none when
\* the files are not there or not of the size of its own cache.
RestoreCheckpoint ==
  /\ functionalCache' \in {CreateCheckpoint, EmptyCache}
  /\ drcQueue' = {} /\ drcBanks' = {}
  /\ outstandingFills' = {}
  /\ mainMemory' = Empty
  /\ UNCHANGED <<perfectFills, access>>
-----------------------------------------------------------------------------
DRCName == [tag : {"NONE", "FILL"}, id : Request, line : Line]
MemName ==
  [tag : {"MEMREAD", "EVICT", "PREFETCH", "BYPASS"}, type : {"READ", "WRITE"},
   id : Request, line : Line, place : Line]

TypeOK ==
  /\ perfectFills \in BOOLEAN
  /\ access \in [Request -> [type : {"none", "READ", "WRITE"}, line : Line, answered : BOOLEAN]]
  /\ drcQueue \subseteq DRCName /\ drcBanks \subseteq DRCName
  /\ \A s \in CacheSets :
       functionalCache[s] \in {Cleared(1)} \cup {<<[line |-> l, dirty |-> d]>> : l \in Line, d \in BOOLEAN}
  /\ outstandingFills \subseteq Request
  /\ InMainMemory \subseteq MemName
  /\ Cardinality(mainMemory.queue) <= QueueSize
  /\ Len(mainMemory.prefetchBuffer) <= PrefetchBufferSize

\* A request from above is in exactly one place until it is answered, and in
\* none afterwards: it is neither lost nor answered twice, and the assertions on
\* outstandingFills (LO-Cache.cpp:352, 448) hold.
UnansweredRequestsAreInOnePlace ==
  \A r \in Request :
    LET mine(q) == q.id = r /\ q.tag \in {"NONE", "MEMREAD", "BYPASS"}
    IN  /\ Cardinality({q \in drcQueue : mine(q)}) + Cardinality({q \in drcBanks : mine(q)})
           + Cardinality({q \in mainMemory.queue : mine(q)})
           + Cardinality({q \in mainMemory.banks : mine(q)})
           + Cardinality({q \in mainMemory.responses : mine(q)})
           + Cardinality({i \in DOMAIN mainMemory.pendingMemoryRequests :
                            mine(mainMemory.pendingMemoryRequests[i])})
           = IF access[r] # Idle /\ ~ access[r].answered THEN 1 ELSE 0
        /\ r \in outstandingFills <=> \E q \in InMainMemory : q.id = r /\ q.tag = "MEMREAD"
=============================================================================
