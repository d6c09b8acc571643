# A TLA+ model of NVMain

NVMain is a cycle-accurate simulator of main memories: DRAM, non-volatile memories, and hybrids of them. Its
program is a tree of objects. Requests enter at the top (a trace simulator or gem5), go down through `NVMain`, a memory
controller, the bus of a channel, ranks and banks to a subarray, and come back up as *responses*. All of it is driven
by event queues: nobody sleeps in a thread, everybody puts an event into a queue for a later cycle. There are no
threads, so the hard behaviour is that of *events*: which one comes first in a cycle, what a handler may change while
others wait, what was true when a decision was taken and is not any more when it is carried out, which work nobody will
ever wake up for, and what a checkpoint leaves behind.

The modules translate the C++ under `src/`; `PROJECT.json` names for each definition the lines it stands for.

## 1. Inventory

| Component | State it keeps | Operations | What is hard, and what makes it correct |
|---|---|---|---|
| `EventQueue` | `eventMap` (cycle to list of events by priority), `nextEventCycle`, `currentCycle` | `InsertEvent`, `RemoveEvent`, `FindEvent`, `Loop`, `Process` | Handlers change the list they are called from, and finished events are freed while their pointers are still in it. Every event runs once, in its cycle. |
| `GlobalEventQueue` | several queues with their frequencies | `Cycle`, `Sync` | Queues whose clocks round differently must stay in step, and no event may be left in the past. |
| Trace simulator, gem5 interface | outstanding requests, retry flags, response queues, a wake-up event | wait, refuse, retry, respond, drain, checkpoint | Whoever was refused, or is owed a response, is called again; a request finds its packet alive. |
| `NVMain`, prefetchers | prefetch buffer, `pendingMemoryRequests` | `IssueCommand`, `IssueAtomic`, `RequestComplete` | Requests that found no room are retried on completions, one per completion. |
| `MemoryController`, `FRFCFS`, `FCFS`, `FRFCFS-WQF` | transaction queues, command queues, a *view* of the rows, refresh flags, drain flags, wake-up events | `IssueCommand`, `Cycle`, `IssueMemoryCommands`, `CycleCommandQueues`, `HandleRefresh`, `Drain`, callbacks | The view is updated when commands are queued, the device when they are issued. Never queue a command the device cannot accept, never sleep on work, never starve. |
| `LO_Cache`, `DRAMCache`, `PredictorDRC`, predictors | a functional cache, fills outstanding, a queue of its own | `IssueCommand`, `IssueAtomic`, `IssueFunctional`, `RequestComplete`, checkpoints | A chain of requests (probe, memory read, fill, eviction) for one access, or a bypass that is decided after room was asked for. Every access is answered once. |
| `CacheBank` | sets of entries in LRU order | `Present`, `Install`, `Evict` | |
| `OffChipBus`, `StandardRank`, `DDR3Bank` | constraints at each layer, `activeSubArrayQueue`, the window of activations, states derived from the layer below | `IsIssuable`, `IssueCommand`, `Notify`, `RequestComplete` | Four layers each keep a part of the timing; together they keep the data pins and the activation power within bounds. |
| `CachedDDR3Bank` | row buffers in LRU order | `Activate`, `Read`, `Write` | A read that was scheduled because of a copy may find it evicted. |
| `SubArray` | row state, `next...` constraints, the write in progress | the commands, `CheckWritePausing`, `RequestComplete` | Writes are paused, cancelled, resumed; their completion is taken out of the event queue. A write completes once, with all its pulses, into its row. |
| Decoders | translation methods | `Translate`, `ReverseTranslate` | No two lines share a place, whatever the scheme leaves out. |
| Data encoder, endurance models, traces | flipped partitions, the cells, life per unit | `Write`, `UpdateEndurance`, `GetNextAccess` | The marks, the cells and the life must change together; what was written is what is read back. |
| `Migrator`, `CoinMigrator` | remap table and inverted table, victim list, STC (an LRU of tracked pages), predictor | a hook after each request, checkpoints | Pages change places again and again; two must never share a frame. |
| `NVMObject` | children, hooks | `AddChild`, `AddHook`, the calls of hooks | Hooks are copied from parent to child; each is called once per side and layer. |
| `LH_Cache`, `MissMap`, `PerfectMemory`, fault models, other trace formats, configuration, statistics, scripts | | | See section 5. |

Components talk by calls down the tree (`IsIssuable`, then `IssueCommand` in the same cycle), by responses through the
event queue (`InsertEvent( EventResponse, ... )` and `RequestComplete`, which goes up until the request's `owner` is
reached), by callbacks in the event queue (a controller's own wake-ups), by `Notify` between the ranks of a channel,
and by hooks around the calls (migrator, tracing). The order of the events of one cycle is fixed by their priority:
cleanup -10, responses 0, refresh 20, a controller's `Cycle` 30, its command queues 40.

## 2. Modules

| Module | Models | Extends |
|---|---|---|
| `Agenda` | What an event queue promises: a clock and due dates. Abstract specification. | |
| `EventQueue` | `src/EventQueue.cpp`: map, lists, iterator and the heap the events live in | |
| `GlobalEventQueue` | the queues of several memory systems and their clocks | |
| `TraceMain`, `NVMainMemory`, `Simulators` | `traceSim/traceMain.cpp`, `Simulators/gem5/nvmain_mem.cc`, and the choice between them | `GlobalEventQueue` |
| `NVMain`, `CacheBank`, `LO_Cache`, `PredictorDRC` | the head of a memory system; a DRAM cache in front of one; predictors in front of that | in this order |
| `BankRows`, `CachedDDR3Bank` | the device as the controller relies on it: rows, copies of rows and acceptance, no timing | |
| `MemoryController`, `Schedulers`, `Controllers` | `src/MemoryController.cpp`, the schedulers FRFCFS, FCFS and FRFCFS-WQF, and their composition | `CachedDDR3Bank` |
| `DeviceSubArray`, `DDR3Bank`, `StandardRank`, `OffChipBus` | the timing of a whole channel, one module per layer | each other, in this order |
| `OffChipBusHistory` | the same with the bursts and activations that have happened | `OffChipBus` |
| `SubArray`, `SubArrayHistory` | `src/SubArray.cpp` with rows, write pausing and every response; the same with history variables | |
| `AddressTranslator` | translation methods and both decoders, as operators | |
| `FlipNWrite`, `NVMainTrace`, `EnduranceModel`, `DataPath` | the encoder, the trace format, the endurance models; a write on its way to the cells | |
| `Migrator`, `CoinMigrator`, `CoinHistory` | `Decoders/Migrator`, `Utils/CoinMigrator` | |
| `NVMObject`, `HookedMigrator` | how hooks are spread and called; the migrator as one of them | `CoinHistory` |
| `EventQueueProofs`, `CoinMigratorProofs`, `SimulatorsProofs`, `OffChipBusProofs`, `SubArrayProofs`, `ControllersProofs`, `PredictorDRCProofs`, `DataPathProofs` | theorems | the module they are about |
| `MC...` | instances for TLC | |

**EventQueue.** The heap is explicit: `object[e]` is free, pending or running, and freed memory keeps the old content,
because `InsertEvent` reads the priority of events that `Process` has already deleted. The iterator is a position `it`
in the list of `nextEventCycle`; insertion and erasure move it as `std::list` does. `Process` is cut at its handlers:
`BeginProcess`, `StartHandler`, the calls a handler makes (`ScheduleLater`, `EnqueueWakeup`, `CancelResponse`),
`EndHandler`, `EndProcess`. What each kind of handler may insert (`Schedules`) is read off the callers.

**GlobalEventQueue and the simulators.** The systems are reduced to what they owe the simulator: a request that
takes some cycles in the first system and, perhaps, more in a slower one. A clock period is a ratio; cycles are
rounded down as in the code. `TraceMain` is the loop of the trace simulator, cut at its calls of `Cycle`. `NVMainMemory`
has gem5's calls as actions (`recvTimingReq`, `recvRetry`, the two events, a dump of statistics); gem5 is external: it delivers
packets in any order, may refuse a response for a while, and resends what was retried.

**NVMain, LO_Cache, PredictorDRC.** Requests are records in the places they can be in: the cache's queue and banks, main
memory's queue, banks, responses and pending list. `RequestComplete` of LO_Cache is one action per branch. In which order
the DRAM serves its queue is left open. Of the lines that a prefetcher names, those that find room in the queue are issued. Atomic accesses come when the memory is drained, and a checkpoint is followed by a process
that finds the lines of the cache and nothing else. An atomic access that hits main memory's prefetch buffer is left out: it gets a response
although gem5 has deleted its request.

**The controllers.** `commandQueues`, `transactionQueues` and the view (`activateQueued`, `activeSubArray`, `effectiveRow`,
`starvationCounter`, `refreshQueued`) are the code's. `issued` is the command issued in this cycle, which stays at the head of
its queue until `CleanupCallback`. Events are kept as what is scheduled (`cycles`, `wake`, ...), the time they come due is left
open: `NextCycle(due)` lets a sleeping wake-up come due or not. The data bus is a flag. `IssueMemoryCommands` is `MemoryCommands`
(what is queued) and `ViewAfter` (what is recorded). Each scheduler is a guard, an admission and an order of searches; which one
runs, and the page policy, are part of the configuration `p`, chosen in `Init`.

**The device.** A constraint is the number of cycles left instead of a point in time, so the state space is finite
without a bound on time. `rank[r]` is a record holding its banks, which hold their subarrays; an operator per layer
says whether a command is accepted (`...Accepts`), what it does (`...After`) and which responses it schedules, in the
order of the calls. The environment is any controller: in each cycle, any one command the device accepts. Rows are not
told apart here, `BankRows` and `SubArray` do that. Only memories that precharge (`UsePrecharge`, the default).

**SubArray.** One action per command and one per response. Time is `currentCycle`; responses of a cycle come before its
command, at most one command is issued in a cycle. `request[w]` carries the flags and the progress a write takes along
between subarray and controller. `WriteProgress` is unsigned (`% CycleModulus`).

**The data path.** Addresses are numbers, a translation method is computed from the sizes and the scheme as the code does, once, and kept
(`method`). `Configured` and `IsDecoded` say what the code takes for granted: sizes are positive, a scheme names no part twice (a second
mention would leave another part without an order), and an address is the first of its burst and within the memory, since what is cut
off below or left over above is in no part. Sizes need not be powers of two: `mlog2` rounds down. A word
is a function from bits to 0 or 1. `DataPath` takes a write from gem5 or from a trace (through `WriteTraceLine` and `GetNextAccess`) to a place,
through the encoder into the cells, and charges the life of what changed. With `pausing` a write may be issued a second time.

**Migrator and CoinMigrator.** The remap table and its inverse are filled on first touch, as in the code. One action per
access, which stays (`Stay`) or exchanges (`Migrate`), then trains. The predictor has one feature per page instead of
eight hashed from address history, and starts with any content, since `pred_table` is never initialised. `CoinHistory` notes for
each page which others were accessed, or moved, *since* it was; that is all that "least recently" needs, and stays finite. `HookedMigrator` puts it where it is
called: `GetHooks` computes the hooks of each layer from those of the simulator, and the calls on the way of a
request, down to the queue, on to the device and back up, are sequences of records. One request is followed at a time; requests do not
share any of the state that hooks are found by.

## 3. Runs

| Run | Asks | Bounds |
|---|---|---|
| `eq_agenda` | Does the queue implement the agenda, is nothing lost, freed or late, does the clock never overtake an event, does everything fire? | 3 event objects (so that memory is reused), horizon 3, steps up to 2 |
| `eq_enqueue` | Is nothing lost when a response handler enqueues a transaction: **violated** | as above |
| `simulators` | Do the clocks stay together, is nobody who waits forgotten, does every run end with its work done? | 3 accesses, 2 systems at 3:2, room for 1 request (so that most are refused), with and without a limit; 2 gem5 instances with one write, writeback, snooped or other packet among reads; 1 dump |
| `dram_caches` | Is every access answered, once? | 3 accesses, 2 lines in one set (so they evict each other), main memory with room for 2 and 1 prefetch, each predictor and none |
| `mc_policies` | Is every queued command legal, is the view right, are refresh flags exact, does the controller wake up, do the requests of a row keep their order? | 3 transactions that hit, miss and write, 2 banks, 2 subarrays, 1 refresh pulse, 8 configurations of scheduler, page policy, refresh, drain and row buffers |
| `mc_live` | Is every transaction scheduled and every command issued? | 1 bank, 1 subarray, transactions that come again for ever, threshold 1 |
| `wqf_drain` | Does a write drain end: **violated** | as above, FRFCFS_WQF |
| `device_timing` | Do bursts collide, are activations spread, are the summaries of banks and ranks exact? | 2 ranks, or 2 banks in one or two refresh groups, or 2 subarrays, with and without write pulses; timing values chosen so that no two constraints coincide; RAW 2; no bound on time |
| `sa_pause` | Is a write completed once, in its row, with all its pulses; do interruptions end; does restoring constraints forget nothing? | 2 writes, 2 rows, 12 cycles (a paused and a cancelled write and their successors fit), precharging memory and pausing memory in two modes |
| `mem_data` | Do lines have places of their own, is what was written what is read, is the life left what the cells went through? | 4 writes of 5 words to 3 lines, words of 2 bytes of 2 bits (two partitions, so that one is inverted and the other not), 3 schemes, both decoders, 4 endurance models, 3 sources |
| `mem_again` | The same for paused writes with an encoder: **violated** | as above |
| `coin_swap` | Is the remap table a permutation, is the inverse right, do victims take turns, is the STC an LRU of mapped pages, does each hook meet a request once? | 2 fast and 2 slow pages: chains of exchanges over frames that are not the pages' own happen at this size; 7 layers, a hook with both sides and one with one |

The properties behind the questions, with the module that states them:

* `eq_agenda`, `eq_enqueue` (EventQueue): `NoEventIsLost`, `RunsEventsOnTime`, `LoopMayJump`, `ImplementsAgenda`, `EveryEventFires`.
* `simulators` (Simulators): `TraceAgreesWithMemory`, `WaitersAreWoken`, `PacketsOutliveTheirRequests`, `WorkEnds`.
* `dram_caches` (LO_Cache, PredictorDRC): `UnansweredRequestsAreInOnePlace`, `RequestsAreAnswered`.
* `mc_policies`, `mc_live`, `wqf_drain` (Controllers): `CommandsFindTheirRows`, `RefreshFlagsMatchTheQueues`,
  `WorkHasAWakeUp`, `RowsAreServedInOrder`, `WorkIsDone`, `DrainsStop`.
* `device_timing` (OffChipBus, OffChipBusHistory): `BurstsNeverCollide`, `ActivationsAreSpread`, `BanksKnowTheirOpenRows`, `StandbyMeansIdle`.
* `sa_pause` (SubArray, SubArrayHistory): `OneResponsePerWrite`, `CompletedWriteIsWritten`, `ResponsesFindTheirState`,
  `InterruptionsRunOut`, `PauseForgetsNoConstraint`.
* `mem_data`, `mem_again` (DataPath): `PlacesAreDistinct`, `DataSurvivesEncoding`, `LifeCountsTheWear`.
* `coin_swap` (Migrator, CoinHistory, HookedMigrator): `PagesHaveTheirOwnFrames`, `InvertedTableFindsTheOccupant`,
  `VictimsTakeTurns`, `STCHoldsTheLatestPages`, `HooksMeetARequestOnce`.

Every passing run with more than liveness or data to check has the `TypeOK` of its module as well. A run's module is `MC` and the name of
the specification it instantiates (`MCSimulators`, `MCControllers`, `MCOffChipBus`, `MCSubArray`, `MCDataPath`,
`MCCoinMigrator`); `EventQueue` and `PredictorDRC` need no definitions for TLC and are run as they are. Every configuration of
`mc_policies` has a command queue per bank, the default (see the observations for queues per subarray).

The bounds are small because what the properties are about needs few actors: a reused cell, two writes on one
subarray, two users of the same pins, one row conflict next to a row hit, a refused request behind another, a page that is
exchanged twice. Each property has a mutant in `PROJECT.json`, the definition changed as a plausible bug would change it, which it
catches under the same configuration.

**Deadlock** is checked where the code never stops (`device_timing`, `mc_policies`, `mc_live`). It is off for the others, which end at their
horizon, with the last answer, access or write, or, in `coin_swap`, when no victim is left.

**Fairness.** *EventQueue*: handlers return (WF), and the front end keeps calling `Loop`; with strong fairness for calls of
at least one step, since it may call `Loop( 0 )` and be served in the same cycle for a while. *Controllers*: events in the queue run and
time goes on (WF of `Cycle`, `Wakes` and `TimePasses`, from `EveryEventFires`), a wake-up does not stay asleep for ever (SF of
`TimePasses(TRUE)`), the device answers each place (SF), and a queue with work is not passed over for ever when its
head keeps being issuable (SF; `MoveCurrentQueue` goes round). *PredictorDRC*: the controllers and banks serve something as long as
there is something (WF); no fairness for the requestors. *Simulators*: the trace simulator is a loop and gem5 runs its events (WF); of the peers, senders
resend what was retried (WF), and one that is offered a response again and again takes it (SF).

### What the violations show

* `eq_enqueue`: `Process` frees an event after running it and leaves its pointer in the list; a wake-up inserted by a
  response handler is placed by comparing with the priority of reused memory, and may land behind the iterator.
* `wqf_drain`: `m_draining` is reset in `Cycle` only, and once the last write of a drain was scheduled nothing schedules one. Until a
  read comes, every write is refused.
* `mem_again`: `SubArray::Write` encodes each time it is called. A paused write comes back with its data inverted already, which is then
  inverted back while the mark stays.

### Observations without a run

Reading the code for the model also showed these; those marked *checked* by a run that is not kept.

Controllers and device
* `MemoryController.cpp:1152, 1621` (checked): the starvation counter tested is that of the waiting subarray, the one counted
  up that of the hit one; with two subarrays row hits starve a transaction.
* With a queue per subarray (checked), a refresh's `PRECHARGE_ALL` goes through the queue of subarray 0 and overtakes an activation.
  Also, `NextIssuable` (`MemoryController.cpp:1816`) asks the queues of subarray 0 only, so a command in another queue may be left
  without a wake-up. `NobodySleeps` is a theorem about queues per bank for this reason.
* `MemoryController.cpp:1534` (checked): a cached request is queued without a wake-up; if a refresh was handled in the same cycle
  nothing issues it. 1782: ScheduleScheme 0 with per-bank queues asserts.
* Reads overtake writes to their row between the two queues of FRFCFS-WQF, and a read from a read-only row buffer an older write.
* `CachedDDR3Bank.cpp`: a READ_PRECHARGE that a row buffer serves never closes its row; buffers compare the row but not the
  subarray; `colStart` and `colEnd` are never set.
* `StandardRank.cpp:389` (checked): with `tWP` > 0 the rank looks for idle banks before a WRITE_PRECHARGE has closed its row and stays
  OPEN until the next precharge; hence the condition in `StandbyMeansIdle`. A rank that ends a refresh while another bank is open
  stays REFRESHING (868).
* `SubArray.cpp:871`, PauseMode_Optimal (checked): the guard for a finished write compares time left with a point in time;
  at `writeEnd` it is paused with nothing left, later the unsigned progress wraps and it is cancelled and repeated. `sa_pause`
  shows that such a write still completes, with all its pulses.
* `SubArray.cpp:1126` (checked): with `UsePrecharge` false and without write pausing nothing keeps an ACTIVATE of another row out of a
  write's pulses: the test looks at `nextActivate`, which `Write` never moves. Such a write's row is not the open one when it ends.
* `SubArray.cpp:392-416`: the implicit precharge of a READ_PRECHARGE does not wait for tRAS after the activation, which an
  explicit PRECHARGE does.
* `DDR3Bank.cpp`: without precharging, `activeSubArrayQueue` grows with every activation. A PRECHARGE_ALL that finds it empty never answers.

DRAM caches and NVMain
* `LO-Cache.cpp:396` (checked): nothing ever marks a line dirty, so no written line is written back.
* `LO-Cache.cpp:322, 451` (checked): with requestors that never stop, new misses overtake pending requests for ever. 347: fills enter
  the queue without a look at its size.
* `PredictorDRC.cpp:134`: what was predicted to miss is never filled in, as its TODO says, and a bypass may be answered with data older than the cache's.
* `nvmain.cpp:284`: a prefetch keeps the bank and row of its trigger. 321: a write that hits the prefetch buffer is answered from it
  and not issued. `IsIssuable` swaps rank and bank (only the channel is used).
* Atomic accesses bypass the hooks in gem5, and atomic writes are counted as hits but install nothing.

Simulators
* gem5 issues packets at NVMain's cycle of the last wake-up, and a dump of the statistics (`nvmain_mem.cc:262`) steps NVMain without noting it
  there: NVMain's clock runs ahead. The `nextEventCycle` of instances other than the master is stale. `simulators` shows that no work is lost by this.
* `m_requests_outstanding` of the other instances is never decremented. gem5's memory changes when NVMain accepts a write: `recvTimingReq` completes a
  copy of the request at once (644), and `RequestComplete` calls `access` (759). It does not wait for the cells, so old data follow the order of acceptance, and
  a read that was accepted before such a write and completes after it returns the new data.
* The trace simulator counts a request that the memory refused at the limit as outstanding.

Data
* `FlipNWrite.cpp:106`: inverted bytes have their bits mirrored. A granularity that is not a multiple of 8 erases bits, one that does not
  divide the word overruns `modifyCount`. Without old data the encoder dereferences NULL.
* `SubArray.cpp:1368-1434`: a resumed write is charged again; an address without data writes into a block that was not allocated.
* `NVMainTraceReader.cpp:113-123`: a trace without a version line loses its first access. Accesses answered from the prefetch buffer are
  not recorded, a trace recorded without data cannot be read back.
* `DRCDecoder::ReverseTranslate` leaves out the column; the addresses made with it only tell rows apart.

Migrator and hooks
* `CoinMigrator.cpp:741, 823` (checked): frames whose page was never touched leave the victim list at their first use, so it can run empty.
* Requests in flight keep the frame they were translated to before an exchange; the copy of pages is never simulated; the checkpoint of
  the migrator forgets the exchanges; `pred_table` (556) is never initialised.
* Behind a DRAM cache hooks reach main memory's head only, since it becomes a child after its own children were added: PostTrace records nothing of its
  banks. Hooks after a call run also when it was refused, and `RequestComplete`'s retries bypass those of NVMain.

## 4. Proofs

TLAPS checks these for every value of the constants, from the named assumptions of the modules. Each proof has the same shape:
`InitIInv`, one lemma per action, their sum over `Next`, and what the invariant implies.

* **EventQueueProofs.** `QueueInvariant` is inductive: types, `NextEventIsEarliest`, `ClockNeverPassesAnEvent`, and three facts that are not
  claims about the code but make them inductive: `ControlOK` (the iterator stands in the list of `nextEventCycle`, the running event
  is where it points), `AheadOK` (cells yet to be reached point to distinct pending events of that cycle) and `BehindOK`
  (memory behind the iterator is not a response of the current cycle: it may be reused, but for later). Insertion and
  removal each have a lemma, after lemmas that say which elements a list holds after either. From it follow `TypeCorrect`, `NextEventCorrect`,
  `ClockCorrect`, `JumpsAreSafe` and `RunsOnTime`. `NothingLost` needs one assumption more, that no handler enqueues transactions (`EnqueueFrom = {}`),
  which is the one `eq_enqueue` drops. `QueueImplementsAgenda` is the refinement: every step of the queue is a step of `Agenda`, under
  the mapping of the run, or a stutter.
* **SimulatorsProofs.** The configuration decides which simulator exists, and so which part of `IInv` says something. `QueueInv` is about the global
  queue: where a call of `Cycle` stands (`CallOK`), no event behind its clock (`EventsAreAhead`), and clocks that differ by less
  than a period (`ClocksInStep`). `TraceInv` counts outstanding requests against those of the memory; `MemoryInv` ties each waiting
  request, retry flag and packet to what will call it again. It gives `SimulatorsType`, `SimulatorAndMemoryAgree`,
  `NobodyIsForgotten` and `PacketsOutliveRequests`.
* **PredictorDRCProofs.** `IInv` says for each request *where* it is: in the cache, in main memory as a miss (and then in `outstandingFills`),
  in main memory as a bypass, or nowhere once it is answered. Operations of main memory are functions of its record; a lemma each says
  whether a request comes (`Comes`), goes (`Goes`) or moves (`Stays`), and that the record keeps its bounds (`MemoryOK`). A bypass cannot be
  refused since `PredictorIsIssuable` asked main memory first, which is where the argument uses it. It gives `PredictorDRCType` and
  `RequestsAreInOnePlace`, whose cardinalities are counted last.
* **ControllersProofs.** `IInv` has four parts. `TypesOK`, with the theorem `ControllersType`. `OrderInv`: a transaction waits
  once (`WaitsOnce`) and, in the queues of its row, the youngest is last (`YoungestLast`); with it, `RowOrder`. `RefreshInv`, for `RefreshFlags`: a flag is set
  exactly while the refresh or its precharge is queued. `WakesInv`, for `NobodySleeps`. A step of `Cycle` is cut into what it makes
  true in each branch (`ControllerSteps`), and every part is shown for those. `NobodySleeps` has the hypothesis `~ p.PerSubArrayQueues`: without it
  the property is false (see the observations), and TLC finds it so. `RowsAreFound` is about what the commands of a queue do one after the other, which
  `CarriedOut` computes as a recursive function. The proof never unfolds it: `IsRun` says what a run is, and runs can be put together
  (`LongerRuns`, `FindAll`), lose their head (`HeadIsCarriedOut`), or be moved to another device that the bank's commands cannot tell from the first
  (`Agrees`, `OthersStayFound`). `FoundInv` says for each bank that the commands left in its queue lead from the device, once a response it is waiting for has
  come (`Settle`), to the controller's view. Each command the controller makes up has a lemma about what it finds and leaves. The induction over
  a queue's length is by a least counterexample (`LeastExists`), which needs no induction theorem of the library. The hypothesis
  `RowsAreKnown` leaves out a queue per subarray, and page closing over row buffers when precharging is used: in both the property is false (see the observations).
* **OffChipBusProofs.** `PinsInv`: what each rank still forbids covers every burst that is under way, whoever issued it and over `Notify`. `WindowInv`: the
  ring of the last activations has the ages of exactly those that the history has seen. With `RanksOK` for the shapes of the
  records they give `PinsAreNeverShared` and `ActivationsStaySpread`. The second half is about the responses. `DeviceInv` adds three facts to the
  properties of the run: a subarray waits for one response at most, which finds it in the state it was sent for, and accepts
  nothing while its row is about to close itself (`SubArrayInv`); and behind whatever may close the last row of a rank comes, in the
  same cycle, a look of that rank (`LooksInv`). The look is needed since a rank that has become idle is not in standby
  *yet*. What a command puts into the queue is said once (`QueueMoved`: everything old stays where it is, what is new is for the subarrays that the
  command touches, each once) and so is what the head leaves (`Places`); each action uses only that. It gives `OffChipBusType`,
  `BanksAlwaysKnowTheirRows` and `StandbyIsIdle`, for any number of banks and any refresh groups that divide it.
* **SubArrayProofs.** `IInv` is `TypeOK`, `WriteInv` (the write at the subarray, its flags and the one response it has under way) and
  `ClosingOK` (one precharge or refresh at a time): `SubArrayType`, `EveryWriteIsAnsweredOnce`, `ResponsesFit`, `InterruptionsEnd`. With history
  variables, `TimesInv` compares the saved constraints with what other commands have set (`NoConstraintIsForgotten`), `PulsesInv` counts
  pulses (`WritesHaveTheirPulses`) and `OwnRowInv` follows the row. `InterruptedWritesAreWhole` is conditional on
  `UsePrecharge \/ WritePausing`, since otherwise it is false (see the observations); the run has no such mode.
* **CoinMigratorProofs.** `OwnFrames` and `OccupantsFound` hold together or not at all: `IInv` is the conjunction with the types of the tables and
  of the victim list (`TablesOK`), and with `TypeOK` (`MigratorType`). An exchange is split into first touches of two pages and a swap of two table entries, a lemma
  each. That the occupant of a frame is *known* whenever the frame's own page is mapped is the part that makes it
  inductive: without it the swap would send two pages to one frame. A restart forgets the tables, and finds itself in an initial state of
  them. `VictimsInTurn` and `STCIsLRU` follow from the history, set by set. `HookedMigratorMigrates` says that the migrator in its place among hooks,
  simulators and checkpoints implements the specification with the history, and `HistoryMigrates` that this one implements the migrator by itself; so the
  invariants carry over (`HookedOwnFrames`, `HookedOccupantsFound`). `HooksMeetRequestsOnce` is for every list of layers and hooks that `HookedAssumption` allows: no layer
  twice, `NVMain` below the simulator, banks below the controller's queues, the two hooks configured with the types they give themselves. Its notion is a
  sequence that `Lists` a set, each element once. `AddHooks` makes one of the two concatenated lists of hooks although it is handed some
  of them twice (`HooksAdded`), so every layer has the simulator's hooks, once each (`HooksOfLayers`), and each call down or up appends what
  its layer calls, which no other layer does (`IssueCommandListed`, `CompletionListed`). These operators are recursive functions; that
  functions with these equations exist is a lemma of its own, from well-founded induction over their depth (`RecursiveFunctions`).
* **DataPathProofs.** An address in parts is a number with mixed digits. Whatever the decoder, `Taken` divides by one size after the other
  (`DividedInTurn`) and `PutTogether` multiplies the remainders up again (`AddressesUpTo`); that these two undo each other
  (`TakenPutTogether`) and that different digits make different numbers (`PutTogetherTellsApart`) is proved for any sequence
  of parts. What remains is that a scheme, a partial one too, gives every part an order of its own (`OrdersAreDistinct`), so that each
  decoder goes through its parts once each. `AddressesKeepTheirPlaces` follows, with `Decoded` as the invariant: the places stay as they
  were found. `WhatIsWrittenIsRead` needs that inversion by partitions is an involution, though it mirrors every byte
  (`InvertedTwice`); that `FlipKey` is a number of three digits, so that a write leaves the marks of other words alone
  (`KeysToldApart`, from the places); and that a trace gives back the word that was printed (`TraceGivesBack`). `DataInvariant` adds to the property that
  words never written have no marks, that without an encoder nothing has, and what the request under way holds. Its hypothesis `EncodedOnce` leaves out
  what `mem_again` shows to be false, and no more. `LivesAreWhatIsLeft` builds on it: the old data a write is compared with is what the
  cells hold (`OldDataIsInTheCells`). `WearInvariant` says of every key, whatever the model, that its life is
  what the *sum* of the wear of the units with this key leaves (`LeftAfter`). One write charges a key at most once (`UnitsOfAWrite`), with ByteModel too, where
  units share keys; in the other models they do not (`KeysOfUnits`), and the sum is of one number. Sums are reasoned about as sizes of
  sets of pairs (`Tally`). Folds and recursive functions are unfolded one element at a time, by two principles that follow from
  well-founded orders (`CountingUp` for numbers, `ElementByElement` for finite sets).

Every invariant of the passing runs is stated by a theorem. Only model-checked:

* Liveness (`EveryEventFires`, `WorkEnds`, `RequestsAreAnswered`, `WorkIsDone`): fairness and ENABLED are beyond the prover.

## 5. Not modelled, and why

* Cannot be reached: power-down (the controller's call is commented out), `LH_Cache` (its constructor exits), `MissMap` and the timed
  interface of `CacheBank` (they need an `LH_Cache`), the buffered copy of pages in `CoinMigrator` and the states of a migration in `Migrator`,
  `EnduranceModel::Read` and `IsDead`. STeMS never prefetches: its `DoPrefetch` returns false on every path. The fault model has no
  implementation.
* Without behaviour over time: energy, statistics, configuration, text of traces and of other formats, scripts. `PerfectMemory` answers in the next cycle.
* Write pausing between controller and subarray: the controller's search for a read that pauses a write (`FindWriteStalledRead`) and
  the return of the write to its queue. `SubArray` has the part of it where state is at stake.
* Requests whose old data are not valid (`SubArray.cpp:1397-1403`; traces read with `IgnoreData`): they have no data to follow either.
* Several channels, and in the controllers several ranks: nothing is shared between them above the device, and `device_timing` has two.

## 6. Plan

Done: the event queue and the simulators around it; the DRAM caches over `NVMain`; the controllers over `BankRows`; the device timing; `SubArray`; the data path; the
migrator and the hooks it lives in.

Next, to model: `FindWriteStalledRead` and the return of paused writes in the controllers, over a bank that knows of its write.

Proved: every invariant of the passing runs, for every value of the constants (section 4). Next, to prove: what the schedulers promise of a write that was
paused, once the controllers model its return.
