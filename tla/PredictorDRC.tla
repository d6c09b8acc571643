----------------------------- MODULE PredictorDRC -----------------------------
(* MemControl/PredictorDRC: an access predictor in front of a DRAM cache.  *)
(* A request that it expects to miss goes to the cache's main memory       *)
(* directly, past the cache: what comes back is never filled in.           *)
EXTENDS LO_Cache

CONSTANT Predictors    \* of "none", "perfect", "variable", those to be checked

ASSUME PredictorAssumption == Predictors \subseteq {"none", "perfect", "variable"}

VARIABLE predictor     \* DRCPredictor; "none" is DRAMCache by itself

PredictorInit == Init /\ predictor \in Predictors

\* Is the cache expected to have it?  PerfectPredictor asks the cache, but only
\* for now: what is under way changes the answer before the request is served.
PerfectTranslate(type, line) == {IssueFunctional(type, line)}

\* VariablePredictor tosses a coin for reads.
VariableTranslate(type) == IF type = "WRITE" THEN {TRUE} ELSE BOOLEAN

Translate(type, line) ==
  CASE predictor = "none"     -> {TRUE}
    [] predictor = "perfect"  -> PerfectTranslate(type, line)
    [] predictor = "variable" -> VariableTranslate(type)

\* Mutant: the cache alone is asked.
PredictorIsIssuableCache == TRUE

\* Both destinations must have room: the prediction is only made by IssueCommand.
PredictorIsIssuable == predictor = "none" \/ IsIssuable(mainMemory)

\* Past the cache: its own request, not one of outstandingFills.
Bypass(r, type, line) ==
  /\ Unused(r) /\ DRCIsIssuable
  /\ access' = [access EXCEPT ![r] = [type |-> type, line |-> line, answered |-> FALSE]]
  /\ mainMemory' = IssueCommand(mainMemory, MemRequest("BYPASS", type, r, line))
  /\ UNCHANGED <<perfectFills, drcQueue, drcBanks, functionalCache, outstandingFills>>

PredictorIssueCommand(r, type, line) ==
  /\ PredictorIsIssuable
  /\ \E hit \in Translate(type, line) :
       IF hit THEN IssueCommandTo(r, type, line) ELSE Bypass(r, type, line)

\* gem5's atomic accesses, while the memory is drained: answered at once.  One
\* that is in main memory's prefetch buffer is left out, see README.
PredictorIssueAtomic(r, type, line) ==
  /\ Drained /\ Unused(r)
  /\ access' = [access EXCEPT ![r] = [type |-> type, line |-> line, answered |-> TRUE]]
  /\ \E hit \in Translate(type, line) :
       LET req == MemRequest("BYPASS", type, r, line)
       IN  IF hit THEN IssueAtomic(type, line) /\ UNCHANGED mainMemory
           ELSE /\ ~ Prefetched(mainMemory, req)
                /\ mainMemory' = IssueAtomicTo(mainMemory, req)
                /\ UNCHANGED functionalCache
  /\ UNCHANGED <<perfectFills, drcQueue, drcBanks, outstandingFills, predictor>>

\* A checkpoint is written, and read by the process that goes on.
Restart == Drained /\ RestoreCheckpoint /\ UNCHANGED predictor
-----------------------------------------------------------------------------
Serve(q) == CompleteDRC(q) /\ UNCHANGED predictor
Start(q) == Cycle(q) /\ UNCHANGED predictor
MemoryStart(q) == MemoryCycle(q) /\ UNCHANGED predictor
MemoryServe(q) == MemoryRequestComplete(q) /\ UNCHANGED predictor

Next ==
  \/ \E r \in Request, type \in {"READ", "WRITE"}, line \in Line :
       \/ PredictorIssueCommand(r, type, line) /\ UNCHANGED predictor
       \/ PredictorIssueAtomic(r, type, line)
  \/ Restart
  \/ \E q \in drcQueue : Start(q)
  \/ \E q \in drcBanks : Serve(q)
  \/ \E q \in mainMemory.queue : MemoryStart(q)
  \/ \E q \in mainMemory.banks \cup mainMemory.responses : MemoryServe(q)

allVars == <<vars, predictor>>
Spec == PredictorInit /\ [][Next]_allVars

\* The controllers and banks serve everything that they have been given.
Fairness ==
  /\ WF_allVars(\E q \in drcQueue : Start(q))
  /\ WF_allVars(\E q \in drcBanks : Serve(q))
  /\ WF_allVars(\E q \in mainMemory.queue : MemoryStart(q))
  /\ WF_allVars(\E q \in mainMemory.banks \cup mainMemory.responses : MemoryServe(q))
FairSpec == Spec /\ Fairness
-----------------------------------------------------------------------------
\* Every request from above is answered, whichever way it was predicted to take:
\* one that main memory had no room for when the cache missed is sent again when
\* another completes (nvmain.cpp:509).
RequestsAreAnswered == <>[](\A r \in Request : access[r] # Idle => access[r].answered)
=============================================================================
