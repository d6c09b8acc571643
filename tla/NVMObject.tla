------------------------------ MODULE NVMObject ------------------------------
(* src/NVMObject: the objects of a memory system form a tree, each wrapped *)
(* in a NVMObject_hook for its neighbours: who calls it calls its hooks,   *)
(* before and after a command and before a completion.  The hooks belong   *)
(* to the simulator at the root and are copied to every child it gets.     *)
EXTENDS Naturals, FiniteSets, Sequences, SequencesExt

CONSTANTS
  Layers,      \* the classes of the objects, from the simulator to the subarrays
  HookList,    \* the hooks in the order of the configuration
  HookType     \* "PREISSUE", "POSTISSUE" or "BOTHISSUE"

Sides == {"PREISSUE", "POSTISSUE"}
SidesOf(h) == {side \in Sides : HookType[h] \in {side, "BOTHISSUE"}}

ASSUME NVMObjectAssumption ==
  /\ Len(Layers) > 2
  /\ \A i \in DOMAIN HookList : SidesOf(HookList[i]) # {}
-----------------------------------------------------------------------------
(* The lists of hooks.                                                     *)

\* Mutant: no look at what is there.
AddHookAgain(list, h) == Append(list, h)

AddHookUnique(list, h) == IF h \in ToSet(list) THEN list ELSE Append(list, h)

AddHook(hooks, h) ==
  [side \in Sides |-> IF side \in SidesOf(h) THEN AddHookUnique(hooks[side], h) ELSE hooks[side]]

\* Hook after hook, to an object that has none yet.
AddHooks(list) ==
  LET added[i \in 0 .. Len(list)] ==
        IF i = 0 THEN [side \in Sides |-> <<>>] ELSE AddHook(added[i - 1], list[i])
  IN  added[Len(list)]

\* AddChild: one list after the other; what is in both comes twice.
CopiedHooks(hooks) == AddHooks(hooks["PREISSUE"] \o hooks["POSTISSUE"])

\* A layer is added to the one above before it adds the next one itself.
GetHooks[layer \in 1 .. Len(Layers)] ==
  IF layer = 1 THEN AddHooks(HookList) ELSE CopiedHooks(GetHooks[layer - 1])
-----------------------------------------------------------------------------
(* Calls: a record for each hook called, in their order.                   *)

HookCalls(event, layer, side) ==
  [i \in DOMAIN GetHooks[layer][side] |->
     [event |-> event, layer |-> Layers[layer], side |-> side, hook |-> GetHooks[layer][side][i]]]

\* A command that is handed from layer to layer: the hooks before, then the call
\* below, and the hooks after it once that has returned.  No hook there is drops it.
IssueCommandCalls(first, last) ==
  LET calls[layer \in first .. last + 1] ==
        IF layer > last THEN <<>>
        ELSE HookCalls("issue", layer, "PREISSUE") \o calls[layer + 1]
               \o HookCalls("issue", layer, "POSTISSUE")
  IN  calls[first]

\* All of a layer's hooks come first: the request may be deleted below them.
CompletionCalls(layer) ==
  HookCalls("complete", layer, "PREISSUE") \o HookCalls("complete", layer, "POSTISSUE")

\* A completion climbs from parent to parent, to the owner of the request.
RequestCompleteCalls(first) ==
  LET calls[layer \in 0 .. first] ==
        IF layer = 0 THEN <<>> ELSE CompletionCalls(layer) \o calls[layer - 1]
  IN  calls[first]
=============================================================================
