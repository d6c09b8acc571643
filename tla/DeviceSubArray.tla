--------------------------- MODULE DeviceSubArray ---------------------------
(***************************************************************************)
(* What the layers of a memory device share (its timing parameters, its    *)
(* commands, and constraints of the form "not before"), and a subarray as  *)
(* the layers above it see it (src/SubArray.cpp): the state of its row and *)
(* its own constraints.  SubArray models the same code with rows, write    *)
(* pausing and cancellation.                                               *)
(*                                                                         *)
(* The code keeps the cycle from which a command is allowed (nextActivate, *)
(* nextRead, ...).  Here a constraint is the number of cycles that are     *)
(* left, 0 when the command is allowed, which the cycles count down.  The  *)
(* memories are those that precharge (UsePrecharge, the default); a row is *)
(* not told from another, a burst is one (burstCount 1), and power-down is *)
(* left out: the controller's call of it is commented out.                 *)
(***************************************************************************)
EXTENDS Integers, Sequences

CONSTANTS tCMD, tRCD, tRAS, tRP, tAL, tCAS, tCWD, tBURST, tCCD, tWTR, tWR, tRTP, tRTRS, tOST,
          tRFC, tRRDR, tPPD,
          tRAW, RAW   \* at most RAW activations in tRAW cycles

Delays == {tCMD, tRCD, tRAS, tRP, tAL, tCAS, tCWD, tBURST, tCCD, tWTR, tWR, tRTP, tRTRS, tOST,
           tRFC, tRRDR, tPPD, tRAW}

ASSUME DeviceTimingAssumption ==
  /\ Delays \subseteq Nat /\ RAW \in Nat \ {0}
  /\ tRP > 0 /\ tRFC > 0 /\ tBURST > 0
  /\ tAL <= tRCD /\ tCCD <= tRTP + tBURST
  /\ tCWD <= tCAS + tBURST + tRTRS /\ tCAS <= tBURST + tCWD + tRTRS

VARIABLE p   \* the parameters that differ between the channels explored, see OffChipBus

tWP == p.tWP   \* the duration of a write's pulses

Reads == {"READ", "READ_PRECHARGE"}
Writes == {"WRITE", "WRITE_PRECHARGE"}
CommandType == {"ACTIVATE", "PRECHARGE", "PRECHARGE_ALL", "REFRESH"} \cup Reads \cup Writes

Constraint == {"activate", "precharge", "read", "write"}

\* The constraint a command waits for, at every layer that has one.
ConstraintOf(type) ==
  CASE type \in {"ACTIVATE", "REFRESH"} -> "activate"
    [] type \in {"PRECHARGE", "PRECHARGE_ALL"} -> "precharge"
    [] type \in Reads -> "read"
    [] type \in Writes -> "write"

Later(a, b) == IF a > b THEN a ELSE b

\* The constraints of a layer, none of them met earlier than bound says.
NotBefore(wait, bound) ==
  [c \in DOMAIN wait |-> IF c \in DOMAIN bound THEN Later(wait[c], bound[c]) ELSE wait[c]]

\* Mutant: a constraint that is met goes on counting down.
ElapsedUnsigned(wait) == [c \in DOMAIN wait |-> wait[c] - 1]

Elapsed(wait) == [c \in DOMAIN wait |-> Later(0, wait[c] - 1)]

\* A response in the event queue: what for, and to whom.
Response(kind, rank, bank, subarray) ==
  [kind |-> kind, rank |-> rank, bank |-> bank, sub |-> subarray]
-----------------------------------------------------------------------------
InitSubArray == [state |-> "CLOSED", wait |-> [c \in Constraint |-> 0]]

SubArrayAccepts(sa, type) ==
  /\ sa.wait[ConstraintOf(type)] = 0
  /\ sa.state \in CASE type \in {"ACTIVATE", "REFRESH"} -> {"CLOSED"}
                    [] type \in {"PRECHARGE", "PRECHARGE_ALL"} -> {"OPEN", "CLOSED"}
                    [] OTHER -> {"OPEN"}

\* When a READ_PRECHARGE or a WRITE_PRECHARGE starts to close the row.
ImplicitPrecharge(type) ==
  IF type = "READ_PRECHARGE" THEN tAL + tRTP ELSE tAL + tCWD + tBURST + tWP + tWR

\* Nothing before the row has closed itself and can be activated.
WaitsForClosed(wait, cycles) ==
  LET a == Later(wait.activate, cycles)
  IN  NotBefore(wait, [activate |-> a, precharge |-> a, read |-> a, write |-> a])

SubArrayWaits(wait, type) ==
  CASE type = "ACTIVATE" ->
         NotBefore(wait, [precharge |-> Later(tRCD, tRAS),
                          read      |-> tRCD - tAL,
                          write     |-> tRCD - tAL])
    [] type = "READ" ->
         NotBefore(wait, [precharge |-> tAL + tBURST + tRTP - tCCD,
                          read      |-> Later(tBURST, tCCD),
                          write     |-> tCAS + tBURST + tRTRS - tCWD])
    [] type = "WRITE" ->
         NotBefore(wait, [precharge |-> tAL + tCWD + tBURST + tWP + tWR,
                          read      |-> tCWD + tBURST + tWTR + tWP,
                          write     |-> Later(tBURST, tCCD) + tWP])
    [] type \in {"READ_PRECHARGE", "WRITE_PRECHARGE"} ->
         WaitsForClosed(wait, ImplicitPrecharge(type) + tRP)
    [] type \in {"PRECHARGE", "PRECHARGE_ALL"} -> NotBefore(wait, [activate |-> tRP])
    [] type = "REFRESH" -> NotBefore(wait, [activate |-> tRFC])

AfterCommand(sa, type) ==
  [state |-> CASE type = "ACTIVATE" -> "OPEN"
               [] type \in {"PRECHARGE", "PRECHARGE_ALL"} -> "PRECHARGING"
               [] type = "REFRESH" -> "REFRESHING"
               [] OTHER -> sa.state,
   wait |-> SubArrayWaits(sa.wait, type)]

\* The response that changes the subarray, if any: its kind and its cycles.
SubArrayResponse(type) ==
  CASE type \in {"READ_PRECHARGE", "WRITE_PRECHARGE"} ->
         [kind |-> "implicit precharge", in |-> ImplicitPrecharge(type)]
    [] type \in {"PRECHARGE", "PRECHARGE_ALL"} -> [kind |-> "precharge", in |-> tRP]
    [] type = "REFRESH" -> [kind |-> "refresh", in |-> tRFC]
    [] OTHER -> [kind |-> "none", in |-> 0]

\* SubArray::RequestComplete; an implicit precharge responds once more.
AfterResponse(sa, kind) ==
  [sa EXCEPT !.state = IF kind = "implicit precharge" THEN "PRECHARGING" ELSE "CLOSED"]

SubArrayIdle(sa) == sa.state \in {"CLOSED", "PRECHARGING"}

SubArrayType == [state : {"OPEN", "CLOSED", "PRECHARGING", "REFRESHING"},
                 wait : [Constraint -> Nat]]
=============================================================================
