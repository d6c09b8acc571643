------------------------------- MODULE Agenda -------------------------------
(***************************************************************************)
(* What a discrete-event simulator is promised by its event queue: an      *)
(* event that was scheduled fires exactly once, at the cycle it was        *)
(* scheduled for, unless it is cancelled first, and time does not move     *)
(* past an event that has not fired.                                       *)
(***************************************************************************)
EXTENDS Naturals

CONSTANTS Event, \* the event objects
          Cycle, \* the cycles an event can be due at
          None   \* the "due cycle" of an event that is not scheduled

VARIABLES now, \* the current cycle
          due  \* due[e]: the cycle event e fires at, or None

agendaVars == <<now, due>>

Scheduled == {e \in Event : due[e] # None}

AgendaInit == now \in Cycle /\ due = [e \in Event |-> None]

Schedule(e, c) ==
  /\ due[e] = None
  /\ c >= now
  /\ due' = [due EXCEPT ![e] = c]
  /\ UNCHANGED now

Cancel(e) ==
  /\ due[e] # None
  /\ due' = [due EXCEPT ![e] = None]
  /\ UNCHANGED now

\* Firing an event looks like cancelling it, except that its time has come.
Fire(e) == due[e] = now /\ Cancel(e)

\* Time stops at the earliest scheduled event.
Advance(c) ==
  /\ c > now
  /\ \A e \in Scheduled : due[e] >= c
  /\ now' = c
  /\ UNCHANGED due

AgendaNext ==
  \/ \E e \in Event, c \in Cycle : Schedule(e, c)
  \/ \E e \in Event : Cancel(e) \/ Fire(e)
  \/ \E c \in Cycle : Advance(c)

AgendaSpec == AgendaInit /\ [][AgendaNext]_agendaVars
=============================================================================
