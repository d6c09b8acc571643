-------------------------- MODULE EventQueueProofs --------------------------
(***************************************************************************)
(* Theorems about EventQueue, for any heap, horizon and kinds of event.    *)
(***************************************************************************)
EXTENDS EventQueue, SequenceTheorems, TLAPS

(* What inserting into and erasing from a list does to its cells.          *)

LEMMA InsertAtElements ==
  ASSUME NEW S, NEW s \in Seq(S), NEW e \in S, NEW p \in 1 .. Len(s) + 1
  PROVE  /\ InsertAt(s, p, e) \in Seq(S)
         /\ Len(InsertAt(s, p, e)) = Len(s) + 1
         /\ \A q \in 1 .. Len(s) + 1 :
              InsertAt(s, p, e)[q] = IF q < p THEN s[q] ELSE IF q = p THEN e ELSE s[q - 1]
<1> DEFINE a == SubSeq(s, 1, p - 1)
           b == SubSeq(s, p, Len(s))
<1>1. \A q \in 1 .. Len(s) : s[q] \in S
  BY ElementOfSeq
<1>2. a \in Seq(S) /\ Len(a) = p - 1 /\ \A q \in 1 .. p - 1 : a[q] = s[q]
  BY <1>1, SubSeqProperties
<1>3. b \in Seq(S) /\ Len(b) = Len(s) - p + 1 /\ \A q \in 1 .. Len(s) - p + 1 : b[q] = s[p + q - 1]
  BY <1>1, SubSeqProperties
<1> HIDE DEF a, b
<1>4. <<e>> \in Seq(S) /\ Len(<<e>>) = 1 /\ <<e>>[1] = e
  OBVIOUS
<1>5. /\ a \o <<e>> \in Seq(S) /\ Len(a \o <<e>>) = p
      /\ \A q \in 1 .. p : (a \o <<e>>)[q] = IF q < p THEN s[q] ELSE e
  BY <1>2, <1>4, ConcatProperties
<1>6. /\ (a \o <<e>>) \o b \in Seq(S) /\ Len((a \o <<e>>) \o b) = Len(s) + 1
      /\ \A q \in 1 .. Len(s) + 1 :
           ((a \o <<e>>) \o b)[q] = IF q <= p THEN (a \o <<e>>)[q] ELSE b[q - p]
  <2>1. \A q \in 1 .. Len(a \o <<e>>) + Len(b) :
          ((a \o <<e>>) \o b)[q] = IF q <= Len(a \o <<e>>) THEN (a \o <<e>>)[q] ELSE b[q - Len(a \o <<e>>)]
    BY <1>3, <1>5, ConcatProperties
  <2>2. Len(a \o <<e>>) + Len(b) = Len(s) + 1
    <3>1. Len(s) \in Nat /\ p \in Nat
      BY LenProperties
    <3>2. Len(a \o <<e>>) = p /\ Len(b) = Len(s) - p + 1
      BY <1>3, <1>5
    <3>3. QED
      BY <3>1, <3>2
  <2>3. (a \o <<e>>) \o b \in Seq(S) /\ Len((a \o <<e>>) \o b) = Len(s) + 1
    BY <1>3, <1>5, <2>2, ConcatProperties
  <2>4. QED
    BY <1>5, <2>1, <2>2, <2>3
<1>7. \A q \in 1 .. Len(s) + 1 : q > p => b[q - p] = s[q - 1]
  BY <1>3
<1>8. InsertAt(s, p, e) = (a \o <<e>>) \o b
  BY DEF InsertAt, a, b
<1>9. QED
  BY <1>5, <1>6, <1>7, <1>8

LEMMA RemoveAtElements ==
  ASSUME NEW S, NEW s \in Seq(S), NEW p \in 1 .. Len(s)
  PROVE  /\ RemoveAt(s, p) \in Seq(S)
         /\ Len(RemoveAt(s, p)) = Len(s) - 1
         /\ \A q \in 1 .. Len(s) - 1 :
              RemoveAt(s, p)[q] = IF q < p THEN s[q] ELSE s[q + 1]
<1> DEFINE a == SubSeq(s, 1, p - 1)
           b == SubSeq(s, p + 1, Len(s))
<1>1. \A q \in 1 .. Len(s) : s[q] \in S
  BY ElementOfSeq
<1>2. a \in Seq(S) /\ Len(a) = p - 1 /\ \A q \in 1 .. p - 1 : a[q] = s[q]
  BY <1>1, SubSeqProperties
<1>3. b \in Seq(S) /\ Len(b) = Len(s) - p /\ \A q \in 1 .. Len(s) - p : b[q] = s[p + q]
  BY <1>1, SubSeqProperties
<1> HIDE DEF a, b
<1>4. /\ a \o b \in Seq(S) /\ Len(a \o b) = Len(s) - 1
      /\ \A q \in 1 .. Len(s) - 1 : (a \o b)[q] = IF q <= p - 1 THEN a[q] ELSE b[q - (p - 1)]
  <2>1. \A q \in 1 .. Len(a) + Len(b) : (a \o b)[q] = IF q <= Len(a) THEN a[q] ELSE b[q - Len(a)]
    BY <1>2, <1>3, ConcatProperties
  <2>2. Len(a) + Len(b) = Len(s) - 1
    BY <1>2, <1>3
  <2>3. a \o b \in Seq(S) /\ Len(a \o b) = Len(s) - 1
    BY <1>2, <1>3, <2>2, ConcatProperties
  <2>4. QED
    BY <1>2, <2>1, <2>2, <2>3
<1>5. \A q \in 1 .. Len(s) - 1 : q >= p => b[q - (p - 1)] = s[q + 1]
  BY <1>3
<1>6. RemoveAt(s, p) = a \o b
  BY DEF RemoveAt, a, b
<1>7. QED
  BY <1>2, <1>4, <1>5, <1>6
-----------------------------------------------------------------------------

\* The cells the iterator has yet to reach point to pending events of that
\* cycle, each event once.
AheadOK ==
  \A c \in Keys : \A p \in 1 .. Len(eventMap[c]) : IsAhead(c, p) =>
    /\ object[eventMap[c][p]].state = "pending"
    /\ object[eventMap[c][p]].cycle = c
    /\ \A q \in 1 .. Len(eventMap[c]) :
         q # p /\ IsAhead(c, q) => eventMap[c][q] # eventMap[c][p]

\* Memory behind the iterator is never a response of this cycle: it may have
\* been reused, but for a response of a later one.
BehindOK ==
  \A p \in 1 .. it :
    LET o == object[eventMap[nextEventCycle][p]] IN
    p < it /\ o.state = "pending" /\ o.kind = "response" => o.cycle > currentCycle

\* Where Loop and Process are agrees with the iterator and the map.
ControlOK ==
  /\ \A c \in Keys : eventMap[c] # <<>>
  /\ currentCycle + stepCycles <= Horizon
  /\ phase \in {"outside", "loop"} => it = 0
  /\ phase \in {"fetch", "handler"} =>
       /\ nextEventCycle \in Keys
       /\ it \in 1 .. Len(eventMap[nextEventCycle]) + 1
  /\ phase = "handler" =>
       /\ it <= Len(eventMap[nextEventCycle])
       /\ object[Running].state = "running"

QueueInv ==
  /\ TypeOK
  /\ NextEventIsEarliest
  /\ ClockNeverPassesAnEvent
  /\ ControlOK
  /\ AheadOK
  /\ BehindOK
-----------------------------------------------------------------------------
(* The initial state and the operations of the queue's users.              *)

LEMMA KindFacts ==
  /\ Kind \subseteq AllKinds
  /\ Never \in Nat /\ Horizon \in Nat /\ MaxSteps \in Nat /\ Horizon < Never
BY EventQueueAssumption

LEMMA InitQueueInv == Init => QueueInv
<1> SUFFICES ASSUME Init PROVE QueueInv
  OBVIOUS
<1> USE KindFacts DEF Init, Keys
<1>1. TypeOK
  BY EventQueueAssumption DEF TypeOK, Phase, Object, Cycle
<1>2. NextEventIsEarliest /\ ClockNeverPassesAnEvent
  BY DEF NextEventIsEarliest, IsFirstKey, ClockNeverPassesAnEvent
<1>3. ControlOK /\ AheadOK /\ BehindOK
  BY DEF ControlOK, AheadOK, BehindOK
<1>4. QED
  BY <1>1, <1>2, <1>3 DEF QueueInv

\* An insertion keeps the invariant when it is for a later cycle, or is a
\* wake-up for the current one.
LEMMA InsertPreserves ==
  ASSUME QueueInv, UserMayRun,
         NEW e \in Event, NEW kind \in Kind, NEW when \in Cycle,
         when >= currentCycle, when = currentCycle => kind = "cycle",
         InsertEvent(e, kind, when)
  PROVE  QueueInv'
<1> DEFINE list == EventList(when)
<1>1. TypeOK /\ NextEventIsEarliest /\ ClockNeverPassesAnEvent /\ ControlOK /\ AheadOK /\ BehindOK
  BY DEF QueueInv
<1>2. PICK p \in 1 .. Len(list) + 1 :
        /\ SetList(when, InsertAt(list, p, e))
        /\ it' = IF it > 0 /\ when = nextEventCycle /\ p <= it THEN it + 1 ELSE it
  BY DEF InsertEvent
<1>3. /\ object[e].state = "free"
      /\ object' = [object EXCEPT ![e] = [state |-> "pending", kind |-> kind, cycle |-> when]]
      /\ nextEventCycle' = IF when < nextEventCycle THEN when ELSE nextEventCycle
      /\ UNCHANGED <<lastEventCycle, currentCycle, phase, stepCycles>>
  BY DEF InsertEvent, clockVars, loopVars
<1>4. list \in Seq(Event) /\ Len(list) \in Nat
  BY <1>1, LenProperties DEF TypeOK, EventList
<1> HIDE DEF list
<1>5. /\ InsertAt(list, p, e) \in Seq(Event)
      /\ Len(InsertAt(list, p, e)) = Len(list) + 1
      /\ \A q \in 1 .. Len(list) + 1 :
           InsertAt(list, p, e)[q] = IF q < p THEN list[q] ELSE IF q = p THEN e ELSE list[q - 1]
  <2>1. list \in Seq(Event) /\ e \in Event /\ p \in 1 .. Len(list) + 1
    BY <1>4
  <2>2. InsertAt(list, p, e) \in Seq(Event)
    BY <2>1, InsertAtElements
  <2>3. Len(InsertAt(list, p, e)) = Len(list) + 1
    BY <2>1, InsertAtElements
  <2>4. ASSUME NEW q \in 1 .. Len(list) + 1
        PROVE  InsertAt(list, p, e)[q] = IF q < p THEN list[q] ELSE IF q = p THEN e ELSE list[q - 1]
    BY <2>1, InsertAtElements
  <2>5. QED
    BY <2>2, <2>3, <2>4
<1> DEFINE new == InsertAt(list, p, e)
<1> HIDE DEF new
<1>6. /\ Keys' = Keys \cup {when}
      /\ eventMap'[when] = new
      /\ \A c \in Keys \ {when} : eventMap'[c] = eventMap[c]
      /\ when \in Keys => list = eventMap[when]
  BY <1>2 DEF SetList, Keys, new, list, EventList
<1> USE KindFacts
<1>7. TypeOK'
  <2>1. Keys' \subseteq Cycle /\ \A c \in Keys' : eventMap'[c] \in Seq(Event)
    BY <1>1, <1>5, <1>6 DEF TypeOK, new
  <2>2. object' \in [Event -> Object]
    BY <1>1, <1>3 DEF TypeOK, Object
  <2>3. it' \in Nat
    BY <1>1, <1>2 DEF TypeOK
  <2>4. nextEventCycle' \in Cycle
    BY <1>1, <1>3 DEF TypeOK
  <2>5. QED
    BY <1>1, <1>3, <2>1, <2>2, <2>3, <2>4 DEF TypeOK
<1>8. NextEventIsEarliest'
  BY <1>1, <1>3, <1>6 DEF NextEventIsEarliest, IsFirstKey, TypeOK, Cycle, Keys
<1>9. ClockNeverPassesAnEvent'
  BY <1>1, <1>3 DEF ClockNeverPassesAnEvent, TypeOK, Cycle
<1>10. phase \in {"outside", "handler"}
  BY DEF UserMayRun
<1>11. phase = "handler" => nextEventCycle = currentCycle /\ nextEventCycle' = nextEventCycle
  BY <1>1, <1>3 DEF ClockNeverPassesAnEvent, TypeOK, Cycle
<1>12. phase = "handler" =>
         /\ nextEventCycle \in Keys /\ it \in 1 .. Len(eventMap[nextEventCycle])
         /\ Running = eventMap[nextEventCycle][it] /\ Running \in Event
         /\ object[Running].state = "running" /\ e # Running
  BY <1>1, <1>3, ElementOfSeq DEF ControlOK, TypeOK, Running, EventList
<1>13. phase = "handler" =>
         /\ nextEventCycle' \in Keys'
         /\ it' \in 1 .. Len(eventMap'[nextEventCycle'])
         /\ eventMap'[nextEventCycle'][it'] = Running
         /\ it' = IF when = nextEventCycle /\ p <= it THEN it + 1 ELSE it
  <2> SUFFICES ASSUME phase = "handler"
               PROVE  /\ nextEventCycle \in Keys'
                      /\ it' \in 1 .. Len(eventMap'[nextEventCycle])
                      /\ eventMap'[nextEventCycle][it'] = Running
                      /\ it' = IF when = nextEventCycle /\ p <= it THEN it + 1 ELSE it
    BY <1>11
  <2>1. it \in Nat /\ it > 0 /\ p \in Nat /\ nextEventCycle \in Keys
    BY <1>1, <1>4, <1>12 DEF TypeOK
  <2>2. CASE when # nextEventCycle
    BY <1>2, <1>6, <1>12, <2>1, <2>2
  <2>3. CASE when = nextEventCycle
    <3>1. list = eventMap[nextEventCycle] /\ eventMap'[nextEventCycle] = new
      BY <1>6, <2>1, <2>3
    <3>2. it \in 1 .. Len(list) /\ Running = list[it]
      BY <1>12, <3>1
    <3>3. it' \in 1 .. Len(new) /\ new[it'] = Running
      BY <1>2, <1>4, <1>5, <2>1, <2>3, <3>2 DEF new
    <3>4. QED
      BY <1>2, <1>6, <2>1, <2>3, <3>1, <3>3
  <2>4. QED
    BY <2>2, <2>3
<1>14. phase = "outside" => it = 0 /\ it' = 0
  BY <1>1, <1>2 DEF ControlOK
<1>15. ControlOK'
  <2>1. \A c \in Keys' : eventMap'[c] # <<>>
    BY <1>1, <1>4, <1>5, <1>6 DEF ControlOK, new
  <2>2. phase = "handler" => object'[Running].state = "running"
    BY <1>1, <1>3, <1>12 DEF TypeOK
  <2>3. phase = "handler" => Running' = Running
    BY <1>13, <1>6 DEF Running, EventList
  <2>4. phase = "handler" => Len(eventMap'[nextEventCycle']) \in Nat
    BY <1>7, <1>13, LenProperties DEF TypeOK
  <2>5. QED
    BY <1>1, <1>3, <1>10, <1>13, <1>14, <2>1, <2>2, <2>3, <2>4 DEF ControlOK
<1>16. AheadOK'
  \* An old cell of the list stands at place Old(q).
  <2> DEFINE Old(c, q) == IF c = when /\ q > p THEN q - 1 ELSE q
  <2>1. ASSUME NEW c \in Keys', NEW q \in 1 .. Len(eventMap'[c]), IsAhead(c, q)',
               ~ (c = when /\ q = p)
        PROVE  /\ c \in Keys /\ Old(c, q) \in 1 .. Len(eventMap[c])
               /\ IsAhead(c, Old(c, q))
               /\ eventMap'[c][q] = eventMap[c][Old(c, q)]
    <3>1. CASE c # when
      <4>1. c \in Keys /\ Old(c, q) = q /\ eventMap'[c] = eventMap[c]
        BY <1>6, <3>1
      <4>2. IsAhead(c, q)
        <5>1. CASE phase = "outside"
          BY <1>14, <5>1 DEF IsAhead
        <5>2. CASE phase = "handler"
          BY <1>3, <1>11, <1>13, <2>1, <3>1, <5>2 DEF IsAhead
        <5>3. QED
          BY <1>10, <5>1, <5>2
      <4>3. QED
        BY <4>1, <4>2
    <3>2. CASE c = when
      <4>1. c \in Keys /\ list = eventMap[c]
        BY <1>4, <1>5, <1>6, <2>1, <3>2 DEF new, list, EventList
      <4>2. Old(c, q) \in 1 .. Len(list) /\ new[q] = list[Old(c, q)]
        <5>1. q \in 1 .. Len(list) + 1 /\ q # p /\ p \in 1 .. Len(list) + 1
          BY <1>5, <1>6, <2>1, <3>2 DEF new
        <5>2. new[q] = IF q < p THEN list[q] ELSE list[q - 1]
          BY <1>5, <5>1 DEF new
        <5>3. QED
          BY <1>4, <3>2, <5>1, <5>2
      <4>3. IsAhead(c, Old(c, q))
        BY <1>1, <1>2, <1>3, <1>4, <1>5, <1>6, <1>10, <1>11, <1>12, <1>13, <1>14, <2>1, <3>2
           DEF IsAhead, TypeOK, Cycle
      <4>4. QED
        BY <1>6, <3>2, <4>1, <4>2, <4>3
    <3>3. QED
      BY <3>1, <3>2
  <2>2. \A c \in Keys : \A q \in 1 .. Len(eventMap[c]) :
          /\ eventMap[c][q] \in Event
          /\ IsAhead(c, q) => object[eventMap[c][q]].state = "pending" /\ eventMap[c][q] # e
    BY <1>1, <1>3, ElementOfSeq DEF AheadOK, TypeOK
  <2>3. object'[e].state = "pending" /\ object'[e].cycle = when
    BY <1>1, <1>3 DEF TypeOK
  <2>4. \A f \in Event : f # e => object'[f] = object[f]
    BY <1>1, <1>3 DEF TypeOK
  <2>5. ASSUME NEW c \in Keys', NEW q \in 1 .. Len(eventMap'[c]), IsAhead(c, q)'
        PROVE  object'[eventMap'[c][q]].state = "pending" /\ object'[eventMap'[c][q]].cycle = c
    <3>1. CASE c = when /\ q = p
      BY <1>4, <1>5, <1>6, <2>3, <3>1 DEF new
    <3>2. CASE ~ (c = when /\ q = p)
      <4> HIDE DEF Old
      <4>1. /\ c \in Keys /\ Old(c, q) \in 1 .. Len(eventMap[c]) /\ IsAhead(c, Old(c, q))
            /\ eventMap'[c][q] = eventMap[c][Old(c, q)]
        BY <2>1, <2>5, <3>2
      <4>2. /\ object[eventMap'[c][q]].state = "pending" /\ object[eventMap'[c][q]].cycle = c
            /\ eventMap'[c][q] \in Event /\ eventMap'[c][q] # e
        BY <1>1, <2>2, <4>1 DEF AheadOK
      <4>3. QED
        BY <2>4, <4>2
    <3>3. QED
      BY <3>1, <3>2
  <2>6. ASSUME NEW c \in Keys', NEW q \in 1 .. Len(eventMap'[c]), IsAhead(c, q)',
               NEW r \in 1 .. Len(eventMap'[c]), IsAhead(c, r)', q # r
        PROVE  eventMap'[c][r] # eventMap'[c][q]
    <3>1. CASE c = when /\ (q = p \/ r = p)
      <4> HIDE DEF Old
      <4>1. eventMap'[c][p] = e
        BY <1>4, <1>5, <1>6, <3>1 DEF new
      <4>2. q # p => eventMap'[c][q] # e
        BY <2>1, <2>2, <2>6
      <4>3. r # p => eventMap'[c][r] # e
        BY <2>1, <2>2, <2>6
      <4>4. QED
        BY <2>6, <3>1, <4>1, <4>2, <4>3
    <3>2. CASE ~ (c = when /\ (q = p \/ r = p))
      <4>1. Old(c, q) # Old(c, r)
        BY <1>4, <1>5, <1>6, <2>6, <3>2 DEF new
      <4>2. QED
        BY <1>1, <2>1, <2>6, <3>2, <4>1 DEF AheadOK
    <3>3. QED
      BY <3>1, <3>2
  <2>7. QED
    BY <2>5, <2>6 DEF AheadOK
<1>17. BehindOK'
  <2>0. \A r \in 1 .. Len(list) + 1 :
          /\ r < p => new[r] = list[r]
          /\ r = p => new[r] = e
          /\ r > p => new[r] = list[r - 1]
    BY <1>4, <1>5 DEF new
  <2> SUFFICES ASSUME NEW q \in 1 .. it', q < it'
               PROVE  LET o == object'[eventMap'[nextEventCycle'][q]] IN
                      o.state = "pending" /\ o.kind = "response" => o.cycle > currentCycle'
    BY DEF BehindOK
  <2>1. phase = "handler"
    BY <1>10, <1>14
  <2>2. object'[e] = [state |-> "pending", kind |-> kind, cycle |-> when]
    BY <1>1, <1>3 DEF TypeOK
  <2>3. when > currentCycle \/ kind # "response"
    BY <1>1 DEF TypeOK, Cycle
  <2>4. \A f \in Event : f # e => object'[f] = object[f]
    BY <1>1, <1>3 DEF TypeOK
  <2>5. \A r \in 1 .. it : eventMap[nextEventCycle][r] \in Event
    BY <1>1, <1>12, <2>1, ElementOfSeq DEF TypeOK
  <2>6. \/ eventMap'[nextEventCycle'][q] = e
        \/ \E r \in 1 .. it : r < it /\ eventMap'[nextEventCycle'][q] = eventMap[nextEventCycle][r]
    <3>1. it \in Nat /\ p \in Nat /\ nextEventCycle' = nextEventCycle /\ q \in Nat
      BY <1>1, <1>4, <1>11, <2>1 DEF TypeOK
    <3>2. CASE when # nextEventCycle
      BY <1>6, <1>12, <1>13, <2>1, <3>1, <3>2
    <3>3. CASE when = nextEventCycle
      <4>1. list = eventMap[nextEventCycle] /\ eventMap'[nextEventCycle] = new /\ it \in 1 .. Len(list)
        BY <1>6, <1>12, <2>1, <3>3
      <4>2. \/ q < p /\ new[q] = list[q]
            \/ q = p /\ new[q] = e
            \/ q > p /\ new[q] = list[q - 1]
        <5>1. it' \in Int /\ it' <= it + 1 /\ Len(list) \in Int /\ it <= Len(list)
          BY <1>4, <1>13, <2>1, <3>1, <4>1
        <5>2. q \in Int /\ 1 <= q /\ q < it'
          OBVIOUS
        <5>3. q \in 1 .. Len(list) + 1
          BY <3>1, <5>1, <5>2
        <5>4. p \in Int
          BY <3>1
        <5>5. QED
          BY <2>0, <5>2, <5>3, <5>4
      <4>3. q < p => q \in 1 .. it /\ q < it
        BY <1>13, <2>1, <3>1, <3>3
      <4>4. q > p => q - 1 \in 1 .. it /\ q - 1 < it
        BY <1>4, <1>13, <2>1, <3>1, <3>3
      <4>5. QED
        BY <3>1, <4>1, <4>2, <4>3, <4>4
    <3>4. QED
      BY <3>2, <3>3
  <2>7. QED
    BY <1>1, <1>3, <2>2, <2>3, <2>4, <2>5, <2>6 DEF BehindOK
<1>18. QED
  BY <1>7, <1>8, <1>9, <1>15, <1>16, <1>17 DEF QueueInv

\* Cancelling a response keeps it too: the cell RemoveEvent erases, the first
\* one that holds the pointer, is the event's own and not one left behind.
LEMMA RemovePreserves ==
  ASSUME QueueInv, UserMayRun, NEW e \in Event, object[e].kind = "response", RemoveEvent(e)
  PROVE  QueueInv'
<1> USE KindFacts
<1> DEFINE when == object[e].cycle
           list == EventList(when)
<1>1. TypeOK /\ NextEventIsEarliest /\ ClockNeverPassesAnEvent /\ ControlOK /\ AheadOK /\ BehindOK
  BY DEF QueueInv
<1>2. PICK p \in 1 .. Len(list) :
        /\ list[p] = e
        /\ \A q \in 1 .. p - 1 : list[q] # e
        /\ IF Len(list) > 1 THEN SetList(when, RemoveAt(list, p)) ELSE EraseList(when)
        /\ it' = IF it > 0 /\ when = nextEventCycle /\ p < it THEN it - 1 ELSE it
  BY DEF RemoveEvent
<1>3. /\ object[e].state = "pending"
      /\ object' = [object EXCEPT ![e] = Freed(object[e])]
      /\ nextEventCycle' \in Cycle /\ IsFirstKey(eventMap', nextEventCycle')
      /\ UNCHANGED <<lastEventCycle, currentCycle, phase, stepCycles>>
  BY DEF RemoveEvent, clockVars, loopVars
<1>4. list \in Seq(Event) /\ Len(list) \in Nat /\ when \in Cycle
  BY <1>1, LenProperties DEF TypeOK, EventList, Object
<1> HIDE DEF when, list
<1>5. when \in Keys /\ list = eventMap[when]
  BY <1>2, <1>4 DEF list, EventList
<1> DEFINE new == RemoveAt(list, p)
<1>6. /\ new \in Seq(Event)
      /\ Len(new) = Len(list) - 1
      /\ \A q \in 1 .. Len(list) - 1 : new[q] = IF q < p THEN list[q] ELSE list[q + 1]
  BY <1>4, RemoveAtElements
<1> HIDE DEF new
<1>7. /\ Keys' = IF Len(list) > 1 THEN Keys ELSE Keys \ {when}
      /\ Len(list) > 1 => eventMap'[when] = new
      /\ \A c \in Keys \ {when} : c \in Keys' /\ eventMap'[c] = eventMap[c]
  BY <1>2, <1>5 DEF SetList, EraseList, Keys, new
<1>8. phase \in {"outside", "handler"}
  BY DEF UserMayRun
<1>9. phase = "handler" =>
        /\ nextEventCycle = currentCycle /\ nextEventCycle \in Keys
        /\ it \in 1 .. Len(eventMap[nextEventCycle])
        /\ Running = eventMap[nextEventCycle][it] /\ Running \in Event
        /\ object[Running].state = "running" /\ e # Running
  BY <1>1, <1>3, ElementOfSeq
     DEF ControlOK, ClockNeverPassesAnEvent, TypeOK, Running, EventList
<1>10. phase = "outside" => it = 0 /\ it' = 0
  BY <1>1, <1>2 DEF ControlOK
<1>11. it \in Nat /\ p \in Nat /\ p >= 1
  BY <1>1, <1>4 DEF TypeOK
\* The list being processed keeps the running event, so its entry stays.
<1>12. phase = "handler" /\ when = nextEventCycle =>
         /\ Len(list) > 1 /\ p # it /\ it \in 1 .. Len(list) /\ list[it] = Running
  BY <1>2, <1>4, <1>5, <1>9
<1>13. phase = "handler" => nextEventCycle \in Keys' /\ nextEventCycle' = nextEventCycle
  <2>1. phase = "handler" => nextEventCycle \in Keys'
    BY <1>7, <1>9, <1>12
  <2>2. Keys' \subseteq Keys
    BY <1>5, <1>7
  <2>3. QED
    BY <1>1, <1>3, <2>1, <2>2
       DEF NextEventIsEarliest, IsFirstKey, Keys, TypeOK, Cycle
<1>14. phase = "handler" =>
         /\ it' = IF when = nextEventCycle /\ p < it THEN it - 1 ELSE it
         /\ it' \in 1 .. Len(eventMap'[nextEventCycle])
         /\ eventMap'[nextEventCycle][it'] = Running
  <2> SUFFICES ASSUME phase = "handler"
               PROVE  /\ it' = IF when = nextEventCycle /\ p < it THEN it - 1 ELSE it
                      /\ it' \in 1 .. Len(eventMap'[nextEventCycle])
                      /\ eventMap'[nextEventCycle][it'] = Running
    OBVIOUS
  <2>1. CASE when # nextEventCycle
    BY <1>2, <1>7, <1>9, <2>1
  <2>2. CASE when = nextEventCycle
    <3>1. eventMap'[nextEventCycle] = new
      BY <1>7, <1>12, <2>2
    <3>2. it' \in 1 .. Len(new) /\ new[it'] = Running
      BY <1>2, <1>4, <1>6, <1>9, <1>11, <1>12, <2>2
    <3>3. QED
      BY <1>2, <1>9, <1>11, <2>2, <3>1, <3>2
  <2>3. QED
    BY <2>1, <2>2
<1>15. TypeOK'
  <2>1. Keys' \subseteq Cycle /\ \A c \in Keys' : eventMap'[c] \in Seq(Event)
    BY <1>1, <1>5, <1>6, <1>7 DEF TypeOK
  <2>2. object' \in [Event -> Object]
    BY <1>1, <1>3 DEF TypeOK, Object, Freed, Cycle
  <2>3. it' \in Nat
    BY <1>2, <1>11
  <2>4. QED
    BY <1>1, <1>3, <2>1, <2>2, <2>3 DEF TypeOK
<1>16. NextEventIsEarliest' /\ ClockNeverPassesAnEvent'
  <2>1. Keys' \subseteq Keys
    BY <1>5, <1>7
  <2>2. currentCycle <= nextEventCycle'
    BY <1>1, <1>3, <2>1
       DEF ClockNeverPassesAnEvent, NextEventIsEarliest, IsFirstKey, Keys, TypeOK, Cycle
  <2>3. QED
    BY <1>3, <1>8, <1>9, <1>13, <2>2 DEF ClockNeverPassesAnEvent, NextEventIsEarliest
<1>17. ControlOK'
  <2>1. \A c \in Keys' : eventMap'[c] # <<>>
    BY <1>1, <1>4, <1>6, <1>7 DEF ControlOK
  <2>2. phase = "handler" => object'[Running].state = "running"
    BY <1>1, <1>3, <1>9 DEF TypeOK
  <2>3. phase = "handler" => Running' = Running
    BY <1>13, <1>14 DEF Running, EventList
  <2>4. phase = "handler" => Len(eventMap'[nextEventCycle']) \in Nat
    BY <1>13, <1>15, LenProperties DEF TypeOK
  <2>5. QED
    BY <1>1, <1>3, <1>8, <1>10, <1>13, <1>14, <2>1, <2>2, <2>3, <2>4 DEF ControlOK
\* Cell p is the event's own cell: it is ahead of the iterator.
<1>18. IsAhead(when, p)
  <2>1. CASE phase = "outside"
    BY <1>10, <2>1 DEF IsAhead
  <2>2. CASE phase = "handler"
    <3>1. ASSUME when = nextEventCycle, p < it PROVE FALSE
      BY <1>1, <1>2, <1>3, <1>5, <1>9, <1>11, <2>2, <3>1 DEF BehindOK, when, TypeOK, Cycle
    <3>2. QED
      BY <1>11, <1>12, <2>2, <3>1, <1>1 DEF IsAhead, TypeOK
  <2>3. QED
    BY <1>8, <2>1, <2>2
<1>19. AheadOK'
  <2> DEFINE Old(c, q) == IF c = when /\ q >= p THEN q + 1 ELSE q
  <2>1. ASSUME NEW c \in Keys', NEW q \in 1 .. Len(eventMap'[c]), IsAhead(c, q)'
        PROVE  /\ c \in Keys /\ Old(c, q) \in 1 .. Len(eventMap[c])
               /\ IsAhead(c, Old(c, q))
               /\ eventMap'[c][q] = eventMap[c][Old(c, q)]
               /\ ~ (c = when /\ Old(c, q) = p)
    <3>1. CASE c # when
      <4>1. c \in Keys /\ Old(c, q) = q /\ eventMap'[c] = eventMap[c]
        BY <1>7, <3>1
      <4>2. IsAhead(c, q)
        BY <1>3, <1>8, <1>10, <1>13, <1>14, <2>1, <3>1 DEF IsAhead
      <4>3. QED
        BY <3>1, <4>1, <4>2
    <3>2. CASE c = when
      <4>1. Len(list) > 1 /\ eventMap'[c] = new
        BY <1>4, <1>5, <1>7, <2>1, <3>2
      <4>2. /\ Old(c, q) \in 1 .. Len(list) /\ new[q] = list[Old(c, q)] /\ Old(c, q) # p
            /\ q \in Nat
        BY <1>4, <1>6, <1>11, <2>1, <3>2, <4>1
      <4>3. IsAhead(c, Old(c, q))
        <5>1. CASE phase = "outside"
          BY <1>10, <5>1 DEF IsAhead
        <5>2. CASE phase = "handler"
          BY <1>3, <1>9, <1>11, <1>12, <1>13, <1>14, <1>18, <2>1, <3>2, <4>2, <5>2 DEF IsAhead
        <5>3. QED
          BY <1>8, <5>1, <5>2
      <4>4. QED
        BY <1>5, <3>2, <4>1, <4>2, <4>3
    <3>3. QED
      BY <3>1, <3>2
  <2>2. \A c \in Keys : \A q \in 1 .. Len(eventMap[c]) : eventMap[c][q] \in Event
    BY <1>1, ElementOfSeq DEF TypeOK
  <2>3. \A f \in Event : f # e => object'[f] = object[f]
    BY <1>1, <1>3 DEF TypeOK
  <2>4. ASSUME NEW c \in Keys', NEW q \in 1 .. Len(eventMap'[c]), IsAhead(c, q)'
        PROVE  object'[eventMap'[c][q]].state = "pending" /\ object'[eventMap'[c][q]].cycle = c
    <3> HIDE DEF Old
    <3>1. /\ c \in Keys /\ Old(c, q) \in 1 .. Len(eventMap[c]) /\ IsAhead(c, Old(c, q))
          /\ eventMap'[c][q] = eventMap[c][Old(c, q)] /\ ~ (c = when /\ Old(c, q) = p)
      BY <2>1, <2>4
    <3>2. object[eventMap'[c][q]].state = "pending" /\ object[eventMap'[c][q]].cycle = c
      BY <1>1, <3>1 DEF AheadOK
    <3>3. eventMap'[c][q] # e
      <4>1. CASE c # when
        BY <3>2, <4>1 DEF when
      <4>2. CASE c = when
        BY <1>1, <1>2, <1>5, <1>18, <3>1, <4>2 DEF AheadOK
      <4>3. QED
        BY <4>1, <4>2
    <3>4. QED
      BY <2>2, <2>3, <3>1, <3>2, <3>3
  <2>5. ASSUME NEW c \in Keys', NEW q \in 1 .. Len(eventMap'[c]), IsAhead(c, q)',
               NEW r \in 1 .. Len(eventMap'[c]), IsAhead(c, r)', q # r
        PROVE  eventMap'[c][r] # eventMap'[c][q]
    <3>1. Old(c, q) # Old(c, r)
      BY <1>11, <2>5
    <3> HIDE DEF Old
    <3>2. QED
      BY <1>1, <2>1, <2>5, <3>1 DEF AheadOK
  <2>6. QED
    BY <2>4, <2>5 DEF AheadOK
<1>20. BehindOK'
  <2> SUFFICES ASSUME NEW q \in 1 .. it', q < it'
               PROVE  LET o == object'[eventMap'[nextEventCycle'][q]] IN
                      o.state = "pending" /\ o.kind = "response" => o.cycle > currentCycle'
    BY DEF BehindOK
  <2>1. phase = "handler"
    BY <1>8, <1>10
  <2>2. object'[e].state # "pending" /\ \A f \in Event : f # e => object'[f] = object[f]
    BY <1>1, <1>3 DEF TypeOK, Freed
  <2>3. \A r \in 1 .. it : eventMap[nextEventCycle][r] \in Event
    BY <1>1, <1>9, <2>1, ElementOfSeq DEF TypeOK
  <2>4. it' = it /\ eventMap'[nextEventCycle][q] = eventMap[nextEventCycle][q]
    <3>1. CASE when # nextEventCycle
      BY <1>7, <1>9, <1>14, <2>1, <3>1
    <3>2. CASE when = nextEventCycle
      <4>1. it' = it /\ q < p
        BY <1>1, <1>9, <1>11, <1>14, <1>18, <2>1, <3>2 DEF IsAhead
      <4>2. q \in 1 .. Len(list) - 1
        BY <1>4, <1>11, <4>1
      <4>3. eventMap'[nextEventCycle] = new /\ new[q] = list[q]
        BY <1>6, <1>7, <1>12, <2>1, <3>2, <4>1, <4>2
      <4>4. QED
        BY <1>5, <3>2, <4>1, <4>3
    <3>3. QED
      BY <3>1, <3>2
  <2>5. QED
    BY <1>1, <1>3, <1>13, <2>1, <2>2, <2>3, <2>4 DEF BehindOK
<1>21. QED
  BY <1>15, <1>16, <1>17, <1>19, <1>20 DEF QueueInv
-----------------------------------------------------------------------------
(* Loop and Process.                                                       *)

LEMMA LoopPreserves ==
  ASSUME QueueInv, NEW steps \in 0 .. MaxSteps, Loop(steps)
  PROVE  QueueInv'
<1> USE KindFacts DEF Keys
<1>1. TypeOK /\ NextEventIsEarliest /\ ClockNeverPassesAnEvent /\ ControlOK /\ AheadOK
  BY DEF QueueInv
<1>2. it = 0 /\ phase = "outside" /\ UNCHANGED <<eventMap, nextEventCycle, currentCycle, object>>
  BY <1>1 DEF Loop, ControlOK, clockVars
<1>3. TypeOK'
  BY <1>1, <1>2 DEF Loop, BeginProcess, TypeOK, Phase, clockVars
<1>4. NextEventIsEarliest' /\ ClockNeverPassesAnEvent'
  BY <1>1, <1>2 DEF Loop, BeginProcess, NextEventIsEarliest, ClockNeverPassesAnEvent
<1>5. ControlOK'
  <2>1. CASE steps = 0 /\ nextEventCycle = currentCycle
    <3>1. nextEventCycle \in Keys
      BY <1>1, <2>1 DEF NextEventIsEarliest, IsFirstKey, TypeOK
    <3>2. Len(eventMap[nextEventCycle]) \in Nat
      BY <1>1, <3>1, LenProperties DEF TypeOK
    <3>3. QED
      BY <1>1, <1>2, <2>1, <3>1, <3>2 DEF Loop, BeginProcess, ControlOK, TypeOK
  <2>2. CASE ~ (steps = 0 /\ nextEventCycle = currentCycle)
    BY <1>1, <1>2, <2>2 DEF Loop, ControlOK
  <2>3. QED
    BY <2>1, <2>2
<1>6. AheadOK' /\ BehindOK'
  BY <1>1, <1>2 DEF Loop, BeginProcess, AheadOK, BehindOK, IsAhead
<1>7. QED
  BY <1>3, <1>4, <1>5, <1>6 DEF QueueInv

LEMMA AdvancingPreserves ==
  ASSUME QueueInv, Advancing
  PROVE  QueueInv'
<1> USE KindFacts DEF Keys
<1>1. TypeOK /\ NextEventIsEarliest /\ ClockNeverPassesAnEvent /\ ControlOK /\ AheadOK /\ BehindOK
  BY DEF QueueInv
<1>2. CASE LoopReturn
  BY <1>1, <1>2 DEF LoopReturn, QueueInv, TypeOK, NextEventIsEarliest, ClockNeverPassesAnEvent,
                    ControlOK, AheadOK, BehindOK, IsAhead, Phase, clockVars
<1>3. CASE LoopSkip
  <2>1. TypeOK'
    BY <1>1, <1>3 DEF LoopSkip, TypeOK, Phase, ControlOK
  <2>2. ClockNeverPassesAnEvent'
    BY <1>1, <1>3 DEF LoopSkip, ClockNeverPassesAnEvent, TypeOK, Cycle
  <2>3. ControlOK'
    BY <1>1, <1>3 DEF LoopSkip, ControlOK, TypeOK
  <2>4. QED
    BY <1>1, <1>3, <2>1, <2>2, <2>3
       DEF LoopSkip, QueueInv, NextEventIsEarliest, AheadOK, BehindOK, IsAhead, ControlOK
<1>4. CASE LoopToEvent
  <2>1. /\ currentCycle' = nextEventCycle /\ currentCycle' \in 0 .. Horizon
        /\ stepCycles' \in 0 .. MaxSteps /\ currentCycle' + stepCycles' = currentCycle + stepCycles
    BY <1>1, <1>4 DEF LoopToEvent, TypeOK, ClockNeverPassesAnEvent, ControlOK, Cycle
  <2>2. nextEventCycle \in Keys
    BY <1>1, <2>1 DEF NextEventIsEarliest, IsFirstKey
  <2>3. Len(eventMap[nextEventCycle]) \in Nat
    BY <1>1, <2>2, LenProperties DEF TypeOK
  <2>4. TypeOK' /\ ClockNeverPassesAnEvent'
    BY <1>1, <1>4, <2>1 DEF LoopToEvent, BeginProcess, TypeOK, Phase, ClockNeverPassesAnEvent, Cycle
  <2>5. ControlOK'
    BY <1>1, <1>4, <2>1, <2>2, <2>3 DEF LoopToEvent, BeginProcess, ControlOK
  <2>6. it = 0
    BY <1>1, <1>4 DEF LoopToEvent, ControlOK
  <2>7. AheadOK' /\ BehindOK' /\ NextEventIsEarliest'
    BY <1>1, <1>4, <2>6
       DEF LoopToEvent, BeginProcess, AheadOK, BehindOK, NextEventIsEarliest, IsAhead
  <2>8. QED
    BY <2>4, <2>5, <2>7 DEF QueueInv
<1>5. CASE StartHandler
  <2>1. /\ nextEventCycle \in Keys /\ it \in 1 .. Len(eventMap[nextEventCycle])
        /\ Running = eventMap[nextEventCycle][it] /\ Running \in Event
    BY <1>1, <1>5, ElementOfSeq DEF StartHandler, ControlOK, TypeOK, Running, EventList
  <2>2. object[Running].state = "pending" /\ object[Running].cycle = nextEventCycle
    BY <1>1, <1>5, <2>1 DEF StartHandler, AheadOK, IsAhead
  <2>3. /\ object' = [object EXCEPT ![Running].state = "running"]
        /\ phase = "fetch" /\ phase' = "handler"
        /\ UNCHANGED <<eventMap, nextEventCycle, currentCycle, lastEventCycle, stepCycles, it>>
    BY <1>5 DEF StartHandler, clockVars
  <2>4. TypeOK' /\ NextEventIsEarliest' /\ ClockNeverPassesAnEvent'
    BY <1>1, <2>1, <2>3
       DEF TypeOK, Object, Phase, NextEventIsEarliest, ClockNeverPassesAnEvent
  <2>5. ControlOK'
    <3>1. Running' = Running /\ object'[Running].state = "running"
      BY <1>1, <2>1, <2>3 DEF Running, EventList, TypeOK, Object
    <3>2. QED
      BY <1>1, <2>1, <2>3, <3>1 DEF ControlOK
  <2>6. AheadOK'
    <3>1. \A c \in Keys : \A p \in 1 .. Len(eventMap[c]) :
            eventMap[c][p] \in Event /\ p \in Nat
      BY <1>1, ElementOfSeq DEF TypeOK
    <3>2. \A c \in Keys : \A p \in 1 .. Len(eventMap[c]) : IsAhead(c, p)' =>
            IsAhead(c, p) /\ ~ (c = nextEventCycle /\ p = it)
      BY <1>1, <2>1, <2>3, <3>1 DEF IsAhead, TypeOK
    <3>3. \A c \in Keys : \A p \in 1 .. Len(eventMap[c]) : IsAhead(c, p)' =>
            eventMap[c][p] # Running
      BY <1>1, <2>1, <2>2, <2>3, <3>2 DEF AheadOK, IsAhead
    <3>4. \A f \in Event : f # Running => object'[f] = object[f]
      BY <1>1, <2>3 DEF TypeOK
    <3>5. QED
      BY <1>1, <2>3, <3>1, <3>2, <3>3, <3>4 DEF AheadOK
  <2>7. BehindOK'
    <3>1. \A p \in 1 .. it : eventMap[nextEventCycle][p] \in Event
      BY <1>1, <2>1, ElementOfSeq DEF TypeOK
    <3>2. \A f \in Event : object'[f].state = "pending" => object'[f] = object[f]
      BY <1>1, <2>1, <2>3 DEF TypeOK, Object
    <3>3. QED
      BY <1>1, <2>3, <3>1, <3>2 DEF BehindOK
  <2>8. QED
    BY <2>4, <2>5, <2>6, <2>7 DEF QueueInv
<1>6. CASE EndHandler
  <2>1. /\ nextEventCycle \in Keys /\ it \in 1 .. Len(eventMap[nextEventCycle]) /\ it \in Nat
        /\ Len(eventMap[nextEventCycle]) \in Nat
        /\ Running = eventMap[nextEventCycle][it] /\ Running \in Event
        /\ object[Running].state = "running"
    BY <1>1, <1>6, ElementOfSeq, LenProperties
       DEF EndHandler, ControlOK, TypeOK, Running, EventList
  <2>2. /\ object' = [object EXCEPT ![Running] = Freed(object[Running])]
        /\ it' = it + 1 /\ phase = "handler" /\ phase' = "fetch"
        /\ UNCHANGED <<eventMap, nextEventCycle, currentCycle, lastEventCycle, stepCycles>>
    BY <1>6 DEF EndHandler, clockVars
  <2>3. object'[Running].state # "pending" /\ \A f \in Event : f # Running => object'[f] = object[f]
    BY <1>1, <2>1, <2>2 DEF TypeOK, Freed
  <2>4. TypeOK' /\ NextEventIsEarliest' /\ ClockNeverPassesAnEvent'
    BY <1>1, <2>1, <2>2
       DEF TypeOK, Object, Freed, Phase, Cycle, NextEventIsEarliest, ClockNeverPassesAnEvent
  <2>5. ControlOK'
    BY <1>1, <2>1, <2>2 DEF ControlOK
  <2>6. AheadOK'
    <3>1. \A c \in Keys : \A p \in 1 .. Len(eventMap[c]) :
            eventMap[c][p] \in Event /\ p \in Nat
      BY <1>1, ElementOfSeq DEF TypeOK
    <3>2. \A c \in Keys : \A p \in 1 .. Len(eventMap[c]) : IsAhead(c, p)' => IsAhead(c, p)
      BY <2>1, <2>2, <3>1 DEF IsAhead
    <3>3. \A c \in Keys : \A p \in 1 .. Len(eventMap[c]) : IsAhead(c, p) => eventMap[c][p] # Running
      BY <1>1, <2>1 DEF AheadOK
    <3>4. QED
      BY <1>1, <2>2, <2>3, <3>1, <3>2, <3>3 DEF AheadOK
  <2>7. BehindOK'
    <3>1. \A p \in 1 .. it : eventMap[nextEventCycle][p] \in Event
      BY <1>1, <2>1, ElementOfSeq DEF TypeOK
    <3>2. \A p \in 1 .. it' : p < it' => p \in 1 .. it
      BY <2>1, <2>2
    <3>3. ASSUME NEW p \in 1 .. it
          PROVE  LET o == object'[eventMap[nextEventCycle][p]] IN
                 o.state = "pending" /\ o.kind = "response" => o.cycle > currentCycle
      <4>1. CASE eventMap[nextEventCycle][p] = Running
        BY <2>3, <4>1
      <4>2. CASE eventMap[nextEventCycle][p] # Running
        <5>1. p < it
          BY <2>1, <4>2
        <5>2. QED
          BY <1>1, <2>3, <3>1, <4>2, <5>1 DEF BehindOK
      <4>3. QED
        BY <4>1, <4>2
    <3>4. QED
      BY <2>2, <3>2, <3>3 DEF BehindOK
  <2>8. QED
    BY <2>4, <2>5, <2>6, <2>7 DEF QueueInv
<1>7. CASE EndProcess
  <2>1. /\ Keys' = Keys \ {nextEventCycle} /\ \A c \in Keys' : eventMap'[c] = eventMap[c]
        /\ it' = 0 /\ phase = "fetch" /\ phase' = "loop" /\ lastEventCycle' = nextEventCycle
        /\ nextEventCycle' \in Cycle /\ IsFirstKey(eventMap', nextEventCycle')
        /\ UNCHANGED <<currentCycle, object, stepCycles>>
    BY <1>7 DEF EndProcess, EraseList
  <2>2. TypeOK'
    BY <1>1, <2>1 DEF TypeOK, Phase
  <2>3. NextEventIsEarliest' /\ ClockNeverPassesAnEvent'
    BY <1>1, <2>1 DEF NextEventIsEarliest, IsFirstKey, ClockNeverPassesAnEvent, TypeOK, Cycle
  <2>4. ControlOK' /\ BehindOK'
    BY <1>1, <2>1 DEF ControlOK, BehindOK
  <2>5. AheadOK'
    BY <1>1, <2>1 DEF AheadOK, IsAhead
  <2>6. QED
    BY <2>2, <2>3, <2>4, <2>5 DEF QueueInv
<1>8. QED
  BY <1>2, <1>3, <1>4, <1>5, <1>6, <1>7 DEF Advancing
-----------------------------------------------------------------------------
(* Theorems.                                                               *)

\* QueueInv is inductive.
THEOREM QueueInvariant == Spec => []QueueInv
<1>1. QueueInv /\ [Next]_vars => QueueInv'
  <2> SUFFICES ASSUME QueueInv, [Next]_vars PROVE QueueInv'
    OBVIOUS
  <2>1. ASSUME NEW e \in Event, NEW kind \in Kind, NEW when \in Cycle, ScheduleLater(e, kind, when)
        PROVE  QueueInv'
    <3>1. when > currentCycle /\ when \in Nat /\ currentCycle \in Nat
      BY <2>1, KindFacts DEF ScheduleLater, QueueInv, TypeOK, Cycle
    <3>2. QED
      BY <2>1, <3>1, InsertPreserves DEF ScheduleLater
  <2>2. ASSUME NEW e \in Event, EnqueueWakeup(e) PROVE QueueInv'
    <3>1. currentCycle \in Cycle /\ currentCycle >= currentCycle
      BY KindFacts DEF QueueInv, TypeOK, Cycle
    <3>2. QED
      BY <2>2, <3>1, InsertPreserves DEF EnqueueWakeup
  <2>3. ASSUME NEW e \in Event, CancelResponse(e) PROVE QueueInv'
    BY <2>3, RemovePreserves DEF CancelResponse
  <2>4. ASSUME NEW steps \in 0 .. MaxSteps, Loop(steps) PROVE QueueInv'
    BY <2>4, LoopPreserves
  <2>5. CASE Advancing
    BY <2>5, AdvancingPreserves
  <2>6. CASE UNCHANGED vars
    BY <2>6 DEF vars, QueueInv, TypeOK, NextEventIsEarliest, ClockNeverPassesAnEvent,
                ControlOK, AheadOK, BehindOK, IsAhead, Keys, Running, EventList
  <2>7. QED
    BY <2>1, <2>2, <2>3, <2>4, <2>5, <2>6 DEF Next
<1>2. QED
  BY InitQueueInv, <1>1, PTL DEF Spec

\* Every variable of the queue keeps its type; in particular Loop never moves
\* the clock further than it was asked to (currentCycle stays in the horizon
\* its argument was checked against).
THEOREM TypeCorrect == Spec => []TypeOK
<1>1. QueueInv => TypeOK
  BY DEF QueueInv
<1>2. QED
  BY <1>1, QueueInvariant, PTL

\* InsertEvent, RemoveEvent and Process keep nextEventCycle equal to the first
\* key of eventMap, whatever handlers do to the list being processed.
THEOREM NextEventCorrect == Spec => []NextEventIsEarliest
<1>1. QueueInv => NextEventIsEarliest
  BY DEF QueueInv
<1>2. QED
  BY <1>1, QueueInvariant, PTL

\* Loop's unsigned subtraction never wraps: the clock does not pass an event.
THEOREM ClockCorrect == Spec => []ClockNeverPassesAnEvent
<1>1. QueueInv => ClockNeverPassesAnEvent
  BY DEF QueueInv
<1>2. QED
  BY <1>1, QueueInvariant, PTL

\* Loop may jump to nextEventCycle: it skips no event, and what it subtracts never
\* wraps (EventQueue.cpp:347).
THEOREM JumpsAreSafe == Spec => []LoopMayJump
<1>1. NextEventIsEarliest /\ ClockNeverPassesAnEvent => LoopMayJump
  BY DEF LoopMayJump
<1>2. QED
  BY <1>1, NextEventCorrect, ClockCorrect, PTL

\* Process never runs a freed event and never runs one early or late, although
\* the memory of the events it has already run may have been handed out again.
THEOREM RunsOnTime == Spec => RunsEventsOnTime
<1>1. QueueInv /\ [Next]_vars =>
        [StartHandler => /\ object[Running].state = "pending"
                         /\ object[Running].cycle = currentCycle]_vars
  <2> SUFFICES ASSUME QueueInv, StartHandler
               PROVE  object[Running].state = "pending" /\ object[Running].cycle = currentCycle
    OBVIOUS
  <2>1. nextEventCycle \in Keys /\ it \in 1 .. Len(eventMap[nextEventCycle])
    BY DEF QueueInv, ControlOK, StartHandler, EventList
  <2>2. Running = eventMap[nextEventCycle][it] /\ currentCycle = nextEventCycle
    BY <2>1 DEF QueueInv, ClockNeverPassesAnEvent, StartHandler, Running, EventList
  <2>3. IsAhead(nextEventCycle, it)
    BY DEF StartHandler, IsAhead
  <2>4. QED
    BY <2>1, <2>2, <2>3 DEF QueueInv, AheadOK
<1>2. QED
  BY <1>1, QueueInvariant, PTL DEF Spec, RunsEventsOnTime

\* If no handler enqueues a transaction (every request enters from outside the
\* queue, as from the trace reader), no event is ever forgotten.  The run
\* EventQueue_enqueue shows that the hypothesis cannot be dropped.
THEOREM NothingLost == ASSUME EnqueueFrom = {} PROVE Spec => []NoEventIsLost
<1> DEFINE Found(f) == LET c == object[f].cycle IN
             /\ c \in Keys
             /\ \E p \in 1 .. Len(eventMap[c]) : eventMap[c][p] = f /\ IsAhead(c, p)
<1>1. Init => NoEventIsLost
  BY DEF Init, NoEventIsLost, Pending
<1>2. QueueInv /\ NoEventIsLost /\ [Next]_vars => NoEventIsLost'
  <2> SUFFICES ASSUME QueueInv, NoEventIsLost, [Next]_vars,
                      NEW f \in Event, object'[f].state = "pending"
               PROVE  Found(f)'
    BY DEF NoEventIsLost, Pending
  <2> USE KindFacts
  <2>1. TypeOK /\ ControlOK /\ AheadOK /\ ClockNeverPassesAnEvent
    BY DEF QueueInv
  <2>2. object[f].state = "pending" => Found(f)
    BY DEF NoEventIsLost, Pending
  <2>3. \A c \in Keys : eventMap[c] \in Seq(Event) /\ Len(eventMap[c]) \in Nat
    BY <2>1, LenProperties DEF TypeOK
  <2>4. ASSUME NEW e \in Event, NEW kind \in Kind, NEW when \in Cycle, InsertEvent(e, kind, when),
               UserMayRun, phase = "handler" => when > currentCycle
        PROVE  Found(f)'
    <3> DEFINE list == EventList(when)
    <3>1. list \in Seq(Event) /\ Len(list) \in Nat
      BY <2>1, LenProperties DEF TypeOK, EventList
    <3>2. PICK p \in 1 .. Len(list) + 1 :
            /\ SetList(when, InsertAt(list, p, e))
            /\ it' = IF it > 0 /\ when = nextEventCycle /\ p <= it THEN it + 1 ELSE it
      BY <2>4 DEF InsertEvent
    <3>3. /\ object[e].state = "free"
          /\ object' = [object EXCEPT ![e] = [state |-> "pending", kind |-> kind, cycle |-> when]]
          /\ UNCHANGED <<currentCycle, phase>>
          /\ nextEventCycle' = IF when < nextEventCycle THEN when ELSE nextEventCycle
      BY <2>4 DEF InsertEvent, clockVars, loopVars
    <3> HIDE DEF list
    <3> DEFINE new == InsertAt(list, p, e)
    <3>4. /\ Len(new) = Len(list) + 1
          /\ \A q \in 1 .. Len(list) + 1 :
               new[q] = IF q < p THEN list[q] ELSE IF q = p THEN e ELSE list[q - 1]
      BY <3>1, InsertAtElements
    <3> HIDE DEF new
    <3>5. /\ Keys' = Keys \cup {when} /\ eventMap'[when] = new
          /\ \A c \in Keys \ {when} : eventMap'[c] = eventMap[c]
          /\ when \in Keys => list = eventMap[when]
      BY <3>2 DEF SetList, Keys, new, list, EventList
    \* The list being processed is not the one that changes.
    <3>6. it' = it /\ (it > 0 => nextEventCycle' = nextEventCycle /\ when # nextEventCycle)
      <4>1. CASE phase = "outside"
        BY <2>1, <3>2, <4>1 DEF ControlOK
      <4>2. CASE phase = "handler"
        BY <2>1, <2>4, <3>2, <3>3, <4>2 DEF ClockNeverPassesAnEvent, TypeOK, Cycle
      <4>3. QED
        BY <2>4, <4>1, <4>2 DEF UserMayRun
    <3>7. CASE f = e
      <4>1. object'[f].cycle = when /\ new[p] = f /\ p \in 1 .. Len(new)
        BY <2>1, <3>1, <3>3, <3>4, <3>7 DEF TypeOK
      <4>2. IsAhead(when, p)'
        BY <2>1, <3>6 DEF IsAhead, TypeOK
      <4>3. QED
        BY <3>5, <4>1, <4>2
    <3>8. CASE f # e
      <4>1. object'[f] = object[f]
        BY <2>1, <3>3, <3>8 DEF TypeOK
      <4>2. PICK c \in Keys : /\ c = object[f].cycle
                              /\ \E q \in 1 .. Len(eventMap[c]) : eventMap[c][q] = f /\ IsAhead(c, q)
        BY <2>2, <4>1
      <4>3. PICK q \in 1 .. Len(eventMap[c]) : eventMap[c][q] = f /\ IsAhead(c, q)
        BY <4>2
      <4>4. CASE c = when
        <5>1. list = eventMap[c] /\ q \in 1 .. Len(list) /\ q \in Nat /\ p \in Nat
          BY <3>1, <3>5, <4>2, <4>4
        <5>2. (new[q] = f /\ q \in 1 .. Len(new)) \/ (new[q + 1] = f /\ q + 1 \in 1 .. Len(new))
          BY <3>1, <3>4, <4>3, <5>1
        <5>3. IsAhead(c, q)' /\ IsAhead(c, q + 1)'
          BY <2>1, <3>6, <4>4 DEF IsAhead, TypeOK
        <5>4. QED
          BY <3>5, <4>1, <4>2, <4>4, <5>2, <5>3
      <4>5. CASE c # when
        <5>1. IsAhead(c, q)'
          BY <2>1, <3>3, <3>6, <4>3 DEF IsAhead, TypeOK
        <5>2. QED
          BY <3>5, <4>1, <4>2, <4>3, <4>5, <5>1
      <4>6. QED
        BY <4>4, <4>5
    <3>9. QED
      BY <3>7, <3>8
  <2>5. ASSUME NEW e \in Event, NEW kind \in Kind, NEW when \in Cycle, ScheduleLater(e, kind, when)
        PROVE  Found(f)'
    BY <2>4, <2>5 DEF ScheduleLater
  <2>6. ASSUME NEW e \in Event, EnqueueWakeup(e) PROVE Found(f)'
    <3>1. phase = "outside"
      <4>1. phase = "handler" => object[Running].state = "running"
        BY <2>1 DEF ControlOK
      <4>2. phase = "handler" => Running \in Event
        BY <2>1, <2>3, ElementOfSeq DEF ControlOK, Running, EventList
      <4>3. phase = "handler" => object[Running].kind # "outside"
        BY <2>1, <4>2 DEF TypeOK, Object, AllKinds
      <4>4. QED
        BY <2>6, <4>3 DEF EnqueueWakeup, UserMayRun, User
    <3>2. "cycle" \in Kind /\ currentCycle \in Cycle
      BY <2>1, <2>6 DEF EnqueueWakeup, TypeOK, Cycle
    <3>3. QED
      BY <2>4, <2>6, <3>1, <3>2 DEF EnqueueWakeup
  <2>7. ASSUME NEW e \in Event, CancelResponse(e) PROVE Found(f)'
    <3> DEFINE when == object[e].cycle
               list == EventList(when)
    <3>0. UserMayRun /\ RemoveEvent(e)
      BY <2>7 DEF CancelResponse
    <3>1. list \in Seq(Event) /\ Len(list) \in Nat
      BY <2>1, LenProperties DEF TypeOK, EventList
    <3>2. PICK p \in 1 .. Len(list) :
            /\ list[p] = e
            /\ IF Len(list) > 1 THEN SetList(when, RemoveAt(list, p)) ELSE EraseList(when)
            /\ it' = IF it > 0 /\ when = nextEventCycle /\ p < it THEN it - 1 ELSE it
      BY <3>0 DEF RemoveEvent
    <3>3. f # e /\ object'[f] = object[f] /\ phase' = phase
      BY <2>1, <3>0 DEF RemoveEvent, TypeOK, Freed, loopVars
    <3> HIDE DEF when, list
    <3> DEFINE new == RemoveAt(list, p)
    <3>4. /\ Len(new) = Len(list) - 1
          /\ \A q \in 1 .. Len(list) - 1 : new[q] = IF q < p THEN list[q] ELSE list[q + 1]
      BY <3>1, RemoveAtElements
    <3> HIDE DEF new
    <3>5. /\ when \in Keys /\ list = eventMap[when]
          /\ Keys' = IF Len(list) > 1 THEN Keys ELSE Keys \ {when}
          /\ Len(list) > 1 => eventMap'[when] = new
          /\ \A c \in Keys \ {when} : c \in Keys' /\ eventMap'[c] = eventMap[c]
      <4>1. when \in Keys /\ list = eventMap[when]
        BY <3>1, <3>2 DEF list, EventList
      <4>2. QED
        BY <3>2, <4>1 DEF SetList, EraseList, Keys, new
    <3>6. it > 0 => nextEventCycle' = nextEventCycle /\ eventMap[nextEventCycle][it] # e
      <4>1. it > 0 => nextEventCycle \in Keys' /\ eventMap[nextEventCycle][it] # e
        <5>1. it > 0 => phase = "handler"
          BY <2>1, <3>0 DEF ControlOK, UserMayRun
        <5>2. it > 0 => nextEventCycle \in Keys /\ it \in 1 .. Len(eventMap[nextEventCycle])
                        /\ eventMap[nextEventCycle][it] # e
          BY <2>1, <3>0, <5>1 DEF ControlOK, Running, EventList, RemoveEvent
        <5>3. QED
          BY <3>1, <3>2, <3>5, <5>2
      <4>2. Keys' \subseteq Keys
        BY <3>5
      <4>3. NextEventIsEarliest /\ IsFirstKey(eventMap', nextEventCycle') /\ nextEventCycle' \in Cycle
        BY <3>0 DEF QueueInv, RemoveEvent
      <4>4. QED
        BY <2>1, <4>1, <4>2, <4>3 DEF NextEventIsEarliest, IsFirstKey, Keys, TypeOK, Cycle
    <3>7. PICK c \in Keys : /\ c = object[f].cycle
                            /\ \E q \in 1 .. Len(eventMap[c]) : eventMap[c][q] = f /\ IsAhead(c, q)
      BY <2>2, <3>3
    <3>8. PICK q \in 1 .. Len(eventMap[c]) : eventMap[c][q] = f /\ IsAhead(c, q)
      BY <3>7
    <3>9. it' = IF it > 0 /\ when = nextEventCycle /\ p < it THEN it - 1 ELSE it
      BY <3>2
    <3>10. it \in Nat /\ p \in Nat /\ q \in Nat
      BY <2>1, <2>3, <3>1, <3>7 DEF TypeOK
    <3>11. CASE c = when
      <4>1. q # p /\ q \in 1 .. Len(list) /\ list[q] = f
        BY <3>2, <3>3, <3>5, <3>8, <3>11
      <4>2. Len(list) > 1 /\ eventMap'[c] = new /\ c \in Keys'
        BY <3>1, <3>5, <3>10, <3>11, <4>1
      <4>3. CASE q < p
        <5>1. q \in 1 .. Len(new) /\ new[q] = f
          BY <3>1, <3>4, <3>10, <4>1, <4>3
        <5>2. IsAhead(c, q)'
          BY <3>3, <3>6, <3>8, <3>9, <3>10, <3>11, <4>3 DEF IsAhead
        <5>3. QED
          BY <3>3, <3>7, <4>2, <5>1, <5>2
      <4>4. CASE q > p
        <5>1. q - 1 \in 1 .. Len(new) /\ new[q - 1] = f
          BY <3>1, <3>4, <3>10, <4>1, <4>4
        <5>2. IsAhead(c, q - 1)'
          BY <3>2, <3>3, <3>5, <3>6, <3>8, <3>9, <3>10, <3>11, <4>4 DEF IsAhead
        <5>3. QED
          BY <3>3, <3>7, <4>2, <5>1, <5>2
      <4>5. QED
        BY <3>10, <4>1, <4>3, <4>4
    <3>12. CASE c # when
      <4>1. IsAhead(c, q)'
        BY <3>3, <3>6, <3>8, <3>9, <3>10, <3>12 DEF IsAhead
      <4>2. QED
        BY <3>3, <3>5, <3>7, <3>8, <3>12, <4>1
    <3>13. QED
      BY <3>11, <3>12
  <2>8. ASSUME NEW steps \in 0 .. MaxSteps, Loop(steps) PROVE Found(f)'
    <3>1. it = 0 /\ UNCHANGED <<eventMap, nextEventCycle, object>>
      BY <2>1, <2>8 DEF Loop, ControlOK
    <3>2. \A c \in Keys : \A p \in 1 .. Len(eventMap[c]) : IsAhead(c, p)'
      BY <2>3, <2>8, <3>1 DEF Loop, BeginProcess, IsAhead
    <3>3. QED
      BY <2>2, <3>1, <3>2 DEF Keys
  <2>9. CASE LoopReturn \/ LoopSkip
    BY <2>2, <2>1, <2>9 DEF LoopReturn, LoopSkip, ControlOK, IsAhead, Keys
  <2>10. CASE LoopToEvent
    <3>1. UNCHANGED <<eventMap, nextEventCycle, object>>
      BY <2>10 DEF LoopToEvent
    <3>2. \A c \in Keys : \A p \in 1 .. Len(eventMap[c]) : IsAhead(c, p)'
      BY <2>3, <2>10, <3>1 DEF LoopToEvent, BeginProcess, IsAhead
    <3>3. QED
      BY <2>2, <3>1, <3>2 DEF Keys
  <2>11. CASE StartHandler
    <3>1. /\ object' = [object EXCEPT ![Running].state = "running"]
          /\ phase = "fetch" /\ UNCHANGED <<eventMap, nextEventCycle, it>>
          /\ nextEventCycle \in Keys /\ it \in 1 .. Len(eventMap[nextEventCycle])
      BY <2>1, <2>11 DEF StartHandler, ControlOK, EventList
    <3>2. Running = eventMap[nextEventCycle][it] /\ Running \in Event
      BY <2>3, <3>1, ElementOfSeq DEF Running, EventList
    <3>3. f # Running /\ object'[f] = object[f]
      BY <2>1, <3>1, <3>2 DEF TypeOK, Object
    <3>4. \A c \in Keys : \A p \in 1 .. Len(eventMap[c]) :
            IsAhead(c, p) /\ eventMap[c][p] = f => IsAhead(c, p)'
      BY <2>1, <2>3, <3>1, <3>2, <3>3 DEF IsAhead, TypeOK
    <3>5. QED
      BY <2>2, <3>1, <3>3, <3>4 DEF Keys
  <2>12. CASE EndHandler
    <3>1. /\ object' = [object EXCEPT ![Running] = Freed(object[Running])]
          /\ phase = "handler" /\ phase' = "fetch" /\ it' = it + 1
          /\ UNCHANGED <<eventMap, nextEventCycle>>
          /\ nextEventCycle \in Keys /\ it \in 1 .. Len(eventMap[nextEventCycle])
      BY <2>1, <2>12 DEF EndHandler, ControlOK
    <3>2. Running \in Event
      BY <2>3, <3>1, ElementOfSeq DEF Running, EventList
    <3>3. f # Running /\ object'[f] = object[f]
      BY <2>1, <3>1, <3>2 DEF TypeOK, Freed
    <3>4. \A c \in Keys : \A p \in 1 .. Len(eventMap[c]) : IsAhead(c, p) => IsAhead(c, p)'
      BY <2>1, <2>3, <3>1 DEF IsAhead, TypeOK
    <3>5. QED
      BY <2>2, <3>1, <3>3, <3>4 DEF Keys
  \* Nothing in the list that is erased is still ahead of the iterator.
  <2>13. CASE EndProcess
    <3>1. /\ Keys' = Keys \ {nextEventCycle} /\ \A c \in Keys' : eventMap'[c] = eventMap[c]
          /\ it' = 0 /\ it > Len(eventMap[nextEventCycle]) /\ it > 0 /\ object' = object
      BY <2>1, <2>13 DEF EndProcess, EraseList, EventList, ControlOK, Keys
    <3>2. \A p \in 1 .. Len(eventMap[nextEventCycle]) : ~ IsAhead(nextEventCycle, p)
      BY <2>1, <2>3, <2>13, <3>1 DEF IsAhead, ControlOK, EndProcess, TypeOK
    <3>3. QED
      BY <2>2, <3>1, <3>2 DEF IsAhead
  <2>14. CASE UNCHANGED vars
    BY <2>2, <2>14 DEF vars, Keys, IsAhead
  <2>15. QED
    BY <2>5, <2>6, <2>7, <2>8, <2>9, <2>10, <2>11, <2>12, <2>13, <2>14 DEF Next, Advancing
<1>3. QED
  BY <1>1, <1>2, QueueInvariant, PTL DEF Spec
-----------------------------------------------------------------------------
(* The refinement.                                                         *)

\* The cycle an event is due at, as Agenda sees it.
DueOf(e) == IF object[e].state = "pending" THEN object[e].cycle ELSE Never + 1

\* The queue is an agenda: an event that was scheduled is due until it is run
\* at its cycle or cancelled, and the clock stops at each (ImplementsAgenda,
\* provided that no handler enqueues a transaction).
THEOREM QueueImplementsAgenda == ASSUME EnqueueFrom = {} PROVE Spec => ImplementsAgenda
<1> USE KindFacts
<1>1. Init => AgendaRefinement!AgendaInit
  BY DEF Init, AgendaRefinement!AgendaInit, Cycle
<1>2. QueueInv /\ NoEventIsLost /\ [Next]_vars
        => [AgendaRefinement!AgendaNext]_(AgendaRefinement!agendaVars)
  <2> SUFFICES ASSUME QueueInv, NoEventIsLost, [Next]_vars
               PROVE  [AgendaRefinement!AgendaNext]_(AgendaRefinement!agendaVars)
    OBVIOUS
  <2> DEFINE due == [e \in Event |-> DueOf(e)]
  <2>1. TypeOK /\ ControlOK /\ NextEventIsEarliest /\ ClockNeverPassesAnEvent
    BY DEF QueueInv
  <2>2. \A e \in Event : due[e] # Never + 1 <=> object[e].state = "pending"
    BY <2>1 DEF TypeOK, Object, Cycle, DueOf
  <2>3. \A e \in Event : due[e] # Never + 1 => due[e] \in Cycle /\ nextEventCycle <= due[e]
    BY <2>1, <2>2 DEF NoEventIsLost, Pending, NextEventIsEarliest, IsFirstKey, TypeOK, Cycle, Keys, DueOf
  <2>4. ASSUME NEW e \in Event, NEW kind \in Kind, NEW when \in Cycle,
               when >= currentCycle, InsertEvent(e, kind, when)
        PROVE  AgendaRefinement!Schedule(e, when)
    <3>1. /\ object[e].state = "free" /\ currentCycle' = currentCycle
          /\ object' = [object EXCEPT ![e] = [state |-> "pending", kind |-> kind, cycle |-> when]]
      BY <2>4 DEF InsertEvent, clockVars
    <3>2. \A f \in Event : DueOf(f)' = IF f = e THEN when ELSE DueOf(f)
      BY <2>1, <3>1 DEF TypeOK, DueOf
    <3>3. QED
      BY <2>4, <3>1, <3>2 DEF AgendaRefinement!Schedule, DueOf
  <2>5. ASSUME NEW e \in Event, RemoveEvent(e) PROVE AgendaRefinement!Cancel(e)
    <3>1. /\ object[e].state = "pending" /\ currentCycle' = currentCycle
          /\ object' = [object EXCEPT ![e] = Freed(object[e])]
      BY <2>5 DEF RemoveEvent, clockVars
    <3>2. \A f \in Event : DueOf(f)' = IF f = e THEN Never + 1 ELSE DueOf(f)
      BY <2>1, <3>1 DEF TypeOK, DueOf, Freed
    <3>3. QED
      BY <2>2, <3>1, <3>2 DEF AgendaRefinement!Cancel, DueOf
  <2>6. ASSUME NEW e \in Event, NEW kind \in Kind, NEW when \in Cycle, ScheduleLater(e, kind, when)
        PROVE  AgendaRefinement!AgendaNext
    BY <2>1, <2>4, <2>6 DEF ScheduleLater, AgendaRefinement!AgendaNext, TypeOK, Cycle
  <2>7. ASSUME NEW e \in Event, EnqueueWakeup(e) PROVE AgendaRefinement!AgendaNext
    <3>1. currentCycle \in Cycle /\ currentCycle >= currentCycle
      BY <2>1 DEF TypeOK, Cycle
    <3>2. QED
      BY <2>4, <2>7, <3>1 DEF EnqueueWakeup, AgendaRefinement!AgendaNext
  <2>8. ASSUME NEW e \in Event, CancelResponse(e) PROVE AgendaRefinement!AgendaNext
    BY <2>5, <2>8 DEF CancelResponse, AgendaRefinement!AgendaNext
  \* The clock alone moves, at most to the next event.
  <2>9. ASSUME object' = object, currentCycle' \in Cycle, currentCycle' > currentCycle,
               currentCycle' <= nextEventCycle
        PROVE  AgendaRefinement!Advance(currentCycle')
    <3>1. due' = due
      BY <2>9 DEF DueOf
    <3>2. \A e \in Event : due[e] # Never + 1 => due[e] >= currentCycle'
      BY <2>1, <2>3, <2>9 DEF TypeOK, Cycle
    <3>3. QED
      BY <2>9, <3>1, <3>2 DEF AgendaRefinement!Advance, AgendaRefinement!Scheduled, DueOf
  <2>10. ASSUME object' = object, currentCycle' = currentCycle
         PROVE  UNCHANGED AgendaRefinement!agendaVars
    BY <2>10 DEF AgendaRefinement!agendaVars
  <2>11. CASE LoopSkip
    <3>1. currentCycle' \in Cycle /\ currentCycle' > currentCycle /\ currentCycle' <= nextEventCycle
      BY <2>1, <2>11 DEF LoopSkip, TypeOK, ControlOK, Cycle
    <3>2. QED
      BY <2>9, <2>11, <3>1 DEF LoopSkip, AgendaRefinement!AgendaNext
  <2>12. CASE LoopToEvent
    <3>1. currentCycle' \in Cycle /\ currentCycle' >= currentCycle /\ currentCycle' <= nextEventCycle
      BY <2>1, <2>12 DEF LoopToEvent, TypeOK, Cycle, ClockNeverPassesAnEvent
    <3>2. CASE currentCycle' = currentCycle
      BY <2>10, <2>12, <3>2 DEF LoopToEvent
    <3>3. CASE currentCycle' > currentCycle
      BY <2>9, <2>12, <3>1, <3>3 DEF LoopToEvent, AgendaRefinement!AgendaNext
    <3>4. QED
      BY <2>1, <3>1, <3>2, <3>3 DEF TypeOK, Cycle
  \* The event that is run is due now.
  <2>13. CASE StartHandler
    <3>1. /\ nextEventCycle \in Keys /\ it \in 1 .. Len(eventMap[nextEventCycle])
          /\ Running = eventMap[nextEventCycle][it] /\ IsAhead(nextEventCycle, it)
          /\ nextEventCycle = currentCycle
      BY <2>1, <2>13 DEF StartHandler, ControlOK, ClockNeverPassesAnEvent, Running, EventList, IsAhead
    <3>2. /\ Running \in Event /\ object[Running].state = "pending"
          /\ object[Running].cycle = currentCycle
      BY <2>1, <3>1, ElementOfSeq DEF QueueInv, AheadOK, TypeOK
    <3>3. \A f \in Event : DueOf(f)' = IF f = Running THEN Never + 1 ELSE DueOf(f)
      BY <2>1, <2>13, <3>2 DEF StartHandler, TypeOK, DueOf
    <3>4. \E e \in Event : AgendaRefinement!Fire(e)
      BY <2>2, <2>13, <3>2, <3>3
         DEF AgendaRefinement!Fire, AgendaRefinement!Cancel, DueOf, StartHandler, clockVars
    <3>5. QED
      BY <3>4 DEF AgendaRefinement!AgendaNext
  <2>14. CASE EndHandler
    <3>1. Running \in Event /\ object[Running].state = "running"
      BY <2>1, <2>14, ElementOfSeq DEF EndHandler, ControlOK, TypeOK, Running, EventList
    <3>2. \A f \in Event : DueOf(f)' = DueOf(f)
      BY <2>1, <2>14, <3>1 DEF EndHandler, TypeOK, DueOf, Freed
    <3>3. QED
      BY <2>14, <3>2 DEF EndHandler, AgendaRefinement!agendaVars, DueOf, clockVars
  <2>15. CASE LoopReturn \/ EndProcess \/ (\E steps \in 0 .. MaxSteps : Loop(steps)) \/ UNCHANGED vars
    BY <2>10, <2>15 DEF LoopReturn, EndProcess, Loop, vars, clockVars
  <2>16. QED
    BY <2>6, <2>7, <2>8, <2>11, <2>12, <2>13, <2>14, <2>15 DEF Next, Advancing
<1>3. QED
  BY <1>1, <1>2, QueueInvariant, NothingLost, PTL
     DEF Spec, ImplementsAgenda, AgendaRefinement!AgendaSpec
=============================================================================
