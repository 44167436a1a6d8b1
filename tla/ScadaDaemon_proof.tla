-------------------------- MODULE ScadaDaemon_proof --------------------------
(***************************************************************************)
(* Proofs about the SCADA daemon: its alarm list, for every set of alarms, *)
(* and then its link to an IED, for every set of control calls.            *)
(*                                                                         *)
(* The alarm list: "unseen" is exactly the entries that are not            *)
(* acknowledged, and an entry that is not active is not acknowledged.  The *)
(* second half is needed because raise hands the acknowledgement of a      *)
(* cleared entry on: only it shows that there is never one to hand on.     *)
(***************************************************************************)
EXTENDS AlarmList, IedLink, SequenceTheorems, TLAPS

\* The entries that await an operator.
Unacknowledged(l) == {id \in AlarmIds : Listed(l, id) /\ ~ Acked(l, id)}

\* No entry is acknowledged and inactive.
NoSettledEntry(l) == \A id \in AlarmIds : Acked(l, id) => Active(l, id)

IInv == TypeOK /\ unseen = Unacknowledged(list) /\ NoSettledEntry(list)

\* What one call of the alarm module makes of one entry: the five outcomes.
EntryMove(l, new, id) ==
    \/ new[id] = l[id]
    \/ ~ Active(l, id) /\ new[id] = [active |-> TRUE, acked |-> FALSE]
    \/ Active(l, id) /\ ~ Acked(l, id) /\ new[id] = [active |-> FALSE, acked |-> FALSE]
    \/ Active(l, id) /\ Acked(l, id) /\ new[id] = NoAlarm
-----------------------------------------------------------------------------
LEMMA EntryCases ==
    ASSUME NEW l \in AlarmLists, NEW id \in AlarmIds
    PROVE  \/ l[id] = NoAlarm /\ ~ Listed(l, id) /\ ~ Active(l, id) /\ ~ Acked(l, id)
           \/ l[id] \in Entries /\ Listed(l, id)
              /\ (Active(l, id) <=> l[id].active) /\ (Acked(l, id) <=> l[id].acked)
  <1>1. l[id] = NoAlarm \/ l[id] \in Entries
    BY DEF AlarmLists
  <1>2. CASE l[id] = NoAlarm
    <2>1. ~ Listed(l, id)
      BY <1>2 DEF Listed
    <2>2. QED
      BY <1>2, <2>1, Zenon DEF Active, Acked
  <1>3. CASE l[id] \in Entries
    <2>1. Listed(l, id)
      BY <1>3, AlarmAssumption DEF Listed
    <2>2. QED
      BY <1>3, <2>1, Zenon DEF Active, Acked
  <1>4. QED
    BY <1>1, <1>2, <1>3

\* raise touches one entry, and only one that is not active: without a settled
\* entry to inherit from, the alarm comes up unacknowledged.
LEMMA RaiseEffect ==
    ASSUME NEW l \in AlarmLists, NoSettledEntry(l), NEW id \in AlarmIds
    PROVE  /\ Raise(l, id) \in AlarmLists
           /\ \A k \in AlarmIds : EntryMove(l, Raise(l, id), k)
           /\ Active(Raise(l, id), id)
  <1>1. CASE Active(l, id)
    <2>1. Raise(l, id) = l
      BY <1>1, Zenon DEF Raise
    <2>2. QED
      BY <1>1, <2>1, Zenon DEF EntryMove
  <1>2. CASE ~ Active(l, id)
    <2>1. ~ Acked(l, id)
      BY <1>2, Zenon DEF NoSettledEntry
    <2>2. Acked(l, id) = FALSE
      BY <2>1, Zenon DEF Acked
    <2>3. Raise(l, id) = [l EXCEPT ![id] = [active |-> TRUE, acked |-> Acked(l, id)]]
      BY <1>2, Zenon DEF Raise
    <2>4. Raise(l, id) = [l EXCEPT ![id] = [active |-> TRUE, acked |-> FALSE]]
      BY <2>2, <2>3, Zenon
    <2>5. [active |-> TRUE, acked |-> FALSE] \in Entries
      BY DEF Entries
    <2>6. Raise(l, id) \in AlarmLists
      BY <2>4, <2>5 DEF AlarmLists
    <2>7. /\ Raise(l, id)[id] = [active |-> TRUE, acked |-> FALSE]
          /\ \A k \in AlarmIds \ {id} : Raise(l, id)[k] = l[k]
      BY <2>4 DEF AlarmLists
    <2>8. Active(Raise(l, id), id)
      <3>1. Raise(l, id)[id] \in Entries /\ Raise(l, id)[id].active
        BY <2>7 DEF Entries
      <3>2. QED
        BY <3>1, AlarmAssumption, Zenon DEF Active, Listed
    <2>9. \A k \in AlarmIds : EntryMove(l, Raise(l, id), k)
      BY <1>2, <2>7, Zenon DEF EntryMove
    <2>10. QED
      BY <2>6, <2>8, <2>9
  <1>3. QED
    BY <1>1, <1>2

LEMMA ClearEffect ==
    ASSUME NEW l \in AlarmLists, NEW id \in AlarmIds
    PROVE  /\ Clear(l, id) \in AlarmLists
           /\ \A k \in AlarmIds : EntryMove(l, Clear(l, id), k)
  <1>1. CASE ~ Active(l, id)
    <2>1. Clear(l, id) = l
      BY <1>1, Zenon DEF Clear
    <2>2. QED
      BY <2>1, Zenon DEF EntryMove
  <1>2. CASE Active(l, id)
    <2> DEFINE e == IF Acked(l, id) THEN NoAlarm ELSE [active |-> FALSE, acked |-> FALSE]
    <2>1. Clear(l, id) = [l EXCEPT ![id] = e]
      BY <1>2, Zenon DEF Clear
    <2>2. e \in Entries \cup {NoAlarm}
      BY DEF Entries
    <2>3. Clear(l, id) \in AlarmLists
      BY <2>1, <2>2 DEF AlarmLists
    <2>4. /\ Clear(l, id)[id] = e
          /\ \A k \in AlarmIds \ {id} : Clear(l, id)[k] = l[k]
      BY <2>1 DEF AlarmLists
    <2>5. EntryMove(l, Clear(l, id), id)
      <3>1. CASE Acked(l, id)
        BY <1>2, <2>4, <3>1, Zenon DEF EntryMove
      <3>2. CASE ~ Acked(l, id)
        BY <1>2, <2>4, <3>2, Zenon DEF EntryMove
      <3>3. QED
        BY <3>1, <3>2
    <2>6. \A k \in AlarmIds : EntryMove(l, Clear(l, id), k)
      BY <2>4, <2>5, Zenon DEF EntryMove
    <2>7. QED
      BY <2>3, <2>6
  <1>3. QED
    BY <1>1, <1>2

LEMMA EvaluateEffect ==
    ASSUME NEW l \in AlarmLists, NoSettledEntry(l), NEW defs, NEW met
    PROVE  /\ Evaluate(l, defs, met) \in AlarmLists
           /\ \A k \in AlarmIds : EntryMove(l, Evaluate(l, defs, met), k)
  <1>1. ASSUME NEW k \in AlarmIds
        PROVE  /\ Evaluate(l, defs, met)[k] \in Entries \cup {NoAlarm}
               /\ EntryMove(l, Evaluate(l, defs, met), k)
    <2>1. \/ Evaluate(l, defs, met)[k] = l[k]
          \/ Evaluate(l, defs, met)[k] = Raise(l, k)[k]
          \/ Evaluate(l, defs, met)[k] = Clear(l, k)[k]
      BY DEF Evaluate
    <2>2. /\ l[k] \in Entries \cup {NoAlarm}
          /\ Raise(l, k)[k] \in Entries \cup {NoAlarm}
          /\ Clear(l, k)[k] \in Entries \cup {NoAlarm}
      BY RaiseEffect, ClearEffect DEF AlarmLists
    <2>3. EntryMove(l, Raise(l, k), k) /\ EntryMove(l, Clear(l, k), k)
      BY RaiseEffect, ClearEffect, Zenon
    <2>4. EntryMove(l, Evaluate(l, defs, met), k)
      BY <2>1, <2>3, Zenon DEF EntryMove
    <2>5. QED
      BY <2>1, <2>2, <2>4
  <1>2. Evaluate(l, defs, met) = [k \in AlarmIds |-> Evaluate(l, defs, met)[k]]
    BY DEF Evaluate
  <1>3. QED
    BY <1>1, <1>2 DEF AlarmLists
-----------------------------------------------------------------------------
\* What an entry looks like after each of its moves.
LEMMA MoveEffect ==
    ASSUME NEW l \in AlarmLists, NEW new \in AlarmLists, NEW id \in AlarmIds,
           EntryMove(l, new, id), Acked(l, id) => Active(l, id)
    PROVE  /\ Acked(new, id) => Active(new, id)
           /\ (Listed(new, id) /\ ~ Acked(new, id)) <=>
                \/ Listed(l, id) /\ ~ Acked(l, id)
                \/ Active(new, id) /\ ~ Active(l, id)
           /\ \/ <<Listed(new, id), Active(new, id), Acked(new, id)>>
                   = <<Listed(l, id), Active(l, id), Acked(l, id)>>
              \/ ~ Active(l, id) /\ Active(new, id) /\ ~ Acked(new, id)
              \/ Active(l, id) /\ ~ Acked(l, id) /\ Listed(new, id) /\ ~ Active(new, id)
              \/ Active(l, id) /\ Acked(l, id) /\ ~ Listed(new, id)
  <1>1. CASE new[id] = l[id]
    <2>1. /\ Listed(new, id) = Listed(l, id)
          /\ Active(new, id) = Active(l, id)
          /\ Acked(new, id) = Acked(l, id)
      BY <1>1, Zenon DEF Listed, Active, Acked
    <2>2. Active(l, id) => Listed(l, id)
      BY Zenon DEF Active
    <2>3. QED
      BY <2>1, <2>2, Zenon
  <1>2. CASE ~ Active(l, id) /\ new[id] = [active |-> TRUE, acked |-> FALSE]
    <2>1. Listed(new, id) /\ Active(new, id) /\ ~ Acked(new, id)
      <3>1. new[id] \in Entries /\ new[id].active /\ ~ new[id].acked
        BY <1>2 DEF Entries
      <3>2. QED
        BY <3>1, AlarmAssumption, Zenon DEF Listed, Active, Acked
    <2>2. QED
      BY <1>2, <2>1, Zenon
  <1>3. CASE Active(l, id) /\ ~ Acked(l, id) /\ new[id] = [active |-> FALSE, acked |-> FALSE]
    <2>1. Listed(new, id) /\ ~ Active(new, id) /\ ~ Acked(new, id)
      <3>1. new[id] \in Entries /\ ~ new[id].active /\ ~ new[id].acked
        BY <1>3 DEF Entries
      <3>2. QED
        BY <3>1, AlarmAssumption, Zenon DEF Listed, Active, Acked
    <2>2. Listed(l, id)
      BY <1>3, Zenon DEF Active
    <2>3. QED
      BY <1>3, <2>1, <2>2, Zenon
  <1>4. CASE Active(l, id) /\ Acked(l, id) /\ new[id] = NoAlarm
    <2>1. ~ Listed(new, id) /\ ~ Active(new, id) /\ ~ Acked(new, id)
      BY <1>4, Zenon DEF Listed, Active, Acked
    <2>2. QED
      BY <1>4, <2>1, Zenon
  <1>5. QED
    BY <1>1, <1>2, <1>3, <1>4, Zenon DEF EntryMove

\* ack: one entry, acknowledged if it is active and removed if it has cleared.
LEMMA AckEffect ==
    ASSUME NEW l \in AlarmLists, NoSettledEntry(l), NEW id \in AlarmIds
    PROVE  /\ Ack(l, id) \in AlarmLists
           /\ \A k \in AlarmIds \ {id} : Ack(l, id)[k] = l[k]
           /\ \/ ~ Listed(l, id) /\ ~ Listed(Ack(l, id), id)
              \/ Active(l, id) /\ Active(Ack(l, id), id) /\ Acked(Ack(l, id), id)
              \/ /\ Listed(l, id) /\ ~ Active(l, id) /\ ~ Acked(l, id)
                 /\ ~ Listed(Ack(l, id), id)
  <1>1. CASE ~ Listed(l, id)
    <2>1. Ack(l, id) = l
      BY <1>1, Zenon DEF Ack
    <2>2. QED
      BY <1>1, <2>1
  <1>2. CASE Listed(l, id) /\ Active(l, id)
    <2>1. Ack(l, id) = [l EXCEPT ![id] = [active |-> TRUE, acked |-> TRUE]]
      BY <1>2, Zenon DEF Ack
    <2>2. [active |-> TRUE, acked |-> TRUE] \in Entries
      BY DEF Entries
    <2>3. Ack(l, id) \in AlarmLists
      BY <2>1, <2>2 DEF AlarmLists
    <2>4. /\ Ack(l, id)[id] = [active |-> TRUE, acked |-> TRUE]
          /\ \A k \in AlarmIds \ {id} : Ack(l, id)[k] = l[k]
      BY <2>1 DEF AlarmLists
    <2>5. Active(Ack(l, id), id) /\ Acked(Ack(l, id), id)
      <3>1. /\ Ack(l, id)[id] \in Entries
            /\ Ack(l, id)[id].active /\ Ack(l, id)[id].acked
        BY <2>4 DEF Entries
      <3>2. QED
        BY <3>1, AlarmAssumption, Zenon DEF Active, Acked, Listed
    <2>6. QED
      BY <1>2, <2>3, <2>4, <2>5
  <1>3. CASE Listed(l, id) /\ ~ Active(l, id)
    <2>1. Ack(l, id) = [l EXCEPT ![id] = NoAlarm]
      BY <1>3, Zenon DEF Ack
    <2>2. Ack(l, id) \in AlarmLists
      BY <2>1 DEF AlarmLists
    <2>3. /\ Ack(l, id)[id] = NoAlarm
          /\ \A k \in AlarmIds \ {id} : Ack(l, id)[k] = l[k]
      BY <2>1 DEF AlarmLists
    <2>4. ~ Listed(Ack(l, id), id)
      BY <2>3 DEF Listed
    <2>5. ~ Acked(l, id)
      BY <1>3, Zenon DEF NoSettledEntry
    <2>6. QED
      BY <1>3, <2>2, <2>3, <2>4, <2>5
  <1>4. QED
    BY <1>1, <1>2, <1>3
-----------------------------------------------------------------------------
LEMMA TypedReadings ==
    TypeOK /\ [Next]_vars => reading' \in [Conditions -> Readings]
  BY DEF TypeOK, Next, vars, ReadingChanges, TickAlarms, RaiseBuiltIn, ClearBuiltIn,
         Becomes, Acknowledge, Restart, Readings

\* Whatever the system does to the list, entry by entry.
LEMMA BecomesStep ==
    ASSUME IInv, NEW new \in AlarmLists, \A k \in AlarmIds : EntryMove(list, new, k),
           Becomes(new), reading' \in [Conditions -> Readings]
    PROVE  IInv' /\ Lifecycle!System
  <1>1. list \in AlarmLists /\ \A k \in AlarmIds : Acked(list, k) => Active(list, k)
    BY Zenon DEF IInv, TypeOK, NoSettledEntry
  <1>2. list' = new /\ unseen' = unseen \cup Raised(new)
    BY DEF Becomes
  <1>3. NoSettledEntry(new)
    BY <1>1, MoveEffect, Zenon DEF NoSettledEntry
  <1>4. unseen \cup Raised(new) = Unacknowledged(new)
    <2>1. \A k \in AlarmIds :
            (Listed(new, k) /\ ~ Acked(new, k)) <=>
               \/ Listed(list, k) /\ ~ Acked(list, k)
               \/ Active(new, k) /\ ~ Active(list, k)
      BY <1>1, MoveEffect, Zenon
    <2>2. unseen = Unacknowledged(list)
      BY DEF IInv
    <2>3. QED
      BY <2>1, <2>2 DEF Unacknowledged, Raised
  <1>5. IInv'
    <2>1. unseen' \in SUBSET AlarmIds
      BY <1>2, <1>4 DEF Unacknowledged
    <2>2. QED
      BY <1>2, <1>3, <1>4, <2>1 DEF IInv, TypeOK
  <1>6. Lifecycle!System
    <2>1. ASSUME NEW k \in AlarmIds
          PROVE  \/ Phase(k)' = Phase(k)
                 \/ <<Phase(k), Phase(k)'>> \in Lifecycle!SystemMoves
      <3>1. CASE <<Listed(new, k), Active(new, k), Acked(new, k)>>
                   = <<Listed(list, k), Active(list, k), Acked(list, k)>>
        BY <1>2, <3>1 DEF Phase
      <3>2. CASE ~ Active(list, k) /\ Active(new, k) /\ ~ Acked(new, k)
        <4>1. Phase(k)' = "unacked"
          BY <1>2, <3>2, Zenon DEF Phase, Active
        <4>2. Phase(k) \in {"inactive", "cleared"}
          BY <3>2 DEF Phase
        <4>3. QED
          BY <4>1, <4>2 DEF Lifecycle!SystemMoves
      <3>3. CASE Active(list, k) /\ ~ Acked(list, k) /\ Listed(new, k) /\ ~ Active(new, k)
        <4>1. Phase(k)' = "cleared"
          BY <1>2, <3>3, Zenon DEF Phase
        <4>2. Phase(k) = "unacked"
          BY <3>3, Zenon DEF Phase, Active
        <4>3. QED
          BY <4>1, <4>2 DEF Lifecycle!SystemMoves
      <3>4. CASE Active(list, k) /\ Acked(list, k) /\ ~ Listed(new, k)
        <4>1. Phase(k)' = "inactive"
          BY <1>2, <3>4, Zenon DEF Phase
        <4>2. Phase(k) = "acked"
          BY <3>4, Zenon DEF Phase, Active
        <4>3. QED
          BY <4>1, <4>2 DEF Lifecycle!SystemMoves
      <3>5. QED
        BY <1>1, <3>1, <3>2, <3>3, <3>4, MoveEffect, Zenon
    <2>2. \A k \in AlarmIds : Phase(k)' \in Lifecycle!Phases
      BY DEF Phase, Lifecycle!Phases
    <2>3. QED
      BY <2>1, <2>2 DEF Lifecycle!System
  <1>7. QED
    BY <1>5, <1>6

LEMMA AckStep ==
    ASSUME IInv, NEW id \in AlarmIds, Acknowledge(id),
           reading' \in [Conditions -> Readings]
    PROVE  /\ IInv'
           /\ \/ Lifecycle!Operator(id)
              \/ \A k \in AlarmIds : Phase(k)' = Phase(k)
  <1> DEFINE new == Ack(list, id)
  <1>1. list \in AlarmLists /\ NoSettledEntry(list)
    BY DEF IInv, TypeOK
  <1>2. list' = new /\ unseen' = unseen \ {id}
    BY DEF Acknowledge
  <1>3. new \in AlarmLists /\ \A k \in AlarmIds \ {id} : new[k] = list[k]
    BY <1>1, AckEffect
  <1>4. \A k \in AlarmIds \ {id} :
            /\ Listed(new, k) = Listed(list, k)
            /\ Active(new, k) = Active(list, k)
            /\ Acked(new, k) = Acked(list, k)
    BY <1>3, Zenon DEF Listed, Active, Acked
  <1>5. \/ ~ Listed(list, id) /\ ~ Listed(new, id)
        \/ Active(list, id) /\ Active(new, id) /\ Acked(new, id)
        \/ /\ Listed(list, id) /\ ~ Active(list, id) /\ ~ Acked(list, id)
           /\ ~ Listed(new, id)
    BY <1>1, AckEffect, Zenon
  <1>6. (~ Listed(new, id) \/ Acked(new, id)) /\ (Acked(new, id) => Active(new, id))
    BY <1>5, Zenon DEF Active, Acked
  <1>7. IInv'
    <2>1. NoSettledEntry(new)
      <3>1. ASSUME NEW k \in AlarmIds, Acked(new, k) PROVE Active(new, k)
        <4>1. CASE k = id
          BY <1>6, <3>1, <4>1, Zenon
        <4>2. CASE k # id
          <5>1. Acked(list, k)
            BY <1>4, <3>1, <4>2, Zenon
          <5>2. Active(list, k)
            BY <1>1, <5>1, Zenon DEF NoSettledEntry
          <5>3. QED
            BY <1>4, <4>2, <5>2, Zenon
        <4>3. QED
          BY <4>1, <4>2
      <3>2. QED
        BY <3>1, Zenon DEF NoSettledEntry
    <2>2. unseen \ {id} = Unacknowledged(new)
      BY <1>4, <1>6 DEF IInv, Unacknowledged
    <2>3. unseen' \in SUBSET AlarmIds
      BY <1>2 DEF IInv, TypeOK
    <2>4. QED
      BY <1>2, <1>3, <2>1, <2>2, <2>3 DEF IInv, TypeOK
  <1>8. \A k \in AlarmIds \ {id} : Phase(k)' = Phase(k)
    BY <1>2, <1>4 DEF Phase
  <1>9. CASE Phase(id)' = Phase(id)
    <2>1. \A k \in AlarmIds : Phase(k)' = Phase(k)
      BY <1>8, <1>9, SMT DEF Phase
    <2>2. QED
      BY <1>7, <2>1, Zenon
  <1>10. CASE Phase(id)' # Phase(id)
    <2>1. \/ Phase(id) = "unacked" /\ Phase(id)' = "acked"
          \/ Phase(id) = "cleared" /\ Phase(id)' = "inactive"
      <3>1. CASE ~ Listed(list, id) /\ ~ Listed(new, id)
        BY <1>2, <1>10, <3>1, Zenon DEF Phase
      <3>2. CASE Active(list, id) /\ Active(new, id) /\ Acked(new, id)
        <4>1. Phase(id)' = "acked"
          BY <1>2, <3>2, Zenon DEF Phase, Active
        <4>2. Phase(id) = "acked" \/ Phase(id) = "unacked"
          BY <3>2, Zenon DEF Phase, Active
        <4>3. QED
          BY <1>10, <4>1, <4>2
      <3>3. CASE Listed(list, id) /\ ~ Active(list, id) /\ ~ Listed(new, id)
        BY <1>2, <3>3, Zenon DEF Phase
      <3>4. QED
        BY <1>5, <3>1, <3>2, <3>3
    <2>2. PICK p \in Lifecycle!Phases : p = Phase(id)'
                                       /\ <<Phase(id), p>> \in Lifecycle!OperatorMoves
      BY <2>1 DEF Lifecycle!Phases, Lifecycle!OperatorMoves
    <2>3. [k \in AlarmIds |-> Phase(k)]' = [[k \in AlarmIds |-> Phase(k)] EXCEPT ![id] = p]
      BY <1>8, <2>2 DEF Phase
    <2>4. QED
      BY <1>7, <2>2, <2>3 DEF Lifecycle!Operator
  <1>11. QED
    BY <1>7, <1>9, <1>10
-----------------------------------------------------------------------------
LEMMA InitInv == Init => IInv /\ Lifecycle!Init
  <1> SUFFICES ASSUME Init PROVE IInv /\ Lifecycle!Init
    OBVIOUS
  <1>1. \A id \in AlarmIds : list[id] = NoAlarm
    BY DEF Init, NewActiveList
  <1>2. \A id \in AlarmIds : ~ Listed(list, id) /\ ~ Active(list, id) /\ ~ Acked(list, id)
    BY <1>1, Zenon DEF Listed, Active, Acked
  <1>3. TypeOK
    BY DEF Init, TypeOK, NewActiveList, AlarmLists, Readings
  <1>4. unseen = Unacknowledged(list) /\ NoSettledEntry(list)
    BY <1>2 DEF Init, Unacknowledged, NoSettledEntry
  <1>5. \A id \in AlarmIds : Phase(id) = "inactive"
    BY <1>2, Zenon DEF Phase
  <1>6. QED
    BY <1>3, <1>4, <1>5 DEF IInv, Lifecycle!Init

\* The bar variable of the refinement.
Bar == [id \in AlarmIds |-> Phase(id)]

LEMMA Step == IInv /\ [Next]_vars => IInv' /\ [Lifecycle!Next]_Bar
  <1> SUFFICES ASSUME IInv, [Next]_vars PROVE IInv' /\ [Lifecycle!Next]_Bar
    OBVIOUS
  <1>1. list \in AlarmLists /\ NoSettledEntry(list)
    BY DEF IInv, TypeOK
  <1>2. reading' \in [Conditions -> Readings]
    BY TypedReadings DEF IInv
  <1>3. ASSUME UNCHANGED <<list, unseen>> PROVE IInv' /\ UNCHANGED Bar
    BY <1>2, <1>3 DEF IInv, TypeOK, Bar, Phase
  <1>4. CASE TickAlarms
    <2> DEFINE new == Evaluate(list, Conditions, {c \in Conditions : reading[c] = "met"})
    <2>1. new \in AlarmLists /\ \A k \in AlarmIds : EntryMove(list, new, k)
      BY <1>1, EvaluateEffect, Zenon
    <2>2. Becomes(new)
      BY <1>4, Zenon DEF TickAlarms
    <2>3. IInv' /\ Lifecycle!System
      BY <1>2, <2>1, <2>2, BecomesStep, Zenon
    <2>4. QED
      BY <2>3, Zenon DEF Lifecycle!Next
  <1>5. ASSUME NEW id \in AlarmIds, RaiseBuiltIn(id)
        PROVE  IInv' /\ Lifecycle!System
    <2>1. /\ Raise(list, id) \in AlarmLists
          /\ \A k \in AlarmIds : EntryMove(list, Raise(list, id), k)
      BY <1>1, RaiseEffect, Zenon
    <2>2. Becomes(Raise(list, id))
      BY <1>5, Zenon DEF RaiseBuiltIn
    <2>3. QED
      BY <1>2, <2>1, <2>2, BecomesStep, Zenon
  <1>6. ASSUME NEW id \in AlarmIds, ClearBuiltIn(id)
        PROVE  IInv' /\ Lifecycle!System
    <2>1. /\ Clear(list, id) \in AlarmLists
          /\ \A k \in AlarmIds : EntryMove(list, Clear(list, id), k)
      BY <1>1, ClearEffect, Zenon
    <2>2. Becomes(Clear(list, id))
      BY <1>6, Zenon DEF ClearBuiltIn
    <2>3. QED
      BY <1>2, <2>1, <2>2, BecomesStep, Zenon
  <1>7. ASSUME NEW id \in AlarmIds, Acknowledge(id)
        PROVE  IInv' /\ [Lifecycle!Next]_Bar
    <2>1. IInv'
      BY <1>2, <1>7, AckStep
    <2>2. CASE Lifecycle!Operator(id)
      BY <2>1, <2>2, Zenon DEF Lifecycle!Next
    <2>3. CASE \A k \in AlarmIds : Phase(k)' = Phase(k)
      BY <2>1, <2>3, SMT DEF Bar, Phase
    <2>4. QED
      BY <1>2, <1>7, <2>2, <2>3, AckStep, Zenon
  <1>8. CASE Restart
    <2>1. list' = NewActiveList /\ unseen' = {} /\ reading' = [c \in Conditions |-> "unknown"]
      BY <1>8 DEF Restart
    <2>2. \A k \in AlarmIds : list'[k] = NoAlarm
      BY <2>1 DEF NewActiveList
    <2>3. \A k \in AlarmIds : ~ Listed(list', k) /\ ~ Active(list', k) /\ ~ Acked(list', k)
      BY <2>2, Zenon DEF Listed, Active, Acked
    <2>4. IInv'
      <3>1. list' \in AlarmLists
        BY <2>1 DEF NewActiveList, AlarmLists
      <3>2. unseen' = Unacknowledged(list') /\ NoSettledEntry(list')
        BY <2>1, <2>3 DEF Unacknowledged, NoSettledEntry
      <3>3. QED
        BY <1>2, <2>1, <3>1, <3>2 DEF IInv, TypeOK
    <2>5. Bar' = [k \in AlarmIds |-> "inactive"]
      BY <2>3, SMT DEF Bar, Phase
    <2>6. QED
      BY <2>4, <2>5 DEF Lifecycle!Next, Lifecycle!Reset, Bar
  <1>9. CASE Next
    <2>1. CASE \E c \in Conditions, v \in Readings : ReadingChanges(c, v)
      BY <1>3, <2>1 DEF ReadingChanges
    <2>2. QED
      BY <1>4, <1>5, <1>6, <1>7, <1>8, <1>9, <2>1, Zenon DEF Next, Lifecycle!Next
  <1>10. CASE UNCHANGED vars
    BY <1>3, <1>10 DEF vars
  <1>11. QED
    BY <1>9, <1>10

LEMMA Invariance == Spec => []IInv
  <1>1. IInv /\ [Next]_vars => IInv'
    BY Step
  <1>2. QED
    BY <1>1, InitInv, PTL DEF Spec

\* The list holds entries and nothing else, whichever calls the daemon makes.
THEOREM TypeCorrect == Spec => []TypeOK
  <1>1. IInv => TypeOK
    BY DEF IInv
  <1>2. QED
    BY <1>1, Invariance, PTL

\* An alarm that came up since it was last acknowledged is on the list, not
\* acknowledged: no sequence of raise, clear, ack and evaluate loses one.
THEOREM NoAlarmLost == Spec => []NothingUnseenVanishes
  <1>1. IInv => NothingUnseenVanishes
    BY DEF IInv, NothingUnseenVanishes, Unacknowledged
  <1>2. QED
    BY <1>1, Invariance, PTL

\* An entry outlives its condition only to await its acknowledgement.
THEOREM NoEntryForNothing == Spec => []OnlyUnseenLinger
  <1>1. IInv => OnlyUnseenLinger
    <2> SUFFICES ASSUME IInv, NEW id \in AlarmIds, Listed(list, id), ~ Active(list, id)
                 PROVE  id \in unseen
      BY Zenon DEF OnlyUnseenLinger
    <2>1. ~ Acked(list, id)
      BY Zenon DEF IInv, NoSettledEntry
    <2>2. QED
      BY <2>1 DEF IInv, Unacknowledged
  <1>2. QED
    BY <1>1, Invariance, PTL

\* The list implements the life cycle of AlarmLifecycle: nothing but an
\* operator acknowledges an alarm, and nothing else ends an unacked one.
THEOREM Implements == Spec => KeepsLifecycle
  <1>1. IInv /\ [Next]_vars => [Lifecycle!Next]_Bar
    BY Step
  <1>2. QED
    BY <1>1, InitInv, Invariance, PTL DEF Spec, KeepsLifecycle, Lifecycle!Spec, Bar
-----------------------------------------------------------------------------
(***************************************************************************)
(* The link to an IED.  No caller gets the answer to another call, for any *)
(* calls and however often the connection is lost.  What makes it so is    *)
(* that an id is used once on a connection, and that a relay keeps the     *)
(* client object that it was sent through: the ids of a later connection   *)
(* repeat, but are looked up in another reply table.                       *)
(***************************************************************************)

Elements(s) == {s[i] : i \in DOMAIN s}
OnWire == Elements(toIed) \cup Elements(fromIed)

\* There is a client object wherever one is used.
Connected == conn \in {"up", "broken"} => session \in Sessions

\* What session s may still bring as a reply.
Coming(s) == replies[s] \cup (IF s = session THEN OnWire ELSE {})

\* An id is used once per client object, and there are no future objects.
IdsFresh ==
    /\ \A s \in Sessions : s > session => replies[s] = {}
    /\ \A m \in OnWire : m.id < nextId
    /\ \A s \in Sessions : s = session => \A m \in replies[s] : m.id < nextId
    /\ \A r \in relays : r.session <= session /\ (r.session = session => r.id < nextId)

\* Only the reply to its own call has the id of a relay.
RelaysMatch == \A r \in relays : \A m \in Coming(r.session) : m.id = r.id => m.call = r.call

\* A reply to a control request comes from an IED that has served it.
RepliesServed ==
    /\ \A m \in Elements(fromIed) : m.call # Nothing => m.call \in executed
    /\ \A s \in Sessions : \A m \in replies[s] : m.call # Nothing => m.call \in executed

\* A call that has not been forwarded is nowhere.
UnsentNowhere ==
    \A c \in Calls : told[c] \in {"nothing", "unreachable"} =>
        /\ c \notin executed
        /\ \A m \in Elements(toIed) : m.call # c

LinkIInv == /\ LinkTypeOK /\ Connected /\ IdsFresh /\ RelaysMatch /\ RepliesServed /\ UnsentNowhere
        /\ AnswersTrue
-----------------------------------------------------------------------------
(* The messages of a queue.                                                *)

LEMMA ElementsTyped ==
    ASSUME NEW S, NEW s \in Seq(S) PROVE Elements(s) \subseteq S
BY DEF Elements

LEMMA ElementsEmpty == Elements(<<>>) = {}
BY DEF Elements

LEMMA ElementsAppend ==
    ASSUME NEW S, NEW s \in Seq(S), NEW e \in S
    PROVE  /\ Append(s, e) \in Seq(S)
           /\ Elements(Append(s, e)) = Elements(s) \cup {e}
<1>1. Append(s, e) \in Seq(S) /\ Len(Append(s, e)) = Len(s) + 1
      /\ \A i \in 1 .. Len(s) : Append(s, e)[i] = s[i]
      /\ Append(s, e)[Len(s) + 1] = e
  OBVIOUS
<1>2. DOMAIN s = 1 .. Len(s) /\ DOMAIN Append(s, e) = 1 .. Len(s) + 1 /\ Len(s) \in Nat
  BY <1>1
<1>3. ASSUME NEW x \in Elements(Append(s, e)) PROVE x \in Elements(s) \cup {e}
  <2>1. PICK i \in 1 .. Len(s) + 1 : x = Append(s, e)[i]
    BY <1>2, <1>3 DEF Elements
  <2>2. CASE i = Len(s) + 1
    BY <1>1, <2>1, <2>2
  <2>3. CASE i \in 1 .. Len(s)
    BY <1>1, <1>2, <2>1, <2>3 DEF Elements
  <2>4. QED
    BY <1>2, <2>1, <2>2, <2>3
<1>4. ASSUME NEW x \in Elements(s) PROVE x \in Elements(Append(s, e))
  <2>1. PICK i \in 1 .. Len(s) : x = s[i]
    BY <1>2, <1>4 DEF Elements
  <2>2. x = Append(s, e)[i] /\ i \in 1 .. Len(s) + 1
    BY <1>1, <1>2, <2>1
  <2>3. QED
    BY <1>2, <2>2 DEF Elements
<1>5. e \in Elements(Append(s, e))
  <2>1. Len(s) + 1 \in DOMAIN Append(s, e)
    BY <1>2
  <2>2. QED
    BY <1>1, <2>1 DEF Elements
<1>6. QED
  BY <1>1, <1>3, <1>4, <1>5

LEMMA ElementsHeadTail ==
    ASSUME NEW S, NEW s \in Seq(S), s # <<>>
    PROVE  /\ Head(s) \in S /\ Tail(s) \in Seq(S)
           /\ Elements(s) = Elements(Tail(s)) \cup {Head(s)}
<1>1. Len(s) \in Nat /\ Len(s) > 0 /\ Tail(s) \in Seq(S) /\ Len(Tail(s)) = Len(s) - 1
      /\ (\A i \in 1 .. Len(s) - 1 : Tail(s)[i] = s[i + 1]) /\ Head(s) = s[1]
  OBVIOUS
<1>2. DOMAIN s = 1 .. Len(s) /\ DOMAIN Tail(s) = 1 .. Len(s) - 1
  BY <1>1
<1>3. ASSUME NEW x \in Elements(s) PROVE x \in Elements(Tail(s)) \cup {Head(s)}
  <2>1. PICK i \in 1 .. Len(s) : x = s[i]
    BY <1>2, <1>3 DEF Elements
  <2>2. CASE i = 1
    BY <1>1, <2>1, <2>2
  <2>3. CASE i # 1
    <3>1. i - 1 \in DOMAIN Tail(s) /\ Tail(s)[i - 1] = x
      BY <1>1, <1>2, <2>1, <2>3
    <3>2. QED
      BY <3>1 DEF Elements
  <2>4. QED
    BY <2>2, <2>3
<1>4. ASSUME NEW x \in Elements(Tail(s)) PROVE x \in Elements(s)
  <2>1. PICK i \in 1 .. Len(s) - 1 : x = Tail(s)[i]
    BY <1>2, <1>4 DEF Elements
  <2>2. i + 1 \in DOMAIN s /\ s[i + 1] = x
    BY <1>1, <1>2, <2>1
  <2>3. QED
    BY <2>2 DEF Elements
<1>5. Head(s) \in Elements(s) /\ Head(s) \in S
  <2>1. 1 \in DOMAIN s
    BY <1>1, <1>2
  <2>2. QED
    BY <1>1, <2>1 DEF Elements
<1>6. QED
  BY <1>1, <1>3, <1>4, <1>5

LEMMA ElementsSplit ==
    ASSUME NEW S, NEW s \in Seq(S), NEW n \in 0 .. Len(s)
    PROVE  /\ SubSeq(s, n + 1, Len(s)) \in Seq(S)
           /\ Elements(SubSeq(s, n + 1, Len(s))) \subseteq Elements(s)
           /\ {s[i] : i \in 1 .. n} \subseteq Elements(s)
<1> DEFINE rest == SubSeq(s, n + 1, Len(s))
<1>0. Len(s) \in Nat /\ DOMAIN s = 1 .. Len(s)
  OBVIOUS
<1>1. Len(s) \in Nat /\ n \in Nat /\ n <= Len(s) /\ DOMAIN s = 1 .. Len(s)
  BY <1>0
<1>2. \A i \in n + 1 .. Len(s) : s[i] \in S
  BY <1>1
<1>3. rest \in Seq(S) /\ Len(rest) = Len(s) - n
      /\ \A i \in 1 .. Len(s) - n : rest[i] = s[n + i]
  <2>1. n + 1 \in Int /\ Len(s) \in Int
    BY <1>1
  <2>2. /\ rest \in Seq(S)
        /\ Len(rest) = IF n + 1 <= Len(s) THEN Len(s) - (n + 1) + 1 ELSE 0
        /\ \A i \in 1 .. Len(s) - (n + 1) + 1 : rest[i] = s[(n + 1) + i - 1]
    BY <1>2, <2>1, SubSeqProperties
  <2> HIDE DEF rest
  <2>3. Len(rest) = Len(s) - n
    <3>1. CASE n + 1 <= Len(s)
      BY <1>1, <2>2, <3>1
    <3>2. CASE n = Len(s)
      BY <1>1, <2>2, <3>2
    <3>3. \A k, l \in Nat : k <= l => k + 1 <= l \/ k = l
      OBVIOUS
    <3>4. QED
      BY <1>1, <3>1, <3>2, <3>3
  <2>4. ASSUME NEW i \in 1 .. Len(s) - n PROVE rest[i] = s[n + i]
    <3>1. (n + 1) + i - 1 = n + i /\ i \in 1 .. Len(s) - (n + 1) + 1
      BY <1>1
    <3>2. QED
      BY <2>2, <3>1
  <2>5. QED
    BY <2>2, <2>3, <2>4
<1>4. DOMAIN rest = 1 .. Len(s) - n
  BY <1>3
<1> HIDE DEF rest
<1>5. ASSUME NEW x \in Elements(rest) PROVE x \in Elements(s)
  <2>1. PICK i \in 1 .. Len(s) - n : x = rest[i]
    BY <1>4, <1>5 DEF Elements
  <2>2. n + i \in 1 .. Len(s) /\ s[n + i] = x
    BY <1>1, <1>3, <2>1
  <2>3. QED
    BY <1>1, <2>2 DEF Elements
<1>6. {s[i] : i \in 1 .. n} \subseteq Elements(s)
  BY <1>1 DEF Elements
<1>7. QED
  BY <1>3, <1>5, <1>6 DEF rest
-----------------------------------------------------------------------------
(* The invariant, action by action.                                        *)

LEMMA InitEstablishes == LinkInit => LinkIInv
<1> SUFFICES ASSUME LinkInit PROVE LinkIInv
  OBVIOUS
<1>1. LinkTypeOK
  BY LinkAssumption DEF LinkInit, LinkTypeOK, Messages, NoId
<1>2. OnWire = {}
  BY ElementsEmpty DEF LinkInit, OnWire
<1>3. Elements(fromIed) = {} /\ Elements(toIed) = {}
  BY ElementsEmpty DEF LinkInit
<1>4. Connected
  BY DEF LinkInit, Connected
<1>5. IdsFresh
  BY <1>2 DEF LinkInit, IdsFresh
<1>6. RelaysMatch
  BY DEF LinkInit, RelaysMatch
<1>7. RepliesServed
  BY <1>3 DEF LinkInit, RepliesServed
<1>8. UnsentNowhere
  BY <1>3 DEF LinkInit, UnsentNowhere
<1>9. AnswersTrue
  BY LinkAssumption DEF LinkInit, AnswersTrue
<1>10. QED
  BY <1>1, <1>4, <1>5, <1>6, <1>7, <1>8, <1>9 DEF LinkIInv

LEMMA StutterKeeps == LinkIInv /\ UNCHANGED linkVars => LinkIInv'
BY DEF LinkIInv, linkVars, LinkTypeOK, Connected, IdsFresh, RelaysMatch, RepliesServed, UnsentNowhere,
       AnswersTrue, OnWire, Coming

LEMMA IedServesKeeps == LinkIInv /\ IedServes => LinkIInv'
<1> SUFFICES ASSUME LinkIInv, IedServes PROVE LinkIInv'
  OBVIOUS
<1> USE DEF LinkIInv
<1> DEFINE m == Head(toIed)
<1>1. /\ m \in Messages /\ toIed' \in Seq(Messages) /\ fromIed' \in Seq(Messages)
      /\ Elements(toIed) = Elements(toIed') \cup {m}
      /\ Elements(fromIed') = Elements(fromIed) \cup {m}
  BY ElementsHeadTail, ElementsAppend DEF IedServes, LinkTypeOK
<1>2. OnWire' = OnWire
  BY <1>1 DEF OnWire
<1>3. m.call \in Calls \cup {Nothing} /\ executed' = executed \cup ({m.call} \ {Nothing})
  BY <1>1 DEF IedServes, Messages
<1>4. LinkTypeOK'
  BY <1>1, <1>3 DEF IedServes, LinkTypeOK, ids
<1>5. Connected'
  BY DEF IedServes, Connected
<1>6. IdsFresh'
  BY <1>2 DEF IedServes, IdsFresh
<1>7. RelaysMatch'
  BY <1>2 DEF IedServes, RelaysMatch, Coming
<1>8. RepliesServed'
  BY <1>1, <1>3 DEF IedServes, RepliesServed
<1>9. UnsentNowhere'
  BY <1>1, <1>3 DEF IedServes, UnsentNowhere
<1>10. AnswersTrue'
  <2>1. executed \subseteq executed' /\ told' = told
    BY <1>3 DEF IedServes
  <2>2. \A c \in Calls : told[c] = "unreachable" => c \notin executed'
    BY <1>9, <2>1 DEF UnsentNowhere
  <2>3. QED
    BY <2>1, <2>2 DEF AnswersTrue
<1>11. QED
  BY <1>4, <1>5, <1>6, <1>7, <1>8, <1>9, <1>10

LEMMA ConnectionDiesKeeps == LinkIInv /\ ConnectionDies => LinkIInv'
<1> SUFFICES ASSUME LinkIInv, ConnectionDies PROVE LinkIInv'
  OBVIOUS
<1> USE DEF LinkIInv, ConnectionDies
<1>1. OnWire' = {} /\ Elements(fromIed') = {} /\ Elements(toIed') = {}
  BY ElementsEmpty DEF OnWire
<1>2. LinkTypeOK'
  BY DEF LinkTypeOK, ids
<1>3. Connected'
  BY DEF Connected
<1>4. IdsFresh'
  BY <1>1 DEF IdsFresh
<1>5. RelaysMatch'
  BY <1>1 DEF RelaysMatch, Coming
<1>6. RepliesServed' /\ UnsentNowhere' /\ AnswersTrue'
  BY <1>1 DEF RepliesServed, UnsentNowhere, AnswersTrue
<1>7. QED
  BY <1>2, <1>3, <1>4, <1>5, <1>6

LEMMA ConnectKeeps == LinkIInv /\ Connect => LinkIInv'
<1> SUFFICES ASSUME LinkIInv, Connect PROVE LinkIInv'
  OBVIOUS
<1> USE DEF LinkIInv, Connect
<1> DEFINE m == Own(1, "get-model")
<1>1. m \in Messages /\ m.id = 1 /\ m.call = Nothing
  BY DEF Own, Messages
<1>2. /\ toIed' \in Seq(Messages) /\ fromIed' \in Seq(Messages)
      /\ Elements(toIed') = {m} /\ Elements(fromIed') = {}
  BY <1>1, ElementsEmpty DEF Elements
<1>3. OnWire' = {m}
  BY <1>2 DEF OnWire
<1>4. session \in Nat /\ session' = session + 1 /\ session' \in Sessions /\ replies' = replies
  BY LinkAssumption DEF LinkTypeOK, Sessions
<1>5. LinkTypeOK'
  BY <1>2, <1>4, LinkAssumption DEF LinkTypeOK, Sessions
<1>6. Connected'
  BY <1>4 DEF Connected
<1>7. relays' = relays /\ \A r \in relays : r.session \in Sessions /\ r.session <= session
  BY DEF IdsFresh, LinkTypeOK, Relays
<1>8. IdsFresh'
  <2>1. \A s \in Sessions : s >= session' => replies'[s] = {}
    BY <1>4 DEF IdsFresh, Sessions
  <2>2. \A r \in relays' : r.session < session'
    BY <1>4, <1>7 DEF Sessions
  <2>3. \A k \in OnWire' : k.id < nextId'
    BY <1>1, <1>3
  <2>4. QED
    BY <1>4, <1>7, <2>1, <2>2, <2>3 DEF IdsFresh, Sessions
<1>9. RelaysMatch'
  <2>1. \A r \in relays' : r.session # session' /\ Coming(r.session)' \subseteq Coming(r.session)
    BY <1>4, <1>7 DEF Coming, Sessions
  <2>2. QED
    BY <1>7, <2>1 DEF RelaysMatch
<1>10. RepliesServed'
  BY <1>2 DEF RepliesServed
<1>11. UnsentNowhere'
  BY <1>1, <1>2, LinkAssumption DEF UnsentNowhere
<1>12. AnswersTrue'
  BY DEF AnswersTrue
<1>13. QED
  BY <1>5, <1>6, <1>8, <1>9, <1>10, <1>11, <1>12

LEMMA StayDisconnectedKeeps == LinkIInv /\ StayDisconnected => LinkIInv'
BY DEF LinkIInv, StayDisconnected, wire, ids, LinkTypeOK, Connected, IdsFresh, RelaysMatch,
       RepliesServed, UnsentNowhere, AnswersTrue, OnWire, Coming

LEMMA DisconnectKeeps == LinkIInv /\ Disconnect => LinkIInv'
<1> SUFFICES ASSUME LinkIInv, Disconnect PROVE LinkIInv'
  OBVIOUS
<1> USE DEF LinkIInv, Disconnect, wire
<1>1. OnWire' = OnWire
  BY DEF OnWire
<1>2. LinkTypeOK' /\ Connected'
  BY DEF LinkTypeOK, Connected, NoId
<1>3. IdsFresh' /\ RelaysMatch'
  BY <1>1 DEF IdsFresh, RelaysMatch, Coming
<1>4. RepliesServed' /\ UnsentNowhere' /\ AnswersTrue'
  BY DEF RepliesServed, UnsentNowhere, AnswersTrue
<1>5. QED
  BY <1>2, <1>3, <1>4

LEMMA ForwardKeeps == ASSUME NEW c \in Calls PROVE LinkIInv /\ Forward(c) => LinkIInv'
<1> SUFFICES ASSUME LinkIInv, Forward(c) PROVE LinkIInv'
  OBVIOUS
<1> USE DEF LinkIInv, Forward
<1> DEFINE m == [id |-> nextId, kind |-> "control", call |-> c]
           relay == [call |-> c, session |-> session, id |-> nextId, age |-> 0]
<1>1. m \in Messages /\ m.id = nextId /\ m.call = c /\ nextId \in Nat
  BY DEF LinkTypeOK, Messages
<1>2. toIed' \in Seq(Messages) /\ Elements(toIed') \subseteq Elements(toIed) \cup {m}
  BY <1>1, ElementsAppend DEF LinkTypeOK
<1>3. fromIed' = fromIed /\ OnWire' \subseteq OnWire \cup {m}
  BY <1>2 DEF OnWire
<1>4. session \in Sessions /\ session \in Nat
  BY DEF Connected, LinkTypeOK
<1>5. relay \in Relays /\ relays' = relays \cup {relay}
  BY <1>1, <1>4, LinkAssumption DEF Relays
<1>6. LinkTypeOK'
  BY <1>1, <1>2, <1>5 DEF LinkTypeOK, ids
<1>7. Connected'
  BY DEF Connected
<1>8. /\ \A k \in OnWire : k \in Messages /\ k.id < nextId
      /\ \A k \in replies[session] : k \in Messages /\ k.id < nextId
  BY <1>4, ElementsTyped DEF IdsFresh, OnWire, LinkTypeOK
<1>9. IdsFresh'
  <2>1. \A k \in OnWire' : k.id < nextId'
    BY <1>1, <1>3, <1>8 DEF Messages
  <2>2. \A k \in replies[session] : k.id < nextId'
    BY <1>1, <1>8 DEF Messages
  <2>3. \A r \in relays' : r.session <= session' /\ (r.session = session' => r.id < nextId')
    BY <1>1, <1>4, <1>5 DEF IdsFresh, LinkTypeOK, Relays
  <2>4. QED
    BY <2>1, <2>2, <2>3 DEF IdsFresh
<1>10. RelaysMatch'
  <2>1. ASSUME NEW r \in relays, NEW k \in Coming(r.session)', k.id = r.id PROVE k.call = r.call
    <3>1. CASE k \in Coming(r.session)
      BY <2>1, <3>1 DEF RelaysMatch
    <3>2. CASE k = m /\ r.session = session
      BY <1>1, <2>1, <3>2 DEF IdsFresh, LinkTypeOK, Relays
    <3>3. QED
      BY <1>3, <2>1, <3>1, <3>2 DEF Coming
  <2>2. ASSUME NEW k \in Coming(session)', k.id = nextId PROVE k.call = c
    BY <1>1, <1>3, <1>8, <2>2 DEF Coming, Messages
  <2>3. QED
    BY <1>5, <2>1, <2>2 DEF RelaysMatch
<1>11. RepliesServed'
  BY <1>3 DEF RepliesServed
<1>12. UnsentNowhere'
  <2>1. told'[c] = "wait" /\ \A d \in Calls : d # c => told'[d] = told[d]
    BY DEF LinkTypeOK
  <2>2. ASSUME NEW d \in Calls, told'[d] \in {"nothing", "unreachable"}
        PROVE  d # c /\ d \notin executed' /\ \A k \in Elements(toIed') : k.call # d
    BY <1>1, <1>2, <2>1, <2>2 DEF UnsentNowhere
  <2>3. QED
    BY <2>2 DEF UnsentNowhere
<1>13. AnswersTrue'
  BY LinkAssumption DEF AnswersTrue, LinkTypeOK
<1>14. QED
  BY <1>6, <1>7, <1>9, <1>10, <1>11, <1>12, <1>13

LEMMA RefuseKeeps == ASSUME NEW c \in Calls PROVE LinkIInv /\ Refuse(c) => LinkIInv'
<1> SUFFICES ASSUME LinkIInv, Refuse(c) PROVE LinkIInv'
  OBVIOUS
<1> USE DEF LinkIInv, Refuse, wire, ids
<1>1. OnWire' = OnWire
  BY DEF OnWire
<1>2. LinkTypeOK' /\ Connected'
  BY DEF LinkTypeOK, Connected
<1>3. IdsFresh' /\ RelaysMatch' /\ RepliesServed'
  BY <1>1 DEF IdsFresh, RelaysMatch, Coming, RepliesServed
<1>4. told[c] = "nothing" /\ told'[c] = "unreachable" /\ \A d \in Calls : d # c => told'[d] = told[d]
  BY DEF LinkTypeOK
<1>5. UnsentNowhere'
  BY <1>4 DEF UnsentNowhere
<1>6. AnswersTrue'
  <2>1. "unreachable" \notin Calls /\ c \notin executed
    BY <1>4, LinkAssumption DEF UnsentNowhere
  <2>2. QED
    BY <1>4, <2>1 DEF AnswersTrue
<1>7. QED
  BY <1>2, <1>3, <1>5, <1>6

\* What a poll does to the queues and to the reply tables.
LEMMA PollEffect ==
    ASSUME LinkIInv, Poll
    PROVE  /\ LinkTypeOK' /\ session' = session /\ session \in Sessions
           /\ relays' = relays /\ told' = told /\ executed' = executed /\ conn' = conn
           /\ nextId' >= nextId
           /\ Elements(fromIed') \subseteq Elements(fromIed)
           /\ \A m \in Elements(toIed') :
                m \in Elements(toIed) \/ (m.id = nextId /\ m.call = Nothing /\ nextId' = nextId + 1)
           /\ \A s \in Sessions \ {session} : replies'[s] = replies[s]
           /\ replies'[session] \subseteq replies[session] \cup Elements(fromIed)
<1> USE DEF LinkIInv
<1>1. session \in Sessions
  BY DEF Poll, Connected
<1>2. PICK n \in 0 .. Len(fromIed) :
         LET arrived == [replies EXCEPT ![session] = @ \cup {fromIed[i] : i \in 1 .. n}]
         IN  /\ fromIed' = SubSeq(fromIed, n + 1, Len(fromIed))
             /\ received' = received \cup ({fromIed[i].call : i \in 1 .. n} \ {Nothing})
             /\ IF modelId # NoId THEN LearnModel(arrived) ELSE MaybeResync(arrived)
  BY DEF Poll
<1> DEFINE got == {fromIed[i] : i \in 1 .. n}
           arrived == [replies EXCEPT ![session] = @ \cup got]
<1>3. /\ fromIed' \in Seq(Messages) /\ Elements(fromIed') \subseteq Elements(fromIed)
      /\ got \subseteq Elements(fromIed) /\ got \subseteq Messages
  BY <1>2, ElementsSplit, ElementsTyped DEF LinkTypeOK
<1>4. received' \in SUBSET Calls
  <2>1. \A i \in 1 .. n : fromIed[i] \in got
    OBVIOUS
  <2>2. \A i \in 1 .. n : fromIed[i].call \in Calls \cup {Nothing}
    BY <1>3, <2>1 DEF Messages
  <2>3. QED
    BY <1>2, <2>2 DEF LinkTypeOK
<1>5. /\ arrived \in [Sessions -> SUBSET Messages]
      /\ \A s \in Sessions \ {session} : arrived[s] = replies[s]
      /\ arrived[session] = replies[session] \cup got
  BY <1>1, <1>3 DEF LinkTypeOK
<1> HIDE DEF got, arrived
<1>6. nextId \in Nat \ {0} /\ \A kind \in {"subscribe", "read"} :
        /\ Own(nextId, kind) \in Messages
        /\ Own(nextId, kind).id = nextId /\ Own(nextId, kind).call = Nothing
  BY DEF LinkTypeOK, Own, Messages
<1>7. \A kind \in {"subscribe", "read"} : Send(kind) =>
        /\ toIed' \in Seq(Messages) /\ nextId' \in Nat \ {0} /\ nextId' >= nextId
        /\ \A m \in Elements(toIed') :
             m \in Elements(toIed) \/ (m.id = nextId /\ m.call = Nothing /\ nextId' = nextId + 1)
  BY <1>6, ElementsAppend DEF LinkTypeOK, Send
<1>8. UNCHANGED <<toIed, nextId>> =>
        /\ toIed' \in Seq(Messages) /\ nextId' \in Nat \ {0} /\ nextId' >= nextId
        /\ \A m \in Elements(toIed') : m \in Elements(toIed)
  BY <1>6 DEF LinkTypeOK
<1> DEFINE Kept == /\ replies' \in [Sessions -> SUBSET Messages]
                   /\ \A s \in Sessions \ {session} : replies'[s] = arrived[s]
                   /\ replies'[session] \subseteq arrived[session]
<1>9. CASE LearnModel(arrived)
  <2>1. Kept
    BY <1>1, <1>5, <1>9 DEF LearnModel
  <2>2. /\ modelId' \in Nat /\ resyncId' \in Nat /\ sinceResync' \in 0 .. ResyncInterval
        /\ reads' \in 0 .. MaxReads
    BY <1>9 DEF LearnModel, LinkTypeOK, NoId
  <2>3. Send("subscribe") \/ UNCHANGED <<toIed, nextId>>
    BY <1>9 DEF LearnModel
  <2>4. QED
    BY <1>1, <1>3, <1>4, <1>5, <1>7, <1>8, <2>1, <2>2, <2>3 DEF Poll, LinkTypeOK
<1>10. CASE MaybeResync(arrived)
  <2>1. Kept
    BY <1>1, <1>5, <1>10 DEF MaybeResync
  <2>2. /\ modelId' \in Nat /\ resyncId' \in Nat /\ sinceResync' \in 0 .. ResyncInterval
        /\ reads' \in 0 .. MaxReads
    BY <1>10, <1>6, LinkAssumption DEF MaybeResync, LinkTypeOK, NoId
  <2>3. Send("read") \/ UNCHANGED <<toIed, nextId>>
    BY <1>10 DEF MaybeResync
  <2>4. QED
    BY <1>1, <1>3, <1>4, <1>5, <1>7, <1>8, <2>1, <2>2, <2>3 DEF Poll, LinkTypeOK
<1>11. QED
  BY <1>2, <1>9, <1>10 DEF got, arrived

LEMMA PollKeeps == LinkIInv /\ Poll => LinkIInv'
<1> SUFFICES ASSUME LinkIInv, Poll PROVE LinkIInv'
  OBVIOUS
<1> USE PollEffect DEF LinkIInv
<1>1. nextId \in Nat /\ nextId' \in Nat /\ session \in Nat
  BY DEF LinkTypeOK
<1>2. /\ \A k \in OnWire : k \in Messages /\ k.id < nextId /\ k.id \in Nat
      /\ \A k \in replies[session] : k \in Messages /\ k.id < nextId /\ k.id \in Nat
  <2>1. \A k \in OnWire : k \in Messages /\ k.id < nextId
    BY ElementsTyped DEF IdsFresh, OnWire, LinkTypeOK
  <2>2. \A k \in replies[session] : k \in Messages /\ k.id < nextId
    BY DEF IdsFresh, LinkTypeOK
  <2>3. QED
    BY <2>1, <2>2 DEF Messages
<1>3. \A k \in OnWire' : k \in OnWire \/ (k.id = nextId /\ k.call = Nothing /\ nextId' = nextId + 1)
  BY DEF OnWire
<1>4. \A k \in Coming(session)' :
        k \in Coming(session) \/ (k.id = nextId /\ k.call = Nothing /\ nextId' = nextId + 1)
  BY <1>3 DEF Coming, OnWire
<1>5. \A s \in Sessions \ {session} : Coming(s)' = Coming(s)
  BY DEF Coming
<1>6. Connected'
  BY DEF Connected
<1>7. IdsFresh'
  <2>1. \A k \in Coming(session)' : k.id < nextId'
    BY <1>1, <1>2, <1>4 DEF Coming
  <2>2. \A r \in relays : r.session <= session /\ (r.session = session => r.id < nextId')
    BY <1>1 DEF IdsFresh, LinkTypeOK, Relays
  <2>3. \A s \in Sessions : s > session => replies'[s] = {}
    BY <1>1 DEF IdsFresh
  <2>4. QED
    BY <2>1, <2>2, <2>3 DEF IdsFresh, Coming
<1>8. RelaysMatch'
  <2>1. ASSUME NEW r \in relays, NEW k \in Coming(r.session)', k.id = r.id PROVE k.call = r.call
    <3>1. r.session \in Sessions /\ r.id \in Nat /\ (r.session = session => r.id < nextId)
      BY DEF IdsFresh, LinkTypeOK, Relays
    <3>2. k \in Coming(r.session)
      BY <1>1, <1>4, <1>5, <2>1, <3>1
    <3>3. QED
      BY <2>1, <3>2 DEF RelaysMatch
  <2>2. QED
    BY <2>1 DEF RelaysMatch
<1>9. RepliesServed'
  BY DEF RepliesServed
<1>10. UnsentNowhere'
  BY LinkAssumption DEF UnsentNowhere
<1>11. AnswersTrue'
  BY DEF AnswersTrue
<1>12. QED
  BY <1>6, <1>7, <1>8, <1>9, <1>10, <1>11

LEMMA RelayRepliesKeeps == LinkIInv /\ RelayReplies => LinkIInv'
<1> SUFFICES ASSUME LinkIInv, RelayReplies PROVE LinkIInv'
  OBVIOUS
<1> USE DEF LinkIInv
<1> DEFINE answered == {r \in relays : RelayReply(r) # {}}
           expired == {r \in relays \ answered : Expired(r)}
           left == relays \ (answered \cup expired)
           Word(c) == IF \E r \in answered : r.call = c
                      THEN (CHOOSE m \in RelayReply(CHOOSE r \in answered : r.call = c) : TRUE).call
                      ELSE IF \E r \in expired : r.call = c THEN "timeout" ELSE told[c]
<1>1. /\ told' = [c \in Calls |-> Word(c)]
      /\ relays' = {[r EXCEPT !.age = Later(@)] : r \in left}
      /\ \A s \in Sessions : replies'[s] \subseteq replies[s]
      /\ replies' \in [Sessions -> SUBSET Messages]
  BY DEF RelayReplies, LinkTypeOK
<1>2. session' = session /\ nextId' = nextId /\ toIed' = toIed /\ fromIed' = fromIed
      /\ executed' = executed /\ conn' = conn
  BY DEF RelayReplies, wire
<1>3. OnWire' = OnWire /\ \A s \in Sessions : Coming(s)' \subseteq Coming(s)
  BY <1>1, <1>2 DEF OnWire, Coming
<1>4. ASSUME NEW q \in relays'
      PROVE  q \in Relays /\ \E r \in relays : q.session = r.session /\ q.id = r.id /\ q.call = r.call
  <2>1. PICK r \in left : q = [r EXCEPT !.age = Later(@)]
    BY <1>1
  <2>2. r \in relays /\ r \in Relays /\ Later(r.age) \in 0 .. RelayTimeout + 1
    BY LinkAssumption DEF LinkTypeOK, Relays, Later
  <2>3. QED
    BY <2>1, <2>2 DEF Relays
<1>5. ASSUME NEW c \in Calls, \E r \in answered : r.call = c
      PROVE  told'[c] = c /\ c \in executed
  <2> DEFINE r == CHOOSE x \in answered : x.call = c
             m == CHOOSE x \in RelayReply(r) : TRUE
  <2>1. r \in answered /\ r.call = c
    BY <1>5
  <2>2. r \in relays /\ RelayReply(r) # {} /\ r.session \in Sessions
    BY <2>1 DEF LinkTypeOK, Relays
  <2>3. m \in RelayReply(r)
    BY <2>2
  <2>4. told'[c] = m.call
    BY <1>1, <1>5
  <2> HIDE DEF r, m
  <2>5. m \in replies[r.session] /\ m.id = r.id
    BY <2>3 DEF RelayReply, ReplyTo
  <2>6. m.call = c
    BY <2>1, <2>2, <2>5 DEF RelaysMatch, Coming
  <2>7. c \in executed
    BY <2>2, <2>5, <2>6, LinkAssumption DEF RepliesServed
  <2>8. QED
    BY <2>4, <2>6, <2>7
<1>6. ASSUME NEW c \in Calls, ~ \E r \in answered : r.call = c
      PROVE  told'[c] = told[c] \/ told'[c] = "timeout"
  BY <1>1, <1>6
<1>7. LinkTypeOK'
  <2>1. \A c \in Calls : told'[c] \in {"nothing", "wait", "unreachable", "timeout"} \cup Calls
    BY <1>5, <1>6 DEF LinkTypeOK
  <2>2. sinceResync' \in 0 .. ResyncInterval
    BY LinkAssumption DEF RelayReplies, LinkTypeOK
  <2>3. relays' \in SUBSET Relays
    BY <1>4
  <2>4. QED
    BY <1>1, <1>2, <2>1, <2>2, <2>3 DEF RelayReplies, LinkTypeOK
<1>8. Connected'
  BY <1>2 DEF Connected
<1>9. IdsFresh'
  <2>1. \A s \in Sessions : s > session => replies'[s] = {}
    BY <1>1 DEF IdsFresh
  <2>2. \A s \in Sessions : s = session => \A m \in replies'[s] : m.id < nextId
    BY <1>1 DEF IdsFresh
  <2>3. \A q \in relays' : q.session <= session /\ (q.session = session => q.id < nextId)
    BY <1>4 DEF IdsFresh
  <2>4. QED
    BY <1>2, <1>3, <2>1, <2>2, <2>3 DEF IdsFresh
<1>10. RelaysMatch'
  BY <1>3, <1>4 DEF RelaysMatch, Relays
<1>11. RepliesServed'
  BY <1>1, <1>2 DEF RepliesServed
<1>12. UnsentNowhere' /\ AnswersTrue'
  <2>1. ASSUME NEW c \in Calls, told'[c] \in {"nothing", "unreachable"} PROVE told'[c] = told[c]
    BY <1>5, <1>6, <2>1, LinkAssumption
  <2>2. UnsentNowhere'
    BY <1>2, <2>1 DEF UnsentNowhere
  <2>3. ASSUME NEW c \in Calls, told'[c] \in Calls PROVE told'[c] = c /\ c \in executed
    BY <1>5, <1>6, <2>3, LinkAssumption DEF AnswersTrue
  <2>4. QED
    BY <1>2, <2>2, <2>3 DEF UnsentNowhere, AnswersTrue
<1>13. QED
  BY <1>7, <1>8, <1>9, <1>10, <1>11, <1>12

\* IInv is inductive: every step of the link preserves it.
THEOREM LinkInvariant == LinkSpec => []LinkIInv
<1>1. LinkIInv /\ [LinkNext]_linkVars => LinkIInv'
  BY StutterKeeps, IedServesKeeps, ConnectionDiesKeeps, ConnectKeeps, StayDisconnectedKeeps,
     DisconnectKeeps, PollKeeps, ForwardKeeps, RefuseKeeps, RelayRepliesKeeps DEF LinkNext, TickIeds
<1>2. QED
  BY InitEstablishes, <1>1, PTL DEF LinkSpec

\* Every variable of the link keeps its type.
THEOREM LinkTypes == LinkSpec => []LinkTypeOK
BY LinkInvariant, PTL DEF LinkIInv

\* forwardControl, relayControlReplies: whoever is told a result is told the
\* IED's own result of his call, and who is told that his call could not be
\* made never sees it executed.
THEOREM AnswersAreTrue == LinkSpec => []AnswersTrue
BY LinkInvariant, PTL DEF LinkIInv
=============================================================================
