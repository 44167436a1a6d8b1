----------------------- MODULE CommSupervision_proof -----------------------
(***************************************************************************)
(* Proofs about CommSupervision, for every reconnect interval, staleness   *)
(* limit and tick length.                                                  *)
(*                                                                         *)
(* The argument for the COMM alarm: where it is not active, a connection   *)
(* that broke was working at the last tick; one that is dead was working   *)
(* at the last attempt; and no tick lets more than ReconnectInterval go by *)
(* after an attempt without making another one, which ends in a connection *)
(* or in the alarm.                                                        *)
(***************************************************************************)
EXTENDS CommSupervision, TLAPS

Conns == {"none", "up", "broken", "dead"}
Qualities == {"unlearned", "invalid", "good", "stale"}

\* The COMM alarm and the connection.
AlarmInv ==
    /\ Active(list, COMM) => conn \in {"none", "dead"}
    /\ conn = "up" => lostFor = 0
    /\ ~ Active(list, COMM) /\ conn \in {"none", "broken"} => lostFor <= sinceTick
    /\ ~ Active(list, COMM) /\ conn = "none" => sinceAttempt = Never
    /\ ~ Active(list, COMM) /\ conn = "dead" =>
         /\ sinceAttempt # Never /\ sinceAttempt < ReconnectInterval => lostFor <= sinceAttempt
         /\ lostFor <= ReconnectInterval + sinceTick
    /\ conn \in {"up", "broken", "dead"} => sinceAttempt # Never

\* The quality of the points and the GOOSE datagrams.
GooseInv ==
    connOk /\ quality = "good" /\ conn = "up" =>
        silence # Never /\ silence <= StaleAfter + sinceTick

IInv == TypeOK /\ AlarmInv /\ GooseInv
-----------------------------------------------------------------------------
LEMMA EntryCases ==
    ASSUME NEW l \in AlarmLists, NEW id \in AlarmIds
    PROVE  \/ l[id] = NoAlarm /\ ~ Active(l, id)
           \/ l[id] \in Entries /\ (Active(l, id) <=> l[id].active)
  <1>1. l[id] = NoAlarm \/ l[id] \in Entries
    BY DEF AlarmLists
  <1>2. CASE l[id] = NoAlarm
    BY <1>2, Zenon DEF Active, Listed
  <1>3. CASE l[id] \in Entries
    BY <1>3, AlarmAssumption, Zenon DEF Active, Listed
  <1>4. QED
    BY <1>1, <1>2, <1>3

\* The records raise, clear and ack put into the list.
LEMMA EntryRecords ==
    /\ \A e : e = [active |-> TRUE, acked |-> TRUE] => e \in Entries /\ e.active
    /\ \A e : e = [active |-> TRUE, acked |-> FALSE] => e \in Entries /\ e.active
    /\ \A e : e = [active |-> FALSE, acked |-> FALSE] => e \in Entries /\ ~ e.active
  <1>1. ASSUME NEW e, e = [active |-> TRUE, acked |-> TRUE] PROVE e \in Entries /\ e.active
    BY <1>1 DEF Entries
  <1>2. ASSUME NEW e, e = [active |-> TRUE, acked |-> FALSE] PROVE e \in Entries /\ e.active
    BY <1>2 DEF Entries
  <1>3. ASSUME NEW e, e = [active |-> FALSE, acked |-> FALSE] PROVE e \in Entries /\ ~ e.active
    BY <1>3 DEF Entries
  <1>4. QED
    BY <1>1, <1>2, <1>3, Zenon

\* An entry that is replaced by a record is active as the record says.
LEMMA PutEffect ==
    ASSUME NEW l \in AlarmLists, NEW id \in AlarmIds, NEW e \in Entries \cup {NoAlarm},
           NEW new, new = [l EXCEPT ![id] = e]
    PROVE  /\ new \in AlarmLists
           /\ new[id] = e
           /\ \A k \in AlarmIds \ {id} : Active(new, k) <=> Active(l, k)
  <1>1. new \in AlarmLists /\ new[id] = e
    BY DEF AlarmLists
  <1>2. \A k \in AlarmIds \ {id} : new[k] = l[k]
    BY DEF AlarmLists
  <1>3. QED
    BY <1>1, <1>2, Zenon DEF Active, Listed

LEMMA RaiseEffect ==
    ASSUME NEW l \in AlarmLists, NEW id \in AlarmIds
    PROVE  /\ Raise(l, id) \in AlarmLists
           /\ Active(Raise(l, id), id)
           /\ \A k \in AlarmIds \ {id} : Active(Raise(l, id), k) <=> Active(l, k)
  <1>1. CASE Active(l, id)
    <2>1. Raise(l, id) = l
      BY <1>1, Zenon DEF Raise
    <2>2. QED
      BY <1>1, <2>1, Zenon
  <1>2. CASE ~ Active(l, id)
    <2> DEFINE e == [active |-> TRUE, acked |-> Acked(l, id)]
    <2>1. Raise(l, id) = [l EXCEPT ![id] = e]
      BY <1>2, Zenon DEF Raise
    <2>2. e = [active |-> TRUE, acked |-> TRUE] \/ e = [active |-> TRUE, acked |-> FALSE]
      <3>1. l[id] = NoAlarm \/ l[id] \in Entries
        BY EntryCases
      <3>2. CASE l[id] \in Entries
        <4>1. l[id].acked = TRUE \/ l[id].acked = FALSE
          BY <3>2 DEF Entries
        <4>2. Acked(l, id) = TRUE \/ Acked(l, id) = FALSE
          BY <4>1, Zenon DEF Acked
        <4>3. QED
          BY <4>2, Zenon
      <3>3. CASE l[id] = NoAlarm
        <4>1. Acked(l, id) = FALSE
          BY <3>3, Zenon DEF Acked, Listed
        <4>2. QED
          BY <4>1, Zenon
      <3>4. QED
        BY <3>1, <3>2, <3>3
    <2>3. e \in Entries /\ e.active
      BY <2>2, EntryRecords, Zenon
    <2> HIDE DEF e
    <2>a. e \in Entries \cup {NoAlarm}
      BY <2>3
    <2>4. /\ Raise(l, id) \in AlarmLists
          /\ Raise(l, id)[id] = e
          /\ \A k \in AlarmIds \ {id} : Active(Raise(l, id), k) <=> Active(l, k)
      BY <2>1, <2>a, PutEffect
    <2>5. Active(Raise(l, id), id)
      BY <2>3, <2>4, AlarmAssumption, Zenon DEF Active, Listed
    <2>6. QED
      BY <2>4, <2>5, Zenon
  <1>3. QED
    BY <1>1, <1>2, Zenon

LEMMA ClearEffect ==
    ASSUME NEW l \in AlarmLists, NEW id \in AlarmIds
    PROVE  /\ Clear(l, id) \in AlarmLists
           /\ ~ Active(Clear(l, id), id)
           /\ \A k \in AlarmIds \ {id} : Active(Clear(l, id), k) <=> Active(l, k)
  <1>1. CASE ~ Active(l, id)
    <2>1. Clear(l, id) = l
      BY <1>1, Zenon DEF Clear
    <2>2. QED
      BY <1>1, <2>1, Zenon
  <1>2. CASE Active(l, id)
    <2> DEFINE e == IF Acked(l, id) THEN NoAlarm ELSE [active |-> FALSE, acked |-> FALSE]
    <2>1. Clear(l, id) = [l EXCEPT ![id] = e]
      BY <1>2, Zenon DEF Clear
    <2>2. /\ [active |-> FALSE, acked |-> FALSE] \in Entries
          /\ ~ [active |-> FALSE, acked |-> FALSE].active
      BY EntryRecords, Zenon
    <2>3. e \in Entries \cup {NoAlarm}
      BY <2>2
    <2> HIDE DEF e
    <2>4. /\ Clear(l, id) \in AlarmLists
          /\ Clear(l, id)[id] = e
          /\ \A k \in AlarmIds \ {id} : Active(Clear(l, id), k) <=> Active(l, k)
      BY <2>1, <2>3, PutEffect
    <2> USE DEF e
    <2>5. ~ Active(Clear(l, id), id)
      BY <2>2, <2>4, Zenon DEF Active, Listed
    <2>6. QED
      BY <2>4, <2>5, Zenon
  <1>3. QED
    BY <1>1, <1>2, Zenon

\* An operator changes nothing about what is active.
LEMMA AckEffect ==
    ASSUME NEW l \in AlarmLists, NEW id \in AlarmIds
    PROVE  /\ Ack(l, id) \in AlarmLists
           /\ \A k \in AlarmIds : Active(Ack(l, id), k) <=> Active(l, k)
  <1>1. CASE ~ Listed(l, id)
    <2>1. Ack(l, id) = l
      BY <1>1, Zenon DEF Ack
    <2>2. QED
      BY <2>1, Zenon
  <1>2. CASE Listed(l, id)
    <2> DEFINE e == IF Active(l, id) THEN [active |-> TRUE, acked |-> TRUE] ELSE NoAlarm
    <2>1. Ack(l, id) = [l EXCEPT ![id] = e]
      BY <1>2, Zenon DEF Ack
    <2>2. [active |-> TRUE, acked |-> TRUE] \in Entries /\ [active |-> TRUE, acked |-> TRUE].active
      BY EntryRecords, Zenon
    <2>3. e \in Entries \cup {NoAlarm}
      BY <2>2
    <2> HIDE DEF e
    <2>4. /\ Ack(l, id) \in AlarmLists
          /\ Ack(l, id)[id] = e
          /\ \A k \in AlarmIds \ {id} : Active(Ack(l, id), k) <=> Active(l, k)
      BY <2>1, <2>3, PutEffect
    <2> USE DEF e
    <2>5. Active(Ack(l, id), id) <=> Active(l, id)
      BY <2>2, <2>4, AlarmAssumption, Zenon DEF Active, Listed
    <2>6. QED
      BY <2>4, <2>5, Zenon
  <1>3. QED
    BY <1>1, <1>2, Zenon
-----------------------------------------------------------------------------
\* The five things tickIeds can do, in terms of the alarm and the last attempt.
Handled(c, since, li) ==
    \/ conn = "up" /\ c = "up" /\ li = list /\ since = sinceAttempt
    \/ conn = "broken" /\ c = "none" /\ Active(li, COMM) /\ since = sinceAttempt
    \/ conn \in {"none", "dead"} /\ c = "up" /\ ~ Active(li, COMM) /\ since = 0
    \/ conn \in {"none", "dead"} /\ c = conn /\ Active(li, COMM) /\ since = 0
    \/ /\ conn \in {"none", "dead"} /\ c = conn /\ li = list /\ since = sinceAttempt
       /\ since # Never /\ since < ReconnectInterval

Outcome(r) ==
    \E c \in Conns, a \in BOOLEAN, ok \in BOOLEAN, q \in Qualities,
       since \in Nat \cup {Never}, li \in AlarmLists :
      r = Left(c, a, ok, q, since, li) /\ Handled(c, since, li)

LEMMA ToldType ==
    ASSUME NEW q \in Qualities, NEW news \in News
    PROVE  Told(q, news) \in Qualities
  BY DEF Told, News, Qualities

LEMMA TickIedsEffect ==
    ASSUME TypeOK, NEW connects \in BOOLEAN, NEW replied \in BOOLEAN, NEW news \in News
    PROVE  Outcome(TickIeds(connects, replied, news))
  <1> USE DEF Outcome
  <1>1. /\ conn \in Conns /\ asked \in BOOLEAN /\ connOk \in BOOLEAN
        /\ quality \in Qualities /\ sinceAttempt \in Nat \cup {Never}
        /\ list \in AlarmLists /\ COMM \in AlarmIds
    BY SupervisionAssumption DEF TypeOK, Conns, Qualities
  <1>2. 0 \in Nat \cup {Never} /\ "none" \in Conns /\ "up" \in Conns
    BY DEF Conns
  <1>3. CASE conn = "up"
    <2> DEFINE a == asked /\ ~ (asked /\ replied)
               ok == connOk \/ (asked /\ replied)
               q == Told(IF asked /\ replied THEN "invalid" ELSE quality, news)
    <2>1. a \in BOOLEAN /\ ok \in BOOLEAN
      BY Zenon
    <2>2. q \in Qualities
      <3>1. (IF asked /\ replied THEN "invalid" ELSE quality) \in Qualities
        BY <1>1 DEF Qualities
      <3>2. QED
        BY <3>1, ToldType
    <2>3. TickIeds(connects, replied, news) = Left(conn, a, ok, q, sinceAttempt, list)
      BY <1>3, Zenon DEF TickIeds, PollIedClient
    <2>4. Handled(conn, sinceAttempt, list)
      BY <1>3, Zenon DEF Handled
    <2>5. QED
      BY <1>1, <2>1, <2>2, <2>3, <2>4, Zenon
  <1>4. CASE conn = "broken"
    <2>1. TickIeds(connects, replied, news)
            = Left("none", FALSE, FALSE, quality, sinceAttempt, Raise(list, COMM))
      BY <1>4, Zenon DEF TickIeds, DisconnectIed
    <2>2. Raise(list, COMM) \in AlarmLists /\ Active(Raise(list, COMM), COMM)
      BY <1>1, RaiseEffect
    <2>3. Handled("none", sinceAttempt, Raise(list, COMM))
      BY <1>4, <2>2, Zenon DEF Handled
    <2>4. QED
      BY <1>1, <1>2, <2>1, <2>2, <2>3, Zenon
  <1>5. CASE conn \in {"none", "dead"} /\ (sinceAttempt = Never \/ sinceAttempt >= ReconnectInterval)
    <2>1. TickIeds(connects, replied, news) = ConnectIed(connects)
      BY <1>5 DEF TickIeds
    <2>2. CASE connects
      <3>1. TickIeds(connects, replied, news)
              = Left("up", TRUE, FALSE, quality, 0, Clear(list, COMM))
        BY <2>1, <2>2, Zenon DEF ConnectIed
      <3>2. Clear(list, COMM) \in AlarmLists /\ ~ Active(Clear(list, COMM), COMM)
        BY <1>1, ClearEffect
      <3>3. Handled("up", 0, Clear(list, COMM))
        BY <1>5, <3>2, Zenon DEF Handled
      <3>4. QED
        BY <1>1, <1>2, <3>1, <3>2, <3>3, Zenon
    <2>3. CASE ~ connects
      <3>1. TickIeds(connects, replied, news)
              = Left(conn, asked, connOk, quality, 0, Raise(list, COMM))
        BY <2>1, <2>3, Zenon DEF ConnectIed
      <3>2. Raise(list, COMM) \in AlarmLists /\ Active(Raise(list, COMM), COMM)
        BY <1>1, RaiseEffect
      <3>3. Handled(conn, 0, Raise(list, COMM))
        BY <1>5, <3>2, Zenon DEF Handled
      <3>4. QED
        BY <1>1, <1>2, <3>1, <3>2, <3>3, Zenon
    <2>4. QED
      BY <2>2, <2>3
  <1>6. CASE conn \in {"none", "dead"} /\ sinceAttempt # Never /\ ~ (sinceAttempt >= ReconnectInterval)
    <2>1. TickIeds(connects, replied, news)
            = Left(conn, asked, connOk, quality, sinceAttempt, list)
      BY <1>6 DEF TickIeds
    <2>2. sinceAttempt < ReconnectInterval
      BY <1>1, <1>6, SupervisionAssumption DEF Never
    <2>3. Handled(conn, sinceAttempt, list)
      BY <1>6, <2>2, Zenon DEF Handled
    <2>4. QED
      BY <1>1, <2>1, <2>3, Zenon
  <1>7. QED
    BY <1>1, <1>3, <1>4, <1>5, <1>6 DEF Conns

LEMMA LeftFields ==
    ASSUME NEW c, NEW a, NEW ok, NEW q, NEW since, NEW li, NEW l,
           l = Left(c, a, ok, q, since, li)
    PROVE  l.conn = c /\ l.asked = a /\ l.quality = q /\ l.sinceAttempt = since /\ l.list = li
  BY DEF Left

LEMMA LeftConnOk ==
    ASSUME NEW c, NEW a, NEW ok, NEW q, NEW since, NEW li, NEW l,
           l = Left(c, a, ok, q, since, li)
    PROVE  l.connOk = ok
  BY Zenon DEF Left

\* tickGoose touches the quality and the GOOSE alarm only, and leaves no good
\* quality on a connection in order when the IED has not been heard.
LEMMA TickGooseEffect ==
    ASSUME NEW c, NEW a, NEW ok \in BOOLEAN, NEW q \in Qualities, NEW since,
           NEW li \in AlarmLists, NEW age, NEW news \in News
    PROVE  \E q2 \in Qualities, li2 \in AlarmLists :
             /\ TickGoose(Left(c, a, ok, q, since, li), age, news)
                  = Left(c, a, ok, q2, since, li2)
             /\ Active(li2, COMM) <=> Active(li, COMM)
             /\ Stale(age) /\ ok => q2 # "good"
  <1>1. COMM \in AlarmIds \ {GOOSE} /\ GOOSE \in AlarmIds
    BY SupervisionAssumption
  <1>2. PICK l : l = Left(c, a, ok, q, since, li)
    OBVIOUS
  <1>3. l.quality = q /\ l.list = li
    BY <1>2, LeftFields
  <1>4. l.connOk = ok
    BY <1>2, LeftConnOk
  <1>a. \A p, m : /\ [l EXCEPT !.quality = p, !.list = m] = Left(c, a, ok, p, since, m)
                  /\ [l EXCEPT !.quality = p] = Left(c, a, ok, p, since, li)
    <2> TAKE p, m
    <2>1. [l EXCEPT !.quality = p] = Left(c, a, ok, p, since, li)
      BY <1>2 DEF Left
    <2>2. [l EXCEPT !.quality = p, !.list = m] = [[l EXCEPT !.quality = p] EXCEPT !.list = m]
      OBVIOUS
    <2>3. [Left(c, a, ok, p, since, li) EXCEPT !.list = m] = Left(c, a, ok, p, since, m)
      BY DEF Left
    <2>4. QED
      BY <2>1, <2>2, <2>3, Zenon
  <1>5. CASE ~ Stale(age)
    <2>0. TickGoose(l, age, news)
            = [l EXCEPT !.quality = Told(@, news), !.list = Clear(@, GOOSE)]
      BY <1>5, Zenon DEF TickGoose
    <2>1. TickGoose(l, age, news)
            = [l EXCEPT !.quality = Told(q, news), !.list = Clear(li, GOOSE)]
      BY <1>3, <2>0, Zenon
    <2>2. TickGoose(l, age, news) = Left(c, a, ok, Told(q, news), since, Clear(li, GOOSE))
      BY <2>1, <1>a, Zenon
    <2>3. /\ Clear(li, GOOSE) \in AlarmLists
          /\ Active(Clear(li, GOOSE), COMM) <=> Active(li, COMM)
      BY <1>1, ClearEffect
    <2>4. QED
      BY <1>2, <1>5, <2>2, <2>3, ToldType, Zenon
  <1>6. CASE Stale(age) /\ ok
    <2> DEFINE q2 == IF q = "unlearned" THEN q ELSE "stale"
    <2>0. TickGoose(l, age, news)
            = [l EXCEPT !.quality = IF @ = "unlearned" THEN @ ELSE "stale",
                        !.list = Raise(@, GOOSE)]
      BY <1>4, <1>6, Zenon DEF TickGoose
    <2>1. TickGoose(l, age, news) = [l EXCEPT !.quality = q2, !.list = Raise(li, GOOSE)]
      BY <1>3, <2>0, Zenon
    <2>2. q2 \in Qualities /\ q2 # "good"
      BY DEF Qualities
    <2> HIDE DEF q2
    <2>3. TickGoose(l, age, news) = Left(c, a, ok, q2, since, Raise(li, GOOSE))
      BY <2>1, <1>a, Zenon
    <2>4. /\ Raise(li, GOOSE) \in AlarmLists
          /\ Active(Raise(li, GOOSE), COMM) <=> Active(li, COMM)
      BY <1>1, RaiseEffect
    <2>5. QED
      BY <1>2, <2>2, <2>3, <2>4, Zenon
  <1>7. CASE Stale(age) /\ ~ ok
    <2>0. TickGoose(l, age, news) = [l EXCEPT !.quality = Told(@, news)]
      BY <1>4, <1>7, Zenon DEF TickGoose
    <2>1. TickGoose(l, age, news) = [l EXCEPT !.quality = Told(q, news)]
      BY <1>3, <2>0, Zenon
    <2>2. TickGoose(l, age, news) = Left(c, a, ok, Told(q, news), since, li)
      BY <1>a, <2>1, Zenon
    <2>3. QED
      BY <1>2, <1>7, <2>2, ToldType, Zenon
  <1>8. QED
    BY <1>5, <1>6, <1>7, Zenon
-----------------------------------------------------------------------------
\* A tick in terms of the alarm, the last attempt and the quality.
LEMMA TickEffect ==
    ASSUME TypeOK, NEW replied \in BOOLEAN, NEW news \in News, NEW goose \in News,
           Tick(replied, news, goose)
    PROVE  /\ conn' \in Conns /\ asked' \in BOOLEAN /\ connOk' \in BOOLEAN
           /\ quality' \in Qualities /\ sinceAttempt' \in Nat \cup {Never}
           /\ list' \in AlarmLists /\ silence' \in Nat \cup {Never}
           /\ lostFor' = IF conn' = "up" THEN 0 ELSE lostFor
           /\ sinceTick' = 0 /\ reachable' = reachable
           /\ Stale(silence') /\ connOk' => quality' # "good"
           /\ \E li \in AlarmLists :
                /\ Handled(conn', sinceAttempt', li)
                /\ Active(list', COMM) <=> Active(li, COMM)
  <1> DEFINE age == IF goose = "none" THEN silence ELSE 0
             l == TickGoose(TickIeds(reachable, replied, news), age, goose)
  <1>1. reachable \in BOOLEAN
    BY DEF TypeOK
  <1>2. age \in Nat \cup {Never}
    BY DEF TypeOK
  <1>3. /\ conn' = l.conn /\ asked' = l.asked /\ connOk' = l.connOk /\ quality' = l.quality
        /\ sinceAttempt' = l.sinceAttempt /\ list' = l.list /\ silence' = age
        /\ lostFor' = IF l.conn = "up" THEN 0 ELSE lostFor
        /\ sinceTick' = 0 /\ reachable' = reachable
    BY Zenon DEF Tick
  <1>4. PICK c \in Conns, a \in BOOLEAN, ok \in BOOLEAN, q \in Qualities,
             since \in Nat \cup {Never}, li \in AlarmLists :
          /\ TickIeds(reachable, replied, news) = Left(c, a, ok, q, since, li)
          /\ Handled(c, since, li)
    <2>1. TypeOK /\ reachable \in BOOLEAN /\ news \in News
      BY <1>1
    <2>2. Outcome(TickIeds(reachable, replied, news))
      BY <2>1, TickIedsEffect
    <2>3. QED
      BY <2>2, Zenon DEF Outcome
  <1> HIDE DEF age
  <1>5. PICK q2 \in Qualities, li2 \in AlarmLists :
          /\ TickGoose(Left(c, a, ok, q, since, li), age, goose)
               = Left(c, a, ok, q2, since, li2)
          /\ Active(li2, COMM) <=> Active(li, COMM)
          /\ Stale(age) /\ ok => q2 # "good"
    BY TickGooseEffect
  <1>6. l = Left(c, a, ok, q2, since, li2)
    BY <1>4, <1>5, Zenon
  <1> HIDE DEF l
  <1>7. /\ l.conn = c /\ l.asked = a /\ l.quality = q2
        /\ l.sinceAttempt = since /\ l.list = li2
    BY <1>6, LeftFields
  <1>8. l.connOk = ok
    BY <1>6, LeftConnOk
  <1>9. QED
    BY <1>2, <1>3, <1>4, <1>5, <1>7, <1>8, Zenon

LEMMA TypeInit == Init => TypeOK
  <1> SUFFICES ASSUME Init PROVE TypeOK
    OBVIOUS
  <1>1. list \in AlarmLists
    BY DEF Init, NewActiveList, AlarmLists
  <1>2. lostFor \in 0 .. AlarmDelay + 1 /\ sinceTick \in 0 .. MaxTick
    BY SupervisionAssumption DEF Init, AlarmDelay
  <1>3. QED
    BY <1>1, <1>2 DEF Init, TypeOK, Never

LEMMA TypeStep == TypeOK /\ [Next]_vars => TypeOK'
  <1> SUFFICES ASSUME TypeOK, [Next]_vars PROVE TypeOK'
    OBVIOUS
  <1> USE SupervisionAssumption
  <1>1. CASE Advance
    <2>1. lostFor' \in 0 .. AlarmDelay + 1
      BY <1>1 DEF Advance, TypeOK, Later, AlarmDelay
    <2>2. sinceAttempt' \in Nat \cup {Never} /\ silence' \in Nat \cup {Never}
      BY <1>1 DEF Advance, TypeOK, Later, Never
    <2>3. sinceTick' \in 0 .. MaxTick
      BY <1>1 DEF Advance, TypeOK
    <2>4. QED
      BY <1>1, <2>1, <2>2, <2>3 DEF Advance, TypeOK
  <1>2. CASE ReachabilityChanges
    BY <1>2 DEF ReachabilityChanges, TypeOK, link
  <1>3. CASE ConnectionDies
    BY <1>3 DEF ConnectionDies, TypeOK
  <1>4. ASSUME NEW id \in AlarmIds, Acknowledge(id) PROVE TypeOK'
    <2>1. list' \in AlarmLists
      BY <1>4, AckEffect DEF Acknowledge, TypeOK
    <2>2. QED
      BY <1>4, <2>1 DEF Acknowledge, TypeOK, link
  <1>5. ASSUME NEW replied \in BOOLEAN, NEW news \in News, NEW goose \in News,
               Tick(replied, news, goose)
        PROVE  TypeOK'
    <2>1. /\ conn' \in Conns /\ asked' \in BOOLEAN /\ connOk' \in BOOLEAN
          /\ quality' \in Qualities /\ sinceAttempt' \in Nat \cup {Never}
          /\ list' \in AlarmLists /\ silence' \in Nat \cup {Never}
          /\ lostFor' = IF conn' = "up" THEN 0 ELSE lostFor
          /\ sinceTick' = 0 /\ reachable' = reachable
      BY <1>5, TickEffect
    <2>2. lostFor' \in 0 .. AlarmDelay + 1 /\ sinceTick' \in 0 .. MaxTick
      BY <2>1 DEF TypeOK, AlarmDelay
    <2>3. QED
      BY <2>1, <2>2 DEF TypeOK, Conns, Qualities
  <1>6. CASE Restart
    <2>1. list' \in AlarmLists
      BY <1>6 DEF Restart, NewActiveList, AlarmLists
    <2>2. lostFor' \in 0 .. AlarmDelay + 1
      BY <1>6 DEF Restart, AlarmDelay
    <2>3. QED
      BY <1>6, <2>1, <2>2 DEF Restart, TypeOK, Never
  <1>7. CASE UNCHANGED vars
    BY <1>7 DEF vars, TypeOK
  <1>8. QED
    BY <1>1, <1>2, <1>3, <1>4, <1>5, <1>6, <1>7 DEF Next, Calm

\* Type correctness: whatever the connection, the datagrams and the operator
\* do, ticks leave the entry, the list and the qualities well formed.
THEOREM TypeCorrect == Spec => []TypeOK
  <1>1. QED
    BY TypeInit, TypeStep, PTL DEF Spec
-----------------------------------------------------------------------------
LEMMA AlarmInit == Init => AlarmInv
  BY SupervisionAssumption DEF Init, AlarmInv

LEMMA AlarmTick ==
    ASSUME TypeOK, AlarmInv, NEW replied \in BOOLEAN, NEW news \in News, NEW goose \in News,
           Tick(replied, news, goose)
    PROVE  AlarmInv'
  <1>1. /\ lostFor' = IF conn' = "up" THEN 0 ELSE lostFor
        /\ sinceTick' = 0
    BY TickEffect
  <1>2. PICK li \in AlarmLists :
          /\ Handled(conn', sinceAttempt', li)
          /\ Active(list', COMM) <=> Active(li, COMM)
    BY TickEffect
  <1>3. /\ lostFor \in Nat /\ sinceTick \in Nat /\ sinceAttempt \in Nat \cup {Never}
        /\ ReconnectInterval \in Nat
    BY SupervisionAssumption DEF TypeOK, AlarmDelay
  <1>4. CASE conn' = "up"
    BY <1>1, <1>2, <1>3, <1>4 DEF AlarmInv, Handled, Never
  <1>5. CASE conn' # "up" /\ Active(list', COMM)
    BY <1>1, <1>2, <1>3, <1>5 DEF AlarmInv, Handled, Never
  <1>6. CASE conn' # "up" /\ ~ Active(list', COMM)
    <2>1. /\ conn' = conn /\ conn = "dead" /\ sinceAttempt' = sinceAttempt
          /\ sinceAttempt # Never /\ sinceAttempt < ReconnectInterval
          /\ ~ Active(list, COMM)
      BY <1>2, <1>6 DEF AlarmInv, Handled
    <2>2. lostFor <= sinceAttempt
      BY <2>1 DEF AlarmInv
    <2>3. QED
      BY <1>1, <1>3, <1>6, <2>1, <2>2 DEF AlarmInv, Never
  <1>7. QED
    BY <1>4, <1>5, <1>6

LEMMA AlarmStep == TypeOK /\ AlarmInv /\ [Next]_vars => AlarmInv'
  <1> SUFFICES ASSUME TypeOK, AlarmInv, [Next]_vars PROVE AlarmInv'
    OBVIOUS
  <1>1. /\ lostFor \in Nat /\ sinceTick \in Nat /\ sinceAttempt \in Nat \cup {Never}
        /\ ReconnectInterval \in Nat /\ COMM \in AlarmIds
    BY SupervisionAssumption DEF TypeOK, AlarmDelay
  <1>2. CASE Advance
    <2>1. /\ conn' = conn /\ list' = list /\ sinceTick' = sinceTick + 1
          /\ lostFor' <= lostFor + 1
          /\ conn = "up" => lostFor' = 0
          /\ sinceAttempt = Never => sinceAttempt' = Never
          /\ sinceAttempt # Never =>
               /\ sinceAttempt' # Never
               /\ sinceAttempt' < ReconnectInterval =>
                    sinceAttempt < ReconnectInterval /\ sinceAttempt' = sinceAttempt + 1
      BY <1>1, <1>2, SupervisionAssumption DEF Advance, Later, Never, AlarmDelay
    <2>2. lostFor' \in Nat
      BY <1>1, <1>2, SupervisionAssumption DEF Advance, Later, AlarmDelay
    <2>3. QED
      BY <1>1, <2>1, <2>2 DEF AlarmInv
  <1>3. CASE ReachabilityChanges
    BY <1>3 DEF ReachabilityChanges, AlarmInv, link
  <1>4. CASE ConnectionDies
    BY <1>1, <1>4 DEF ConnectionDies, AlarmInv, Never
  <1>5. ASSUME NEW id \in AlarmIds, Acknowledge(id) PROVE AlarmInv'
    <2>1. Active(list', COMM) <=> Active(list, COMM)
      BY <1>1, <1>5, AckEffect DEF Acknowledge, TypeOK
    <2>2. QED
      BY <1>5, <2>1 DEF Acknowledge, AlarmInv, link
  <1>6. ASSUME NEW replied \in BOOLEAN, NEW news \in News, NEW goose \in News,
               Tick(replied, news, goose)
        PROVE  AlarmInv'
    BY <1>6, AlarmTick
  <1>7. CASE Restart
    BY <1>1, <1>7 DEF Restart, AlarmInv
  <1>8. CASE UNCHANGED vars
    BY <1>8 DEF vars, AlarmInv
  <1>9. QED
    BY <1>2, <1>3, <1>4, <1>5, <1>6, <1>7, <1>8 DEF Next, Calm

LEMMA GooseStep == TypeOK /\ GooseInv /\ [Next]_vars => GooseInv'
  <1> SUFFICES ASSUME TypeOK, GooseInv, [Next]_vars PROVE GooseInv'
    OBVIOUS
  <1>1. /\ sinceTick \in Nat /\ silence \in Nat \cup {Never}
        /\ StaleAfter \in Nat /\ MaxTick \in Nat
    BY SupervisionAssumption DEF TypeOK
  <1>2. CASE Advance
    <2>1. /\ conn' = conn /\ connOk' = connOk /\ quality' = quality
          /\ sinceTick' = sinceTick + 1
          /\ silence # Never => silence' # Never /\ silence' <= silence + 1
      BY <1>1, <1>2 DEF Advance, Later, Never
    <2>2. silence' \in Nat \cup {Never}
      BY <1>1, <1>2 DEF Advance, Later, Never
    <2>3. QED
      BY <1>1, <2>1, <2>2 DEF GooseInv
  <1>3. CASE ReachabilityChanges
    BY <1>3 DEF ReachabilityChanges, GooseInv, link
  <1>4. CASE ConnectionDies
    BY <1>4 DEF ConnectionDies, GooseInv
  <1>5. ASSUME NEW id \in AlarmIds, Acknowledge(id) PROVE GooseInv'
    BY <1>5 DEF Acknowledge, GooseInv, link
  <1>6. ASSUME NEW replied \in BOOLEAN, NEW news \in News, NEW goose \in News,
               Tick(replied, news, goose)
        PROVE  GooseInv'
    <2>1. Stale(silence') /\ connOk' => quality' # "good"
      BY <1>6, TickEffect
    <2>2. silence' \in Nat \cup {Never} /\ sinceTick' = 0
      BY <1>6, TickEffect
    <2>3. QED
      BY <1>1, <2>1, <2>2 DEF GooseInv, Stale, Never
  <1>7. CASE Restart
    BY <1>7 DEF Restart, GooseInv
  <1>8. CASE UNCHANGED vars
    BY <1>8 DEF vars, GooseInv
  <1>9. QED
    BY <1>2, <1>3, <1>4, <1>5, <1>6, <1>7, <1>8 DEF Next, Calm

LEMMA Invariance == Spec => []IInv
  <1>1. Init => IInv
    BY TypeInit, AlarmInit DEF IInv, GooseInv, Init
  <1>2. IInv /\ [Next]_vars => IInv'
    BY TypeStep, AlarmStep, GooseStep DEF IInv
  <1>3. QED
    BY <1>1, <1>2, PTL DEF Spec

\* The COMM alarm is never shown for an IED there is a connection with: only a
\* failed attempt or a connection found broken raises it, and every successful
\* attempt clears it.
THEOREM AlarmJustified == Spec => []NoFalseAlarm
  <1>1. IInv => NoFalseAlarm
    BY DEF IInv, AlarmInv, NoFalseAlarm
  <1>2. QED
    BY <1>1, Invariance, PTL

\* No loss goes unnoticed for longer than a reconnect interval and a tick, also
\* where a connection is replaced without disconnectIed having been called.
THEOREM NoSilentLoss == Spec => []LossAlarmed
  <1>1. ASSUME IInv PROVE LossAlarmed
    <2>1. /\ lostFor \in Nat /\ sinceTick \in Nat /\ sinceTick <= MaxTick
          /\ ReconnectInterval \in Nat /\ MaxTick \in Nat /\ conn \in Conns
      BY <1>1, SupervisionAssumption DEF IInv, TypeOK, AlarmDelay, Conns
    <2>2. QED
      BY <1>1, <2>1 DEF IInv, AlarmInv, LossAlarmed, AlarmDelay, Conns
  <1>2. QED
    BY <1>1, Invariance, PTL

\* A good point on a working connection belongs to an IED heard not long ago.
THEOREM HeardRecently == Spec => []GoodMeansHeard
  <1>1. ASSUME IInv PROVE GoodMeansHeard
    <2>1. /\ silence \in Nat \cup {Never} /\ sinceTick \in 0 .. MaxTick
          /\ StaleAfter \in Nat /\ MaxTick \in Nat
      BY <1>1, SupervisionAssumption DEF IInv, TypeOK
    <2>2. QED
      BY <1>1, <2>1 DEF IInv, GooseInv, GoodMeansHeard, Never
  <1>2. QED
    BY <1>1, Invariance, PTL
=============================================================================
