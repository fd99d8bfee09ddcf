--------------------------- MODULE DevicesProofs ---------------------------
(***************************************************************************)
(* Proofs about what the Hub keeps and shows of the terminals (Devices),   *)
(* for any devices, connections, queue sizes, days and bounds.  First the  *)
(* totals of a day, which never claim more than happened: each part of     *)
(* TotalsFit needs a strengthening that speaks of the time, or of the      *)
(* counter, that the next sample will add.  Then the devices document with *)
(* its events, then the realtime fan-out, then their composition.          *)
(***************************************************************************)
EXTENDS Devices, FiniteSetTheorems, TLAPS

\* Nothing is dated in the future.
Dated ==
  /\ daily.date <= day /\ row.date <= day /\ live.date <= day
  /\ \A d \in Days : d > day => roll[d] = NoRoll /\ moved[d] = 0 /\ brought[d] = 0

\* The seconds of a day were over when its last snapshot was taken, so the gap
\* since then may be added.
DayInv == daily.date = day => daily.seconds <= daily.last /\ daily.last <= clock

\* The row that a departure hands to the rollup fits into its day.
RollInv ==
  /\ row.date = day => row.seconds <= clock
  /\ ~carried => roll[day].seconds <= clock

\* What the live row shows and what the next sample adds to it.
LiveInv == live.online /\ live.date = day => live.seconds + age <= clock + LiveCap

\* What a day may count.
Due(d) == moved[d] + brought[d]

\* What the next reading of the counter makes of the day's bytes is due as well.
\* The counter holds bytes of this day and those it kept from earlier days; a
\* day that has been read has taken note of the latter.
TrafficInv ==
  /\ TrafficFits
  /\ roll[day].last > 0 => Advanced(roll[day]) <= Due(day)
  /\ stale <= counter /\ counter <= moved[day] + stale

Inv == TypeOK /\ Dated /\ DayInv /\ RollInv /\ LiveInv /\ TrafficInv

-----------------------------------------------------------------------------
\* The fields of the state, one by one.
LEMMA Fields ==
  ASSUME TypeOK
  PROVE  /\ day \in Nat /\ day <= MaxDay /\ day \in Days /\ clock \in Nat /\ clock < DayLength
         /\ daily.date \in Nat /\ daily.seconds \in Nat /\ daily.last \in Nat
         /\ row.date \in Nat /\ row.seconds \in Nat
         /\ live.date \in Nat /\ live.seconds \in Nat /\ age \in Nat /\ age <= LiveCap
         /\ counter \in Nat /\ stale \in Nat
         /\ \A d \in Days : /\ d \in Nat /\ moved[d] \in Nat /\ brought[d] \in Nat
                            /\ roll[d].seconds \in Nat /\ roll[d].bytes \in Nat /\ roll[d].last \in Nat
<1>1. day \in Nat /\ day <= MaxDay /\ day \in Days /\ clock \in Nat /\ clock < DayLength
  BY Limits DEF TypeOK, Days
<1>2. daily.date \in Nat /\ daily.seconds \in Nat /\ daily.last \in Nat
  BY Limits DEF TypeOK, Days
<1>3. row.date \in Nat /\ row.seconds \in Nat
  BY Limits DEF TypeOK, Days
<1>4. live.date \in Nat /\ live.seconds \in Nat /\ age \in Nat /\ age <= LiveCap
  BY Limits DEF TypeOK, Days
<1>5. \A d \in Days : /\ d \in Nat /\ moved[d] \in Nat /\ brought[d] \in Nat
                      /\ roll[d].seconds \in Nat /\ roll[d].bytes \in Nat /\ roll[d].last \in Nat
  <2> TAKE d \in Days
  <2>1. d \in Nat
    BY Limits DEF Days
  <2>2. moved[d] \in Nat /\ brought[d] \in Nat /\ roll[d] \in [seconds : Nat, bytes : Nat, last : Nat]
    BY DEF TypeOK
  <2> QED
    BY <2>1, <2>2
<1> QED
  BY <1>1, <1>2, <1>3, <1>4, <1>5 DEF TypeOK

(* Every start of the Hub satisfies the invariant. *)
LEMMA InitInv == ASSUME Init PROVE Inv
<1> USE Limits DEF Init
<1>1. day \in Days /\ clock \in Nat /\ 0 \in Days /\ age \in 0..LiveCap
  BY DEF Days
<1>2. \A d \in Days : roll[d] = NoRoll /\ moved[d] = 0 /\ brought[d] = 0
  OBVIOUS
<1>3. NoRoll \in [seconds : Nat, bytes : Nat, last : Nat]
  BY DEF NoRoll
<1>4. TypeOK
  BY <1>1, <1>3 DEF TypeOK, NoRow
<1>5. Dated /\ DayInv
  BY <1>1, <1>2 DEF Dated, DayInv, Days, NoRow
<1>6. RollInv /\ LiveInv
  BY <1>1, <1>2 DEF RollInv, LiveInv, NoRoll, NoRow
<1>7. TrafficInv
  BY <1>1, <1>2 DEF TrafficInv, TrafficFits, Due, NoRoll
<1> QED
  BY <1>4, <1>5, <1>6, <1>7 DEF Inv

(* A snapshot that has the device. *)
LEMMA PresentKeeps == ASSUME Inv, IngestPresent PROVE Inv'
<1> PICK seed \in Seeds :
      LET seconds == SecondsWith(seed) IN
      /\ daily' = [date |-> day, seconds |-> seconds, online |-> TRUE, last |-> clock]
      /\ row' = [date |-> day, seconds |-> seconds, online |-> TRUE]
      /\ roll' = [roll EXCEPT ![day] =
                    [seconds |-> Larger(roll[day].seconds, seconds),
                     bytes   |-> Advanced(roll[day]), last |-> counter]]
  BY DEF IngestPresent
<1> DEFINE seconds == SecondsWith(seed)
           rolled == [seconds |-> Larger(roll[day].seconds, seconds),
                      bytes |-> Advanced(roll[day]), last |-> counter]
<1>0. TypeOK
  BY DEF Inv
<1>1. UNCHANGED <<day, clock, present, live, age, counter, moved, stale, carried>>
  BY DEF IngestPresent
<1>2. seconds \in Nat /\ seconds <= clock
  <2>1. /\ Entry.seconds \in Nat /\ Entry.last \in Nat
        /\ Entry.seconds <= Entry.last /\ Entry.last <= clock
    BY <1>0, Fields DEF Entry, Inv, DayInv
  <2>2. Gap(Entry) \in Nat /\ Entry.seconds + Gap(Entry) <= clock
    BY <1>0, <2>1, Fields, Limits DEF Gap, Larger, Smaller
  <2>3. seed \in Nat /\ seed <= clock
    BY <1>0, Fields DEF Seeds
  <2> QED
    BY <1>0, <2>1, <2>2, <2>3, Fields DEF SecondsWith, Larger
<1>3. Advanced(roll[day]) \in Nat
  BY <1>0, Fields DEF Advanced, Larger
<1>4. rolled \in [seconds : Nat, bytes : Nat, last : Nat]
  BY <1>0, <1>2, <1>3, Fields DEF Larger
<1>5. /\ roll'[day] = rolled
      /\ \A d \in Days : d # day => roll'[d] = roll[d]
      /\ roll' \in [Days -> [seconds : Nat, bytes : Nat, last : Nat]]
  BY <1>0, <1>4, Fields DEF TypeOK
<1>6. /\ brought' \in [Days -> Nat] /\ brought'[day] \in Nat
      /\ brought'[day] >= brought[day] /\ brought'[day] >= stale
      /\ \A d \in Days : d # day => brought'[d] = brought[d]
  BY <1>0, Fields DEF IngestPresent, Larger, TypeOK
<1>7. TypeOK'
  BY <1>0, <1>1, <1>2, <1>5, <1>6, Fields DEF TypeOK
<1>8. Dated'
  <2>1. daily'.date <= day /\ row'.date <= day /\ live'.date <= day
    BY <1>0, <1>1, Fields DEF Inv, Dated
  <2>2. ASSUME NEW d \in Days, d > day
        PROVE  roll'[d] = NoRoll /\ moved[d] = 0 /\ brought'[d] = 0
    <3>1. d # day
      BY <1>0, <2>2, Fields
    <3> QED
      BY <2>2, <3>1, <1>5, <1>6 DEF Inv, Dated
  <2> QED
    BY <1>1, <2>1, <2>2 DEF Dated
<1>9. DayInv' /\ RollInv'
  BY <1>0, <1>1, <1>2, <1>5, Fields DEF Inv, DayInv, RollInv, Larger
<1>10. LiveInv'
  BY <1>1 DEF Inv, LiveInv
<1>11. TrafficInv'
  <2>0. /\ counter \in Nat /\ stale \in Nat /\ moved[day] \in Nat /\ brought[day] \in Nat
        /\ roll[day].bytes \in Nat /\ roll[day].last \in Nat /\ counter <= moved[day] + stale
        /\ roll[day].bytes <= moved[day] + brought[day]
        /\ roll[day].last > 0 => Advanced(roll[day]) <= moved[day] + brought[day]
    BY <1>0, Fields DEF Inv, TrafficInv, TrafficFits, Due
  <2>1. Advanced(roll[day]) <= moved[day] + brought'[day]
    <3>1. CASE roll[day].last > 0
      BY <1>3, <1>6, <2>0, <3>1
    <3>2. CASE ~ roll[day].last > 0
      <4>1. Advanced(roll[day]) = Larger(roll[day].bytes, counter)
        BY <2>0, <3>2 DEF Advanced
      <4> QED
        BY <1>6, <2>0, <4>1 DEF Larger
    <3> QED
      BY <3>1, <3>2
  <2>2. TrafficFits'
    <3>1. ASSUME NEW d \in Days PROVE roll'[d].bytes <= moved'[d] + brought'[d]
      <4>1. CASE d = day
        BY <1>1, <1>5, <2>1, <4>1
      <4>2. CASE d # day
        BY <1>1, <1>5, <1>6, <4>2 DEF Inv, TrafficInv, TrafficFits
      <4> QED
        BY <4>1, <4>2
    <3> QED
      BY <3>1 DEF TrafficFits
  <2>3. roll'[day].last > 0 => Advanced(roll[day])' <= moved[day] + brought'[day]
    BY <1>0, <1>1, <1>3, <1>5, <2>1, Fields DEF Advanced
  <2> QED
    BY <1>1, <2>2, <2>3 DEF Inv, TrafficInv, Due
<1> QED
  BY <1>7, <1>8, <1>9, <1>10, <1>11 DEF Inv

\* The daily entry that a list without the device leaves.
LEMMA ClosedFits ==
  ASSUME TypeOK, DayInv
  PROVE  /\ Closed \in [date : Days, seconds : Nat, online : BOOLEAN, last : Nat]
         /\ Closed.date = day /\ Closed.seconds <= Closed.last /\ Closed.last <= clock
<1>1. CASE daily.date = day
  <2>1. Closed = [daily EXCEPT !.online = FALSE, !.last = clock]
    BY <1>1 DEF Closed
  <2>2. /\ Closed \in [date : Days, seconds : Nat, online : BOOLEAN, last : Nat]
        /\ Closed.date = daily.date /\ Closed.seconds = daily.seconds /\ Closed.last = clock
    BY <2>1, Fields DEF TypeOK
  <2>3. daily.seconds <= clock
    BY <1>1, Fields DEF DayInv
  <2> QED
    BY <1>1, <2>2, <2>3, Fields
<1>2. CASE daily.date # day
  BY <1>2, Fields DEF Closed, Entry
<1> QED
  BY <1>1, <1>2

(* An empty list that awaits its confirmation. *)
LEMMA DeferredKeeps == ASSUME Inv, IngestDeferred PROVE Inv'
<1>0. TypeOK /\ DayInv
  BY DEF Inv
<1>1. /\ UNCHANGED <<day, clock, present, row, roll, live, age, counter, moved, stale, brought, carried>>
      /\ daily' = Closed
  BY DEF IngestDeferred, traffic
<1>2. TypeOK'
  BY <1>0, <1>1, ClosedFits DEF TypeOK
<1>3. Dated' /\ DayInv'
  BY <1>0, <1>1, ClosedFits, Fields DEF Inv, Dated, DayInv
<1>4. RollInv' /\ LiveInv' /\ TrafficInv'
  BY <1>1 DEF Inv, RollInv, LiveInv, TrafficInv, TrafficFits, Due, Advanced
<1> QED
  BY <1>2, <1>3, <1>4 DEF Inv

(* A snapshot that does not. *)
LEMMA AbsentKeeps == ASSUME Inv, IngestAbsent PROVE Inv'
<1>0. TypeOK
  BY DEF Inv
<1>1. UNCHANGED <<day, clock, present, live, age, counter, moved, stale, brought>>
  BY DEF IngestAbsent, traffic
<1>2. /\ \A d \in Days : /\ roll'[d].bytes = roll[d].bytes /\ roll'[d].last = roll[d].last
                         /\ d # day => roll'[d] = roll[d]
      /\ roll'[day].seconds \in Nat
      /\ roll' \in [Days -> [seconds : Nat, bytes : Nat, last : Nat]]
  <2>1. CASE row.online
    <3> DEFINE rolled == [seconds |-> Larger(roll[day].seconds, row.seconds),
                          bytes |-> roll[day].bytes, last |-> roll[day].last]
    <3>1. roll' = [roll EXCEPT ![day] = rolled]
      BY <2>1 DEF IngestAbsent
    <3>2. rolled \in [seconds : Nat, bytes : Nat, last : Nat]
      BY <1>0, Fields DEF Larger
    <3> QED
      BY <1>0, <3>1, <3>2, Fields DEF TypeOK
  <2>2. CASE ~ row.online
    BY <1>0, <2>2, Fields DEF IngestAbsent, TypeOK
  <2> QED
    BY <2>1, <2>2
<1>3. /\ row' \in [date : Days, seconds : Nat, online : BOOLEAN]
      /\ row'.date <= day /\ row'.seconds <= clock
  BY <1>0, Fields, Limits DEF IngestAbsent, NoRow, Days
<1>4. /\ daily' \in [date : Days, seconds : Nat, online : BOOLEAN, last : Nat]
      /\ daily'.date = day /\ daily'.seconds <= daily'.last /\ daily'.last <= clock
  BY ClosedFits DEF IngestAbsent, Inv
<1>5. carried' \in BOOLEAN
  BY DEF IngestAbsent
<1>6. TypeOK'
  BY <1>0, <1>1, <1>2, <1>3, <1>4, <1>5 DEF TypeOK
<1>7. Dated'
  <2>1. ASSUME NEW d \in Days, d > day PROVE roll'[d] = NoRoll
    BY <1>0, <1>2, <2>1, Fields DEF Inv, Dated
  <2> QED
    BY <1>0, <1>1, <1>3, <1>4, <2>1, Fields DEF Inv, Dated
<1>8. DayInv'
  BY <1>1, <1>4 DEF DayInv
<1>9. RollInv'
  <2>1. row'.date = day => row'.seconds <= clock
    BY <1>3
  <2>2. ASSUME ~ carried' PROVE roll'[day].seconds <= clock
    <3>1. ~ carried /\ (row.online => row.date = day)
      BY <2>2 DEF IngestAbsent
    <3>2. CASE row.online
      <4>1. roll'[day].seconds = Larger(roll[day].seconds, row.seconds)
        BY <1>0, <3>2, Fields DEF IngestAbsent, TypeOK
      <4> QED
        BY <1>0, <3>1, <3>2, <4>1, Fields DEF Inv, RollInv, Larger
    <3>3. CASE ~ row.online
      BY <3>1, <3>3 DEF IngestAbsent, Inv, RollInv
    <3> QED
      BY <3>2, <3>3
  <2> QED
    BY <1>1, <2>1, <2>2 DEF RollInv
<1>10. LiveInv'
  BY <1>1 DEF Inv, LiveInv
<1>11. TrafficInv'
  <2>1. TrafficFits'
    BY <1>1, <1>2 DEF Inv, TrafficInv, TrafficFits
  <2>2. Advanced(roll[day])' = Advanced(roll[day]) /\ roll'[day].last = roll[day].last
    BY <1>0, <1>1, <1>2, Fields DEF Advanced
  <2> QED
    BY <1>1, <2>1, <2>2 DEF Inv, TrafficInv, Due
<1> QED
  BY <1>6, <1>7, <1>8, <1>9, <1>10, <1>11 DEF Inv

(* The live sampler. *)
LEMMA LiveKeeps == ASSUME Inv, _hydrate \/ LiveLost PROVE Inv'
<1>0. TypeOK
  BY DEF Inv
<1>1. UNCHANGED <<day, clock, present, daily, row, roll, counter, moved, stale, brought, carried>>
  BY DEF _hydrate, LiveLost, traffic
<1>2. /\ live' \in [date : Days, seconds : Nat, online : BOOLEAN] /\ age' = 0
      /\ live'.date <= day
      /\ live'.online /\ live'.date = day => live'.seconds <= clock + LiveCap
  <2>1. CASE _hydrate
    <3> DEFINE old == IF live.online /\ live.date = day THEN live.seconds ELSE 0
               observed == IF live.online THEN old + age ELSE 0
    <3>1. PICK seed \in Seeds :
            live' = [date |-> day, seconds |-> Larger(seed, observed), online |-> TRUE]
      BY <2>1 DEF _hydrate
    <3>2. observed \in Nat /\ observed <= clock + LiveCap
      BY <1>0, Fields, Limits DEF Inv, LiveInv
    <3>3. seed \in Nat /\ seed <= clock
      BY <1>0, Fields DEF Seeds
    <3>4. Larger(seed, observed) \in Nat /\ Larger(seed, observed) <= clock + LiveCap
      BY <1>0, <3>2, <3>3, Fields, Limits DEF Larger
    <3>5. age' = 0
      BY <2>1 DEF _hydrate
    <3> HIDE DEF observed
    <3> QED
      BY <1>0, <3>1, <3>4, <3>5, Fields
  <2>2. CASE LiveLost
    <3>1. live' = NoRow /\ age' = 0
      BY <2>2 DEF LiveLost
    <3> QED
      BY <1>0, <3>1, Fields, Limits DEF NoRow, Days
  <2> QED
    BY <2>1, <2>2
<1>3. TypeOK'
  BY <1>0, <1>1, <1>2, Limits DEF TypeOK
<1>4. LiveInv'
  BY <1>0, <1>1, <1>2, Fields, Limits DEF LiveInv, TypeOK
<1>5. Dated' /\ DayInv' /\ RollInv'
  BY <1>1, <1>2 DEF Inv, Dated, DayInv, RollInv
<1>6. TrafficInv'
  BY <1>1 DEF Inv, TrafficInv, TrafficFits, Due, Advanced
<1> QED
  BY <1>3, <1>4, <1>5, <1>6 DEF Inv

(* Time passes, over midnight too. *)
LEMMA TickKeeps == ASSUME Inv, Tick PROVE Inv'
<1>0. TypeOK
  BY DEF Inv
<1>1. UNCHANGED <<present, daily, row, roll, live, counter, moved, brought, carried>>
  BY DEF Tick
<1>2. /\ day' \in Days /\ day' \in Nat /\ clock' \in 0..(DayLength - 1) /\ clock' \in Nat
      /\ \/ day' = day /\ clock' = clock + 1 /\ stale' = stale
         \/ day' = day + 1 /\ clock' = 0 /\ stale' = counter
  BY <1>0, Fields, Limits DEF Tick, Days
<1>3. age' \in 0..LiveCap /\ age' <= age + 1
  BY <1>0, Fields, Limits DEF Tick, Smaller
<1>4. TypeOK'
  BY <1>0, <1>1, <1>2, <1>3, Fields DEF TypeOK
<1>5. Dated'
  <2>1. daily.date <= day' /\ row.date <= day' /\ live.date <= day'
    BY <1>0, <1>2, Fields DEF Inv, Dated
  <2>2. ASSUME NEW d \in Days, d > day' PROVE d > day
    BY <1>0, <1>2, <2>2, Fields
  <2> QED
    BY <1>1, <2>1, <2>2 DEF Inv, Dated
<1>6. CASE day' = day /\ clock' = clock + 1 /\ stale' = stale
  <2>1. DayInv' /\ RollInv'
    BY <1>0, <1>1, <1>6, Fields DEF Inv, DayInv, RollInv
  <2>2. LiveInv'
    BY <1>0, <1>1, <1>3, <1>6, Fields, Limits DEF Inv, LiveInv
  <2>3. TrafficInv'
    BY <1>1, <1>6 DEF Inv, TrafficInv, TrafficFits, Due, Advanced
  <2> QED
    BY <1>4, <1>5, <2>1, <2>2, <2>3 DEF Inv
<1>7. CASE day' = day + 1 /\ clock' = 0 /\ stale' = counter
  <2>1. /\ daily.date # day' /\ row.date # day' /\ live.date # day'
        /\ roll[day'] = NoRoll /\ moved[day'] = 0 /\ brought[day'] = 0
    BY <1>0, <1>2, <1>7, Fields DEF Inv, Dated
  <2>2. DayInv' /\ LiveInv'
    BY <1>1, <2>1 DEF DayInv, LiveInv
  <2>3. RollInv'
    BY <1>1, <1>7, <2>1 DEF RollInv, NoRoll
  <2>4. TrafficInv'
    BY <1>0, <1>1, <1>7, <2>1, Fields DEF Inv, TrafficInv, TrafficFits, Due, NoRoll
  <2> QED
    BY <1>4, <1>5, <2>2, <2>3, <2>4 DEF Inv
<1> QED
  BY <1>2, <1>6, <1>7

(* The device moves bytes, the router's counter starts again. *)
LEMMA CounterKeeps == ASSUME Inv, Moves \/ Resets PROVE Inv'
<1>0. TypeOK
  BY DEF Inv
<1>1. UNCHANGED <<day, clock, present, daily, row, roll, live, age, brought, carried>>
  BY DEF Moves, Resets
<1>2. /\ counter' \in Nat /\ moved' \in [Days -> Nat] /\ stale' \in Nat
      /\ \A d \in Days : d # day => moved'[d] = moved[d]
      /\ \A d \in Days : moved'[d] >= moved[d]
  <2>1. /\ day \in Days /\ counter \in Nat /\ moved \in [Days -> Nat] /\ stale \in Nat
        /\ \A d \in Days : moved[d] \in Nat
    BY <1>0, Fields DEF TypeOK
  <2>2. CASE Moves
    BY <2>1, <2>2 DEF Moves
  <2>3. CASE Resets
    BY <2>1, <2>3 DEF Resets
  <2> QED
    BY <2>2, <2>3
<1>3. TypeOK'
  BY <1>0, <1>1, <1>2 DEF TypeOK
<1>4. Dated'
  <2>1. ASSUME NEW d \in Days, d > day PROVE moved'[d] = 0 /\ brought[d] = 0 /\ roll[d] = NoRoll
    BY <1>0, <1>2, <2>1, Fields DEF Inv, Dated
  <2> QED
    BY <1>1, <2>1 DEF Inv, Dated
<1>5. DayInv' /\ RollInv' /\ LiveInv'
  BY <1>1 DEF Inv, DayInv, RollInv, LiveInv
<1>6. TrafficFits'
  <2>1. ASSUME NEW d \in Days PROVE roll[d].bytes <= moved'[d] + brought[d]
    <3>1. /\ moved'[d] \in Nat /\ moved'[d] >= moved[d]
          /\ roll[d].bytes <= moved[d] + brought[d]
      BY <1>2 DEF Inv, TrafficInv, TrafficFits
    <3> QED
      BY <1>0, <3>1, Fields
  <2> QED
    BY <1>1, <2>1 DEF TrafficFits
<1>7. TrafficInv'
  <2>0. /\ counter \in Nat /\ stale \in Nat /\ moved[day] \in Nat /\ brought[day] \in Nat
        /\ roll[day].bytes \in Nat /\ roll[day].last \in Nat
        /\ stale <= counter /\ counter <= moved[day] + stale
        /\ roll[day].bytes <= moved[day] + brought[day]
        /\ roll[day].last > 0 => Advanced(roll[day]) <= moved[day] + brought[day]
    BY <1>0, Fields DEF Inv, TrafficInv, TrafficFits, Due
  <2>1. CASE Moves
    <3>1. counter' = counter + 1 /\ moved'[day] = moved[day] + 1 /\ stale' = stale
      BY <1>0, <2>1, Fields DEF Moves, TypeOK
    <3>2. roll[day].last > 0 => Advanced(roll[day])' <= moved'[day] + brought[day]
      BY <1>1, <2>0, <3>1 DEF Advanced
    <3>3. stale' <= counter' /\ counter' <= moved'[day] + stale'
      BY <2>0, <3>1
    <3> QED
      BY <1>1, <1>6, <3>2, <3>3 DEF TrafficInv, Due
  <2>2. CASE Resets
    <3>1. counter' = 0 /\ moved' = moved /\ stale' = 0
      BY <2>2 DEF Resets
    <3>2. roll[day].last > 0 => Advanced(roll[day])' <= moved'[day] + brought[day]
      BY <1>1, <2>0, <3>1 DEF Advanced
    <3>3. stale' <= counter' /\ counter' <= moved'[day] + stale'
      BY <2>0, <3>1
    <3> QED
      BY <1>1, <1>6, <3>2, <3>3 DEF TrafficInv, Due
  <2> QED
    BY <2>1, <2>2
<1> QED
  BY <1>3, <1>4, <1>5, <1>7 DEF Inv

(* Every step keeps it. *)
LEMMA Step == ASSUME Inv, [Next]_vars PROVE Inv'
<1>1. CASE Joins
  BY <1>1 DEF Joins, traffic, Inv, TypeOK, Dated, DayInv, RollInv, LiveInv, TrafficInv, TrafficFits,
              Due, Advanced
<1>2. CASE UNCHANGED vars
  BY <1>2 DEF vars, traffic, Inv, TypeOK, Dated, DayInv, RollInv, LiveInv, TrafficInv, TrafficFits,
              Due, Advanced
<1> QED
  BY <1>1, <1>2, PresentKeeps, AbsentKeeps, DeferredKeeps, LiveKeeps, TickKeeps, CounterKeeps DEF Next

-----------------------------------------------------------------------------
(* The devices document and its events (DeviceHistory) *)

\* Each empty list that the streak counts is one of the last lists ingested.
Streaks ==
  /\ streak \in Nat /\ blank \in 0..EmptyConfirmations
  /\ streak <= blank \/ blank = EmptyConfirmations

HistoryInv == H!EventsFollowDevices /\ evt \in [Macs -> {"none", "on", "off"}] /\ Streaks

LEMMA HistoryInit == ASSUME H!Init PROVE HistoryInv
BY DeviceLimits DEF H!Init, HistoryInv, H!EventsFollowDevices, Streaks

(* An ingested list. *)
LEMMA IngestKeeps ==
  ASSUME HistoryInv, NEW list, H!ingest(list)
  PROVE  /\ HistoryInv'
         /\ online # {} /\ online' = {} => blank' >= EmptyConfirmations
<1>1. /\ streak \in Nat /\ blank \in Nat /\ blank <= EmptyConfirmations
      /\ streak <= blank \/ blank = EmptyConfirmations
      /\ EmptyConfirmations \in Nat /\ EmptyConfirmations > 0
  BY DeviceLimits DEF HistoryInv, Streaks
<1>2. /\ streak' = IF list = {} /\ online # {} THEN streak + 1 ELSE 0
      /\ blank' = IF list = {} THEN (IF blank < EmptyConfirmations THEN blank + 1 ELSE blank) ELSE 0
  BY DEF H!ingest, H!Streak, H!Emptied
<1>3. Streaks'
  BY <1>1, <1>2, DeviceLimits DEF Streaks
<1>4. CASE H!Deferred(list)
  <2>1. UNCHANGED <<online, evt, silent, stray>>
    BY <1>4 DEF H!ingest, H!log
  <2> QED
    BY <1>3, <2>1 DEF HistoryInv, H!EventsFollowDevices
<1>5. CASE ~ H!Deferred(list)
  <2>1. /\ evt' = [m \in Macs |-> H!Transition(list, m)] /\ online' = list
        /\ silent' = silent \cap H!Same(list) /\ stray' = stray \cap H!Same(list)
    BY <1>5 DEF H!ingest, H!Record
  <2>2. ASSUME NEW m \in Macs
        PROVE  /\ evt'[m] = IF m \in list \ online THEN "on"
                            ELSE IF m \in online \ list THEN "off" ELSE evt[m]
               /\ evt'[m] \in {"none", "on", "off"}
    BY <2>1 DEF H!Transition, HistoryInv
  <2>3. evt' \in [Macs -> {"none", "on", "off"}]
    BY <2>1, <2>2
  <2>4. H!EventsFollowDevices'
    <3> SUFFICES ASSUME NEW m \in Macs, m \notin silent', m \notin stray'
                 PROVE  (m \in online') <=> (evt'[m] = "on")
      BY DEF H!EventsFollowDevices
    <3>1. m \in silent \cup stray => ~ ((m \in list) <=> (m \in online))
      BY <2>1 DEF H!Same
    <3>2. m \notin silent \cup stray => ((m \in online) <=> (evt[m] = "on"))
      BY DEF HistoryInv, H!EventsFollowDevices
    <3> QED
      BY <2>1, <2>2, <3>1, <3>2
  <2>5. online # {} /\ online' = {} => blank' >= EmptyConfirmations
    <3> SUFFICES ASSUME online # {}, list = {} PROVE blank' >= EmptyConfirmations
      BY <2>1
    <3>1. streak + 1 >= EmptyConfirmations
      BY <1>1, <1>5 DEF H!Deferred, H!Emptied, H!Streak
    <3> QED
      BY <1>1, <1>2, <3>1
  <2> QED
    BY <1>3, <2>3, <2>4, <2>5 DEF HistoryInv
<1> QED
  BY <1>4, <1>5

\* What a step of the history must do beside keeping its invariant.
Emptying ==
  online # {} /\ online' = {} /\ refresh' = refresh => blank' >= EmptyConfirmations

(* A step that touches neither the document nor its events. *)
LEMMA AsideKeeps ==
  ASSUME HistoryInv, UNCHANGED <<online, evt, streak, blank, silent, stray>>
  PROVE  HistoryInv' /\ Emptying
BY DEF HistoryInv, H!EventsFollowDevices, Streaks, Emptying

(* A pushed event: the log takes it, and it strays if the document disagrees. *)
LEMMA PushedKeeps ==
  ASSUME HistoryInv, NEW e, H!add_event(e), UNCHANGED <<online, streak, blank>>
  PROVE  HistoryInv' /\ Emptying
<1>1. /\ evt \in [Macs -> {"none", "on", "off"}]
      /\ evt' = [evt EXCEPT ![e.mac] = IF e.on THEN "on" ELSE "off"]
  BY DEF HistoryInv, H!add_event
<1>2. evt' \in [Macs -> {"none", "on", "off"}]
  BY <1>1
<1>3. ASSUME NEW m \in Macs, m \notin silent', m \notin stray'
      PROVE  (m \in online') <=> (evt'[m] = "on")
  <2>1. CASE m = e.mac
    <3>1. e.on <=> e.mac \in online
      BY <1>3, <2>1 DEF H!add_event
    <3>2. evt'[m] = IF e.on THEN "on" ELSE "off"
      BY <1>1, <2>1
    <3> QED
      BY <2>1, <3>1, <3>2
  <2>2. CASE m # e.mac
    <3>1. m \notin silent /\ m \notin stray
      BY <1>3, <2>2 DEF H!add_event
    <3>2. evt'[m] = evt[m]
      BY <1>1, <2>2
    <3> QED
      BY <3>1, <3>2 DEF HistoryInv, H!EventsFollowDevices
  <2> QED
    BY <2>1, <2>2
<1> QED
  BY <1>2, <1>3 DEF HistoryInv, H!EventsFollowDevices, Streaks, Emptying

LEMMA HandleKeeps ==
  ASSUME HistoryInv, NEW request, H!Handle(request)
  PROVE  HistoryInv' /\ Emptying
<1>1. CASE H!relay_device_hook(request.list)
  BY <1>1, IngestKeeps DEF H!relay_device_hook, Emptying
<1>2. CASE H!device_event(request.event)
  <2>1. UNCHANGED <<online, streak, blank>>
    BY <1>2 DEF H!device_event
  <2>2. H!add_event(request.event) \/ UNCHANGED H!log
    BY <1>2, Zenon DEF H!device_event
  <2>3. CASE UNCHANGED H!log
    BY <2>1, <2>3, AsideKeeps DEF H!log
  <2> QED
    BY <2>1, <2>2, <2>3, PushedKeeps
<1> QED
  BY <1>1, <1>2 DEF H!Handle

LEMMA PostKeeps ==
  ASSUME HistoryInv, NEW request, NEW told, H!Post(request, told)
  PROVE  HistoryInv' /\ Emptying
<1>1. H!Handle(request) \/ UNCHANGED H!hubVars
  BY DEF H!Post
<1>2. CASE UNCHANGED H!hubVars
  BY <1>2, AsideKeeps DEF H!hubVars, H!log
<1> QED
  BY <1>1, <1>2, HandleKeeps

(* The refresh thread and a restart write the document, or the events, alone. *)
LEMMA SilentKeeps ==
  ASSUME HistoryInv, H!DocumentSaved \/ H!HubRestart
  PROVE  HistoryInv' /\ Emptying
<1>1. CASE H!DocumentSaved
  <2>1. /\ online' = refresh.list /\ UNCHANGED <<evt, stray, streak, blank>>
        /\ silent' = silent \cup (online \ refresh.list) \cup (refresh.list \ online)
        /\ refresh.pc = "each" /\ refresh' = H!Idle
    BY <1>1 DEF H!DocumentSaved
  <2>2. refresh' # refresh
    BY <2>1 DEF H!Idle
  <2> QED
    BY <2>1, <2>2 DEF HistoryInv, H!EventsFollowDevices, Streaks, Emptying
<1>2. CASE H!HubRestart
  <2>1. UNCHANGED <<online, streak, blank>>
    BY <1>2 DEF H!HubRestart
  <2>2. CASE UNCHANGED <<evt, silent, stray>>
    BY <2>1, <2>2, AsideKeeps
  <2>3. CASE /\ evt' = [m \in Macs |-> H!Transition(agent.list, m)] /\ stray' = stray
             /\ silent' = silent \cup (online \ agent.list) \cup (agent.list \ online)
    <3>1. ASSUME NEW m \in Macs
          PROVE  /\ evt'[m] \in {"none", "on", "off"}
                 /\ ~ (m \in online \ agent.list) /\ ~ (m \in agent.list \ online) => evt'[m] = evt[m]
      BY <2>3 DEF H!Transition, HistoryInv
    <3>2. evt' \in [Macs -> {"none", "on", "off"}]
      BY <2>3, <3>1
    <3>3. H!EventsFollowDevices'
      BY <2>1, <2>3, <3>1 DEF HistoryInv, H!EventsFollowDevices
    <3> QED
      BY <2>1, <3>2, <3>3 DEF HistoryInv, Streaks, Emptying
  <2> QED
    BY <1>2, <2>2, <2>3 DEF H!HubRestart, H!Record, H!log
<1> QED
  BY <1>1, <1>2

LEMMA HistoryStep == ASSUME HistoryInv, H!Next PROVE HistoryInv' /\ Emptying
<1> USE DEF H!hubVars, H!log
<1>1. CASE H!Hook
  BY <1>1, PostKeeps DEF H!Hook
<1>2. CASE H!Flush
  BY <1>2, PostKeeps DEF H!Flush
<1>3. CASE H!LateArrives
  BY <1>3, HandleKeeps DEF H!LateArrives
<1>4. CASE H!fallback_snapshot
  <2>1. CASE hookRecent
    BY <1>4, <2>1, AsideKeeps DEF H!fallback_snapshot
  <2>2. CASE ~ hookRecent
    BY <1>4, <2>2, IngestKeeps DEF H!fallback_snapshot, Emptying
  <2> QED
    BY <2>1, <2>2
<1>5. CASE H!Collect
  BY <1>5, AsideKeeps DEF H!Collect
<1>6. CASE H!CycleEnds \/ H!LaneReads \/ H!HookAges
  BY <1>6, AsideKeeps DEF H!CycleEnds, H!LaneReads, H!HookAges
<1>7. CASE H!refresh_view \/ H!ArchiveLoads \/ H!ArchiveSaves
  <2>1. UNCHANGED <<online, evt, streak, blank, silent, stray>>
    BY <1>7, Zenon DEF H!refresh_view, H!ArchiveLoads, H!ArchiveSaves
  <2> QED
    BY <2>1, AsideKeeps
<1>8. CASE H!DeviceMoves
  BY <1>8, AsideKeeps DEF H!DeviceMoves
<1> QED
  BY <1>1, <1>2, <1>3, <1>4, <1>5, <1>6, <1>7, <1>8, SilentKeeps DEF H!Next

-----------------------------------------------------------------------------
(* The types of the history, and how far its streak runs *)

Cycle == [pc : {"collect", "hook", "flush"}, list : SUBSET Macs, known : SUBSET Macs,
          pending : Seq(H!Event), retry : Seq(H!Event)]
RefreshState == [pc : {"idle", "each", "save"}, list : SUBSET Macs, todo : SUBSET Macs,
                 loaded : SUBSET Macs]

\* Refreshes that may have refilled the document.
Finished == IF refresh.pc = "idle" THEN refreshes ELSE refreshes - 1

HubTypes ==
  /\ online \in SUBSET Macs /\ watched \in SUBSET Macs /\ archive \in SUBSET Macs
  /\ evt \in [Macs -> {"none", "on", "off"}] /\ offs \in SUBSET Macs
  /\ silent \in SUBSET Macs /\ stray \in SUBSET Macs
  /\ streak \in Nat /\ blank \in 0..EmptyConfirmations /\ hookRecent \in BOOLEAN

\* Only a refresh lets the streak run on past the confirmations.
StreakBound ==
  /\ refreshes \in 0..MaxRefresh /\ (refresh.pc # "idle" => refreshes > 0)
  /\ streak <= EmptyConfirmations + Finished
  /\ online # {} => streak < EmptyConfirmations + Finished

OtherTypes ==
  /\ real \in SUBSET Macs /\ agent \in Cycle /\ lane \in (SUBSET Macs) \cup {None}
  /\ late \in H!Request \cup {None} /\ refresh \in RefreshState

HistoryTypes == HubTypes /\ StreakBound /\ OtherTypes

LEMMA HistoryTypesInit == ASSUME H!Init PROVE HistoryTypes
<1>1. agent \in Cycle
  BY DEF H!Init, Cycle
<1>2. refresh \in RefreshState /\ refresh.pc = "idle"
  BY DEF H!Init, H!Idle, RefreshState
<1>3. HubTypes
  <2>1. [m \in Macs |-> "none"] \in [Macs -> {"none", "on", "off"}]
    OBVIOUS
  <2>2. 0 \in 0..EmptyConfirmations
    BY DeviceLimits
  <2> QED
    BY <2>1, <2>2 DEF H!Init, HubTypes
<1>4. StreakBound
  BY <1>2, DeviceLimits DEF H!Init, StreakBound, Finished
<1> QED
  BY <1>1, <1>2, <1>3, <1>4 DEF H!Init, HistoryTypes, OtherTypes

(* SetToSeq lists a finite set. *)
LEMMA SameCardinality == \A S : H!Cardinality(S) = Cardinality(S)
BY DEF H!Cardinality, Cardinality

LEMMA SetToSeqType ==
  ASSUME NEW S, IsFiniteSet(S)
  PROVE  H!SetToSeq(S) \in Seq(S)
<1>1. Cardinality(S) \in Nat /\ ExistsBijection(1..Cardinality(S), S)
  BY FS_CardinalityType
<1>2. \E f \in [1..Cardinality(S) -> S] : H!IsInjective(f)
  BY <1>1 DEF ExistsBijection, Bijection, Injection, H!IsInjective, IsInjective
<1>3. H!SetToSeq(S) \in [1..Cardinality(S) -> S]
  BY <1>2, SameCardinality DEF H!SetToSeq
<1> QED
  BY <1>1, <1>3

LEMMA EventsType ==
  ASSUME NEW macs \in SUBSET Macs, NEW on \in BOOLEAN
  PROVE  H!Events(macs, on) \in Seq(H!Event)
<1> DEFINE S == {[mac |-> m, on |-> on] : m \in macs}
           f == [m \in macs |-> [mac |-> m, on |-> on]]
<1>1. IsFiniteSet(macs)
  BY DeviceLimits, FS_Subset
<1>2. f \in Surjection(macs, S)
  BY DEF Surjection
<1>3. IsFiniteSet(S)
  BY <1>1, <1>2, FS_Surjection
<1>4. S \subseteq H!Event
  BY DEF H!Event
<1> HIDE DEF S
<1>5. H!SetToSeq(S) \in Seq(H!Event)
  BY <1>3, <1>4, SetToSeqType
<1> QED
  BY <1>5 DEF H!Events, S

LEMMA Joined ==
  ASSUME NEW S, NEW q \in Seq(S), NEW r \in Seq(S), NEW t \in Seq(S)
  PROVE  q \o r \o t \in Seq(S)
<1>1. q \o r \in Seq(S)
  OBVIOUS
<1> QED
  BY <1>1

LEMMA CycleFields ==
  /\ \A a \in Cycle : /\ a.pc \in {"collect", "hook", "flush"}
                      /\ a.list \in SUBSET Macs /\ a.known \in SUBSET Macs
                      /\ a.pending \in Seq(H!Event) /\ a.retry \in Seq(H!Event)
  /\ \A p \in {"collect", "hook", "flush"}, l, k \in SUBSET Macs, q, r \in Seq(H!Event) :
       [pc |-> p, list |-> l, known |-> k, pending |-> q, retry |-> r] \in Cycle
BY DEF Cycle

LEMMA RefreshFields ==
  \A s \in RefreshState :
    /\ s.pc \in {"idle", "each", "save"}
    /\ s.list \in SUBSET Macs /\ s.todo \in SUBSET Macs /\ s.loaded \in SUBSET Macs
BY DEF RefreshState

LEMMA RequestFields ==
  \A q \in H!Request : /\ q.kind = "hook" => q.list \in SUBSET Macs
                       /\ q.kind = "event" => q.event \in H!Event /\ q.event.mac \in Macs
BY DEF H!Request, H!Event

LEMMA IngestTypes ==
  ASSUME HistoryTypes, NEW list \in SUBSET Macs, H!ingest(list),
         UNCHANGED <<refresh, refreshes>>, hookRecent' \in BOOLEAN
  PROVE  HubTypes' /\ StreakBound'
<1>0. /\ streak \in Nat /\ blank \in Nat /\ blank <= EmptyConfirmations
      /\ EmptyConfirmations \in Nat /\ EmptyConfirmations > 0 /\ MaxRefresh \in Nat
      /\ refreshes \in Nat
  BY DeviceLimits DEF HistoryTypes, HubTypes, StreakBound
<1>1. /\ streak' = IF list = {} /\ online # {} THEN streak + 1 ELSE 0
      /\ blank' = IF list = {} THEN (IF blank < EmptyConfirmations THEN blank + 1 ELSE blank) ELSE 0
  BY DEF H!ingest, H!Streak, H!Emptied
<1>2. streak' \in Nat /\ blank' \in 0..EmptyConfirmations
  BY <1>0, <1>1
<1>3. Finished \in Nat /\ Finished' = Finished
  BY <1>0, RefreshFields DEF Finished, HistoryTypes, StreakBound, OtherTypes
<1>4. CASE H!Deferred(list)
  <2>1. UNCHANGED <<online, watched, archive, evt, offs, silent, stray>>
    BY <1>4 DEF H!ingest, H!log
  <2>2. streak' < EmptyConfirmations
    BY <1>1, <1>4 DEF H!Deferred, H!Streak, H!Emptied
  <2> QED
    BY <1>0, <1>2, <1>3, <2>1, <2>2 DEF HistoryTypes, HubTypes, StreakBound
<1>5. CASE ~ H!Deferred(list)
  <2>1. /\ evt' = [m \in Macs |-> H!Transition(list, m)] /\ online' = list
        /\ archive' = archive \cup list \cup online /\ watched' = list \cap Configured
        /\ offs' = offs \cup (online \ list)
        /\ silent' = silent \cap H!Same(list) /\ stray' = stray \cap H!Same(list)
    BY <1>5 DEF H!ingest, H!Record, H!canonical
  <2>2. \A m \in Macs : H!Transition(list, m) \in {"none", "on", "off"}
    BY DEF H!Transition, HistoryTypes, HubTypes
  <2>3. HubTypes'
    BY <1>2, <2>1, <2>2 DEF HistoryTypes, HubTypes
  <2>4. streak' <= EmptyConfirmations + Finished
    BY <1>0, <1>1, <1>3 DEF HistoryTypes, StreakBound
  <2>5. list # {} => streak' = 0
    BY <1>1
  <2> QED
    BY <1>0, <1>3, <2>1, <2>3, <2>4, <2>5 DEF HistoryTypes, StreakBound
<1> QED
  BY <1>4, <1>5

LEMMA HandleTypes ==
  ASSUME HistoryTypes, NEW q \in H!Request, H!Handle(q), UNCHANGED <<refresh, refreshes>>
  PROVE  HubTypes' /\ StreakBound'
<1>1. CASE q.kind = "hook" /\ H!relay_device_hook(q.list)
  <2>1. hookRecent' \in BOOLEAN /\ H!ingest(q.list) /\ q.list \in SUBSET Macs
    BY <1>1, RequestFields DEF H!relay_device_hook, HistoryTypes, HubTypes
  <2> QED
    BY <2>1, IngestTypes
<1>2. CASE q.kind = "event" /\ H!device_event(q.event)
  <2>1. q.event.mac \in Macs
    BY <1>2, RequestFields
  <2>2. /\ watched' \in {watched \cup {q.event.mac}, watched \ {q.event.mac}}
        /\ archive' = archive \cup {q.event.mac}
        /\ UNCHANGED <<online, streak, blank, hookRecent>>
    BY <1>2 DEF H!device_event, H!upsert
  <2>5. /\ evt' \in [Macs -> {"none", "on", "off"}] /\ offs' \in SUBSET Macs
        /\ silent' \in SUBSET Macs /\ stray' \in SUBSET Macs
    <3>1. CASE H!add_event(q.event)
      BY <2>1, <3>1 DEF H!add_event, HistoryTypes, HubTypes
    <3>2. CASE UNCHANGED H!log
      BY <3>2 DEF H!log, HistoryTypes, HubTypes
    <3> QED
      BY <1>2, <3>1, <3>2, Zenon DEF H!device_event
  <2>3. HubTypes'
    BY <2>1, <2>2, <2>5 DEF HistoryTypes, HubTypes
  <2>4. StreakBound'
    BY <2>2 DEF HistoryTypes, StreakBound, Finished
  <2> QED
    BY <2>3, <2>4
<1> QED
  BY <1>1, <1>2 DEF H!Handle

LEMMA PostTypes ==
  ASSUME HistoryTypes, NEW q \in H!Request, NEW told, H!Post(q, told),
         UNCHANGED <<refresh, refreshes>>
  PROVE  HubTypes' /\ StreakBound' /\ late' \in H!Request \cup {None}
<1>1. /\ H!Handle(q) \/ UNCHANGED <<H!hubVars, hookRecent>>
      /\ late' \in {late, q}
  BY DEF H!Post
<1>2. CASE UNCHANGED <<H!hubVars, hookRecent>>
  <2>1. HubTypes'
    BY <1>2 DEF H!hubVars, H!log, HistoryTypes, HubTypes
  <2>2. StreakBound'
    BY <1>2 DEF H!hubVars, H!log, HistoryTypes, StreakBound, Finished
  <2> QED
    BY <1>1, <2>1, <2>2 DEF HistoryTypes, OtherTypes
<1> QED
  BY <1>1, <1>2, HandleTypes DEF HistoryTypes, OtherTypes

LEMMA CycleTypes ==
  ASSUME HistoryTypes, H!Collect \/ H!Hook \/ H!Flush \/ H!CycleEnds \/ H!LateArrives
  PROVE  HistoryTypes'
<1>0. /\ agent \in Cycle /\ real \in SUBSET Macs /\ late \in H!Request \cup {None}
      /\ agent.list \in SUBSET Macs /\ agent.known \in SUBSET Macs
      /\ agent.pending \in Seq(H!Event) /\ agent.retry \in Seq(H!Event)
      /\ agent.pc \in {"collect", "hook", "flush"}
  BY CycleFields DEF HistoryTypes, OtherTypes
<1>1. CASE H!Collect
  <2>1. PICK list \in {real, {}} :
          agent' = [pc |-> "hook", list |-> list, known |-> list, retry |-> agent.retry,
                    pending |-> agent.pending \o H!Events(list \ agent.known, TRUE)
                                              \o H!Events(agent.known \ list, FALSE)]
    BY <1>1 DEF H!Collect
  <2>2. /\ H!Events(list \ agent.known, TRUE) \in Seq(H!Event)
        /\ H!Events(agent.known \ list, FALSE) \in Seq(H!Event)
    BY <1>0, EventsType
  <2>3. agent.pending \o H!Events(list \ agent.known, TRUE)
                      \o H!Events(agent.known \ list, FALSE) \in Seq(H!Event)
    BY <1>0, <2>2, Joined
  <2>4. agent' \in Cycle
    BY <1>0, <2>1, <2>3 DEF Cycle
  <2>5. UNCHANGED <<real, lane, late, H!hubVars, hookRecent, refresh, refreshes>>
    BY <1>1 DEF H!Collect
  <2> QED
    BY <2>4, <2>5 DEF H!hubVars, H!log, HistoryTypes, HubTypes, StreakBound, Finished, OtherTypes
<1>2. CASE H!Hook
  <2> DEFINE q == [kind |-> "hook", list |-> agent.list]
  <2>1. PICK told \in BOOLEAN :
          H!Post(q, told) /\ agent' = [agent EXCEPT !.pc = IF told THEN "flush" ELSE "collect"]
    BY <1>2 DEF H!Hook
  <2>2. q \in H!Request
    BY <1>0 DEF H!Request
  <2>3. agent' \in Cycle
    BY <1>0, <2>1 DEF Cycle
  <2>4. UNCHANGED <<real, lane, refresh, refreshes>>
    BY <1>2 DEF H!Hook
  <2> HIDE DEF q
  <2> QED
    BY <2>1, <2>2, <2>3, <2>4, PostTypes DEF HistoryTypes, OtherTypes
<1>3. CASE H!Flush
  <2> DEFINE q == [kind |-> "event", event |-> Head(agent.pending)]
  <2>0. agent.pending # <<>> /\ Head(agent.pending) \in H!Event /\ Tail(agent.pending) \in Seq(H!Event)
    BY <1>0, <1>3 DEF H!Flush
  <2>1. PICK told \in BOOLEAN :
          /\ H!Post(q, told)
          /\ H!Flushed(Tail(agent.pending),
                       IF told THEN agent.retry ELSE Append(agent.retry, Head(agent.pending)))
    BY <1>3 DEF H!Flush
  <2>2. q \in H!Request
    BY <2>0 DEF H!Request
  <2>3. agent' \in Cycle
    <3>1. Append(agent.retry, Head(agent.pending)) \in Seq(H!Event)
      BY <1>0, <2>0
    <3> QED
      BY <1>0, <2>0, <2>1, <3>1 DEF H!Flushed, Cycle
  <2>4. UNCHANGED <<real, lane, refresh, refreshes>>
    BY <1>3 DEF H!Flush
  <2> HIDE DEF q
  <2> QED
    BY <2>1, <2>2, <2>3, <2>4, PostTypes DEF HistoryTypes, OtherTypes
<1>4. CASE H!CycleEnds
  <2>1. agent' \in Cycle
    BY <1>0, <1>4 DEF H!CycleEnds, Cycle
  <2>2. UNCHANGED <<real, lane, late, H!hubVars, hookRecent, refresh, refreshes>>
    BY <1>4 DEF H!CycleEnds, H!bounds
  <2> QED
    BY <2>1, <2>2 DEF H!hubVars, H!log, HistoryTypes, HubTypes, StreakBound, Finished, OtherTypes
<1>5. CASE H!LateArrives
  <2>1. late \in H!Request /\ H!Handle(late) /\ late' = None
        /\ UNCHANGED <<real, agent, lane, refresh, refreshes>>
    BY <1>0, <1>5 DEF H!LateArrives, H!bounds
  <2> QED
    BY <2>1, HandleTypes DEF HistoryTypes, OtherTypes
<1> QED
  BY <1>1, <1>2, <1>3, <1>4, <1>5

LEMMA RefreshTypes ==
  ASSUME HistoryTypes,
         H!refresh_view \/ H!ArchiveLoads \/ H!ArchiveSaves \/ H!DocumentSaved
  PROVE  HistoryTypes'
<1>0. /\ refresh \in RefreshState /\ real \in SUBSET Macs /\ archive \in SUBSET Macs
      /\ refresh.list \in SUBSET Macs /\ refresh.todo \in SUBSET Macs
      /\ refresh.loaded \in SUBSET Macs /\ refreshes \in Nat /\ streak \in Nat
      /\ EmptyConfirmations \in Nat /\ MaxRefresh \in Nat /\ refreshes <= MaxRefresh
      /\ (refresh.pc # "idle" => refreshes > 0)
  BY RefreshFields, DeviceLimits DEF HistoryTypes, OtherTypes, HubTypes, StreakBound
<1>1. CASE H!refresh_view
  <2>1. /\ refresh' = [pc |-> "each", list |-> real, todo |-> real, loaded |-> {}]
        /\ refreshes < MaxRefresh /\ refreshes' = refreshes + 1 /\ refresh.pc = "idle"
        /\ UNCHANGED <<real, agent, lane, late, H!hubVars, hookRecent>>
    BY <1>1 DEF H!refresh_view
  <2>2. refresh' \in RefreshState /\ refresh'.pc = "each"
    BY <1>0, <2>1 DEF RefreshState
  <2>3. Finished' = Finished /\ refreshes' \in 0..MaxRefresh /\ refreshes' > 0
    BY <1>0, <2>1, <2>2 DEF Finished
  <2> QED
    BY <2>1, <2>2, <2>3 DEF H!hubVars, H!log, HistoryTypes, HubTypes, StreakBound, OtherTypes
<1>2. CASE H!ArchiveLoads
  <2>1. /\ refresh' = [pc |-> "save", list |-> refresh.list, todo |-> refresh.todo,
                       loaded |-> archive]
        /\ refresh.pc = "each" /\ UNCHANGED <<real, agent, lane, late, H!hubVars, hookRecent, refreshes>>
    BY <1>2 DEF H!ArchiveLoads, H!bounds
  <2>2. refresh' \in RefreshState /\ refresh'.pc = "save"
    BY <1>0, <2>1 DEF RefreshState
  <2>3. Finished' = Finished
    BY <2>1, <2>2 DEF Finished
  <2> QED
    BY <2>1, <2>2, <2>3 DEF H!hubVars, H!log, HistoryTypes, HubTypes, StreakBound, OtherTypes
<1>3. CASE H!ArchiveSaves
  <2>1. PICK m \in refresh.todo :
          /\ archive' = refresh.loaded \cup {m}
          /\ refresh' = [pc |-> "each", list |-> refresh.list, todo |-> refresh.todo \ {m},
                         loaded |-> refresh.loaded]
    BY <1>3 DEF H!ArchiveSaves
  <2>2. /\ refresh.pc = "save"
        /\ UNCHANGED <<real, agent, lane, late, online, watched, evt, offs, streak, blank, silent,
                       stray, hookRecent, refreshes>>
    BY <1>3 DEF H!ArchiveSaves, H!log, H!bounds
  <2>3. refresh' \in RefreshState /\ refresh'.pc = "each" /\ archive' \in SUBSET Macs
    BY <1>0, <2>1 DEF RefreshState
  <2>4. Finished' = Finished
    BY <2>2, <2>3 DEF Finished
  <2> QED
    BY <2>2, <2>3, <2>4 DEF HistoryTypes, HubTypes, StreakBound, OtherTypes
<1>4. CASE H!DocumentSaved
  <2>1. /\ refresh.pc = "each" /\ online' = refresh.list /\ watched' = refresh.list \cap Configured
        /\ silent' = silent \cup (online \ refresh.list) \cup (refresh.list \ online)
        /\ refresh' = H!Idle
        /\ UNCHANGED <<real, agent, lane, late, archive, evt, offs, stray, streak, blank, hookRecent,
                       refreshes>>
    BY <1>4 DEF H!DocumentSaved, H!canonical, H!bounds
  <2>2. refresh' \in RefreshState /\ refresh'.pc = "idle"
    BY <2>1 DEF H!Idle, RefreshState
  <2>3. Finished' = Finished + 1 /\ Finished \in Nat
    BY <1>0, <2>1, <2>2 DEF Finished
  <2>4. StreakBound'
    BY <1>0, <2>1, <2>2, <2>3 DEF HistoryTypes, StreakBound
  <2> QED
    BY <1>0, <2>1, <2>2, <2>4 DEF HistoryTypes, HubTypes, OtherTypes
<1> QED
  BY <1>1, <1>2, <1>3, <1>4

LEMMA WorldTypes ==
  ASSUME HistoryTypes,
         H!LaneReads \/ H!fallback_snapshot \/ H!HookAges \/ H!DeviceMoves \/ H!HubRestart
  PROVE  HistoryTypes'
<1>0. lane \in (SUBSET Macs) \cup {None} /\ real \in SUBSET Macs
  BY DEF HistoryTypes, OtherTypes
<1>1. CASE H!LaneReads
  BY <1>0, <1>1 DEF H!LaneReads, H!hubVars, H!log, H!bounds, HistoryTypes, HubTypes, StreakBound, Finished, OtherTypes
<1>2. CASE H!fallback_snapshot
  <2>1. /\ lane \in SUBSET Macs /\ lane' = None
        /\ UNCHANGED <<real, agent, late, hookRecent, refresh, refreshes>>
        /\ H!ingest(lane) \/ UNCHANGED H!hubVars
    <3>1. lane # None
      BY <1>2 DEF H!fallback_snapshot
    <3> QED
      BY <1>0, <1>2, <3>1, Zenon DEF H!fallback_snapshot, H!bounds
  <2>2. hookRecent' \in BOOLEAN
    BY <2>1 DEF HistoryTypes, HubTypes
  <2>3. HubTypes' /\ StreakBound'
    <3>1. CASE H!ingest(lane)
      BY <2>1, <2>2, <3>1, IngestTypes
    <3>2. CASE UNCHANGED H!hubVars
      BY <2>1, <3>2 DEF H!hubVars, H!log, HistoryTypes, HubTypes, StreakBound, Finished
    <3> QED
      BY <2>1, <3>1, <3>2
  <2>4. OtherTypes'
    BY <2>1 DEF HistoryTypes, OtherTypes
  <2> QED
    BY <2>3, <2>4 DEF HistoryTypes
<1>3. CASE H!HookAges
  BY <1>3 DEF H!HookAges, H!hubVars, H!log, H!bounds, HistoryTypes, HubTypes, StreakBound, Finished, OtherTypes
<1>4. CASE H!DeviceMoves
  <2>1. real' \in SUBSET Macs
    BY <1>0, <1>4 DEF H!DeviceMoves
  <2> QED
    BY <1>4, <2>1 DEF H!DeviceMoves, H!hubVars, H!log, HistoryTypes, HubTypes, StreakBound, Finished, OtherTypes
<1>5. CASE H!HubRestart
  <2>1. /\ hookRecent' = FALSE /\ refresh' = H!Idle /\ late' = None
        /\ watched' = online \cap Configured
        /\ UNCHANGED <<real, lane, online, streak, blank, refreshes>>
    BY <1>5 DEF H!HubRestart, H!canonical
  <2>2. refresh' \in RefreshState /\ refresh'.pc = "idle"
    BY <2>1 DEF H!Idle, RefreshState
  <2>3. StreakBound'
    <3>1. /\ streak \in Nat /\ EmptyConfirmations \in Nat /\ refreshes \in Nat
          /\ Finished \in Nat /\ Finished <= refreshes /\ Finished' = refreshes
      BY <2>1, <2>2, DeviceLimits DEF HistoryTypes, HubTypes, StreakBound, Finished
    <3> QED
      BY <2>1, <2>2, <3>1 DEF HistoryTypes, StreakBound
  <2>4. agent.list \in SUBSET Macs /\ agent \in Cycle
    BY CycleFields DEF HistoryTypes, OtherTypes
  <2>5. \A m \in Macs : H!Transition(agent.list, m) \in {"none", "on", "off"}
    BY DEF H!Transition, HistoryTypes, HubTypes
  <2>6. /\ evt' \in [Macs -> {"none", "on", "off"}] /\ archive' \in SUBSET Macs
        /\ offs' \in SUBSET Macs /\ silent' \in SUBSET Macs /\ stray' \in SUBSET Macs
        /\ agent' \in Cycle
    <3>1. CASE UNCHANGED <<evt, offs, silent, stray, archive, agent>>
      BY <3>1 DEF HistoryTypes, HubTypes, OtherTypes
    <3>2. CASE /\ evt' = [m \in Macs |-> H!Transition(agent.list, m)]
               /\ offs' = offs \cup (online \ agent.list) /\ stray' = stray
               /\ archive' = archive \cup agent.list \cup online
               /\ silent' = silent \cup (online \ agent.list) \cup (agent.list \ online)
               /\ agent' = [agent EXCEPT !.pc = "collect"]
      <4>1. agent' \in Cycle
        BY <2>4, <3>2 DEF Cycle
      <4> QED
        BY <2>4, <2>5, <3>2, <4>1 DEF HistoryTypes, HubTypes
    <3> QED
      BY <1>5, <3>1, <3>2 DEF H!HubRestart, H!Record, H!log
  <2> QED
    BY <2>1, <2>2, <2>3, <2>6 DEF HistoryTypes, HubTypes, OtherTypes
<1> QED
  BY <1>1, <1>2, <1>3, <1>4, <1>5

-----------------------------------------------------------------------------
(* The realtime fan-out (Realtime) *)

LaneState ==
  [pc : {"idle", "read", "stored", "put", "room", "retry"},
   frame : R!Frames \cup {R!NoFrame}, todo : SUBSET Clients]
Connection ==
  [pc : {"new", "replay_whole", "replay_rows", "replay_latest", "loop", "gone"},
   whole : 0..MaxWhole, rows : R!List, frames : Seq(R!Frames)]
Known == [rows : R!List, known : BOOLEAN, streak : 0..EmptyConfirmations]

FanoutTypes ==
  /\ truth \in R!List /\ whole \in 0..MaxWhole /\ rows \in R!List /\ latest \in Known
  /\ lanes \in [R!Lanes -> LaneState] /\ client \in [Clients -> Connection]
  /\ \A c \in Clients : Len(client[c].frames) <= QueueSize
  /\ latest.rows # R!Empty => latest.streak < EmptyConfirmations

InQueue == {"put", "room", "retry"}

\* What a lane carries, and for whom.  A connection that has not registered is
\* in no lane's list and its queue is empty.
Carried ==
  /\ \A l \in R!Lanes :
       /\ lanes[l].todo # {} <=> lanes[l].pc \in InQueue
       /\ lanes[l].pc # "idle" => lanes[l].frame \in R!Frames
       /\ l # "whole" => lanes[l].frame.kind # "whole"
       /\ \A c \in lanes[l].todo : client[c].pc # "new"
  /\ lanes["whole"].pc # "idle" => lanes["whole"].frame = R!Frame("whole", whole)
  /\ \A c \in Clients : client[c].pc = "new" => client[c].frames = <<>>

\* The last whole frame of a queue says v.
Leads(frames, v) ==
  \E i \in DOMAIN frames :
    /\ frames[i].kind = "whole" /\ frames[i].value = v
    /\ \A j \in DOMAIN frames : j > i => frames[j].kind # "whole"

\* The whole lane still has its frame for c.
Coming(c) == lanes["whole"].pc = "stored" \/ c \in lanes["whole"].todo

\* Where the queue leads an APP in state s: to the latest whole value, or there is
\* nothing in it and the APP shows that value already, or will read it.
Catches(s, w) ==
  \/ s.pc \in {"new", "gone"}
  \/ Leads(s.frames, w)
  \/ ~ R!HasWhole(s.frames) /\ (s.pc = "replay_whole" \/ s.whole = w)

\* Whoever nothing is coming to and who has lost nothing is led to the latest.
Caught == \A c \in Clients \ missed : Coming(c) \/ Catches(client[c], whole)

FanoutInv == FanoutTypes /\ Carried /\ Caught

LEMMA FrameFields ==
  /\ \A f \in R!Frames : f.kind \in {"whole", "delta", "snapshot"}
  /\ \A f \in R!Frames : f.kind = "whole" => f.value \in 0..MaxWhole
  /\ \A f \in R!Frames : f.kind # "whole" => f.value \in R!List
  /\ R!NoFrame.kind = "none"
  /\ \A v \in 1..MaxWhole : R!Frame("whole", v) \in R!Frames
  /\ \A v \in R!List : R!Frame("delta", v) \in R!Frames /\ R!Frame("snapshot", v) \in R!Frames
  /\ \A k, v : R!Frame(k, v).kind = k /\ R!Frame(k, v).value = v
BY DEF R!Frames, R!NoFrame, R!Frame

(* Queues *)
LEMMA AppendWhole ==
  ASSUME NEW frames \in Seq(R!Frames), NEW f \in R!Frames, f.kind = "whole"
  PROVE  Leads(Append(frames, f), f.value)
BY DEF Leads

LEMMA AppendOther ==
  ASSUME NEW frames \in Seq(R!Frames), NEW f \in R!Frames, f.kind # "whole"
  PROVE  /\ \A v : Leads(frames, v) => Leads(Append(frames, f), v)
         /\ ~ R!HasWhole(frames) => ~ R!HasWhole(Append(frames, f))
BY DEF Leads, R!HasWhole

LEMMA TailOf ==
  ASSUME NEW frames \in Seq(R!Frames), frames # <<>>
  PROVE  /\ Tail(frames) \in Seq(R!Frames) /\ Head(frames) \in R!Frames
         /\ Len(Tail(frames)) = Len(frames) - 1
         /\ \A v : Leads(frames, v) /\ R!HasWhole(Tail(frames)) => Leads(Tail(frames), v)
         /\ \A v : Leads(frames, v) /\ ~ R!HasWhole(Tail(frames)) =>
                     Head(frames).kind = "whole" /\ Head(frames).value = v
         /\ ~ R!HasWhole(frames) => ~ R!HasWhole(Tail(frames)) /\ Head(frames).kind # "whole"
<1>1. /\ Tail(frames) \in Seq(R!Frames) /\ Head(frames) \in R!Frames
      /\ Len(Tail(frames)) = Len(frames) - 1 /\ Head(frames) = frames[1]
      /\ DOMAIN Tail(frames) = 1..(Len(frames) - 1) /\ DOMAIN frames = 1..Len(frames)
      /\ Len(frames) \in Nat /\ Len(frames) > 0
      /\ \A i \in 1..(Len(frames) - 1) : Tail(frames)[i] = frames[i + 1]
  OBVIOUS
<1>2. \A i \in DOMAIN Tail(frames) : i + 1 \in DOMAIN frames /\ Tail(frames)[i] = frames[i + 1]
  BY <1>1
<1>3. \A i \in DOMAIN frames : i # 1 => i - 1 \in DOMAIN Tail(frames) /\ Tail(frames)[i - 1] = frames[i]
  BY <1>1
<1>4. ASSUME NEW v, Leads(frames, v), R!HasWhole(Tail(frames)) PROVE Leads(Tail(frames), v)
  <2>1. PICK i \in DOMAIN frames :
          /\ frames[i].kind = "whole" /\ frames[i].value = v
          /\ \A j \in DOMAIN frames : j > i => frames[j].kind # "whole"
    BY <1>4 DEF Leads
  <2>2. PICK k \in DOMAIN Tail(frames) : Tail(frames)[k].kind = "whole"
    BY <1>4 DEF R!HasWhole
  <2>3. i # 1
    BY <1>1, <1>2, <2>1, <2>2
  <2>4. i - 1 \in DOMAIN Tail(frames) /\ Tail(frames)[i - 1] = frames[i]
    BY <1>3, <2>3
  <2>5. \A j \in DOMAIN Tail(frames) : j > i - 1 => Tail(frames)[j].kind # "whole"
    BY <1>1, <1>2, <2>1
  <2> QED
    BY <2>1, <2>4, <2>5 DEF Leads
<1>5. ASSUME NEW v, Leads(frames, v), ~ R!HasWhole(Tail(frames))
      PROVE  Head(frames).kind = "whole" /\ Head(frames).value = v
  BY <1>1, <1>3, <1>5 DEF Leads, R!HasWhole
<1>6. ASSUME ~ R!HasWhole(frames)
      PROVE  ~ R!HasWhole(Tail(frames)) /\ Head(frames).kind # "whole"
  BY <1>1, <1>2, <1>6 DEF R!HasWhole
<1> QED
  BY <1>1, <1>4, <1>5, <1>6

LEMMA FanoutInit == ASSUME R!Init PROVE FanoutInv
<1>1. R!Empty \in R!List
  BY DEF R!Empty, R!List
<1>2. R!Fresh \in Connection /\ R!Fresh.pc = "new" /\ R!Fresh.frames = <<>>
  BY <1>1, DeviceLimits DEF R!Fresh, Connection
<1>3. R!Idle \in LaneState /\ R!Idle.pc = "idle" /\ R!Idle.todo = {} /\ R!Idle.frame = R!NoFrame
  BY DEF R!Idle, LaneState
<1>4. latest \in Known /\ latest.rows = R!Empty
  BY <1>1, DeviceLimits DEF R!Init, Known
<1>5. FanoutTypes
  BY <1>1, <1>2, <1>3, <1>4, DeviceLimits DEF R!Init, FanoutTypes
<1>6. Carried
  BY <1>2, <1>3, FrameFields DEF R!Init, Carried, R!Lanes, InQueue
<1>7. Caught
  BY <1>2 DEF R!Init, Caught, Catches
<1> QED
  BY <1>5, <1>6, <1>7 DEF FanoutInv

LEMMA LaneFields ==
  /\ \A s \in LaneState : /\ s.pc \in {"idle", "read", "stored", "put", "room", "retry"}
                          /\ s.frame \in R!Frames \cup {R!NoFrame} /\ s.todo \in SUBSET Clients
  /\ \A p \in {"idle", "read", "stored", "put", "room", "retry"}, f \in R!Frames \cup {R!NoFrame},
        t \in SUBSET Clients :
       LET s == [pc |-> p, frame |-> f, todo |-> t] IN
       s \in LaneState /\ s.pc = p /\ s.frame = f /\ s.todo = t
  /\ R!Idle \in LaneState /\ R!Idle.pc = "idle" /\ R!Idle.todo = {} /\ R!Idle.frame = R!NoFrame
BY DEF LaneState, R!Idle

LEMMA LaneGoes ==
  ASSUME NEW s \in LaneState, NEW p \in {"stored", "room", "retry"}
  PROVE  LET q == [s EXCEPT !.pc = p] IN
         q \in LaneState /\ q.pc = p /\ q.frame = s.frame /\ q.todo = s.todo
BY DEF LaneState

LEMMA ConnectionFields ==
  /\ \A s \in Connection :
       /\ s.pc \in {"new", "replay_whole", "replay_rows", "replay_latest", "loop", "gone"}
       /\ s.whole \in 0..MaxWhole /\ s.rows \in R!List /\ s.frames \in Seq(R!Frames)
BY DEF Connection

LEMMA ConnectionQueue ==
  ASSUME NEW s \in Connection, NEW f \in Seq(R!Frames)
  PROVE  LET q == [s EXCEPT !.frames = f] IN
         q \in Connection /\ q.pc = s.pc /\ q.whole = s.whole /\ q.frames = f
BY DEF Connection

(* One lane moves, at most. *)
LEMMA LaneMoves ==
  ASSUME FanoutInv, NEW l \in R!Lanes, NEW s \in LaneState, lanes' = [lanes EXCEPT ![l] = s]
  PROVE  /\ lanes' \in [R!Lanes -> LaneState] /\ lanes'[l] = s
         /\ \A k \in R!Lanes : k # l => lanes'[k] = lanes[k]
BY DEF FanoutInv, FanoutTypes

(* One connection moves, at most. *)
LEMMA ClientMoves ==
  ASSUME FanoutInv, NEW c \in Clients, NEW s \in Connection, client' = [client EXCEPT ![c] = s],
         Len(s.frames) <= QueueSize
  PROVE  /\ client' \in [Clients -> Connection] /\ client'[c] = s
         /\ \A d \in Clients : d # c => client'[d] = client[d]
         /\ \A d \in Clients : Len(client'[d].frames) <= QueueSize
BY DEF FanoutInv, FanoutTypes

(* A lane is between two publications: it begins one, or ends one. *)
LEMMA LaneBegins ==
  ASSUME FanoutInv, NEW l \in R!Lanes, NEW s \in LaneState,
         lanes' = [lanes EXCEPT ![l] = s], UNCHANGED <<client, missed>>,
         lanes[l].todo = {}, s.todo = {}, s.pc \notin InQueue,
         s.pc # "idle" => s.frame \in R!Frames,
         l # "whole" => s.frame.kind # "whole" /\ whole' = whole,
         l = "whole" => s.pc = "stored" /\ s.frame = R!Frame("whole", whole')
  PROVE  Carried' /\ Caught'
<1>1. /\ lanes' \in [R!Lanes -> LaneState] /\ lanes'[l] = s
      /\ \A k \in R!Lanes : k # l => lanes'[k] = lanes[k]
  BY LaneMoves
<1>2. Carried'
  BY <1>1 DEF FanoutInv, Carried, R!Lanes
<1>3. ASSUME NEW c \in Clients \ missed PROVE Coming(c)' \/ Catches(client[c], whole)'
  <2>1. CASE l = "whole"
    BY <1>1, <2>1 DEF Coming
  <2>2. CASE l # "whole"
    BY <1>1, <1>3, <2>2 DEF FanoutInv, Caught, Coming, Catches, R!Lanes
  <2> QED
    BY <2>1, <2>2
<1> QED
  BY <1>2, <1>3 DEF Caught

LEMMA StoringKeeps ==
  ASSUME FanoutInv, R!Moves \/ R!accept_router_fast \/ R!accept_push \/ R!Poll
  PROVE  FanoutInv'
<1> USE DEF R!Lanes
<1>0. /\ FanoutTypes /\ lanes \in [R!Lanes -> LaneState] /\ truth \in R!List
      /\ whole \in 0..MaxWhole /\ MaxWhole \in Nat
      /\ \A l \in R!Lanes : lanes[l].pc \notin InQueue => lanes[l].todo = {}
  BY DeviceLimits DEF FanoutInv, FanoutTypes, Carried
<1>1. CASE R!Moves
  BY <1>1 DEF R!Moves, FanoutInv, FanoutTypes, Carried, Caught, Coming
<1>2. CASE R!accept_router_fast
  <2> DEFINE f == R!Frame("whole", whole + 1)
             s == [pc |-> "stored", frame |-> f, todo |-> {}]
  <2>1. /\ whole < MaxWhole /\ whole' = whole + 1 /\ lanes' = [lanes EXCEPT !["whole"] = s]
        /\ lanes["whole"].pc = "idle"
        /\ UNCHANGED <<truth, rows, latest, client, missed>>
    BY <1>2 DEF R!accept_router_fast, R!Stored
  <2>2. f \in R!Frames /\ whole' \in 0..MaxWhole
    BY <1>0, <2>1, FrameFields
  <2>3. s \in LaneState /\ s.pc = "stored" /\ s.frame = f /\ s.todo = {}
    BY <2>2, LaneFields
  <2> HIDE DEF s
  <2>4. lanes["whole"].todo = {}
    BY <1>0, <2>1 DEF InQueue
  <2>5. f = R!Frame("whole", whole')
    BY <2>1
  <2> HIDE DEF f
  <2>6. Carried' /\ Caught'
    BY <2>1, <2>2, <2>3, <2>4, <2>5, LaneBegins DEF InQueue
  <2>7. lanes' \in [R!Lanes -> LaneState]
    BY <2>1, <2>3, LaneMoves
  <2> QED
    BY <1>0, <2>1, <2>2, <2>6, <2>7 DEF FanoutInv, FanoutTypes
<1>3. CASE R!accept_push
  <2> DEFINE f == R!Frame("delta", R!Delta(truth))
             s == [pc |-> "stored", frame |-> f, todo |-> {}]
  <2>1. /\ rows' = truth /\ lanes' = [lanes EXCEPT !["push"] = s]
        /\ lanes["push"].pc = "idle"
        /\ UNCHANGED <<truth, whole, latest, client, missed>>
    BY <1>3 DEF R!accept_push, R!Stored
  <2>2. R!Delta(truth) \in R!List
    BY <1>0 DEF R!Delta, R!List
  <2>3. f \in R!Frames /\ f.kind = "delta"
    BY <2>2, FrameFields
  <2>4. s \in LaneState /\ s.pc = "stored" /\ s.frame = f /\ s.todo = {}
    BY <2>3, LaneFields
  <2> HIDE DEF s, f
  <2>5. lanes["push"].todo = {}
    BY <1>0, <2>1 DEF InQueue
  <2>6. Carried' /\ Caught'
    BY <2>1, <2>3, <2>4, <2>5, LaneBegins DEF InQueue
  <2>7. lanes' \in [R!Lanes -> LaneState]
    BY <2>1, <2>4, LaneMoves
  <2> QED
    BY <1>0, <2>1, <2>6, <2>7 DEF FanoutInv, FanoutTypes
<1>4. CASE R!PollReads
  <2> DEFINE f == R!Frame("snapshot", truth)
             s == [pc |-> "read", frame |-> f, todo |-> {}]
  <2>1. /\ lanes' = [lanes EXCEPT !["poll"] = s] /\ lanes["poll"].pc = "idle"
        /\ UNCHANGED <<truth, whole, rows, latest, client, missed>>
    BY <1>4 DEF R!PollReads
  <2>2. f \in R!Frames /\ f.kind = "snapshot"
    BY <1>0, FrameFields
  <2>3. s \in LaneState /\ s.pc = "read" /\ s.frame = f /\ s.todo = {}
    BY <2>2, LaneFields
  <2> HIDE DEF s, f
  <2>4. lanes["poll"].todo = {}
    BY <1>0, <2>1 DEF InQueue
  <2>5. Carried' /\ Caught'
    BY <2>1, <2>2, <2>3, <2>4, LaneBegins DEF InQueue
  <2>6. lanes' \in [R!Lanes -> LaneState]
    BY <2>1, <2>3, LaneMoves
  <2> QED
    BY <1>0, <2>1, <2>5, <2>6 DEF FanoutInv, FanoutTypes
<1>5. CASE R!PollKeeps
  <2> DEFINE p == lanes["poll"]
             list == p.frame.value
             n == IF list = R!Empty /\ latest.rows # R!Empty THEN latest.streak + 1 ELSE 0
  <2>1. p.pc = "read" /\ UNCHANGED <<truth, whole, rows, client, missed>>
    BY <1>5 DEF R!PollKeeps
  <2>2. p \in LaneState /\ p.frame \in R!Frames /\ p.frame.kind # "whole" /\ p.todo = {}
    BY <1>0, <2>1 DEF FanoutInv, Carried, InQueue
  <2>3. list \in R!List
    BY <2>2, FrameFields
  <2>4. /\ latest.rows \in R!List /\ latest.known \in BOOLEAN /\ latest.streak \in Nat
        /\ latest.rows # R!Empty => latest.streak < EmptyConfirmations
        /\ EmptyConfirmations \in Nat /\ EmptyConfirmations > 0
    BY <1>0, DeviceLimits DEF FanoutTypes, Known
  <2>5. CASE R!Deferred(list)
    <3>1. latest' = [latest EXCEPT !.streak = n] /\ lanes' = [lanes EXCEPT !["poll"] = R!Idle]
      BY <1>5, <2>5 DEF R!PollKeeps
    <3>2. latest' \in Known /\ latest'.streak < EmptyConfirmations
      <4>1. n \in 0..EmptyConfirmations /\ n < EmptyConfirmations
        BY <2>4, <2>5 DEF R!Deferred
      <4> HIDE DEF n
      <4> QED
        BY <1>0, <3>1, <4>1 DEF FanoutTypes, Known
    <3>3. /\ R!Idle \in LaneState /\ R!Idle.pc = "idle" /\ R!Idle.todo = {}
          /\ R!Idle.frame.kind = "none"
      BY LaneFields, FrameFields
    <3>4. Carried' /\ Caught' /\ lanes' \in [R!Lanes -> LaneState]
      BY <2>1, <2>2, <3>1, <3>3, LaneBegins, LaneMoves DEF InQueue
    <3> QED
      BY <1>0, <2>1, <3>2, <3>4 DEF FanoutInv, FanoutTypes
  <2>6. CASE ~ R!Deferred(list)
    <3> DEFINE s == [p EXCEPT !.pc = "stored"]
    <3>1. latest' = [rows |-> list, known |-> TRUE, streak |-> n]
      BY <1>5, <2>6 DEF R!PollKeeps
    <3>2. lanes' = [lanes EXCEPT !["poll"] = s]
      BY <1>5, <2>6 DEF R!PollKeeps
    <3>3. latest' \in Known /\ (latest'.rows # R!Empty => latest'.streak < EmptyConfirmations)
      <4>1. n \in 0..EmptyConfirmations /\ (list # R!Empty => n = 0)
        BY <2>4, <2>6 DEF R!Deferred
      <4> HIDE DEF n
      <4> QED
        BY <2>3, <2>4, <3>1, <4>1 DEF Known
    <3>4. s \in LaneState /\ s.pc = "stored" /\ s.frame = p.frame /\ s.todo = {}
      BY <2>2, LaneGoes
    <3> HIDE DEF s
    <3>5. Carried' /\ Caught' /\ lanes' \in [R!Lanes -> LaneState]
      BY <2>1, <2>2, <3>2, <3>4, LaneBegins, LaneMoves DEF InQueue
    <3> QED
      BY <1>0, <2>1, <3>3, <3>5 DEF FanoutInv, FanoutTypes
  <2> QED
    BY <2>5, <2>6
<1> QED
  BY <1>1, <1>2, <1>3, <1>4, <1>5 DEF R!Poll

(* A lane goes to the clients in todo, or ends. *)
LEMMA PuttingMoves ==
  ASSUME FanoutInv, NEW l \in R!Lanes, NEW todo \in SUBSET Clients, R!Putting(l, todo)
  PROVE  /\ lanes' \in [R!Lanes -> LaneState]
         /\ \A k \in R!Lanes : k # l => lanes'[k] = lanes[k]
         /\ lanes'[l].todo = todo
         /\ lanes'[l].pc = (IF todo = {} THEN "idle" ELSE "put")
         /\ lanes'[l].frame = (IF todo = {} THEN R!NoFrame ELSE lanes[l].frame)
<1> DEFINE s == IF todo = {} THEN R!Idle
                ELSE [pc |-> "put", frame |-> lanes[l].frame, todo |-> todo]
<1>1. lanes' = [lanes EXCEPT ![l] = s]
  BY DEF R!Putting
<1>2. lanes[l].frame \in R!Frames \cup {R!NoFrame}
  BY LaneFields DEF FanoutInv, FanoutTypes
<1>3. /\ s \in LaneState /\ s.todo = todo /\ s.pc = (IF todo = {} THEN "idle" ELSE "put")
      /\ s.frame = (IF todo = {} THEN R!NoFrame ELSE lanes[l].frame)
  <2>1. CASE todo = {}
    BY <2>1, LaneFields
  <2>2. CASE todo # {}
    BY <1>2, <2>2 DEF LaneState
  <2> QED
    BY <2>1, <2>2
<1> HIDE DEF s
<1>4. /\ lanes' \in [R!Lanes -> LaneState] /\ lanes'[l] = s
      /\ \A k \in R!Lanes : k # l => lanes'[k] = lanes[k]
  BY <1>1, <1>3, LaneMoves
<1> QED
  BY <1>3, <1>4

(* What a lane keeps when it moves on with its frame. *)
LEMMA CarriedOn ==
  ASSUME FanoutInv, NEW l \in R!Lanes, whole' = whole,
         \A k \in R!Lanes : k # l => lanes'[k] = lanes[k],
         lanes'[l].todo \subseteq Clients,
         lanes'[l].todo # {} <=> lanes'[l].pc \in InQueue,
         lanes[l].pc # "idle",
         lanes'[l].pc # "idle" => lanes'[l].frame = lanes[l].frame,
         lanes'[l].pc = "idle" => lanes'[l].frame = R!NoFrame,
         \A d \in Clients : client'[d].pc = "new" =>
            client[d].pc = "new" /\ client'[d].frames = client[d].frames,
         \A d \in lanes'[l].todo : client'[d].pc # "new"
  PROVE  Carried'
<1> USE DEF R!Lanes
<1>1. /\ lanes[l].frame \in R!Frames /\ (l # "whole" => lanes[l].frame.kind # "whole")
      /\ (l = "whole" => lanes[l].frame = R!Frame("whole", whole))
  BY DEF FanoutInv, Carried
<1>2. R!NoFrame.kind # "whole"
  BY FrameFields
<1>3. \A k \in R!Lanes : lanes[k].todo \subseteq Clients
  BY LaneFields DEF FanoutInv, FanoutTypes
<1>4. ASSUME NEW k \in R!Lanes
      PROVE  /\ lanes'[k].todo # {} <=> lanes'[k].pc \in InQueue
             /\ lanes'[k].pc # "idle" => lanes'[k].frame \in R!Frames
             /\ k # "whole" => lanes'[k].frame.kind # "whole"
             /\ \A c \in lanes'[k].todo : client'[c].pc # "new"
  <2>1. CASE k = l
    BY <1>1, <1>2, <2>1
  <2>2. CASE k # l
    BY <1>3, <2>2 DEF FanoutInv, Carried
  <2> QED
    BY <2>1, <2>2
<1>5. lanes'["whole"].pc # "idle" => lanes'["whole"].frame = R!Frame("whole", whole)'
  <2>1. CASE l = "whole"
    BY <1>1, <2>1 DEF R!Frame
  <2>2. CASE l # "whole"
    BY <2>2 DEF FanoutInv, Carried, R!Frame
  <2> QED
    BY <2>1, <2>2
<1>6. \A c \in Clients : client'[c].pc = "new" => client'[c].frames = <<>>
  BY DEF FanoutInv, Carried
<1> QED
  BY <1>4, <1>5, <1>6 DEF Carried

LEMMA PublishKeeps ==
  ASSUME FanoutInv, NEW l \in R!Lanes, R!Publish(l)
  PROVE  FanoutInv'
<1>1. /\ lanes[l].pc = "stored" /\ R!Putting(l, R!Registered)
      /\ UNCHANGED <<truth, whole, rows, latest, client, missed>>
  BY DEF R!Publish
<1>2. /\ R!Registered \in SUBSET Clients
      /\ \A c \in Clients : c \in R!Registered <=> client[c].pc \notin {"new", "gone"}
  BY DEF R!Registered
<1>3. /\ lanes' \in [R!Lanes -> LaneState]
      /\ \A k \in R!Lanes : k # l => lanes'[k] = lanes[k]
      /\ lanes'[l].todo = R!Registered
      /\ lanes'[l].pc = (IF R!Registered = {} THEN "idle" ELSE "put")
      /\ lanes'[l].frame = (IF R!Registered = {} THEN R!NoFrame ELSE lanes[l].frame)
  BY <1>1, <1>2, PuttingMoves
<1>4. Carried'
  BY <1>1, <1>2, <1>3, CarriedOn DEF InQueue
<1>5. Caught'
  <2> SUFFICES ASSUME NEW c \in Clients \ missed
               PROVE  Coming(c)' \/ Catches(client[c], whole)'
    BY <1>1 DEF Caught
  <2>1. CASE l = "whole"
    BY <1>1, <1>2, <1>3, <2>1 DEF Coming, Catches
  <2>2. CASE l # "whole"
    BY <1>1, <1>3, <2>2 DEF FanoutInv, Caught, Coming, Catches, R!Lanes
  <2> QED
    BY <2>1, <2>2
<1> QED
  BY <1>1, <1>3, <1>4, <1>5 DEF FanoutInv, FanoutTypes

(* The client a lane is at. *)
LEMMA AtOne ==
  ASSUME FanoutInv, NEW l \in R!Lanes, lanes[l].pc \in InQueue
  PROVE  /\ R!At(l) \in lanes[l].todo /\ R!At(l) \in Clients /\ lanes[l].todo \subseteq Clients
         /\ client[R!At(l)] \in Connection /\ client[R!At(l)].pc # "new"
         /\ lanes[l].frame \in R!Frames /\ lanes[l] \in LaneState
         /\ (l # "whole" => lanes[l].frame.kind # "whole")
         /\ (l = "whole" => lanes[l].frame = R!Frame("whole", whole))
<1>1. lanes[l].todo # {} /\ lanes[l].todo \subseteq Clients /\ lanes[l] \in LaneState
  BY LaneFields DEF FanoutInv, FanoutTypes, Carried
<1>2. R!At(l) \in lanes[l].todo
  BY <1>1 DEF R!At
<1> QED
  BY <1>1, <1>2 DEF FanoutInv, FanoutTypes, Carried, InQueue

LEMMA FullKeeps ==
  ASSUME FanoutInv, NEW l \in R!Lanes, R!FindsFull(l)
  PROVE  FanoutInv'
<1> DEFINE s == [lanes[l] EXCEPT !.pc = "room"]
<1>1. /\ lanes[l].pc = "put" /\ lanes' = [lanes EXCEPT ![l] = s]
      /\ UNCHANGED <<truth, whole, rows, latest, client, missed>>
  BY DEF R!FindsFull
<1>2. lanes[l].pc \in InQueue
  BY <1>1 DEF InQueue
<1>3. s \in LaneState /\ s.pc = "room" /\ s.frame = lanes[l].frame /\ s.todo = lanes[l].todo
  BY <1>2, AtOne, LaneGoes
<1> HIDE DEF s
<1>4. /\ lanes' \in [R!Lanes -> LaneState] /\ lanes'[l] = s
      /\ \A k \in R!Lanes : k # l => lanes'[k] = lanes[k]
  BY <1>1, <1>3, LaneMoves
<1>5. Carried'
  BY <1>1, <1>2, <1>3, <1>4, AtOne, CarriedOn DEF InQueue, FanoutInv, Carried
<1>6. Caught'
  BY <1>1, <1>3, <1>4 DEF FanoutInv, Caught, Coming, Catches, R!Lanes
<1> QED
  BY <1>1, <1>4, <1>5, <1>6 DEF FanoutInv, FanoutTypes

LEMMA FitsKeeps ==
  ASSUME FanoutInv, NEW l \in R!Lanes, R!Fits(l)
  PROVE  FanoutInv'
<1> DEFINE a == R!At(l)
           f == lanes[l].frame
           s == [client[a] EXCEPT !.frames = Append(client[a].frames, f)]
<1>1. /\ lanes[l].pc \in {"put", "retry"} /\ Len(client[a].frames) < QueueSize
      /\ client' = [client EXCEPT ![a] = s]
      /\ missed' = (IF f.kind = "whole" THEN missed \ {a} ELSE missed)
      /\ R!Putting(l, lanes[l].todo \ {a})
      /\ UNCHANGED <<truth, whole, rows, latest>>
  <2>1. ~ (Len(client[a].frames) >= QueueSize)
    BY DEF R!Fits, R!Full, R!Queued
  <2>2. client[a].frames \in Seq(R!Frames)
    BY AtOne, ConnectionFields DEF R!Fits, InQueue
  <2> QED
    BY <2>1, <2>2, DeviceLimits DEF R!Fits, R!NextClient
<1>2. /\ a \in lanes[l].todo /\ a \in Clients /\ lanes[l].todo \subseteq Clients
      /\ client[a] \in Connection /\ client[a].pc # "new" /\ f \in R!Frames
      /\ (l # "whole" => f.kind # "whole")
      /\ (l = "whole" => f = R!Frame("whole", whole) /\ f.kind = "whole" /\ f.value = whole)
  BY <1>1, AtOne, FrameFields DEF InQueue
<1> HIDE DEF a, f
<1>3. client[a].frames \in Seq(R!Frames)
  BY <1>2, ConnectionFields
<1>4. /\ Append(client[a].frames, f) \in Seq(R!Frames)
      /\ Len(Append(client[a].frames, f)) <= QueueSize
  BY <1>1, <1>2, <1>3, DeviceLimits
<1>5. /\ s \in Connection /\ s.pc = client[a].pc /\ s.whole = client[a].whole
      /\ s.frames = Append(client[a].frames, f)
  BY <1>2, <1>4, ConnectionQueue
<1> HIDE DEF s
<1>6. /\ client' \in [Clients -> Connection] /\ client'[a] = s
      /\ \A d \in Clients : d # a => client'[d] = client[d]
      /\ \A d \in Clients : Len(client'[d].frames) <= QueueSize
  BY <1>1, <1>2, <1>4, <1>5, ClientMoves
<1>7. /\ lanes' \in [R!Lanes -> LaneState]
      /\ \A k \in R!Lanes : k # l => lanes'[k] = lanes[k]
      /\ lanes'[l].todo = lanes[l].todo \ {a}
      /\ lanes'[l].pc = (IF lanes[l].todo \ {a} = {} THEN "idle" ELSE "put")
      /\ lanes'[l].frame = (IF lanes[l].todo \ {a} = {} THEN R!NoFrame ELSE lanes[l].frame)
  BY <1>1, <1>2, PuttingMoves
<1>8. \A d \in lanes[l].todo : client'[d].pc # "new"
  BY <1>2, <1>5, <1>6 DEF FanoutInv, Carried
<1>9. Carried'
  <2>1. \A d \in Clients : client'[d].pc = "new" =>
          client[d].pc = "new" /\ client'[d].frames = client[d].frames
    BY <1>2, <1>5, <1>6
  <2> QED
    BY <1>1, <1>2, <1>7, <1>8, <2>1, CarriedOn DEF InQueue
<1>10. Caught'
  <2> SUFFICES ASSUME NEW c \in Clients, c \notin missed'
               PROVE  Coming(c)' \/ Catches(client[c], whole)'
    BY DEF Caught
  <2>1. CASE c # a
    <3>1. Coming(c) \/ Catches(client[c], whole)
      BY <1>1, <2>1 DEF FanoutInv, Caught
    <3>2. CASE Coming(c)
      BY <1>1, <1>7, <2>1, <3>2 DEF Coming, R!Lanes
    <3>3. CASE Catches(client[c], whole)
      BY <1>1, <1>6, <2>1, <3>3 DEF Catches
    <3> QED
      BY <3>1, <3>2, <3>3
  <2>2. CASE c = a /\ l = "whole"
    <3>1. Leads(s.frames, whole)
      BY <1>2, <1>3, <1>5, <2>2, AppendWhole
    <3> QED
      BY <1>1, <1>6, <2>2, <3>1 DEF Catches
  <2>3. CASE c = a /\ l # "whole"
    <3>1. a \notin missed
      BY <1>1, <1>2, <2>3
    <3>2. Coming(a) \/ Catches(client[a], whole)
      BY <1>2, <3>1 DEF FanoutInv, Caught
    <3>3. CASE Coming(a)
      BY <1>7, <2>3, <3>3 DEF Coming, R!Lanes
    <3>4. CASE Catches(client[a], whole)
      <4>1. Catches(s, whole)
        BY <1>2, <1>3, <1>5, <2>3, <3>4, AppendOther DEF Catches
      <4> QED
        BY <1>1, <1>6, <2>3, <4>1
    <3> QED
      BY <3>2, <3>3, <3>4
  <2> QED
    BY <2>1, <2>2, <2>3
<1> QED
  BY <1>1, <1>6, <1>7, <1>9, <1>10 DEF FanoutInv, FanoutTypes

LEMMA RoomKeeps ==
  ASSUME FanoutInv, NEW l \in R!Lanes, R!MakesRoom(l)
  PROVE  FanoutInv'
<1> DEFINE a == R!At(l)
           p == [lanes[l] EXCEPT !.pc = "retry"]
           s == [client[a] EXCEPT !.frames = Tail(client[a].frames)]
<1>1. /\ lanes[l].pc = "room" /\ lanes' = [lanes EXCEPT ![l] = p]
      /\ UNCHANGED <<truth, whole, rows, latest>>
      /\ IF client[a].frames = <<>> THEN UNCHANGED <<client, missed>>
         ELSE /\ client' = [client EXCEPT ![a] = s]
              /\ missed' = IF R!HasWhole(client[a].frames) /\ ~ R!HasWhole(Tail(client[a].frames))
                           THEN missed \cup {a} ELSE missed
  BY DEF R!MakesRoom, R!Queued
<1>2. /\ a \in lanes[l].todo /\ a \in Clients /\ lanes[l].todo \subseteq Clients
      /\ client[a] \in Connection /\ client[a].pc # "new" /\ lanes[l] \in LaneState
      /\ lanes[l].pc \in InQueue
  BY <1>1, AtOne DEF InQueue
<1>3. p \in LaneState /\ p.pc = "retry" /\ p.frame = lanes[l].frame /\ p.todo = lanes[l].todo
  BY <1>2, LaneGoes
<1> HIDE DEF a, p
<1>4. /\ lanes' \in [R!Lanes -> LaneState] /\ lanes'[l] = p
      /\ \A k \in R!Lanes : k # l => lanes'[k] = lanes[k]
  BY <1>1, <1>3, LaneMoves
<1>5. \A c \in Clients : Coming(c) => Coming(c)'
  BY <1>1, <1>3, <1>4 DEF Coming, R!Lanes
<1>6. CASE client[a].frames = <<>>
  <2>1. Carried'
    BY <1>1, <1>2, <1>3, <1>4, <1>6, CarriedOn DEF InQueue, FanoutInv, Carried
  <2>2. Caught'
    BY <1>1, <1>5, <1>6 DEF FanoutInv, Caught, Catches
  <2> QED
    BY <1>1, <1>4, <1>6, <2>1, <2>2 DEF FanoutInv, FanoutTypes
<1>7. CASE client[a].frames # <<>>
  <2> DEFINE q == client[a].frames
  <2>1. q \in Seq(R!Frames) /\ Len(q) <= QueueSize
    BY <1>2, ConnectionFields DEF FanoutInv, FanoutTypes
  <2>2. Tail(q) \in Seq(R!Frames) /\ Len(Tail(q)) <= QueueSize
    BY <1>7, <2>1, TailOf, DeviceLimits
  <2>3. s \in Connection /\ s.pc = client[a].pc /\ s.whole = client[a].whole /\ s.frames = Tail(q)
    BY <1>2, <2>2, ConnectionQueue
  <2>4. client' = [client EXCEPT ![a] = s]
    BY <1>1, <1>7
  <2> HIDE DEF s
  <2>5. /\ client' \in [Clients -> Connection] /\ client'[a] = s
        /\ \A d \in Clients : d # a => client'[d] = client[d]
        /\ \A d \in Clients : Len(client'[d].frames) <= QueueSize
    BY <1>2, <2>2, <2>3, <2>4, ClientMoves
  <2>6. Carried'
    <3>1. \A d \in lanes[l].todo : client'[d].pc # "new"
      BY <1>2, <2>3, <2>5 DEF FanoutInv, Carried
    <3>2. \A d \in Clients : client'[d].pc = "new" =>
            client[d].pc = "new" /\ client'[d].frames = client[d].frames
      BY <1>2, <2>3, <2>5
    <3> QED
      BY <1>1, <1>2, <1>3, <1>4, <3>1, <3>2, CarriedOn DEF InQueue
  <2>7. Caught'
    <3> SUFFICES ASSUME NEW c \in Clients, c \notin missed', ~ Coming(c)
                 PROVE  Catches(client'[c], whole)
      BY <1>1, <1>5 DEF Caught
    <3>1. Catches(client[c], whole)
      BY <1>1, <1>7 DEF FanoutInv, Caught
    <3>2. CASE c # a
      BY <2>5, <3>1, <3>2
    <3>3. CASE c = a
      <4>1. R!HasWhole(q) => R!HasWhole(Tail(q))
        BY <1>1, <1>7, <3>3
      <4>2. Leads(q, whole) => R!HasWhole(q)
        BY DEF Leads, R!HasWhole
      <4>3. Leads(q, whole) => Leads(Tail(q), whole)
        BY <1>7, <2>1, <4>1, <4>2, TailOf
      <4>4. ~ R!HasWhole(q) => ~ R!HasWhole(Tail(q))
        BY <1>7, <2>1, TailOf
      <4>5. Catches(s, whole)
        BY <2>3, <3>1, <3>3, <4>3, <4>4 DEF Catches
      <4> QED
        BY <2>5, <3>3, <4>5
    <3> QED
      BY <3>2, <3>3
  <2> QED
    BY <1>1, <1>4, <2>5, <2>6, <2>7 DEF FanoutInv, FanoutTypes
<1> QED
  BY <1>6, <1>7

LEMMA GivesUpKeeps ==
  ASSUME FanoutInv, NEW l \in R!Lanes, R!GivesUp(l)
  PROVE  FanoutInv'
<1> DEFINE a == R!At(l)
<1>1. /\ lanes[l].pc = "retry" /\ R!Putting(l, lanes[l].todo \ {a})
      /\ missed' = (IF lanes[l].frame.kind = "whole" THEN missed \cup {a} ELSE missed)
      /\ UNCHANGED <<truth, whole, rows, latest, client>>
  BY DEF R!GivesUp, R!NextClient
<1>2. /\ a \in lanes[l].todo /\ a \in Clients /\ lanes[l].todo \subseteq Clients
      /\ (l = "whole" => lanes[l].frame.kind = "whole")
  BY <1>1, AtOne, FrameFields DEF InQueue
<1> HIDE DEF a
<1>3. /\ lanes' \in [R!Lanes -> LaneState]
      /\ \A k \in R!Lanes : k # l => lanes'[k] = lanes[k]
      /\ lanes'[l].todo = lanes[l].todo \ {a}
      /\ lanes'[l].pc = (IF lanes[l].todo \ {a} = {} THEN "idle" ELSE "put")
      /\ lanes'[l].frame = (IF lanes[l].todo \ {a} = {} THEN R!NoFrame ELSE lanes[l].frame)
  BY <1>1, <1>2, PuttingMoves
<1>4. Carried'
  <2>1. \A d \in lanes[l].todo : client'[d].pc # "new"
    BY <1>1 DEF FanoutInv, Carried
  <2> QED
    BY <1>1, <1>2, <1>3, <2>1, CarriedOn DEF InQueue
<1>5. Caught'
  <2> SUFFICES ASSUME NEW c \in Clients, c \notin missed'
               PROVE  Coming(c)' \/ Catches(client[c], whole)'
    BY DEF Caught
  <2>1. Coming(c) \/ Catches(client[c], whole)
    BY <1>1 DEF FanoutInv, Caught
  <2>2. CASE Coming(c)
    BY <1>1, <1>2, <1>3, <2>2 DEF Coming, R!Lanes
  <2>3. CASE Catches(client[c], whole)
    BY <1>1, <2>3 DEF Catches
  <2> QED
    BY <2>1, <2>2, <2>3
<1> QED
  BY <1>1, <1>3, <1>4, <1>5 DEF FanoutInv, FanoutTypes

(* A connection's own step. *)
LEMMA ConnectionStep ==
  ASSUME FanoutInv, NEW c \in Clients, NEW s \in Connection,
         client' = [client EXCEPT ![c] = s], Len(s.frames) <= QueueSize, s.pc # "new",
         UNCHANGED <<truth, whole, rows, latest, lanes, missed>>,
         c \notin missed /\ ~ Coming(c) => Catches(s, whole)
  PROVE  FanoutInv'
<1>1. /\ client' \in [Clients -> Connection] /\ client'[c] = s
      /\ \A d \in Clients : d # c => client'[d] = client[d]
      /\ \A d \in Clients : Len(client'[d].frames) <= QueueSize
  BY ClientMoves
<1>2. Carried'
  <2>1. \A l \in R!Lanes : lanes[l].todo \subseteq Clients
    BY LaneFields DEF FanoutInv, FanoutTypes
  <2> QED
    BY <1>1, <2>1 DEF FanoutInv, Carried, R!Frame
<1>3. Caught'
  <2> SUFFICES ASSUME NEW d \in Clients \ missed, ~ Coming(d) PROVE Catches(client'[d], whole)
    BY DEF Caught, Coming
  <2> QED
    BY <1>1 DEF FanoutInv, Caught
<1> QED
  BY <1>1, <1>2, <1>3 DEF FanoutInv, FanoutTypes

(* What the APP shows after a frame. *)
LEMMA ShownFields ==
  ASSUME NEW s \in Connection, NEW f \in R!Frames
  PROVE  /\ R!Shown(s, f) \in Connection /\ R!Shown(s, f).pc = s.pc
         /\ R!Shown(s, f).frames = s.frames
         /\ R!Shown(s, f).whole = IF f.kind = "whole" THEN f.value ELSE s.whole
<1>1. CASE f.kind = "whole"
  <2>1. R!Shown(s, f) = [s EXCEPT !.whole = f.value]
    BY <1>1 DEF R!Shown
  <2> QED
    BY <1>1, <2>1, FrameFields DEF Connection
<1>2. CASE f.kind = "delta"
  <2> DEFINE r == [m \in Terminals |-> IF f.value[m] = None THEN s.rows[m] ELSE f.value[m]]
  <2>1. R!Shown(s, f) = [s EXCEPT !.rows = r]
    BY <1>2 DEF R!Shown
  <2>2. f.value \in R!List /\ s.rows \in R!List
    BY <1>2, FrameFields, ConnectionFields
  <2>3. r \in R!List
    BY <2>2 DEF R!List
  <2> HIDE DEF r
  <2> QED
    BY <1>2, <2>1, <2>3 DEF Connection
<1>3. CASE f.kind = "snapshot"
  <2>1. R!Shown(s, f) = [s EXCEPT !.rows = f.value]
    BY <1>3 DEF R!Shown
  <2>2. f.value \in R!List
    BY <1>3, FrameFields
  <2> QED
    BY <1>3, <2>1, <2>2 DEF Connection
<1> QED
  BY <1>1, <1>2, <1>3, FrameFields

LEMMA SendKeeps ==
  ASSUME FanoutInv, NEW c \in Clients, R!Send(c)
  PROVE  FanoutInv'
<1> DEFINE q == client[c].frames
           t == R!Taken(client[c])
           s == R!Shown(t, Head(q))
<1>1. /\ client[c].pc = "loop" /\ q # <<>> /\ client' = [client EXCEPT ![c] = s]
      /\ UNCHANGED <<truth, whole, rows, latest, lanes, missed>>
  BY DEF R!Send
<1>2. client[c] \in Connection /\ q \in Seq(R!Frames) /\ Len(q) <= QueueSize
  BY ConnectionFields DEF FanoutInv, FanoutTypes
<1>3. /\ Tail(q) \in Seq(R!Frames) /\ Head(q) \in R!Frames /\ Len(Tail(q)) <= QueueSize
  BY <1>1, <1>2, TailOf, DeviceLimits
<1>4. t \in Connection /\ t.pc = "loop" /\ t.whole = client[c].whole /\ t.frames = Tail(q)
  BY <1>1, <1>2, <1>3, ConnectionQueue DEF R!Taken
<1> HIDE DEF t
<1>5. /\ s \in Connection /\ s.pc = "loop" /\ s.frames = Tail(q)
      /\ s.whole = IF Head(q).kind = "whole" THEN Head(q).value ELSE client[c].whole
  BY <1>3, <1>4, ShownFields
<1> HIDE DEF s
<1>6. ASSUME c \notin missed, ~ Coming(c) PROVE Catches(s, whole)
  <2>1. Leads(q, whole) \/ (~ R!HasWhole(q) /\ client[c].whole = whole)
    BY <1>1, <1>6 DEF FanoutInv, Caught, Catches
  <2>2. CASE Leads(q, whole)
    BY <1>1, <1>2, <1>5, <2>2, TailOf DEF Catches
  <2>3. CASE ~ R!HasWhole(q) /\ client[c].whole = whole
    BY <1>1, <1>2, <1>5, <2>3, TailOf DEF Catches
  <2> QED
    BY <2>1, <2>2, <2>3
<1> QED
  BY <1>1, <1>3, <1>5, <1>6, ConnectionStep

LEMMA RegisterKeeps ==
  ASSUME FanoutInv, NEW c \in Clients, R!Register(c) \/ R!Disconnect(c)
  PROVE  FanoutInv'
<1>0. client[c] \in Connection /\ Len(client[c].frames) <= QueueSize
  BY DEF FanoutInv, FanoutTypes
<1>1. CASE R!Register(c)
  <2> DEFINE s == [client[c] EXCEPT !.pc = "replay_whole"]
  <2>1. /\ client[c].pc = "new" /\ client' = [client EXCEPT ![c] = s]
        /\ UNCHANGED <<truth, whole, rows, latest, lanes, missed>>
    BY <1>1 DEF R!Register
  <2>2. client[c].frames = <<>>
    BY <2>1 DEF FanoutInv, Carried
  <2>3. s \in Connection /\ s.pc = "replay_whole" /\ s.frames = client[c].frames
    BY <1>0 DEF Connection
  <2> HIDE DEF s
  <2>4. ~ R!HasWhole(s.frames)
    BY <2>2, <2>3 DEF R!HasWhole
  <2> QED
    BY <1>0, <2>1, <2>3, <2>4, ConnectionStep DEF Catches
<1>2. CASE R!Disconnect(c)
  <2> DEFINE s == [R!Fresh EXCEPT !.pc = "gone"]
  <2>1. /\ client' = [client EXCEPT ![c] = s]
        /\ UNCHANGED <<truth, whole, rows, latest, lanes, missed>>
    BY <1>2 DEF R!Disconnect
  <2>2. R!Empty \in R!List
    BY DEF R!Empty, R!List
  <2>3. s \in Connection /\ s.pc = "gone" /\ s.frames = <<>>
    <3>1. s = [pc |-> "gone", whole |-> 0, rows |-> R!Empty, frames |-> <<>>]
      BY DEF R!Fresh
    <3> HIDE DEF s
    <3> QED
      BY <2>2, <3>1, DeviceLimits DEF Connection
  <2> HIDE DEF s
  <2>4. Len(s.frames) <= QueueSize
    BY <2>3, DeviceLimits
  <2> QED
    BY <2>1, <2>3, <2>4, ConnectionStep DEF Catches
<1> QED
  BY <1>1, <1>2

LEMMA ReplayKeeps ==
  ASSUME FanoutInv, NEW c \in Clients, R!Replay(c)
  PROVE  FanoutInv'
<1>0. /\ client[c] \in Connection /\ Len(client[c].frames) <= QueueSize
      /\ whole \in 0..MaxWhole /\ rows \in R!List /\ latest.rows \in R!List
      /\ UNCHANGED <<truth, whole, rows, latest, lanes, missed>>
  BY DEF R!Replay, FanoutInv, FanoutTypes, Known
<1>1. PICK p \in {"replay_rows", "replay_latest", "loop"}, v \in 0..MaxWhole, r \in R!List :
        /\ client' = [client EXCEPT ![c] = R!Replayed(client[c], p, v, r)]
        /\ client[c].pc \in {"replay_whole", "replay_rows", "replay_latest"}
        /\ v = whole \/ (client[c].pc # "replay_whole" /\ v = client[c].whole)
  <2>1. client[c].whole \in 0..MaxWhole /\ client[c].rows \in R!List
    BY <1>0, ConnectionFields
  <2> QED
    BY <1>0, <2>1 DEF R!Replay
<1> DEFINE s == R!Replayed(client[c], p, v, r)
<1>2. s \in Connection /\ s.pc = p /\ s.whole = v /\ s.frames = client[c].frames
  BY <1>0 DEF R!Replayed, Connection
<1> HIDE DEF s
<1>3. c \notin missed /\ ~ Coming(c) => Catches(s, whole)
  BY <1>1, <1>2 DEF FanoutInv, Caught, Catches
<1>4. client' = [client EXCEPT ![c] = s]
  BY <1>1 DEF s
<1> QED
  BY <1>0, <1>2, <1>3, <1>4, ConnectionStep

LEMMA FanoutStep == ASSUME FanoutInv, R!Next PROVE FanoutInv'
BY StoringKeeps, PublishKeeps, FullKeeps, FitsKeeps, RoomKeeps, GivesUpKeeps, SendKeeps,
   RegisterKeeps, ReplayKeeps DEF R!Next, R!Enqueue

(* What the invariant is for. *)
LEMMA CaughtShows == ASSUME FanoutInv PROVE R!LatestShown
<1> SUFFICES ASSUME NEW c \in Clients \ missed, R!Settled(c) PROVE client[c].whole = whole
  BY DEF R!LatestShown
<1>1. client[c].pc = "loop" /\ client[c].frames = <<>>
  BY DEF R!Settled
<1>2. ~ Coming(c)
  BY DEF R!Settled, Coming, FanoutInv, Carried, InQueue, R!Lanes
<1>3. Catches(client[c], whole)
  BY <1>2 DEF FanoutInv, Caught
<1>4. ~ Leads(<<>>, whole)
  BY DEF Leads
<1> QED
  BY <1>1, <1>3, <1>4 DEF Catches

-----------------------------------------------------------------------------
(* What the Hub keeps and shows of the terminals, composed (Devices) *)

DevicesInv == HistoryInv /\ HistoryTypes /\ Inv /\ FanoutInv

LEMMA DevicesInitially == DevicesInit => DevicesInv
BY HistoryInit, HistoryTypesInit, InitInv, FanoutInit DEF DevicesInit, DevicesInv

(* A component that rests keeps what it keeps. *)
LEMMA HistoryRests ==
  ASSUME HistoryInv, HistoryTypes, UNCHANGED historyVars
  PROVE  HistoryInv' /\ HistoryTypes'
<1>1. HistoryInv'
  BY AsideKeeps DEF historyVars
<1>2. HubTypes' /\ OtherTypes'
  BY DEF historyVars, HistoryTypes, HubTypes, OtherTypes
<1>3. StreakBound'
  BY DEF historyVars, HistoryTypes, StreakBound, Finished
<1> QED
  BY <1>1, <1>2, <1>3 DEF HistoryTypes

LEMMA RealtimeRests ==
  ASSUME FanoutInv, UNCHANGED realtimeVars
  PROVE  FanoutInv'
<1>1. FanoutTypes'
  BY DEF realtimeVars, FanoutInv, FanoutTypes
<1>2. Carried'
  BY DEF realtimeVars, FanoutInv, Carried, R!Frame
<1>3. Caught'
  BY DEF realtimeVars, FanoutInv, Caught, Coming
<1> QED
  BY <1>1, <1>2, <1>3 DEF FanoutInv

LEMMA DevicesStep == DevicesInv /\ [DevicesNext]_allVars => DevicesInv'
<1> SUFFICES ASSUME DevicesInv, [DevicesNext]_allVars PROVE DevicesInv'
  OBVIOUS
<1>0. HistoryInv /\ HistoryTypes /\ Inv /\ FanoutInv
  BY DEF DevicesInv
<1>1. H!Next \/ UNCHANGED historyVars
  BY DEF DevicesNext, allVars
<1>2. [Next]_vars
  BY DEF DevicesNext, allVars
<1>3. R!Next \/ UNCHANGED realtimeVars
  BY DEF DevicesNext, allVars
<1>4. HistoryInv' /\ HistoryTypes'
  <2>1. CASE H!Next
    BY <1>0, <2>1, HistoryStep, CycleTypes, RefreshTypes, WorldTypes DEF H!Next
  <2>2. CASE UNCHANGED historyVars
    BY <1>0, <2>2, HistoryRests
  <2> QED
    BY <1>1, <2>1, <2>2
<1>5. Inv'
  BY <1>0, <1>2, Step
<1>6. FanoutInv'
  BY <1>0, <1>3, FanoutStep, RealtimeRests
<1> QED
  BY <1>4, <1>5, <1>6 DEF DevicesInv

LEMMA DevicesInvariant == DevicesSpec => []DevicesInv
BY DevicesInitially, DevicesStep, PTL DEF DevicesSpec

(* The documents, the agent's cycle and the fan-out keep their types: no     *)
(* client queue of hub_realtime_ws.py outgrows CLIENT_QUEUE_SIZE, whoever    *)
(* puts at once, and a streak of empty lists outgrows EMPTY_CONFIRMATIONS    *)
(* by no more than the manual refreshes that came between.                   *)
THEOREM DeviceTypesKept == DevicesSpec => []DevicesTypeOK
<1>1. DevicesInv => DevicesTypeOK
  <2> SUFFICES ASSUME DevicesInv PROVE H!TypeOK /\ TypeOK /\ R!TypeOK
    BY DEF DevicesTypeOK
  <2>1. H!TypeOK
    <3>1. HubTypes /\ OtherTypes /\ StreakBound
      BY DEF DevicesInv, HistoryTypes
    <3>2. streak \in 0..(EmptyConfirmations + MaxRefresh)
      BY <3>1, DeviceLimits DEF HubTypes, StreakBound, Finished
    <3> QED
      BY <3>1, <3>2 DEF H!TypeOK, HubTypes, OtherTypes, Cycle, RefreshState
  <2>2. TypeOK
    BY DEF DevicesInv, Inv
  <2>3. R!TypeOK
    <3>1. FanoutTypes
      BY DEF DevicesInv, FanoutInv
    <3>2. ASSUME NEW l \in R!Lanes
          PROVE  /\ lanes[l].pc \in {"idle", "read", "stored", "put", "room", "retry"}
                 /\ lanes[l].frame \in R!Frames \cup {R!NoFrame} /\ lanes[l].todo \subseteq Clients
      BY <3>1, LaneFields DEF FanoutTypes
    <3>3. ASSUME NEW c \in Clients
          PROVE  /\ client[c].pc \in {"new", "replay_whole", "replay_rows", "replay_latest",
                                      "loop", "gone"}
                 /\ client[c].whole \in 0..MaxWhole /\ client[c].rows \in R!List
                 /\ client[c].frames \in Seq(R!Frames) /\ Len(client[c].frames) <= QueueSize
      BY <3>1, ConnectionFields DEF FanoutTypes
    <3> QED
      BY <3>1, <3>2, <3>3 DEF R!TypeOK, FanoutTypes, Known
  <2> QED
    BY <2>1, <2>2, <2>3
<1> QED
  BY <1>1, DevicesInvariant, PTL

(* For any day length, caps and traffic: a day is credited with no more      *)
(* online time than has passed of it, its rollup fits into it unless the     *)
(* device left over midnight, the live row is ahead by at most one capped    *)
(* gap, and the rollup's bytes exceed those moved on the day by no more than *)
(* the bytes of earlier days that the counter held when _advance_counter     *)
(* read it on this day.                                                      *)
THEOREM TotalsNeverExceed == DevicesSpec => []TotalsFit
<1>1. DevicesInv => TotalsFit
  BY Limits DEF DevicesInv, Inv, TypeOK, TotalsFit, DayHolds, DayInv, RollupFits, RollInv,
                LiveFits, LiveInv, TrafficInv
<1> QED
  BY <1>1, DevicesInvariant, PTL

(* The event log and the devices document tell one story, for any devices:   *)
(* however the hook, the durable lane, pushed events, late requests and      *)
(* restarts interleave, a device is in the document exactly when its last    *)
(* event in EVENTS_FILE says online, but for a device that a refresh or a    *)
(* cut-off ingestion (ingest of DurableDeviceHistory) treated in one of the  *)
(* two only, and one whose last event the push handler (add_event) took      *)
(* although the document contradicted it.                                    *)
THEOREM EventsTellTheDocument == DevicesSpec => []EventsFollowDevices
<1>1. DevicesInv => EventsFollowDevices
  BY DEF DevicesInv, HistoryInv, EventsFollowDevices
<1> QED
  BY <1>1, DevicesInvariant, PTL

(* For any EMPTY_CONFIRMATIONS: no report of the agent empties the devices   *)
(* document before that many empty lists in a row have been ingested, hook   *)
(* and lane counted together and restarts in between.                        *)
THEOREM EmptiedOnlyConfirmed == DevicesSpec => EmptyConfirmed
<1> DEFINE A == online # {} /\ online' = {} /\ refresh' = refresh => blank' >= EmptyConfirmations
<1>1. DevicesInv /\ [DevicesNext]_allVars => [A]_H!vars
  <2> SUFFICES ASSUME DevicesInv, [DevicesNext]_allVars PROVE A
    OBVIOUS
  <2>1. CASE H!Next
    BY <2>1, HistoryStep DEF DevicesInv, Emptying
  <2>2. CASE UNCHANGED online
    BY <2>2
  <2> QED
    BY <2>1, <2>2 DEF DevicesNext, allVars, historyVars
<1>2. EmptyConfirmed <=> [][A]_H!vars
  BY DEF EmptyConfirmed, H!EmptyConfirmed
<1> HIDE DEF DevicesInv, A
<1> QED
  BY <1>1, <1>2, DevicesInvariant, PTL DEF DevicesSpec

(* For any number of APPs and any queue size: an APP that has read its queue *)
(* shows the latest whole value, whatever was published while it registered  *)
(* and was replayed (_connect, _send_initial_snapshots) and however the      *)
(* lanes of hub_realtime_ws.py interleave at a full queue, unless the queue  *)
(* dropped that very frame.                                                  *)
THEOREM LatestAlwaysShown == DevicesSpec => []LatestShown
<1>1. DevicesInv => LatestShown
  BY CaughtShows DEF DevicesInv, LatestShown
<1> QED
  BY <1>1, DevicesInvariant, PTL
=============================================================================
