----------------------------- MODULE DeviceTotals -----------------------------
(***************************************************************************)
(* The day's online time and traffic of one device, as the Hub adds them   *)
(* up: update_daily_online_durations over the snapshots the agent posts,   *)
(* the daily rollup of DurableDeviceHistory, the router's traffic counter  *)
(* and the five-second live sampler, which keeps its own seconds in        *)
(* memory.  Time is a clock of DayLength ticks a day; it is never set back.*)
(***************************************************************************)
EXTENDS Integers

CONSTANTS
  DayLength,   \* ticks of a day
  GapCap,      \* a gap between snapshots counts for at most this (300 s)
  LiveCap,     \* a gap between live samples counts for at most this (30 s)
  MaxDay,      \* bound: days
  MaxMoved     \* bound: bytes the device moves

ASSUME Limits ==
  /\ DayLength \in Nat \ {0} /\ GapCap \in Nat /\ LiveCap \in Nat
  /\ MaxDay \in Nat /\ MaxMoved \in Nat

VARIABLES
  day, clock,  \* local date and time of day
  present,     \* the device is connected
  daily,       \* its entry of DAILY_ONLINE_FILE: date, seconds, online, last sample
  row,         \* its row of DEVICES_FILE.online
  roll,        \* per day, its rollup: seconds, bytes, last counter seen
  live, age,   \* the live sampler's row, ticks since it was sampled (up to LiveCap)
  counter,     \* todayUpload on the router
  moved,       \* history: bytes the device moved, per day
  stale,       \* history: bytes of the counter that were moved on earlier days
  brought,     \* history: most such bytes in a reading of the counter, per day
  carried      \* history: a rollup took over seconds of another day

traffic == <<counter, moved, stale, brought>>
vars == <<day, clock, present, daily, row, roll, live, age, traffic, carried>>

Days == 0..MaxDay
Larger(a, b) == IF a >= b THEN a ELSE b
Smaller(a, b) == IF a <= b THEN a ELSE b
NoRoll == [seconds |-> 0, bytes |-> 0, last |-> 0]
NoRow == [date |-> 0, seconds |-> 0, online |-> FALSE]

Init ==
  /\ day = 0 /\ clock \in 0..(DayLength - 1)
  /\ present \in BOOLEAN
  /\ daily = [date |-> 0, seconds |-> 0, online |-> FALSE, last |-> 0]
  /\ row = NoRow
  /\ roll = [d \in Days |-> NoRoll]
  /\ live = NoRow /\ age = 0
  /\ counter = 0
  /\ moved = [d \in Days |-> 0] /\ stale = 0
  /\ brought = [d \in Days |-> 0] /\ carried = FALSE

-----------------------------------------------------------------------------
(* Online seconds *)

\* The entry an update starts from: yesterday's document is thrown away.
Entry == IF daily.date = day THEN daily
         ELSE [date |-> day, seconds |-> 0, online |-> FALSE, last |-> 0]

\* Seconds confirmed since the last snapshot that also had the device.
Gap(e) == IF e.online THEN Smaller(Larger(0, clock - e.last), GapCap) ELSE 0
\* today_online_seconds_from_item gives a seed the router vouches for, never
\* more than the seconds since midnight.
Seeds == 0..clock

\* update_daily_online_durations with the device in the list: its seconds.
SecondsWith(seed) == Larger(Entry.seconds + Gap(Entry), seed)

-----------------------------------------------------------------------------
(* Traffic *)

\* Mutant: a counter that did not go on is added whole, like one that went back.
AdvancedTwice(r) ==
  IF r.last <= 0 THEN Larger(r.bytes, counter)
  ELSE IF counter > r.last THEN r.bytes + (counter - r.last)
  ELSE r.bytes + counter

\* _advance_counter: the day's bytes after the router's counter was read.  The
\* first reading of a day counts whole, whatever day its bytes are of.
Advanced(r) ==
  IF r.last <= 0 THEN Larger(r.bytes, counter)
  ELSE IF counter >= r.last THEN r.bytes + (counter - r.last)
  ELSE r.bytes + counter
-----------------------------------------------------------------------------
(* Snapshots *)

\* A snapshot with the device: daily entry, document row and rollup.
IngestPresent ==
  /\ present
  /\ \E seed \in Seeds :
       LET seconds == SecondsWith(seed) IN
       /\ daily' = [date |-> day, seconds |-> seconds, online |-> TRUE, last |-> clock]
       /\ row' = [date |-> day, seconds |-> seconds, online |-> TRUE]
       /\ roll' = [roll EXCEPT ![day] =
                     [seconds |-> Larger(roll[day].seconds, seconds),
                      bytes   |-> Advanced(roll[day]), last |-> counter]]
  /\ brought' = [brought EXCEPT ![day] = Larger(@, stale)]
  /\ UNCHANGED <<day, clock, present, live, age, counter, moved, stale, carried>>

\* The daily entry after a list without the device.
Closed == IF daily.date = day THEN [daily EXCEPT !.online = FALSE, !.last = clock] ELSE Entry

\* A snapshot without it: its entry is closed, and the row that was online
\* hands its seconds to the rollup of today.
IngestAbsent ==
  /\ ~present
  /\ daily' = Closed
  /\ roll' = IF row.online
             THEN [roll EXCEPT ![day] = [seconds |-> Larger(roll[day].seconds, row.seconds),
                                         bytes |-> roll[day].bytes, last |-> roll[day].last]]
             ELSE roll
  /\ carried' = (carried \/ (row.online /\ row.date # day))
  /\ row' = NoRow
  /\ UNCHANGED <<day, clock, present, live, age, traffic>>

\* An empty list that awaits its confirmation has closed the daily entry
\* already; row and rollup are not touched.
IngestDeferred ==
  /\ ~present
  /\ daily' = Closed
  /\ UNCHANGED <<day, clock, present, row, roll, live, age, traffic, carried>>

\* RouterDeviceLiveSync._hydrate: the seconds of the last live row, if it is
\* of today, plus the time since, or the router's own if larger.
_hydrate ==
  LET old == IF live.online /\ live.date = day THEN live.seconds ELSE 0
      observed == IF live.online THEN old + age ELSE 0
  IN /\ present
     /\ \E seed \in Seeds :
          live' = [date |-> day, seconds |-> Larger(seed, observed), online |-> TRUE]
     /\ age' = 0
     /\ UNCHANGED <<day, clock, present, daily, row, roll, traffic, carried>>

\* A live sample without the device, or a Hub that lost its memory.
LiveLost ==
  /\ live' = NoRow /\ age' = 0
  /\ UNCHANGED <<day, clock, present, daily, row, roll, traffic, carried>>

-----------------------------------------------------------------------------
(* The world *)

Tick ==
  /\ clock < DayLength - 1 \/ day < MaxDay
  /\ IF clock < DayLength - 1 THEN clock' = clock + 1 /\ UNCHANGED <<day, stale>>
     ELSE clock' = 0 /\ day' = day + 1 /\ stale' = counter
  /\ age' = Smaller(age + 1, LiveCap)
  /\ UNCHANGED <<present, daily, row, roll, live, counter, moved, brought, carried>>

Joins ==
  /\ present' = ~present
  /\ UNCHANGED <<day, clock, daily, row, roll, live, age, traffic, carried>>

\* The device moves a byte.
Moves ==
  /\ present /\ counter < MaxMoved /\ moved[day] < MaxMoved
  /\ counter' = counter + 1
  /\ moved' = [moved EXCEPT ![day] = @ + 1]
  /\ UNCHANGED <<day, clock, present, daily, row, roll, live, age, stale, brought, carried>>

\* The router restarts, or starts its counters of a new day: at its own
\* midnight, before or after the Hub's.
Resets ==
  /\ counter > 0
  /\ counter' = 0 /\ stale' = 0
  /\ UNCHANGED <<day, clock, present, daily, row, roll, live, age, moved, brought, carried>>

Next ==
  \/ IngestPresent \/ IngestAbsent \/ IngestDeferred \/ _hydrate \/ LiveLost
  \/ Tick \/ Joins \/ Moves \/ Resets

Spec == Init /\ [][Next]_vars

-----------------------------------------------------------------------------
\* Type invariant.
TypeOK ==
  /\ day \in Days /\ clock \in 0..(DayLength - 1) /\ present \in BOOLEAN
  /\ daily \in [date : Days, seconds : Nat, online : BOOLEAN, last : Nat]
  /\ row \in [date : Days, seconds : Nat, online : BOOLEAN]
  /\ roll \in [Days -> [seconds : Nat, bytes : Nat, last : Nat]]
  /\ live \in [date : Days, seconds : Nat, online : BOOLEAN] /\ age \in 0..LiveCap
  /\ counter \in Nat /\ moved \in [Days -> Nat] /\ stale \in Nat
  /\ brought \in [Days -> Nat] /\ carried \in BOOLEAN

\* The daily total never exceeds the time the day has lasted, whatever the
\* router's seeds, gaps in the snapshots and a day change between two of them.
DayHolds == daily.date = day => daily.seconds <= clock

\* The rollup of today fits into today, unless the device left over midnight:
\* then the first snapshot of the new day hands it yesterday's seconds.
RollupFits == ~carried => roll[day].seconds <= clock

\* The live sampler may be ahead of the day by one capped gap (the gap that
\* spans midnight counts in full), never by more.
LiveFits == live.online /\ live.date = day => live.seconds <= clock + LiveCap

\* A rollup counts no byte of its day twice, across resets, absences and
\* midnight: it exceeds what the device moved on the day by no more than the
\* bytes of earlier days that the router's counter still held when it was read
\* on this day.  Those bytes do count twice, on their day and on this one.
TrafficFits == \A d \in Days : roll[d].bytes <= moved[d] + brought[d]

\* No total claims more than happened: the day, its rollup, the live row and
\* the traffic together.
TotalsFit == DayHolds /\ RollupFits /\ LiveFits /\ TrafficFits
=============================================================================
