------------------------------ MODULE RtcClock ------------------------------
(***************************************************************************)
(* OEMBootGetTickCount of wecloader and NLoader (init.c): seconds since    *)
(* the last hour, counted from the CMOS clock, which ticks on while it is  *)
(* read.  A tick updates second and minute at once; the clock announces it *)
(* in status register A.  Reading three registers takes microseconds, so   *)
(* at most one tick falls in between.                                      *)
(***************************************************************************)
EXTENDS Integers

CONSTANTS
  SecondsPerMinute, MinutesPerHour,
  Wrap          \* bound: the tick count is kept modulo Wrap

Hour == SecondsPerMinute * MinutesPerHour

ASSUME ClockAssumption ==
  {SecondsPerMinute, MinutesPerHour, Wrap} \subseteq Nat \ {0, 1}

VARIABLES
  total,       \* the clock: seconds of the hour
  uip,         \* bit 7 of status register A: a tick is due
  ticked,      \* a tick came since the status register was read
  rpc,         \* "idle" or the register that is read next
  rsec, rmin,  \* what was read
  tick, prevOffset,   \* the static variables
  unseen       \* history: ticks since the last call returned

clockHw == <<total, uip, ticked, unseen>>
clockSw == <<rpc, rsec, rmin, tick, prevOffset>>

ClockInit ==
  /\ total \in 0 .. (Hour - 1) /\ uip = FALSE /\ ticked = FALSE
  /\ rpc = "idle" /\ rsec = 0 /\ rmin = 0
  /\ tick = 0 /\ prevOffset = 0 /\ unseen = 0

(* The clock.  Two calls whose results are compared are less than an hour  *)
(* apart.                                                                  *)
Announce ==
  /\ ~uip /\ unseen < Hour - 1 /\ uip' = TRUE
  /\ UNCHANGED <<total, ticked, unseen, clockSw>>

Tick ==
  /\ uip /\ ~ticked
  /\ uip' = FALSE /\ total' = (total + 1) % Hour /\ unseen' = unseen + 1
  /\ ticked' = (rpc \notin {"idle", "status"})
  /\ UNCHANGED clockSw

(* The function, one register a step.                                      *)
Second == total % SecondsPerMinute
Minute == total \div SecondsPerMinute

CallClock ==
  /\ rpc = "idle" /\ rpc' = "status"
  /\ UNCHANGED <<clockHw, rsec, rmin, tick, prevOffset>>

ReadStatus ==
  /\ rpc = "status" /\ ~uip
  /\ rpc' = "second" /\ ticked' = FALSE
  /\ UNCHANGED <<total, uip, unseen, rsec, rmin, tick, prevOffset>>

ReadSecond ==
  /\ rpc = "second" /\ rpc' = "minute" /\ rsec' = Second
  /\ UNCHANGED <<clockHw, rmin, tick, prevOffset>>

ReadMinute ==
  /\ rpc = "minute" /\ rpc' = "again" /\ rmin' = Minute
  /\ UNCHANGED <<clockHw, rsec, tick, prevOffset>>

Retry ==
  /\ rpc = "again" /\ rsec # Second
  /\ rpc' = "status" /\ ticked' = FALSE
  /\ UNCHANGED <<total, uip, unseen, rsec, rmin, tick, prevOffset>>

Offset == rmin * SecondsPerMinute + rsec

SinceNoWrap(offset) == offset - prevOffset     \* bug: a new hour is not seen
Since(offset) ==
  IF offset >= prevOffset THEN offset - prevOffset
  ELSE Hour + offset - prevOffset

UnsteadyToo == TRUE                  \* bug: the second is not read again
Steady == rsec = Second

ClockReturns ==
  /\ rpc = "again" /\ Steady /\ rpc' = "idle"
  /\ tick' = (tick + Since(Offset)) % Wrap /\ prevOffset' = Offset
  /\ rsec' = 0 /\ rmin' = 0
  /\ unseen' = IF Second = rsec THEN 0 ELSE 1
  /\ ticked' = FALSE
  /\ UNCHANGED <<total, uip>>

ClockStep == ReadStatus \/ ReadSecond \/ ReadMinute \/ Retry

(* The clock is of no interest: its variables take values of rest.         *)
ClockRests ==
  /\ total' = 0 /\ uip' = FALSE /\ ticked' = FALSE /\ unseen' = 0
  /\ rpc' = "idle" /\ rsec' = 0 /\ rmin' = 0
  /\ tick' = 0 /\ prevOffset' = 0

-----------------------------------------------------------------------------
ClockTypeOK ==
  /\ total \in 0 .. (Hour - 1) /\ uip \in BOOLEAN /\ ticked \in BOOLEAN
  /\ rpc \in {"idle", "status", "second", "minute", "again"}
  /\ rsec \in 0 .. (SecondsPerMinute - 1) /\ rmin \in 0 .. (MinutesPerHour - 1)
  /\ tick \in 0 .. (Wrap - 1) /\ prevOffset \in 0 .. (Hour - 1)
  /\ unseen \in 0 .. (Hour - 1)
=============================================================================
