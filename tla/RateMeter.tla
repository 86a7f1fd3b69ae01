------------------------------ MODULE RateMeter ------------------------------
(***************************************************************************)
(* The sliding-window meter of rate.rs: a ring of WindowSize + 1 slots,    *)
(* each SlotTime of the clock's ticks wide.  A rate is a count per window  *)
(* here: every rate of the code is a count times the same contribution.    *)
(***************************************************************************)
EXTENDS FiniteSetsExt, Integers

CONSTANTS WindowSize, SlotTime

ASSUME MeterAssumption == {WindowSize, SlotTime} \subseteq Nat \ {0}

WinLen == WindowSize + 1
NewMeter == [window |-> [i \in 0 .. WindowSize |-> 0], time |-> 0]

(* Slots are numbered by rounding up, and never run backwards.             *)
ToTime(meter, now) ==
  LET t == (now + SlotTime - 1) \div SlotTime
  IN IF t > meter.time THEN t ELSE meter.time

(* Mutant: the ring has one slot less than the window it stands for needs. *)
GetRateShort(meter, now) ==
  MapThenSumSet(LAMBDA t : meter.window[t % WinLen], (ToTime(meter, now) - WindowSize + 1) .. meter.time)

(* What the slots not older than the window hold.                          *)
GetRate(meter, now) ==
  MapThenSumSet(LAMBDA t : meter.window[t % WinLen], (ToTime(meter, now) - WinLen + 1) .. meter.time)

(* The ring, with the slots that passed since its time emptied.            *)
Cleared(meter, now) ==
  IF meter.time > now - WinLen
    THEN [i \in DOMAIN meter.window |->
            IF \E c \in (meter.time - WinLen + 1) .. (now - WinLen) : c % WinLen = i THEN 0 ELSE meter.window[i]]
    ELSE NewMeter.window

Inc(meter, count, now) ==
  LET t == ToTime(meter, now)
  IN [window |-> [Cleared(meter, t) EXCEPT ![t % WinLen] = @ + count], time |-> t]
=============================================================================
