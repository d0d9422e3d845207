----------------------------- MODULE MpaCounters -----------------------------
(***************************************************************************)
(* MPA_async_test: the S-curve of the MPA from its pixel counters.  For    *)
(* each threshold the shutter is opened, the counters are read out, and a  *)
(* read-out that gives nothing where the one before gave hits is repeated, *)
(* four times.  The pixels are summed up in one counter, the total of the  *)
(* program, which leaves out the first pixel; a word of the FIFO, one more *)
(* than the pixel counted, stands for its count here.                      *)
(***************************************************************************)
EXTENDS Integers, Sequences

CONSTANTS Rate,       \* the hits of one shutter, for each threshold from 0
          Enough,     \* hits after which no hits are suspicious (50)
          MaxPolls    \* polls of the ready flag (50)

ASSUME CountersAssumption ==
  /\ Enough \in Nat /\ MaxPolls \in Nat \ {0}
  /\ \A t \in DOMAIN Rate : t \in Nat /\ Rate[t] \in Nat /\ (t > 0 => t - 1 \in DOMAIN Rate)

VARIABLES
  ith, phase, nrep, totaleventsprev,  \* the loop over the thresholds
  polls,             \* of the ready flag
  counter, shutter,  \* the chip (external)
  bins,              \* the curve
  zeros              \* history: read-outs in a row that gave nothing, counted up to five
countersVars == <<ith, phase, nrep, totaleventsprev, polls, counter, shutter, bins, zeros>>

Thresholds == DOMAIN Rate
Unread == 0 - 1

\* A fast command is a word of enable bits and, above them, a duration.
Compose_fast_command(duration, resync_en, l1a_en, cal_pulse_en, bc0_en) ==
  {b + 28 : b \in {b \in 0..3 : (duration \div 2^b) % 2 = 1}}
    \cup {b \in {16} : resync_en} \cup {b \in {17} : cal_pulse_en}
    \cup {b \in {18} : l1a_en} \cup {b \in {19} : bc0_en}
PS_Open_shutter(duration)        == Compose_fast_command(duration, FALSE, TRUE, FALSE, FALSE)
PS_Close_shutter(duration)       == Compose_fast_command(duration, FALSE, FALSE, FALSE, TRUE)
PS_Clear_counters(duration)      == Compose_fast_command(duration, FALSE, TRUE, FALSE, TRUE)
PS_Start_counters_read(duration) == Compose_fast_command(duration, TRUE, FALSE, FALSE, TRUE)

\* What the chip does (external): it counts while the shutter is open.
Obeys(word) ==
  LET command == word \cap (16..19)
      opens == command = {18}  closes == command = {19}  clears == command = {18, 19}
  IN  /\ shutter' = IF opens THEN TRUE ELSE IF closes THEN FALSE ELSE shutter
      /\ counter' = IF clears THEN 0
                    ELSE IF closes /\ shutter THEN counter + Rate[ith] ELSE counter

\* The counters are cleared, twice, and the chip set to count.
InitCounters ==
  /\ ith = 0 /\ phase = "set" /\ nrep = 0 /\ totaleventsprev = 0 /\ polls = 0
  /\ counter = 0 /\ shutter = FALSE /\ zeros = 0 /\ bins = [t \in Thresholds |-> Unread]

\* Set_threshold() writes the seven DACs; Send_pulses() opens the shutter and
\* closes it, and the counters go on from where they are.
OpenShutter ==
  /\ phase = "set" /\ ith \in Thresholds /\ phase' = "open"
  /\ Obeys(PS_Open_shutter(0))
  /\ UNCHANGED <<ith, nrep, totaleventsprev, polls, bins, zeros>>
Send_pulses ==
  /\ phase = "open" /\ phase' = "start"
  /\ Obeys(PS_Close_shutter(0))
  /\ UNCHANGED <<ith, nrep, totaleventsprev, polls, bins, zeros>>
CurveDone ==
  /\ phase = "set" /\ ith \notin Thresholds /\ phase' = "done"
  /\ UNCHANGED <<ith, nrep, totaleventsprev, polls, counter, shutter, bins, zeros>>

\* ReadoutCounters_MPA(): the flag is read once before the read-out is asked
\* for, and is polled while it is down.  It may be up from the beginning.
StartRead == \E up \in BOOLEAN :
  /\ phase = "start" /\ phase' = (IF up THEN "fifo" ELSE "poll") /\ polls' = 0
  /\ Obeys(PS_Start_counters_read(0))
  /\ UNCHANGED <<ith, nrep, totaleventsprev, bins, zeros>>

\* Faulty variant: the repeats of all thresholds are counted together.
AfterFill_Kept(n) == n
AfterFill(n) == 0

\* The repeats of a threshold: the loop goes back by one and, if it does not
\* go round again, the bin that is filled is that of the threshold before.
\* A repeat does not clear the counters.
Take(total) ==
  LET suspicious == totaleventsprev > Enough /\ total = 0
      times == IF suspicious THEN nrep + 1 ELSE nrep
      at    == IF suspicious THEN ith - 1 ELSE ith
  IN  /\ phase' = "set"
      /\ zeros' = IF total # 0 THEN 0 ELSE IF zeros < 5 THEN zeros + 1 ELSE 5
      /\ IF suspicious /\ times < 5
         THEN nrep' = times /\ UNCHANGED <<ith, totaleventsprev, counter, shutter, bins>>
         ELSE /\ bins' = [bins EXCEPT ![at] = total] /\ nrep' = AfterFill(times)
              /\ Obeys(PS_Clear_counters(8)) /\ totaleventsprev' = total /\ ith' = at + 1
      /\ UNCHANGED polls

\* A poll: the last one is a time-out even if the flag is up by then, and a
\* time-out returns zeros.
Poll == \E up \in BOOLEAN :
  /\ phase = "poll" /\ polls' = polls + 1
  /\ phase' = IF polls' = MaxPolls THEN "timeout" ELSE IF up THEN "fifo" ELSE "poll"
  /\ UNCHANGED <<ith, nrep, totaleventsprev, counter, shutter, bins, zeros>>
TimeOut == phase = "timeout" /\ Take(0)

\* The words of the FIFO: what was counted or, because 'randomly the counters
\* fail' (main), nothing.
ReadFifo == phase = "fifo" /\ \E total \in {counter, 0} : Take(total)

CountersNext == \/ OpenShutter \/ Send_pulses \/ CurveDone \/ StartRead
                \/ Poll \/ TimeOut \/ ReadFifo

\* A bin is filled when its threshold has been read out, never with nothing
\* after a bin with many hits, and is filled again, with nothing, only when five
\* read-outs in a row have given nothing.
CurveKept == [][\A t \in Thresholds : bins'[t] # bins[t] =>
  \/ bins[t] = Unread /\ (t > 0 /\ bins[t - 1] > Enough => bins'[t] # 0)
  \/ bins[t] # Unread /\ bins'[t] = 0 /\ zeros' = 5]_countersVars
=============================================================================
