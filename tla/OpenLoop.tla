------------------------------ MODULE OpenLoop ------------------------------
(***************************************************************************)
(* Paced replay of a recorded timeline and the sweep over a ladder of      *)
(* rates (replay.hpp).  One run feeds a sequence of events to a handler:   *)
(* each event has a place on the clock derived from its recorded time and  *)
(* the speed alone, and its latency counts from there.  A sweep makes one  *)
(* run per rate, over as many copies of the timeline as it takes, and      *)
(* reports the knee, the last rate that was sustained with every slower    *)
(* one.  The handler is whatever the user of this module conjoins with     *)
(* ServeEvent; here it takes some time of Services.                        *)
(*                                                                         *)
(* Time is counted in ticks from the start of the run.  Rates that are     *)
(* only printed are left out.                                              *)
(***************************************************************************)
EXTENDS Histogram, Sequences, SequencesExt

CONSTANTS Lead,                         \* kScheduleLeadNs
          Tolerance,                    \* kDeadlineToleranceNs
          Ladder,                       \* SweepOptions::speeds
          MinSamples,                   \* min_samples
          Budget,                       \* budget_ns_per_rate
          Bound,                        \* p99_bound_ns
          KneePercent,                  \* the percentile it bounds: 99
          StopLateness,                 \* stop_lateness_ns
          Services,                     \* ticks a call of the handler takes
          Overshoots                    \* ticks wait_until returns late

ASSUME OpenLoopAssumption ==
  /\ Ladder \in Seq(Nat \ {0}) /\ Budget > 0
  /\ Bound < HighestTrackable
  /\ Services \subseteq Nat /\ Overshoots \subseteq Nat

VARIABLES clock,                        \* now_ns() of this run
          run,                          \* the run's input and its position
          meter,                        \* its ReplayResult so far
          points,                       \* SweepResult::points
          completions                   \* when each event of the run was done
                                        \* (history variable)

paceVars == <<clock, run, meter, points, completions>>

NewMeter == [latency |-> EmptyHistogram, behind |-> 0, max_lateness |-> 0]

NoRun == [events |-> <<>>, speed |-> 1, warmup |-> 0, at |-> 0]

PaceInit ==
  /\ clock = 0 /\ run = NoRun /\ meter = NewMeter
  /\ points = <<>> /\ completions = <<>>

-----------------------------------------------------------------------------
(* What a rung of the ladder replays. *)

median_interval_ns(ev) ==
  LET gaps == [i \in 1 .. Len(ev) - 1 |-> Max({0, ev[i + 1].ts - ev[i].ts})]
  IN  IF Len(ev) < 2 THEN 0
      ELSE SortSeq(gaps, LAMBDA a, b : a < b)[Len(gaps) \div 2 + 1]

tile_capture(ev, loops, stride) ==
  [i \in 1 .. loops * Len(ev) |->
     LET e == ev[((i - 1) % Len(ev)) + 1]
     IN  [e EXCEPT !.ts = @ + ((i - 1) \div Len(ev)) * stride]]

Span(ev) == ev[Len(ev)].ts - ev[1].ts

(* A rate needs two events and a timeline. *)
CanSweep(ev) == Len(ev) >= 2 /\ Span(ev) > 0

(* Copies until there are enough samples or the budget is spent, cut to    *)
(* the prefix that fits the budget, never to less than two events.         *)
RungEvents(ev, speed, warmup) ==
  LET stride == Span(ev) + Max({1, median_interval_ns(ev)})
      wanted == Max({1, (MinSamples + warmup + Len(ev) - 1) \div Len(ev)})
      loops  == Min({wanted, (Budget * speed) \div stride + 1})
      tiled  == tile_capture(ev, loops, stride)
      fits   == {i \in DOMAIN tiled : tiled[i].ts <= ev[1].ts + Budget * speed}
  IN  SubSeq(tiled, 1, Max({2, Cardinality(fits)}))

-----------------------------------------------------------------------------
(* One run. *)

StartRun(ev, speed, warmup) ==
  /\ run' = [events |-> ev, speed |-> speed, warmup |-> warmup, at |-> 0]
  /\ clock' = 0 /\ meter' = NewMeter /\ completions' = <<>>

(* Mutant: an event is due a gap after the one before it was done. *)
Scheduled_AfterLast(i) ==
  IF i = 1 THEN Lead
  ELSE completions[i - 1] + (run.events[i].ts - run.events[i - 1].ts) \div run.speed

(* Where event i belongs, from the recorded timeline alone. *)
Scheduled(i) ==
  Lead + (run.events[i].ts - run.events[1].ts) \div run.speed

(* What the histogram is given: from the schedule to the handler's return. *)
Latency(i, completed) == Max({0, completed - Scheduled(i)})

(* The next event: wait for its time, or note that it is past, and handle  *)
(* it.                                                                     *)
ServeEvent ==
  LET i        == run.at + 1
      waits    == clock < Scheduled(i)
      lateness == clock - Scheduled(i)
      missed   == ~waits /\ i > run.warmup /\ lateness > Tolerance
  IN  /\ run.at < Len(run.events)
      /\ \E overshoot \in (IF waits THEN Overshoots ELSE {0}), service \in Services :
           LET begin     == IF waits THEN Scheduled(i) + overshoot ELSE clock
               completed == begin + service
           IN  /\ clock' = completed
               /\ completions' = Append(completions, completed)
               /\ meter' = [latency      |-> IF i > run.warmup
                                               THEN record(meter.latency, Latency(i, completed))
                                               ELSE meter.latency,
                            behind       |-> meter.behind + (IF missed THEN 1 ELSE 0),
                            max_lateness |-> IF missed THEN Max({meter.max_lateness, lateness})
                                                       ELSE meter.max_lateness]
      /\ run' = [run EXCEPT !.at = i]
      /\ UNCHANGED points

RunIsOver == run.at = Len(run.events)

-----------------------------------------------------------------------------
(* The sweep: the ladder's rungs in order. *)

StartRung(ev, n, warmup_events) ==
  LET tiled == RungEvents(ev, Ladder[n], warmup_events)
  IN  StartRun(tiled, Ladder[n], Min({warmup_events, Len(tiled) \div 4}))

(* Event i's time, read off the recording: the last tick at which a replay *)
(* at this speed is not past it.                                           *)
Due(i) ==
  LET gap == run.events[i].ts - run.events[1].ts
  IN  Lead + Max({t \in 0 .. gap : t * run.speed <= gap})

(* How long each measured event took, counted from there. *)
TrueLatencies ==
  [i \in 1 .. Len(completions) - run.warmup |->
     completions[i + run.warmup] - Due(i + run.warmup)]

(* How far past its time each was taken up. *)
TrueLateness ==
  [i \in DOMAIN TrueLatencies |->
     (<<0>> \o completions)[i + run.warmup] - Due(i + run.warmup)]

(* A rung's point on the curve, with the history it stands for. *)
Point ==
  [events    |-> meter.latency.total,
   behind    |-> meter.behind,
   p99       |-> percentile(KneePercent, meter.latency),
   latencies |-> TrueLatencies,
   lateness  |-> TrueLateness]

Drowning == meter.max_lateness > StopLateness

EndRung(ev, warmup_events) ==
  /\ RunIsOver
  /\ points' = Append(points, Point)
  /\ \/ /\ ~Drowning /\ Len(points) + 1 < Len(Ladder)
        /\ StartRung(ev, Len(points) + 2, warmup_events)
     \/ /\ Drowning \/ Len(points) + 1 = Len(Ladder)
        /\ run' = NoRun /\ clock' = 0 /\ meter' = NewMeter /\ completions' = <<>>

passed(point) == point.events > 0 /\ point.behind = 0 /\ point.p99 <= Bound

(* The last rung of the prefix that passed, 0 when there is none. *)
knee ==
  Max({0} \cup {n \in DOMAIN points : \A i \in 1 .. n : passed(points[i])})

-----------------------------------------------------------------------------

(* No stall goes uncharged, nor does it put off the events behind it:      *)
(* what is measured is each event's distance from its own place on the     *)
(* recorded timeline, whatever came before, so that an event due while an  *)
(* earlier one was being handled reports at least the rest of that call.   *)
BacklogCharged ==
  LET owed(k) == {completions[j] - Due(k) : j \in 1 .. k}
      due     == [k \in run.warmup + 1 .. Len(completions) |-> Max({0} \cup owed(k))]
  IN  \A v \in Slots :
        meter.latency.counts[v] =
          Cardinality({k \in DOMAIN due : index_for(Min({due[k], HighestTrackable})) = v})

(* The measured events of a point that took longer than the bound. *)
Slow(point) == {k \in DOMAIN point.latencies : point.latencies[k] > Bound}

(* A rate at or below the knee was sustained, and so was every slower one: *)
(* something was measured, no event was taken up late, and the events that *)
(* took longer than the bound are the share the percentile leaves out, or  *)
(* exceed it by less than half an event, although buckets hold a range of  *)
(* latencies and time is cut short by the budget.                          *)
KneeIsSustained ==
  \A i \in 1 .. knee :
    LET measured == Len(points[i].latencies)
    IN  /\ measured > 0
        /\ \A k \in 1 .. measured : points[i].lateness[k] <= Tolerance
        /\ 100 * Cardinality(Slow(points[i])) < (100 - KneePercent) * measured + 50

(* The comment on the rank of a percentile: "Round up", so that a rate     *)
(* whose percentile is within the bound has no more slow events than the   *)
(* percentile leaves out.                                                  *)
KneeRoundsUp ==
  \A i \in 1 .. knee :
    100 * Cardinality(Slow(points[i])) <= (100 - KneePercent) * Len(points[i].latencies)

=============================================================================
