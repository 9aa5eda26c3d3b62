------------------------------- MODULE Timing -------------------------------
(***************************************************************************)
(* fsecs.c, fcyc.c, clock.c and ftimer.c: how long a function takes, by    *)
(* the method config.h selects: "fcyc", "itimer" or "gettod".  What runs   *)
(* between two readings of a clock is in the module that extends this one. *)
(***************************************************************************)
EXTENDS Integers, SequencesExt

CONSTANTS WORD,            \* 2^32 in the code: what a word of the counter holds
          MICRO,           \* microseconds in a second
          MAX_ETIME,       \* seconds on the interval timer
          RUNS,            \* runs that a timer averages over
          kbest, maxsamples,
          epsilon,         \* in percent
          NEVENT, RECORDTHRESH,
          Readings,        \* what a clock may show when a measurement starts
          Durations,       \* what the function may take
          Ticks,           \* timer interrupts in the meantime
          Events           \* [cycles, ticks] that callibrate may see

(* All of these count something; a counter has wrapped around once at most *)
(* while the function runs, and the interrupts in the meantime take less   *)
(* time than the function.                                                 *)
ASSUME TimingAssumption ==
  /\ {WORD, MICRO, RUNS, kbest} \subseteq Nat \ {0}
  /\ {MAX_ETIME, maxsamples, epsilon, NEVENT, RECORDTHRESH} \subseteq Nat
  /\ Readings \subseteq Nat /\ Ticks \subseteq Nat
  /\ Durations \subseteq 0 .. WORD * WORD - 1
  /\ \A e \in Events : e.cycles \in Nat /\ e.ticks \in Nat \ {0}
  /\ \A e \in Events, ticks \in Ticks, d \in Durations :
        ticks * (e.cycles \div e.ticks) <= d

VARIABLES method,
          values, samplecount, cyc_per_tick, cache_buf,
          samples          \* what the runs really took

sampler == <<values, samplecount, samples>>
timing == <<method, sampler, cyc_per_tick, cache_buf>>

----------------------------------------------------------------------------
(* The cycle counter has two words, which get_counter subtracts in turn.   *)

access_counter(cycles) == [hi |-> (cycles \div WORD) % WORD, lo |-> cycles % WORD]

get_counter_no_borrow(cyc, ncyc) ==                               \* Mutant
  ((ncyc.hi - cyc.hi) % WORD) * WORD + ((ncyc.lo - cyc.lo) % WORD)

get_counter(cyc, ncyc) ==
  LET lo == (ncyc.lo - cyc.lo) % WORD
      borrow == IF lo > ncyc.lo THEN 1 ELSE 0
  IN ((ncyc.hi - cyc.hi - borrow) % WORD) * WORD + lo

(* The least cycles per interrupt that is worth recording, 0 if none is.   *)
callibrate(events) ==
  LET cpts == {events[n].cycles \div events[n].ticks : n \in DOMAIN events}
      recorded == {cpt \in cpts : cpt > RECORDTHRESH}
  IN IF recorded = {} THEN 0 ELSE Min(recorded)

(* What get_comp_counter makes of a run that starts when the counter is at *)
(* start and sees that many timer interrupts.                              *)
get_comp_counter(start, duration, ticks, cpt) ==
  get_counter(access_counter(start), access_counter(start + duration)) - ticks * cpt

----------------------------------------------------------------------------
(* The K-best sampler                                                      *)

init_sampler == values' = <<>> /\ samplecount' = 0 /\ samples' = <<>>

(* The last value moves to the left past those that are larger.            *)
insertion(s) ==
  LET n == Len(s)
      p == Max({0} \cup {j \in 1 .. n - 1 : s[j] <= s[n]})
  IN SubSeq(s, 1, p) \o <<s[n]>> \o SubSeq(s, p + 1, n - 1)

add_sample(s, count, val) ==
  IF count < kbest THEN insertion(Append(s, val))
  ELSE IF val < s[kbest] THEN insertion([s EXCEPT ![kbest] = val])
  ELSE s

has_converged(s, count) ==
  count >= kbest /\ (100 + epsilon) * s[1] >= 100 * s[kbest]

(* clear reads through a buffer that it allocates the first time; without  *)
(* memory for it the process ends.                                         *)
clear == cache_buf' = TRUE

clear_fails == ~cache_buf

(* A round of fcyc, with the function's run in the middle.                 *)
fcyc_round ==
  /\ method = "fcyc" /\ clear
  /\ \E start \in Readings, duration \in Durations, ticks \in Ticks,
        cpt \in IF cyc_per_tick = 0 THEN {callibrate(e) : e \in [1 .. NEVENT -> Events]}
                                     ELSE {cyc_per_tick} :
       /\ cyc_per_tick' = cpt
       /\ values' = add_sample(values, samplecount, get_comp_counter(start, duration, ticks, cpt))
       /\ samples' = Append(samples, duration - ticks * cpt)
  /\ samplecount' = samplecount + 1
  /\ UNCHANGED method

----------------------------------------------------------------------------
(* The timers: seconds and microseconds, of which the first may be lent.   *)

timeval(t) == [sec |-> t \div MICRO, usec |-> t % MICRO]

elapsed(from, to) == MICRO * (to.sec - from.sec) + (to.usec - from.usec)

ftimer_gettod(start, duration) ==
  elapsed(timeval(start), timeval(start + duration)) \div RUNS

(* The interval timer counts down from MAX_ETIME seconds, and nothing is   *)
(* timed that takes longer: SIGALRM would end the process.                 *)
ASSUME EtimeAssumption ==
  \A start \in Readings, d \in Durations : start + RUNS * d < MAX_ETIME * MICRO

get_etime(passed) == elapsed(timeval(MAX_ETIME * MICRO - passed), timeval(MAX_ETIME * MICRO))

ftimer_itimer(start, duration) == (get_etime(start + duration) - get_etime(start)) \div RUNS

(* All the runs of the function between two readings of a timer.           *)
ftimer_runs ==
  /\ method # "fcyc"
  /\ \E start \in Readings, duration \in {RUNS * d : d \in Durations} :
       /\ samples' = <<duration>>
       /\ values' = <<IF method = "gettod" THEN ftimer_gettod(start, duration)
                      ELSE ftimer_itimer(start, duration)>>
  /\ samplecount' = RUNS
  /\ UNCHANGED <<method, cyc_per_tick, cache_buf>>

----------------------------------------------------------------------------
(* fsecs ends with the first value when no more runs are wanted.           *)

measured_late ==                                                  \* Mutant
  IF method = "fcyc"
  THEN samplecount > 0 /\ (has_converged(values, samplecount) \/ samplecount > maxsamples)
  ELSE samplecount = RUNS

measured ==
  IF method = "fcyc"
  THEN samplecount > 0 /\ (has_converged(values, samplecount) \/ samplecount >= maxsamples)
  ELSE samplecount = RUNS

fsecs == values[1]

TimingInit ==
  /\ method \in {"fcyc", "itimer", "gettod"}
  /\ values = <<>> /\ samplecount = 0 /\ samples = <<>>
  /\ cyc_per_tick = 0 /\ cache_buf = FALSE

TimingTypeOK ==
  /\ method \in {"fcyc", "itimer", "gettod"}
  /\ values \in Seq(Int) /\ samples \in Seq(Int) /\ samplecount \in Nat
  /\ cyc_per_tick \in Nat /\ cache_buf \in BOOLEAN

(* Whatever the clock shows when a run starts and however often its words  *)
(* wrap around, the values kept are the least of what the runs really took,*)
(* in order, and the timers return the real average (fcyc.c:67,            *)
(* clock.c:53, ftimer.c:40).                                               *)
BestSamples ==
  IF method = "fcyc"
  THEN /\ samplecount = Len(samples)
       /\ \E rank \in Bijection(DOMAIN samples, DOMAIN samples) :
            /\ \A a, b \in DOMAIN samples :
                 a < b => samples[rank[a]] <= samples[rank[b]]
            /\ values = [j \in 1 .. Min({kbest, Len(samples)}) |-> samples[rank[j]]]
  ELSE values = [j \in 1 .. Len(samples) |-> samples[j] \div RUNS]
=============================================================================
