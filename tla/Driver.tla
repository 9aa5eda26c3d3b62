------------------------------- MODULE Driver -------------------------------
(***************************************************************************)
(* mdriver.c: the driver that judges a malloc package by running traces    *)
(* through it.  MMHeap is eval_mm_valid with this repository's mm.c as the *)
(* package; here the package is any, which is what the driver is for: it   *)
(* may be "ideal", "steady" (wrong in any way, but mm_init starts it anew, *)
(* so that it repeats itself), or "fickle" (it may also run out of memory  *)
(* in a later pass; no package differs from pass to pass in other ways).   *)
(***************************************************************************)
EXTENDS Timing

CONSTANTS UTIL_WEIGHT,     \* in percent
          AVG_LIBC_THRUPUT,
          Disk,            \* Disk[dir][name]: what read_trace may find there
          Argvs,           \* command lines, as sequences of options
          Teams,           \* what mm.c may say of the team
          default_tracefiles,
          Extents,         \* sizes the heap may have after mm_init
          ALIGNMENT,
          CHAR,            \* 256: the values of a char, which is signed
          NULL,
          Unset            \* a pointer or a size nothing was stored in

ASSUME DriverAssumption ==
  /\ NULL \notin Nat
  /\ UTIL_WEIGHT \in 0 .. 100 /\ AVG_LIBC_THRUPUT \in Nat \ {0}
  /\ Extents \subseteq Nat \ {0} /\ Extents # {} /\ IsFiniteSet(Extents)

VARIABLES package, team,
          pc, opt,         \* where main is, and the options it has read
          pass,            \* "libc" or "mm", whose allocator is being run
          i,               \* the trace that is being evaluated
          trace,           \* its requests, and blocks and block_sizes
          replies,         \* what the package answered: mm_init, request 1, ...
          k,               \* the request that is next
          ranges,          \* extents of the payloads, the newest first
          brk,             \* the size of the heap
          total,           \* total_size and max_total_size
          stats,           \* stats[pass]: valid, ops, util and secs of each trace
          errors,
          report           \* what main works out for its output

judged == <<package, team, opt>>
progress == <<pass, i, trace>>
heap == <<replies, k, ranges, brk, total>>
results == <<stats, errors, report>>
vars == <<judged, pc, progress, heap, results, timing>>

NoTrace == [num_ops |-> 0, ops |-> <<>>, blocks |-> <<>>, block_sizes |-> <<>>]

NoTotal == [size |-> 0, max |-> 0]

(* exit: the process is over, and pc says how.                             *)
Exit(how) == pc' = how

Over == {"done", "usage", "no_team", "unix_error", "bogus", "assert", "overrun", "app_error"}

----------------------------------------------------------------------------
(* Options and the team                                                    *)

NoOptions == [files |-> <<>>, dir |-> "traces", team_check |-> TRUE, run_libc |-> FALSE,
              autograder |-> FALSE, verbose |-> FALSE, stop |-> FALSE]

(* -f is one trace of the current directory, and makes a later -t void.    *)
Option(o, a) ==
  IF o.stop THEN o
  ELSE CASE a.c = "g" -> [o EXCEPT !.autograder = TRUE]
         [] a.c = "f" -> [o EXCEPT !.files = <<a.arg>>, !.dir = "here"]
         [] a.c = "t" -> IF o.files # <<>> THEN o ELSE [o EXCEPT !.dir = a.arg]
         [] a.c = "a" -> [o EXCEPT !.team_check = FALSE]
         [] a.c = "l" -> [o EXCEPT !.run_libc = TRUE]
         [] a.c \in {"v", "V"} -> [o EXCEPT !.verbose = TRUE]
         [] OTHER -> [o EXCEPT !.stop = TRUE]

Options(argv) == FoldLeft(Option, NoOptions, argv)

(* The fields that are filled in: a second member has all of his or none.  *)
TeamComplete ==
  /\ {"teamname", "name1", "id1"} \subseteq team
  /\ "name2" \in team <=> "id2" \in team

NamesFor(o) == IF o.files = <<>> THEN default_tracefiles ELSE o.files
Names == NamesFor(opt)
num_tracefiles == Len(Names)

NoStats == [valid |-> FALSE, ops |-> 0, util |-> 0, secs |-> 0]

(* main up to the first trace.                                             *)
Start ==
  /\ pc = "start"
  /\ \E argv \in Argvs : opt' = Options(argv)
  /\ IF opt'.stop THEN Exit("usage") /\ UNCHANGED <<pass, i, stats>>
     ELSE IF opt'.team_check /\ ~TeamComplete THEN Exit("no_team") /\ UNCHANGED <<pass, i, stats>>
     ELSE /\ pc' = "read" /\ i' = 1
          /\ pass' = IF opt'.run_libc THEN "libc" ELSE "mm"
          /\ stats' = [p \in {"libc", "mm"} |-> [n \in 1 .. num_tracefiles' |-> NoStats]]
  /\ UNCHANGED <<package, team, trace, heap, errors, report, timing>>

----------------------------------------------------------------------------
(* Traces                                                                  *)

Allocates(request) == request.type \in {"a", "r"}

(* The requests whose blocks are held when request n is next.              *)
Held(lines, n) ==
  {m \in 1 .. n - 1 :
     Allocates(lines[m]) /\ \A l \in m + 1 .. n - 1 : lines[l].index # lines[m].index}

(* A trace, as checktrace.pl has it: a block that is reallocated or freed  *)
(* is held, and one that is allocated is not.                              *)
Consistent(lines) ==
  \A n \in DOMAIN lines :
    LET held == \E m \in Held(lines, n) : lines[m].index = lines[n].index
    IN (lines[n].type = "a" => ~held) /\ (lines[n].type \in {"r", "f"} => held)

TraceFile(file) ==
  /\ file.num_ids \in Nat /\ file.num_ops \in Nat
  /\ file.lines \in Seq([type : STRING, index : Nat, size : Nat])
  /\ Consistent(file.lines)

(* A command line that is accepted names traces, each of which is missing  *)
(* or a file.                                                              *)
ASSUME DiskAssumption ==
  \A argv \in Argvs :
    LET o == Options(argv)
    IN o.stop \/ /\ NamesFor(o) \in Seq(STRING) \ {<<>>}
                 /\ \A n \in DOMAIN NamesFor(o) :
                      LET file == Disk[o.dir][NamesFor(o)[n]]
                      IN file = NULL \/ TraceFile(file)

(* What becomes of reading a file.  The requests are stored before anyone  *)
(* counts them: one too many is stored behind the array, and the assertion *)
(* only finds out if the process still lives.                              *)
ReadOutcomes(file) ==
  IF file = NULL THEN {"unix_error"}
  ELSE LET bogus == {n \in DOMAIN file.lines : file.lines[n].type \notin {"a", "r", "f"}}
           stored == IF bogus = {} THEN Len(file.lines) ELSE Min(bogus) - 1
           max_index == Max({0} \cup {file.lines[n].index :
                                        n \in {m \in DOMAIN file.lines : Allocates(file.lines[m])}})
       IN (IF stored > file.num_ops THEN {"overrun"} ELSE {}) \cup
          (IF bogus # {} THEN {"bogus"}
           ELSE IF max_index # file.num_ids - 1 \/ file.num_ops # Len(file.lines) THEN {"assert"}
           ELSE {"valid"})

read_trace ==
  /\ pc = "read"
  /\ LET file == Disk[opt.dir][Names[i]] IN
       \E outcome \in ReadOutcomes(file) :
         IF outcome = "valid"
         THEN /\ trace' = [num_ops |-> file.num_ops, ops |-> file.lines,
                           blocks |-> [id \in 0 .. file.num_ids - 1 |-> Unset],
                           block_sizes |-> [id \in 0 .. file.num_ids - 1 |-> Unset]]
              /\ stats' = [stats EXCEPT ![pass][i].ops = file.num_ops]
              /\ pc' = IF pass = "libc" THEN "libc_valid" ELSE "mm_init"
         ELSE Exit(outcome) /\ UNCHANGED <<trace, stats>>
  /\ UNCHANGED <<judged, pass, i, heap, errors, report, timing>>

(* The rows that say yes, and the total, which is there without errors.    *)
SumOf(rows, field) == SumFunction([n \in DOMAIN rows |-> rows[n][field]])
Totals(rows) ==
  [util |-> SumOf(rows, "util"), ops |-> SumOf(rows, "ops"), secs |-> SumOf(rows, "secs")]
printresults(rows) ==
  [yes |-> {n \in DOMAIN rows : rows[n].valid},
   total |-> IF errors = 0 THEN {Totals(SelectSeq(rows, LAMBDA row : row.valid))} ELSE {}]

(* free_trace, and on to the next one, the next allocator or the results.  *)
free_trace ==
  /\ pc = "free"
  /\ trace' = NoTrace /\ replies' = <<>> /\ k' = 1 /\ total' = NoTotal
  /\ IF i < num_tracefiles THEN i' = i + 1 /\ pc' = "read" /\ UNCHANGED <<pass, report>>
     ELSE /\ i' = 1 /\ pass' = "mm" /\ pc' = IF pass = "libc" THEN "read" ELSE "results"
          /\ report' = IF opt.verbose THEN [report EXCEPT ![pass] = printresults(stats[pass])]
                        ELSE report
  /\ UNCHANGED <<judged, ranges, brk, stats, errors, timing>>

----------------------------------------------------------------------------
(* The range list                                                          *)

Extent(lo, size) == [lo |-> lo, hi |-> lo + size - 1]
Within(r, heapsize) == {r.lo, r.hi} \subseteq 0 .. heapsize - 1
Touches(r, p) == r.lo \in p.lo .. p.hi \/ r.hi \in p.lo .. p.hi

(* What add_range accepts; an accepted extent goes to the list's front.    *)
add_range(list, r, heapsize) ==
  r.lo % ALIGNMENT = 0 /\ Within(r, heapsize) /\ \A n \in DOMAIN list : ~Touches(r, list[n])

remove_range(list, lo) ==
  LET at == {n \in DOMAIN list : list[n].lo = lo}
  IN IF at = {} THEN list ELSE RemoveAt(list, Min(at))

clear_ranges_forgotten == ranges                                   \* Mutant
clear_ranges == <<>>

----------------------------------------------------------------------------
(* eval_mm_valid                                                           *)

op == trace.ops[k]
block == trace.blocks[op.index]

(* The payload of the block that request m was answered with.              *)
Payload(m) == Extent(trace.blocks[trace.ops[m].index], trace.ops[m].size)

Disjoint(r, p) == r.hi < p.lo \/ p.hi < r.lo

(* What the package may answer to a request: an address or NULL, a heap it *)
(* may have extended, and whether the old data is in the new block.  An    *)
(* ideal package gives memory nobody else has, and keeps the data.         *)
Answers ==
  [p : {NULL} \cup 0 .. Max(Extents), brk : {b \in Extents : b >= brk}, kept : BOOLEAN]

Ideal(a) ==
  /\ a.kept /\ a.p # NULL /\ a.p % ALIGNMENT = 0 /\ a.p + op.size <= a.brk
  /\ \A m \in Held(trace.ops, k) :
        trace.ops[m].index # op.index => Disjoint(Extent(a.p, op.size), Payload(m))

(* malloc_error counts, and the pass ends: the trace is not valid.         *)
malloc_error ==
  /\ errors' = errors + 1
  /\ pc' = "free"

(* A block is compared through char, which is signed, with the low byte of *)
(* its index: high bytes never match.                                      *)
fill(index) == index % CHAR
as_char(byte) == IF byte >= CHAR \div 2 THEN byte - CHAR ELSE byte

preserved(a) ==
  \/ Min({op.size, trace.block_sizes[op.index]}) = 0
  \/ a.kept /\ as_char(fill(op.index)) = fill(op.index)

InitValid ==
  /\ pc = "mm_init"
  /\ k' = 1
  /\ ranges' = clear_ranges
  /\ \E ok \in IF package = "ideal" THEN {TRUE} ELSE BOOLEAN :
     \E b \in Extents :
       /\ brk' = b
       /\ replies' = <<[p |-> IF ok THEN 0 ELSE NULL, brk |-> b, kept |-> TRUE]>>
       /\ IF ok THEN pc' = "valid" /\ errors' = errors ELSE malloc_error
  /\ UNCHANGED <<judged, progress, total, stats, report, timing>>

Remember(p) == trace' = [trace EXCEPT !.blocks[op.index] = p, !.block_sizes[op.index] = op.size]

(* An alloc or a realloc: the answer, its extent, for a realloc its data.  *)
ValidAlloc ==
  /\ pc = "valid" /\ k <= trace.num_ops /\ Allocates(op)
  /\ \E a \in Answers :
       LET others == IF op.type = "r" THEN remove_range(ranges, block) ELSE ranges
           r == Extent(a.p, op.size)
       IN /\ package = "ideal" => Ideal(a)
          /\ op.type = "a" => a.kept
          /\ brk' = a.brk
          /\ replies' = Append(replies, a)
          /\ IF a.p = NULL THEN malloc_error /\ UNCHANGED <<ranges, k, trace>>
             ELSE IF op.size = 0 THEN /\ Exit("assert")
                                      /\ ranges' = others /\ UNCHANGED <<errors, k, trace>>
             ELSE IF ~add_range(others, r, a.brk)
             THEN malloc_error /\ ranges' = others /\ UNCHANGED <<k, trace>>
             ELSE /\ ranges' = <<r>> \o others
                  /\ IF op.type = "r" /\ ~preserved(a)
                     THEN malloc_error /\ UNCHANGED <<k, trace>>
                     ELSE Remember(a.p) /\ k' = k + 1 /\ UNCHANGED <<errors, pc>>
  /\ UNCHANGED <<judged, pass, i, total, stats, report, timing>>

ValidFree ==
  /\ pc = "valid" /\ k <= trace.num_ops /\ op.type = "f"
  /\ ranges' = remove_range(ranges, block)
  /\ replies' = Append(replies, [p |-> NULL, brk |-> brk, kept |-> TRUE])
  /\ k' = k + 1
  /\ UNCHANGED <<judged, pc, progress, brk, total, results, timing>>

(* The package is valid; eval_mm_util starts over with an empty heap.      *)
ValidEnd ==
  /\ pc = "valid" /\ k > trace.num_ops
  /\ stats' = [stats EXCEPT ![pass][i].valid = TRUE]
  /\ pc' = "util_init"
  /\ UNCHANGED <<judged, progress, heap, errors, report, timing>>

----------------------------------------------------------------------------
(* eval_mm_util, eval_mm_speed and their libc counterparts                 *)

(* In a later pass the package repeats what it answered to step n, or, if  *)
(* it is fickle, has no memory this time.                                  *)
Again(n) == {replies[n]} \cup
            IF package = "fickle" THEN {[replies[n] EXCEPT !.p = NULL]} ELSE {}

app_error == Exit("app_error")

InitUtil ==
  /\ pc = "util_init"
  /\ \E a \in Again(1) :
       /\ brk' = a.brk
       /\ IF a.p = NULL THEN app_error ELSE pc' = "util"
  /\ k' = 1
  /\ total' = NoTotal
  /\ UNCHANGED <<judged, progress, replies, ranges, results, timing>>

(* The sizes of the blocks are those of the last pass until this pass has  *)
(* stored its own.                                                         *)
Grown(by) == [size |-> total.size + by, max |-> Max({total.max, total.size + by})]
oldsize_ignored == 0                                               \* Mutant
oldsize == IF op.type = "r" THEN trace.block_sizes[op.index] ELSE 0

UtilAlloc ==
  /\ pc = "util" /\ k <= trace.num_ops /\ Allocates(op)
  /\ \E a \in Again(k + 1) :
       /\ brk' = a.brk
       /\ IF a.p = NULL THEN app_error /\ UNCHANGED <<trace, total, k>>
          ELSE Remember(a.p) /\ total' = Grown(op.size - oldsize) /\ k' = k + 1 /\ pc' = pc
  /\ UNCHANGED <<judged, pass, i, replies, ranges, results, timing>>

UtilFree ==
  /\ pc = "util" /\ k <= trace.num_ops /\ op.type = "f"
  /\ total' = [total EXCEPT !.size = @ - trace.block_sizes[op.index]]
  /\ k' = k + 1
  /\ UNCHANGED <<judged, pc, progress, replies, ranges, brk, results, timing>>

(* Utilisation is in percent.                                              *)
UtilEnd ==
  /\ pc = "util" /\ k > trace.num_ops
  /\ stats' = [stats EXCEPT ![pass][i].util = (100 * total.max) \div brk]
  /\ pc' = "time" /\ init_sampler
  /\ UNCHANGED <<judged, progress, heap, errors, report, method, cyc_per_tick, cache_buf>>

(* libc's malloc can only fail as a whole.                                 *)
eval_libc_valid ==
  /\ pc = "libc_valid"
  /\ \/ /\ stats' = [stats EXCEPT ![pass][i].valid = TRUE]
        /\ pc' = "time" /\ init_sampler /\ errors' = errors
     \/ /\ errors' = errors + 1 /\ Exit("unix_error")
        /\ UNCHANGED <<stats, sampler>>
  /\ UNCHANGED <<judged, progress, heap, report, method, cyc_per_tick, cache_buf>>

(* One run of eval_mm_speed or eval_libc_speed inside fsecs; the blocks it *)
(* stores are those that are there already.                                *)
Measure ==
  /\ pc = "time" /\ ~measured
  /\ fcyc_round \/ ftimer_runs
  /\ brk' = IF pass = "mm" THEN Last(replies).brk ELSE brk
  /\ UNCHANGED <<judged, pc, progress, replies, k, ranges, total, results>>

SpeedFails ==
  /\ pc = "time" /\ ~measured
  /\ \/ pass = "libc" /\ Exit("unix_error")
     \/ pass = "mm" /\ (\E n \in DOMAIN replies : \E a \in Again(n) : a # replies[n]) /\ app_error
     \/ method = "fcyc" /\ clear_fails /\ Exit("unix_error")
  /\ UNCHANGED <<judged, progress, heap, results, timing>>

TimeEnd ==
  /\ pc = "time" /\ measured
  /\ stats' = [stats EXCEPT ![pass][i].secs = fsecs]
  /\ pc' = "free" /\ init_sampler
  /\ UNCHANGED <<judged, progress, heap, errors, report, method, cyc_per_tick, cache_buf>>

----------------------------------------------------------------------------
(* The end of main: the tally and the performance index, of at most 100.   *)

perfindex(rows) ==
  LET sum == Totals(rows)
      p1 == (UTIL_WEIGHT * (sum.util \div num_tracefiles)) \div 100
      full == 100 - UTIL_WEIGHT
      p2 == IF sum.secs = 0 \/ sum.ops > AVG_LIBC_THRUPUT * sum.secs THEN full
            ELSE (full * sum.ops) \div (AVG_LIBC_THRUPUT * sum.secs)
  IN p1 + p2

Report ==
  /\ pc = "results"
  /\ report' = [report EXCEPT
       !.errors = errors,
       !.correct = Cardinality({n \in 1 .. num_tracefiles : stats.mm[n].valid}),
       !.perfidx = IF errors = 0 THEN perfindex(stats.mm) ELSE 0]
  /\ Exit("done")
  /\ UNCHANGED <<judged, progress, heap, stats, errors, timing>>

eval_mm_valid == InitValid \/ ValidAlloc \/ ValidFree \/ ValidEnd
eval_mm_util == InitUtil \/ UtilAlloc \/ UtilFree \/ UtilEnd
Next ==
  Start \/ read_trace \/ eval_libc_valid \/ eval_mm_valid \/ eval_mm_util
  \/ Measure \/ SpeedFails \/ TimeEnd \/ free_trace \/ Report

Init ==
  /\ package \in {"ideal", "steady", "fickle"} /\ team \in Teams /\ opt = NoOptions
  /\ pc = "start" /\ pass = "mm" /\ i = 1 /\ trace = NoTrace
  /\ replies = <<>> /\ k = 1 /\ ranges = <<>> /\ brk = 0 /\ total = NoTotal
  /\ stats = [p \in {"libc", "mm"} |-> <<>>] /\ errors = 0
  /\ report = [libc |-> {}, mm |-> {}, errors |-> 0, correct |-> 0, perfidx |-> 0]
  /\ TimingInit

Spec == Init /\ [][Next]_vars

----------------------------------------------------------------------------
TypeOK ==
  /\ TimingTypeOK /\ samplecount <= Max({maxsamples, RUNS})
  /\ package \in {"ideal", "steady", "fickle"} /\ pass \in {"libc", "mm"}
  /\ pc \in Over \cup {"start", "read", "libc_valid", "mm_init", "valid", "util_init", "util",
                        "time", "free", "results"}
  /\ k \in 1 .. trace.num_ops + 1
  /\ brk \in {0} \cup Extents
  /\ ranges \in Seq([lo : Nat, hi : Nat])
  /\ errors \in 0 .. Len(stats.mm) \cup {1}
  /\ total.size \in Nat /\ total.max \in Nat

(* While a trace is tried, the range list holds the payloads the trace     *)
(* holds, each once, and nothing of an earlier trace or of a block that was*)
(* freed or moved; all of them are aligned and in the heap.                *)
RangesAreLive ==
  pc = "valid" =>
    /\ ToSet(ranges) = {Payload(m) : m \in Held(trace.ops, k)}
    /\ Len(ranges) = Cardinality(Held(trace.ops, k))
    /\ \A n \in DOMAIN ranges :
         ranges[n].lo % ALIGNMENT = 0 /\ 0 <= ranges[n].lo /\ ranges[n].hi < brk

(* "The payload must not overlap any other payloads" (mdriver.c:440): as   *)
(* long as a trace is not condemned, the payloads it holds are apart.  Not *)
(* so: add_range overlooks a payload that encloses an older one.           *)
PayloadsApart ==
  pc = "valid" =>
    \A m, l \in Held(trace.ops, k) : m # l => Disjoint(Payload(m), Payload(l))

(* What the payloads held before request n add up to, and the most of it.  *)
Load(lines, n) == SumFunctionOnSet([m \in DOMAIN lines |-> lines[m].size], Held(lines, n))
HighWater == Max({Load(trace.ops, n) : n \in 1 .. trace.num_ops + 1})

UtilisationTrue ==
  pc = "time" /\ pass = "mm" =>
    /\ stats.mm[i].util = (100 * HighWater) \div brk
    /\ package = "ideal" => stats.mm[i].util <= 100

(* Whether the driver reads a block's byte as another than it wrote.       *)
Unreadable(file) ==
  \E n \in DOMAIN file.lines :
    file.lines[n].type = "r" /\ as_char(fill(file.lines[n].index)) # fill(file.lines[n].index)

(* Request n was answered with memory that is aligned, in the heap and has *)
(* neither of its ends in a payload held, and a realloc kept the data.     *)
Given(m) == Extent(replies[m + 1].p, trace.ops[m].size)

WellServed(n) ==
  /\ replies[n + 1].p # NULL
  /\ Given(n).lo % ALIGNMENT = 0 /\ 0 <= Given(n).lo /\ Given(n).hi < replies[n + 1].brk
  /\ trace.ops[n].type = "r" => replies[n + 1].kept
  /\ \A m \in Held(trace.ops, n) :
       trace.ops[m].index # trace.ops[n].index =>
         {Given(n).lo, Given(n).hi} \cap Given(m).lo .. Given(m).hi = {}

VerdictTrue ==
  pc = "util_init" => \A n \in DOMAIN trace.ops : Allocates(trace.ops[n]) => WellServed(n)

CountsAddUp ==
  pc = "done" =>
    /\ report.correct + report.errors = num_tracefiles
    /\ report.perfidx > 0 => report.correct = num_tracefiles
    /\ report.perfidx \in 0 .. 100 \/ package # "ideal"

(* A trace found valid was served well, all of it, but for payloads that   *)
(* enclose others (PayloadsApart); the utilisation is that of the trace's  *)
(* high-water mark; as many traces failed as errors are counted; a package *)
(* that repeats itself fails no pass that follows a valid one; and one that*)
(* gives good memory is found valid on every trace that reallocs no block  *)
(* whose fill byte is negative as a char (mdriver.c:702).                  *)
ReportTrue ==
  /\ VerdictTrue
  /\ UtilisationTrue
  /\ CountsAddUp
  /\ pc = "app_error" => package = "fickle"
  /\ package = "ideal" /\ errors > 0 =>
       pass = "libc" \/ \E n \in 1 .. num_tracefiles : Unreadable(Disk[opt.dir][Names[n]])
=============================================================================
