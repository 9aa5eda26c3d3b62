---------------------------- MODULE DriverProof ----------------------------
(***************************************************************************)
(* Proofs about Driver and Timing, for any package, any consistent traces, *)
(* any clock and any number of samples.                                    *)
(***************************************************************************)
EXTENDS Driver, SequenceTheorems, FiniteSetTheorems, TLAPS

Passes == {"libc", "mm"}
Request == [type : STRING, index : Nat, size : Nat]
Range_t == [lo : Nat, hi : Nat]
Answer == [p : {NULL} \cup Nat, brk : Extents, kept : BOOLEAN]
Row == [valid : BOOLEAN, ops : Nat, util : Nat, secs : Nat]

----------------------------------------------------------------------------
(* Before the first trace, and where a trace is there                      *)

Early == {"start", "usage", "no_team"}
Loaded == {"libc_valid", "mm_init", "valid", "util_init", "util", "time", "free"}

FileAt(n) == Disk[opt.dir][Names[n]]

Fresh == trace = NoTrace /\ replies = <<>> /\ k = 1 /\ total = NoTotal

(* The trace in memory is that of its file, which is as its head says.     *)
FromFile(file) ==
  /\ TraceFile(file)
  /\ Len(file.lines) = file.num_ops
  /\ \A n \in 1 .. file.num_ops :
       /\ file.lines[n].type \in {"a", "r", "f"}
       /\ Allocates(file.lines[n]) => file.lines[n].index < file.num_ids
  /\ trace \in [num_ops : {file.num_ops}, ops : {file.lines},
                blocks : [0 .. file.num_ids - 1 -> Nat \cup {Unset}],
                block_sizes : [0 .. file.num_ids - 1 -> Nat \cup {Unset}]]

(* What holds of every variable by itself.                                 *)
BasicInv ==
  /\ package \in {"ideal", "steady", "fickle"} /\ pass \in Passes
  /\ pc \in Over \cup Early \cup Loaded \cup {"read", "results"}
  /\ replies \in Seq(Answer)
  /\ k \in 1 .. trace.num_ops + 1
  /\ brk \in {0} \cup Extents
  /\ ranges \in Seq(Range_t)
  /\ errors \in Nat
  /\ total \in [size : Nat, max : Nat]
  /\ DOMAIN report = {"libc", "mm", "errors", "correct", "perfidx"}
  /\ pc \in {"mm_init", "valid", "util_init", "util", "results", "done"} => pass = "mm"
  /\ pc = "libc_valid" => pass = "libc"

(* A command line has been accepted, and main has one of its traces.       *)
Accepted ==
  /\ \E argv \in Argvs : opt = Options(argv) /\ ~opt.stop
  /\ i \in 1 .. num_tracefiles
  /\ stats \in [Passes -> [1 .. num_tracefiles -> Row]]

PlaceInv ==
  /\ pc \in Early => Fresh /\ errors = 0 /\ stats.mm = <<>>
  /\ pc \notin Early => Accepted
  /\ pc \in Loaded => FromFile(FileAt(i))
  /\ pc \notin Loaded => Fresh \/ (pc \in Over \ Early /\ FromFile(FileAt(i)))

----------------------------------------------------------------------------
(* What the package has answered, up to the request before n               *)

(* Memory for request m, or, if it gives memory back, the heap as it was.  *)
Serves(m) ==
  IF Allocates(trace.ops[m]) THEN replies[m + 1].p # NULL
  ELSE replies[m + 1].brk = replies[m].brk

Answered(n) ==
  /\ Len(replies) = n
  /\ replies[1].p # NULL
  /\ \A m \in 1 .. n - 1 : Serves(m)
  /\ package = "ideal" => \A m \in 1 .. n : Load(trace.ops, m) <= replies[n].brk

Sizes == \A m \in Held(trace.ops, k) :
           trace.block_sizes[trace.ops[m].index] = trace.ops[m].size

(* Two extents of the list overlap only where the newer encloses the older.*)
RangesNested ==
  \A n \in DOMAIN ranges : \A m \in 1 .. n - 1 :
    \/ Disjoint(ranges[m], ranges[n])
    \/ ranges[m].lo < ranges[n].lo /\ ranges[n].hi < ranges[m].hi

ValidInv ==
  pc = "valid" =>
    /\ Answered(k)
    /\ brk = replies[k].brk
    /\ \A m \in Held(trace.ops, k) :
         trace.blocks[trace.ops[m].index] \in Nat /\ trace.ops[m].size > 0
    /\ \A m, l \in Held(trace.ops, k) :
         m # l => trace.blocks[trace.ops[m].index] # trace.blocks[trace.ops[l].index]
    /\ Sizes
    /\ package = "ideal" =>
         \A m, l \in Held(trace.ops, k) : m # l => Disjoint(Payload(m), Payload(l))
    /\ RangesAreLive /\ RangesNested

LaterInv ==
  pc \in {"util_init", "util", "time"} /\ pass = "mm" => Answered(trace.num_ops + 1)

UtilInv ==
  pc = "util" =>
    /\ brk = replies[k].brk
    /\ Sizes
    /\ total.size = Load(trace.ops, k)
    /\ total.max = Max({Load(trace.ops, n) : n \in 1 .. k})

TimeInv ==
  /\ pc = "time" /\ pass = "mm" => brk = Last(replies).brk
  /\ UtilisationTrue

----------------------------------------------------------------------------
(* The tally                                                               *)

(* The traces that the package under test has been through.                *)
Tried ==
  IF pc \in {"results", "done"} THEN num_tracefiles
  ELSE IF pass = "libc" THEN 0
  ELSE IF pc = "free" THEN i ELSE i - 1

Passing == pass = "mm" /\ pc \in {"util_init", "util", "time"}

CountInv ==
  pc \notin Early =>
    /\ IF pass = "libc" THEN errors = 0 \/ (pc = "unix_error" /\ errors = 1)
       ELSE errors = Cardinality({n \in 1 .. Tried : ~stats.mm[n].valid})
    /\ pc \notin Over =>
         \A n \in Tried + 1 .. num_tracefiles : stats.mm[n].valid <=> Passing /\ n = i
    /\ package = "ideal" => \A n \in 1 .. num_tracefiles : stats.mm[n].util <= 100

ReportInv ==
  /\ CountsAddUp
  /\ pc = "app_error" => package = "fickle"
  /\ package = "ideal" /\ errors > 0 =>
       pass = "libc" \/ \E n \in 1 .. num_tracefiles : Unreadable(FileAt(n))

----------------------------------------------------------------------------
(* The clocks                                                              *)

Cpts == {0} \cup {e.cycles \div e.ticks : e \in Events}

TimingInv ==
  /\ method \in {"fcyc", "itimer", "gettod"}
  /\ cyc_per_tick \in Cpts /\ cache_buf \in BOOLEAN
  /\ values \in Seq(Nat) /\ samples \in Seq(Nat)
  /\ samplecount \in Nat /\ samplecount <= Max({maxsamples, RUNS})
  /\ method # "fcyc" => samplecount = IF samples = <<>> THEN 0 ELSE RUNS
  /\ BestSamples

MainInv == /\ BasicInv /\ PlaceInv /\ ValidInv /\ LaterInv /\ UtilInv /\ TimeInv
           /\ CountInv /\ ReportInv

(* The blocks of the trace are where the package said, and the requests    *)
(* that the driver has been through were served well.                      *)
VerdictInv ==
  /\ pc = "valid" =>
       /\ \A n \in 1 .. k - 1 : Allocates(trace.ops[n]) => WellServed(n)
       /\ \A m \in Held(trace.ops, k) : trace.blocks[trace.ops[m].index] = replies[m + 1].p
  /\ VerdictTrue

IInv == MainInv /\ TimingInv /\ VerdictInv

----------------------------------------------------------------------------
(* Induction, for sets instead of predicates                               *)

(* A set that holds 0, and with every number the next, holds all.          *)
LEMMA AllNumbers ==
  ASSUME NEW T, 0 \in T, \A n \in Nat : n \in T => n + 1 \in T
  PROVE  Nat \subseteq T
<1> DEFINE R == OpToRel(<, Nat)
           Rest == Nat \ T
<1>1. SUFFICES ASSUME Rest # {} PROVE FALSE
  OBVIOUS
<1>2. PICK n \in Rest : \A m \in Rest : <<m, n>> \notin R
  <2>1. IsWellFoundedOn(R, Nat)
    BY NatLessThanWellFounded
  <2> HIDE DEF R
  <2> QED BY <1>1, <2>1, WFMin
<1>3. \A m \in Rest : ~(m < n)
  BY <1>2 DEF OpToRel
<1> HIDE DEF R
<1>4. n # 0 /\ n - 1 \in Nat /\ n - 1 < n
  OBVIOUS
<1>5. n - 1 \in T /\ (n - 1) + 1 = n
  BY <1>3, <1>4
<1> QED BY <1>4, <1>5

(* A family that holds the empty set, and with every set also the set with *)
(* one element of S more, holds S.                                         *)
LEMMA AllSubsets ==
  ASSUME NEW S, IsFiniteSet(S), NEW T, {} \in T,
         \A s \in SUBSET S, x \in S : s \in T /\ x \notin s => s \cup {x} \in T
  PROVE  S \in T
<1> DEFINE Sized == {n \in Nat : \A s \in SUBSET S : Cardinality(s) = n => s \in T}
<1>1. \A s \in SUBSET S : IsFiniteSet(s) /\ Cardinality(s) \in Nat
  BY FS_Subset, FS_CardinalityType
<1>2. 0 \in Sized
  BY <1>1, FS_EmptySet
<1>3. ASSUME NEW n \in Nat, n \in Sized PROVE n + 1 \in Sized
  <2> SUFFICES ASSUME NEW s \in SUBSET S, Cardinality(s) = n + 1 PROVE s \in T
    OBVIOUS
  <2>1. s # {}
    BY FS_EmptySet
  <2>2. PICK x : x \in s
    BY <2>1
  <2>3. Cardinality(s \ {x}) = n
    <3>1. Cardinality(s \ {x}) = Cardinality(s) - 1
      BY <1>1, <2>2, FS_RemoveElement
    <3> QED BY <3>1
  <2>4. s \ {x} \in T
    BY <1>3, <2>3
  <2>5. (s \ {x}) \cup {x} = s
    BY <2>2
  <2> QED BY <2>2, <2>4, <2>5
<1>4. Nat \subseteq Sized
  <2> HIDE DEF Sized
  <2> QED BY <1>2, <1>3, AllNumbers
<1> QED BY <1>1, <1>4

(* A finite set of integers that is not empty has a largest member and a   *)
(* smallest.                                                               *)
LEMMA Extremes ==
  ASSUME NEW S, IsFiniteSet(S), S \subseteq Int, S # {}
  PROVE  /\ Max(S) \in S /\ \A x \in S : x <= Max(S)
         /\ Min(S) \in S /\ \A x \in S : Min(S) <= x
<1> DEFINE Bounded(s) == \E a, b \in s : \A x \in s : x <= a /\ b <= x
           T == {s \in SUBSET S : s = {} \/ Bounded(s)}
<1>1. ASSUME NEW s \in SUBSET S, NEW x \in S, s \in T PROVE s \cup {x} \in T
  <2>1. CASE s = {}
    BY <1>1, <2>1
  <2>2. CASE s # {}
    <3>1. PICK a, b \in s : \A y \in s : y <= a /\ b <= y
      BY <1>1, <2>2
    <3>2. a \in Int /\ b \in Int /\ x \in Int /\ \A y \in s : y \in Int
      OBVIOUS
    <3> DEFINE a2 == IF a < x THEN x ELSE a
               b2 == IF x < b THEN x ELSE b
    <3>3. a2 \in s \cup {x} /\ b2 \in s \cup {x}
      OBVIOUS
    <3>4. \A y \in s \cup {x} : y <= a2 /\ b2 <= y
      BY <3>1, <3>2
    <3>5. Bounded(s \cup {x})
      <4> HIDE DEF a2, b2
      <4> QED BY <3>3, <3>4
    <3> QED BY <3>5
  <2> QED BY <2>1, <2>2
<1>2. S \in T
  <2>1. {} \in T
    OBVIOUS
  <2> HIDE DEF T
  <2> QED BY <1>1, <2>1, AllSubsets
<1>3. Bounded(S)
  BY <1>2
<1> QED BY <1>3 DEF Max, Min

(* The maximum of two.                                                     *)
LEMMA MaxOfTwo == \A a, b \in Int : Max({a, b}) = IF a < b THEN b ELSE a
  BY DEF Max

(* The minimum of two.                                                     *)
LEMMA MinOfTwo == \A a, b \in Int : Min({a, b}) = IF a < b THEN a ELSE b
  BY DEF Min

----------------------------------------------------------------------------
(* Sums                                                                    *)

(* What SumFunctionOnSet looks for: the sums over all subsets.             *)
Sums(w, S, f) ==
  f = [s \in SUBSET S |->
         IF s = {} THEN 0 ELSE w[CHOOSE x \in s : TRUE] + f[s \ {CHOOSE x \in s : TRUE}]]

(* There are such sums.                                                    *)
LEMMA SumsExist ==
  ASSUME NEW S, IsFiniteSet(S), NEW w, \A x \in S : w[x] \in Int
  PROVE  \E f \in [SUBSET S -> Int] : Sums(w, S, f)
<1> DEFINE first(s) == CHOOSE x \in s : TRUE
           Eq(f, s) == f[s] = IF s = {} THEN 0 ELSE w[first(s)] + f[s \ {first(s)}]
           Upto(f, n) == \A s \in SUBSET S : Cardinality(s) <= n => Eq(f, s)
           T == {n \in Nat : \E f \in [SUBSET S -> Int] : Upto(f, n)}
<1>1. \A s \in SUBSET S : IsFiniteSet(s) /\ Cardinality(s) \in Nat
  BY FS_Subset, FS_CardinalityType
<1>2. \A s \in SUBSET S : s # {} =>
        /\ first(s) \in S
        /\ s \ {first(s)} \in SUBSET S
        /\ Cardinality(s \ {first(s)}) = Cardinality(s) - 1
  <2> TAKE s \in SUBSET S
  <2> HAVE s # {}
  <2>1. first(s) \in s
    OBVIOUS
  <2> HIDE DEF first
  <2> QED BY <1>1, <2>1, FS_RemoveElement
<1> HIDE DEF first
<1>3. 0 \in T
  <2> DEFINE f == [s \in SUBSET S |-> 0]
  <2>1. Upto(f, 0)
    BY <1>1, FS_EmptySet
  <2>2. f \in [SUBSET S -> Int]
    OBVIOUS
  <2> HIDE DEF f, Upto
  <2> QED BY <2>1, <2>2
<1>4. ASSUME NEW n \in Nat, n \in T PROVE n + 1 \in T
  <2>1. PICK f \in [SUBSET S -> Int] : Upto(f, n)
    BY <1>4
  <2> DEFINE g == [s \in SUBSET S |->
                     IF Cardinality(s) <= n THEN f[s] ELSE w[first(s)] + f[s \ {first(s)}]]
  <2>2. \A s \in SUBSET S : Cardinality(s) > n => s # {}
    <3>1. \A s \in SUBSET S : Cardinality(s) > n => Cardinality(s) # 0
      BY <1>1
    <3> QED BY <3>1, FS_EmptySet
  <2>3. g \in [SUBSET S -> Int]
    BY <1>1, <1>2, <2>2
  <2>4. ASSUME NEW s \in SUBSET S, Cardinality(s) <= n + 1 PROVE Eq(g, s)
    <3>1. CASE s = {}
      BY <2>1, <3>1, FS_EmptySet
    <3>2. CASE s # {}
      <4>1. g[s \ {first(s)}] = f[s \ {first(s)}]
        BY <1>1, <1>2, <2>4, <3>2
      <4>2. Cardinality(s) <= n => f[s] = w[first(s)] + f[s \ {first(s)}]
        BY <2>1, <3>2
      <4>3. g[s] = w[first(s)] + f[s \ {first(s)}]
        BY <4>2
      <4> HIDE DEF g
      <4> QED BY <3>2, <4>1, <4>3
    <3> QED BY <3>1, <3>2
  <2> HIDE DEF g
  <2>5. Upto(g, n + 1)
    BY <2>4
  <2> HIDE DEF Upto
  <2> QED BY <2>3, <2>5
<1>5. Cardinality(S) \in T
  <2> HIDE DEF T
  <2> QED BY <1>1, <1>3, <1>4, AllNumbers
<1>6. PICK f \in [SUBSET S -> Int] : Upto(f, Cardinality(S))
  BY <1>5
<1>7. \A s \in SUBSET S : Eq(f, s)
  BY <1>6, FS_Subset
<1>8. Sums(w, S, f)
  BY <1>7 DEF Sums, first
<1> QED BY <1>8

(* The sums over a set and over one of its subsets agree on the subset.    *)
LEMMA SumsAgree ==
  ASSUME NEW S, IsFiniteSet(S), NEW Q \in SUBSET S, NEW w, NEW f, Sums(w, S, f),
         NEW g, Sums(w, Q, g)
  PROVE  f[Q] = g[Q]
<1> DEFINE first(s) == CHOOSE x \in s : TRUE
           T == {n \in Nat : \A s \in SUBSET Q : Cardinality(s) = n => f[s] = g[s]}
<1>1. \A s \in SUBSET Q : IsFiniteSet(s) /\ Cardinality(s) \in Nat
  BY FS_Subset, FS_CardinalityType
<1>2. \A s \in SUBSET Q : s # {} =>
        /\ s \ {first(s)} \in SUBSET Q
        /\ Cardinality(s \ {first(s)}) = Cardinality(s) - 1
        /\ f[s] = w[first(s)] + f[s \ {first(s)}]
        /\ g[s] = w[first(s)] + g[s \ {first(s)}]
  <2> TAKE s \in SUBSET Q
  <2> HAVE s # {}
  <2>1. first(s) \in s
    OBVIOUS
  <2>2. f[s] = w[first(s)] + f[s \ {first(s)}] /\ g[s] = w[first(s)] + g[s \ {first(s)}]
    BY DEF Sums
  <2> HIDE DEF first
  <2> QED BY <1>1, <2>1, <2>2, FS_RemoveElement
<1> HIDE DEF first
<1>3. f[{}] = 0 /\ g[{}] = 0
  BY DEF Sums
<1>4. 0 \in T
  BY <1>1, <1>3, FS_EmptySet
<1>5. ASSUME NEW n \in Nat, n \in T PROVE n + 1 \in T
  <2> SUFFICES ASSUME NEW s \in SUBSET Q, Cardinality(s) = n + 1 PROVE f[s] = g[s]
    OBVIOUS
  <2>1. s # {}
    <3>1. Cardinality(s) # 0
      OBVIOUS
    <3> QED BY <3>1, FS_EmptySet
  <2>2. Cardinality(s \ {first(s)}) = n
    BY <1>2, <2>1
  <2> QED BY <1>2, <1>5, <2>1, <2>2
<1>6. Cardinality(Q) \in T
  <2> HIDE DEF T
  <2> QED BY <1>1, <1>4, <1>5, AllNumbers
<1> QED BY <1>6

(* SumFunctionOnSet is such a sum.                                         *)
LEMMA SumIs ==
  ASSUME NEW S, IsFiniteSet(S), NEW w, \A x \in S : w[x] \in Int,
         NEW g, Sums(w, S, g), NEW s \in SUBSET S
  PROVE  SumFunctionOnSet(w, s) = g[s]
<1> DEFINE f == CHOOSE f : Sums(w, s, f)
<1>1. IsFiniteSet(s)
  BY FS_Subset
<1>2. \E h : Sums(w, s, h)
  BY <1>1, SumsExist
<1>3. Sums(w, s, f)
  BY <1>2
<1>4. SumFunctionOnSet(w, s) = f[s]
  BY DEF SumFunctionOnSet, FoldFunctionOnSet, MapThenFoldSet, Sums
<1> HIDE DEF f
<1> QED BY <1>3, <1>4, SumsAgree

(* A sum is a weight and the sum of the rest.                              *)
LEMMA SumFirst ==
  ASSUME NEW S, IsFiniteSet(S), NEW w, \A x \in S : w[x] \in Int
  PROVE  /\ SumFunctionOnSet(w, S) \in Int
         /\ S = {} => SumFunctionOnSet(w, S) = 0
         /\ S # {} => \E x \in S :
              SumFunctionOnSet(w, S) = w[x] + SumFunctionOnSet(w, S \ {x})
<1>1. PICK f \in [SUBSET S -> Int] : Sums(w, S, f)
  BY SumsExist
<1>2. \A s \in SUBSET S : SumFunctionOnSet(w, s) = f[s]
  BY <1>1, SumIs
<1>3. S = {} => f[S] = 0
  BY <1>1 DEF Sums
<1>4. S # {} => LET x == CHOOSE x \in S : TRUE
                IN x \in S /\ f[S] = w[x] + f[S \ {x}]
  BY <1>1 DEF Sums
<1> QED BY <1>1, <1>2, <1>3, <1>4

(* A sum is any weight and the sum of the rest.                            *)
LEMMA SumSplit ==
  ASSUME NEW S, IsFiniteSet(S), NEW w, \A x \in S : w[x] \in Int, NEW x \in S
  PROVE  SumFunctionOnSet(w, S) = w[x] + SumFunctionOnSet(w, S \ {x})
<1> DEFINE Sum(s) == SumFunctionOnSet(w, s)
           T == {n \in Nat : \A s \in SUBSET S : Cardinality(s) = n =>
                               \A y \in s : Sum(s) = w[y] + Sum(s \ {y})}
<1>1. \A s \in SUBSET S : IsFiniteSet(s) /\ Cardinality(s) \in Nat
  BY FS_Subset, FS_CardinalityType
<1>2. \A s \in SUBSET S : \A y \in s : Cardinality(s \ {y}) = Cardinality(s) - 1
  BY <1>1, FS_RemoveElement
<1>3. \A s \in SUBSET S : Sum(s) \in Int
  BY <1>1, SumFirst
<1>4. \A s \in SUBSET S : s # {} => \E y \in s : Sum(s) = w[y] + Sum(s \ {y})
  <2> TAKE s \in SUBSET S
  <2> HAVE s # {}
  <2> QED BY <1>1, SumFirst
<1> HIDE DEF Sum
<1>5. 0 \in T
  <2>1. \A s \in SUBSET S : Cardinality(s) = 0 => s = {}
    BY <1>1, FS_EmptySet
  <2> QED BY <2>1
<1>6. ASSUME NEW n \in Nat, n \in T PROVE n + 1 \in T
  <2> SUFFICES ASSUME NEW s \in SUBSET S, Cardinality(s) = n + 1, NEW y \in s
               PROVE  Sum(s) = w[y] + Sum(s \ {y})
    OBVIOUS
  <2>1. PICK z \in s : Sum(s) = w[z] + Sum(s \ {z})
    BY <1>4
  <2>2. CASE z = y
    BY <2>1, <2>2
  <2>3. CASE z # y
    <3>1. Cardinality(s \ {y}) = n /\ Cardinality(s \ {z}) = n
      <4>1. Cardinality(s \ {y}) = Cardinality(s) - 1 /\ Cardinality(s \ {z}) = Cardinality(s) - 1
        BY <1>2
      <4> QED BY <4>1
    <3>2. z \in s \ {y} /\ y \in s \ {z} /\ s \ {y} \in SUBSET S /\ s \ {z} \in SUBSET S
      BY <2>3
    <3>3. Sum(s \ {y}) = w[z] + Sum((s \ {y}) \ {z})
      BY <1>6, <3>1, <3>2
    <3>4. Sum(s \ {z}) = w[y] + Sum((s \ {z}) \ {y})
      BY <1>6, <3>1, <3>2
    <3> DEFINE rest == Sum((s \ {y}) \ {z})
    <3>5. (s \ {y}) \ {z} = (s \ {z}) \ {y}
      OBVIOUS
    <3>6. rest \in Int /\ w[y] \in Int /\ w[z] \in Int
      BY <1>3
    <3>7. Sum(s \ {y}) = w[z] + rest /\ Sum(s \ {z}) = w[y] + rest
      BY <3>3, <3>4, <3>5
    <3> HIDE DEF rest
    <3> QED BY <2>1, <3>6, <3>7
  <2> QED BY <2>2, <2>3
<1>7. Cardinality(S) \in T
  <2> HIDE DEF T
  <2> QED BY <1>1, <1>5, <1>6, AllNumbers
<1> QED BY <1>7 DEF Sum

(* Weights between 0 and c add up to no more than c for each.              *)
LEMMA SumBounds ==
  ASSUME NEW S, IsFiniteSet(S), NEW w, NEW c \in Nat, \A x \in S : w[x] \in 0 .. c
  PROVE  SumFunctionOnSet(w, S) \in 0 .. c * Cardinality(S)
<1> DEFINE T == {s \in SUBSET S : SumFunctionOnSet(w, s) \in 0 .. c * Cardinality(s)}
<1>1. {} \in T
  BY FS_EmptySet, SumFirst
<1>2. ASSUME NEW s \in SUBSET S, NEW x \in S, s \in T, x \notin s PROVE s \cup {x} \in T
  <2>1. IsFiniteSet(s \cup {x}) /\ IsFiniteSet(s)
    BY FS_Subset
  <2>2. (s \cup {x}) \ {x} = s
    BY <1>2
  <2>3. SumFunctionOnSet(w, s \cup {x}) = w[x] + SumFunctionOnSet(w, s)
    BY <2>1, <2>2, SumSplit
  <2>4. Cardinality(s) \in Nat /\ Cardinality(s \cup {x}) = Cardinality(s) + 1
    BY <1>2, <2>1, FS_AddElement, FS_CardinalityType
  <2>5. SumFunctionOnSet(w, s) \in 0 .. c * Cardinality(s)
    BY <1>2
  <2> DEFINE sum == SumFunctionOnSet(w, s)
             n == Cardinality(s)
  <2>6. sum \in 0 .. c * n /\ n \in Nat /\ w[x] \in 0 .. c
    BY <2>4, <2>5
  <2> HIDE DEF sum, n
  <2>7. w[x] + sum \in 0 .. c * (n + 1)
    <3>1. c * n \in Nat /\ c * (n + 1) = c * n + c
      BY <2>6
    <3> QED BY <2>6, <3>1
  <2> QED BY <2>3, <2>4, <2>7 DEF sum, n
<1> HIDE DEF T
<1>3. S \in T
  BY <1>1, <1>2, AllSubsets
<1> QED BY <1>3 DEF T

(* Intervals of an address space that are apart have no more addresses     *)
(* than it has.                                                            *)
LEMMA Packing ==
  ASSUME NEW S, IsFiniteSet(S), NEW w, NEW at, NEW b \in Nat,
         \A x \in S : w[x] \in Nat /\ at[x] \in Nat /\ at[x] + w[x] <= b,
         \A x, y \in S : x # y => at[x] + w[x] <= at[y] \/ at[y] + w[y] <= at[x]
  PROVE  SumFunctionOnSet(w, S) <= b
<1> DEFINE Used(s) == {a \in 0 .. b - 1 : \E x \in s : at[x] <= a /\ a < at[x] + w[x]}
           T == {s \in SUBSET S : SumFunctionOnSet(w, s) = Cardinality(Used(s))}
<1>1. IsFiniteSet(0 .. b - 1) /\ Cardinality(0 .. b - 1) <= b
  BY FS_Interval
<1>2. \A s : IsFiniteSet(Used(s)) /\ Cardinality(Used(s)) \in Nat /\ Cardinality(Used(s)) <= b
  <2> TAKE s
  <2>1. Used(s) \in SUBSET (0 .. b - 1)
    OBVIOUS
  <2> HIDE DEF Used
  <2>2. IsFiniteSet(Used(s)) /\ Cardinality(Used(s)) <= Cardinality(0 .. b - 1)
    BY <1>1, <2>1, FS_Subset
  <2>3. Cardinality(Used(s)) \in Nat /\ Cardinality(0 .. b - 1) \in Nat
    BY <1>1, <2>2, FS_CardinalityType
  <2> QED BY <1>1, <2>2, <2>3
<1>3. {} \in T
  <2>1. Used({}) = {}
    OBVIOUS
  <2> QED BY <2>1, FS_EmptySet, SumFirst
<1>4. ASSUME NEW s \in SUBSET S, NEW x \in S, s \in T, x \notin s PROVE s \cup {x} \in T
  <2> DEFINE mine == at[x] .. at[x] + w[x] - 1
  <2>1. IsFiniteSet(s \cup {x})
    BY FS_Subset
  <2>2. (s \cup {x}) \ {x} = s
    BY <1>4
  <2>3. SumFunctionOnSet(w, s \cup {x}) = w[x] + SumFunctionOnSet(w, s)
    BY <2>1, <2>2, SumSplit
  <2>4. w[x] \in Nat /\ at[x] \in Nat /\ at[x] + w[x] <= b
    OBVIOUS
  <2>5. Used(s \cup {x}) = Used(s) \cup mine
    BY <2>4
  <2>6. Used(s) \cap mine = {}
    <3> SUFFICES ASSUME NEW a \in Int, NEW y \in s, at[y] <= a, a < at[y] + w[y],
                        at[x] <= a, a < at[x] + w[x]
                 PROVE  FALSE
      BY <2>4
    <3>1. y \in S /\ y # x
      BY <1>4
    <3>2. at[x] + w[x] <= at[y] \/ at[y] + w[y] <= at[x]
      BY <3>1
    <3>3. w[y] \in Nat /\ at[y] \in Nat
      BY <3>1
    <3> QED BY <2>4, <3>2, <3>3
  <2>7. IsFiniteSet(mine) /\ Cardinality(mine) = w[x]
    <3>1. at[x] \in Int /\ at[x] + w[x] - 1 \in Int
      BY <2>4
    <3>2. /\ IsFiniteSet(mine)
          /\ Cardinality(mine) = IF at[x] > at[x] + w[x] - 1 THEN 0
                                 ELSE (at[x] + w[x] - 1) - at[x] + 1
      BY <3>1, FS_Interval
    <3> HIDE DEF mine
    <3> QED BY <2>4, <3>2
  <2> HIDE DEF mine, Used
  <2>8. Cardinality({}) = 0 /\ Cardinality(Used(s)) \in Nat
    BY <1>2, FS_EmptySet
  <2>9. Cardinality(Used(s) \cup mine) = Cardinality(Used(s)) + w[x]
    <3>1. Cardinality(Used(s) \cup mine) =
            Cardinality(Used(s)) + Cardinality(mine) - Cardinality(Used(s) \cap mine)
      BY <1>2, <2>7, FS_Union
    <3>2. Cardinality(Used(s) \cap mine) = 0
      BY <2>6, <2>8
    <3> DEFINE used == Cardinality(Used(s))
               both == Cardinality(Used(s) \cap mine)
               own == Cardinality(mine)
    <3>3. used \in Nat /\ both = 0 /\ own = w[x] /\ Cardinality(Used(s) \cup mine) = used + own - both
      BY <2>7, <2>8, <3>1, <3>2
    <3> HIDE DEF used, both, own
    <3>4. Cardinality(Used(s) \cup mine) = used + w[x]
      BY <2>4, <3>3
    <3> QED BY <3>4 DEF used
  <2>10. SumFunctionOnSet(w, s) = Cardinality(Used(s))
    BY <1>4
  <2>11. w[x] + Cardinality(Used(s)) = Cardinality(Used(s)) + w[x]
    BY <2>4, <2>8
  <2> QED BY <2>3, <2>5, <2>9, <2>10, <2>11
<1>5. S \in T
  <2> HIDE DEF T
  <2> QED BY <1>3, <1>4, AllSubsets
<1> QED BY <1>2, <1>5

----------------------------------------------------------------------------
(* The blocks a trace holds                                                *)

(* At first no block is held.                                              *)
LEMMA HeldFirst == \A lines : Held(lines, 1) = {}
  BY DEF Held

(* The requests whose blocks are held are earlier ones that allocate, one  *)
(* for an index at most.                                                   *)
LEMMA HeldFacts ==
  ASSUME NEW lines, NEW n \in Nat
  PROVE  /\ IsFiniteSet(Held(lines, n))
         /\ \A m \in Held(lines, n) : m \in 1 .. n - 1 /\ Allocates(lines[m])
         /\ \A m, l \in Held(lines, n) : lines[m].index = lines[l].index => m = l
<1>1. IsFiniteSet(1 .. n - 1)
  BY FS_Interval
<1>2. Held(lines, n) \in SUBSET (1 .. n - 1)
  BY DEF Held
<1>3. IsFiniteSet(Held(lines, n))
  BY <1>1, <1>2, FS_Subset
<1>4. ASSUME NEW m \in Held(lines, n), NEW l \in Held(lines, n),
             lines[m].index = lines[l].index
      PROVE  m = l
  <2>1. m \in 1 .. n - 1 /\ l \in 1 .. n - 1
    BY <1>2
  <2>2. ~(m < l) /\ ~(l < m)
    BY <1>4, <2>1 DEF Held
  <2> QED BY <2>1, <2>2
<1> QED BY <1>2, <1>3, <1>4 DEF Held

(* A request ends the hold on its index, and an allocation begins one.     *)
LEMMA HeldNext ==
  ASSUME NEW lines, NEW n \in Nat \ {0}
  PROVE  Held(lines, n + 1) =
           {m \in Held(lines, n) : lines[m].index # lines[n].index}
             \cup IF Allocates(lines[n]) THEN {n} ELSE {}
<1> DEFINE before == {m \in Held(lines, n) : lines[m].index # lines[n].index}
<1>1. ASSUME NEW m \in 1 .. n - 1 PROVE m \in Held(lines, n + 1) <=> m \in before
  <2>1. \A l : l \in m + 1 .. (n + 1) - 1 <=> l \in m + 1 .. n - 1 \/ l = n
    OBVIOUS
  <2>2. m \in 1 .. (n + 1) - 1 /\ m \in 1 .. n - 1
    OBVIOUS
  <2>3. m \in Held(lines, n + 1) <=>
          Allocates(lines[m]) /\ \A l \in m + 1 .. (n + 1) - 1 : lines[l].index # lines[m].index
    BY <2>2 DEF Held
  <2>4. m \in Held(lines, n) <=>
          Allocates(lines[m]) /\ \A l \in m + 1 .. n - 1 : lines[l].index # lines[m].index
    BY <2>2 DEF Held
  <2>5. (\A l \in m + 1 .. (n + 1) - 1 : lines[l].index # lines[m].index) <=>
          /\ \A l \in m + 1 .. n - 1 : lines[l].index # lines[m].index
          /\ lines[n].index # lines[m].index
    BY <2>1
  <2> QED BY <2>3, <2>4, <2>5
<1>2. n \in Held(lines, n + 1) <=> Allocates(lines[n])
  BY DEF Held
<1>3. \A m : m \in 1 .. (n + 1) - 1 <=> m \in 1 .. n - 1 \/ m = n
  OBVIOUS
<1>4. \A m : m \in Held(lines, n) => m \in 1 .. n - 1
  BY DEF Held
<1>5. \A m : m \in Held(lines, n + 1) => m \in 1 .. n - 1 \/ m = n
  BY <1>3 DEF Held
<1>6. n \notin before
  BY <1>4
<1> QED BY <1>1, <1>2, <1>4, <1>5, <1>6

(* In a consistent trace, an allocation adds to the blocks that are held;  *)
(* the other requests have one that they end.                              *)
LEMMA HeldStep ==
  ASSUME NEW lines, Consistent(lines), NEW n \in DOMAIN lines, n \in Nat \ {0}
  PROVE  /\ lines[n].type = "a" =>
              /\ Held(lines, n + 1) = Held(lines, n) \cup {n} /\ n \notin Held(lines, n)
              /\ \A m \in Held(lines, n) : lines[m].index # lines[n].index
         /\ lines[n].type \in {"r", "f"} =>
              \E h \in Held(lines, n) :
                /\ lines[h].index = lines[n].index
                /\ {m \in Held(lines, n) : lines[m].index # lines[n].index} = Held(lines, n) \ {h}
                /\ Held(lines, n + 1) = (Held(lines, n) \ {h})
                     \cup IF lines[n].type = "r" THEN {n} ELSE {}
                /\ n \notin Held(lines, n)
<1>1. Held(lines, n + 1) =
        {m \in Held(lines, n) : lines[m].index # lines[n].index}
          \cup IF Allocates(lines[n]) THEN {n} ELSE {}
  BY HeldNext
<1>2. n \notin Held(lines, n)
  BY DEF Held
<1>3. CASE lines[n].type = "a"
  <2>1. \A m \in Held(lines, n) : lines[m].index # lines[n].index
    BY <1>3 DEF Consistent
  <2>2. Allocates(lines[n]) /\ lines[n].type \notin {"r", "f"}
    BY <1>3 DEF Allocates
  <2> QED BY <1>1, <1>2, <2>1, <2>2
<1>4. CASE lines[n].type \in {"r", "f"}
  <2>1. PICK h \in Held(lines, n) : lines[h].index = lines[n].index
    BY <1>4 DEF Consistent
  <2>2. {m \in Held(lines, n) : lines[m].index # lines[n].index} = Held(lines, n) \ {h}
    BY <2>1, HeldFacts
  <2>3. Allocates(lines[n]) <=> lines[n].type = "r"
    BY <1>4 DEF Allocates
  <2>4. lines[n].type # "a"
    BY <1>4
  <2> QED BY <1>1, <1>2, <2>1, <2>2, <2>3, <2>4
<1> QED BY <1>3, <1>4

----------------------------------------------------------------------------
(* What they add up to                                                     *)

(* A load is a number, and 0 at first.                                     *)
LEMMA LoadType ==
  ASSUME NEW lines \in Seq(Request)
  PROVE  /\ Load(lines, 1) = 0
         /\ \A n \in 1 .. Len(lines) + 1 : Load(lines, n) \in Nat
<1> DEFINE w == [m \in DOMAIN lines |-> lines[m].size]
<1>1. Load(lines, 1) = 0
  <2>1. Held(lines, 1) = {}
    BY HeldFirst
  <2> HIDE DEF w
  <2>2. SumFunctionOnSet(w, {}) = 0
    BY FS_EmptySet, SumFirst
  <2> QED BY <2>1, <2>2 DEF Load, w
<1>2. ASSUME NEW n \in 1 .. Len(lines) + 1 PROVE Load(lines, n) \in Nat
  <2>1. \A m \in Held(lines, n) : m \in DOMAIN lines
    BY HeldFacts
  <2>2. \A m \in Held(lines, n) : w[m] \in Nat
    <3>1. \A m \in DOMAIN lines : lines[m] \in Request
      OBVIOUS
    <3> QED BY <2>1, <3>1 DEF Request
  <2> HIDE DEF w
  <2> DEFINE S == Held(lines, n)
             T == {s \in SUBSET S : SumFunctionOnSet(w, s) \in Nat}
  <2>3. IsFiniteSet(S)
    BY HeldFacts
  <2>4. {} \in T
    BY FS_EmptySet, SumFirst
  <2>5. ASSUME NEW s \in SUBSET S, NEW x \in S, s \in T, x \notin s PROVE s \cup {x} \in T
    <3>1. IsFiniteSet(s \cup {x})
      BY <2>3, FS_Subset
    <3>2. (s \cup {x}) \ {x} = s
      BY <2>5
    <3>3. SumFunctionOnSet(w, s \cup {x}) = w[x] + SumFunctionOnSet(w, s)
      BY <2>2, <3>1, <3>2, SumSplit
    <3> QED BY <2>2, <2>5, <3>3
  <2>6. S \in T
    <3> HIDE DEF S, T
    <3> QED BY <2>3, <2>4, <2>5, AllSubsets
  <2> QED BY <2>6 DEF Load, w
<1> QED BY <1>1, <1>2

(* What a request does to the load.                                        *)
LEMMA LoadStep ==
  ASSUME NEW lines \in Seq(Request), Consistent(lines), NEW n \in 1 .. Len(lines)
  PROVE  /\ lines[n].type = "a" => Load(lines, n + 1) = Load(lines, n) + lines[n].size
         /\ lines[n].type \in {"r", "f"} =>
              \E h \in Held(lines, n) :
                /\ lines[h].index = lines[n].index
                /\ Load(lines, n + 1) = Load(lines, n) - lines[h].size
                     + IF lines[n].type = "r" THEN lines[n].size ELSE 0
<1> DEFINE w == [m \in DOMAIN lines |-> lines[m].size]
           Sum(s) == SumFunctionOnSet(w, s)
<1>1. n \in DOMAIN lines /\ n \in Nat \ {0} /\ n + 1 \in Nat
  OBVIOUS
<1>2. \A m \in Held(lines, n) \cup Held(lines, n + 1) : m \in DOMAIN lines
  BY HeldFacts
<1>3. \A m \in DOMAIN lines : w[m] = lines[m].size /\ w[m] \in Nat
  <2>1. \A m \in DOMAIN lines : lines[m] \in Request
    OBVIOUS
  <2> QED BY <2>1 DEF Request
<1>4. IsFiniteSet(Held(lines, n)) /\ IsFiniteSet(Held(lines, n + 1))
  BY <1>1, HeldFacts
<1>5. Load(lines, n) = Sum(Held(lines, n)) /\ Load(lines, n + 1) = Sum(Held(lines, n + 1))
  BY DEF Load
<1> HIDE DEF w
<1>6. \A m \in Held(lines, n) \cup Held(lines, n + 1) : w[m] \in Int
  BY <1>2, <1>3
<1>7. \A m \in Held(lines, n) : Sum(Held(lines, n)) = w[m] + Sum(Held(lines, n) \ {m})
  BY <1>4, <1>6, SumSplit
<1>8. \A m \in Held(lines, n + 1) :
        Sum(Held(lines, n + 1)) = w[m] + Sum(Held(lines, n + 1) \ {m})
  BY <1>4, <1>6, SumSplit
<1>9. \A s \in SUBSET Held(lines, n) : Sum(s) \in Int
  BY <1>4, <1>6, FS_Subset, SumFirst
<1> HIDE DEF Sum
<1>10. CASE lines[n].type = "a"
  <2>1. Held(lines, n + 1) = Held(lines, n) \cup {n} /\ n \notin Held(lines, n)
    BY <1>1, <1>10, HeldStep
  <2>2. Held(lines, n + 1) \ {n} = Held(lines, n) /\ n \in Held(lines, n + 1)
    BY <2>1
  <2>3. Sum(Held(lines, n + 1)) = w[n] + Sum(Held(lines, n))
    BY <1>8, <2>2
  <2>4. Sum(Held(lines, n)) \in Int /\ w[n] = lines[n].size /\ w[n] \in Nat
    BY <1>1, <1>3, <1>9
  <2> QED BY <1>5, <1>10, <2>3, <2>4
<1>11. CASE lines[n].type \in {"r", "f"}
  <2>1. PICK h \in Held(lines, n) :
          /\ lines[h].index = lines[n].index
          /\ Held(lines, n + 1) = (Held(lines, n) \ {h})
               \cup IF lines[n].type = "r" THEN {n} ELSE {}
          /\ n \notin Held(lines, n)
    BY <1>1, <1>11, HeldStep
  <2> DEFINE rest == Sum(Held(lines, n) \ {h})
  <2>2. Sum(Held(lines, n)) = w[h] + rest /\ rest \in Int
    BY <1>7, <1>9
  <2>3. w[h] = lines[h].size /\ w[n] = lines[n].size /\ w[h] \in Nat /\ w[n] \in Nat
    BY <1>1, <1>2, <1>3
  <2>4. CASE lines[n].type = "r"
    <3>1. n \in Held(lines, n + 1) /\ Held(lines, n + 1) \ {n} = Held(lines, n) \ {h}
      BY <2>1, <2>4
    <3>2. Sum(Held(lines, n + 1)) = w[n] + rest
      BY <1>8, <3>1
    <3> HIDE DEF rest
    <3>3. Load(lines, n + 1) = Load(lines, n) - lines[h].size + lines[n].size
      BY <1>5, <2>2, <2>3, <3>2
    <3> QED BY <1>11, <2>1, <2>4, <3>3
  <2>5. CASE lines[n].type = "f"
    <3>1. Held(lines, n + 1) = Held(lines, n) \ {h}
      BY <2>1, <2>5
    <3>2. Sum(Held(lines, n + 1)) = rest
      BY <3>1
    <3> HIDE DEF rest
    <3>3. Load(lines, n + 1) = Load(lines, n) - lines[h].size + 0
      BY <1>5, <2>2, <2>3, <3>2
    <3> QED BY <1>11, <2>1, <2>5, <3>3
  <2> QED BY <1>11, <2>4, <2>5
<1> QED BY <1>10, <1>11

----------------------------------------------------------------------------
(* The range list                                                          *)

(* What is not empty, lies in the heap, and is apart from or around what   *)
(* was there before it.                                                    *)
Placed(list, heapsize) ==
  \A n \in DOMAIN list :
    /\ list[n].lo <= list[n].hi
    /\ list[n].lo % ALIGNMENT = 0 /\ 0 <= list[n].lo /\ list[n].hi < heapsize
    /\ \A m \in 1 .. n - 1 :
         \/ Disjoint(list[m], list[n])
         \/ list[m].lo < list[n].lo /\ list[n].hi < list[m].hi

(* No two extents on the list begin at the same address.                   *)
LEMMA StartsDiffer ==
  ASSUME NEW list \in Seq(Range_t), NEW heapsize \in Nat, Placed(list, heapsize),
         NEW n \in DOMAIN list, NEW m \in DOMAIN list, list[n].lo = list[m].lo
  PROVE  n = m
<1>1. \A j \in DOMAIN list : list[j] \in Range_t
  OBVIOUS
<1>2. \A j \in DOMAIN list : list[j].lo \in Nat /\ list[j].hi \in Nat
  BY <1>1 DEF Range_t
<1>3. n \in Nat /\ m \in Nat /\ n >= 1 /\ m >= 1
  OBVIOUS
<1>4. ASSUME NEW j \in DOMAIN list, NEW l \in 1 .. j - 1, l \in DOMAIN list
      PROVE  list[j].lo # list[l].lo
  <2>1. list[j].lo <= list[j].hi /\ list[l].lo <= list[l].hi
    BY <1>4 DEF Placed
  <2>2. Disjoint(list[l], list[j]) \/ list[l].lo < list[j].lo
    BY DEF Placed
  <2> QED BY <1>2, <1>4, <2>1, <2>2 DEF Disjoint
<1>5. n < m => m # n /\ n \in 1 .. m - 1
  BY <1>3
<1>6. m < n => m \in 1 .. n - 1
  BY <1>3
<1> QED BY <1>3, <1>4, <1>5, <1>6

(* remove_range takes out the extent that begins there.                    *)
LEMMA RemoveRange ==
  ASSUME NEW list \in Seq(Range_t), NEW heapsize \in Nat, Placed(list, heapsize),
         NEW h \in DOMAIN list
  PROVE  LET rest == remove_range(list, list[h].lo)
         IN  /\ rest \in Seq(Range_t) /\ Len(rest) = Len(list) - 1
             /\ ToSet(rest) = ToSet(list) \ {list[h]}
             /\ Placed(rest, heapsize)
<1> DEFINE rest == RemoveAt(list, h)
           pre == SubSeq(list, 1, h - 1)
           post == SubSeq(list, h + 1, Len(list))
<1>1. h \in 1 .. Len(list) /\ Len(list) \in Nat
  OBVIOUS
<1>2. {n \in DOMAIN list : list[n].lo = list[h].lo} = {h}
  BY StartsDiffer
<1>3. Min({h}) = h
  <2>1. h <= h
    BY <1>1
  <2> QED BY <2>1 DEF Min
<1>4. remove_range(list, list[h].lo) = rest
  BY <1>2, <1>3 DEF remove_range
<1>5. /\ pre \in Seq(Range_t) /\ Len(pre) = h - 1
      /\ \A n \in 1 .. h - 1 : pre[n] = list[n]
  <2>1. \A n \in 1 .. h - 1 : list[n] \in Range_t
    BY <1>1
  <2>2. 1 \in Int /\ h - 1 \in Int /\ (h - 1) - 1 + 1 = h - 1
    BY <1>1
  <2>3. /\ pre \in Seq(Range_t) /\ Len(pre) = IF 1 <= h - 1 THEN (h - 1) - 1 + 1 ELSE 0
        /\ \A n \in 1 .. (h - 1) - 1 + 1 : pre[n] = list[1 + n - 1]
    BY <2>1, <2>2, SubSeqProperties
  <2> HIDE DEF pre
  <2> QED BY <1>1, <2>3
<1>6. /\ post \in Seq(Range_t) /\ Len(post) = Len(list) - h
      /\ \A n \in 1 .. Len(list) - h : post[n] = list[h + n]
  <2>1. \A n \in h + 1 .. Len(list) : list[n] \in Range_t
    BY <1>1
  <2>2. h + 1 \in Int /\ Len(list) \in Int
    BY <1>1
  <2>3. /\ post \in Seq(Range_t)
        /\ Len(post) = IF h + 1 <= Len(list) THEN Len(list) - (h + 1) + 1 ELSE 0
        /\ \A n \in 1 .. Len(list) - (h + 1) + 1 : post[n] = list[(h + 1) + n - 1]
    BY <2>1, <2>2, SubSeqProperties
  <2> HIDE DEF post
  <2>4. Len(list) - (h + 1) + 1 = Len(list) - h /\ (h + 1 > Len(list) => Len(list) - h = 0)
    BY <1>1
  <2>5. \A n \in 1 .. Len(list) - h : (h + 1) + n - 1 = h + n
    BY <1>1
  <2> QED BY <1>1, <2>3, <2>4, <2>5
<1> HIDE DEF pre, post
<1>7. /\ rest \in Seq(Range_t) /\ Len(rest) = Len(list) - 1
      /\ \A n \in 1 .. Len(list) - 1 : rest[n] = list[IF n < h THEN n ELSE n + 1]
  <2>1. rest = pre \o post
    BY DEF RemoveAt, pre, post
  <2>2. /\ pre \o post \in Seq(Range_t) /\ Len(pre \o post) = Len(pre) + Len(post)
        /\ \A n \in 1 .. Len(pre) + Len(post) :
             (pre \o post)[n] = IF n <= Len(pre) THEN pre[n] ELSE post[n - Len(pre)]
    BY <1>5, <1>6, ConcatProperties
  <2>3. ASSUME NEW n \in 1 .. Len(list) - 1
        PROVE  rest[n] = list[IF n < h THEN n ELSE n + 1]
    <3>1. rest[n] = IF n <= h - 1 THEN pre[n] ELSE post[n - (h - 1)]
      <4>1. Len(pre) = h - 1 /\ Len(post) = Len(list) - h
        BY <1>5, <1>6
      <4>2. n \in 1 .. (h - 1) + (Len(list) - h)
        BY <1>1
      <4> QED BY <2>1, <2>2, <4>1, <4>2
    <3>2. CASE n < h
      BY <1>1, <1>5, <3>1, <3>2
    <3>3. CASE ~(n < h)
      <4>1. n - (h - 1) \in 1 .. Len(list) - h /\ h + (n - (h - 1)) = n + 1 /\ ~(n <= h - 1)
        BY <1>1, <3>3
      <4> QED BY <1>6, <3>1, <3>3, <4>1
    <3> QED BY <3>2, <3>3
  <2> HIDE DEF rest
  <2> QED BY <1>1, <1>5, <1>6, <2>1, <2>2, <2>3
<1> HIDE DEF rest
<1>8. DOMAIN rest = 1 .. Len(list) - 1 /\ DOMAIN list = 1 .. Len(list)
  BY <1>7
<1>9. ToSet(rest) = ToSet(list) \ {list[h]}
  <2>1. ASSUME NEW n \in DOMAIN rest PROVE rest[n] \in ToSet(list) \ {list[h]}
    <3> DEFINE m == IF n < h THEN n ELSE n + 1
    <3>1. m \in DOMAIN list /\ m # h
      BY <1>1, <1>8
    <3>2. rest[n] = list[m]
      BY <1>7, <1>8
    <3>3. list[m] # list[h]
      BY <3>1, StartsDiffer
    <3> QED BY <3>1, <3>2, <3>3 DEF ToSet
  <2>2. ASSUME NEW n \in DOMAIN list, list[n] # list[h] PROVE list[n] \in ToSet(rest)
    <3> DEFINE m == IF n < h THEN n ELSE n - 1
    <3>1. m \in DOMAIN rest /\ (IF m < h THEN m ELSE m + 1) = n
      BY <1>1, <1>8, <2>2
    <3>2. rest[m] = list[n]
      BY <1>7, <1>8, <3>1
    <3> QED BY <3>1, <3>2 DEF ToSet
  <2> QED BY <2>1, <2>2 DEF ToSet
<1>10. Placed(rest, heapsize)
  <2> SUFFICES ASSUME NEW n \in DOMAIN rest
               PROVE  /\ rest[n].lo <= rest[n].hi
                      /\ rest[n].lo % ALIGNMENT = 0 /\ 0 <= rest[n].lo /\ rest[n].hi < heapsize
                      /\ \A m \in 1 .. n - 1 :
                           \/ Disjoint(rest[m], rest[n])
                           \/ rest[m].lo < rest[n].lo /\ rest[n].hi < rest[m].hi
    BY DEF Placed
  <2> DEFINE old(m) == IF m < h THEN m ELSE m + 1
  <2>1. old(n) \in DOMAIN list /\ rest[n] = list[old(n)]
    BY <1>1, <1>7, <1>8
  <2>2. ASSUME NEW m \in 1 .. n - 1
        PROVE  old(m) \in 1 .. old(n) - 1 /\ rest[m] = list[old(m)]
    <3>1. m \in 1 .. Len(list) - 1
      BY <1>1, <1>8
    <3> QED BY <1>1, <1>7, <1>8, <3>1
  <2> HIDE DEF old
  <2> QED BY <2>1, <2>2 DEF Placed
<1> QED BY <1>4, <1>7, <1>9, <1>10

(* add_range puts an extent in front that touches none by its ends.        *)
LEMMA AddRange ==
  ASSUME NEW list \in Seq(Range_t), NEW heapsize \in Nat, Placed(list, heapsize),
         NEW r \in Range_t, r.lo <= r.hi, add_range(list, r, heapsize)
  PROVE  LET more == <<r>> \o list
         IN  /\ more \in Seq(Range_t) /\ Len(more) = Len(list) + 1
             /\ ToSet(more) = ToSet(list) \cup {r}
             /\ Placed(more, heapsize)
<1> DEFINE more == <<r>> \o list
<1>1. <<r>> \in Seq(Range_t) /\ Len(<<r>>) = 1 /\ <<r>>[1] = r
  OBVIOUS
<1>2. /\ more \in Seq(Range_t) /\ Len(more) = Len(<<r>>) + Len(list)
      /\ \A n \in 1 .. Len(<<r>>) + Len(list) :
           more[n] = IF n <= Len(<<r>>) THEN <<r>>[n] ELSE list[n - Len(<<r>>)]
  BY <1>1, ConcatProperties
<1>3. Len(list) \in Nat /\ DOMAIN list = 1 .. Len(list)
  OBVIOUS
<1> HIDE DEF more
<1>4. /\ Len(more) = Len(list) + 1 /\ DOMAIN more = 1 .. Len(list) + 1
      /\ more[1] = r
      /\ \A n \in 2 .. Len(list) + 1 : more[n] = list[n - 1] /\ n - 1 \in DOMAIN list
  BY <1>1, <1>2, <1>3
<1>5. ToSet(more) = ToSet(list) \cup {r}
  <2>1. \A n \in DOMAIN more : more[n] \in ToSet(list) \cup {r}
    <3> TAKE n \in DOMAIN more
    <3>1. n = 1 \/ n \in 2 .. Len(list) + 1
      BY <1>3, <1>4
    <3> QED BY <1>4, <3>1 DEF ToSet
  <2>2. \A n \in DOMAIN list : list[n] \in ToSet(more)
    <3> TAKE n \in DOMAIN list
    <3>1. n + 1 \in 2 .. Len(list) + 1 /\ n + 1 \in DOMAIN more /\ (n + 1) - 1 = n
      BY <1>3, <1>4
    <3>2. more[n + 1] = list[n]
      BY <1>4, <3>1
    <3> QED BY <3>1, <3>2 DEF ToSet
  <2>3. r \in ToSet(more)
    <3>1. 1 \in DOMAIN more
      BY <1>3, <1>4
    <3> QED BY <1>4, <3>1 DEF ToSet
  <2> QED BY <2>1, <2>2, <2>3 DEF ToSet
<1>6. \A n \in DOMAIN list : list[n].lo \in Nat /\ list[n].hi \in Nat
  <2>1. \A n \in DOMAIN list : list[n] \in Range_t
    OBVIOUS
  <2> QED BY <2>1 DEF Range_t
<1>7. r.lo \in Nat /\ r.hi \in Nat
  BY DEF Range_t
<1>8. \A n \in DOMAIN list :
        Disjoint(r, list[n]) \/ (r.lo < list[n].lo /\ list[n].hi < r.hi)
  <2> TAKE n \in DOMAIN list
  <2>1. ~(r.lo \in list[n].lo .. list[n].hi) /\ ~(r.hi \in list[n].lo .. list[n].hi)
    BY DEF add_range, Touches
  <2> QED BY <1>6, <1>7, <2>1 DEF Disjoint
<1>9. Placed(more, heapsize)
  <2> SUFFICES ASSUME NEW n \in DOMAIN more
               PROVE  /\ more[n].lo <= more[n].hi
                      /\ more[n].lo % ALIGNMENT = 0 /\ 0 <= more[n].lo /\ more[n].hi < heapsize
                      /\ \A m \in 1 .. n - 1 :
                           \/ Disjoint(more[m], more[n])
                           \/ more[m].lo < more[n].lo /\ more[n].hi < more[m].hi
    BY DEF Placed
  <2>1. CASE n = 1
    <3>1. {r.lo, r.hi} \subseteq 0 .. heapsize - 1 /\ r.lo % ALIGNMENT = 0
      BY DEF add_range, Within
    <3>2. r.hi \in 0 .. heapsize - 1
      BY <3>1
    <3> QED BY <1>4, <1>7, <2>1, <3>1, <3>2
  <2>2. CASE n \in 2 .. Len(list) + 1
    <3>1. more[n] = list[n - 1] /\ n - 1 \in DOMAIN list
      BY <1>4, <2>2
    <3>2. ASSUME NEW m \in 1 .. n - 1
          PROVE  \/ Disjoint(more[m], more[n])
                 \/ more[m].lo < more[n].lo /\ more[n].hi < more[m].hi
      <4>1. CASE m = 1
        BY <1>4, <1>8, <3>1, <4>1
      <4>2. CASE m # 1
        <5>1. m \in 2 .. Len(list) + 1 /\ m - 1 \in 1 .. (n - 1) - 1
          BY <1>3, <2>2, <4>2
        <5>2. more[m] = list[m - 1]
          BY <1>4, <5>1
        <5> QED BY <3>1, <5>1, <5>2 DEF Placed
      <4> QED BY <4>1, <4>2
    <3>3. /\ list[n - 1].lo <= list[n - 1].hi
          /\ list[n - 1].lo % ALIGNMENT = 0 /\ 0 <= list[n - 1].lo /\ list[n - 1].hi < heapsize
      BY <3>1 DEF Placed
    <3> QED BY <3>1, <3>2, <3>3
  <2> QED BY <1>3, <1>4, <2>1, <2>2
<1> QED BY <1>2, <1>4, <1>5, <1>9 DEF more

----------------------------------------------------------------------------
(* The clocks                                                              *)

(* What division and remainder are.                                        *)
LEMMA DivMod ==
  ASSUME NEW a \in Int, NEW n \in Nat \ {0}
  PROVE  /\ a \div n \in Int /\ a % n \in 0 .. n - 1
         /\ a = n * (a \div n) + (a % n)
  OBVIOUS

(* They are the only numbers that are so.                                  *)
LEMMA DivModIs ==
  ASSUME NEW n \in Nat \ {0}, NEW q \in Int, NEW r \in 0 .. n - 1
  PROVE  (n * q + r) % n = r /\ (n * q + r) \div n = q
<1> DEFINE a == n * q + r
           x == a \div n
           y == a % n
<1>1. a \in Int
  OBVIOUS
<1>2. x \in Int /\ y \in 0 .. n - 1 /\ a = n * x + y
  BY <1>1, DivMod
<1> HIDE DEF x, y
<1>3. n * (x - q) = r - y
  <2>1. n * (x - q) = n * x - n * q
    BY <1>2
  <2>2. n * x \in Int /\ n * q \in Int
    BY <1>2
  <2> QED BY <1>2, <2>1, <2>2
<1>4. x - q = 0
  <2>1. CASE x - q >= 1
    <3>1. n * (x - q) >= n * 1
      BY <1>2, <2>1
    <3> QED BY <1>2, <1>3, <3>1
  <2>2. CASE x - q <= -1
    <3>1. n * (x - q) <= n * (-1)
      BY <1>2, <2>2
    <3> QED BY <1>2, <1>3, <3>1
  <2> QED BY <1>2, <2>1, <2>2
<1>5. x = q /\ y = r
  BY <1>2, <1>3, <1>4
<1> QED BY <1>5 DEF x, y

(* A set of numbers that is not empty has a smallest member.               *)
LEMMA LeastOf ==
  ASSUME NEW S \in SUBSET Nat, S # {}
  PROVE  Min(S) \in S /\ \A x \in S : Min(S) <= x
<1> DEFINE R == OpToRel(<, Nat)
<1>1. PICK n \in S : \A m \in S : <<m, n>> \notin R
  <2>1. IsWellFoundedOn(R, Nat)
    BY NatLessThanWellFounded
  <2> HIDE DEF R
  <2> QED BY <2>1, WFMin
<1>2. \A m \in S : ~(m < n)
  BY <1>1 DEF OpToRel
<1> HIDE DEF R
<1>3. \A m \in S : n <= m
  BY <1>2
<1> QED BY <1>3 DEF Min

(* The two words of the counter give the true difference of two readings   *)
(* that are less than a whole turn apart.                                  *)
LEMMA CounterTrue ==
  ASSUME NEW s \in Nat, NEW d \in 0 .. WORD * WORD - 1
  PROVE  get_counter(access_counter(s), access_counter(s + d)) = d
<1> DEFINE q1 == s \div WORD
           l1 == s % WORD
           q2 == (s + d) \div WORD
           l2 == (s + d) % WORD
           h1 == q1 % WORD
           h2 == q2 % WORD
           g1 == q1 \div WORD
           g2 == q2 \div WORD
           lo == (l2 - l1) % WORD
           borrow == IF lo > l2 THEN 1 ELSE 0
           e == q2 - q1 - borrow
<1>1. WORD \in Nat \ {0} /\ WORD * WORD \in Nat
  BY TimingAssumption
<1>2. /\ q1 \in Int /\ l1 \in 0 .. WORD - 1 /\ s = WORD * q1 + l1
      /\ q2 \in Int /\ l2 \in 0 .. WORD - 1 /\ s + d = WORD * q2 + l2
  <2>1. s \in Int /\ s + d \in Int
    BY <1>1
  <2>2. \A a \in Int : /\ a \div WORD \in Int /\ a % WORD \in 0 .. WORD - 1
                       /\ a = WORD * (a \div WORD) + (a % WORD)
    BY <1>1, DivMod
  <2> QED BY <2>1, <2>2
<1>3. get_counter(access_counter(s), access_counter(s + d)) = ((h2 - h1 - borrow) % WORD) * WORD + lo
  BY DEF get_counter, access_counter
<1> HIDE DEF q1, l1, q2, l2
<1>4. /\ g1 \in Int /\ h1 \in Int /\ q1 = WORD * g1 + h1
      /\ g2 \in Int /\ h2 \in Int /\ q2 = WORD * g2 + h2
  BY <1>1, <1>2, DivMod
<1> HIDE DEF g1, g2, h1, h2
<1>5. l2 - l1 = lo - WORD * borrow /\ borrow \in {0, 1} /\ lo \in 0 .. WORD - 1
  <2>1. CASE l1 <= l2
    <3>1. l2 - l1 \in 0 .. WORD - 1 /\ WORD * 0 + (l2 - l1) = l2 - l1
      BY <1>1, <1>2, <2>1
    <3>2. lo = l2 - l1
      BY <1>1, <3>1, DivModIs
    <3>3. ~(lo > l2)
      BY <1>1, <1>2, <3>2
    <3> HIDE DEF lo
    <3> QED BY <1>1, <3>1, <3>2, <3>3
  <2>2. CASE l2 < l1
    <3>1. l2 - l1 + WORD \in 0 .. WORD - 1 /\ WORD * (-1) + (l2 - l1 + WORD) = l2 - l1
      BY <1>1, <1>2, <2>2
    <3>2. lo = l2 - l1 + WORD
      <4>1. \A q \in Int, r \in 0 .. WORD - 1 : (WORD * q + r) % WORD = r
        BY <1>1, DivModIs
      <4>2. (WORD * (-1) + (l2 - l1 + WORD)) % WORD = l2 - l1 + WORD
        BY <3>1, <4>1
      <4> QED BY <3>1, <4>2
    <3>3. lo > l2
      BY <1>1, <1>2, <3>2
    <3> HIDE DEF lo
    <3> QED BY <1>1, <1>2, <3>1, <3>2, <3>3
  <2> QED BY <1>2, <2>1, <2>2
<1> HIDE DEF lo, borrow
<1>6. d = WORD * e + lo /\ e \in Int
  <2>1. d = (WORD * q2 + l2) - (WORD * q1 + l1)
    BY <1>2
  <2>2. WORD * (q2 - q1 - borrow) = WORD * q2 - WORD * q1 - WORD * borrow
    BY <1>1, <1>2, <1>5
  <2>3. WORD * q2 \in Int /\ WORD * q1 \in Int /\ WORD * borrow \in Int
    BY <1>1, <1>2, <1>5
  <2> QED BY <1>2, <1>5, <2>1, <2>2, <2>3
<1> HIDE DEF e
<1>7. e \in 0 .. WORD - 1
  <2>1. CASE e <= -1
    <3>1. WORD * e <= WORD * (-1)
      BY <1>1, <1>6, <2>1
    <3> QED BY <1>1, <1>5, <1>6, <3>1
  <2>2. CASE e >= WORD
    <3>1. WORD * e >= WORD * WORD
      BY <1>1, <1>6, <2>2
    <3>2. WORD * e \in Int
      BY <1>1, <1>6
    <3> QED BY <1>1, <1>5, <1>6, <3>1, <3>2
  <2> QED BY <1>1, <1>6, <2>1, <2>2
<1>8. (h2 - h1 - borrow) % WORD = e
  <2>1. h2 - h1 - borrow = WORD * (g1 - g2) + e
    <3>1. WORD * (g1 - g2) = WORD * g1 - WORD * g2
      BY <1>1, <1>4
    <3>2. WORD * g1 \in Int /\ WORD * g2 \in Int
      BY <1>1, <1>4
    <3>3. e = q2 - q1 - borrow
      BY DEF e
    <3> QED BY <1>4, <1>5, <3>1, <3>2, <3>3
  <2>2. g1 - g2 \in Int
    BY <1>4
  <2> QED BY <1>1, <1>7, <2>1, <2>2, DivModIs
<1>9. e * WORD = WORD * e
  BY <1>1, <1>6
<1> QED BY <1>3, <1>6, <1>8, <1>9

(* Seconds and microseconds give the true difference of two times.         *)
LEMMA ElapsedTrue ==
  ASSUME NEW a \in Int, NEW b \in Int
  PROVE  elapsed(timeval(a), timeval(b)) = b - a
<1> DEFINE s1 == a \div MICRO
           u1 == a % MICRO
           s2 == b \div MICRO
           u2 == b % MICRO
<1>1. MICRO \in Nat \ {0}
  BY TimingAssumption
<1>2. /\ s1 \in Int /\ u1 \in Int /\ a = MICRO * s1 + u1
      /\ s2 \in Int /\ u2 \in Int /\ b = MICRO * s2 + u2
  BY <1>1, DivMod
<1>3. elapsed(timeval(a), timeval(b)) = MICRO * (s2 - s1) + (u2 - u1)
  BY DEF elapsed, timeval
<1> HIDE DEF s1, u1, s2, u2
<1>4. MICRO * (s2 - s1) = MICRO * s2 - MICRO * s1 /\ MICRO * s2 \in Int /\ MICRO * s1 \in Int
  BY <1>1, <1>2
<1> QED BY <1>2, <1>3, <1>4

(* Both timers give the average of the runs.                               *)
LEMMA TimersTrue ==
  ASSUME NEW start \in Nat, NEW duration \in Nat
  PROVE  /\ ftimer_gettod(start, duration) = duration \div RUNS
         /\ ftimer_itimer(start, duration) = duration \div RUNS
<1>1. MICRO \in Nat /\ MAX_ETIME \in Nat
  BY TimingAssumption
<1> DEFINE top == MAX_ETIME * MICRO
<1>2. top \in Int
  BY <1>1
<1> HIDE DEF top
<1>3. elapsed(timeval(start), timeval(start + duration)) = (start + duration) - start
  BY ElapsedTrue
<1>4. \A p \in Nat : get_etime(p) = p
  <2> TAKE p \in Nat
  <2>1. elapsed(timeval(top - p), timeval(top)) = top - (top - p)
    BY <1>2, ElapsedTrue
  <2> QED BY <1>2, <2>1 DEF get_etime, top
<1>5. get_etime(start + duration) - get_etime(start) = duration
  BY <1>4
<1>6. (start + duration) - start = duration
  OBVIOUS
<1> QED BY <1>3, <1>5, <1>6 DEF ftimer_gettod, ftimer_itimer

(* The interrupt handler's cycles are those of an event, or none.          *)
LEMMA CallibrateCpts ==
  ASSUME NEW events \in [1 .. NEVENT -> Events]
  PROVE  callibrate(events) \in Cpts
<1> DEFINE cpts == {events[n].cycles \div events[n].ticks : n \in DOMAIN events}
           recorded == {cpt \in cpts : cpt > RECORDTHRESH}
<1>1. cpts \subseteq {e.cycles \div e.ticks : e \in Events}
  OBVIOUS
<1>2. \A e \in Events : e.cycles \div e.ticks \in Nat
  <2> TAKE e \in Events
  <2>1. e.cycles \in Nat /\ e.ticks \in Nat \ {0}
    BY TimingAssumption
  <2> QED BY <2>1
<1>3. recorded \in SUBSET Nat
  BY <1>1, <1>2
<1>4. callibrate(events) = IF recorded = {} THEN 0 ELSE Min(recorded)
  BY DEF callibrate
<1>5. recorded # {} => Min(recorded) \in cpts
  <2>1. \A x \in recorded : x \in cpts
    OBVIOUS
  <2> HIDE DEF recorded, cpts
  <2> QED BY <1>3, <2>1, LeastOf
<1> HIDE DEF recorded
<1> QED BY <1>1, <1>4, <1>5 DEF Cpts

(* What fcyc records is what the run took.                                 *)
LEMMA CompCounterTrue ==
  ASSUME NEW start \in Readings, NEW duration \in Durations, NEW ticks \in Ticks, NEW cpt \in Cpts
  PROVE  /\ get_comp_counter(start, duration, ticks, cpt) = duration - ticks * cpt
         /\ duration - ticks * cpt \in Nat
<1>1. start \in Nat /\ duration \in 0 .. WORD * WORD - 1 /\ ticks \in Nat
  BY TimingAssumption
<1>2. cpt \in Nat /\ ticks * cpt <= duration
  <2>1. WORD \in Nat /\ WORD * WORD \in Nat
    BY TimingAssumption
  <2>2. CASE cpt = 0
    BY <1>1, <2>1, <2>2
  <2>3. CASE cpt # 0
    <3>1. PICK e \in Events : cpt = e.cycles \div e.ticks
      BY <2>3 DEF Cpts
    <3>2. e.cycles \in Nat /\ e.ticks \in Nat \ {0} /\ ticks * (e.cycles \div e.ticks) <= duration
      BY TimingAssumption
    <3>3. e.cycles \div e.ticks \in Nat
      BY <3>2
    <3> QED BY <3>1, <3>2, <3>3
  <2> QED BY <2>2, <2>3
<1>3. ticks * cpt \in Nat /\ duration \in Nat
  <2>1. WORD \in Nat /\ WORD * WORD \in Nat
    BY TimingAssumption
  <2> QED BY <1>1, <1>2, <2>1
<1>4. duration - ticks * cpt \in Nat
  BY <1>2, <1>3
<1> QED BY <1>1, <1>4, CounterTrue DEF get_comp_counter

----------------------------------------------------------------------------
(* The K-best sampler                                                      *)

(* The samples in order, and the order with one more put behind the first  *)
(* p of them.                                                              *)
Sorted(s, rank) ==
  /\ rank \in Bijection(DOMAIN s, DOMAIN s)
  /\ \A a, b \in DOMAIN s : a < b => s[rank[a]] <= s[rank[b]]

Widened(rank, n, p) ==
  [j \in 1 .. n + 1 |-> IF j <= p THEN rank[j] ELSE IF j = p + 1 THEN n + 1 ELSE rank[j - 1]]

WithNew(s, rank, v, p) ==
  [j \in 1 .. Len(s) + 1 |->
     IF j <= p THEN s[rank[j]] ELSE IF j = p + 1 THEN v ELSE s[rank[j - 1]]]

(* A new sample that is put behind those that are no larger and before     *)
(* those that are leaves them in order.                                    *)
LEMMA RankWidened ==
  ASSUME NEW s \in Seq(Nat), NEW rank, Sorted(s, rank), NEW v \in Nat, NEW p \in 0 .. Len(s),
         \A j \in 1 .. p : s[rank[j]] <= v,
         \A j \in p + 1 .. Len(s) : v <= s[rank[j]]
  PROVE  /\ Sorted(Append(s, v), Widened(rank, Len(s), p))
         /\ \A j \in 1 .. Len(s) + 1 :
              Append(s, v)[Widened(rank, Len(s), p)[j]] = WithNew(s, rank, v, p)[j]
<1> DEFINE n == Len(s)
           more == Append(s, v)
           wide == Widened(rank, n, p)
           at(j) == IF j <= p THEN s[rank[j]] ELSE IF j = p + 1 THEN v ELSE s[rank[j - 1]]
<1>1. /\ n \in Nat /\ DOMAIN s = 1 .. n /\ DOMAIN more = 1 .. n + 1
      /\ more[n + 1] = v /\ \A j \in 1 .. n : more[j] = s[j]
      /\ \A j \in 1 .. n : s[j] \in Nat
  OBVIOUS
<1> HIDE DEF n, more
<1>2. /\ rank \in [1 .. n -> 1 .. n]
      /\ \A a, b \in 1 .. n : rank[a] = rank[b] => a = b
      /\ \A c \in 1 .. n : \E a \in 1 .. n : rank[a] = c
  BY <1>1 DEF Sorted, Bijection, Injection, Surjection, IsInjective
<1>3. \A j \in 1 .. n + 1 : wide[j] = IF j <= p THEN rank[j] ELSE IF j = p + 1 THEN n + 1 ELSE rank[j - 1]
  BY DEF Widened
<1>4. p \in 0 .. n
  BY DEF n
<1>5. /\ \A j \in 1 .. n + 1 : j <= p => rank[j] \in 1 .. n /\ j \in 1 .. n
      /\ \A j \in 1 .. n + 1 : j > p + 1 => rank[j - 1] \in 1 .. n /\ j - 1 \in 1 .. n
  <2>1. \A j \in 1 .. n + 1 : j <= p => j \in 1 .. n
    BY <1>1, <1>4
  <2>2. \A j \in 1 .. n + 1 : j > p + 1 => j - 1 \in 1 .. n
    BY <1>1, <1>4
  <2> QED BY <1>2, <2>1, <2>2
<1>6. wide \in [1 .. n + 1 -> 1 .. n + 1]
  <2>1. DOMAIN wide = 1 .. n + 1 /\ wide = [j \in 1 .. n + 1 |-> wide[j]]
    BY DEF Widened
  <2>2. \A j \in 1 .. n + 1 : wide[j] \in 1 .. n + 1
    <3> TAKE j \in 1 .. n + 1
    <3>1. rank[j] \in 1 .. n \/ ~(j <= p)
      BY <1>5
    <3>2. rank[j - 1] \in 1 .. n \/ ~(j > p + 1)
      BY <1>5
    <3> QED BY <1>1, <1>3, <1>4, <3>1, <3>2
  <2> HIDE DEF wide
  <2> QED BY <2>1, <2>2
<1> HIDE DEF wide
<1>7. \A j \in 1 .. n + 1 : more[wide[j]] = at(j)
  <2> TAKE j \in 1 .. n + 1
  <2>1. CASE j <= p
    <3>1. rank[j] \in 1 .. n
      BY <1>5, <2>1
    <3> QED BY <1>1, <1>3, <2>1, <3>1
  <2>2. CASE j = p + 1
    BY <1>1, <1>3, <1>4, <2>2
  <2>3. CASE j > p + 1
    <3>1. rank[j - 1] \in 1 .. n
      BY <1>5, <2>3
    <3> QED BY <1>1, <1>3, <1>4, <2>3, <3>1
  <2> QED BY <1>1, <1>4, <2>1, <2>2, <2>3
<1>8. \A a, b \in 1 .. n + 1 : wide[a] = wide[b] => a = b
  <2> SUFFICES ASSUME NEW a \in 1 .. n + 1, NEW b \in 1 .. n + 1, a < b PROVE wide[a] # wide[b]
    BY <1>1
  <2> DEFINE old(j) == IF j <= p THEN j ELSE j - 1
  <2>1. \A j \in 1 .. n + 1 : j # p + 1 => old(j) \in 1 .. n /\ wide[j] = rank[old(j)]
    BY <1>1, <1>3, <1>4, <1>5
  <2>2. a # p + 1 /\ b # p + 1 => old(a) # old(b)
    BY <1>4
  <2>3. \A j \in 1 .. n + 1 : j # p + 1 => wide[j] \in 1 .. n
    <3> HIDE DEF old
    <3> QED BY <1>2, <2>1
  <2>4. wide[p + 1] = n + 1
    BY <1>1, <1>3, <1>4
  <2>5. n + 1 \notin 1 .. n
    BY <1>1
  <2> HIDE DEF old
  <2>6. CASE a # p + 1 /\ b # p + 1
    BY <1>2, <2>1, <2>2, <2>6
  <2>7. CASE a = p + 1
    <3>1. b # p + 1
      BY <2>7
    <3> QED BY <2>3, <2>4, <2>5, <2>7, <3>1
  <2>8. CASE b = p + 1
    <3>1. a # p + 1
      BY <2>8
    <3> QED BY <2>3, <2>4, <2>5, <2>8, <3>1
  <2> QED BY <2>6, <2>7, <2>8
<1>9. \A c \in 1 .. n + 1 : \E a \in 1 .. n + 1 : wide[a] = c
  <2> TAKE c \in 1 .. n + 1
  <2>1. CASE c = n + 1
    <3>1. p + 1 \in 1 .. n + 1 /\ wide[p + 1] = n + 1
      BY <1>1, <1>3, <1>4
    <3> QED BY <2>1, <3>1
  <2>2. CASE c \in 1 .. n
    <3>1. PICK a \in 1 .. n : rank[a] = c
      BY <1>2, <2>2
    <3>2. CASE a <= p
      <4>1. a \in 1 .. n + 1
        BY <1>1
      <4> QED BY <1>3, <3>1, <3>2, <4>1
    <3>3. CASE a > p
      <4>1. a + 1 \in 1 .. n + 1 /\ ~(a + 1 <= p) /\ a + 1 # p + 1 /\ (a + 1) - 1 = a
        BY <1>1, <1>4, <3>3
      <4>2. wide[a + 1] = rank[a]
        BY <1>3, <4>1
      <4> QED BY <3>1, <4>1, <4>2
    <3> QED BY <1>4, <3>2, <3>3
  <2> QED BY <1>1, <2>1, <2>2
<1>10. ASSUME NEW a \in 1 .. n + 1, NEW b \in 1 .. n + 1, a < b PROVE at(a) <= at(b)
  <2>1. \A x, y \in 1 .. n : x < y => s[rank[x]] <= s[rank[y]]
    BY <1>1 DEF Sorted
  <2>2. \A x \in 1 .. n : s[rank[x]] \in Nat
    BY <1>1, <1>2
  <2>3. \A j \in 1 .. n : j > p => v <= s[rank[j]]
    <3> TAKE j \in 1 .. n
    <3> HAVE j > p
    <3>1. j \in p + 1 .. Len(s)
      BY <1>4 DEF n
    <3> QED BY <3>1
  <2>4. CASE a <= p /\ b <= p
    <3>1. a \in 1 .. n /\ b \in 1 .. n
      BY <1>5, <2>4
    <3> QED BY <1>10, <2>1, <2>4, <3>1
  <2>5. CASE a <= p /\ b = p + 1
    BY <1>4, <2>5
  <2>6. CASE a <= p /\ b > p + 1
    <3>1. s[rank[a]] <= v
      BY <2>6
    <3> b - 1 \in 1 .. n /\ a \in 1 .. n /\ b - 1 > p
      BY <1>4, <1>5, <2>6
    <3>2. v <= s[rank[b - 1]]
      BY <2>3
    <3>3. s[rank[a]] \in Nat /\ s[rank[b - 1]] \in Nat
      BY <2>2
    <3>4. at(a) = s[rank[a]] /\ at(b) = s[rank[b - 1]]
      BY <1>4, <2>6
    <3> HIDE DEF at
    <3> QED BY <3>1, <3>2, <3>3, <3>4
  <2>7. CASE a = p + 1
    <3>1. b > p + 1 /\ b - 1 > p
      BY <1>4, <1>10, <2>7
    <3> b - 1 \in 1 .. n
      BY <1>5, <3>1
    <3>2. v <= s[rank[b - 1]]
      BY <2>3, <3>1
    <3>3. at(a) = v /\ at(b) = s[rank[b - 1]]
      BY <1>4, <2>7, <3>1
    <3> HIDE DEF at
    <3> QED BY <3>2, <3>3
  <2>8. CASE a > p + 1
    <3>1. b > p + 1 /\ a - 1 < b - 1
      BY <1>4, <1>10, <2>8
    <3> a - 1 \in 1 .. n /\ b - 1 \in 1 .. n
      BY <1>5, <2>8, <3>1
    <3>2. s[rank[a - 1]] <= s[rank[b - 1]]
      BY <2>1, <3>1
    <3>3. at(a) = s[rank[a - 1]] /\ at(b) = s[rank[b - 1]]
      BY <1>4, <2>8, <3>1
    <3> HIDE DEF at
    <3> QED BY <3>2, <3>3
  <2> QED BY <1>1, <1>4, <2>4, <2>5, <2>6, <2>7, <2>8
<1>11. wide \in Bijection(1 .. n + 1, 1 .. n + 1)
  BY <1>6, <1>8, <1>9 DEF Bijection, Injection, Surjection, IsInjective
<1>12. \A a, b \in 1 .. n + 1 : a < b => more[wide[a]] <= more[wide[b]]
  <2> HIDE DEF at
  <2> QED BY <1>7, <1>10
<1>13. Sorted(more, wide)
  BY <1>1, <1>11, <1>12 DEF Sorted
<1>14. \A j \in 1 .. n + 1 : more[wide[j]] = WithNew(s, rank, v, p)[j]
  BY <1>7 DEF WithNew, n
<1> QED BY <1>13, <1>14 DEF more, wide, n

(* insertion puts the last value behind those that are no larger.          *)
LEMMA InsertionIs ==
  ASSUME NEW s \in Seq(Nat), Len(s) > 0,
         \A a, b \in 1 .. Len(s) - 1 : a < b => s[a] <= s[b]
  PROVE  \E p \in 0 .. Len(s) - 1 :
           /\ \A j \in 1 .. p : s[j] <= s[Len(s)]
           /\ \A j \in p + 1 .. Len(s) - 1 : s[Len(s)] <= s[j]
           /\ insertion(s) = [j \in 1 .. Len(s) |->
                IF j <= p THEN s[j] ELSE IF j = p + 1 THEN s[Len(s)] ELSE s[j - 1]]
<1> DEFINE n == Len(s)
           S == {0} \cup {j \in 1 .. n - 1 : s[j] <= s[n]}
           p == Max(S)
           pre == SubSeq(s, 1, p)
           post == SubSeq(s, p + 1, n - 1)
<1>1. n \in Nat \ {0} /\ \A j \in 1 .. n : s[j] \in Nat
  OBVIOUS
<1>2. insertion(s) = (pre \o <<s[n]>>) \o post
  BY DEF insertion
<1> HIDE DEF n
<1>3. p \in S /\ \A x \in S : x <= p
  <2>1. S \in SUBSET (0 .. n - 1)
    BY <1>1
  <2>2. IsFiniteSet(0 .. n - 1)
    BY <1>1, FS_Interval
  <2>3. S # {} /\ S \subseteq Int
    OBVIOUS
  <2> HIDE DEF S
  <2>4. IsFiniteSet(S)
    BY <2>1, <2>2, FS_Subset
  <2> QED BY <2>3, <2>4, Extremes
<1> HIDE DEF p
<1>4. p \in 0 .. n - 1
  BY <1>1, <1>3
<1>5. \A j \in 1 .. p : s[j] <= s[n]
  <2> TAKE j \in 1 .. p
  <2>1. p \in 1 .. n - 1 /\ s[p] <= s[n]
    BY <1>3, <1>4
  <2>2. j \in 1 .. n - 1 /\ (j < p \/ j = p)
    BY <1>1, <1>4
  <2>3. j < p => s[j] <= s[p]
    BY <2>1, <2>2 DEF n
  <2>4. s[j] \in Nat /\ s[p] \in Nat /\ s[n] \in Nat
    BY <1>1, <2>1, <2>2
  <2> QED BY <2>1, <2>2, <2>3, <2>4
<1>6. \A j \in p + 1 .. n - 1 : s[n] <= s[j]
  <2> TAKE j \in p + 1 .. n - 1
  <2>1. j \in 1 .. n - 1 /\ ~(j <= p)
    BY <1>4
  <2>2. ~(s[j] <= s[n])
    BY <1>3, <2>1
  <2>3. s[j] \in Nat /\ s[n] \in Nat
    BY <1>1, <2>1
  <2> QED BY <2>2, <2>3
<1>7. /\ pre \in Seq(Nat) /\ Len(pre) = p
      /\ \A j \in 1 .. p : pre[j] = s[j]
  <2>1. \A j \in 1 .. p : s[j] \in Nat
    BY <1>1, <1>4
  <2>2. 1 \in Int /\ p \in Int
    BY <1>4
  <2>3. /\ pre \in Seq(Nat) /\ Len(pre) = IF 1 <= p THEN p - 1 + 1 ELSE 0
        /\ \A j \in 1 .. p - 1 + 1 : pre[j] = s[1 + j - 1]
    BY <2>1, <2>2, SubSeqProperties
  <2> HIDE DEF pre
  <2> QED BY <1>4, <2>3
<1>8. /\ post \in Seq(Nat) /\ Len(post) = n - 1 - p
      /\ \A j \in 1 .. n - 1 - p : post[j] = s[p + j]
  <2>1. \A j \in p + 1 .. n - 1 : s[j] \in Nat
    BY <1>1, <1>4
  <2>2. p + 1 \in Int /\ n - 1 \in Int
    BY <1>1, <1>4
  <2>3. /\ post \in Seq(Nat) /\ Len(post) = IF p + 1 <= n - 1 THEN (n - 1) - (p + 1) + 1 ELSE 0
        /\ \A j \in 1 .. (n - 1) - (p + 1) + 1 : post[j] = s[(p + 1) + j - 1]
    BY <2>1, <2>2, SubSeqProperties
  <2> HIDE DEF post
  <2>4. (n - 1) - (p + 1) + 1 = n - 1 - p /\ (~(p + 1 <= n - 1) => n - 1 - p = 0)
    BY <1>1, <1>4
  <2>5. \A j \in 1 .. n - 1 - p : (p + 1) + j - 1 = p + j
    BY <1>1, <1>4
  <2> QED BY <1>1, <1>4, <2>3, <2>4, <2>5
<1> HIDE DEF pre, post
<1> DEFINE mid == pre \o <<s[n]>>
           all == mid \o post
           want == [j \in 1 .. n |-> IF j <= p THEN s[j] ELSE IF j = p + 1 THEN s[n] ELSE s[j - 1]]
<1>9. /\ mid \in Seq(Nat) /\ Len(mid) = p + 1 /\ mid[p + 1] = s[n]
      /\ \A j \in 1 .. p : mid[j] = s[j]
  <2>1. <<s[n]>> \in Seq(Nat) /\ Len(<<s[n]>>) = 1 /\ <<s[n]>>[1] = s[n]
    BY <1>1
  <2>2. /\ mid \in Seq(Nat) /\ Len(mid) = Len(pre) + Len(<<s[n]>>)
        /\ \A j \in 1 .. Len(pre) + Len(<<s[n]>>) :
             mid[j] = IF j <= Len(pre) THEN pre[j] ELSE <<s[n]>>[j - Len(pre)]
    BY <1>7, <2>1, ConcatProperties
  <2> HIDE DEF mid
  <2>3. p + 1 \in 1 .. p + 1 /\ ~(p + 1 <= p) /\ (p + 1) - p = 1
    BY <1>4
  <2>4. \A j \in 1 .. p : j \in 1 .. p + 1 /\ j <= p
    BY <1>4
  <2> QED BY <1>7, <2>1, <2>2, <2>3, <2>4
<1> HIDE DEF mid
<1>10. /\ all \in Seq(Nat) /\ Len(all) = n
       /\ \A j \in 1 .. n : all[j] = IF j <= p + 1 THEN mid[j] ELSE post[j - (p + 1)]
  <2>1. /\ all \in Seq(Nat) /\ Len(all) = Len(mid) + Len(post)
        /\ \A j \in 1 .. Len(mid) + Len(post) :
             all[j] = IF j <= Len(mid) THEN mid[j] ELSE post[j - Len(mid)]
    BY <1>8, <1>9, ConcatProperties
  <2>2. (p + 1) + (n - 1 - p) = n
    BY <1>1, <1>4
  <2> HIDE DEF all
  <2> QED BY <1>8, <1>9, <2>1, <2>2
<1> HIDE DEF all
<1>11. \A j \in 1 .. n : all[j] = want[j]
  <2> TAKE j \in 1 .. n
  <2>1. CASE j <= p
    <3>1. j \in 1 .. p /\ j <= p + 1
      BY <1>4, <2>1
    <3> QED BY <1>9, <1>10, <2>1, <3>1
  <2>2. CASE j = p + 1
    BY <1>4, <1>9, <1>10, <2>2
  <2>3. CASE j > p + 1
    <3>1. j - (p + 1) \in 1 .. n - 1 - p /\ p + (j - (p + 1)) = j - 1 /\ ~(j <= p) /\ j # p + 1
      BY <1>1, <1>4, <2>3
    <3>2. post[j - (p + 1)] = s[j - 1]
      BY <1>8, <3>1
    <3>3. all[j] = post[j - (p + 1)]
      BY <1>4, <1>10, <2>3
    <3> QED BY <3>1, <3>2, <3>3
  <2> QED BY <1>4, <2>1, <2>2, <2>3
<1>12. all = want
  <2>1. all \in [1 .. n -> Nat]
    BY <1>10
  <2> QED BY <1>11, <2>1
<1>13. insertion(s) = want
  BY <1>2, <1>12 DEF all, mid
<1> QED BY <1>4, <1>5, <1>6, <1>13 DEF n

(* The first kbest samples in that order.                                  *)
Firsts(s, rank) == [j \in 1 .. Min({kbest, Len(s)}) |-> s[rank[j]]]

(* The samples in order.                                                   *)
LEMMA RankFacts ==
  ASSUME NEW s \in Seq(Nat), NEW rank, Sorted(s, rank)
  PROVE  \A j \in 1 .. Len(s) :
           /\ s[rank[j]] \in Nat
           /\ \A l \in 1 .. Len(s) : j <= l => s[rank[j]] <= s[rank[l]]
<1>1. DOMAIN s = 1 .. Len(s) /\ Len(s) \in Nat
  OBVIOUS
<1>2. rank \in [1 .. Len(s) -> 1 .. Len(s)]
  BY <1>1 DEF Sorted, Bijection, Injection
<1>3. \A j \in 1 .. Len(s) : s[rank[j]] \in Nat
  BY <1>1, <1>2
<1>4. ASSUME NEW j \in 1 .. Len(s), NEW l \in 1 .. Len(s), j <= l PROVE s[rank[j]] <= s[rank[l]]
  <2>1. j = l \/ j < l
    BY <1>4
  <2> QED BY <1>1, <1>3, <2>1 DEF Sorted
<1> QED BY <1>3, <1>4

(* add_sample keeps the first kbest of the samples in order.               *)
LEMMA AddSampleBest ==
  ASSUME NEW s \in Seq(Nat), NEW rank, Sorted(s, rank), NEW v \in Nat
  PROVE  \E wide : /\ Sorted(Append(s, v), wide)
                   /\ add_sample(Firsts(s, rank), Len(s), v) = Firsts(Append(s, v), wide)
<1> DEFINE n == Len(s)
           f == Firsts(s, rank)
           z(j) == s[rank[j]]
           new(p) == [j \in 1 .. Min({kbest, n + 1}) |->
                        IF j <= p THEN z(j) ELSE IF j = p + 1 THEN v ELSE z(j - 1)]
<1>1. n \in Nat /\ kbest \in Nat \ {0}
  BY TimingAssumption
<1>2. \A j \in 1 .. n : z(j) \in Nat /\ \A l \in 1 .. n : j <= l => z(j) <= z(l)
  BY RankFacts
<1>3. Append(s, v) \in Seq(Nat) /\ Len(Append(s, v)) = n + 1
  OBVIOUS
<1>4. Min({kbest, n}) = (IF kbest < n THEN kbest ELSE n)
      /\ Min({kbest, n + 1}) = IF kbest < n + 1 THEN kbest ELSE n + 1
  BY <1>1, MinOfTwo
<1>5. f = [j \in 1 .. Min({kbest, n}) |-> z(j)]
  BY DEF Firsts
<1>6. ASSUME NEW p \in 0 .. n, \A j \in 1 .. p : z(j) <= v, \A j \in p + 1 .. n : v <= z(j)
      PROVE  /\ Sorted(Append(s, v), Widened(rank, n, p))
             /\ \A j \in 1 .. n + 1 :
                  Append(s, v)[Widened(rank, n, p)[j]] =
                    IF j <= p THEN z(j) ELSE IF j = p + 1 THEN v ELSE z(j - 1)
  <2>1. p \in 0 .. Len(s)
    OBVIOUS
  <2>2. \A j \in 1 .. p : s[rank[j]] <= v
    BY <1>6
  <2>3. \A j \in p + 1 .. Len(s) : v <= s[rank[j]]
    BY <1>6
  <2>4. Sorted(Append(s, v), Widened(rank, Len(s), p))
    <3> HIDE DEF n, z, f, new
    <3> QED BY <2>1, <2>2, <2>3, RankWidened
  <2>5. \A j \in 1 .. Len(s) + 1 :
          Append(s, v)[Widened(rank, Len(s), p)[j]] = WithNew(s, rank, v, p)[j]
    <3> HIDE DEF n, z, f, new
    <3> QED BY <2>1, <2>2, <2>3, RankWidened
  <2> QED BY <2>4, <2>5 DEF WithNew
<1>7. SUFFICES \E p \in 0 .. n : /\ \A j \in 1 .. p : z(j) <= v
                                 /\ \A j \in p + 1 .. n : v <= z(j)
                                 /\ add_sample(f, n, v) = new(p)
  <2>1. PICK p \in 0 .. n : /\ \A j \in 1 .. p : z(j) <= v
                            /\ \A j \in p + 1 .. n : v <= z(j)
                            /\ add_sample(f, n, v) = new(p)
    BY <1>7
  <2> DEFINE wide == Widened(rank, n, p)
  <2>2. /\ Sorted(Append(s, v), wide)
        /\ \A j \in 1 .. n + 1 :
             Append(s, v)[wide[j]] = IF j <= p THEN z(j) ELSE IF j = p + 1 THEN v ELSE z(j - 1)
    BY <1>6, <2>1
  <2> HIDE DEF wide
  <2>3. 1 .. Min({kbest, n + 1}) \subseteq 1 .. n + 1
    BY <1>1, <1>4
  <2>4. Firsts(Append(s, v), wide) = new(p)
    <3>1. Firsts(Append(s, v), wide) = [j \in 1 .. Min({kbest, n + 1}) |-> Append(s, v)[wide[j]]]
      BY <1>3 DEF Firsts
    <3> HIDE DEF n, z
    <3> QED BY <2>2, <2>3, <3>1
  <2> QED BY <2>1, <2>2, <2>4 DEF n, f
<1> HIDE DEF f, n, z
<1>8. CASE n < kbest
  <2> DEFINE g == Append(f, v)
  <2>1. f = [j \in 1 .. n |-> z(j)] /\ f \in [1 .. n -> Nat]
    <3>1. Min({kbest, n}) = n
      BY <1>1, <1>4, <1>8
    <3> QED BY <1>2, <1>5, <3>1
  <2>2. f \in Seq(Nat) /\ Len(f) = n
    BY <1>1, <2>1
  <2>3. /\ g \in Seq(Nat) /\ Len(g) = n + 1 /\ g[n + 1] = v
        /\ \A j \in 1 .. n : g[j] = z(j)
    BY <1>1, <2>1, <2>2
  <2> HIDE DEF g
  <2>4. \A a, b \in 1 .. Len(g) - 1 : a < b => g[a] <= g[b]
    BY <1>1, <1>2, <2>3
  <2>5. PICK p \in 0 .. Len(g) - 1 :
          /\ \A j \in 1 .. p : g[j] <= g[Len(g)]
          /\ \A j \in p + 1 .. Len(g) - 1 : g[Len(g)] <= g[j]
          /\ insertion(g) = [j \in 1 .. Len(g) |->
               IF j <= p THEN g[j] ELSE IF j = p + 1 THEN g[Len(g)] ELSE g[j - 1]]
    <3>1. Len(g) > 0
      BY <1>1, <2>3
    <3> QED BY <2>3, <2>4, <3>1, InsertionIs
  <2>6. p \in 0 .. n
    BY <1>1, <2>3
  <2>7. \A j \in 1 .. p : z(j) <= v
    <3> TAKE j \in 1 .. p
    <3>1. j \in 1 .. n
      BY <1>1, <2>6
    <3> QED BY <2>3, <2>5, <3>1
  <2>8. \A j \in p + 1 .. n : v <= z(j)
    <3> TAKE j \in p + 1 .. n
    <3>1. j \in 1 .. n /\ j \in p + 1 .. Len(g) - 1
      BY <1>1, <2>3, <2>6
    <3> QED BY <2>3, <2>5, <3>1
  <2>9. insertion(g) = new(p)
    <3>1. Min({kbest, n + 1}) = n + 1
      BY <1>1, <1>4, <1>8
    <3>2. \A j \in 1 .. n + 1 :
            (IF j <= p THEN g[j] ELSE IF j = p + 1 THEN g[Len(g)] ELSE g[j - 1]) =
            (IF j <= p THEN z(j) ELSE IF j = p + 1 THEN v ELSE z(j - 1))
      <4> TAKE j \in 1 .. n + 1
      <4>1. j <= p => j \in 1 .. n
        BY <1>1, <2>6
      <4>2. j > p + 1 => j - 1 \in 1 .. n
        BY <1>1, <2>6
      <4> QED BY <1>1, <2>3, <2>6, <4>1, <4>2
    <3> QED BY <2>3, <2>5, <3>1, <3>2
  <2>10. add_sample(f, n, v) = insertion(g)
    BY <1>8 DEF add_sample, g
  <2> QED BY <2>6, <2>7, <2>8, <2>9, <2>10
<1>9. CASE n >= kbest
  <2> DEFINE g == [f EXCEPT ![kbest] = v]
  <2>1. f = [j \in 1 .. kbest |-> z(j)] /\ f \in [1 .. kbest -> Nat] /\ kbest \in 1 .. n
    <3>1. Min({kbest, n}) = kbest
      BY <1>1, <1>4, <1>9
    <3>2. 1 .. kbest \subseteq 1 .. n /\ kbest \in 1 .. n
      BY <1>1, <1>9
    <3> QED BY <1>2, <1>5, <3>1, <3>2
  <2>2. f[kbest] = z(kbest) /\ z(kbest) \in Nat
    BY <1>1, <1>2, <2>1
  <2>3. ~(n < kbest)
    BY <1>1, <1>9
  <2>4. Min({kbest, n + 1}) = kbest
    BY <1>1, <1>4, <1>9
  <2>5. CASE v < z(kbest)
    <3>1. /\ g \in Seq(Nat) /\ Len(g) = kbest /\ g[kbest] = v
          /\ \A j \in 1 .. kbest - 1 : g[j] = z(j)
      <4>1. g \in [1 .. kbest -> Nat]
        BY <2>1
      <4> QED BY <1>1, <2>1, <4>1
    <3> HIDE DEF g
    <3>2. \A a, b \in 1 .. Len(g) - 1 : a < b => g[a] <= g[b]
      <4>1. \A a \in 1 .. kbest - 1 : a \in 1 .. n
        BY <1>1, <1>9
      <4> QED BY <1>1, <1>2, <3>1, <4>1
    <3>3. PICK p \in 0 .. Len(g) - 1 :
            /\ \A j \in 1 .. p : g[j] <= g[Len(g)]
            /\ \A j \in p + 1 .. Len(g) - 1 : g[Len(g)] <= g[j]
            /\ insertion(g) = [j \in 1 .. Len(g) |->
                 IF j <= p THEN g[j] ELSE IF j = p + 1 THEN g[Len(g)] ELSE g[j - 1]]
      <4>1. Len(g) > 0
        BY <1>1, <3>1
      <4> QED BY <3>1, <3>2, <4>1, InsertionIs
    <3>4. p \in 0 .. kbest - 1 /\ p \in 0 .. n
      BY <1>1, <1>9, <3>1
    <3>5. \A j \in 1 .. p : z(j) <= v
      <4> TAKE j \in 1 .. p
      <4>1. j \in 1 .. kbest - 1
        BY <1>1, <3>4
      <4> QED BY <3>1, <3>3, <4>1
    <3>6. \A j \in p + 1 .. n : v <= z(j)
      <4> TAKE j \in p + 1 .. n
      <4>1. CASE j \in p + 1 .. kbest - 1
        <5>1. j \in 1 .. kbest - 1 /\ j \in p + 1 .. Len(g) - 1
          BY <1>1, <3>1, <3>4, <4>1
        <5> QED BY <3>1, <3>3, <5>1
      <4>2. CASE j >= kbest
        <5>1. j \in 1 .. n
          BY <1>1, <3>4
        <5>2. z(kbest) <= z(j) /\ z(j) \in Nat
          BY <1>2, <2>1, <4>2, <5>1
        <5> QED BY <2>2, <2>5, <5>2
      <4> QED BY <1>1, <3>4, <4>1, <4>2
    <3>7. insertion(g) = new(p)
      <4>1. \A j \in 1 .. kbest :
              (IF j <= p THEN g[j] ELSE IF j = p + 1 THEN g[Len(g)] ELSE g[j - 1]) =
              (IF j <= p THEN z(j) ELSE IF j = p + 1 THEN v ELSE z(j - 1))
        <5> TAKE j \in 1 .. kbest
        <5>1. j <= p => j \in 1 .. kbest - 1
          BY <1>1, <3>4
        <5>2. j > p + 1 => j - 1 \in 1 .. kbest - 1
          BY <1>1, <3>4
        <5> QED BY <1>1, <3>1, <3>4, <5>1, <5>2
      <4> QED BY <2>4, <3>1, <3>3, <4>1
    <3>8. add_sample(f, n, v) = insertion(g)
      BY <2>2, <2>3, <2>5 DEF add_sample, g
    <3> QED BY <3>4, <3>5, <3>6, <3>7, <3>8
  <2>6. CASE ~(v < z(kbest))
    <3> DEFINE S == {0} \cup {j \in 1 .. n : z(j) <= v}
               p == Max(S)
    <3>1. p \in S /\ \A x \in S : x <= p
      <4>1. S \in SUBSET (0 .. n)
        BY <1>1
      <4>2. IsFiniteSet(0 .. n)
        BY <1>1, FS_Interval
      <4>3. S # {} /\ S \subseteq Int
        OBVIOUS
      <4> HIDE DEF S
      <4>4. IsFiniteSet(S)
        BY <4>1, <4>2, FS_Subset
      <4> QED BY <4>3, <4>4, Extremes
    <3> HIDE DEF p
    <3>2. p \in 0 .. n /\ kbest <= p
      <4>1. kbest \in S
        BY <2>1, <2>2, <2>6
      <4> QED BY <1>1, <3>1, <4>1
    <3>3. \A j \in 1 .. p : z(j) <= v
      <4> TAKE j \in 1 .. p
      <4>1. p \in 1 .. n /\ z(p) <= v /\ j \in 1 .. n /\ j <= p
        BY <1>1, <3>1, <3>2
      <4>2. z(j) <= z(p) /\ z(j) \in Nat /\ z(p) \in Nat
        BY <1>2, <4>1
      <4> QED BY <4>1, <4>2
    <3>4. \A j \in p + 1 .. n : v <= z(j)
      <4> TAKE j \in p + 1 .. n
      <4>1. j \in 1 .. n /\ ~(j <= p)
        BY <1>1, <3>2
      <4>2. ~(z(j) <= v)
        BY <3>1, <4>1
      <4> QED BY <1>2, <4>1, <4>2
    <3>5. add_sample(f, n, v) = f
      BY <2>2, <2>3, <2>6 DEF add_sample
    <3>6. f = new(p)
      <4>1. \A j \in 1 .. kbest : j <= p
        BY <1>1, <3>2
      <4> QED BY <2>1, <2>4, <4>1
    <3> QED BY <3>2, <3>3, <3>4, <3>5, <3>6
  <2> QED BY <2>5, <2>6
<1>10. n < kbest \/ n >= kbest
  BY <1>1
<1> QED BY <1>8, <1>9, <1>10

(* The first samples are numbers.                                          *)
LEMMA FirstsType ==
  ASSUME NEW s \in Seq(Nat), NEW rank, Sorted(s, rank)
  PROVE  Firsts(s, rank) \in Seq(Nat)
<1>1. kbest \in Nat \ {0} /\ Len(s) \in Nat
  BY TimingAssumption
<1>2. Min({kbest, Len(s)}) \in Nat /\ Min({kbest, Len(s)}) <= Len(s)
  BY <1>1, MinOfTwo
<1> DEFINE n == Min({kbest, Len(s)})
<1>3. \A j \in 1 .. n : s[rank[j]] \in Nat
  <2> TAKE j \in 1 .. n
  <2>1. j \in 1 .. Len(s)
    BY <1>1, <1>2
  <2> QED BY <2>1, RankFacts
<1> HIDE DEF n
<1>4. [j \in 1 .. n |-> s[rank[j]]] \in [1 .. n -> Nat]
  BY <1>3
<1>5. n \in Nat
  BY <1>2 DEF n
<1>6. [j \in 1 .. n |-> s[rank[j]]] \in Seq(Nat)
  BY <1>4, <1>5
<1> QED BY <1>6 DEF Firsts, n

(* BestSamples, with the order of the samples by name.                     *)
LEMMA BestIs ==
  ASSUME method = "fcyc"
  PROVE  BestSamples <=> /\ samplecount = Len(samples)
                         /\ \E rank : Sorted(samples, rank) /\ values = Firsts(samples, rank)
  BY DEF BestSamples, Sorted, Firsts

(* A sampler that nothing has been stored in.                              *)
SamplerEmpty ==
  /\ method \in {"fcyc", "itimer", "gettod"} /\ cyc_per_tick \in Cpts /\ cache_buf \in BOOLEAN
  /\ values = <<>> /\ samplecount = 0 /\ samples = <<>>

(* It has kept the best of nothing.                                        *)
LEMMA EmptyIsBest == SamplerEmpty => TimingInv
<1> SUFFICES ASSUME SamplerEmpty PROVE TimingInv
  OBVIOUS
<1>1. <<>> \in Seq(Nat) /\ Len(<<>>) = 0 /\ DOMAIN <<>> = 1 .. 0 /\ 1 .. 0 = {}
  OBVIOUS
<1>2. {kbest, maxsamples, RUNS} \subseteq Nat /\ kbest # 0
  BY TimingAssumption
<1>3. Min({kbest, 0}) = 0 /\ 0 <= Max({maxsamples, RUNS})
  BY <1>2, MinOfTwo, MaxOfTwo
<1>4. BestSamples
  <2>1. CASE method = "fcyc"
    <3> DEFINE rank == [j \in {} |-> j]
    <3>1. rank \in Bijection({}, {})
      BY DEF Bijection, Injection, Surjection, IsInjective
    <3> HIDE DEF rank
    <3>2. [j \in 1 .. Min({kbest, 0}) |-> samples[rank[j]]] = <<>>
      <4>1. [j \in 1 .. 0 |-> samples[rank[j]]] = <<>>
        BY <1>1
      <4> QED BY <1>3, <4>1
    <3> QED BY <1>1, <2>1, <3>1, <3>2 DEF BestSamples, SamplerEmpty
  <2>2. CASE method # "fcyc"
    <3>1. [j \in 1 .. Len(<<>>) |-> <<>>[j] \div RUNS] = <<>>
      BY <1>1
    <3> QED BY <2>2, <3>1 DEF BestSamples, SamplerEmpty
  <2> QED BY <2>1, <2>2
<1> QED BY <1>1, <1>3, <1>4 DEF TimingInv, SamplerEmpty

(* So has one that init_sampler has just emptied.                          *)
LEMMA SamplerStarts ==
  ASSUME method' \in {"fcyc", "itimer", "gettod"}, cyc_per_tick' \in Cpts, cache_buf' \in BOOLEAN,
         values' = <<>>, samplecount' = 0, samples' = <<>>
  PROVE  TimingInv'
<1>1. SamplerEmpty'
  BY DEF SamplerEmpty
<1>2. (SamplerEmpty => TimingInv)'
  BY EmptyIsBest, PTL
<1> QED BY <1>1, <1>2

(* A round of fcyc keeps the best of the samples.                          *)
LEMMA FcycRoundInv ==
  ASSUME TimingInv, ~measured, fcyc_round
  PROVE  TimingInv'
<1>1. /\ method = "fcyc" /\ method' = "fcyc" /\ cache_buf' = TRUE
      /\ samplecount' = samplecount + 1
  BY DEF fcyc_round, clear
<1>2. PICK start \in Readings, duration \in Durations, ticks \in Ticks,
           cpt \in IF cyc_per_tick = 0 THEN {callibrate(e) : e \in [1 .. NEVENT -> Events]}
                   ELSE {cyc_per_tick} :
        /\ cyc_per_tick' = cpt
        /\ values' = add_sample(values, samplecount, get_comp_counter(start, duration, ticks, cpt))
        /\ samples' = Append(samples, duration - ticks * cpt)
  BY DEF fcyc_round
<1>3. cpt \in Cpts
  BY CallibrateCpts DEF TimingInv
<1> DEFINE v == duration - ticks * cpt
<1>4. get_comp_counter(start, duration, ticks, cpt) = v /\ v \in Nat
  BY <1>3, CompCounterTrue
<1> HIDE DEF v
<1>5. samples \in Seq(Nat) /\ samplecount = Len(samples) /\ samplecount \in Nat
  BY <1>1, BestIs DEF TimingInv
<1>6. PICK rank : Sorted(samples, rank) /\ values = Firsts(samples, rank)
  BY <1>1, BestIs DEF TimingInv
<1>7. samples' = Append(samples, v) /\ values' = add_sample(Firsts(samples, rank), Len(samples), v)
  BY <1>2, <1>4, <1>5, <1>6 DEF v
<1>8. PICK wide : /\ Sorted(Append(samples, v), wide)
                  /\ add_sample(Firsts(samples, rank), Len(samples), v)
                       = Firsts(Append(samples, v), wide)
  BY <1>4, <1>5, <1>6, AddSampleBest
<1>9. Append(samples, v) \in Seq(Nat) /\ Len(Append(samples, v)) = Len(samples) + 1
  BY <1>4, <1>5
<1>10. samples' \in Seq(Nat) /\ values' \in Seq(Nat) /\ samplecount' = Len(samples')
  BY <1>1, <1>5, <1>7, <1>8, <1>9, FirstsType
<1>11. BestSamples'
  <2>1. Sorted(samples', wide) /\ values' = Firsts(samples', wide)
    BY <1>7, <1>8
  <2> QED BY <1>1, <1>10, <2>1 DEF BestSamples, Sorted, Firsts
<1>12. samplecount' <= Max({maxsamples, RUNS})
  <2>1. samplecount = 0 \/ ~(samplecount >= maxsamples)
    BY <1>1, <1>5 DEF measured
  <2>2. maxsamples \in Nat /\ RUNS \in Nat \ {0}
    BY TimingAssumption
  <2>3. Max({maxsamples, RUNS}) = IF maxsamples < RUNS THEN RUNS ELSE maxsamples
    BY <2>2, MaxOfTwo
  <2> QED BY <1>1, <1>5, <2>1, <2>2, <2>3
<1>13. samplecount' \in Nat /\ cyc_per_tick' \in Cpts
  BY <1>1, <1>2, <1>3, <1>5
<1> QED BY <1>1, <1>10, <1>11, <1>12, <1>13 DEF TimingInv

(* So do the runs between two readings of a timer.                         *)
LEMMA FtimerRunsInv ==
  ASSUME TimingInv, ~measured, ftimer_runs
  PROVE  TimingInv'
<1>1. /\ method # "fcyc" /\ UNCHANGED <<method, cyc_per_tick, cache_buf>>
      /\ samplecount' = RUNS
  BY DEF ftimer_runs
<1>2. PICK start \in Readings, duration \in {RUNS * d : d \in Durations} :
        /\ samples' = <<duration>>
        /\ values' = <<IF method = "gettod" THEN ftimer_gettod(start, duration)
                       ELSE ftimer_itimer(start, duration)>>
  BY DEF ftimer_runs
<1>3. RUNS \in Nat \ {0} /\ maxsamples \in Nat /\ start \in Nat
  BY TimingAssumption
<1>4. duration \in Nat
  <2>1. PICK d \in Durations : duration = RUNS * d
    OBVIOUS
  <2>2. d \in 0 .. WORD * WORD - 1 /\ WORD \in Nat
    BY TimingAssumption
  <2>3. d \in Nat
    BY <2>2
  <2> QED BY <1>3, <2>1, <2>3
<1>5. values' = <<duration \div RUNS>>
  BY <1>2, <1>3, <1>4, TimersTrue
<1>6. duration \div RUNS \in Nat
  BY <1>3, <1>4
<1>7. samples' \in Seq(Nat) /\ values' \in Seq(Nat) /\ Len(samples') = 1 /\ samples' # <<>>
  BY <1>2, <1>4, <1>5, <1>6
<1>8. BestSamples'
  <2>1. values' = [j \in 1 .. Len(samples') |-> samples'[j] \div RUNS]
    BY <1>2, <1>5
  <2> QED BY <1>1, <2>1 DEF BestSamples
<1>9. samplecount' \in Nat /\ samplecount' <= Max({maxsamples, RUNS})
  <2>1. Max({maxsamples, RUNS}) = IF maxsamples < RUNS THEN RUNS ELSE maxsamples
    BY <1>3, MaxOfTwo
  <2> QED BY <1>1, <1>3, <2>1
<1> QED BY <1>1, <1>7, <1>8, <1>9 DEF TimingInv

(* What leaves the clocks alone, and what only starts the sampler.         *)
LEMMA ClocksAlone ==
  ASSUME TimingInv, \/ UNCHANGED timing
                    \/ init_sampler /\ UNCHANGED <<method, cyc_per_tick, cache_buf>>
  PROVE  TimingInv'
<1>1. CASE UNCHANGED timing
  BY <1>1 DEF TimingInv, BestSamples, timing, sampler
<1>2. CASE init_sampler /\ UNCHANGED <<method, cyc_per_tick, cache_buf>>
  BY <1>2, SamplerStarts DEF TimingInv, init_sampler
<1> QED BY <1>1, <1>2

(* Whatever the driver does, the clocks keep their invariant.              *)
LEMMA TimingStep ==
  ASSUME TimingInv, [Next]_vars
  PROVE  TimingInv'
<1>1. CASE UNCHANGED vars
  BY <1>1, ClocksAlone DEF vars
<1>2. CASE Start \/ read_trace \/ free_trace \/ SpeedFails \/ Report
  BY <1>2, ClocksAlone DEF Start, read_trace, free_trace, SpeedFails, Report
<1>3. CASE eval_mm_valid
  BY <1>3, ClocksAlone DEF eval_mm_valid, InitValid, ValidAlloc, ValidFree, ValidEnd
<1>4. CASE InitUtil \/ UtilAlloc \/ UtilFree
  BY <1>4, ClocksAlone DEF InitUtil, UtilAlloc, UtilFree
<1>5. CASE UtilEnd \/ TimeEnd
  BY <1>5, ClocksAlone DEF UtilEnd, TimeEnd
<1>6. CASE eval_libc_valid
  <2>1. \/ init_sampler /\ UNCHANGED <<method, cyc_per_tick, cache_buf>>
        \/ UNCHANGED timing
    BY <1>6 DEF eval_libc_valid, timing
  <2> QED BY <2>1, ClocksAlone
<1>7. CASE Measure
  BY <1>7, FcycRoundInv, FtimerRunsInv DEF Measure
<1> QED BY <1>1, <1>2, <1>3, <1>4, <1>5, <1>6, <1>7 DEF Next, eval_mm_util

----------------------------------------------------------------------------
(* The command line and the trace                                          *)

(* A command line that is accepted names traces, each of which is missing  *)
(* or a file.                                                              *)
LEMMA FileFacts ==
  ASSUME Accepted
  PROVE  /\ num_tracefiles \in Nat \ {0} /\ DOMAIN Names = 1 .. num_tracefiles
         /\ \A n \in 1 .. num_tracefiles : FileAt(n) = NULL \/ TraceFile(FileAt(n))
<1>1. PICK argv \in Argvs : opt = Options(argv) /\ ~opt.stop
  BY DEF Accepted
<1>2. /\ NamesFor(opt) \in Seq(STRING) \ {<<>>}
      /\ \A n \in DOMAIN NamesFor(opt) :
           LET file == Disk[opt.dir][NamesFor(opt)[n]] IN file = NULL \/ TraceFile(file)
  BY <1>1, DiskAssumption
<1> QED BY <1>2 DEF Names, num_tracefiles, FileAt

(* What is known of a trace in memory.                                     *)
LEMMA TraceFacts ==
  ASSUME PlaceInv, pc \in Loaded
  PROVE  /\ trace.ops \in Seq(Request) /\ Len(trace.ops) = trace.num_ops
         /\ trace.num_ops \in Nat /\ Consistent(trace.ops)
         /\ DOMAIN trace.ops = 1 .. trace.num_ops
         /\ \A n \in 1 .. trace.num_ops :
              /\ trace.ops[n].index \in Nat /\ trace.ops[n].size \in Nat
              /\ trace.ops[n].type \in {"a", "r", "f"}
              /\ Allocates(trace.ops[n]) =>
                   trace.ops[n].index \in DOMAIN trace.blocks \cap DOMAIN trace.block_sizes
         /\ trace.ops = FileAt(i).lines
<1> DEFINE file == FileAt(i)
<1>1. FromFile(file)
  BY DEF PlaceInv
<1> HIDE DEF file
<1>2. /\ trace.num_ops = file.num_ops /\ trace.ops = file.lines
      /\ trace.blocks \in [0 .. file.num_ids - 1 -> Nat \cup {Unset}]
      /\ trace.block_sizes \in [0 .. file.num_ids - 1 -> Nat \cup {Unset}]
  BY <1>1 DEF FromFile
<1>3. /\ file.num_ids \in Nat /\ file.num_ops \in Nat /\ file.lines \in Seq(Request)
      /\ Consistent(file.lines) /\ Len(file.lines) = file.num_ops
  BY <1>1 DEF FromFile, TraceFile, Request
<1>4. ASSUME NEW n \in 1 .. file.num_ops
      PROVE  /\ file.lines[n].index \in Nat /\ file.lines[n].size \in Nat
             /\ file.lines[n].type \in {"a", "r", "f"}
             /\ Allocates(file.lines[n]) => file.lines[n].index \in 0 .. file.num_ids - 1
  <2>1. file.lines[n] \in Request
    BY <1>3
  <2>2. file.lines[n].index \in Nat /\ file.lines[n].size \in Nat
    BY <2>1 DEF Request
  <2> QED BY <1>1, <1>3, <2>2 DEF FromFile
<1> QED BY <1>2, <1>3, <1>4 DEF file

(* A file's trace stays in memory while neither it nor the name changes.   *)
LEMMA FileStays ==
  ASSUME FromFile(FileAt(i)), UNCHANGED <<opt, i, trace>>
  PROVE  FromFile(FileAt(i))'
  BY DEF FromFile, FileAt, Names, NamesFor

(* Storing a block leaves the requests as they are.                        *)
LEMMA RememberFacts ==
  ASSUME FromFile(FileAt(i)), UNCHANGED <<opt, i>>, NEW p \in Nat,
         op.index \in DOMAIN trace.blocks, op.size \in Nat,
         trace' = [trace EXCEPT !.blocks[op.index] = p, !.block_sizes[op.index] = op.size]
  PROVE  /\ FromFile(FileAt(i))'
         /\ trace'.ops = trace.ops /\ trace'.num_ops = trace.num_ops
         /\ trace'.blocks = [trace.blocks EXCEPT ![op.index] = p]
         /\ trace'.block_sizes = [trace.block_sizes EXCEPT ![op.index] = op.size]
<1>1. PICK file : file = FileAt(i) /\ FileAt(i)' = file
  BY DEF FileAt, Names, NamesFor
<1> DEFINE ids == 0 .. file.num_ids - 1
           bl == [trace.blocks EXCEPT ![op.index] = p]
           bs == [trace.block_sizes EXCEPT ![op.index] = op.size]
<1>2. trace \in [num_ops : {file.num_ops}, ops : {file.lines},
                 blocks : [ids -> Nat \cup {Unset}], block_sizes : [ids -> Nat \cup {Unset}]]
  BY <1>1 DEF FromFile
<1> HIDE DEF ids
<1>3. op.index \in ids
  BY <1>2
<1>4. trace' = [num_ops |-> trace.num_ops, ops |-> trace.ops, blocks |-> bl, block_sizes |-> bs]
  BY <1>2
<1>5. bl \in [ids -> Nat \cup {Unset}] /\ bs \in [ids -> Nat \cup {Unset}]
  BY <1>2, <1>3
<1> HIDE DEF bl, bs
<1>6. trace' \in [num_ops : {file.num_ops}, ops : {file.lines},
                  blocks : [ids -> Nat \cup {Unset}], block_sizes : [ids -> Nat \cup {Unset}]]
  BY <1>2, <1>4, <1>5
<1>7. FromFile(FileAt(i))'
  BY <1>1, <1>6 DEF FromFile, ids
<1> QED BY <1>4, <1>7 DEF bl, bs

----------------------------------------------------------------------------
(* What the actions have in common                                         *)

StatsType == [Passes -> [1 .. num_tracefiles -> Row]]

(* The options do not change after main has read them.                     *)
LEMMA NamesStay ==
  ASSUME UNCHANGED opt
  PROVE  Names' = Names /\ num_tracefiles' = num_tracefiles /\ StatsType' = StatsType
  BY DEF Names, NamesFor, num_tracefiles, StatsType

(* main stays at its trace, or the process ends there.                     *)
LEMMA PlaceStays ==
  ASSUME PlaceInv, pc \in Loaded, pc' \in Loaded \cup Over, pc' \notin Early,
         UNCHANGED <<opt, i>>, FromFile(FileAt(i))', stats' \in StatsType
  PROVE  PlaceInv'
<1>1. Accepted
  BY DEF PlaceInv, Loaded, Early
<1>2. Accepted'
  BY <1>1, NamesStay DEF Accepted, StatsType
<1> QED BY <1>2 DEF PlaceInv, Loaded, Over, Early

(* A row of the statistics is filled in, field by field.                   *)
LEMMA StatsField ==
  ASSUME Accepted, pass \in Passes
  PROVE  /\ stats \in StatsType
         /\ \A v \in BOOLEAN : LET s == [stats EXCEPT ![pass][i].valid = v]
                               IN  /\ s \in StatsType
                                   /\ \A n \in 1 .. num_tracefiles :
                                        /\ s.mm[n].util = stats.mm[n].util
                                        /\ s.mm[n].valid = IF pass = "mm" /\ n = i THEN v
                                                           ELSE stats.mm[n].valid
         /\ \A v \in Nat : LET s == [stats EXCEPT ![pass][i].ops = v]
                           IN  /\ s \in StatsType
                               /\ \A n \in 1 .. num_tracefiles :
                                    /\ s.mm[n].util = stats.mm[n].util
                                    /\ s.mm[n].valid = stats.mm[n].valid
         /\ \A v \in Nat : LET s == [stats EXCEPT ![pass][i].secs = v]
                           IN  /\ s \in StatsType
                               /\ \A n \in 1 .. num_tracefiles :
                                    /\ s.mm[n].util = stats.mm[n].util
                                    /\ s.mm[n].valid = stats.mm[n].valid
         /\ \A v \in Nat : LET s == [stats EXCEPT ![pass][i].util = v]
                           IN  /\ s \in StatsType
                               /\ \A n \in 1 .. num_tracefiles :
                                    /\ s.mm[n].util = IF pass = "mm" /\ n = i THEN v
                                                      ELSE stats.mm[n].util
                                    /\ s.mm[n].valid = stats.mm[n].valid
<1> DEFINE N == 1 .. num_tracefiles
<1>1. i \in N /\ stats \in [Passes -> [N -> Row]] /\ pass \in Passes
  BY DEF Accepted
<1> HIDE DEF N
<1>2. stats[pass][i] \in Row /\ stats[pass] \in [N -> Row]
  BY <1>1
<1>3. ASSUME NEW row \in Row
      PROVE  /\ [stats EXCEPT ![pass][i] = row] \in [Passes -> [N -> Row]]
             /\ \A n \in N : [stats EXCEPT ![pass][i] = row].mm[n] =
                               IF pass = "mm" /\ n = i THEN row ELSE stats.mm[n]
  BY <1>1, <1>2 DEF Passes
<1>4. ASSUME NEW v \in BOOLEAN
      PROVE  LET row == [stats[pass][i] EXCEPT !.valid = v]
             IN  /\ [stats EXCEPT ![pass][i].valid = v] = [stats EXCEPT ![pass][i] = row]
                 /\ row \in Row /\ row.valid = v /\ row.util = stats[pass][i].util
  BY <1>1, <1>2 DEF Row
<1>5. ASSUME NEW v \in Nat
      PROVE  /\ LET row == [stats[pass][i] EXCEPT !.ops = v]
                IN  /\ [stats EXCEPT ![pass][i].ops = v] = [stats EXCEPT ![pass][i] = row]
                    /\ row \in Row /\ row.valid = stats[pass][i].valid
                    /\ row.util = stats[pass][i].util
             /\ LET row == [stats[pass][i] EXCEPT !.secs = v]
                IN  /\ [stats EXCEPT ![pass][i].secs = v] = [stats EXCEPT ![pass][i] = row]
                    /\ row \in Row /\ row.valid = stats[pass][i].valid
                    /\ row.util = stats[pass][i].util
             /\ LET row == [stats[pass][i] EXCEPT !.util = v]
                IN  /\ [stats EXCEPT ![pass][i].util = v] = [stats EXCEPT ![pass][i] = row]
                    /\ row \in Row /\ row.valid = stats[pass][i].valid /\ row.util = v
  BY <1>1, <1>2 DEF Row
<1>6. stats \in StatsType /\ StatsType = [Passes -> [N -> Row]]
  BY <1>1 DEF StatsType, N
<1>7. \A v \in BOOLEAN : LET s == [stats EXCEPT ![pass][i].valid = v]
                         IN  /\ s \in StatsType
                             /\ \A n \in N : /\ s.mm[n].util = stats.mm[n].util
                                             /\ s.mm[n].valid = IF pass = "mm" /\ n = i THEN v
                                                                ELSE stats.mm[n].valid
  <2> TAKE v \in BOOLEAN
  <2> DEFINE row == [stats[pass][i] EXCEPT !.valid = v]
  <2>1. row \in Row /\ row.valid = v /\ row.util = stats[pass][i].util
        /\ [stats EXCEPT ![pass][i].valid = v] = [stats EXCEPT ![pass][i] = row]
    BY <1>4
  <2> HIDE DEF row
  <2> DEFINE s == [stats EXCEPT ![pass][i].valid = v]
  <2>2. /\ s \in [Passes -> [N -> Row]]
        /\ \A n \in N : s.mm[n] = IF pass = "mm" /\ n = i THEN row ELSE stats.mm[n]
    BY <1>3, <2>1
  <2> HIDE DEF s
  <2>3. \A n \in N : pass = "mm" /\ n = i => stats[pass][i] = stats.mm[n]
    OBVIOUS
  <2>4. s \in StatsType
    BY <1>6, <2>2
  <2>5. \A n \in N : pass = "mm" /\ n = i =>
          s.mm[n].valid = row.valid /\ s.mm[n].util = row.util
    BY <2>2
  <2>6. \A n \in N : ~(pass = "mm" /\ n = i) => s.mm[n] = stats.mm[n]
    BY <2>2
  <2>7. \A n \in N : /\ s.mm[n].util = IF pass = "mm" /\ n = i THEN row.util
                                        ELSE stats.mm[n].util
                     /\ s.mm[n].valid = IF pass = "mm" /\ n = i THEN row.valid
                                         ELSE stats.mm[n].valid
    BY <2>5, <2>6
  <2> QED BY <2>1, <2>3, <2>4, <2>7 DEF s
<1>8. ASSUME NEW v \in Nat
      PROVE  LET s == [stats EXCEPT ![pass][i].ops = v]
             IN  /\ s \in StatsType
                 /\ \A n \in N : /\ s.mm[n].util = stats.mm[n].util
                                 /\ s.mm[n].valid = stats.mm[n].valid
  <2> DEFINE row == [stats[pass][i] EXCEPT !.ops = v]
  <2>1. row \in Row /\ row.valid = stats[pass][i].valid /\ row.util = stats[pass][i].util
        /\ [stats EXCEPT ![pass][i].ops = v] = [stats EXCEPT ![pass][i] = row]
    BY <1>5
  <2> HIDE DEF row
  <2> QED BY <1>3, <1>6, <2>1
<1>9. ASSUME NEW v \in Nat
      PROVE  LET s == [stats EXCEPT ![pass][i].secs = v]
             IN  /\ s \in StatsType
                 /\ \A n \in N : /\ s.mm[n].util = stats.mm[n].util
                                 /\ s.mm[n].valid = stats.mm[n].valid
  <2> DEFINE row == [stats[pass][i] EXCEPT !.secs = v]
  <2>1. row \in Row /\ row.valid = stats[pass][i].valid /\ row.util = stats[pass][i].util
        /\ [stats EXCEPT ![pass][i].secs = v] = [stats EXCEPT ![pass][i] = row]
    BY <1>5
  <2> HIDE DEF row
  <2> QED BY <1>3, <1>6, <2>1
<1>10. ASSUME NEW v \in Nat
       PROVE  LET s == [stats EXCEPT ![pass][i].util = v]
              IN  /\ s \in StatsType
                  /\ \A n \in N : /\ s.mm[n].util = IF pass = "mm" /\ n = i THEN v
                                                    ELSE stats.mm[n].util
                                  /\ s.mm[n].valid = stats.mm[n].valid
  <2> DEFINE row == [stats[pass][i] EXCEPT !.util = v]
  <2>1. row \in Row /\ row.valid = stats[pass][i].valid /\ row.util = v
        /\ [stats EXCEPT ![pass][i].util = v] = [stats EXCEPT ![pass][i] = row]
    BY <1>5
  <2> HIDE DEF row
  <2> DEFINE s == [stats EXCEPT ![pass][i].util = v]
  <2>2. /\ s \in [Passes -> [N -> Row]]
        /\ \A n \in N : s.mm[n] = IF pass = "mm" /\ n = i THEN row ELSE stats.mm[n]
    BY <1>3, <2>1
  <2> HIDE DEF s
  <2>3. \A n \in N : pass = "mm" /\ n = i => stats[pass][i] = stats.mm[n]
    OBVIOUS
  <2>4. s \in StatsType
    BY <1>6, <2>2
  <2>5. \A n \in N : pass = "mm" /\ n = i =>
          s.mm[n].valid = row.valid /\ s.mm[n].util = row.util
    BY <2>2
  <2>6. \A n \in N : ~(pass = "mm" /\ n = i) => s.mm[n] = stats.mm[n]
    BY <2>2
  <2>7. \A n \in N : /\ s.mm[n].util = IF pass = "mm" /\ n = i THEN row.util
                                        ELSE stats.mm[n].util
                     /\ s.mm[n].valid = IF pass = "mm" /\ n = i THEN row.valid
                                         ELSE stats.mm[n].valid
    BY <2>5, <2>6
  <2> QED BY <2>1, <2>3, <2>4, <2>7 DEF s
<1> QED BY <1>6, <1>7, <1>8, <1>9, <1>10 DEF N

(* Where the tally is.                                                     *)
LEMMA TriedFacts ==
  ASSUME Accepted
  PROVE  Tried \in 0 .. num_tracefiles /\ IsFiniteSet({n \in 1 .. Tried : ~stats.mm[n].valid})
<1>1. num_tracefiles \in Nat /\ i \in 1 .. num_tracefiles
  BY FileFacts DEF Accepted
<1>2. Tried \in 0 .. num_tracefiles
  BY <1>1 DEF Tried
<1>3. IsFiniteSet(1 .. Tried)
  BY <1>1, <1>2, FS_Interval
<1>4. {n \in 1 .. Tried : ~stats.mm[n].valid} \in SUBSET (1 .. Tried)
  OBVIOUS
<1> QED BY <1>2, <1>3, <1>4, FS_Subset

(* A step that finds no trace valid or invalid.                            *)
LEMMA CountKept ==
  ASSUME CountInv, Accepted, pc \notin Early, pc \notin Over,
         UNCHANGED <<opt, pass, errors, package>>,
         \A n \in 1 .. num_tracefiles : stats'.mm[n].valid = stats.mm[n].valid,
         package = "ideal" => \A n \in 1 .. num_tracefiles : stats'.mm[n].util <= 100,
         Tried' = Tried,
         pc' \notin Over => (Passing <=> Passing') /\ (Passing => UNCHANGED i)
  PROVE  CountInv'
<1>1. num_tracefiles' = num_tracefiles /\ num_tracefiles \in Nat
  BY NamesStay, FileFacts
<1>2. Tried \in 0 .. num_tracefiles
  BY TriedFacts
<1>3. /\ IF pass = "libc" THEN errors = 0 \/ (pc = "unix_error" /\ errors = 1)
         ELSE errors = Cardinality({n \in 1 .. Tried : ~stats.mm[n].valid})
      /\ \A n \in Tried + 1 .. num_tracefiles : stats.mm[n].valid <=> Passing /\ n = i
  BY DEF CountInv
<1>4. pass = "libc" => errors = 0
  BY <1>3 DEF Over
<1> DEFINE t == Tried
<1>5. {n \in 1 .. t : ~stats'.mm[n].valid} = {n \in 1 .. t : ~stats.mm[n].valid}
  BY <1>1, <1>2
<1>6. ASSUME pc' \notin Over, NEW n \in Tried + 1 .. num_tracefiles
      PROVE  stats'.mm[n].valid <=> Passing' /\ n = i'
  <2>1. n \in 1 .. num_tracefiles
    BY <1>1, <1>2
  <2> QED BY <1>3, <1>6, <2>1
<1> QED BY <1>1, <1>3, <1>4, <1>5, <1>6 DEF CountInv

(* malloc_error counts the trace that is not valid.                        *)
LEMMA CountFails ==
  ASSUME CountInv, Accepted, pass = "mm", pc \in {"mm_init", "valid"}, malloc_error,
         UNCHANGED <<opt, pass, package, i, stats>>
  PROVE  CountInv'
<1>1. num_tracefiles' = num_tracefiles /\ num_tracefiles \in Nat /\ i \in 1 .. num_tracefiles
  BY NamesStay, FileFacts DEF Accepted
<1>2. Tried = i - 1 /\ Tried' = i /\ ~Passing /\ ~Passing' /\ pc \notin Early /\ pc \notin Over
      /\ errors' = errors + 1
  BY DEF Tried, Passing, malloc_error, Early, Over
<1>3. /\ errors = Cardinality({n \in 1 .. i - 1 : ~stats.mm[n].valid})
      /\ \A n \in i .. num_tracefiles : ~stats.mm[n].valid
      /\ package = "ideal" => \A n \in 1 .. num_tracefiles : stats.mm[n].util <= 100
  <2>1. (i - 1) + 1 = i
    BY <1>1
  <2> QED BY <1>2, <2>1 DEF CountInv
<1> DEFINE S == {n \in 1 .. i - 1 : ~stats.mm[n].valid}
<1>4. {n \in 1 .. i : ~stats.mm[n].valid} = S \cup {i} /\ i \notin S
  BY <1>1, <1>3
<1>5. IsFiniteSet(S)
  BY <1>2, TriedFacts
<1>6. Cardinality({n \in 1 .. i : ~stats.mm[n].valid}) = errors + 1
  BY <1>3, <1>4, <1>5, FS_AddElement
<1>7. \A n \in i + 1 .. num_tracefiles : ~stats.mm[n].valid
  BY <1>1, <1>3
<1> QED BY <1>1, <1>2, <1>3, <1>6, <1>7 DEF CountInv

(* A step that neither counts an error nor ends main.                      *)
LEMMA ReportKept ==
  ASSUME ReportInv, pc' # "done", UNCHANGED <<opt, package, errors>>,
         errors = 0 \/ pass' = pass, errors \in Nat, pc' = "app_error" => package = "fickle"
  PROVE  ReportInv'
<1>1. CountsAddUp'
  BY DEF CountsAddUp
<1>2. (package = "ideal" /\ errors > 0 =>
         pass = "libc" \/ \E n \in 1 .. num_tracefiles : Unreadable(FileAt(n)))'
  <2>1. CASE errors = 0
    BY <2>1
  <2>2. CASE pass' = pass
    BY <2>2, NamesStay DEF ReportInv, FileAt, Names, NamesFor, Unreadable
  <2> QED BY <2>1, <2>2
<1> QED BY <1>1, <1>2 DEF ReportInv

(* Where no trace is being evaluated.                                      *)
LEMMA Elsewhere ==
  ASSUME pc' \notin {"valid", "util_init", "util", "time"}
  PROVE  ValidInv' /\ LaterInv' /\ UtilInv' /\ TimeInv'
  BY DEF ValidInv, LaterInv, UtilInv, TimeInv, UtilisationTrue

----------------------------------------------------------------------------
(* main, up to the traces and after them                                   *)

(* Nothing but the options, and room for the statistics.                   *)
LEMMA StartInv ==
  ASSUME MainInv, Start
  PROVE  MainInv'
<1>1. /\ pc = "start" /\ \E argv \in Argvs : opt' = Options(argv)
      /\ UNCHANGED <<package, team, trace, heap, errors, report, timing>>
  BY DEF Start
<1>2. Fresh /\ errors = 0 /\ stats.mm = <<>> /\ BasicInv
  BY <1>1 DEF MainInv, PlaceInv, Early
<1>3. Fresh'
  BY <1>1, <1>2 DEF Fresh, heap
<1>4. CASE pc' \in {"usage", "no_team"} /\ UNCHANGED <<pass, i, stats>>
  <2>1. BasicInv'
    BY <1>1, <1>2, <1>4 DEF BasicInv, heap, Early
  <2>2. PlaceInv'
    BY <1>1, <1>2, <1>3, <1>4 DEF PlaceInv, Early, Loaded
  <2>3. CountInv'
    BY <1>4 DEF CountInv, Early
  <2>4. ReportInv'
    BY <1>1, <1>2, <1>4 DEF ReportInv, CountsAddUp
  <2> QED BY <1>4, <2>1, <2>2, <2>3, <2>4, Elsewhere DEF MainInv
<1>5. CASE /\ ~opt'.stop /\ pc' = "read" /\ i' = 1
           /\ pass' = IF opt'.run_libc THEN "libc" ELSE "mm"
           /\ stats' = [p \in {"libc", "mm"} |-> [n \in 1 .. num_tracefiles' |-> NoStats]]
  <2>1. num_tracefiles' \in Nat \ {0}
    <3>1. PICK argv \in Argvs : opt' = Options(argv) /\ ~Options(argv).stop
      BY <1>1, <1>5
    <3>2. NamesFor(opt') \in Seq(STRING) \ {<<>>}
      BY <3>1, DiskAssumption
    <3> QED BY <3>2 DEF num_tracefiles, Names
  <2>2. pass' \in {"libc", "mm"}
    BY <1>5
  <2>3. BasicInv'
    BY <1>1, <1>2, <1>5, <2>2 DEF BasicInv, heap, Passes
  <2>4. Accepted'
    <3>1. NoStats \in Row /\ 1 \in 1 .. num_tracefiles'
      BY <2>1 DEF NoStats, Row
    <3>2. stats' \in [Passes -> [1 .. num_tracefiles' -> Row]]
      BY <1>5, <3>1 DEF Passes
    <3> QED BY <1>1, <1>5, <3>1, <3>2 DEF Accepted
  <2>5. PlaceInv'
    BY <1>3, <1>5, <2>4 DEF PlaceInv, Early, Loaded
  <2>6. \A n \in 1 .. num_tracefiles' : ~stats'.mm[n].valid /\ stats'.mm[n].util = 0
    BY <1>5 DEF NoStats
  <2>7. Tried' = 0 /\ ~Passing'
    BY <1>5, <2>2 DEF Tried, Passing
  <2>8. CountInv'
    <3>1. {n \in 1 .. 0 : ~stats'.mm[n].valid} = {}
      OBVIOUS
    <3>2. Cardinality({}) = 0
      BY FS_EmptySet
    <3>3. errors' = Cardinality({n \in 1 .. Tried' : ~stats'.mm[n].valid}) /\ errors' = 0
      BY <1>1, <1>2, <2>7, <3>1, <3>2
    <3>4. \A n \in Tried' + 1 .. num_tracefiles' : ~stats'.mm[n].valid
      BY <2>1, <2>6, <2>7
    <3>5. \A n \in 1 .. num_tracefiles' : stats'.mm[n].util <= 100
      BY <2>6
    <3> QED BY <2>7, <3>3, <3>4, <3>5 DEF CountInv
  <2>9. ReportInv'
    BY <1>1, <1>2, <1>5 DEF ReportInv, CountsAddUp
  <2> QED BY <1>5, <2>3, <2>5, <2>8, <2>9, Elsewhere DEF MainInv
<1> QED BY <1>4, <1>5 DEF Start, Exit

(* The indices of a file's allocations have a largest one.                 *)
LEMMA MaxIndex ==
  ASSUME NEW lines \in Seq(Request)
  PROVE  LET S == {0} \cup {lines[n].index : n \in {m \in DOMAIN lines : Allocates(lines[m])}}
         IN  Max(S) \in Nat /\ \A n \in DOMAIN lines : Allocates(lines[n]) => lines[n].index <= Max(S)
<1> DEFINE D == {m \in DOMAIN lines : Allocates(lines[m])}
           I == {lines[n].index : n \in D}
           S == {0} \cup I
           f == [n \in D |-> lines[n].index]
<1>1. IsFiniteSet(D)
  <2>1. DOMAIN lines = 1 .. Len(lines) /\ Len(lines) \in Nat
    OBVIOUS
  <2>2. IsFiniteSet(1 .. Len(lines))
    BY <2>1, FS_Interval
  <2>3. D \in SUBSET (1 .. Len(lines))
    BY <2>1
  <2> HIDE DEF D
  <2> QED BY <2>2, <2>3, FS_Subset
<1>2. \A n \in D : lines[n].index \in Nat
  <2>1. \A n \in DOMAIN lines : lines[n] \in Request
    OBVIOUS
  <2> QED BY <2>1 DEF Request
<1>3. \A n \in DOMAIN lines : Allocates(lines[n]) => n \in D
  OBVIOUS
<1> HIDE DEF D
<1>4. f \in Surjection(D, I)
  BY DEF Surjection
<1>5. IsFiniteSet(I)
  <2> HIDE DEF I, f
  <2> QED BY <1>1, <1>4, FS_Surjection
<1>6. \A n \in D : lines[n].index \in I
  OBVIOUS
<1>7. I \subseteq Nat
  BY <1>2
<1> HIDE DEF I
<1>8. IsFiniteSet(S)
  <2>1. S = I \cup {0}
    OBVIOUS
  <2> HIDE DEF S
  <2> QED BY <1>5, <2>1, FS_AddElement
<1>9. S \subseteq Nat /\ S # {}
  BY <1>7
<1>10. \A n \in DOMAIN lines : Allocates(lines[n]) => lines[n].index \in S
  BY <1>3, <1>6
<1> HIDE DEF S
<1>11. Max(S) \in S /\ \A x \in S : x <= Max(S)
  <2>1. S \subseteq Int
    BY <1>9
  <2> QED BY <1>8, <1>9, <2>1, Extremes
<1> QED BY <1>9, <1>10, <1>11 DEF S, I, D

(* A file that is read as valid is as its head says.                       *)
LEMMA ValidFile ==
  ASSUME NEW file, TraceFile(file), "valid" \in ReadOutcomes(file), file # NULL
  PROVE  /\ Len(file.lines) = file.num_ops
         /\ \A n \in 1 .. file.num_ops :
              /\ file.lines[n].type \in {"a", "r", "f"}
              /\ Allocates(file.lines[n]) => file.lines[n].index < file.num_ids
<1>1. file.lines \in Seq(Request) /\ file.num_ids \in Nat /\ file.num_ops \in Nat
  BY DEF TraceFile, Request
<1> DEFINE bogus == {n \in DOMAIN file.lines : file.lines[n].type \notin {"a", "r", "f"}}
           S == {0} \cup {file.lines[n].index :
                            n \in {m \in DOMAIN file.lines : Allocates(file.lines[m])}}
           max_index == Max(S)
<1>2. bogus = {} /\ max_index = file.num_ids - 1 /\ file.num_ops = Len(file.lines)
  BY DEF ReadOutcomes
<1>3. \A n \in DOMAIN file.lines : file.lines[n].type \in {"a", "r", "f"}
  BY <1>2
<1>4. max_index \in Nat
      /\ \A n \in DOMAIN file.lines : Allocates(file.lines[n]) => file.lines[n].index <= max_index
  BY <1>1, MaxIndex
<1> HIDE DEF max_index
<1>5. \A n \in DOMAIN file.lines : file.lines[n].index \in Nat
  <2>1. \A n \in DOMAIN file.lines : file.lines[n] \in Request
    BY <1>1
  <2> QED BY <2>1 DEF Request
<1>6. DOMAIN file.lines = 1 .. file.num_ops
  BY <1>1, <1>2
<1>7. \A n \in DOMAIN file.lines : Allocates(file.lines[n]) => file.lines[n].index < file.num_ids
  BY <1>1, <1>2, <1>4, <1>5
<1> QED BY <1>2, <1>3, <1>6, <1>7

(* A trace is stored as its file has it, or the process ends.              *)
LEMMA ReadTraceInv ==
  ASSUME MainInv, read_trace
  PROVE  MainInv'
<1>1. pc = "read" /\ UNCHANGED <<judged, pass, i, heap, errors, report, timing>>
  BY DEF read_trace
<1>2. /\ opt' = opt /\ package' = package /\ replies' = replies /\ k' = k /\ ranges' = ranges
      /\ brk' = brk /\ total' = total /\ pass' = pass /\ i' = i /\ errors' = errors
      /\ report' = report
  BY <1>1 DEF judged, heap
<1>3. Accepted /\ Fresh /\ pass \in Passes
  BY <1>1 DEF MainInv, PlaceInv, BasicInv, Early, Loaded, Over
<1> DEFINE file == FileAt(i)
<1>4. PICK outcome \in ReadOutcomes(file) :
        IF outcome = "valid"
        THEN /\ trace' = [num_ops |-> file.num_ops, ops |-> file.lines,
                          blocks |-> [id \in 0 .. file.num_ids - 1 |-> Unset],
                          block_sizes |-> [id \in 0 .. file.num_ids - 1 |-> Unset]]
             /\ stats' = [stats EXCEPT ![pass][i].ops = file.num_ops]
             /\ pc' = IF pass = "libc" THEN "libc_valid" ELSE "mm_init"
        ELSE pc' = outcome /\ UNCHANGED <<trace, stats>>
  BY DEF read_trace, FileAt, Exit
<1>5. num_tracefiles \in Nat \ {0} /\ i \in 1 .. num_tracefiles /\ (file = NULL \/ TraceFile(file))
  BY <1>3, FileFacts DEF Accepted
<1>6. FileAt(i)' = file
  BY <1>2 DEF FileAt, Names, NamesFor
<1> HIDE DEF file
<1>7. outcome \in {"unix_error", "overrun", "bogus", "assert", "valid"}
  BY DEF ReadOutcomes
<1>8. Tried = (IF pass = "libc" THEN 0 ELSE i - 1) /\ ~Passing
  BY <1>1 DEF Tried, Passing
<1>9. pc' \notin {"valid", "util_init", "util", "time", "done", "free", "results", "app_error"}
  BY <1>4, <1>7
<1>10. Tried' = Tried /\ ~Passing'
  BY <1>2, <1>8, <1>9, NamesStay DEF Tried, Passing
<1>11. ReportInv'
  BY <1>2, <1>9, ReportKept DEF MainInv, BasicInv
<1>12. CASE outcome = "valid"
  <2>1. TraceFile(file)
    BY <1>4, <1>5, <1>12 DEF ReadOutcomes
  <2>2. file # NULL
    BY <1>4, <1>12 DEF ReadOutcomes
  <2>3. /\ Len(file.lines) = file.num_ops
        /\ \A n \in 1 .. file.num_ops :
             /\ file.lines[n].type \in {"a", "r", "f"}
             /\ Allocates(file.lines[n]) => file.lines[n].index < file.num_ids
    BY <1>4, <1>12, <2>1, <2>2, ValidFile
  <2>4. FromFile(FileAt(i))'
    <3>1. trace' \in [num_ops : {file.num_ops}, ops : {file.lines},
                      blocks : [0 .. file.num_ids - 1 -> Nat \cup {Unset}],
                      block_sizes : [0 .. file.num_ids - 1 -> Nat \cup {Unset}]]
      BY <1>4, <1>12
    <3> QED BY <1>6, <2>1, <2>3, <3>1 DEF FromFile
  <2>5. file.num_ops \in Nat /\ stats' = [stats EXCEPT ![pass][i].ops = file.num_ops]
    BY <1>4, <1>12, <2>1 DEF TraceFile
  <2>6. /\ stats' \in StatsType
        /\ \A n \in 1 .. num_tracefiles : /\ stats'.mm[n].util = stats.mm[n].util
                                          /\ stats'.mm[n].valid = stats.mm[n].valid
    BY <1>3, <2>5, StatsField
  <2>7. PlaceInv'
    <3>1. Accepted'
      BY <1>2, <1>3, <2>6, NamesStay DEF Accepted, StatsType
    <3>2. pc' \in Loaded /\ pc' \notin Early
      BY <1>4, <1>12 DEF Loaded, Early
    <3> QED BY <2>4, <3>1, <3>2 DEF PlaceInv
  <2>8. BasicInv'
    <3>1. trace'.num_ops \in Nat /\ k = 1
      BY <1>3, <1>4, <1>12, <2>5 DEF Fresh
    <3> QED BY <1>2, <1>4, <1>12, <3>1 DEF MainInv, BasicInv, Loaded, Passes
  <2>9. package = "ideal" => \A n \in 1 .. num_tracefiles : stats'.mm[n].util <= 100
    BY <1>1, <2>6 DEF MainInv, CountInv, Early
  <2>10. CountInv'
    BY <1>1, <1>2, <1>3, <1>8, <1>10, <2>6, <2>9, CountKept DEF MainInv, Early, Over
  <2> QED BY <1>9, <1>11, <2>7, <2>8, <2>10, Elsewhere DEF MainInv
<1>13. CASE outcome # "valid"
  <2>1. pc' \in Over \ Early /\ UNCHANGED <<trace, stats>>
    BY <1>4, <1>7, <1>13 DEF Over, Early
  <2>2. BasicInv'
    BY <1>2, <1>9, <1>13, <1>4, <1>7, <2>1 DEF MainInv, BasicInv
  <2>3. PlaceInv'
    <3>1. Accepted'
      BY <1>2, <1>3, <2>1, NamesStay DEF Accepted
    <3>2. Fresh'
      BY <1>2, <1>3, <2>1 DEF Fresh
    <3> QED BY <2>1, <3>1, <3>2 DEF PlaceInv, Loaded, Over
  <2>4. package = "ideal" => \A n \in 1 .. num_tracefiles : stats'.mm[n].util <= 100
    BY <1>1, <2>1 DEF MainInv, CountInv, Early
  <2>5. CountInv'
    BY <1>1, <1>2, <1>3, <1>8, <1>10, <2>1, <2>4, CountKept DEF MainInv, Early, Over
  <2> QED BY <1>9, <1>11, <2>2, <2>3, <2>5, Elsewhere DEF MainInv
<1> QED BY <1>12, <1>13

(* The trace is forgotten, and the next one is up.                         *)
LEMMA FreeTraceInv ==
  ASSUME MainInv, free_trace
  PROVE  MainInv'
<1>1. /\ pc = "free" /\ trace' = NoTrace /\ replies' = <<>> /\ k' = 1 /\ total' = NoTotal
      /\ UNCHANGED <<judged, ranges, brk, stats, errors, timing>>
  BY DEF free_trace
<1>2. /\ opt' = opt /\ package' = package /\ ranges' = ranges /\ brk' = brk /\ stats' = stats
      /\ errors' = errors
  BY <1>1 DEF judged
<1>3. Accepted /\ pass \in Passes /\ DOMAIN report = {"libc", "mm", "errors", "correct", "perfidx"}
  BY <1>1 DEF MainInv, PlaceInv, BasicInv, Early, Loaded, Over
<1>4. num_tracefiles' = num_tracefiles /\ num_tracefiles \in Nat \ {0} /\ i \in 1 .. num_tracefiles
  BY <1>2, <1>3, NamesStay, FileFacts DEF Accepted
<1>5. Fresh'
  BY <1>1 DEF Fresh
<1>6. pc \notin Early /\ pc \notin Over /\ ~Passing
      /\ Tried = IF pass = "libc" THEN 0 ELSE i
  BY <1>1 DEF Early, Over, Passing, Tried
<1>7. package = "ideal" => \A n \in 1 .. num_tracefiles : stats'.mm[n].util <= 100
  BY <1>2, <1>6 DEF MainInv, CountInv
<1>8. \/ i < num_tracefiles /\ i' = i + 1 /\ pc' = "read" /\ UNCHANGED <<pass, report>>
      \/ /\ ~(i < num_tracefiles) /\ i' = 1 /\ pass' = "mm"
         /\ pc' = IF pass = "libc" THEN "read" ELSE "results"
         /\ report' = IF opt.verbose THEN [report EXCEPT ![pass] = printresults(stats[pass])]
                      ELSE report
  BY DEF free_trace
<1>9. i' \in 1 .. num_tracefiles /\ pass' \in Passes /\ pc' \in {"read", "results"}
      /\ DOMAIN report' = {"libc", "mm", "errors", "correct", "perfidx"}
      /\ (pc' = "results" => pass' = "mm")
  <2>1. CASE i < num_tracefiles /\ i' = i + 1 /\ pc' = "read" /\ UNCHANGED <<pass, report>>
    BY <1>3, <1>4, <2>1
  <2>2. CASE /\ i' = 1 /\ pass' = "mm" /\ pc' = IF pass = "libc" THEN "read" ELSE "results"
             /\ report' = IF opt.verbose THEN [report EXCEPT ![pass] = printresults(stats[pass])]
                          ELSE report
    BY <1>3, <1>4, <2>2 DEF Passes
  <2> QED BY <1>8, <2>1, <2>2
<1>10. PlaceInv'
  <2>1. Accepted'
    BY <1>2, <1>3, <1>4, <1>9 DEF Accepted
  <2> QED BY <1>5, <1>9, <2>1 DEF PlaceInv, Early, Loaded
<1>11. BasicInv'
  <2>1. <<>> \in Seq(Answer) /\ NoTotal \in [size : Nat, max : Nat] /\ 1 \in 1 .. NoTrace.num_ops + 1
    BY DEF NoTotal, NoTrace
  <2>2. BasicInv
    BY DEF MainInv
  <2>3. pc' \in Over \cup Early \cup Loaded \cup {"read", "results"} /\ pc' # "libc_valid"
        /\ pc' \notin {"mm_init", "valid", "util_init", "util", "done"}
    BY <1>9
  <2> QED BY <1>1, <1>2, <1>9, <2>1, <2>2, <2>3 DEF BasicInv
<1>12. CountInv'
  <2>1. CASE pass' = pass
    <3>1. Tried' = Tried
      <4>1. CASE pass = "libc"
        BY <1>4, <1>6, <1>8, <2>1, <4>1 DEF Tried
      <4>2. CASE pass = "mm"
        BY <1>4, <1>6, <1>8, <2>1, <4>2 DEF Tried
      <4> QED BY <1>3, <4>1, <4>2 DEF Passes
    <3>2. ~Passing'
      BY <1>9 DEF Passing
    <3> QED BY <1>2, <1>3, <1>6, <1>7, <2>1, <3>1, <3>2, CountKept DEF MainInv
  <2>2. CASE pass' # pass
    <3>1. pass = "libc" /\ pass' = "mm" /\ pc' = "read" /\ i' = 1
      BY <1>3, <1>8, <2>2 DEF Passes
    <3>2. errors = 0 /\ \A n \in 1 .. num_tracefiles : ~stats.mm[n].valid
      <4>1. 0 + 1 = 1
        OBVIOUS
      <4> QED BY <1>1, <1>6, <3>1, <4>1 DEF MainInv, CountInv
    <3>3. Tried' = 0 /\ ~Passing'
      BY <3>1 DEF Tried, Passing
    <3>4. Cardinality({n \in 1 .. 0 : ~stats.mm[n].valid}) = 0
      <4>1. {n \in 1 .. 0 : ~stats.mm[n].valid} = {}
        OBVIOUS
      <4> QED BY <4>1, FS_EmptySet
    <3>5. 0 + 1 = 1
      OBVIOUS
    <3> QED BY <1>2, <1>4, <1>7, <3>1, <3>2, <3>3, <3>4, <3>5 DEF CountInv
  <2> QED BY <2>1, <2>2
<1>13. ReportInv'
  <2>1. pass' = pass \/ errors = 0
    <3>1. CASE pass = "libc"
      BY <1>1, <1>6, <3>1 DEF MainInv, CountInv
    <3>2. CASE pass = "mm"
      BY <1>8, <3>2
    <3> QED BY <1>3, <3>1, <3>2 DEF Passes
  <2> QED BY <1>2, <1>9, <2>1, ReportKept DEF MainInv, BasicInv
<1> QED BY <1>9, <1>10, <1>11, <1>12, <1>13, Elsewhere DEF MainInv

(* libc finds memory for every request of the trace, or the process ends.  *)
LEMMA LibcValidInv ==
  ASSUME MainInv, eval_libc_valid
  PROVE  MainInv'
<1>1. /\ pc = "libc_valid"
      /\ UNCHANGED <<judged, progress, heap, report, method, cyc_per_tick, cache_buf>>
  BY DEF eval_libc_valid
<1>2. /\ opt' = opt /\ package' = package /\ pass' = pass /\ i' = i /\ trace' = trace
      /\ replies' = replies /\ k' = k /\ ranges' = ranges /\ brk' = brk /\ total' = total
      /\ report' = report
  BY <1>1 DEF judged, progress, heap
<1>3. Accepted /\ pass = "libc" /\ pc \in Loaded /\ pc \notin Over /\ pc \notin Early
      /\ FromFile(FileAt(i)) /\ BasicInv /\ pass \in Passes
  BY <1>1 DEF MainInv, PlaceInv, BasicInv, Early, Loaded, Over
<1>4. FromFile(FileAt(i))'
  BY <1>2, <1>3, FileStays
<1>5. errors = 0 /\ Tried = 0 /\ ~Passing
  BY <1>1, <1>3 DEF MainInv, CountInv, Tried, Passing
<1>6. package = "ideal" => \A n \in 1 .. num_tracefiles : stats.mm[n].util <= 100
  BY <1>3 DEF MainInv, CountInv
<1>7. CASE /\ stats' = [stats EXCEPT ![pass][i].valid = TRUE]
           /\ pc' = "time" /\ init_sampler /\ errors' = errors
  <2>1. /\ stats' \in StatsType
        /\ \A n \in 1 .. num_tracefiles : /\ stats'.mm[n].util = stats.mm[n].util
                                          /\ stats'.mm[n].valid = stats.mm[n].valid
    BY <1>3, <1>7, StatsField
  <2>2. PlaceInv'
    BY <1>2, <1>3, <1>4, <1>7, <2>1, PlaceStays DEF MainInv, Loaded, Early
  <2>3. BasicInv'
    BY <1>2, <1>3, <1>7 DEF BasicInv, Loaded
  <2>4. Tried' = 0 /\ ~Passing'
    BY <1>2, <1>3, <1>7 DEF Tried, Passing
  <2>5. CountInv'
    BY <1>2, <1>3, <1>5, <1>6, <1>7, <2>1, <2>4, CountKept DEF MainInv
  <2>6. ReportInv'
    BY <1>2, <1>5, <1>7, ReportKept DEF MainInv
  <2>7. ValidInv' /\ LaterInv' /\ UtilInv' /\ TimeInv'
    BY <1>2, <1>3, <1>7 DEF ValidInv, LaterInv, UtilInv, TimeInv, UtilisationTrue
  <2> QED BY <2>2, <2>3, <2>5, <2>6, <2>7 DEF MainInv
<1>8. CASE errors' = errors + 1 /\ pc' = "unix_error" /\ UNCHANGED <<stats, sampler>>
  <2>1. stats' \in StatsType /\ stats' = stats
    BY <1>3, <1>8, StatsField
  <2>2. PlaceInv'
    BY <1>2, <1>3, <1>4, <1>8, <2>1, PlaceStays DEF MainInv, Over, Early
  <2>3. BasicInv'
    BY <1>2, <1>3, <1>8 DEF BasicInv, Over
  <2>4. CountInv'
    BY <1>2, <1>3, <1>5, <1>6, <1>8, <2>1, NamesStay DEF CountInv, Over
  <2>5. ReportInv'
    BY <1>2, <1>3, <1>8 DEF ReportInv, CountsAddUp
  <2> QED BY <1>8, <2>2, <2>3, <2>4, <2>5, Elsewhere DEF MainInv
<1> QED BY <1>7, <1>8 DEF eval_libc_valid, Exit

(* While the clock runs nothing else changes.                              *)
LEMMA MeasureInv ==
  ASSUME MainInv, Measure
  PROVE  MainInv'
<1>1. /\ pc = "time" /\ UNCHANGED <<judged, pc, progress, replies, k, ranges, total, results>>
      /\ brk' = IF pass = "mm" THEN Last(replies).brk ELSE brk
  BY DEF Measure
<1>2. brk' = brk
  BY <1>1 DEF MainInv, TimeInv
<1>3. /\ opt' = opt /\ package' = package /\ pass' = pass /\ i' = i /\ trace' = trace /\ pc' = pc
      /\ replies' = replies /\ k' = k /\ ranges' = ranges /\ total' = total
      /\ report' = report /\ stats' = stats /\ errors' = errors
  BY <1>1 DEF judged, progress, results
<1>4. Accepted /\ pc \in Loaded /\ pc \notin Over /\ pc \notin Early
      /\ FromFile(FileAt(i)) /\ BasicInv /\ pass \in Passes
  BY <1>1 DEF MainInv, PlaceInv, BasicInv, Early, Loaded, Over
<1>5. BasicInv'
  BY <1>2, <1>3, <1>4 DEF BasicInv
<1>6. PlaceInv'
  BY <1>3, <1>4, FileStays, StatsField, PlaceStays DEF MainInv
<1>7. CountInv'
  <2>1. Tried' = Tried /\ (Passing' <=> Passing)
    BY <1>3, NamesStay DEF Tried, Passing
  <2> QED BY <1>3, <1>4, <2>1, CountKept DEF MainInv, CountInv
<1>8. ReportInv'
  BY <1>1, <1>3, <1>4, ReportKept DEF MainInv, BasicInv
<1>9. ValidInv' /\ UtilInv'
  BY <1>1, <1>3 DEF ValidInv, UtilInv
<1>10. LaterInv'
  BY <1>3 DEF MainInv, LaterInv, Answered, Serves
<1>11. TimeInv'
  BY <1>2, <1>3 DEF MainInv, TimeInv, UtilisationTrue, HighWater
<1> QED BY <1>5, <1>6, <1>7, <1>8, <1>9, <1>10, <1>11 DEF MainInv

(* Only a fickle package fails a pass that follows a valid one.            *)
LEMMA SpeedFailsInv ==
  ASSUME MainInv, SpeedFails
  PROVE  MainInv'
<1>1. pc = "time" /\ UNCHANGED <<judged, progress, heap, results, timing>>
  BY DEF SpeedFails
<1>2. /\ opt' = opt /\ package' = package /\ pass' = pass /\ i' = i /\ trace' = trace
      /\ replies' = replies /\ k' = k /\ ranges' = ranges /\ total' = total /\ brk' = brk
      /\ report' = report /\ stats' = stats /\ errors' = errors
  BY <1>1 DEF judged, progress, heap, results
<1>3. pc' = "unix_error" \/ (pc' = "app_error" /\ package = "fickle")
  BY DEF SpeedFails, Exit, app_error, Again
<1>4. Accepted /\ pc \in Loaded /\ pc \notin Over /\ pc \notin Early
      /\ FromFile(FileAt(i)) /\ BasicInv /\ pass \in Passes
  BY <1>1 DEF MainInv, PlaceInv, BasicInv, Early, Loaded, Over
<1>5. BasicInv'
  BY <1>2, <1>3, <1>4 DEF BasicInv, Over
<1>6. PlaceInv'
  BY <1>2, <1>3, <1>4, FileStays, StatsField, PlaceStays DEF MainInv, Over, Early
<1>7. CountInv'
  <2>1. Tried' = Tried /\ pc' \in Over
    BY <1>1, <1>2, <1>3, NamesStay DEF Tried, Over
  <2> QED BY <1>2, <1>4, <2>1, CountKept DEF MainInv, CountInv
<1>8. ReportInv'
  BY <1>2, <1>3, <1>4, ReportKept DEF MainInv, BasicInv
<1> QED BY <1>3, <1>5, <1>6, <1>7, <1>8, Elsewhere DEF MainInv

(* When fsecs is done there is a value that it can answer with.            *)
LEMMA FsecsType ==
  ASSUME TimingInv, measured
  PROVE  fsecs \in Nat
<1>1. values \in Seq(Nat) /\ RUNS \in Nat \ {0} /\ kbest \in Nat \ {0} /\ samplecount \in Nat
  BY TimingAssumption DEF TimingInv
<1>2. 1 \in DOMAIN values
  <2>1. CASE method = "fcyc"
    <3>1. samplecount > 0 /\ samplecount = Len(samples)
      BY <2>1, BestIs DEF measured, TimingInv
    <3>2. PICK rank : values = Firsts(samples, rank)
      BY <2>1, BestIs DEF TimingInv
    <3>3. Min({kbest, Len(samples)}) = IF kbest < Len(samples) THEN kbest ELSE Len(samples)
      BY <1>1, <3>1, MinOfTwo
    <3>4. 1 \in 1 .. Min({kbest, Len(samples)})
      BY <1>1, <3>1, <3>3
    <3> QED BY <3>2, <3>4 DEF Firsts
  <2>2. CASE method # "fcyc"
    <3>1. samplecount = RUNS /\ samples # <<>>
      BY <1>1, <2>2 DEF measured, TimingInv
    <3>2. samples \in Seq(Nat) /\ values = [j \in 1 .. Len(samples) |-> samples[j] \div RUNS]
      BY <2>2 DEF TimingInv, BestSamples
    <3>3. 1 \in 1 .. Len(samples)
      BY <3>1, <3>2
    <3> QED BY <3>2, <3>3
  <2> QED BY <2>1, <2>2
<1> QED BY <1>1, <1>2 DEF fsecs

(* The trace has been timed.                                               *)
LEMMA TimeEndInv ==
  ASSUME MainInv, TimingInv, TimeEnd
  PROVE  MainInv'
<1>1. /\ pc = "time" /\ measured /\ pc' = "free"
      /\ stats' = [stats EXCEPT ![pass][i].secs = fsecs]
      /\ UNCHANGED <<judged, progress, heap, errors, report>>
  BY DEF TimeEnd
<1>2. /\ opt' = opt /\ package' = package /\ pass' = pass /\ i' = i /\ trace' = trace
      /\ replies' = replies /\ k' = k /\ ranges' = ranges /\ total' = total /\ brk' = brk
      /\ report' = report /\ errors' = errors
  BY <1>1 DEF judged, progress, heap
<1>3. Accepted /\ pc \in Loaded /\ pc \notin Over /\ pc \notin Early
      /\ FromFile(FileAt(i)) /\ BasicInv /\ pass \in Passes
  BY <1>1 DEF MainInv, PlaceInv, BasicInv, Early, Loaded, Over
<1>4. /\ stats' \in StatsType
      /\ \A n \in 1 .. num_tracefiles : /\ stats'.mm[n].util = stats.mm[n].util
                                        /\ stats'.mm[n].valid = stats.mm[n].valid
  BY <1>1, <1>3, FsecsType, StatsField
<1>5. BasicInv'
  BY <1>1, <1>2, <1>3 DEF BasicInv, Loaded
<1>6. PlaceInv'
  BY <1>1, <1>2, <1>3, <1>4, FileStays, PlaceStays DEF MainInv, Loaded, Early
<1>7. num_tracefiles' = num_tracefiles /\ num_tracefiles \in Nat \ {0} /\ i \in 1 .. num_tracefiles
  BY <1>2, <1>3, NamesStay, FileFacts DEF Accepted
<1>8. package = "ideal" => \A n \in 1 .. num_tracefiles : stats'.mm[n].util <= 100
  BY <1>3, <1>4 DEF MainInv, CountInv
<1>9. CountInv'
  <2>1. CASE pass = "libc"
    <3>1. Tried = 0 /\ Tried' = 0 /\ ~Passing /\ ~Passing'
      BY <1>1, <1>2, <2>1 DEF Tried, Passing
    <3> QED BY <1>2, <1>3, <1>4, <1>8, <3>1, CountKept DEF MainInv
  <2>2. CASE pass = "mm"
    <3>1. Tried = i - 1 /\ Tried' = i /\ Passing /\ ~Passing'
      BY <1>1, <1>2, <2>2 DEF Tried, Passing
    <3>2. /\ errors = Cardinality({n \in 1 .. i - 1 : ~stats.mm[n].valid})
          /\ \A n \in i .. num_tracefiles : stats.mm[n].valid <=> n = i
      <4>1. (i - 1) + 1 = i
        BY <1>7
      <4> QED BY <1>3, <2>2, <3>1, <4>1 DEF MainInv, CountInv
    <3>3. {n \in 1 .. i : ~stats'.mm[n].valid} = {n \in 1 .. i - 1 : ~stats.mm[n].valid}
      <4>1. stats.mm[i].valid
        BY <1>7, <3>2
      <4>2. \A n \in 1 .. i : n \in 1 .. num_tracefiles /\ (n \in 1 .. i - 1 \/ n = i)
        BY <1>7
      <4>3. \A n \in 1 .. i - 1 : n \in 1 .. i
        BY <1>7
      <4> QED BY <1>4, <4>1, <4>2, <4>3
    <3>4. \A n \in i + 1 .. num_tracefiles : ~stats'.mm[n].valid
      <4>1. \A n \in i + 1 .. num_tracefiles :
              n \in i .. num_tracefiles /\ n \in 1 .. num_tracefiles /\ n # i
        BY <1>7
      <4> QED BY <1>4, <3>2, <4>1
    <3> QED BY <1>2, <1>7, <1>8, <2>2, <3>1, <3>2, <3>3, <3>4 DEF CountInv
  <2> QED BY <1>3, <2>1, <2>2 DEF Passes
<1>10. ReportInv'
  BY <1>1, <1>2, <1>3, ReportKept DEF MainInv, BasicInv
<1> QED BY <1>1, <1>5, <1>6, <1>9, <1>10, Elsewhere DEF MainInv

(* The sums over rows of statistics.                                       *)
LEMMA SumOfFacts ==
  ASSUME NEW N \in Nat \ {0}, NEW rows \in [1 .. N -> Row], NEW field \in {"util", "ops", "secs"}
  PROVE  /\ SumOf(rows, field) \in Nat
         /\ \A c \in Nat : (\A n \in 1 .. N : rows[n][field] <= c) => SumOf(rows, field) <= c * N
<1> DEFINE w == [n \in DOMAIN rows |-> rows[n][field]]
           S == 1 .. N
<1>1. SumOf(rows, field) = SumFunctionOnSet(w, S)
  BY DEF SumOf, SumFunction
<1>2. \A n \in S : w[n] \in Nat
  BY DEF Row
<1>3. IsFiniteSet(S) /\ Cardinality(S) = N
  BY FS_Interval
<1>4. \A n \in S : w[n] = rows[n][field]
  OBVIOUS
<1> HIDE DEF w, S
<1>5. ASSUME NEW c \in Nat, \A n \in S : w[n] <= c
      PROVE  SumFunctionOnSet(w, S) \in Nat /\ SumFunctionOnSet(w, S) <= c * N
  <2>1. \A n \in S : w[n] \in 0 .. c
    BY <1>2, <1>5
  <2>2. SumFunctionOnSet(w, S) \in 0 .. c * Cardinality(S)
    BY <1>3, <2>1, SumBounds
  <2>3. SumFunctionOnSet(w, S) \in 0 .. c * N /\ c * N \in Nat
    BY <1>3, <2>2
  <2> QED BY <2>3
<1>6. \E c \in Nat : \A n \in S : w[n] <= c
  <2> DEFINE V == {w[n] : n \in S}
             f == [n \in S |-> w[n]]
  <2>1. f \in Surjection(S, V)
    BY DEF Surjection
  <2>2. IsFiniteSet(V)
    <3> HIDE DEF V, f
    <3> QED BY <1>3, <2>1, FS_Surjection
  <2>3. V \subseteq Nat /\ \A n \in S : w[n] \in V
    BY <1>2
  <2>4. V # {}
    <3>1. 1 \in S
      BY DEF S
    <3> QED BY <3>1
  <2> HIDE DEF V
  <2>5. Max(V) \in V /\ \A x \in V : x <= Max(V)
    <3>1. V \subseteq Int
      BY <2>3
    <3> QED BY <2>2, <2>4, <3>1, Extremes
  <2> QED BY <2>3, <2>5
<1>7. SumFunctionOnSet(w, S) \in Nat
  BY <1>5, <1>6
<1>8. \A c \in Nat : (\A n \in S : w[n] <= c) => SumFunctionOnSet(w, S) <= c * N
  BY <1>5
<1> QED BY <1>1, <1>4, <1>7, <1>8 DEF S

(* A share of a whole is no more than the whole.                           *)
LEMMA ShareBound ==
  ASSUME NEW a \in Nat, NEW b \in Nat \ {0}, NEW c \in Nat, a <= c * b
  PROVE  a \div b \in 0 .. c
<1> DEFINE q == a \div b
           r == a % b
<1>1. q \in Int /\ r \in 0 .. b - 1 /\ a = b * q + r
  BY DivMod
<1> HIDE DEF q, r
<1>2. q >= 0
  <2>1. CASE q <= -1
    <3>1. b * q <= b * (-1)
      BY <1>1, <2>1
    <3> QED BY <1>1, <3>1
  <2> QED BY <1>1, <2>1
<1>3. q <= c
  <2>1. CASE q >= c + 1
    <3>1. b * q >= b * (c + 1)
      BY <1>1, <2>1
    <3>2. b * (c + 1) = c * b + b /\ c * b \in Int /\ b * q \in Int
      BY <1>1
    <3> QED BY <1>1, <3>1, <3>2
  <2> QED BY <1>1, <2>1
<1> QED BY <1>1, <1>2, <1>3 DEF q

(* The performance index of traces that use no more than the heap is one   *)
(* of at most 100.                                                         *)
LEMMA PerfIndexBound ==
  ASSUME Accepted, NEW rows \in [1 .. num_tracefiles -> Row],
         \A n \in 1 .. num_tracefiles : rows[n].util <= 100
  PROVE  perfindex(rows) \in 0 .. 100
<1> DEFINE N == num_tracefiles
           U == SumOf(rows, "util")
           O == SumOf(rows, "ops")
           T == SumOf(rows, "secs")
           p1 == (UTIL_WEIGHT * (U \div N)) \div 100
           full == 100 - UTIL_WEIGHT
           p2 == IF T = 0 \/ O > AVG_LIBC_THRUPUT * T THEN full
                 ELSE (full * O) \div (AVG_LIBC_THRUPUT * T)
<1>1. N \in Nat \ {0}
  BY FileFacts
<1>2. U \in Nat /\ O \in Nat /\ T \in Nat /\ U <= 100 * N
  <2>1. \A field \in {"util", "ops", "secs"} : SumOf(rows, field) \in Nat
    BY <1>1, SumOfFacts
  <2>2. \A n \in 1 .. N : rows[n]["util"] <= 100
    OBVIOUS
  <2>3. U <= 100 * N
    <3>1. 100 \in Nat /\ "util" \in {"util", "ops", "secs"}
      OBVIOUS
    <3> HIDE DEF N
    <3> QED BY <1>1, <2>2, <3>1, SumOfFacts DEF N
  <2> QED BY <2>1, <2>3
<1>3. perfindex(rows) = p1 + p2
  BY DEF perfindex, Totals
<1> HIDE DEF U, O, T, N
<1>4. UTIL_WEIGHT \in 0 .. 100 /\ AVG_LIBC_THRUPUT \in Nat \ {0} /\ full \in 0 .. 100
  BY DriverAssumption
<1>5. p1 \in 0 .. UTIL_WEIGHT
  <2> DEFINE mean == U \div N
  <2>1. mean \in 0 .. 100
    BY <1>1, <1>2, ShareBound
  <2> HIDE DEF mean
  <2>2. UTIL_WEIGHT * mean \in Nat /\ UTIL_WEIGHT * mean <= UTIL_WEIGHT * 100
    BY <1>4, <2>1
  <2>3. (UTIL_WEIGHT * mean) \div 100 \in 0 .. UTIL_WEIGHT
    BY <1>4, <2>2, ShareBound
  <2> QED BY <2>3 DEF mean
<1>6. p2 \in 0 .. full
  <2>1. CASE T = 0 \/ O > AVG_LIBC_THRUPUT * T
    BY <1>4, <2>1
  <2>2. CASE ~(T = 0 \/ O > AVG_LIBC_THRUPUT * T)
    <3> DEFINE d == AVG_LIBC_THRUPUT * T
    <3>1. d \in Nat \ {0} /\ O <= d
      BY <1>2, <1>4, <2>2
    <3> HIDE DEF d
    <3>2. full \in Nat /\ full * O \in Nat /\ full * O <= full * d
      <4> HIDE DEF full
      <4>1. full \in Nat
        BY <1>4
      <4> QED BY <1>2, <3>1, <4>1
    <3>3. (full * O) \div d \in 0 .. full
      <4> HIDE DEF full
      <4> QED BY <3>1, <3>2, ShareBound
    <3>4. p2 = (full * O) \div d
      BY <2>2 DEF d
    <3> HIDE DEF p2, full
    <3> QED BY <3>3, <3>4
  <2> QED BY <2>1, <2>2
<1> HIDE DEF p1, p2
<1> QED BY <1>3, <1>4, <1>5, <1>6

(* What main works out adds up.                                            *)
LEMMA ReportActionInv ==
  ASSUME MainInv, Report
  PROVE  MainInv'
<1>1. /\ pc = "results" /\ pc' = "done"
      /\ report' = [report EXCEPT
           !.errors = errors,
           !.correct = Cardinality({n \in 1 .. num_tracefiles : stats.mm[n].valid}),
           !.perfidx = IF errors = 0 THEN perfindex(stats.mm) ELSE 0]
      /\ UNCHANGED <<judged, progress, heap, stats, errors, timing>>
  BY DEF Report, Exit
<1>2. /\ opt' = opt /\ package' = package /\ pass' = pass /\ i' = i /\ trace' = trace
      /\ replies' = replies /\ k' = k /\ ranges' = ranges /\ total' = total /\ brk' = brk
      /\ stats' = stats /\ errors' = errors
  BY <1>1 DEF judged, progress, heap
<1>3. Accepted /\ pc \notin Over /\ pc \notin Early /\ Fresh /\ BasicInv /\ pass = "mm"
      /\ ~Passing
  BY <1>1 DEF MainInv, PlaceInv, BasicInv, Early, Loaded, Over, Passing
<1>4. num_tracefiles' = num_tracefiles /\ num_tracefiles \in Nat \ {0}
  BY <1>2, <1>3, NamesStay, FileFacts
<1>5. Tried = num_tracefiles /\ Tried' = num_tracefiles
  BY <1>1, <1>4 DEF Tried
<1>6. BasicInv'
  BY <1>1, <1>2, <1>3 DEF BasicInv, Over
<1>7. PlaceInv'
  <2>1. Accepted'
    BY <1>2, <1>3, <1>4 DEF Accepted
  <2>2. Fresh'
    BY <1>2, <1>3 DEF Fresh
  <2> QED BY <1>1, <2>1, <2>2 DEF PlaceInv, Early, Loaded
<1>8. CountInv'
  <2>1. pc' \in Over
    BY <1>1 DEF Over
  <2> QED BY <1>2, <1>3, <1>5, <2>1, CountKept DEF MainInv, CountInv
<1> DEFINE N == num_tracefiles
           yes == {n \in 1 .. N : stats.mm[n].valid}
           no == {n \in 1 .. N : ~stats.mm[n].valid}
<1>9. report'.errors = errors /\ report'.correct = Cardinality(yes)
      /\ report'.perfidx = IF errors = 0 THEN perfindex(stats.mm) ELSE 0
  BY <1>1, <1>3 DEF BasicInv
<1>10. errors = Cardinality(no) /\ errors \in Nat
  BY <1>3, <1>5 DEF MainInv, CountInv, BasicInv
<1>11. Cardinality(yes) + errors = N
  <2>1. IsFiniteSet(1 .. N) /\ Cardinality(1 .. N) = N
    BY <1>4, FS_Interval
  <2>2. yes \in SUBSET (1 .. N) /\ no \in SUBSET (1 .. N) /\ yes \cup no = 1 .. N /\ yes \cap no = {}
    OBVIOUS
  <2> HIDE DEF yes, no, N
  <2>3. IsFiniteSet(yes) /\ IsFiniteSet(no)
    BY <2>1, <2>2, FS_Subset
  <2>4. Cardinality(yes \cup no) = Cardinality(yes) + Cardinality(no) - Cardinality(yes \cap no)
    BY <2>3, FS_Union
  <2>5. Cardinality(yes \cap no) = 0 /\ Cardinality(yes) \in Nat /\ Cardinality(no) \in Nat
    BY <2>2, <2>3, FS_EmptySet, FS_CardinalityType
  <2>6. N = Cardinality(yes) + Cardinality(no) - Cardinality(yes \cap no)
    BY <2>1, <2>2, <2>4
  <2> QED BY <1>10, <2>5, <2>6
<1>12. Cardinality(yes) \in Int
  <2>1. IsFiniteSet(1 .. N) /\ yes \in SUBSET (1 .. N)
    BY <1>4, FS_Interval
  <2> HIDE DEF yes, N
  <2>2. IsFiniteSet(yes)
    BY <2>1, FS_Subset
  <2>3. Cardinality(yes) \in Nat
    BY <2>2, FS_CardinalityType
  <2> QED BY <2>3
<1> HIDE DEF yes, no
<1>13. CountsAddUp'
  <2>1. report'.correct + report'.errors = N
    BY <1>9, <1>11
  <2>2. report'.perfidx > 0 => report'.correct = N
    <3>1. CASE errors = 0
      BY <1>9, <1>11, <1>12, <3>1
    <3>2. CASE errors # 0
      BY <1>9, <3>2
    <3> QED BY <3>1, <3>2
  <2>3. package = "ideal" => report'.perfidx \in 0 .. 100
    <3> HAVE package = "ideal"
    <3>1. \A n \in 1 .. num_tracefiles : stats.mm[n].util <= 100
      BY <1>3 DEF MainInv, CountInv
    <3>2. stats.mm \in [1 .. num_tracefiles -> Row]
      BY <1>3 DEF Accepted, Passes
    <3>3. perfindex(stats.mm) \in 0 .. 100
      BY <1>3, <3>1, <3>2, PerfIndexBound
    <3> QED BY <1>9, <3>3
  <2> QED BY <1>2, <1>4, <2>1, <2>2, <2>3 DEF CountsAddUp
<1>14. ReportInv'
  BY <1>1, <1>2, <1>13, <1>4 DEF MainInv, ReportInv, FileAt, Names, NamesFor, Unreadable
<1> QED BY <1>1, <1>6, <1>7, <1>8, <1>14, Elsewhere DEF MainInv

----------------------------------------------------------------------------
(* What the steps of a pass have in common                                 *)

Trying == {"mm_init", "valid"}
Using == {"util_init", "util"}

(* Where a package is being run through a trace.                           *)
LEMMA InPass ==
  ASSUME MainInv, pc \in Trying \cup Using
  PROVE  /\ Accepted /\ BasicInv /\ pass = "mm" /\ pc \in Loaded /\ pc \notin Over
         /\ pc \notin Early /\ FromFile(FileAt(i)) /\ Tried = i - 1
         /\ Passing <=> pc \in Using
         /\ PlaceInv /\ CountInv /\ ReportInv
<1>1. pc \in Loaded /\ pc \notin Over /\ pc \notin Early /\ pc \notin {"free", "results", "done"}
  BY DEF Trying, Using, Loaded, Over, Early
<1>2. pass = "mm"
  BY DEF MainInv, BasicInv, Trying, Using
<1> QED BY <1>1, <1>2 DEF MainInv, PlaceInv, Tried, Passing, Trying, Using

(* A step that passes no verdict on the trace.                             *)
LEMMA PassGoesOn ==
  ASSUME MainInv, UNCHANGED <<opt, package, pass, i, stats, errors, report>>,
         FromFile(FileAt(i))',
         \/ pc \in Trying /\ pc' \in {"valid", "assert"}
         \/ pc \in Using /\ pc' \in {"util", "app_error"},
         pc' = "app_error" => package = "fickle"
  PROVE  PlaceInv' /\ CountInv' /\ ReportInv'
<1>1. /\ Accepted /\ BasicInv /\ pass = "mm" /\ pc \in Loaded /\ pc \notin Over
      /\ pc \notin Early /\ Tried = i - 1 /\ (Passing <=> pc \in Using)
      /\ PlaceInv /\ CountInv /\ ReportInv
  BY InPass
<1>2. pc' \in Loaded \cup Over /\ pc' \notin Early /\ pc' \notin {"free", "results", "done"}
  BY DEF Loaded, Over, Early
<1>3. PlaceInv'
  BY <1>1, <1>2, StatsField, PlaceStays DEF BasicInv
<1>4. CountInv'
  <2>1. Tried' = Tried
    BY <1>1, <1>2 DEF Tried
  <2>2. pc' \notin Over => (Passing <=> Passing')
    BY <1>1 DEF Passing, Trying, Using, Over
  <2> QED BY <1>1, <2>1, <2>2, CountKept DEF CountInv
<1>5. ReportInv'
  BY <1>1, <1>2, ReportKept DEF BasicInv
<1> QED BY <1>3, <1>4, <1>5

(* A verdict against the trace, which an ideal package only gets for data  *)
(* that the driver cannot read.                                            *)
LEMMA PassFails ==
  ASSUME MainInv, UNCHANGED <<opt, package, pass, i, stats, report>>, malloc_error,
         FromFile(FileAt(i))', pc \in Trying,
         package = "ideal" => Unreadable(FileAt(i))
  PROVE  /\ PlaceInv' /\ CountInv' /\ ReportInv'
         /\ ValidInv' /\ LaterInv' /\ UtilInv' /\ TimeInv'
<1>1. /\ Accepted /\ BasicInv /\ pass = "mm" /\ pc \in Loaded /\ pc \notin Over
      /\ pc \notin Early /\ PlaceInv /\ CountInv /\ ReportInv
  BY InPass
<1>2. pc' = "free" /\ errors' = errors + 1
  BY DEF malloc_error
<1>3. PlaceInv'
  BY <1>1, <1>2, StatsField, PlaceStays DEF BasicInv, Loaded, Early
<1>4. CountInv'
  BY <1>1, CountFails DEF Trying
<1>5. ReportInv'
  <2>1. CountsAddUp'
    BY <1>2 DEF CountsAddUp
  <2>2. i \in 1 .. num_tracefiles /\ num_tracefiles' = num_tracefiles
    BY <1>1, NamesStay DEF Accepted
  <2>3. \A n : FileAt(n)' = FileAt(n) /\ Unreadable(FileAt(n))' = Unreadable(FileAt(n))
    BY DEF FileAt, Names, NamesFor, Unreadable
  <2>4. package' = "ideal" => \E n \in 1 .. num_tracefiles' : Unreadable(FileAt(n))'
    BY <2>2, <2>3
  <2> QED BY <1>2, <2>1, <2>4 DEF ReportInv
<1> QED BY <1>2, <1>3, <1>4, <1>5, Elsewhere

(* The package starts with an empty heap, or not at all.                   *)
LEMMA InitValidInv ==
  ASSUME MainInv, InitValid
  PROVE  MainInv'
<1>1. /\ pc = "mm_init" /\ k' = 1 /\ ranges' = <<>>
      /\ UNCHANGED <<judged, progress, total, stats, report, timing>>
  BY DEF InitValid, clear_ranges
<1>2. PICK ok \in IF package = "ideal" THEN {TRUE} ELSE BOOLEAN, b \in Extents :
        /\ brk' = b
        /\ replies' = <<[p |-> IF ok THEN 0 ELSE NULL, brk |-> b, kept |-> TRUE]>>
        /\ IF ok THEN pc' = "valid" /\ errors' = errors ELSE malloc_error
  BY DEF InitValid
<1>3. /\ opt' = opt /\ package' = package /\ pass' = pass /\ i' = i /\ trace' = trace
      /\ total' = total /\ report' = report /\ stats' = stats
  BY <1>1 DEF judged, progress
<1>4. Accepted /\ pass = "mm" /\ pc \in Loaded /\ FromFile(FileAt(i)) /\ BasicInv /\ PlaceInv
  BY <1>1, InPass DEF Trying
<1>5. FromFile(FileAt(i))'
  BY <1>3, <1>4, FileStays
<1>6. trace.ops \in Seq(Request) /\ trace.num_ops \in Nat
  BY <1>4, TraceFacts
<1>7. b \in Nat \ {0} /\ NULL # 0
  BY DriverAssumption
<1> DEFINE a == [p |-> IF ok THEN 0 ELSE NULL, brk |-> b, kept |-> TRUE]
<1>8. a \in Answer /\ a.p = (IF ok THEN 0 ELSE NULL) /\ a.brk = b
  BY DEF Answer
<1>9. replies' = <<a>>
  BY <1>2
<1> HIDE DEF a
<1>10. replies' \in Seq(Answer) /\ Len(replies') = 1 /\ replies'[1] = a
  BY <1>8, <1>9
<1>11. pc' \in {"valid", "free"} /\ errors' \in Nat
  BY <1>2, <1>4 DEF malloc_error, BasicInv
<1>12. BasicInv'
  <2>1. ranges' \in Seq(Range_t)
    BY <1>1
  <2>2. k' \in 1 .. trace'.num_ops + 1
    BY <1>1, <1>3, <1>6
  <2> QED BY <1>2, <1>3, <1>4, <1>10, <1>11, <2>1, <2>2 DEF BasicInv, Loaded
<1>13. CASE ok /\ pc' = "valid" /\ errors' = errors
  <2>1. PlaceInv' /\ CountInv' /\ ReportInv'
    BY <1>1, <1>3, <1>5, <1>13, PassGoesOn DEF Trying
  <2>2. Held(trace'.ops, k') = {}
    BY <1>1, HeldFirst
  <2>3. Answered(k)'
    <3>1. Load(trace'.ops, 1) = 0
      BY <1>3, <1>6, LoadType
    <3>2. replies'[1].p # NULL /\ replies'[1].brk = b
      BY <1>7, <1>8, <1>10, <1>13
    <3>3. \A m \in 1 .. 1 : m = 1
      OBVIOUS
    <3>4. \A m \in 1 .. 1 : Load(trace'.ops, m) <= replies'[1].brk
      BY <1>7, <3>1, <3>2, <3>3
    <3>5. \A m : m \notin 1 .. 1 - 1
      OBVIOUS
    <3> QED BY <1>1, <1>10, <3>2, <3>4, <3>5 DEF Answered
  <2>4. RangesAreLive' /\ RangesNested'
    <3>1. ToSet(<<>>) = {} /\ Len(<<>>) = 0 /\ DOMAIN <<>> = {}
      BY DEF ToSet
    <3>2. Cardinality({}) = 0
      BY FS_EmptySet
    <3>3. {Payload(m)' : m \in {}} = {}
      OBVIOUS
    <3>4. ToSet(ranges') = {Payload(m)' : m \in Held(trace'.ops, k')}
          /\ Len(ranges') = Cardinality(Held(trace'.ops, k')) /\ DOMAIN ranges' = {}
      BY <1>1, <2>2, <3>1, <3>2, <3>3
    <3> QED BY <3>4 DEF RangesAreLive, RangesNested
  <2>5. brk' = replies'[k'].brk
    BY <1>1, <1>2, <1>8, <1>10
  <2>6. ValidInv'
    BY <2>2, <2>3, <2>4, <2>5 DEF ValidInv, Sizes
  <2>7. LaterInv' /\ UtilInv' /\ TimeInv'
    BY <1>13 DEF LaterInv, UtilInv, TimeInv, UtilisationTrue
  <2> QED BY <1>12, <2>1, <2>6, <2>7 DEF MainInv
<1>14. CASE ~ok /\ malloc_error
  <2>1. package # "ideal"
    BY <1>2, <1>14
  <2> QED BY <1>1, <1>3, <1>5, <1>12, <1>14, <2>1, PassFails DEF MainInv, Trying
<1> QED BY <1>2, <1>13, <1>14

----------------------------------------------------------------------------
(* eval_mm_util                                                            *)

(* What the package answers in a later pass is what it answered before, or *)
(* nothing.                                                                *)
LEMMA AgainFacts ==
  ASSUME replies \in Seq(Answer), NEW n \in 1 .. Len(replies), replies[n].p # NULL,
         NEW a \in Again(n)
  PROVE  /\ a.brk = replies[n].brk /\ a.brk \in Extents
         /\ a.p = NULL => package = "fickle"
         /\ a.p # NULL => a.p \in Nat
<1>1. replies[n] \in Answer
  OBVIOUS
<1>2. a = replies[n] \/ (package = "fickle" /\ a = [replies[n] EXCEPT !.p = NULL])
  BY DEF Again
<1> QED BY <1>1, <1>2 DEF Answer

(* The loads up to a request have a largest one.                           *)
LEMMA LoadsFacts ==
  ASSUME NEW lines \in Seq(Request), NEW n \in 1 .. Len(lines) + 1
  PROVE  LET S == {Load(lines, m) : m \in 1 .. n}
         IN  /\ IsFiniteSet(S) /\ S \subseteq Nat /\ S # {}
             /\ Max(S) \in S /\ \A x \in S : x <= Max(S)
<1> DEFINE D == 1 .. n
           S == {Load(lines, m) : m \in D}
           f == [m \in D |-> Load(lines, m)]
<1>1. n \in Nat /\ 1 \in D /\ \A m \in D : m \in 1 .. Len(lines) + 1
  OBVIOUS
<1>2. IsFiniteSet(D)
  BY <1>1, FS_Interval
<1>3. S \subseteq Nat /\ S # {}
  BY <1>1, LoadType
<1> HIDE DEF D
<1>4. f \in Surjection(D, S)
  BY DEF Surjection
<1> HIDE DEF f, S
<1>5. IsFiniteSet(S)
  BY <1>2, <1>4, FS_Surjection
<1>6. Max(S) \in S /\ \A x \in S : x <= Max(S)
  <2>1. S \subseteq Int
    BY <1>3
  <2> QED BY <1>3, <1>5, <2>1, Extremes
<1> QED BY <1>3, <1>5, <1>6 DEF S, D

(* A number is the maximum when it is one of them and bounds them.         *)
LEMMA MaxIs ==
  ASSUME NEW S, S \subseteq Int, NEW x \in S, \A y \in S : y <= x
  PROVE  Max(S) = x
<1>1. Max(S) \in S /\ x <= Max(S)
  BY DEF Max
<1>2. Max(S) <= x /\ Max(S) \in Int /\ x \in Int
  BY <1>1
<1> QED BY <1>1, <1>2

(* The high-water mark goes up with the load.                              *)
LEMMA LoadsNext ==
  ASSUME NEW lines \in Seq(Request), NEW n \in 1 .. Len(lines)
  PROVE  Max({Load(lines, m) : m \in 1 .. n + 1}) =
         Max({Max({Load(lines, m) : m \in 1 .. n}), Load(lines, n + 1)})
<1> DEFINE S == {Load(lines, m) : m \in 1 .. n}
           T == {Load(lines, m) : m \in 1 .. n + 1}
           x == Load(lines, n + 1)
<1>1. n \in 1 .. Len(lines) + 1 /\ n + 1 \in 1 .. Len(lines) + 1
  OBVIOUS
<1>2. Max(S) \in S /\ (\A y \in S : y <= Max(S)) /\ S \subseteq Nat /\ x \in Nat
  BY <1>1, LoadsFacts, LoadType
<1>3. T = S \cup {x}
  <2>1. \A m : m \in 1 .. n + 1 <=> m \in 1 .. n \/ m = n + 1
    OBVIOUS
  <2> QED BY <2>1
<1> HIDE DEF S, T, x
<1>4. PICK big \in Nat : big = Max(S)
  BY <1>2
<1>5. big \in S /\ (\A y \in S : y <= big) /\ big \in T /\ x \in T /\ T \subseteq Int
  BY <1>2, <1>3, <1>4
<1>6. Max({big, x}) = IF big < x THEN x ELSE big
  BY <1>2, MaxOfTwo
<1>7. CASE big < x
  <2>1. \A y \in S : y <= x
    BY <1>2, <1>5, <1>7
  <2>2. \A y \in T : y <= x
    BY <1>2, <1>3, <2>1
  <2>3. Max(T) = x
    BY <1>5, <2>2, MaxIs
  <2> QED BY <1>4, <1>6, <1>7, <2>3 DEF S, T, x
<1>8. CASE x <= big
  <2>1. \A y \in T : y <= big
    BY <1>3, <1>5, <1>8
  <2>2. Max(T) = big
    BY <1>5, <2>1, MaxIs
  <2>3. ~(big < x)
    BY <1>2, <1>8
  <2> QED BY <1>4, <1>6, <2>2, <2>3 DEF S, T, x
<1> QED BY <1>2, <1>7, <1>8

(* The sizes of the blocks that are held, as the driver stores them.       *)
Stored(lines, n, sizes) ==
  \A m \in Held(lines, n) :
    lines[m].index \in DOMAIN sizes /\ sizes[lines[m].index] = lines[m].size

(* They are what the requests asked for.                                   *)
LEMMA SizesNext ==
  ASSUME NEW lines, NEW n \in Nat \ {0}, NEW old, NEW new, Stored(lines, n, old),
         IF Allocates(lines[n])
         THEN lines[n].index \in DOMAIN old /\ new = [old EXCEPT ![lines[n].index] = lines[n].size]
         ELSE new = old
  PROVE  Stored(lines, n + 1, new)
<1> SUFFICES ASSUME NEW m \in Held(lines, n + 1)
             PROVE  lines[m].index \in DOMAIN new /\ new[lines[m].index] = lines[m].size
  BY DEF Stored
<1>1. (m \in Held(lines, n) /\ lines[m].index # lines[n].index) \/ (m = n /\ Allocates(lines[n]))
  BY HeldNext
<1> QED BY <1>1 DEF Stored

(* The heap starts out empty once more.                                    *)
LEMMA InitUtilInv ==
  ASSUME MainInv, InitUtil
  PROVE  MainInv'
<1>1. /\ pc = "util_init" /\ k' = 1 /\ total' = NoTotal
      /\ UNCHANGED <<judged, progress, replies, ranges, results, timing>>
  BY DEF InitUtil
<1>2. PICK a \in Again(1) : brk' = a.brk /\ IF a.p = NULL THEN pc' = "app_error" ELSE pc' = "util"
  BY DEF InitUtil, app_error, Exit
<1>3. /\ opt' = opt /\ package' = package /\ pass' = pass /\ i' = i /\ trace' = trace
      /\ replies' = replies /\ ranges' = ranges /\ report' = report /\ stats' = stats
      /\ errors' = errors
  BY <1>1 DEF judged, progress, results
<1>4. /\ Accepted /\ pass = "mm" /\ pc \in Loaded /\ FromFile(FileAt(i)) /\ BasicInv
      /\ PlaceInv
  BY <1>1, InPass DEF Using
<1>5. FromFile(FileAt(i))'
  BY <1>3, <1>4, FileStays
<1>6. trace.ops \in Seq(Request) /\ trace.num_ops \in Nat
  BY <1>4, TraceFacts
<1>7. Answered(trace.num_ops + 1)
  BY <1>1, <1>4 DEF MainInv, LaterInv
<1>8. /\ replies \in Seq(Answer) /\ 1 \in 1 .. Len(replies) /\ replies[1].p # NULL
  BY <1>4, <1>6, <1>7 DEF Answered, BasicInv
<1>9. brk' = replies[1].brk /\ brk' \in Extents /\ (pc' = "app_error" => package = "fickle")
      /\ pc' \in {"util", "app_error"}
  BY <1>2, <1>8, AgainFacts
<1>10. BasicInv'
  <2>1. k' \in 1 .. trace'.num_ops + 1
    BY <1>1, <1>3, <1>6
  <2>2. total' \in [size : Nat, max : Nat]
    BY <1>1 DEF NoTotal
  <2> QED BY <1>3, <1>4, <1>9, <2>1, <2>2 DEF BasicInv, Loaded, Over
<1>11. PlaceInv' /\ CountInv' /\ ReportInv'
  BY <1>1, <1>3, <1>5, <1>9, PassGoesOn DEF Using
<1>12. UtilInv'
  <2>1. Held(trace'.ops, k') = {}
    BY <1>1, HeldFirst
  <2>2. Load(trace'.ops, k') = 0 /\ Load(trace'.ops, 1) = 0
    BY <1>1, <1>3, <1>6, LoadType
  <2>3. {Load(trace'.ops, n) : n \in 1 .. k'} = {0}
    <3>1. \A n : n \in 1 .. k' <=> n = 1
      BY <1>1
    <3> QED BY <2>2, <3>1
  <2>4. Max({0}) = 0
    BY MaxIs
  <2>5. total'.size = 0 /\ total'.max = 0
    BY <1>1 DEF NoTotal
  <2> QED BY <1>1, <1>3, <1>9, <2>1, <2>2, <2>3, <2>4, <2>5 DEF UtilInv, Sizes
<1>13. LaterInv'
  BY <1>3, <1>7 DEF LaterInv, Answered, Serves
<1>14. ValidInv' /\ TimeInv'
  BY <1>9 DEF ValidInv, TimeInv, UtilisationTrue
<1> QED BY <1>10, <1>11, <1>12, <1>13, <1>14 DEF MainInv

(* What the steps of the second pass rest on.                              *)
LEMMA UtilFacts ==
  ASSUME MainInv, pc = "util"
  PROVE  /\ FromFile(FileAt(i)) /\ BasicInv /\ pass = "mm" /\ PlaceInv /\ Accepted
         /\ trace.ops \in Seq(Request) /\ Len(trace.ops) = trace.num_ops
         /\ trace.num_ops \in Nat /\ Consistent(trace.ops)
         /\ \A n \in 1 .. trace.num_ops :
              /\ trace.ops[n].index \in Nat /\ trace.ops[n].size \in Nat
              /\ Allocates(trace.ops[n]) =>
                   trace.ops[n].index \in DOMAIN trace.blocks \cap DOMAIN trace.block_sizes
         /\ Answered(trace.num_ops + 1) /\ replies \in Seq(Answer)
         /\ k \in 1 .. trace.num_ops + 1 /\ k \in Nat \ {0}
         /\ total \in [size : Nat, max : Nat]
         /\ Stored(trace.ops, k, trace.block_sizes)
<1>1. /\ FromFile(FileAt(i)) /\ BasicInv /\ pass = "mm" /\ PlaceInv /\ Accepted /\ pc \in Loaded
  BY InPass DEF Using
<1>2. /\ trace.ops \in Seq(Request) /\ Len(trace.ops) = trace.num_ops
      /\ trace.num_ops \in Nat /\ Consistent(trace.ops)
      /\ \A n \in 1 .. trace.num_ops :
           /\ trace.ops[n].index \in Nat /\ trace.ops[n].size \in Nat
           /\ Allocates(trace.ops[n]) =>
                trace.ops[n].index \in DOMAIN trace.blocks \cap DOMAIN trace.block_sizes
  BY <1>1, TraceFacts
<1>3. Answered(trace.num_ops + 1)
  BY <1>1 DEF MainInv, LaterInv
<1>4. k \in 1 .. trace.num_ops + 1 /\ k \in Nat \ {0}
  BY <1>1, <1>2 DEF BasicInv
<1>5. ASSUME NEW m \in Held(trace.ops, k) PROVE trace.ops[m].index \in DOMAIN trace.block_sizes
  <2>1. m \in 1 .. k - 1 /\ Allocates(trace.ops[m])
    BY <1>4, HeldFacts
  <2>2. m \in 1 .. trace.num_ops
    BY <1>2, <1>4, <2>1
  <2> QED BY <1>2, <2>1, <2>2
<1>6. Stored(trace.ops, k, trace.block_sizes)
  BY <1>5 DEF MainInv, UtilInv, Sizes, Stored
<1> QED BY <1>1, <1>2, <1>3, <1>4, <1>6 DEF BasicInv

(* A request for memory: the load is what the driver takes it for.         *)
LEMMA UtilAllocInv ==
  ASSUME MainInv, UtilAlloc
  PROVE  MainInv'
<1> DEFINE lines == trace.ops
<1>1. /\ pc = "util" /\ k <= trace.num_ops /\ Allocates(op)
      /\ UNCHANGED <<judged, pass, i, replies, ranges, results, timing>>
  BY DEF UtilAlloc
<1>2. PICK a \in Again(k + 1) :
        /\ brk' = a.brk
        /\ IF a.p = NULL THEN pc' = "app_error" /\ UNCHANGED <<trace, total, k>>
           ELSE Remember(a.p) /\ total' = Grown(op.size - oldsize) /\ k' = k + 1 /\ pc' = pc
  BY DEF UtilAlloc, app_error, Exit
<1>3. /\ opt' = opt /\ package' = package /\ pass' = pass /\ i' = i
      /\ replies' = replies /\ ranges' = ranges /\ report' = report /\ stats' = stats
      /\ errors' = errors
  BY <1>1 DEF judged, results
<1>4. /\ FromFile(FileAt(i)) /\ BasicInv /\ pass = "mm"
      /\ lines \in Seq(Request) /\ Len(lines) = trace.num_ops
      /\ trace.num_ops \in Nat /\ Consistent(lines)
      /\ \A n \in 1 .. trace.num_ops :
           /\ lines[n].index \in Nat /\ lines[n].size \in Nat
           /\ Allocates(lines[n]) =>
                lines[n].index \in DOMAIN trace.blocks \cap DOMAIN trace.block_sizes
      /\ Answered(trace.num_ops + 1) /\ replies \in Seq(Answer)
      /\ k \in 1 .. trace.num_ops + 1 /\ k \in Nat \ {0}
      /\ total \in [size : Nat, max : Nat]
      /\ Stored(lines, k, trace.block_sizes)
  BY <1>1, UtilFacts
<1>5. /\ k \in 1 .. trace.num_ops /\ k + 1 \in 1 .. Len(replies) /\ replies[k + 1].p # NULL
      /\ k \in 1 .. Len(lines)
  <2>1. k \in 1 .. trace.num_ops
    BY <1>1, <1>4
  <2>2. k \in 1 .. (trace.num_ops + 1) - 1 /\ k \in 1 .. Len(lines)
    BY <1>4, <2>1
  <2>3. k + 1 \in 1 .. Len(replies)
    BY <1>4, <2>1 DEF Answered
  <2>4. replies[k + 1].p # NULL
    BY <1>1, <1>4, <2>2 DEF Answered, Serves, op
  <2> QED BY <2>1, <2>2, <2>3, <2>4
<1>6. /\ a.brk = replies[k + 1].brk /\ a.brk \in Extents
      /\ a.p = NULL => package = "fickle"
      /\ a.p # NULL => a.p \in Nat
  BY <1>4, <1>5, AgainFacts
<1>7. op = lines[k] /\ op.size \in Nat
      /\ op.index \in DOMAIN trace.blocks /\ op.index \in DOMAIN trace.block_sizes
  BY <1>1, <1>4, <1>5 DEF op
<1>8. /\ brk = replies[k].brk /\ Sizes /\ total.size = Load(lines, k)
      /\ total.max = Max({Load(lines, n) : n \in 1 .. k})
  BY <1>1 DEF MainInv, UtilInv
<1>9. CASE a.p = NULL
  <2>1. pc' = "app_error" /\ trace' = trace /\ total' = total /\ k' = k
    BY <1>2, <1>9
  <2>2. BasicInv'
    BY <1>2, <1>3, <1>4, <1>6, <2>1 DEF BasicInv, Over
  <2>3. FromFile(FileAt(i))'
    BY <1>3, <1>4, <2>1, FileStays
  <2>4. PlaceInv' /\ CountInv' /\ ReportInv'
    BY <1>1, <1>3, <1>6, <1>9, <2>1, <2>3, PassGoesOn DEF Using
  <2> QED BY <2>1, <2>2, <2>4, Elsewhere DEF MainInv
<1>10. CASE a.p # NULL
  <2>1. /\ trace' = [trace EXCEPT !.blocks[op.index] = a.p, !.block_sizes[op.index] = op.size]
        /\ total' = Grown(op.size - oldsize) /\ k' = k + 1 /\ pc' = "util"
    BY <1>1, <1>2, <1>10 DEF Remember
  <2>2. /\ FromFile(FileAt(i))'
        /\ trace'.ops = lines /\ trace'.num_ops = trace.num_ops
        /\ trace'.block_sizes = [trace.block_sizes EXCEPT ![op.index] = op.size]
    BY <1>3, <1>4, <1>6, <1>7, <1>10, <2>1, RememberFacts
  <2>3. total.size + (op.size - oldsize) = Load(lines, k + 1)
    <3>1. CASE op.type = "a"
      <4>1. oldsize = 0
        BY <3>1 DEF oldsize
      <4>2. Load(lines, k + 1) = Load(lines, k) + op.size
        BY <1>4, <1>5, <1>7, <3>1, LoadStep
      <4> QED BY <1>4, <1>7, <1>8, <4>1, <4>2
    <3>2. CASE op.type = "r"
      <4>1. PICK h \in Held(lines, k) :
              /\ lines[h].index = op.index
              /\ Load(lines, k + 1) = Load(lines, k) - lines[h].size + op.size
        BY <1>4, <1>5, <1>7, <3>2, LoadStep
      <4>2. oldsize = lines[h].size
        BY <1>8, <3>2, <4>1 DEF oldsize, Sizes
      <4>3. lines[h].size \in Nat
        <5>1. h \in 1 .. k - 1
          BY <1>4, HeldFacts
        <5>2. h \in 1 .. trace.num_ops
          BY <1>4, <5>1
        <5> QED BY <1>4, <5>2
      <4> QED BY <1>4, <1>7, <1>8, <4>1, <4>2, <4>3
    <3> QED BY <1>1, <3>1, <3>2 DEF Allocates
  <2>4. total'.size = Load(lines, k + 1) /\ total'.max = Max({total.max, Load(lines, k + 1)})
    BY <2>1, <2>3 DEF Grown
  <2>5. total'.max = Max({Load(lines, n) : n \in 1 .. k + 1})
    BY <1>4, <1>5, <1>8, <2>4, LoadsNext
  <2>6. total' \in [size : Nat, max : Nat]
    <3>1. k + 1 \in 1 .. Len(lines) + 1
      BY <1>5
    <3>2. Load(lines, k + 1) \in Nat
      BY <1>4, <3>1, LoadType
    <3>3. total'.max \in Nat
      BY <1>4, <2>5, <3>1, LoadsFacts
    <3>4. total' = [size |-> total'.size, max |-> total'.max]
      BY <2>1 DEF Grown
    <3> QED BY <2>4, <3>2, <3>3, <3>4
  <2>7. BasicInv'
    <3>1. k' \in 1 .. trace'.num_ops + 1
      BY <1>4, <1>5, <2>1, <2>2
    <3> QED BY <1>2, <1>3, <1>4, <1>6, <2>1, <2>6, <3>1 DEF BasicInv, Loaded
  <2>8. PlaceInv' /\ CountInv' /\ ReportInv'
    BY <1>1, <1>3, <2>1, <2>2, PassGoesOn DEF Using
  <2>9. Sizes'
    <3>1. Stored(lines, k + 1, trace'.block_sizes)
      BY <1>1, <1>4, <1>7, <2>2, SizesNext
    <3> QED BY <2>1, <2>2, <3>1 DEF Sizes, Stored
  <2>10. UtilInv'
    BY <1>2, <1>3, <1>6, <2>1, <2>2, <2>4, <2>5, <2>9 DEF UtilInv
  <2>11. LaterInv'
    BY <1>3, <1>4, <2>2 DEF LaterInv, Answered, Serves
  <2>12. ValidInv' /\ TimeInv'
    BY <2>1 DEF ValidInv, TimeInv, UtilisationTrue
  <2> QED BY <2>7, <2>8, <2>10, <2>11, <2>12 DEF MainInv
<1> QED BY <1>9, <1>10

(* A request that gives memory back.                                       *)
LEMMA UtilFreeInv ==
  ASSUME MainInv, UtilFree
  PROVE  MainInv'
<1> DEFINE lines == trace.ops
<1>1. /\ pc = "util" /\ k <= trace.num_ops /\ op.type = "f"
      /\ total' = [total EXCEPT !.size = @ - trace.block_sizes[op.index]]
      /\ k' = k + 1
      /\ UNCHANGED <<judged, pc, progress, replies, ranges, brk, results, timing>>
  BY DEF UtilFree
<1>2. /\ opt' = opt /\ package' = package /\ pass' = pass /\ i' = i /\ trace' = trace
      /\ replies' = replies /\ ranges' = ranges /\ report' = report /\ stats' = stats
      /\ errors' = errors /\ brk' = brk /\ pc' = "util"
  BY <1>1 DEF judged, progress, results
<1>3. /\ FromFile(FileAt(i)) /\ BasicInv /\ pass = "mm"
      /\ lines \in Seq(Request) /\ Len(lines) = trace.num_ops
      /\ trace.num_ops \in Nat /\ Consistent(lines)
      /\ \A n \in 1 .. trace.num_ops : lines[n].index \in Nat /\ lines[n].size \in Nat
      /\ Answered(trace.num_ops + 1) /\ replies \in Seq(Answer)
      /\ k \in 1 .. trace.num_ops + 1 /\ k \in Nat \ {0}
      /\ total \in [size : Nat, max : Nat]
      /\ Stored(lines, k, trace.block_sizes)
  BY <1>1, UtilFacts
<1>4. k \in 1 .. trace.num_ops /\ k \in 1 .. Len(lines) /\ op = lines[k]
      /\ k + 1 \in 1 .. Len(lines) + 1
  BY <1>1, <1>3 DEF op
<1>5. /\ brk = replies[k].brk /\ Sizes /\ total.size = Load(lines, k)
      /\ total.max = Max({Load(lines, n) : n \in 1 .. k})
  BY <1>1 DEF MainInv, UtilInv
<1>6. PICK h \in Held(lines, k) :
        lines[h].index = op.index /\ Load(lines, k + 1) = Load(lines, k) - lines[h].size
  <2>1. PICK h \in Held(lines, k) :
          /\ lines[h].index = op.index
          /\ Load(lines, k + 1) = Load(lines, k) - lines[h].size + 0
    BY <1>1, <1>3, <1>4, LoadStep
  <2>2. h \in 1 .. trace.num_ops
    <3>1. h \in 1 .. k - 1
      BY <1>3, HeldFacts
    <3> QED BY <1>3, <3>1
  <2>3. Load(lines, k) \in Nat /\ lines[h].size \in Nat
    BY <1>3, <1>5, <2>2
  <2>4. Load(lines, k + 1) = Load(lines, k) - lines[h].size
    BY <2>1, <2>3
  <2> QED BY <2>1, <2>4
<1>7. lines[h].size \in Nat /\ trace.block_sizes[op.index] = lines[h].size
  <2>1. h \in 1 .. k - 1
    BY <1>3, HeldFacts
  <2>2. h \in 1 .. trace.num_ops
    BY <1>3, <2>1
  <2> QED BY <1>3, <1>5, <1>6, <2>2 DEF Sizes
<1>8. total'.size = Load(lines, k + 1) /\ total'.max = total.max
  BY <1>1, <1>3, <1>5, <1>6, <1>7
<1>9. Load(lines, k + 1) \in Nat /\ Load(lines, k + 1) <= Load(lines, k)
  <2>1. Load(lines, k + 1) \in Nat
    BY <1>3, <1>4, LoadType
  <2>2. Load(lines, k) \in Nat
    BY <1>3, <1>5
  <2> QED BY <1>6, <1>7, <2>1, <2>2
<1>10. total'.max = Max({Load(lines, n) : n \in 1 .. k + 1})
  <2>1. Load(lines, k) <= total.max
    <3>1. k \in 1 .. Len(lines) + 1 /\ k \in 1 .. k
      BY <1>3
    <3>2. Load(lines, k) \in {Load(lines, n) : n \in 1 .. k}
      BY <3>1
    <3> QED BY <1>3, <1>5, <3>1, <3>2, LoadsFacts
  <2>2. Max({total.max, Load(lines, k + 1)}) =
          IF total.max < Load(lines, k + 1) THEN Load(lines, k + 1) ELSE total.max
    <3>1. total.max \in Int /\ Load(lines, k + 1) \in Int
      BY <1>3, <1>9
    <3> QED BY <3>1, MaxOfTwo
  <2>3. ~(total.max < Load(lines, k + 1))
    BY <1>3, <1>5, <1>9, <2>1
  <2>4. Max({Load(lines, n) : n \in 1 .. k + 1}) =
        Max({Max({Load(lines, n) : n \in 1 .. k}), Load(lines, k + 1)})
    BY <1>3, <1>4, LoadsNext
  <2> QED BY <1>5, <1>8, <2>2, <2>3, <2>4
<1>11. BasicInv'
  <2>1. k' \in 1 .. trace'.num_ops + 1
    BY <1>1, <1>2, <1>3, <1>4
  <2>2. total' \in [size : Nat, max : Nat]
    BY <1>1, <1>3, <1>8, <1>9
  <2> QED BY <1>2, <1>3, <2>1, <2>2 DEF BasicInv, Loaded
<1>12. FromFile(FileAt(i))'
  BY <1>2, <1>3, FileStays
<1>13. PlaceInv' /\ CountInv' /\ ReportInv'
  BY <1>1, <1>2, <1>12, PassGoesOn DEF Using
<1>14. Sizes'
  <2>1. ~Allocates(lines[k])
    BY <1>1, <1>4 DEF Allocates
  <2>2. Stored(lines, k + 1, trace.block_sizes)
    BY <1>3, <2>1, SizesNext
  <2> QED BY <1>1, <1>2, <2>2 DEF Sizes, Stored
<1>15. brk' = replies'[k'].brk
  <2>1. k \in 1 .. (trace.num_ops + 1) - 1 /\ ~Allocates(lines[k])
    BY <1>1, <1>3, <1>4 DEF Allocates
  <2>2. replies[k + 1].brk = replies[k].brk
    BY <1>3, <2>1 DEF Answered, Serves
  <2> QED BY <1>1, <1>2, <1>5, <2>2
<1>16. UtilInv'
  BY <1>1, <1>2, <1>8, <1>10, <1>14, <1>15 DEF UtilInv
<1>17. LaterInv'
  BY <1>2, <1>3 DEF LaterInv, Answered, Serves
<1>18. ValidInv' /\ TimeInv'
  BY <1>2 DEF ValidInv, TimeInv, UtilisationTrue
<1> QED BY <1>11, <1>13, <1>16, <1>17, <1>18 DEF MainInv

(* What is used and how large the heap has become are the trace's.         *)
LEMMA UtilEndInv ==
  ASSUME MainInv, UtilEnd
  PROVE  MainInv'
<1> DEFINE lines == trace.ops
           v == (100 * total.max) \div brk
<1>1. /\ pc = "util" /\ k > trace.num_ops /\ pc' = "time"
      /\ stats' = [stats EXCEPT ![pass][i].util = v]
      /\ UNCHANGED <<judged, progress, heap, errors, report>>
  BY DEF UtilEnd
<1>2. /\ opt' = opt /\ package' = package /\ pass' = pass /\ i' = i /\ trace' = trace
      /\ replies' = replies /\ k' = k /\ ranges' = ranges /\ total' = total /\ brk' = brk
      /\ report' = report /\ errors' = errors
  BY <1>1 DEF judged, progress, heap
<1>3. /\ FromFile(FileAt(i)) /\ BasicInv /\ pass = "mm" /\ Accepted
      /\ lines \in Seq(Request) /\ Len(lines) = trace.num_ops
      /\ trace.num_ops \in Nat /\ Consistent(lines)
      /\ Answered(trace.num_ops + 1) /\ replies \in Seq(Answer)
      /\ k \in 1 .. trace.num_ops + 1 /\ k \in Nat \ {0}
      /\ total \in [size : Nat, max : Nat]
  BY <1>1, UtilFacts
<1>4. /\ pc \in Loaded /\ pc \notin Over /\ pc \notin Early /\ Tried = i - 1 /\ Passing
      /\ PlaceInv /\ CountInv /\ ReportInv
  BY <1>1, InPass DEF Using
<1>5. k = trace.num_ops + 1
  BY <1>1, <1>3
<1>6. brk = Last(replies).brk /\ brk \in Nat \ {0}
  <2>1. k \in 1 .. Len(replies) /\ Len(replies) = k
    BY <1>3, <1>5 DEF Answered
  <2>2. replies[k] \in Answer
    BY <1>3, <2>1
  <2>3. brk = replies[k].brk
    BY <1>1 DEF MainInv, UtilInv
  <2> QED BY <2>1, <2>2, <2>3, DriverAssumption DEF Last, Answer
<1>7. total.max = HighWater /\ total.max \in Nat
  <2>1. total.max = Max({Load(lines, n) : n \in 1 .. k})
    BY <1>1 DEF MainInv, UtilInv
  <2> QED BY <1>3, <1>5, <2>1 DEF HighWater
<1>8. v \in Nat
  <2> DEFINE used == 100 * total.max
  <2>1. used \in Nat
    BY <1>7
  <2>2. used <= used * brk
    BY <1>6, <2>1
  <2> HIDE DEF used
  <2>3. used \div brk \in 0 .. used
    BY <1>6, <2>1, <2>2, ShareBound
  <2>4. used \div brk \in Nat
    BY <2>1, <2>3
  <2> QED BY <2>4 DEF used
<1>9. package = "ideal" => v <= 100
  <2> HAVE package = "ideal"
  <2>1. \A m \in 1 .. k : Load(lines, m) <= replies[k].brk
    BY <1>3, <1>5 DEF Answered
  <2>2. brk = replies[k].brk
    BY <1>1 DEF MainInv, UtilInv
  <2>3. total.max \in {Load(lines, n) : n \in 1 .. k}
    <3>1. k \in 1 .. Len(lines) + 1
      BY <1>3, <1>5
    <3>2. total.max = Max({Load(lines, n) : n \in 1 .. k})
      BY <1>1 DEF MainInv, UtilInv
    <3> QED BY <1>3, <3>1, <3>2, LoadsFacts
  <2>4. total.max <= brk
    BY <2>1, <2>2, <2>3
  <2> DEFINE used == 100 * total.max
  <2>5. used \in Nat /\ used <= 100 * brk
    BY <1>6, <1>7, <2>4
  <2> HIDE DEF used
  <2>6. 100 \in Nat
    OBVIOUS
  <2>7. used \div brk \in 0 .. 100
    BY <1>6, <2>5, <2>6, ShareBound
  <2> QED BY <2>7 DEF used
<1> HIDE DEF v
<1>10. /\ stats' \in StatsType
       /\ \A n \in 1 .. num_tracefiles :
            /\ stats'.mm[n].util = IF n = i THEN v ELSE stats.mm[n].util
            /\ stats'.mm[n].valid = stats.mm[n].valid
  <2>1. pass \in Passes
    BY <1>3 DEF BasicInv
  <2>2. /\ stats' \in StatsType
        /\ \A n \in 1 .. num_tracefiles :
             /\ stats'.mm[n].util = IF pass = "mm" /\ n = i THEN v ELSE stats.mm[n].util
             /\ stats'.mm[n].valid = stats.mm[n].valid
    BY <1>1, <1>3, <1>8, <2>1, StatsField
  <2> QED BY <1>3, <2>2
<1>11. BasicInv'
  BY <1>1, <1>2, <1>3 DEF BasicInv, Loaded
<1>12. FromFile(FileAt(i))'
  BY <1>2, <1>3, FileStays
<1>13. PlaceInv'
  BY <1>1, <1>2, <1>4, <1>10, <1>12, PlaceStays DEF Loaded, Early
<1>14. CountInv'
  <2>1. Tried' = Tried /\ Passing'
    BY <1>1, <1>2, <1>3, <1>4 DEF Tried, Passing
  <2>2. package = "ideal" => \A n \in 1 .. num_tracefiles : stats'.mm[n].util <= 100
    BY <1>4, <1>9, <1>10 DEF CountInv
  <2> QED BY <1>2, <1>3, <1>4, <1>10, <2>1, <2>2, CountKept
<1>15. ReportInv'
  BY <1>1, <1>2, <1>3, <1>4, ReportKept DEF BasicInv
<1>16. TimeInv'
  <2>1. i \in 1 .. num_tracefiles
    BY <1>3 DEF Accepted
  <2>2. stats'.mm[i'].util = v
    BY <1>2, <1>10, <2>1
  <2>3. HighWater' = HighWater
    BY <1>2 DEF HighWater
  <2>4. v = (100 * HighWater') \div brk'
    BY <1>2, <1>7, <2>3 DEF v
  <2>5. package' = "ideal" => stats'.mm[i'].util <= 100
    BY <1>2, <1>9, <2>2
  <2> QED BY <1>2, <1>6, <2>2, <2>4, <2>5 DEF TimeInv, UtilisationTrue
<1>17. LaterInv'
  BY <1>2, <1>3 DEF LaterInv, Answered, Serves
<1>18. ValidInv' /\ UtilInv'
  BY <1>1 DEF ValidInv, UtilInv
<1> QED BY <1>11, <1>13, <1>14, <1>15, <1>16, <1>17, <1>18 DEF MainInv

----------------------------------------------------------------------------
(* eval_mm_valid                                                           *)

(* The package has been through the whole trace.                           *)
LEMMA ValidEndInv ==
  ASSUME MainInv, ValidEnd
  PROVE  MainInv'
<1>1. /\ pc = "valid" /\ k > trace.num_ops /\ pc' = "util_init"
      /\ stats' = [stats EXCEPT ![pass][i].valid = TRUE]
      /\ UNCHANGED <<judged, progress, heap, errors, report>>
  BY DEF ValidEnd
<1>2. /\ opt' = opt /\ package' = package /\ pass' = pass /\ i' = i /\ trace' = trace
      /\ replies' = replies /\ k' = k /\ ranges' = ranges /\ total' = total /\ brk' = brk
      /\ report' = report /\ errors' = errors
  BY <1>1 DEF judged, progress, heap
<1>3. /\ Accepted /\ BasicInv /\ pass = "mm" /\ pc \in Loaded /\ pc \notin Over
      /\ pc \notin Early /\ FromFile(FileAt(i)) /\ Tried = i - 1 /\ ~Passing
      /\ PlaceInv /\ CountInv /\ ReportInv
  BY <1>1, InPass DEF Trying, Using
<1>4. trace.num_ops \in Nat
  BY <1>3, TraceFacts
<1>5. k = trace.num_ops + 1
  BY <1>1, <1>3, <1>4 DEF BasicInv
<1>6. /\ stats' \in StatsType
      /\ \A n \in 1 .. num_tracefiles :
           /\ stats'.mm[n].util = stats.mm[n].util
           /\ stats'.mm[n].valid = IF n = i THEN TRUE ELSE stats.mm[n].valid
  <2>1. pass \in Passes
    BY <1>3 DEF BasicInv
  <2>2. /\ stats' \in StatsType
        /\ \A n \in 1 .. num_tracefiles :
             /\ stats'.mm[n].util = stats.mm[n].util
             /\ stats'.mm[n].valid = IF pass = "mm" /\ n = i THEN TRUE ELSE stats.mm[n].valid
    BY <1>1, <1>3, <2>1, StatsField
  <2> QED BY <1>3, <2>2
<1>7. BasicInv'
  BY <1>1, <1>2, <1>3 DEF BasicInv, Loaded
<1>8. FromFile(FileAt(i))'
  BY <1>2, <1>3, FileStays
<1>9. PlaceInv'
  BY <1>1, <1>2, <1>3, <1>6, <1>8, PlaceStays DEF Loaded, Early
<1>10. CountInv'
  <2>1. num_tracefiles' = num_tracefiles /\ num_tracefiles \in Nat \ {0} /\ i \in 1 .. num_tracefiles
    BY <1>2, <1>3, NamesStay, FileFacts DEF Accepted
  <2>2. Tried' = i - 1 /\ Passing'
    BY <1>1, <1>2, <1>3 DEF Tried, Passing
  <2>3. /\ errors = Cardinality({n \in 1 .. i - 1 : ~stats.mm[n].valid})
        /\ \A n \in i .. num_tracefiles : ~stats.mm[n].valid
        /\ package = "ideal" => \A n \in 1 .. num_tracefiles : stats.mm[n].util <= 100
    <3>1. (i - 1) + 1 = i
      BY <2>1
    <3> QED BY <1>3, <3>1 DEF CountInv
  <2>4. {n \in 1 .. i - 1 : ~stats'.mm[n].valid} = {n \in 1 .. i - 1 : ~stats.mm[n].valid}
    <3>1. \A n \in 1 .. i - 1 : n \in 1 .. num_tracefiles /\ n # i
      BY <2>1
    <3> QED BY <1>6, <3>1
  <2>5. \A n \in i .. num_tracefiles : stats'.mm[n].valid <=> n = i
    <3>1. \A n \in i .. num_tracefiles : n \in 1 .. num_tracefiles
      BY <2>1
    <3> QED BY <1>6, <2>3, <3>1
  <2>6. (i - 1) + 1 = i
    BY <2>1
  <2> QED BY <1>2, <1>3, <1>6, <2>1, <2>2, <2>3, <2>4, <2>5, <2>6 DEF CountInv
<1>11. ReportInv'
  BY <1>1, <1>2, <1>3, ReportKept DEF BasicInv
<1>12. LaterInv'
  BY <1>1, <1>2, <1>5 DEF MainInv, ValidInv, LaterInv, Answered, Serves
<1>13. ValidInv' /\ UtilInv' /\ TimeInv'
  BY <1>1 DEF ValidInv, UtilInv, TimeInv, UtilisationTrue
<1> QED BY <1>7, <1>9, <1>10, <1>11, <1>12, <1>13 DEF MainInv

(* What the steps of the first pass rest on.                               *)
LEMMA ValidFacts ==
  ASSUME MainInv, pc = "valid"
  PROVE  /\ FromFile(FileAt(i)) /\ BasicInv /\ pass = "mm" /\ PlaceInv /\ Accepted
         /\ trace.ops \in Seq(Request) /\ Len(trace.ops) = trace.num_ops
         /\ trace.num_ops \in Nat /\ Consistent(trace.ops)
         /\ DOMAIN trace.ops = 1 .. trace.num_ops
         /\ \A n \in 1 .. trace.num_ops :
              /\ trace.ops[n].index \in Nat /\ trace.ops[n].size \in Nat
              /\ trace.ops[n].type \in {"a", "r", "f"}
              /\ Allocates(trace.ops[n]) =>
                   trace.ops[n].index \in DOMAIN trace.blocks \cap DOMAIN trace.block_sizes
         /\ trace.ops = FileAt(i).lines
         /\ Answered(k) /\ replies \in Seq(Answer) /\ brk = replies[k].brk
         /\ k \in 1 .. trace.num_ops + 1 /\ k \in Nat \ {0}
         /\ brk \in Extents /\ brk \in Nat \ {0} /\ ranges \in Seq(Range_t)
         /\ Stored(trace.ops, k, trace.block_sizes)
<1>1. /\ FromFile(FileAt(i)) /\ BasicInv /\ pass = "mm" /\ PlaceInv /\ Accepted /\ pc \in Loaded
  BY InPass DEF Trying
<1>2. /\ trace.ops \in Seq(Request) /\ Len(trace.ops) = trace.num_ops
      /\ trace.num_ops \in Nat /\ Consistent(trace.ops)
      /\ DOMAIN trace.ops = 1 .. trace.num_ops
      /\ \A n \in 1 .. trace.num_ops :
           /\ trace.ops[n].index \in Nat /\ trace.ops[n].size \in Nat
           /\ trace.ops[n].type \in {"a", "r", "f"}
           /\ Allocates(trace.ops[n]) =>
                trace.ops[n].index \in DOMAIN trace.blocks \cap DOMAIN trace.block_sizes
      /\ trace.ops = FileAt(i).lines
  BY <1>1, TraceFacts
<1>3. Answered(k) /\ brk = replies[k].brk /\ Sizes
  BY DEF MainInv, ValidInv
<1>4. k \in 1 .. trace.num_ops + 1 /\ k \in Nat \ {0}
  BY <1>1, <1>2 DEF BasicInv
<1>5. ASSUME NEW m \in Held(trace.ops, k) PROVE trace.ops[m].index \in DOMAIN trace.block_sizes
  <2>1. m \in 1 .. k - 1 /\ Allocates(trace.ops[m])
    BY <1>4, HeldFacts
  <2>2. m \in 1 .. trace.num_ops
    BY <1>2, <1>4, <2>1
  <2> QED BY <1>2, <2>1, <2>2
<1>6. Stored(trace.ops, k, trace.block_sizes)
  BY <1>3, <1>5 DEF Sizes, Stored
<1>7. brk \in Extents
  <2>1. replies[k] \in Answer
    <3>1. k \in 1 .. Len(replies)
      BY <1>3, <1>4 DEF Answered
    <3> QED BY <1>1, <3>1 DEF BasicInv
  <2> QED BY <1>3, <2>1 DEF Answer
<1>8. brk \in Nat \ {0}
  BY <1>7, DriverAssumption
<1> QED BY <1>1, <1>2, <1>3, <1>4, <1>6, <1>7, <1>8 DEF BasicInv

(* The payload of a block that is held.                                    *)
LEMMA PayloadFacts ==
  ASSUME MainInv, pc = "valid", NEW m \in Held(trace.ops, k)
  PROVE  /\ m \in 1 .. k - 1 /\ m \in 1 .. trace.num_ops
         /\ trace.blocks[trace.ops[m].index] \in Nat
         /\ trace.ops[m].size \in Nat \ {0}
         /\ Payload(m) \in Range_t /\ Payload(m).lo <= Payload(m).hi
         /\ Payload(m).lo = trace.blocks[trace.ops[m].index]
         /\ Payload(m).hi = trace.blocks[trace.ops[m].index] + trace.ops[m].size - 1
<1>1. m \in 1 .. k - 1 /\ m \in 1 .. trace.num_ops
  <2>1. k \in 1 .. trace.num_ops + 1 /\ k \in Nat /\ trace.num_ops \in Nat
    BY ValidFacts
  <2>2. m \in 1 .. k - 1
    BY <2>1, HeldFacts
  <2> QED BY <2>1, <2>2
<1> DEFINE at == trace.blocks[trace.ops[m].index]
           size == trace.ops[m].size
<1>2. at \in Nat /\ size \in Nat \ {0}
  <2>1. at \in Nat /\ size > 0
    BY DEF MainInv, ValidInv
  <2>2. size \in Nat
    BY <1>1, ValidFacts
  <2> QED BY <2>1, <2>2
<1>3. Payload(m) = [lo |-> at, hi |-> at + size - 1]
  BY DEF Payload, Extent
<1> HIDE DEF at, size
<1>4. at + size - 1 \in Nat /\ at <= at + size - 1
  BY <1>2
<1>5. Payload(m) \in Range_t /\ Payload(m).lo = at /\ Payload(m).hi = at + size - 1
  BY <1>2, <1>3, <1>4 DEF Range_t
<1> QED BY <1>1, <1>2, <1>4, <1>5 DEF at, size

(* The extents on the list are those of the blocks, and they are placed.   *)
LEMMA RangesPlaced ==
  ASSUME MainInv, pc = "valid"
  PROVE  /\ ToSet(ranges) = {Payload(m) : m \in Held(trace.ops, k)}
         /\ Len(ranges) = Cardinality(Held(trace.ops, k))
         /\ Placed(ranges, brk)
<1>1. RangesAreLive /\ RangesNested
  BY DEF MainInv, ValidInv
<1>2. /\ ToSet(ranges) = {Payload(m) : m \in Held(trace.ops, k)}
      /\ Len(ranges) = Cardinality(Held(trace.ops, k))
  BY <1>1 DEF RangesAreLive
<1>3. ASSUME NEW n \in DOMAIN ranges PROVE ranges[n].lo <= ranges[n].hi
  <2>1. ranges[n] \in ToSet(ranges)
    BY DEF ToSet
  <2>2. PICK m \in Held(trace.ops, k) : ranges[n] = Payload(m)
    BY <1>2, <2>1
  <2> QED BY <2>2, PayloadFacts
<1>4. Placed(ranges, brk)
  BY <1>1, <1>3 DEF RangesAreLive, RangesNested, Placed
<1> QED BY <1>2, <1>4

(* The blocks that request k does not concern, and the list without the    *)
(* one that it does.                                                       *)
Others == {m \in Held(trace.ops, k) : trace.ops[m].index # op.index}
Rest == IF op.type = "a" THEN ranges ELSE remove_range(ranges, block)

(* That list has their payloads.                                           *)
LEMMA RestFacts ==
  ASSUME MainInv, pc = "valid", k <= trace.num_ops
  PROVE  /\ Rest \in Seq(Range_t) /\ Placed(Rest, brk)
         /\ ToSet(Rest) = {Payload(m) : m \in Others}
         /\ Len(Rest) = Cardinality(Others)
         /\ IsFiniteSet(Others) /\ k \notin Others
         /\ Held(trace.ops, k + 1) = Others \cup IF Allocates(op) THEN {k} ELSE {}
<1> DEFINE lines == trace.ops
           H == Held(lines, k)
<1>1. /\ Consistent(lines) /\ k \in 1 .. trace.num_ops /\ k \in Nat \ {0}
      /\ k \in DOMAIN lines /\ op = lines[k] /\ op.type \in {"a", "r", "f"}
      /\ ranges \in Seq(Range_t) /\ brk \in Nat
  <2>1. k \in 1 .. trace.num_ops
    BY ValidFacts
  <2> QED BY <2>1, ValidFacts DEF op
<1>2. /\ ToSet(ranges) = {Payload(m) : m \in H} /\ Len(ranges) = Cardinality(H)
      /\ Placed(ranges, brk)
  BY RangesPlaced
<1>3. IsFiniteSet(H) /\ \A m \in H : m \in 1 .. k - 1
  BY <1>1, HeldFacts
<1>4. k \notin Others /\ Others \in SUBSET H
  BY <1>1, <1>3 DEF Others
<1>5. IsFiniteSet(Others)
  BY <1>3, <1>4, FS_Subset
<1>6. Held(lines, k + 1) = Others \cup IF Allocates(op) THEN {k} ELSE {}
  <2>1. Held(lines, k + 1) = {m \in Held(lines, k) : lines[m].index # lines[k].index}
                               \cup IF Allocates(lines[k]) THEN {k} ELSE {}
    <3> HIDE DEF lines
    <3> QED BY <1>1, HeldNext
  <2>2. Others = {m \in Held(lines, k) : lines[m].index # lines[k].index}
    BY <1>1 DEF Others
  <2> QED BY <1>1, <2>1, <2>2
<1>7. CASE op.type = "a"
  <2>1. Others = H
    BY <1>1, <1>7, HeldStep DEF Others
  <2>2. Rest = ranges
    BY <1>7 DEF Rest
  <2> QED BY <1>1, <1>2, <1>4, <1>5, <1>6, <2>1, <2>2
<1>8. CASE op.type \in {"r", "f"}
  <2>1. PICK h \in H : lines[h].index = op.index /\ Others = H \ {h}
    BY <1>1, <1>8, HeldStep DEF Others
  <2>2. Payload(h) \in ToSet(ranges)
    BY <1>2
  <2>3. PICK j \in DOMAIN ranges : ranges[j] = Payload(h)
    BY <1>1, <2>2 DEF ToSet
  <2>4. block = ranges[j].lo
    BY <2>1, <2>3, PayloadFacts DEF block
  <2>5. Rest = remove_range(ranges, ranges[j].lo)
    BY <1>8, <2>4 DEF Rest
  <2>6. /\ Rest \in Seq(Range_t) /\ Len(Rest) = Len(ranges) - 1
        /\ ToSet(Rest) = ToSet(ranges) \ {ranges[j]}
        /\ Placed(Rest, brk)
    BY <1>1, <1>2, <2>5, RemoveRange
  <2>7. Cardinality(Others) = Cardinality(H) - 1
    BY <1>3, <2>1, FS_RemoveElement
  <2>8. \A m \in Others : Payload(m) # Payload(h)
    <3> TAKE m \in Others
    <3>1. m \in H /\ m # h
      BY <2>1
    <3>2. trace.blocks[lines[m].index] # trace.blocks[lines[h].index]
      BY <3>1 DEF MainInv, ValidInv
    <3>3. Payload(m).lo # Payload(h).lo
      BY <3>1, <3>2, PayloadFacts
    <3> QED BY <3>3
  <2>9. ToSet(Rest) = {Payload(m) : m \in Others}
    BY <1>2, <2>1, <2>3, <2>6, <2>8
  <2> QED BY <1>2, <1>4, <1>5, <1>6, <2>6, <2>7, <2>9
<1> QED BY <1>1, <1>7, <1>8

(* One answer more.                                                        *)
LEMMA AnsweredNext ==
  ASSUME Answered(k), trace.ops \in Seq(Request), k \in 1 .. Len(trace.ops),
         replies \in Seq(Answer), NEW a \in Answer, replies[k].brk <= a.brk,
         replies' = Append(replies, a), trace'.ops = trace.ops, package' = package, k' = k + 1,
         IF Allocates(trace.ops[k]) THEN a.p # NULL ELSE a.brk = replies[k].brk,
         package = "ideal" => Load(trace.ops, k + 1) <= a.brk
  PROVE  Answered(k)'
<1>1. /\ Len(replies) = k /\ replies[1].p # NULL
      /\ \A n \in 1 .. k - 1 : Serves(n)
      /\ package = "ideal" => \A n \in 1 .. k : Load(trace.ops, n) <= replies[k].brk
      /\ k \in Nat \ {0}
  BY DEF Answered
<1>2. /\ Len(replies') = k + 1 /\ replies'[k + 1] = a
      /\ \A n \in 1 .. k : replies'[n] = replies[n]
  BY <1>1
<1>3. replies'[1].p # NULL
  <2>1. 1 \in 1 .. k
    BY <1>1
  <2> QED BY <1>1, <1>2, <2>1
<1>4. ASSUME NEW n \in 1 .. (k + 1) - 1 PROVE Serves(n)'
  <2>1. CASE n = k
    <3>1. k \in 1 .. k
      BY <1>1
    <3>2. replies'[k] = replies[k]
      BY <1>2, <3>1
    <3> QED BY <1>2, <2>1, <3>2 DEF Serves
  <2>2. CASE n # k
    <3>1. n \in 1 .. k - 1 /\ n \in 1 .. k /\ n + 1 \in 1 .. k
      BY <1>1, <2>2
    <3>2. Serves(n)
      BY <1>1, <3>1
    <3>3. replies'[n] = replies[n] /\ replies'[n + 1] = replies[n + 1]
      BY <1>2, <3>1
    <3> QED BY <3>2, <3>3 DEF Serves
  <2> QED BY <2>1, <2>2
<1>5. ASSUME package = "ideal", NEW n \in 1 .. k + 1
      PROVE  Load(trace.ops, n) <= replies'[k + 1].brk
  <2>1. CASE n = k + 1
    BY <1>2, <1>5, <2>1
  <2>2. CASE n # k + 1
    <3>1. n \in 1 .. k /\ n \in 1 .. Len(trace.ops) + 1 /\ k \in 1 .. Len(replies)
      BY <1>1, <2>2
    <3>2. Load(trace.ops, n) \in Int /\ Load(trace.ops, n) <= replies[k].brk
      BY <1>1, <1>5, <3>1, LoadType
    <3>3. replies[k].brk \in Int /\ a.brk \in Int
      <4>1. replies[k] \in Answer /\ a \in Answer
        BY <3>1
      <4>2. replies[k].brk \in Extents /\ a.brk \in Extents
        BY <4>1 DEF Answer
      <4>3. \A b \in Extents : b \in Int
        BY DriverAssumption
      <4> QED BY <4>2, <4>3
    <3>4. Load(trace.ops, n) <= a.brk
      BY <3>2, <3>3
    <3> QED BY <1>2, <3>4
  <2> QED BY <2>1, <2>2
<1> QED BY <1>2, <1>3, <1>4, <1>5 DEF Answered

(* A block is freed.                                                       *)
LEMMA ValidFreeInv ==
  ASSUME MainInv, ValidFree
  PROVE  MainInv'
<1> DEFINE lines == trace.ops
           a == [p |-> NULL, brk |-> brk, kept |-> TRUE]
<1>1. /\ pc = "valid" /\ k <= trace.num_ops /\ op.type = "f"
      /\ ranges' = remove_range(ranges, block)
      /\ replies' = Append(replies, a)
      /\ k' = k + 1
      /\ UNCHANGED <<judged, pc, progress, brk, total, results, timing>>
  BY DEF ValidFree
<1>2. /\ opt' = opt /\ package' = package /\ pass' = pass /\ i' = i /\ trace' = trace
      /\ total' = total /\ report' = report /\ stats' = stats
      /\ errors' = errors /\ brk' = brk /\ pc' = "valid"
  BY <1>1 DEF judged, progress, results
<1>3. /\ FromFile(FileAt(i)) /\ BasicInv /\ pass = "mm"
      /\ lines \in Seq(Request) /\ Len(lines) = trace.num_ops
      /\ trace.num_ops \in Nat /\ Consistent(lines)
      /\ \A n \in 1 .. trace.num_ops : lines[n].index \in Nat /\ lines[n].size \in Nat
      /\ Answered(k) /\ replies \in Seq(Answer) /\ brk = replies[k].brk
      /\ k \in 1 .. trace.num_ops + 1 /\ k \in Nat \ {0}
      /\ brk \in Extents /\ brk \in Nat \ {0}
      /\ Stored(lines, k, trace.block_sizes)
  BY <1>1, ValidFacts
<1>4. k \in 1 .. trace.num_ops /\ op = lines[k] /\ ~Allocates(op)
  BY <1>1, <1>3 DEF op, Allocates
<1>5. /\ ranges' = Rest /\ Rest \in Seq(Range_t) /\ Placed(Rest, brk)
      /\ ToSet(Rest) = {Payload(m) : m \in Others}
      /\ Len(Rest) = Cardinality(Others)
      /\ Held(lines, k + 1) = Others /\ Others \subseteq Held(lines, k)
  <2>1. ranges' = Rest
    BY <1>1 DEF Rest
  <2> QED BY <1>1, <1>4, <2>1, RestFacts DEF Others
<1>6. /\ replies' \in Seq(Answer) /\ Len(replies') = k + 1
      /\ replies'[k + 1] = a
      /\ \A n \in 1 .. k : replies'[n] = replies[n]
  <2>1. a \in Answer /\ Len(replies) = k
    BY <1>3 DEF Answer, Answered
  <2> HIDE DEF a
  <2> QED BY <1>1, <1>3, <2>1
<1>7. BasicInv'
  <2>1. k' \in 1 .. trace'.num_ops + 1
    BY <1>1, <1>2, <1>3, <1>4
  <2> QED BY <1>2, <1>3, <1>5, <1>6, <2>1 DEF BasicInv, Loaded
<1>8. PlaceInv' /\ CountInv' /\ ReportInv'
  <2>1. FromFile(FileAt(i))'
    BY <1>2, <1>3, FileStays
  <2> QED BY <1>1, <1>2, <2>1, PassGoesOn DEF Trying
<1>9. \A m \in Held(lines, k) : Payload(m)' = Payload(m)
  BY <1>2 DEF Payload
<1>10. RangesAreLive' /\ RangesNested'
  <2>1. ToSet(ranges') = {Payload(m)' : m \in Held(trace'.ops, k')}
    BY <1>1, <1>2, <1>5, <1>9
  <2> QED BY <1>1, <1>2, <1>5, <2>1 DEF RangesAreLive, RangesNested, Placed
<1>11. Answered(k)'
  <2>1. a \in Answer /\ a.brk = replies[k].brk
    BY <1>3 DEF Answer
  <2>2. package = "ideal" => Load(lines, k + 1) <= a.brk
    <3> HAVE package = "ideal"
    <3>1. k \in 1 .. Len(lines) /\ k \in 1 .. Len(lines) + 1 /\ k \in 1 .. k
      BY <1>3, <1>4
    <3>2. PICK h \in Held(lines, k) :
            Load(lines, k + 1) = Load(lines, k) - lines[h].size + 0
      BY <1>1, <1>3, <1>4, <3>1, LoadStep
    <3>3. lines[h].size \in Nat
      BY <1>1, PayloadFacts
    <3>4. Load(lines, k) \in Nat /\ Load(lines, k) <= replies[k].brk
      BY <1>3, <3>1, LoadType DEF Answered
    <3> QED BY <1>3, <2>1, <3>2, <3>3, <3>4
  <2>3. replies[k].brk <= a.brk /\ k \in 1 .. Len(lines)
    BY <1>3, <1>4
  <2> HIDE DEF a
  <2> QED BY <1>1, <1>2, <1>3, <1>4, <2>1, <2>2, <2>3, AnsweredNext
<1>12. Sizes'
  <2>1. Stored(lines, k + 1, trace.block_sizes)
    BY <1>3, <1>4, SizesNext
  <2> QED BY <1>1, <1>2, <2>1 DEF Sizes, Stored
<1>13. ValidInv'
  <2>1. brk' = replies'[k'].brk
    BY <1>1, <1>2, <1>6
  <2>2. Held(trace'.ops, k') \subseteq Held(lines, k)
    BY <1>1, <1>2, <1>5
  <2>3. \A m \in Held(trace'.ops, k') :
          trace'.blocks[trace'.ops[m].index] \in Nat /\ trace'.ops[m].size > 0
    BY <1>1, <1>2, <2>2 DEF MainInv, ValidInv
  <2>4. \A m, l \in Held(trace'.ops, k') :
          m # l => trace'.blocks[trace'.ops[m].index] # trace'.blocks[trace'.ops[l].index]
    BY <1>1, <1>2, <2>2 DEF MainInv, ValidInv
  <2>5. package' = "ideal" =>
          \A m, l \in Held(trace'.ops, k') : m # l => Disjoint(Payload(m)', Payload(l)')
    BY <1>1, <1>2, <1>9, <2>2 DEF MainInv, ValidInv
  <2> QED BY <1>10, <1>11, <1>12, <2>1, <2>3, <2>4, <2>5 DEF ValidInv, Disjoint
<1>14. LaterInv' /\ UtilInv' /\ TimeInv'
  BY <1>2 DEF LaterInv, UtilInv, TimeInv, UtilisationTrue
<1> QED BY <1>7, <1>8, <1>13, <1>14 DEF MainInv

(* What an answer is.                                                      *)
LEMMA AnswerFacts ==
  ASSUME NEW a \in Answers, brk \in Nat
  PROVE  a \in Answer /\ a.brk \in Extents /\ a.brk \in Nat \ {0} /\ brk <= a.brk
<1>1. Max(Extents) \in Nat
  <2>1. Extents \subseteq Int
    BY DriverAssumption
  <2>2. Max(Extents) \in Extents
    BY <2>1, DriverAssumption, Extremes
  <2> QED BY <2>2, DriverAssumption
<1> DEFINE top == Max(Extents)
<1> HIDE DEF top
<1>2. a \in [p : {NULL} \cup 0 .. top, brk : {b \in Extents : b >= brk}, kept : BOOLEAN]
  BY DEF Answers, top
<1>3. top \in Nat
  BY <1>1 DEF top
<1>4. a.p \in {NULL} \cup Nat /\ a.brk \in Extents /\ a.brk >= brk
  BY <1>2, <1>3
<1>5. a \in Answer
  BY <1>2, <1>4 DEF Answer
<1>6. a.brk \in Nat \ {0}
  BY <1>4, DriverAssumption
<1> QED BY <1>4, <1>5, <1>6

(* The extent of a new payload.                                            *)
LEMMA ExtentFacts ==
  ASSUME NEW lo \in Nat, NEW size \in Nat \ {0}
  PROVE  LET r == Extent(lo, size)
         IN  /\ r \in Range_t /\ r.lo = lo /\ r.hi = lo + size - 1 /\ r.lo <= r.hi
<1>1. lo + size - 1 \in Nat /\ lo <= lo + size - 1
  OBVIOUS
<1> QED BY <1>1 DEF Extent, Range_t

(* add_range accepts what an ideal package answers.                        *)
LEMMA IdealAccepted ==
  ASSUME MainInv, pc = "valid", k <= trace.num_ops, op.size \in Nat \ {0},
         NEW a \in Answers, a.p \in Nat, Ideal(a)
  PROVE  add_range(Rest, Extent(a.p, op.size), a.brk)
<1> DEFINE r == Extent(a.p, op.size)
<1>1. r.lo = a.p /\ r.hi = a.p + op.size - 1 /\ a.p % ALIGNMENT = 0
      /\ a.p + op.size <= a.brk
  BY ExtentFacts DEF Ideal
<1>2. a.brk \in Nat
  BY ValidFacts, AnswerFacts
<1>3. Within(r, a.brk)
  BY <1>1, <1>2 DEF Within
<1>4. ASSUME NEW n \in DOMAIN Rest PROVE ~Touches(r, Rest[n])
  <2>1. Rest[n] \in ToSet(Rest)
    BY DEF ToSet
  <2>2. PICK m \in Others : Rest[n] = Payload(m)
    BY <2>1, RestFacts
  <2>3. m \in Held(trace.ops, k) /\ Disjoint(r, Payload(m))
    BY DEF Others, Ideal
  <2>4. Payload(m).lo \in Nat /\ Payload(m).hi \in Nat /\ Payload(m).lo <= Payload(m).hi
    BY <2>3, PayloadFacts DEF Range_t
  <2>5. r.lo \in Nat /\ r.hi \in Nat /\ r.lo <= r.hi
    BY <1>1
  <2> HIDE DEF r
  <2> QED BY <2>2, <2>3, <2>4, <2>5 DEF Disjoint, Touches
<1> QED BY <1>1, <1>3, <1>4 DEF add_range

(* The heap of an ideal package holds the load, the new block included.    *)
LEMMA IdealLoad ==
  ASSUME MainInv, pc = "valid", k <= trace.num_ops, Allocates(op), op.size \in Nat \ {0},
         package = "ideal", NEW a \in Answers, a.p \in Nat, Ideal(a)
  PROVE  Load(trace.ops, k + 1) <= a.brk
<1> DEFINE lines == trace.ops
           w == [m \in DOMAIN lines |-> lines[m].size]
           at == [m \in DOMAIN lines |->
                    IF m = k THEN a.p ELSE trace.blocks[lines[m].index]]
           S == Held(lines, k + 1)
<1>1. /\ brk \in Nat /\ DOMAIN lines = 1 .. trace.num_ops /\ trace.num_ops \in Nat
      /\ k \in 1 .. trace.num_ops /\ k + 1 \in Nat
  BY ValidFacts
<1>2. a.brk \in Nat /\ brk <= a.brk
  BY <1>1, AnswerFacts
<1>3. /\ S = Others \cup {k} /\ k \notin Others /\ IsFiniteSet(Others)
      /\ Others \subseteq Held(lines, k)
  BY RestFacts DEF Others
<1>4. IsFiniteSet(S)
  BY <1>3, FS_AddElement
<1>5. /\ w[k] = op.size /\ at[k] = a.p /\ a.p + op.size <= a.brk
      /\ \A m \in Others : Disjoint(Extent(a.p, op.size), Payload(m))
  BY <1>1 DEF Ideal, op, Others
<1>6. ASSUME NEW m \in Others
      PROVE  /\ w[m] \in Nat /\ at[m] \in Nat /\ at[m] + w[m] <= a.brk
             /\ Payload(m).lo = at[m] /\ Payload(m).hi = at[m] + w[m] - 1
  <2>1. /\ m \in 1 .. trace.num_ops /\ m # k /\ m \in Held(lines, k)
        /\ trace.blocks[lines[m].index] \in Nat /\ lines[m].size \in Nat
        /\ Payload(m).lo = trace.blocks[lines[m].index]
        /\ Payload(m).hi = trace.blocks[lines[m].index] + lines[m].size - 1
    BY <1>3, PayloadFacts
  <2>2. w[m] = lines[m].size /\ at[m] = trace.blocks[lines[m].index]
    BY <1>1, <2>1
  <2>3. Payload(m).hi < brk
    <3>1. Payload(m) \in ToSet(ranges)
      BY <2>1, RangesPlaced
    <3>2. PICK n \in DOMAIN ranges : ranges[n] = Payload(m)
      BY <3>1, ValidFacts DEF ToSet
    <3> QED BY <3>2, RangesPlaced DEF Placed
  <2> QED BY <1>1, <1>2, <2>1, <2>2, <2>3
<1> HIDE DEF w, at
<1>7. \A x \in S : w[x] \in Nat /\ at[x] \in Nat /\ at[x] + w[x] <= a.brk
  BY <1>3, <1>5, <1>6
<1>8. ASSUME NEW x \in S, NEW y \in S, x # y
      PROVE  at[x] + w[x] <= at[y] \/ at[y] + w[y] <= at[x]
  <2>1. /\ w[x] \in Nat /\ at[x] \in Nat /\ w[y] \in Nat /\ at[y] \in Nat
    BY <1>7
  <2>2. ASSUME NEW m \in Others PROVE at[k] + w[k] <= at[m] \/ at[m] + w[m] <= at[k]
    <3>1. /\ Extent(a.p, op.size).lo = at[k] /\ Extent(a.p, op.size).hi = at[k] + w[k] - 1
      BY <1>5, ExtentFacts
    <3>2. /\ w[k] \in Nat /\ at[k] \in Nat /\ w[m] \in Nat /\ at[m] \in Nat
      BY <1>3, <1>7
    <3> QED BY <1>5, <1>6, <3>1, <3>2 DEF Disjoint
  <2>3. CASE x = k
    <3>1. y \in Others
      BY <1>3, <1>8, <2>3
    <3> QED BY <2>2, <2>3, <3>1
  <2>4. CASE y = k
    <3>1. x \in Others
      BY <1>3, <1>8, <2>4
    <3> QED BY <2>2, <2>4, <3>1
  <2>5. CASE x # k /\ y # k
    <3>1. x \in Others /\ y \in Others
      BY <1>3, <2>5
    <3>2. Disjoint(Payload(x), Payload(y))
      BY <1>3, <1>8, <3>1 DEF MainInv, ValidInv
    <3> QED BY <1>6, <2>1, <3>1, <3>2 DEF Disjoint
  <2> QED BY <2>3, <2>4, <2>5
<1>9. SumFunctionOnSet(w, S) <= a.brk
  <2> HIDE DEF S
  <2> QED BY <1>2, <1>4, <1>7, <1>8, Packing
<1> QED BY <1>9 DEF Load, w

(* A block is given out, or the trace turns out not to be valid.           *)
LEMMA ValidAllocInv ==
  ASSUME MainInv, ValidAlloc
  PROVE  MainInv'
<1> DEFINE lines == trace.ops
<1>1. /\ pc = "valid" /\ k <= trace.num_ops /\ Allocates(op)
      /\ UNCHANGED <<judged, pass, i, total, stats, report, timing>>
  BY DEF ValidAlloc
<1>2. (IF op.type = "r" THEN remove_range(ranges, block) ELSE ranges) = Rest
  BY <1>1 DEF Allocates, Rest
<1>3. PICK a \in Answers :
        /\ package = "ideal" => Ideal(a)
        /\ brk' = a.brk
        /\ replies' = Append(replies, a)
        /\ IF a.p = NULL THEN malloc_error /\ UNCHANGED <<ranges, k, trace>>
           ELSE IF op.size = 0 THEN /\ pc' = "assert"
                                    /\ ranges' = Rest /\ UNCHANGED <<errors, k, trace>>
           ELSE IF ~add_range(Rest, Extent(a.p, op.size), a.brk)
           THEN malloc_error /\ ranges' = Rest /\ UNCHANGED <<k, trace>>
           ELSE /\ ranges' = <<Extent(a.p, op.size)>> \o Rest
                /\ IF op.type = "r" /\ ~preserved(a)
                   THEN malloc_error /\ UNCHANGED <<k, trace>>
                   ELSE Remember(a.p) /\ k' = k + 1 /\ UNCHANGED <<errors, pc>>
  BY <1>2 DEF ValidAlloc, Exit
<1> DEFINE r == Extent(a.p, op.size)
<1>4. /\ opt' = opt /\ package' = package /\ pass' = pass /\ i' = i
      /\ total' = total /\ report' = report /\ stats' = stats
  BY <1>1 DEF judged
<1>5. /\ FromFile(FileAt(i)) /\ BasicInv /\ pass = "mm"
      /\ lines \in Seq(Request) /\ Len(lines) = trace.num_ops
      /\ trace.num_ops \in Nat /\ Consistent(lines)
      /\ lines = FileAt(i).lines
      /\ Answered(k) /\ replies \in Seq(Answer) /\ brk = replies[k].brk
      /\ k \in 1 .. trace.num_ops + 1 /\ k \in Nat \ {0}
      /\ brk \in Nat
      /\ Stored(lines, k, trace.block_sizes)
      /\ errors \in Nat /\ ranges \in Seq(Range_t)
  BY <1>1, ValidFacts DEF BasicInv
<1>6. /\ k \in 1 .. trace.num_ops /\ k \in 1 .. Len(lines) /\ op = lines[k]
      /\ op.size \in Nat /\ op.type \in {"a", "r"}
      /\ op.index \in DOMAIN trace.blocks /\ op.index \in DOMAIN trace.block_sizes
  <2>1. k \in 1 .. trace.num_ops
    BY <1>1, <1>5
  <2> QED BY <1>1, <1>5, <2>1, ValidFacts DEF op, Allocates
<1>7. a \in Answer /\ a.brk \in Extents /\ a.brk \in Nat \ {0} /\ brk <= a.brk
  BY <1>5, AnswerFacts
<1>8. /\ Rest \in Seq(Range_t) /\ Placed(Rest, brk)
      /\ ToSet(Rest) = {Payload(m) : m \in Others}
      /\ Len(Rest) = Cardinality(Others)
      /\ IsFiniteSet(Others) /\ k \notin Others
      /\ Held(lines, k + 1) = Others \cup {k}
      /\ Others \subseteq Held(lines, k)
  BY <1>1, RestFacts DEF Others
<1>9. replies' \in Seq(Answer)
  BY <1>3, <1>5, <1>7
<1>10. ASSUME malloc_error, UNCHANGED <<k, trace>>, ranges' \in Seq(Range_t),
              package = "ideal" => Unreadable(FileAt(i))
       PROVE  MainInv'
  <2>1. FromFile(FileAt(i))'
    BY <1>4, <1>5, <1>10, FileStays
  <2>2. errors' \in Nat /\ pc' = "free"
    BY <1>5, <1>10 DEF malloc_error
  <2>3. BasicInv'
    BY <1>3, <1>4, <1>5, <1>7, <1>9, <1>10, <2>2 DEF BasicInv, Loaded
  <2> QED BY <1>1, <1>4, <1>10, <2>1, <2>3, PassFails DEF MainInv, Trying
<1>11. CASE a.p = NULL
  <2>1. malloc_error /\ UNCHANGED <<ranges, k, trace>>
    BY <1>3, <1>11
  <2>2. package # "ideal"
    BY <1>3, <1>11 DEF Ideal
  <2> QED BY <1>5, <1>10, <2>1, <2>2
<1>12. CASE a.p # NULL /\ op.size = 0
  <2>1. pc' = "assert" /\ ranges' = Rest /\ UNCHANGED <<errors, k, trace>>
    BY <1>3, <1>12
  <2>2. FromFile(FileAt(i))'
    BY <1>4, <1>5, <2>1, FileStays
  <2>3. BasicInv'
    BY <1>3, <1>4, <1>5, <1>7, <1>8, <1>9, <2>1 DEF BasicInv, Over
  <2>4. PlaceInv' /\ CountInv' /\ ReportInv'
    BY <1>1, <1>4, <2>1, <2>2, PassGoesOn DEF Trying
  <2> QED BY <2>1, <2>3, <2>4, Elsewhere DEF MainInv
<1>13. CASE a.p # NULL /\ op.size # 0 /\ ~add_range(Rest, r, a.brk)
  <2>1. malloc_error /\ ranges' = Rest /\ UNCHANGED <<k, trace>>
    BY <1>3, <1>13
  <2>2. package # "ideal"
    <3>1. a.p \in Nat /\ op.size \in Nat \ {0}
      BY <1>6, <1>7, <1>13 DEF Answer
    <3> QED BY <1>1, <1>3, <1>13, <3>1, IdealAccepted
  <2> QED BY <1>8, <1>10, <2>1, <2>2
<1>14. CASE a.p # NULL /\ op.size # 0 /\ add_range(Rest, r, a.brk)
  <2>1. /\ a.p \in Nat /\ op.size \in Nat \ {0}
        /\ r \in Range_t /\ r.lo = a.p /\ r.hi = a.p + op.size - 1 /\ r.lo <= r.hi
    <3>1. a.p \in Nat /\ op.size \in Nat \ {0}
      BY <1>6, <1>7, <1>14 DEF Answer
    <3> QED BY <3>1, ExtentFacts
  <2>2. ranges' = <<r>> \o Rest
    BY <1>3, <1>14
  <2>3. Placed(Rest, a.brk)
    <3>1. \A n \in DOMAIN Rest : Rest[n].hi \in Nat
      <4>1. \A n \in DOMAIN Rest : Rest[n] \in Range_t
        BY <1>8
      <4> QED BY <4>1 DEF Range_t
    <3>2. \A n \in DOMAIN Rest : Rest[n].hi < a.brk
      BY <1>5, <1>7, <1>8, <3>1 DEF Placed
    <3> QED BY <1>8, <3>2 DEF Placed
  <2>4. /\ ranges' \in Seq(Range_t) /\ Len(ranges') = Len(Rest) + 1
        /\ ToSet(ranges') = ToSet(Rest) \cup {r}
        /\ Placed(ranges', a.brk)
    <3> HIDE DEF r
    <3>1. a.brk \in Nat
      BY <1>7
    <3> QED BY <1>8, <1>14, <2>1, <2>2, <2>3, <3>1, AddRange
  <2>5. CASE op.type = "r" /\ ~preserved(a)
    <3>1. malloc_error /\ UNCHANGED <<k, trace>>
      BY <1>3, <1>14, <2>5
    <3>2. package = "ideal" => Unreadable(FileAt(i))
      <4> HAVE package = "ideal"
      <4>1. as_char(fill(op.index)) # fill(op.index)
        BY <1>3, <2>5 DEF Ideal, preserved
      <4>2. k \in DOMAIN lines
        BY <1>5, <1>6
      <4> QED BY <1>5, <1>6, <2>5, <4>1, <4>2 DEF Unreadable
    <3> QED BY <1>10, <2>4, <3>1, <3>2
  <2>6. CASE ~(op.type = "r" /\ ~preserved(a))
    <3>1. /\ trace' = [trace EXCEPT !.blocks[op.index] = a.p, !.block_sizes[op.index] = op.size]
          /\ k' = k + 1 /\ errors' = errors /\ pc' = "valid"
      BY <1>1, <1>3, <1>14, <2>6 DEF Remember
    <3>2. /\ FromFile(FileAt(i))'
          /\ trace'.ops = lines /\ trace'.num_ops = trace.num_ops
          /\ trace'.blocks = [trace.blocks EXCEPT ![op.index] = a.p]
          /\ trace'.block_sizes = [trace.block_sizes EXCEPT ![op.index] = op.size]
      BY <1>4, <1>5, <1>6, <2>1, <3>1, RememberFacts
    <3>3. BasicInv'
      <4>1. k' \in 1 .. trace'.num_ops + 1
        BY <1>5, <1>6, <3>1, <3>2
      <4> QED BY <1>3, <1>4, <1>5, <1>7, <1>9, <2>4, <3>1, <4>1 DEF BasicInv, Loaded
    <3>4. PlaceInv' /\ CountInv' /\ ReportInv'
      BY <1>1, <1>4, <3>1, <3>2, PassGoesOn DEF Trying
    <3>5. Answered(k)'
      <4>1. package = "ideal" => Load(lines, k + 1) <= a.brk
        BY <1>1, <1>3, <2>1, IdealLoad
      <4>2. replies[k].brk <= a.brk /\ Allocates(lines[k])
        BY <1>1, <1>5, <1>6, <1>7
      <4> QED BY <1>3, <1>4, <1>5, <1>6, <1>7, <1>14, <3>1, <3>2, <4>1, <4>2, AnsweredNext
    <3>6. Sizes'
      <4>1. Stored(lines, k + 1, trace'.block_sizes)
        BY <1>1, <1>5, <1>6, <3>2, SizesNext
      <4> QED BY <3>1, <3>2, <4>1 DEF Sizes, Stored
    <3>7. ASSUME NEW m \in Others
          PROVE  /\ lines[m].index # op.index /\ m \in Held(lines, k)
                 /\ trace'.blocks[lines[m].index] = trace.blocks[lines[m].index]
                 /\ Payload(m)' = Payload(m)
      BY <1>8, <3>2 DEF Others, Payload
    <3>8. trace'.blocks[lines[k].index] = a.p /\ \A m : m = k => Payload(m)' = r
      <4>1. trace'.blocks[lines[k].index] = a.p /\ lines[k].size = op.size
        BY <1>6, <3>2
      <4> QED BY <3>2, <4>1 DEF Payload
    <3>9. ToSet(ranges') = {Payload(m)' : m \in Held(lines, k + 1)}
      <4> HIDE DEF r
      <4>1. ToSet(Rest) = {Payload(m)' : m \in Others}
        BY <1>8, <3>7
      <4>2. {Payload(m)' : m \in Others \cup {k}} = {Payload(m)' : m \in Others} \cup {r}
        BY <3>8
      <4> QED BY <1>8, <2>4, <4>1, <4>2
    <3>10. Len(ranges') = Cardinality(Held(lines, k + 1))
      BY <1>8, <2>4, FS_AddElement
    <3>11. RangesAreLive' /\ RangesNested'
      <4>1. ToSet(ranges') = {Payload(m)' : m \in Held(trace'.ops, k')}
        BY <3>1, <3>2, <3>9
      <4> QED BY <1>3, <2>4, <3>1, <3>2, <3>10, <4>1
              DEF RangesAreLive, RangesNested, Placed
    <3>12. \A m \in Held(lines, k + 1) :
             trace'.blocks[lines[m].index] \in Nat /\ lines[m].size > 0
      <4>1. \A m \in Others : trace'.blocks[lines[m].index] \in Nat /\ lines[m].size > 0
        BY <1>1, <3>7 DEF MainInv, ValidInv
      <4>2. trace'.blocks[lines[k].index] \in Nat /\ lines[k].size > 0
        BY <1>6, <2>1, <3>8
      <4> QED BY <1>8, <4>1, <4>2
    <3>13. ASSUME NEW m \in Others PROVE trace'.blocks[lines[m].index] # a.p
      <4>1. Payload(m) \in ToSet(Rest)
        BY <1>8
      <4>2. PICK n \in DOMAIN Rest : Rest[n] = Payload(m)
        BY <1>8, <4>1 DEF ToSet
      <4>3. ~Touches(r, Payload(m))
        BY <1>14, <4>2 DEF add_range
      <4>4. /\ Payload(m).lo \in Nat /\ Payload(m).hi \in Nat
            /\ Payload(m).lo <= Payload(m).hi
            /\ Payload(m).lo = trace.blocks[lines[m].index]
        BY <1>1, <3>7, PayloadFacts DEF Range_t
      <4>5. Payload(m).lo # r.lo
        BY <4>3, <4>4 DEF Touches
      <4> QED BY <2>1, <3>7, <4>4, <4>5
    <3>14. \A m, l \in Held(lines, k + 1) :
             m # l => trace'.blocks[lines[m].index] # trace'.blocks[lines[l].index]
      <4>1. \A m, l \in Others :
              m # l => trace'.blocks[lines[m].index] # trace'.blocks[lines[l].index]
        BY <1>1, <3>7 DEF MainInv, ValidInv
      <4> QED BY <1>8, <3>8, <3>13, <4>1
    <3>15. package = "ideal" =>
             \A m, l \in Held(lines, k + 1) : m # l => Disjoint(Payload(m)', Payload(l)')
      <4> HAVE package = "ideal"
      <4>1. \A m, l \in Others : m # l => Disjoint(Payload(m)', Payload(l)')
        BY <1>1, <3>7 DEF MainInv, ValidInv
      <4>2. \A m \in Others : Disjoint(r, Payload(m)')
        BY <1>3, <3>7 DEF Ideal
      <4>3. \A m \in Others : Disjoint(Payload(m)', r)
        BY <4>2 DEF Disjoint
      <4> TAKE m, l \in Held(lines, k + 1)
      <4> HIDE DEF r
      <4>4. CASE m \in Others /\ l \in Others
        BY <4>1, <4>4
      <4>5. CASE m = k /\ l \in Others
        BY <3>8, <4>2, <4>5
      <4>6. CASE m \in Others /\ l = k
        BY <3>8, <4>3, <4>6
      <4> QED BY <1>8, <4>4, <4>5, <4>6
    <3>16. ValidInv'
      <4>1. brk' = replies'[k'].brk
        <5>1. Len(replies) = k
          BY <1>5 DEF Answered
        <5> QED BY <1>3, <1>5, <1>7, <3>1, <5>1
      <4> QED BY <1>4, <3>1, <3>2, <3>5, <3>6, <3>11, <3>12, <3>14, <3>15, <4>1
              DEF ValidInv, Disjoint
    <3>17. LaterInv' /\ UtilInv' /\ TimeInv'
      BY <3>1 DEF LaterInv, UtilInv, TimeInv, UtilisationTrue
    <3> QED BY <3>3, <3>4, <3>16, <3>17 DEF MainInv
  <2> QED BY <2>5, <2>6
<1> QED BY <1>11, <1>12, <1>13, <1>14

(* Nothing happens.                                                        *)
LEMMA IdleInv ==
  ASSUME MainInv, UNCHANGED vars
  PROVE  MainInv'
<1>1. /\ package' = package /\ opt' = opt /\ pc' = pc /\ pass' = pass /\ i' = i
      /\ trace' = trace /\ replies' = replies /\ k' = k /\ ranges' = ranges /\ brk' = brk
      /\ total' = total /\ stats' = stats /\ errors' = errors /\ report' = report
  BY DEF vars, judged, progress, heap, results
<1>2. BasicInv'
  BY <1>1 DEF MainInv, BasicInv
<1>3. FileAt(i)' = FileAt(i) /\ \A n : FileAt(n)' = FileAt(n)
  BY <1>1 DEF FileAt, Names, NamesFor
<1>4. num_tracefiles' = num_tracefiles
  BY <1>1, NamesStay
<1>5. PlaceInv'
  <2>1. (FromFile(FileAt(i)) <=> FromFile(FileAt(i))') /\ (Accepted <=> Accepted')
        /\ (Fresh <=> Fresh')
    BY <1>1, <1>3, <1>4 DEF FromFile, Accepted, Fresh
  <2> QED BY <1>1, <2>1 DEF MainInv, PlaceInv
<1>6. /\ Answered(k)' <=> Answered(k)
      /\ Answered(trace.num_ops + 1)' <=> Answered(trace.num_ops + 1)
      /\ Sizes' <=> Sizes
  BY <1>1 DEF Answered, Serves, Sizes
<1>7. /\ (RangesAreLive' <=> RangesAreLive) /\ (RangesNested' <=> RangesNested)
      /\ \A m : Payload(m)' = Payload(m)
  BY <1>1 DEF RangesAreLive, RangesNested, Disjoint, Payload
<1>8. ValidInv' /\ LaterInv' /\ UtilInv'
  BY <1>1, <1>6, <1>7 DEF MainInv, ValidInv, LaterInv, UtilInv, Disjoint
<1>9. TimeInv'
  BY <1>1 DEF MainInv, TimeInv, UtilisationTrue, HighWater
<1>10. CountInv'
  BY <1>1, <1>4 DEF MainInv, CountInv, Tried, Passing
<1>11. ReportInv'
  BY <1>1, <1>3, <1>4 DEF MainInv, ReportInv, CountsAddUp, Unreadable
<1> QED BY <1>2, <1>5, <1>8, <1>9, <1>10, <1>11 DEF MainInv

----------------------------------------------------------------------------
(* The verdict                                                             *)

(* An answer that the driver accepts serves the request well.              *)
LEMMA AnswerServes ==
  ASSUME MainInv, VerdictInv, ValidAlloc, pc' = "valid"
  PROVE  VerdictInv'
<1> DEFINE lines == trace.ops
<1>1. /\ pc = "valid" /\ k <= trace.num_ops /\ Allocates(op)
  BY DEF ValidAlloc
<1>2. (IF op.type = "r" THEN remove_range(ranges, block) ELSE ranges) = Rest
  BY <1>1 DEF Allocates, Rest
<1>3. PICK a \in Answers :
        /\ brk' = a.brk
        /\ replies' = Append(replies, a)
        /\ a.p # NULL /\ op.size # 0 /\ add_range(Rest, Extent(a.p, op.size), a.brk)
        /\ ~(op.type = "r" /\ ~preserved(a))
        /\ Remember(a.p) /\ k' = k + 1
  BY <1>2 DEF ValidAlloc, Exit, malloc_error
<1>4. /\ FromFile(FileAt(i)) /\ replies \in Seq(Answer) /\ Len(replies) = k
      /\ k \in 1 .. trace.num_ops /\ k \in Nat \ {0} /\ brk \in Nat
      /\ op = lines[k] /\ op.size \in Nat /\ op.type \in {"a", "r"}
      /\ op.index \in DOMAIN trace.blocks /\ op.index \in DOMAIN trace.block_sizes
      /\ Consistent(lines) /\ k \in DOMAIN lines
  <2>1. k \in 1 .. trace.num_ops
    BY <1>1, ValidFacts
  <2> QED BY <1>1, <2>1, ValidFacts DEF op, Allocates, Answered
<1>5. a \in Answer /\ a.brk \in Nat
  BY <1>4, AnswerFacts
<1>6. a.p \in Nat /\ op.size \in Nat \ {0}
  BY <1>3, <1>4, <1>5 DEF Answer
<1> DEFINE r == Extent(a.p, op.size)
<1>7. r \in Range_t /\ r.lo = a.p /\ r.hi = a.p + op.size - 1 /\ r.lo <= r.hi
  BY <1>6, ExtentFacts
<1>8. /\ trace'.ops = lines /\ trace'.blocks = [trace.blocks EXCEPT ![op.index] = a.p]
  <2>1. UNCHANGED <<opt, i>>
    BY DEF ValidAlloc, judged
  <2> QED BY <1>3, <1>4, <1>6, <2>1, RememberFacts DEF Remember
<1>9. /\ replies'[k + 1] = a
      /\ \A n \in 1 .. k : replies'[n] = replies[n]
  BY <1>3, <1>4, <1>5
<1>10. /\ Held(lines, k + 1) = Others \cup {k} /\ Rest \in Seq(Range_t)
       /\ ToSet(Rest) = {Payload(m) : m \in Others}
  BY <1>1, RestFacts
<1>11. ASSUME NEW m \in Held(lines, k)
       PROVE  m \in 1 .. k - 1 /\ m + 1 \in 1 .. k
              /\ replies'[m + 1] = replies[m + 1] /\ Given(m)' = Given(m)
              /\ Payload(m) = Given(m)
  <2>1. m \in 1 .. k - 1 /\ m + 1 \in 1 .. k
    BY <1>1, <1>4, PayloadFacts
  <2>2. trace.blocks[lines[m].index] = replies[m + 1].p
    BY <1>1 DEF VerdictInv
  <2>3. replies'[m + 1] = replies[m + 1]
    BY <1>9, <2>1
  <2>4. Given(m)' = Given(m)
    BY <1>8, <2>3 DEF Given
  <2>5. Payload(m) = Given(m)
    BY <2>2 DEF Given, Payload
  <2> QED BY <2>1, <2>3, <2>4, <2>5
<1>12. ASSUME NEW n, n = k PROVE Given(n)' = r
  BY <1>4, <1>8, <1>9, <1>12 DEF Given
<1>13. ASSUME NEW n, n = k PROVE WellServed(n)'
  <2>1. replies'[k + 1].p # NULL
    BY <1>3, <1>9
  <2>2. r.lo % ALIGNMENT = 0 /\ 0 <= r.lo /\ r.hi < a.brk
    <3>1. r.lo % ALIGNMENT = 0 /\ {r.lo, r.hi} \subseteq 0 .. a.brk - 1
      BY <1>3 DEF add_range, Within
    <3>2. r.lo \in 0 .. a.brk - 1 /\ r.hi \in 0 .. a.brk - 1
      BY <3>1
    <3> HIDE DEF r
    <3> QED BY <1>5, <3>1, <3>2
  <2>3. lines[k].type = "r" => a.kept
    <3> HAVE lines[k].type = "r"
    <3>1. op.type = "r" /\ preserved(a)
      BY <1>3, <1>4
    <3>2. PICK h \in Held(lines, k) : lines[h].index = op.index
      BY <1>4, <3>1 DEF Consistent
    <3>3. trace.block_sizes[op.index] = lines[h].size /\ lines[h].size \in Nat \ {0}
      <4>1. Sizes
        BY <1>1 DEF MainInv, ValidInv
      <4> QED BY <1>1, <3>2, <4>1, PayloadFacts DEF Sizes
    <3>4. Min({op.size, trace.block_sizes[op.index]}) # 0
      <4>1. op.size \in Int /\ lines[h].size \in Int
        BY <1>6, <3>3
      <4>2. Min({op.size, lines[h].size}) \in {op.size, lines[h].size}
        BY <4>1, MinOfTwo
      <4> QED BY <1>6, <3>3, <4>2
    <3> QED BY <3>1, <3>4 DEF preserved
  <2>4. ASSUME NEW m \in Held(lines, k), lines[m].index # lines[k].index
        PROVE  {r.lo, r.hi} \cap Given(m).lo .. Given(m).hi = {}
    <3>1. m \in Others
      BY <1>4, <2>4 DEF Others
    <3>2. Payload(m) \in ToSet(Rest)
      BY <1>10, <3>1
    <3>3. PICK e \in DOMAIN Rest : Rest[e] = Payload(m)
      BY <1>10, <3>2 DEF ToSet
    <3>4. ~Touches(r, Payload(m))
      BY <1>3, <3>3 DEF add_range
    <3>5. Payload(m) = Given(m)
      BY <1>11
    <3> HIDE DEF r
    <3> QED BY <3>4, <3>5 DEF Touches
  <2>5. \A m \in Held(lines, k) :
          lines[m].index # lines[k].index =>
            {r.lo, r.hi} \cap Given(m)'.lo .. Given(m)'.hi = {}
    BY <1>11, <2>4
  <2> HIDE DEF r
  <2>6. replies'[n + 1] = a /\ Given(n)' = r
    BY <1>9, <1>12, <1>13
  <2> QED BY <1>3, <1>8, <1>13, <2>2, <2>3, <2>5, <2>6 DEF WellServed
<1>14. ASSUME NEW n \in 1 .. k - 1, Allocates(lines[n]) PROVE WellServed(n)'
  <2>1. WellServed(n)
    BY <1>1, <1>14 DEF VerdictInv
  <2>2. n \in Nat /\ n + 1 \in 1 .. k
    BY <1>4
  <2>3. \A m \in Held(lines, n) : m + 1 \in 1 .. k
    <3> TAKE m \in Held(lines, n)
    <3>1. m \in 1 .. n - 1
      BY <2>2, HeldFacts
    <3> QED BY <1>4, <2>2, <3>1
  <2>4. Given(n)' = Given(n) /\ \A m \in Held(lines, n) : Given(m)' = Given(m)
    BY <1>8, <1>9, <2>2, <2>3 DEF Given
  <2>5. replies'[n + 1] = replies[n + 1]
    BY <1>9, <2>2
  <2> QED BY <1>8, <2>1, <2>4, <2>5 DEF WellServed
<1>15. ASSUME NEW n \in 1 .. k' - 1, Allocates(trace'.ops[n]) PROVE WellServed(n)'
  <2>1. n = k \/ n \in 1 .. k - 1
    BY <1>3, <1>4
  <2> QED BY <1>8, <1>13, <1>14, <1>15, <2>1
<1>16. ASSUME NEW m \in Held(trace'.ops, k')
       PROVE  trace'.blocks[trace'.ops[m].index] = replies'[m + 1].p
  <2>1. m \in Others \/ m = k
    BY <1>3, <1>8, <1>10
  <2>2. CASE m = k
    BY <1>4, <1>8, <1>9, <2>2
  <2>3. CASE m \in Others
    <3>1. m \in Held(lines, k) /\ lines[m].index # op.index
      BY <2>3 DEF Others
    <3>2. trace.blocks[lines[m].index] = replies[m + 1].p
      BY <1>1, <3>1 DEF VerdictInv
    <3> QED BY <1>8, <1>11, <3>1, <3>2
  <2> QED BY <2>1, <2>2, <2>3
<1>17. VerdictTrue'
  BY DEF VerdictTrue
<1> QED BY <1>15, <1>16, <1>17 DEF VerdictInv

(* Memory that is given back changes nothing of that.                      *)
LEMMA FreeServes ==
  ASSUME MainInv, VerdictInv, ValidFree
  PROVE  VerdictInv'
<1> DEFINE lines == trace.ops
           a == [p |-> NULL, brk |-> brk, kept |-> TRUE]
<1>1. /\ pc = "valid" /\ pc' = "valid" /\ k <= trace.num_ops /\ op.type = "f"
      /\ trace' = trace /\ k' = k + 1 /\ replies' = Append(replies, a)
  BY DEF ValidFree, progress
<1>2. /\ replies \in Seq(Answer) /\ Len(replies) = k /\ k \in Nat \ {0} /\ op = lines[k]
      /\ brk \in Extents
  BY <1>1, ValidFacts DEF op, Answered
<1>3. ~Allocates(op)
  BY <1>1 DEF Allocates
<1>4. \A n \in 1 .. k : replies'[n] = replies[n]
  <2>1. a \in Answer
    BY <1>2 DEF Answer
  <2> HIDE DEF a
  <2> QED BY <1>1, <1>2, <2>1
<1>5. Held(lines, k + 1) = Others /\ Others \subseteq Held(lines, k)
  BY <1>1, <1>3, RestFacts DEF Others
<1>6. ASSUME NEW n \in 1 .. k' - 1, Allocates(trace'.ops[n]) PROVE WellServed(n)'
  <2>1. n \in 1 .. k - 1
    BY <1>1, <1>2, <1>3, <1>6
  <2>2. WellServed(n)
    BY <1>1, <1>6, <2>1 DEF VerdictInv
  <2>3. n \in Nat /\ n + 1 \in 1 .. k
    BY <1>2, <2>1
  <2>4. \A m \in Held(lines, n) : m + 1 \in 1 .. k
    <3> TAKE m \in Held(lines, n)
    <3>1. m \in 1 .. n - 1
      BY <2>3, HeldFacts
    <3> QED BY <1>2, <2>3, <3>1
  <2>5. Given(n)' = Given(n) /\ \A m \in Held(lines, n) : Given(m)' = Given(m)
    BY <1>1, <1>4, <2>3, <2>4 DEF Given
  <2> QED BY <1>1, <1>4, <2>2, <2>3, <2>5 DEF WellServed
<1>7. ASSUME NEW m \in Held(trace'.ops, k')
      PROVE  trace'.blocks[trace'.ops[m].index] = replies'[m + 1].p
  <2>1. m \in Held(lines, k)
    BY <1>1, <1>5
  <2>2. trace.blocks[lines[m].index] = replies[m + 1].p
    BY <1>1, <2>1 DEF VerdictInv
  <2>3. m + 1 \in 1 .. k
    <3>1. m \in 1 .. k - 1
      BY <1>2, <2>1, HeldFacts
    <3> QED BY <1>2, <3>1
  <2> QED BY <1>1, <1>4, <2>2, <2>3
<1>8. VerdictTrue'
  BY <1>1 DEF VerdictTrue
<1> QED BY <1>6, <1>7, <1>8 DEF VerdictInv

(* The verdict is passed when every request has been served.               *)
LEMMA EndServes ==
  ASSUME MainInv, VerdictInv, ValidEnd
  PROVE  VerdictInv'
<1>1. /\ pc = "valid" /\ pc' = "util_init" /\ k > trace.num_ops
      /\ trace' = trace /\ replies' = replies
  BY DEF ValidEnd, progress, heap
<1>2. k \in 1 .. trace.num_ops + 1 /\ trace.num_ops \in Nat
      /\ DOMAIN trace.ops = 1 .. trace.num_ops
  BY <1>1, ValidFacts
<1>3. \A n \in DOMAIN trace.ops : n \in 1 .. k - 1
  BY <1>1, <1>2
<1>4. \A n : WellServed(n)' <=> WellServed(n)
  BY <1>1 DEF WellServed, Given
<1>5. VerdictTrue'
  BY <1>1, <1>3, <1>4 DEF VerdictInv, VerdictTrue
<1> QED BY <1>1, <1>5 DEF VerdictInv

LEMMA VerdictStep == MainInv /\ VerdictInv /\ [Next]_vars => VerdictInv'
<1> SUFFICES ASSUME MainInv, VerdictInv, [Next]_vars PROVE VerdictInv'
  OBVIOUS
<1>1. CASE pc' \notin {"valid", "util_init"}
  BY <1>1 DEF VerdictInv, VerdictTrue
<1>2. CASE InitValid /\ pc' \in {"valid", "util_init"}
  <2>1. k' = 1 /\ pc' # "util_init"
    BY <1>2 DEF InitValid, malloc_error
  <2>2. Held(trace'.ops, k') = {}
    BY <2>1, HeldFirst
  <2>3. \A n : n \notin 1 .. k' - 1
    BY <2>1
  <2> QED BY <2>1, <2>2, <2>3 DEF VerdictInv, VerdictTrue
<1>3. CASE ValidAlloc /\ pc' \in {"valid", "util_init"}
  <2>1. pc' = "valid"
    BY <1>3 DEF ValidAlloc, malloc_error, Exit
  <2> QED BY <1>3, <2>1, AnswerServes
<1>4. CASE ValidFree \/ ValidEnd
  BY <1>4, FreeServes, EndServes
<1>5. CASE UNCHANGED vars
  <2>1. pc' = pc /\ trace' = trace /\ replies' = replies /\ k' = k
    BY <1>5 DEF vars, progress, heap
  <2>2. \A n : WellServed(n)' <=> WellServed(n)
    BY <2>1 DEF WellServed, Given
  <2> QED BY <2>1, <2>2 DEF VerdictInv, VerdictTrue
<1>6. CASE Start \/ read_trace \/ eval_libc_valid \/ eval_mm_util \/ Measure \/ SpeedFails
           \/ TimeEnd \/ free_trace \/ Report
  <2>1. CASE Measure
    BY <2>1, <1>1 DEF Measure
  <2>2. CASE ~Measure
    BY <1>1, <1>6, <2>2
       DEF Start, read_trace, ReadOutcomes, eval_libc_valid, eval_mm_util, InitUtil, UtilAlloc,
           UtilFree, UtilEnd, SpeedFails, TimeEnd, free_trace, Report, Exit, app_error
  <2> QED BY <2>1, <2>2
<1> QED BY <1>2, <1>3, <1>4, <1>5, <1>6, <1>1 DEF Next, eval_mm_valid

----------------------------------------------------------------------------
(* The invariant, and what follows from it                                 *)

(* It holds when main starts.                                              *)
LEMMA InitInv == Init => IInv
<1> SUFFICES ASSUME Init PROVE IInv
  OBVIOUS
<1>1. /\ pc = "start" /\ pass = "mm" /\ trace = NoTrace /\ replies = <<>> /\ k = 1
      /\ ranges = <<>> /\ brk = 0 /\ total = NoTotal /\ errors = 0
      /\ stats = [p \in {"libc", "mm"} |-> <<>>]
      /\ report = [libc |-> {}, mm |-> {}, errors |-> 0, correct |-> 0, perfidx |-> 0]
      /\ package \in {"ideal", "steady", "fickle"} /\ TimingInit
  BY DEF Init
<1>2. BasicInv
  <2>1. k \in 1 .. trace.num_ops + 1
    BY <1>1 DEF NoTrace
  <2>2. total \in [size : Nat, max : Nat]
    BY <1>1 DEF NoTotal
  <2> QED BY <1>1, <2>1, <2>2 DEF BasicInv, Passes, Early
<1>3. PlaceInv
  <2>1. Fresh /\ stats.mm = <<>>
    BY <1>1 DEF Fresh
  <2> QED BY <1>1, <2>1 DEF PlaceInv, Early, Loaded
<1>4. ValidInv /\ LaterInv /\ UtilInv /\ TimeInv /\ VerdictInv
  BY <1>1 DEF ValidInv, LaterInv, UtilInv, TimeInv, UtilisationTrue, VerdictInv, VerdictTrue
<1>5. CountInv
  BY <1>1 DEF CountInv, Early
<1>6. ReportInv
  BY <1>1 DEF ReportInv, CountsAddUp
<1>7. TimingInv
  <2>1. SamplerEmpty
    BY <1>1 DEF TimingInit, SamplerEmpty, Cpts
  <2> QED BY <2>1, EmptyIsBest
<1> QED BY <1>2, <1>3, <1>4, <1>5, <1>6, <1>7 DEF IInv, MainInv

(* Every step of the driver preserves it.                                  *)
LEMMA StepInv == IInv /\ [Next]_vars => IInv'
<1> SUFFICES ASSUME IInv, [Next]_vars PROVE IInv'
  OBVIOUS
<1>1. MainInv /\ TimingInv /\ VerdictInv
  BY DEF IInv
<1>2. TimingInv'
  BY <1>1, TimingStep
<1>3. MainInv'
  <2>1. CASE Start \/ Report
    BY <1>1, <2>1, StartInv, ReportActionInv
  <2>2. CASE read_trace \/ free_trace
    BY <1>1, <2>2, ReadTraceInv, FreeTraceInv
  <2>3. CASE eval_libc_valid
    BY <1>1, <2>3, LibcValidInv
  <2>4. CASE eval_mm_valid
    BY <1>1, <2>4, InitValidInv, ValidAllocInv, ValidFreeInv, ValidEndInv DEF eval_mm_valid
  <2>5. CASE eval_mm_util
    BY <1>1, <2>5, InitUtilInv, UtilAllocInv, UtilFreeInv, UtilEndInv DEF eval_mm_util
  <2>6. CASE Measure \/ SpeedFails
    BY <1>1, <2>6, MeasureInv, SpeedFailsInv
  <2>7. CASE TimeEnd
    BY <1>1, <2>7, TimeEndInv
  <2>8. CASE UNCHANGED vars
    BY <1>1, <2>8, IdleInv
  <2> QED BY <2>1, <2>2, <2>3, <2>4, <2>5, <2>6, <2>7, <2>8 DEF Next
<1>4. VerdictInv'
  BY <1>1, VerdictStep
<1> QED BY <1>2, <1>3, <1>4 DEF IInv

(* So it holds in every state that the driver can be in.                   *)
THEOREM Invariance == Spec => []IInv
  BY InitInv, StepInv, PTL DEF Spec

(* The variables of the driver and of its clocks have their types; there   *)
(* are never more errors than traces, but for libc's.                      *)
THEOREM TypeCorrect == Spec => []TypeOK
<1>1. IInv => TypeOK
  <2> SUFFICES ASSUME IInv PROVE TypeOK
    OBVIOUS
  <2>1. BasicInv /\ PlaceInv /\ CountInv /\ TimingInv
    BY DEF IInv, MainInv
  <2>2. TimingTypeOK
    <3>1. \A e \in Events : e.cycles \div e.ticks \in Nat
      <4>1. \A e \in Events : e.cycles \in Nat /\ e.ticks \in Nat \ {0}
        BY TimingAssumption
      <4> QED BY <4>1
    <3>2. cyc_per_tick \in Nat
      BY <2>1, <3>1 DEF TimingInv, Cpts
    <3>3. \A s \in Seq(Nat) : s \in Seq(Int)
      OBVIOUS
    <3> QED BY <2>1, <3>2, <3>3 DEF TimingInv, TimingTypeOK
  <2>3. errors \in 0 .. Len(stats.mm) \cup {1}
    <3>1. CASE pc \in Early
      <4>1. errors = 0 /\ stats.mm = <<>>
        BY <2>1, <3>1 DEF PlaceInv
      <4> QED BY <4>1
    <3>2. CASE pc \notin Early
      <4>1. Accepted
        BY <2>1, <3>2 DEF PlaceInv
      <4>2. num_tracefiles \in Nat /\ stats.mm \in [1 .. num_tracefiles -> Row]
        BY <4>1, FileFacts DEF Accepted, Passes
      <4>3. Len(stats.mm) = num_tracefiles
        <5>1. stats.mm \in Seq(Row)
          BY <4>2
        <5>2. DOMAIN stats.mm = 1 .. num_tracefiles /\ DOMAIN stats.mm = 1 .. Len(stats.mm)
          BY <4>2, <5>1
        <5> QED BY <4>2, <5>1, <5>2
      <4>4. CASE pass = "libc"
        BY <2>1, <3>2, <4>2, <4>3, <4>4 DEF CountInv
      <4>5. CASE pass # "libc"
        <5> DEFINE no == {n \in 1 .. Tried : ~stats.mm[n].valid}
        <5>1. errors = Cardinality(no)
          BY <2>1, <3>2, <4>5 DEF CountInv
        <5>2. Tried \in 0 .. num_tracefiles
          BY <4>1, TriedFacts
        <5>3. IsFiniteSet(1 .. Tried) /\ Cardinality(1 .. Tried) = Tried
          BY <4>2, <5>2, FS_Interval
        <5>4. no \in SUBSET (1 .. Tried)
          OBVIOUS
        <5> HIDE DEF no
        <5>5. IsFiniteSet(no) /\ Cardinality(no) <= Cardinality(1 .. Tried)
          BY <5>3, <5>4, FS_Subset
        <5>6. Cardinality(no) \in Nat
          BY <5>5, FS_CardinalityType
        <5> QED BY <4>2, <4>3, <5>1, <5>2, <5>3, <5>5, <5>6
      <4> QED BY <4>4, <4>5
    <3> QED BY <3>1, <3>2
  <2>4. samplecount <= Max({maxsamples, RUNS})
    BY <2>1 DEF TimingInv
  <2>5. /\ package \in {"ideal", "steady", "fickle"} /\ pass \in {"libc", "mm"}
        /\ k \in 1 .. trace.num_ops + 1 /\ brk \in {0} \cup Extents
        /\ total.size \in Nat /\ total.max \in Nat
    BY <2>1 DEF BasicInv, Passes
  <2>6. ranges \in Seq([lo : Nat, hi : Nat])
    BY <2>1 DEF BasicInv, Range_t
  <2>7. pc \in Over \cup {"start", "read", "libc_valid", "mm_init", "valid", "util_init", "util",
                          "time", "free", "results"}
    BY <2>1 DEF BasicInv, Over, Early, Loaded
  <2> QED BY <2>2, <2>3, <2>4, <2>5, <2>6, <2>7 DEF TypeOK
<1> QED BY <1>1, Invariance, PTL

(* While eval_mm_valid runs a trace, the range list has an extent for each *)
(* block that the trace holds, and none that is left over, whatever the    *)
(* package answers; all of them are in the heap and aligned.               *)
THEOREM RangesTrue == Spec => []RangesAreLive
<1>1. IInv => RangesAreLive
  BY DEF IInv, MainInv, ValidInv, RangesAreLive
<1> QED BY <1>1, Invariance, PTL

(* What main concludes, for any package that differs between the passes of *)
(* a trace by running out of memory only.  A trace found valid was answered*)
(* throughout with aligned memory in the heap, with the data of a realloc, *)
(* and without an end in another payload (a payload around another one is  *)
(* overlooked); the utilisation is that of the high-water mark; the traces *)
(* that are not valid are the errors, and the index is there without any.  *)
(* A package that never errs in that way, nor by enclosing, is condemned on*)
(* no trace that reallocs only blocks whose fill byte is no negative char. *)
THEOREM ReportIsTrue == Spec => []ReportTrue
<1>1. IInv => ReportTrue
  BY DEF IInv, MainInv, TimeInv, ReportInv, VerdictInv, ReportTrue, FileAt
<1> QED BY <1>1, Invariance, PTL

(* fcyc keeps the least of the times that the function really took, in     *)
(* order, although the words of the cycle counter wrap around and timer    *)
(* interrupts are taken off; the other timers return the real average.     *)
THEOREM BestSamplesKept == Spec => []BestSamples
<1>1. IInv => BestSamples
  BY DEF IInv, TimingInv
<1> QED BY <1>1, Invariance, PTL
=============================================================================
