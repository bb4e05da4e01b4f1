-------------------------- MODULE SuiteRunnerProofs --------------------------
(***************************************************************************)
(* For every suite of gates, every set of claims and every archive of      *)
(* earlier records: the suite's states have their types, evidence is only  *)
(* ever a record that the gate's own child made, and the summary is given  *)
(* exactly for suites whose gates left complete records or none.           *)
(*                                                                         *)
(* The last of these needs the arithmetic of the summary: the totals of    *)
(* the four counts and of the blocked cases add up to the cases of the     *)
(* suite whenever each gate's result is accounted for.                     *)
(***************************************************************************)
EXTENDS SuiteRunner, SequenceTheorems, WellFoundedInduction, TLAPS

-----------------------------------------------------------------------------
(* Sums.  A fold over a sequence is a recursive function on the sets of    *)
(* its positions, which takes the highest position first.                  *)

(* A nonempty set of natural numbers has a least element.                  *)
LEMMA Least ==
  ASSUME NEW T \in SUBSET Nat, T # {}
  PROVE  \E x \in T : \A y \in T : x <= y
<1> DEFINE R == OpToRel(<, Nat)
<1>1. IsWellFoundedOn(R, Nat)
  BY NatLessThanWellFounded
<1>2. \A x, y \in Nat : y < x => <<y, x>> \in R
  BY DEF OpToRel
<1> HIDE DEF R
<1>3. PICK x \in T : \A y \in T : ~ (<<y, x>> \in R)
  BY <1>1, WFMin
<1>4. \A y \in T : x <= y
  <2> SUFFICES ASSUME NEW y \in T PROVE x <= y
    OBVIOUS
  <2>1. x \in Nat /\ y \in Nat
    OBVIOUS
  <2>2. ~ (y < x)
    BY <1>2, <1>3, <2>1
  <2> QED
    BY <2>1, <2>2
<1> QED
  BY <1>4

(* A nonempty set of positions has a greatest element, which is its Max.   *)
LEMMA Greatest ==
  ASSUME NEW n \in Nat, NEW d \in SUBSET (1 .. n), d # {}
  PROVE  Max(d) \in d /\ \A y \in d : Max(d) >= y
<1> DEFINE T == {n - i : i \in d}
<1>0. \A i \in d : i \in Nat /\ n - i \in Nat
  OBVIOUS
<1>1. T \in SUBSET Nat /\ T # {}
  BY <1>0
<1> HIDE DEF T
<1>2. PICK x \in T : \A y \in T : x <= y
  BY <1>1, Least
<1>3. PICK m \in d : x = n - m
  BY <1>2 DEF T
<1>4. \A y \in d : n - y \in T
  BY DEF T
<1>5. \A y \in d : m >= y
  <2> SUFFICES ASSUME NEW y \in d PROVE m >= y
    OBVIOUS
  <2>1. n - m <= n - y
    BY <1>2, <1>3, <1>4
  <2>2. m \in Nat /\ y \in Nat
    BY <1>0
  <2> QED
    BY <2>1, <2>2
<1> QED
  BY <1>5 DEF Max

(* f sums s over the sets of its first n positions.                        *)
Sums(f, s, n) ==
  /\ f \in [SUBSET (1 .. n) -> Nat]
  /\ f[{}] = 0
  /\ \A d \in SUBSET (1 .. n) : d # {} => f[d] = f[d \ {Max(d)}] + s[Max(d)]

(* A function that sums n - 1 positions extends to n of them.              *)
LEMMA SumsGrow ==
  ASSUME NEW N \in Nat, NEW s \in [1 .. N -> Nat], NEW n \in 1 .. N,
         NEW f, Sums(f, s, n - 1)
  PROVE  \E g : Sums(g, s, n)
<1> DEFINE g == [d \in SUBSET (1 .. n) |-> IF n \in d THEN f[d \ {n}] + s[n] ELSE f[d]]
<1>0. n \in Nat /\ n - 1 \in Nat /\ s[n] \in Nat
  OBVIOUS
<1>1. \A d \in SUBSET (1 .. n) : d \ {n} \in SUBSET (1 .. (n - 1))
  BY <1>0
<1>2. \A d \in SUBSET (1 .. n) : n \notin d => d \in SUBSET (1 .. (n - 1))
  BY <1>0
<1>3. g \in [SUBSET (1 .. n) -> Nat]
  BY <1>0, <1>1, <1>2 DEF Sums
<1>4. g[{}] = 0
  BY DEF Sums
<1>5. ASSUME NEW d \in SUBSET (1 .. n), d # {}
      PROVE  g[d] = g[d \ {Max(d)}] + s[Max(d)]
  <2>1. Max(d) \in d /\ \A y \in d : Max(d) >= y
    BY <1>0, <1>5, Greatest
  <2>2. CASE n \in d
    <3>0. Max(d) \in 1 .. n /\ Max(d) >= n
      BY <2>1, <2>2
    <3>1. Max(d) = n
      BY <1>0, <3>0
    <3>2. g[d] = f[d \ {n}] + s[n]
      BY <2>2
    <3>3. d \ {n} \in SUBSET (1 .. n) /\ n \notin d \ {n}
      OBVIOUS
    <3>4. g[d \ {n}] = f[d \ {n}]
      BY <3>3
    <3> QED
      BY <3>1, <3>2, <3>4
  <2>3. CASE n \notin d
    <3>1. d \in SUBSET (1 .. (n - 1))
      BY <1>2, <2>3
    <3>2. f[d] = f[d \ {Max(d)}] + s[Max(d)]
      BY <1>5, <3>1 DEF Sums
    <3>3. d \ {Max(d)} \in SUBSET (1 .. n) /\ n \notin d \ {Max(d)}
      BY <2>3
    <3>4. g[d] = f[d] /\ g[d \ {Max(d)}] = f[d \ {Max(d)}]
      BY <2>3, <3>3
    <3> QED
      BY <3>2, <3>4
  <2> QED
    BY <2>2, <2>3
<1> HIDE DEF g
<1>6. Sums(g, s, n)
  BY <1>3, <1>4, <1>5 DEF Sums
<1> QED
  BY <1>6

(* There is a function that sums the positions of s.                       *)
LEMMA SumsExist ==
  ASSUME NEW N \in Nat, NEW s \in [1 .. N -> Nat]
  PROVE  \E f : Sums(f, s, N)
<1> DEFINE T == {n \in 0 .. N : ~ \E f : Sums(f, s, n)}
<1>0. N \in 0 .. N
  OBVIOUS
<1>1. SUFFICES ASSUME T # {} PROVE FALSE
  BY <1>0
<1>2. T \in SUBSET Nat
  OBVIOUS
<1>3. PICK n \in T : \A y \in T : n <= y
  BY <1>1, <1>2, Least
<1>4. n # 0
  <2> DEFINE f == [d \in {{}} |-> 0]
  <2>1. SUBSET (1 .. 0) = {{}}
    OBVIOUS
  <2>2. f \in [SUBSET (1 .. 0) -> Nat] /\ f[{}] = 0
    BY <2>1
  <2>3. \A d \in SUBSET (1 .. 0) : d = {}
    OBVIOUS
  <2> HIDE DEF f
  <2>4. Sums(f, s, 0)
    BY <2>2, <2>3 DEF Sums
  <2> QED
    BY <2>4
<1>5. n \in 1 .. N /\ n - 1 \in 0 .. N
  BY <1>4
<1>6. n - 1 \notin T
  BY <1>3, <1>5
<1>7. PICK f : Sums(f, s, n - 1)
  BY <1>5, <1>6
<1>8. \E g : Sums(g, s, n)
  BY <1>5, <1>7, SumsGrow
<1> QED
  BY <1>8

(* Total is the value of such a function.                                  *)
LEMMA TotalIsFold ==
  ASSUME NEW N \in Nat, NEW s \in [1 .. N -> Nat], NEW f, Sums(f, s, N)
  PROVE  Total(s) = f[1 .. N]
<1> DEFINE Step(g) ==
      [d \in SUBSET (1 .. N) |-> IF d = {} THEN 0 ELSE g[d \ {Max(d)}] + s[Max(d)]]
<1> DEFINE h == CHOOSE g : g = Step(g)
<1>1. Total(s) = h[1 .. N]
  BY DEF Total, FoldLeft, MapThenFoldSet
<1>2. f = Step(f)
  BY DEF Sums
<1>3. h = Step(h)
  BY <1>2
<1> HIDE DEF h
<1>4. h[{}] = 0 /\ \A d \in SUBSET (1 .. N) : d # {} => h[d] = h[d \ {Max(d)}] + s[Max(d)]
  BY <1>3
<1> HIDE DEF Step
<1> DEFINE T == {n \in 0 .. N : \E d \in SUBSET (1 .. n) : h[d] # f[d]}
<1>5. SUFFICES ASSUME T # {} PROVE FALSE
  <2>1. N \in 0 .. N /\ 1 .. N \in SUBSET (1 .. N)
    OBVIOUS
  <2>2. SUFFICES ASSUME T = {} PROVE h[1 .. N] = f[1 .. N]
    BY <1>1
  <2> QED
    BY <2>1, <2>2
<1>6. T \in SUBSET Nat
  OBVIOUS
<1>7. PICK n \in T : \A y \in T : n <= y
  BY <1>5, <1>6, Least
<1>8. PICK d \in SUBSET (1 .. n) : h[d] # f[d]
  BY <1>7
<1>9. n \in 0 .. N /\ d # {} /\ d \in SUBSET (1 .. N)
  <2>1. n \in 0 .. N
    OBVIOUS
  <2>2. d # {}
    BY <1>4, <1>8 DEF Sums
  <2>3. \A i \in 1 .. n : i \in 1 .. N
    BY <2>1
  <2> QED
    BY <2>1, <2>2, <2>3
<1>10. Max(d) \in d /\ \A y \in d : Max(d) >= y
  BY <1>9, Greatest
<1>11. n \in 1 .. N /\ n - 1 \in 0 .. N
  <2>1. PICK i \in d : TRUE
    BY <1>9
  <2>2. i \in 1 .. n
    OBVIOUS
  <2> QED
    BY <1>9, <2>2
<1>12. n - 1 \notin T
  BY <1>7, <1>11
<1> HIDE DEF T
<1>13. \A e \in SUBSET (1 .. (n - 1)) : h[e] = f[e]
  BY <1>11, <1>12 DEF T
<1>14. d \ {Max(d)} \in SUBSET (1 .. (n - 1))
  <2>1. ASSUME NEW i \in d, i # Max(d) PROVE i \in 1 .. (n - 1)
    <3>1. i \in 1 .. n /\ Max(d) \in 1 .. n /\ Max(d) >= i
      BY <1>10
    <3>2. n \in Nat
      BY <1>11
    <3> QED
      BY <2>1, <3>1, <3>2
  <2> QED
    BY <2>1
<1>15. h[d \ {Max(d)}] = f[d \ {Max(d)}]
  BY <1>13, <1>14
<1>16. h[d] = h[d \ {Max(d)}] + s[Max(d)] /\ f[d] = f[d \ {Max(d)}] + s[Max(d)]
  BY <1>4, <1>9 DEF Sums
<1> QED
  BY <1>8, <1>15, <1>16

(* The running sums of s, of which Total(s) is the last.                   *)
Running(sum, s, N) ==
  /\ sum \in [0 .. N -> Nat]
  /\ sum[0] = 0
  /\ \A k \in 1 .. N : sum[k] = sum[k - 1] + s[k]
  /\ Total(s) = sum[N]

LEMMA RunningSums ==
  ASSUME NEW N \in Nat, NEW s \in [1 .. N -> Nat]
  PROVE  \E sum : Running(sum, s, N)
<1>1. PICK f : Sums(f, s, N)
  BY SumsExist
<1>2. Total(s) = f[1 .. N]
  BY <1>1, TotalIsFold
<1> DEFINE sum == [k \in 0 .. N |-> f[1 .. k]]
<1>3. \A k \in 0 .. N : 1 .. k \in SUBSET (1 .. N)
  OBVIOUS
<1>4. sum \in [0 .. N -> Nat]
  BY <1>1, <1>3 DEF Sums
<1>5. sum[0] = 0
  <2>1. 1 .. 0 = {}
    OBVIOUS
  <2> QED
    BY <1>1, <2>1 DEF Sums
<1>6. ASSUME NEW k \in 1 .. N PROVE sum[k] = sum[k - 1] + s[k]
  <2>1. k \in Nat /\ k \in 0 .. N /\ k - 1 \in 0 .. N
    OBVIOUS
  <2>2. (1 .. k) # {}
    BY <2>1
  <2>3. Max(1 .. k) \in 1 .. k /\ \A y \in 1 .. k : Max(1 .. k) >= y
    BY <2>1, <2>2, Greatest
  <2>4. k \in 1 .. k
    BY <2>1
  <2>5. Max(1 .. k) >= k
    BY <2>3, <2>4
  <2>6. Max(1 .. k) = k
    BY <2>1, <2>3, <2>5
  <2>7. (1 .. k) \ {k} = 1 .. (k - 1)
    BY <2>1
  <2>8. f[1 .. k] = f[(1 .. k) \ {Max(1 .. k)}] + s[Max(1 .. k)]
    BY <1>1, <1>3, <2>1, <2>2 DEF Sums
  <2>9. f[1 .. k] = f[1 .. (k - 1)] + s[k]
    BY <2>6, <2>7, <2>8
  <2> QED
    BY <2>1, <2>9
<1>7. Total(s) = sum[N]
  BY <1>2
<1> HIDE DEF sum
<1>8. Running(sum, s, N)
  BY <1>4, <1>5, <1>6, <1>7 DEF Running
<1> QED
  BY <1>8

(* Five sums are added column by column.                                   *)
LEMMA Columns ==
  ASSUME NEW a1 \in Nat, NEW a2 \in Nat, NEW a3 \in Nat, NEW a4 \in Nat, NEW a5 \in Nat,
         NEW b1 \in Nat, NEW b2 \in Nat, NEW b3 \in Nat, NEW b4 \in Nat, NEW b5 \in Nat
  PROVE  (a1 + b1) + (a2 + b2) + (a3 + b3) + (a4 + b4) + (a5 + b5)
           = (a1 + a2 + a3 + a4 + a5) + (b1 + b2 + b3 + b4 + b5)
  OBVIOUS

(* Five sequences of N numbers whose entries add up to c.                  *)
AddUp(s1, s2, s3, s4, s5, N, c) ==
  /\ s1 \in [1 .. N -> Nat] /\ s2 \in [1 .. N -> Nat] /\ s3 \in [1 .. N -> Nat]
  /\ s4 \in [1 .. N -> Nat] /\ s5 \in [1 .. N -> Nat]
  /\ \A i \in 1 .. N : s1[i] + s2[i] + s3[i] + s4[i] + s5[i] = c

(* Their totals add up to c times N.                                       *)
LEMMA FiveTotals ==
  ASSUME NEW N \in Nat, NEW c \in Nat,
         NEW s1, NEW s2, NEW s3, NEW s4, NEW s5, AddUp(s1, s2, s3, s4, s5, N, c)
  PROVE  Total(s1) + Total(s2) + Total(s3) + Total(s4) + Total(s5) = c * N
<1>1. PICK t1 : Running(t1, s1, N)
  BY RunningSums DEF AddUp
<1>2. PICK t2 : Running(t2, s2, N)
  BY RunningSums DEF AddUp
<1>3. PICK t3 : Running(t3, s3, N)
  BY RunningSums DEF AddUp
<1>4. PICK t4 : Running(t4, s4, N)
  BY RunningSums DEF AddUp
<1>5. PICK t5 : Running(t5, s5, N)
  BY RunningSums DEF AddUp
<1> DEFINE t(k) == t1[k] + t2[k] + t3[k] + t4[k] + t5[k]
<1>6. \A k \in 0 .. N : t(k) \in Nat
  BY <1>1, <1>2, <1>3, <1>4, <1>5 DEF Running
<1>7. t(0) = 0
  BY <1>1, <1>2, <1>3, <1>4, <1>5 DEF Running
<1>8. ASSUME NEW k \in 1 .. N PROVE t(k) = t(k - 1) + c
  <2>1. k - 1 \in 0 .. N
    OBVIOUS
  <2>2. /\ t1[k - 1] \in Nat /\ t2[k - 1] \in Nat /\ t3[k - 1] \in Nat
        /\ t4[k - 1] \in Nat /\ t5[k - 1] \in Nat
    BY <1>1, <1>2, <1>3, <1>4, <1>5, <2>1 DEF Running
  <2>3. /\ t1[k] = t1[k - 1] + s1[k] /\ t2[k] = t2[k - 1] + s2[k]
        /\ t3[k] = t3[k - 1] + s3[k] /\ t4[k] = t4[k - 1] + s4[k]
        /\ t5[k] = t5[k - 1] + s5[k]
    BY <1>1, <1>2, <1>3, <1>4, <1>5 DEF Running
  <2>4. /\ s1[k] \in Nat /\ s2[k] \in Nat /\ s3[k] \in Nat
        /\ s4[k] \in Nat /\ s5[k] \in Nat
    BY DEF AddUp
  <2>5. s1[k] + s2[k] + s3[k] + s4[k] + s5[k] = c
    BY DEF AddUp
  <2>6. t(k) = (t1[k - 1] + s1[k]) + (t2[k - 1] + s2[k]) + (t3[k - 1] + s3[k])
                 + (t4[k - 1] + s4[k]) + (t5[k - 1] + s5[k])
    BY <2>3
  <2> HIDE DEF t
  <2> DEFINE a1 == t1[k - 1]  a2 == t2[k - 1]  a3 == t3[k - 1]  a4 == t4[k - 1]  a5 == t5[k - 1]
             b1 == s1[k]  b2 == s2[k]  b3 == s3[k]  b4 == s4[k]  b5 == s5[k]
  <2>7. t(k) = (a1 + a2 + a3 + a4 + a5) + c
    <3>1. /\ a1 \in Nat /\ a2 \in Nat /\ a3 \in Nat /\ a4 \in Nat /\ a5 \in Nat
          /\ b1 \in Nat /\ b2 \in Nat /\ b3 \in Nat /\ b4 \in Nat /\ b5 \in Nat
      BY <2>2, <2>4
    <3>2. t(k) = (a1 + b1) + (a2 + b2) + (a3 + b3) + (a4 + b4) + (a5 + b5)
      BY <2>6
    <3>3. b1 + b2 + b3 + b4 + b5 = c
      BY <2>5
    <3> HIDE DEF a1, a2, a3, a4, a5, b1, b2, b3, b4, b5
    <3> QED
      BY <3>1, <3>2, <3>3, Columns
  <2> QED
    BY <2>7 DEF t
<1>9. Total(s1) + Total(s2) + Total(s3) + Total(s4) + Total(s5) = t(N)
  BY <1>1, <1>2, <1>3, <1>4, <1>5 DEF Running
<1> HIDE DEF t
<1> DEFINE T == {k \in 0 .. N : t(k) # c * k}
<1>10. SUFFICES ASSUME T # {} PROVE FALSE
  <2>1. N \in 0 .. N
    OBVIOUS
  <2> QED
    BY <1>9, <2>1
<1>11. T \in SUBSET Nat
  OBVIOUS
<1>12. PICK k \in T : \A y \in T : k <= y
  BY <1>10, <1>11, Least
<1>13. k \in 1 .. N /\ k - 1 \in 0 .. N
  BY <1>7, <1>12
<1>14. k - 1 \notin T
  BY <1>12, <1>13
<1>15. t(k - 1) = c * (k - 1)
  BY <1>13, <1>14
<1>16. t(k) = c * (k - 1) + c
  BY <1>8, <1>13, <1>15
<1>17. c * (k - 1) + c = c * k
  BY <1>13
<1> QED
  BY <1>12, <1>16, <1>17

-----------------------------------------------------------------------------
(* What a gate can end in: lost, blocked, or with the record it left.      *)
Blocked == Result("BLOCKED", NoRecord, 0, NoCases)
Left(status, record) == Result(status, record, Cases(record.claims), record.claims)

Outcome(r) ==
  \/ \E status \in {"MISSING", "TIMEOUT", "FAIL"} : r = Lost(status)
  \/ r = Blocked
  \/ \E record \in Records, status \in {"UNVERIFIED", "FAIL"} : r = Left(status, record)

ResultRecords ==
  [status : Statuses, record : Records \cup {NoRecord}, executed : Nat,
   unverified : Nat, failed : Nat, skipped : Nat, xfailed : Nat]

Results == {r \in ResultRecords : Outcome(r)}

LEMMA ClaimsAreCounts ==
  ASSUME NEW record \in Records
  PROVE  /\ record.claims \in Counts
         /\ record.claims.passed \in Nat /\ record.claims.failed \in Nat
         /\ record.claims.skipped \in Nat /\ record.claims.xfailed \in Nat
         /\ Cases(record.claims) \in Nat
<1>1. record.claims \in Counts
  BY SuiteAssumption DEF Records
<1> QED
  BY <1>1 DEF Counts, Cases

LEMMA OutcomesAreResults ==
  ASSUME NEW r, Outcome(r)
  PROVE  r \in Results
<1>1. CASE \E status \in {"MISSING", "TIMEOUT", "FAIL"} : r = Lost(status)
  <2>1. PICK status \in {"MISSING", "TIMEOUT", "FAIL"} : r = Lost(status)
    BY <1>1
  <2>2. r \in ResultRecords
    BY <2>1, SuiteAssumption DEF Lost, Result, NoCases, ResultRecords, Statuses
  <2> QED
    BY <2>2, <1>1 DEF Results, Outcome
<1>2. CASE r = Blocked
  BY <1>2 DEF Blocked, Result, NoCases, ResultRecords, Statuses, Results, Outcome
<1>3. CASE \E record \in Records, status \in {"UNVERIFIED", "FAIL"} : r = Left(status, record)
  <2>1. PICK record \in Records, status \in {"UNVERIFIED", "FAIL"} : r = Left(status, record)
    BY <1>3
  <2>2. r \in ResultRecords
    BY <2>1, ClaimsAreCounts DEF Left, Result, ResultRecords, Statuses
  <2> QED
    BY <2>2, <1>3 DEF Results, Outcome
<1> QED
  BY <1>1, <1>2, <1>3 DEF Outcome

(* A result is accounted for exactly when the gate was blocked, or left a  *)
(* record of all its cases.                                                *)
LEMMA CountedResults ==
  ASSUME NEW r \in Results
  PROVE  Counted(r) <=> (IF r.record = NoRecord THEN r.status = "BLOCKED"
                         ELSE Cases(r.record.claims) = Selected)
<1>0. Outcome(r)
  BY DEF Results
<1>1. CASE \E status \in {"MISSING", "TIMEOUT", "FAIL"} : r = Lost(status)
  <2>1. PICK status \in {"MISSING", "TIMEOUT", "FAIL"} : r = Lost(status)
    BY <1>1
  <2>2. r.status # "BLOCKED" /\ r.record = NoRecord /\ r.executed = 0
    BY <2>1 DEF Lost, Result
  <2>3. ~ Counted(r)
    BY <2>2, SuiteAssumption DEF Counted
  <2> QED
    BY <2>2, <2>3
<1>2. CASE r = Blocked
  <2>1. /\ r.status = "BLOCKED" /\ r.record = NoRecord /\ r.executed = 0
        /\ r.unverified = 0 /\ r.failed = 0 /\ r.skipped = 0 /\ r.xfailed = 0
    BY <1>2 DEF Blocked, Result, NoCases
  <2>2. Counted(r)
    BY <2>1 DEF Counted
  <2> QED
    BY <2>1, <2>2
<1>3. CASE \E record \in Records, status \in {"UNVERIFIED", "FAIL"} : r = Left(status, record)
  <2>1. PICK record \in Records, status \in {"UNVERIFIED", "FAIL"} : r = Left(status, record)
    BY <1>3
  <2>2. /\ r.status # "BLOCKED" /\ r.record = record /\ r.executed = Cases(record.claims)
        /\ r.unverified + r.failed + r.skipped + r.xfailed = Cases(record.claims)
    BY <2>1, ClaimsAreCounts DEF Left, Result, Cases
  <2>3. record # NoRecord
    BY SuiteAssumption
  <2>4. Counted(r) <=> Cases(record.claims) = Selected
    BY <2>2 DEF Counted
  <2> QED
    BY <2>2, <2>3, <2>4
<1> QED
  BY <1>0, <1>1, <1>2, <1>3 DEF Outcome

(* When every result is accounted for, the partition of the cases adds up: *)
(* that test of the summary never fails by itself.                         *)
LEMMA CountedSuitesBalance ==
  ASSUME results \in Seq(Results), Len(results) = Len(Gates),
         \A i \in DOMAIN results : Counted(results[i])
  PROVE  Balanced(Totals)
<1> DEFINE N == Len(results)
           s1 == [i \in DOMAIN results |-> results[i].unverified]
           s2 == [i \in DOMAIN results |-> results[i].failed]
           s3 == [i \in DOMAIN results |->
                    IF results[i].status = "BLOCKED" THEN Selected ELSE 0]
           s4 == [i \in DOMAIN results |-> results[i].skipped]
           s5 == [i \in DOMAIN results |-> results[i].xfailed]
<1>1. N \in Nat /\ DOMAIN results = 1 .. N /\ Selected \in Nat
  BY SuiteAssumption
<1>2. \A i \in 1 .. N : results[i] \in ResultRecords
  BY <1>1 DEF Results
<1>3. \A i \in 1 .. N : /\ results[i].unverified \in Nat /\ results[i].failed \in Nat
                        /\ results[i].skipped \in Nat /\ results[i].xfailed \in Nat
  BY <1>2 DEF ResultRecords
<1>4. /\ s1 \in [1 .. N -> Nat] /\ s2 \in [1 .. N -> Nat] /\ s3 \in [1 .. N -> Nat]
      /\ s4 \in [1 .. N -> Nat] /\ s5 \in [1 .. N -> Nat]
  BY <1>1, <1>3
<1>5. ASSUME NEW i \in 1 .. N
      PROVE  s1[i] + s2[i] + s3[i] + s4[i] + s5[i] = Selected
  <2>1. /\ s1[i] = results[i].unverified /\ s2[i] = results[i].failed
        /\ s3[i] = (IF results[i].status = "BLOCKED" THEN Selected ELSE 0)
        /\ s4[i] = results[i].skipped /\ s5[i] = results[i].xfailed
    BY <1>1
  <2>2. Counted(results[i])
    BY <1>1
  <2>3. CASE results[i].status = "BLOCKED"
    <3>1. /\ results[i].unverified = 0 /\ results[i].failed = 0
          /\ results[i].skipped = 0 /\ results[i].xfailed = 0
      BY <2>2, <2>3 DEF Counted
    <3> QED
      BY <1>1, <2>1, <2>3, <3>1
  <2>4. CASE results[i].status # "BLOCKED"
    <3>1. results[i].unverified + results[i].failed + results[i].skipped
            + results[i].xfailed = Selected
      BY <2>2, <2>4 DEF Counted
    <3>2. s3[i] = 0
      BY <2>1, <2>4
    <3> QED
      BY <1>3, <2>1, <3>1, <3>2
  <2> QED
    BY <2>3, <2>4
<1>6. /\ Totals.matching = Total(s1) /\ Totals.failed = Total(s2)
      /\ Totals.blocked = Total(s3) /\ Totals.skipped = Total(s4)
      /\ Totals.xfailed = Total(s5)
  BY DEF Totals, BlockedCases
<1> HIDE DEF s1, s2, s3, s4, s5, N
<1>7. Total(s1) + Total(s2) + Total(s3) + Total(s4) + Total(s5) = Selected * N
  <2>1. AddUp(s1, s2, s3, s4, s5, N, Selected)
    BY <1>4, <1>5 DEF AddUp
  <2> QED
    BY <1>1, <2>1, FiveTotals
<1> QED
  BY <1>6, <1>7 DEF Balanced, N

-----------------------------------------------------------------------------
(* The inductive invariant: a child's nonce is the position of its gate, a *)
(* printed record that has a nonce was made under it in this execution,    *)
(* and the report follows the results, which are complete by then.         *)
Typed == SuiteTypeOK /\ results \in Seq(Results)

Nonces ==
  /\ \A m \in made : m[2].nonce = m[1]
  /\ \A j \in DOMAIN output :
       output[j].nonce # 0 => <<output[j].nonce, output[j]>> \in made

Reported ==
  report \in {"summary", "raised"} =>
    /\ Len(results) = Len(Gates)
    /\ report = "summary" <=> \A i \in DOMAIN results : Counted(results[i])

SuiteInv == Typed /\ Nonces /\ EvidenceIsOwn /\ Reported

LEMMA GateFacts ==
  /\ Len(Gates) \in Nat \ {0} /\ DOMAIN Gates = 1 .. Len(Gates)
  /\ MaxEdits \in Nat /\ Selected \in Nat
  /\ \A i \in 1 .. Len(Gates) : Gates[i] \in Range(Gates)
<1>1. Gates \in Seq(Range(Gates)) /\ Gates # <<>>
  BY SuiteAssumption
<1>2. Len(Gates) \in Nat \ {0} /\ DOMAIN Gates = 1 .. Len(Gates)
  BY <1>1, EmptySeq
<1> QED
  BY <1>2, SuiteAssumption DEF Range

LEMMA SuiteInitInv == SuiteInit => SuiteInv
<1> SUFFICES ASSUME SuiteInit PROVE SuiteInv
  OBVIOUS
<1>1. Len(results) = 0 /\ DOMAIN results = {} /\ results \in Seq(Results)
  BY DEF SuiteInit
<1>2. Range(results) = {}
  BY <1>1 DEF Range
<1>3. output \in Seq(Records) /\ Len(output) = 0 /\ DOMAIN output = {}
  BY DEF SuiteInit
<1>4. Typed
  BY <1>1, <1>2, <1>3, GateFacts DEF SuiteInit, Typed, SuiteTypeOK, Turn
<1>5. Nonces /\ EvidenceIsOwn /\ Reported
  BY <1>1, <1>3 DEF SuiteInit, Nonces, EvidenceIsOwn, Reported
<1> QED
  BY <1>4, <1>5 DEF SuiteInv

(* What the conjunct of SuiteTypeOK on the results follows from.           *)
LEMMA ResultsTyped ==
  ASSUME NEW rs \in Seq(Results), NEW r \in Range(rs)
  PROVE  /\ r.status \in Statuses /\ r.record \in Records \cup {NoRecord}
         /\ r.executed \in Nat
         /\ {r.unverified, r.failed, r.skipped, r.xfailed} \subseteq Nat
<1>1. r \in ResultRecords
  BY DEF Range, Results
<1> QED
  BY <1>1 DEF ResultRecords

(* A gate ends in one of its outcomes: with evidence only if it is of a    *)
(* record the gate's own child made.                                       *)
LEMMA FinishesInv ==
  ASSUME SuiteInv, Turn <= Len(Gates), NEW r, Outcome(r), Finishes(r),
         r.status = "UNVERIFIED" => <<Turn, r.record>> \in made /\ r.unverified = Selected
  PROVE  SuiteInv'
<1> USE DEF SuiteInv
<1>1. r \in Results
  BY OutcomesAreResults
<1>2. /\ results' = Append(results, r) /\ child' = 0 /\ output' = <<>>
      /\ UNCHANGED <<host, source, made, report>>
  BY DEF Finishes
<1>3. /\ results \in Seq(Results) /\ Len(results) \in Nat
      /\ Turn = Len(results) + 1 /\ DOMAIN results = 1 .. Len(results)
  BY DEF Typed, Turn
<1>4. /\ results' \in Seq(Results) /\ Len(results') = Turn /\ DOMAIN results' = 1 .. Turn
      /\ results'[Turn] = r
      /\ \A i \in DOMAIN results : results'[i] = results[i]
  BY <1>1, <1>2, <1>3
<1>5. /\ output' \in Seq(Records) /\ Len(output') = 0 /\ DOMAIN output' = {}
  BY <1>2
<1>6. \A q \in Range(results') :
        /\ q.status \in Statuses /\ q.record \in Records \cup {NoRecord}
        /\ q.executed \in Nat
        /\ {q.unverified, q.failed, q.skipped, q.xfailed} \subseteq Nat
  BY <1>4, ResultsTyped
<1>7. SuiteTypeOK'
  BY <1>2, <1>4, <1>5, <1>6, GateFacts DEF Typed, SuiteTypeOK
<1>8. Typed'
  BY <1>4, <1>7 DEF Typed
<1>9. Nonces'
  BY <1>2, <1>5 DEF Nonces
<1>10. EvidenceIsOwn'
  <2> SUFFICES ASSUME NEW i \in DOMAIN results', results'[i].status = "UNVERIFIED"
               PROVE  <<i, results'[i].record>> \in made' /\ results'[i].unverified = Selected
    BY DEF EvidenceIsOwn
  <2>1. CASE i = Turn
    BY <1>2, <1>4, <2>1
  <2>2. CASE i # Turn
    <3>1. i \in DOMAIN results
      BY <1>3, <1>4, <2>2
    <3> QED
      BY <1>2, <1>4, <3>1 DEF EvidenceIsOwn
  <2> QED
    BY <2>1, <2>2
<1>11. Reported'
  BY <1>2, <1>3 DEF Reported
<1> QED
  BY <1>8, <1>9, <1>10, <1>11

(* The position of a running gate.                                         *)
LEMMA OwnTurn ==
  ASSUME SuiteInv, child # 0
  PROVE  child = Turn /\ Turn <= Len(Gates) /\ child \in 1 .. Len(Gates)
  BY GateFacts DEF SuiteInv, Typed, SuiteTypeOK, Turn

LEMMA LostInv ==
  ASSUME SuiteInv, Turn <= Len(Gates), NEW status \in {"MISSING", "TIMEOUT", "FAIL"},
         Finishes(Lost(status))
  PROVE  SuiteInv'
<1>1. Outcome(Lost(status))
  BY DEF Outcome
<1>2. Lost(status).status # "UNVERIFIED"
  BY DEF Lost, Result
<1> QED
  BY <1>1, <1>2, FinishesInv

LEMMA SpawnInv == ASSUME SuiteInv, Spawn PROVE SuiteInv'
<1> USE DEF SuiteInv, Spawn
<1>1. Turn <= Len(Gates) /\ Turn \in Nat
  BY DEF Unfinished, Typed, Turn
<1>2. SuiteTypeOK'
  BY <1>1 DEF Typed, SuiteTypeOK, Turn
<1> QED
  BY <1>2 DEF Typed, Nonces, EvidenceIsOwn, Reported

(* A child prints a record that either has no nonce of this execution or   *)
(* was made under the one it has.                                          *)
LEMMA PrintInv ==
  ASSUME SuiteInv, NEW record \in Records, Len(output) < 2,
         output' = Append(output, record), UNCHANGED <<host, source, child, results, report>>,
         made \subseteq made', made' \subseteq (DOMAIN Gates) \X Records,
         \A m \in made' : m[2].nonce = m[1],
         record.nonce # 0 => <<record.nonce, record>> \in made'
  PROVE  SuiteInv'
<1> USE DEF SuiteInv
<1>1. output \in Seq(Records) /\ Len(output) \in Nat
  BY DEF Typed, SuiteTypeOK
<1>2. /\ output' \in Seq(Records) /\ Len(output') = Len(output) + 1
      /\ DOMAIN output' = 1 .. (Len(output) + 1) /\ DOMAIN output = 1 .. Len(output)
      /\ output'[Len(output) + 1] = record
      /\ \A j \in 1 .. Len(output) : output'[j] = output[j]
  BY <1>1
<1>3. Typed'
  BY <1>1, <1>2 DEF Typed, SuiteTypeOK, Turn
<1>4. Nonces'
  <2> SUFFICES ASSUME NEW j \in DOMAIN output', output'[j].nonce # 0
               PROVE  <<output'[j].nonce, output'[j]>> \in made'
    BY DEF Nonces
  <2>1. CASE j = Len(output) + 1
    BY <1>2, <2>1
  <2>2. CASE j # Len(output) + 1
    <3>1. j \in DOMAIN output /\ output'[j] = output[j]
      BY <1>1, <1>2, <2>2
    <3> QED
      BY <3>1 DEF Nonces
  <2> QED
    BY <2>1, <2>2
<1>5. EvidenceIsOwn' /\ Reported'
  BY DEF EvidenceIsOwn, Reported
<1> QED
  BY <1>3, <1>4, <1>5

LEMMA PrintsOwnInv == ASSUME SuiteInv, PrintsOwn PROVE SuiteInv'
<1>1. PICK claims \in Claims :
        LET own == [gate |-> Gates[child], nonce |-> child, source |-> source,
                    recent |-> TRUE, claims |-> claims]
        IN  output' = Append(output, own) /\ made' = made \cup {<<child, own>>}
  BY DEF PrintsOwn
<1> DEFINE own == [gate |-> Gates[child], nonce |-> child, source |-> source,
                   recent |-> TRUE, claims |-> claims]
<1>2. child \in 1 .. Len(Gates)
  BY OwnTurn DEF PrintsOwn
<1>3. own \in Records /\ own.nonce = child /\ child \in DOMAIN Gates
  BY <1>2, GateFacts DEF Records, SuiteInv, Typed, SuiteTypeOK
<1>4. output' = Append(output, own) /\ made' = made \cup {<<child, own>>}
  BY <1>1
<1> HIDE DEF own
<1>5. made \subseteq made' /\ <<own.nonce, own>> \in made'
  BY <1>3, <1>4
<1>6. made' \subseteq (DOMAIN Gates) \X Records
  BY <1>3, <1>4 DEF SuiteInv, Typed, SuiteTypeOK
<1>7. \A m \in made' : m[2].nonce = m[1]
  BY <1>3, <1>4 DEF SuiteInv, Nonces
<1> QED
  BY <1>3, <1>4, <1>5, <1>6, <1>7, PrintInv DEF PrintsOwn

LEMMA PrintsKeptInv == ASSUME SuiteInv, PrintsKept PROVE SuiteInv'
<1>1. PICK kept \in Archive \cup {m[2] : m \in made} : output' = Append(output, kept)
  BY DEF PrintsKept
<1>2. kept \in Records /\ (kept.nonce # 0 => <<kept.nonce, kept>> \in made)
  <2>1. CASE kept \in Archive
    BY <2>1, SuiteAssumption
  <2>2. CASE kept \in {m[2] : m \in made}
    <3>1. PICK m \in made : kept = m[2]
      BY <2>2
    <3>2. m \in (DOMAIN Gates) \X Records /\ m[2].nonce = m[1]
      BY DEF SuiteInv, Typed, SuiteTypeOK, Nonces
    <3> QED
      BY <3>1, <3>2
  <2> QED
    BY <1>1, <2>1, <2>2
<1>3. made' = made /\ made \subseteq (DOMAIN Gates) \X Records
  BY DEF PrintsKept, SuiteInv, Typed, SuiteTypeOK
<1>4. \A m \in made' : m[2].nonce = m[1]
  BY <1>3 DEF SuiteInv, Nonces
<1> QED
  BY <1>1, <1>2, <1>3, <1>4, PrintInv DEF PrintsKept

(* A record the parent accepts has the nonce of the running child, and so  *)
(* was made by it.                                                         *)
LEMMA ExitsInv == ASSUME SuiteInv, Exits PROVE SuiteInv'
<1>1. PICK sound \in BOOLEAN : Finishes(Parsed(sound))
  BY DEF Exits
<1>2. child = Turn /\ Turn <= Len(Gates) /\ child \in 1 .. Len(Gates)
  BY OwnTurn DEF Exits
<1>3. output \in Seq(Records)
  BY DEF SuiteInv, Typed, SuiteTypeOK
<1>4. CASE Len(output) # 1
  <2>1. Parsed(sound) = Blocked
    BY <1>4 DEF Parsed, Blocked
  <2>2. Outcome(Blocked) /\ Blocked.status # "UNVERIFIED"
    BY DEF Outcome, Blocked, Result
  <2> HIDE DEF Blocked
  <2> QED
    BY <1>1, <1>2, <2>1, <2>2, FinishesInv
<1>5. CASE Len(output) = 1
  <2> DEFINE record == output[1]
             r == Left(IF Accepted(record, sound) THEN "UNVERIFIED" ELSE "FAIL", record)
  <2>1. 1 \in DOMAIN output /\ record \in Records
    BY <1>3, <1>5
  <2>2. Parsed(sound) = r
    BY <1>5 DEF Parsed, Left
  <2>3. Outcome(r)
    BY <2>1 DEF Outcome
  <2>4. ASSUME r.status = "UNVERIFIED"
        PROVE  <<Turn, r.record>> \in made /\ r.unverified = Selected
    <3>1. Accepted(record, sound)
      BY <2>4 DEF Left, Result
    <3>2. r.record = record /\ r.unverified = record.claims.passed
      BY DEF Left, Result
    <3>3. record.nonce = child /\ record.claims.passed = Selected
      BY <3>1 DEF Accepted, Bound, NoCases
    <3>4. <<record.nonce, record>> \in made
      BY <1>2, <2>1, <3>3 DEF SuiteInv, Nonces
    <3> QED
      BY <1>2, <3>2, <3>3, <3>4
  <2> HIDE DEF r
  <2> QED
    BY <1>1, <1>2, <2>2, <2>3, <2>4, FinishesInv
<1> QED
  BY <1>4, <1>5

LEMMA SummarizeInv == ASSUME SuiteInv, Summarize PROVE SuiteInv'
<1> USE DEF SuiteInv
<1>1. UNCHANGED <<host, source, child, output, made, results>>
  BY DEF Summarize
<1>2. results \in Seq(Results) /\ Len(results) = Len(Gates)
  BY GateFacts DEF Summarize, Typed, SuiteTypeOK, Turn
<1>3. report' = IF (\A r \in Range(results) : Counted(r)) /\ Balanced(Totals)
                THEN "summary" ELSE "raised"
  BY DEF Summarize
<1>4. (\A r \in Range(results) : Counted(r)) <=> \A i \in DOMAIN results : Counted(results[i])
  BY DEF Range
<1>5. (\A i \in DOMAIN results : Counted(results[i])) => Balanced(Totals)
  BY <1>2, CountedSuitesBalance
<1>6. report' = "summary" <=> \A i \in DOMAIN results : Counted(results[i])
  BY <1>3, <1>4, <1>5
<1>7. Reported'
  BY <1>1, <1>2, <1>6 DEF Reported, Counted
<1>8. report' \in {"summary", "raised"}
  BY <1>3
<1>9. Typed'
  BY <1>1, <1>8 DEF Typed, SuiteTypeOK, Turn
<1> QED
  BY <1>1, <1>7, <1>9 DEF Nonces, EvidenceIsOwn

LEMMA SuiteStep == SuiteInv /\ [SuiteNext]_svars => SuiteInv'
<1> SUFFICES ASSUME SuiteInv, [SuiteNext]_svars PROVE SuiteInv'
  OBVIOUS
<1>1. CASE ScriptMissing
  <2>1. Turn <= Len(Gates) /\ Finishes(Lost("MISSING"))
    BY <1>1 DEF ScriptMissing, Unfinished
  <2> QED
    BY <2>1, LostInv
<1>2. CASE Spawn
  BY <1>2, SpawnInv
<1>3. CASE PrintsOwn
  BY <1>3, PrintsOwnInv
<1>4. CASE PrintsKept
  BY <1>4, PrintsKeptInv
<1>5. CASE Exits
  BY <1>5, ExitsInv
<1>6. CASE TimesOut
  <2>1. Turn <= Len(Gates) /\ Finishes(Lost("TIMEOUT"))
    BY <1>6, OwnTurn DEF TimesOut
  <2> QED
    BY <2>1, LostInv
<1>7. CASE LaunchRaises
  <2>1. Turn <= Len(Gates) /\ Finishes(Lost("FAIL"))
    BY <1>7, OwnTurn DEF LaunchRaises
  <2> QED
    BY <2>1, LostInv
<1>8. CASE Edits
  <2>1. source' \in 0 .. MaxEdits
    BY <1>8, GateFacts DEF Edits, SuiteInv, Typed, SuiteTypeOK
  <2> QED
    BY <1>8, <2>1 DEF Edits, SuiteInv, Typed, SuiteTypeOK, Turn, Nonces, EvidenceIsOwn, Reported
<1>9. CASE Summarize
  BY <1>9, SummarizeInv
<1>10. CASE Refuses
  BY <1>10 DEF Refuses, SuiteInv, Typed, SuiteTypeOK, Turn, Nonces, EvidenceIsOwn, Reported
<1>11. CASE UNCHANGED svars
  BY <1>11 DEF svars, SuiteInv, Typed, SuiteTypeOK, Turn, Nonces, EvidenceIsOwn, Reported,
               Counted
<1> QED
  BY <1>1, <1>2, <1>3, <1>4, <1>5, <1>6, <1>7, <1>8, <1>9, <1>10, <1>11 DEF SuiteNext

-----------------------------------------------------------------------------
(* The inductive invariant holds in every state of the suite               *)
(* (run_all_silicon_tests.py, execute_suite).                              *)
THEOREM SuiteInvariance == SuiteSpec => []SuiteInv
  BY SuiteInitInv, SuiteStep, PTL DEF SuiteSpec

(* Gates run in their order, one at a time and each of them once, and a    *)
(* result has natural counts, a status and a record or none                *)
(* (run_single_gate, GateExecutionResult).                                 *)
THEOREM SuiteTypes == SuiteSpec => []SuiteTypeOK
<1>1. SuiteInv => SuiteTypeOK
  BY DEF SuiteInv, Typed
<1> QED
  BY <1>1, SuiteInvariance, PTL

(* Whatever the children print, and whoever edits the sources: a gate's    *)
(* evidence is a record its own child made in this execution, of a full    *)
(* set of passed cases (parse_gate_output).                                *)
THEOREM EvidenceIsFresh == SuiteSpec => []EvidenceIsOwn
<1>1. SuiteInv => EvidenceIsOwn
  BY DEF SuiteInv
<1> QED
  BY <1>1, SuiteInvariance, PTL

(* The summary is given exactly when each gate was blocked or left a       *)
(* record of all its cases: the partition of the cases never fails by      *)
(* itself (summarize_suite_execution, SuiteAccountingSummary).             *)
THEOREM SummariesAreComplete == SuiteSpec => []SummaryOfCompleteSuites
<1>1. SuiteInv => SummaryOfCompleteSuites
  <2> SUFFICES ASSUME SuiteInv, report \in {"summary", "raised"}
               PROVE  report = "summary" <=>
                        \A r \in Range(results) :
                          IF r.record = NoRecord THEN r.status = "BLOCKED"
                          ELSE Cases(r.record.claims) = Selected
    BY DEF SummaryOfCompleteSuites
  <2>1. \A r \in Range(results) : r \in Results
    BY DEF SuiteInv, Typed, Range
  <2>2. report = "summary" <=> \A r \in Range(results) : Counted(r)
    BY DEF SuiteInv, Reported, Range
  <2> QED
    BY <2>1, <2>2, CountedResults
<1> QED
  BY <1>1, SuiteInvariance, PTL
=============================================================================
