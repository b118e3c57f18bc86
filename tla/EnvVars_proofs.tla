--------------------------- MODULE EnvVars_proofs ---------------------------
(* What the three ways to merge environment variables yield, for lists of *)
(* any length.  A fold is followed list by list; induction is over the    *)
(* least counterexample.                                                  *)
EXTENDS EnvVars, WellFoundedInduction, FiniteSetTheorems, TLAPS

----------------------------------------------------------------------------
(* Least and largest *)

\* A set of naturals has a least element: induction in first-order form.
LEMMA LeastNatural ==
    ASSUME NEW T, T \subseteq Nat, T # {}
    PROVE  \E m \in T : \A n \in T : m <= n
  <1>1. IsWellFoundedOn(OpToRel(<, Nat), Nat)
    BY Zenon, NatLessThanWellFounded
  <1>2. PICK m \in T : \A n \in T : ~(<<n, m>> \in OpToRel(<, Nat))
    BY Zenon, <1>1, WFMin
  <1>3. \A n \in Nat : n < m => <<n, m>> \in OpToRel(<, Nat)
    BY Zenon DEF OpToRel
  <1>4. \A n \in T : ~(n < m)
    BY Zenon, <1>2, <1>3
  <1> QED
    BY <1>4

\* Induction up to n, over the set of the naturals for which the claim holds.
LEMMA UpTo ==
    ASSUME NEW n \in Nat, NEW T, 0 \in T, \A k \in 0..(n - 1) : k \in T => k + 1 \in T
    PROVE  n \in T
  <1> DEFINE U == {k \in 0..n : k \notin T}
  <1>1. U = {}
    <2> SUFFICES ASSUME U # {} PROVE FALSE
      BY Zenon
    <2>1. U \subseteq Nat
      OBVIOUS
    <2>2. PICK m \in U : \A k \in U : m <= k
      BY Zenon, <2>1, LeastNatural
    <2>3. m \in 0..n /\ m # 0
      BY Zenon
    <2>4. m - 1 \in 0..n /\ m - 1 \in 0..(n - 1) /\ ~(m <= m - 1) /\ (m - 1) + 1 = m
      BY <2>3
    <2>5. m - 1 \in T
      BY Zenon, <2>2, <2>4
    <2>6. m \in T
      BY Zenon, <2>4, <2>5
    <2> QED
      BY Zenon, <2>6
  <1>2. n \in 0..n
    OBVIOUS
  <1> QED
    BY Zenon, <1>1, <1>2

\* The Max of the library is one of the set, and no other is larger.
LEMMA Largest ==
    ASSUME NEW Limit \in Nat, NEW S, S \subseteq -Limit..Limit, S # {}
    PROVE  Max(S) \in S /\ \A y \in S : Max(S) >= y
  <1> DEFINE T == {n \in Nat : Limit - n \in S}
  <1>1. \A y \in S : Limit - y \in T
    BY DEF T
  <1>2. T # {}
    BY Zenon, <1>1
  <1>3. PICK m \in T : \A n \in T : m <= n
    BY Zenon, <1>2, LeastNatural
  <1>4. Limit - m \in S /\ \A y \in S : Limit - m >= y
    <2>1. Limit - m \in S /\ m \in Nat
      BY Zenon DEF T
    <2>2. ASSUME NEW y \in S PROVE Limit - m >= y
      <3>1. y \in Int /\ m <= Limit - y
        BY <1>1, <1>3
      <3> QED
        BY <2>1, <3>1
    <2> QED
      BY Zenon, <2>1, <2>2
  <1> QED
    BY Zenon, <1>4 DEF Max

\* So is its Min.
LEMMA Smallest ==
    ASSUME NEW S, S \subseteq Nat, S # {}
    PROVE  Min(S) \in S
  <1>1. PICK m \in S : \A n \in S : m <= n
    BY Zenon, LeastNatural
  <1>2. \E x \in S : \A y \in S : x <= y
    BY Zenon, <1>1
  <1> QED
    BY Zenon, <1>2 DEF Min

----------------------------------------------------------------------------
(* Folds *)

\* What a fold does with the next variable: the three ways to merge lists.
Step(kind, own, seq, v) ==
    CASE kind = "merge"   -> MergeVar(seq, v)
      [] kind = "update"  -> UpdateVar(seq, v)
      [] kind = "inherit" -> InheritVar(own, seq, v)

\* What the fold over list yields for the indices s, f being what it yields for fewer.
Fold(kind, own, base, list, f, s) ==
    IF s = {} THEN base ELSE Step(kind, own, f[s \ {Max(s)}], list[Max(s)])

\* f solves that recursion for the subsets of D.
Solves(kind, own, base, list, D, f) == f = [s \in SUBSET D |-> Fold(kind, own, base, list, f, s)]

\* It has a solution.
LEMMA FoldExists ==
    ASSUME NEW kind, NEW own, NEW base, NEW list, NEW n \in Nat
    PROVE  \E f : Solves(kind, own, base, list, 1..n, f)
  <1> DEFINE P(k) == \E f : f = [s \in SUBSET (1..k) |-> Fold(kind, own, base, list, f, s)]
             T == {k \in Nat : P(k)}
  <1>1. P(0)
    <2> DEFINE g == [s \in SUBSET (1..0) |-> base]
    <2>1. g = [s \in SUBSET (1..0) |-> Fold(kind, own, base, list, g, s)]
      BY DEF Fold
    <2> QED
      BY Zenon, <2>1
  <1>2. ASSUME NEW k \in Nat, P(k) PROVE P(k + 1)
    <2>1. PICK f : f = [s \in SUBSET (1..k) |-> Fold(kind, own, base, list, f, s)]
      BY Zenon, <1>2
    <2> DEFINE g == [s \in SUBSET (1..k+1) |-> IF k + 1 \in s THEN Step(kind, own, f[s \ {k + 1}], list[k + 1]) ELSE f[s]]
    <2>2. ASSUME NEW s \in SUBSET (1..k+1) PROVE g[s] = Fold(kind, own, base, list, g, s)
      <3>1. CASE k + 1 \in s
        <4>1. Max(s) = k + 1
          <5>1. k + 1 \in Nat /\ s \subseteq -(k+1)..(k+1) /\ s # {}
            BY <3>1
          <5>2. Max(s) \in s /\ \A y \in s : Max(s) >= y
            BY Zenon, <5>1, Largest
          <5>3. Max(s) \in Int /\ Max(s) <= k + 1
            <6>1. \A y \in 1..k+1 : y \in Int /\ y <= k + 1
              OBVIOUS
            <6> QED
              BY Zenon, <5>2, <6>1
          <5>4. Max(s) >= k + 1
            BY Zenon, <3>1, <5>2
          <5> QED
            BY <5>3, <5>4
        <4>2. s \ {k + 1} \in SUBSET (1..k) /\ s \ {k + 1} \in SUBSET (1..k+1) /\ k + 1 \notin s \ {k + 1}
          OBVIOUS
        <4>3. g[s \ {k + 1}] = f[s \ {k + 1}]
          BY Zenon, <4>2
        <4> QED
          BY Zenon, <3>1, <4>1, <4>3 DEF Fold
      <3>2. CASE k + 1 \notin s /\ s # {}
        <4>1. s \in SUBSET (1..k)
          BY <3>2
        <4>2. s \ {Max(s)} \in SUBSET (1..k) /\ s \ {Max(s)} \in SUBSET (1..k+1) /\ k + 1 \notin s \ {Max(s)}
          BY Zenon, <4>1, <3>2
        <4>3. g[s] = f[s] /\ g[s \ {Max(s)}] = f[s \ {Max(s)}]
          BY Zenon, <3>2, <4>2
        <4>4. f[s] = Fold(kind, own, base, list, f, s)
          BY Zenon, <2>1, <4>1
        <4> QED
          BY Zenon, <3>2, <4>3, <4>4 DEF Fold
      <3>3. CASE s = {}
        <4>1. s \in SUBSET (1..k) /\ k + 1 \notin s
          BY Zenon, <3>3
        <4>2. g[s] = f[s] /\ f[s] = Fold(kind, own, base, list, f, s)
          BY Zenon, <2>1, <4>1
        <4> QED
          BY Zenon, <3>3, <4>2 DEF Fold
      <3> QED
        BY Zenon, <3>1, <3>2, <3>3
    <2>3. g = [s \in SUBSET (1..k+1) |-> Fold(kind, own, base, list, g, s)]
      BY Zenon, <2>2
    <2> QED
      BY Zenon, <2>3
  <1> HIDE DEF P
  <1>3. 0 \in T
    BY Zenon, <1>1
  <1>4. \A k \in 0..(n - 1) : k \in Nat /\ k + 1 \in Nat
    OBVIOUS
  <1>5. \A k \in 0..(n - 1) : k \in T => k + 1 \in T
    BY Zenon, <1>2, <1>4
  <1>6. n \in T
    BY Zenon, <1>3, <1>5, UpTo
  <1> QED
    BY Zenon, <1>6 DEF Solves, P

LEMMA FoldSolved ==
    ASSUME NEW V, NEW kind, NEW own, NEW base, NEW list \in Seq(V)
    PROVE  \E f : Solves(kind, own, base, list, DOMAIN list, f)
  <1>1. DOMAIN list = 1..Len(list) /\ Len(list) \in Nat
    OBVIOUS
  <1> QED
    BY Zenon, <1>1, FoldExists

\* r holds the lists that a fold passes through, one for each variable.
Trace(kind, own, base, list, r) ==
    r[0] = base /\ \A k \in 1..Len(list) : r[k] = Step(kind, own, r[k - 1], list[k])

\* Any solution passes through such lists.
LEMMA SolutionTrace ==
    ASSUME NEW V, NEW kind, NEW own, NEW base, NEW list \in Seq(V),
           NEW f, Solves(kind, own, base, list, DOMAIN list, f)
    PROVE  \E r : r[Len(list)] = f[DOMAIN list] /\ Trace(kind, own, base, list, r)
  <1> DEFINE n == Len(list)
             r == [k \in 0..n |-> f[1..k]]
  <1>1. n \in Nat /\ DOMAIN list = 1..n
    OBVIOUS
  <1>2. f = [s \in SUBSET (1..n) |-> Fold(kind, own, base, list, f, s)]
    BY Zenon, <1>1 DEF Solves
  <1> HIDE DEF n
  <1>4. r[0] = base
    <2>1. 1..0 = {} /\ 0 \in 0..n
      BY <1>1
    <2>2. f[{}] = Fold(kind, own, base, list, f, {})
      BY Zenon, <1>2
    <2> QED
      BY Zenon, <2>1, <2>2 DEF Fold
  <1>5. ASSUME NEW k \in 1..n PROVE r[k] = Step(kind, own, r[k - 1], list[k])
    <2>1. k \in 0..n /\ k - 1 \in 0..n /\ 1..k \in SUBSET (1..n) /\ 1..k # {} /\ (1..k) \ {k} = 1..(k - 1)
      <3>1. k \in 0..n /\ k - 1 \in 0..n /\ k \in 1..k
        BY <1>1
      <3>2. \A i \in 1..k : i \in 1..n
        BY <1>1
      <3>3. \A i : i \in (1..k) \ {k} <=> i \in 1..(k - 1)
        BY <1>1
      <3> QED
        BY Zenon, <3>1, <3>2, <3>3
    <2>2. Max(1..k) = k
      <3>1. k \in Nat /\ 1..k \subseteq -k..k /\ k \in 1..k
        BY <1>1
      <3>2. Max(1..k) \in 1..k /\ Max(1..k) >= k
        BY Zenon, <2>1, <3>1, Largest
      <3> QED
        BY <3>1, <3>2
    <2>3. f[1..k] = Fold(kind, own, base, list, f, 1..k)
      BY Zenon, <1>2, <2>1
    <2>4. f[1..k] = Step(kind, own, f[1..(k - 1)], list[k])
      BY Zenon, <2>1, <2>2, <2>3 DEF Fold
    <2> QED
      BY Zenon, <2>1, <2>4
  <1>6. r[n] = f[1..n]
    BY <1>1
  <1> HIDE DEF r
  <1> QED
    BY Zenon, <1>1, <1>4, <1>5, <1>6 DEF n, Trace

\* The three folds of the model pass through such lists.
LEMMA MergeTrace ==
    ASSUME NEW V, NEW given, NEW own \in Seq(V)
    PROVE  \E r : MergeEnvVars(given, own) = r[Len(own)] /\ Trace("merge", own, given, own, r)
  <1> DEFINE D == SUBSET DOMAIN own
             Once(g, s) == IF s = {} THEN given ELSE MergeVar(g[s \ {Max(s)}], own[Max(s)])
             f == CHOOSE g : g = [s \in D |-> Once(g, s)]
  <1>1. MergeEnvVars(given, own) = f[DOMAIN own]
    BY Zenon DEF MergeEnvVars, FoldLeft, MapThenFoldSet
  <1>2. \A g, s : Once(g, s) = Fold("merge", own, given, own, g, s)
    BY Zenon DEF Fold, Step
  <1>3. \E g : g = [s \in D |-> Once(g, s)]
    <2>1. PICK g : Solves("merge", own, given, own, DOMAIN own, g)
      BY Zenon, FoldSolved
    <2> HIDE DEF Once
    <2>2. g = [s \in D |-> Once(g, s)]
      BY Zenon, <1>2, <2>1 DEF Solves
    <2> QED
      BY Zenon, <2>2
  <1>4. f = [s \in D |-> Once(f, s)]
    BY Zenon, <1>3
  <1> HIDE DEF f, Once
  <1>5. Solves("merge", own, given, own, DOMAIN own, f)
    BY Zenon, <1>2, <1>4 DEF Solves
  <1> QED
    BY Zenon, <1>1, <1>5, SolutionTrace

LEMMA UpdateTrace ==
    ASSUME NEW V, NEW given, NEW own \in Seq(V)
    PROVE  \E r : updateEnvVars(given, own) = r[Len(own)] /\ Trace("update", own, given, own, r)
  <1> DEFINE D == SUBSET DOMAIN own
             Once(g, s) == IF s = {} THEN given ELSE UpdateVar(g[s \ {Max(s)}], own[Max(s)])
             f == CHOOSE g : g = [s \in D |-> Once(g, s)]
  <1>1. updateEnvVars(given, own) = f[DOMAIN own]
    BY Zenon DEF updateEnvVars, FoldLeft, MapThenFoldSet
  <1>2. \A g, s : Once(g, s) = Fold("update", own, given, own, g, s)
    BY Zenon DEF Fold, Step
  <1>3. \E g : g = [s \in D |-> Once(g, s)]
    <2>1. PICK g : Solves("update", own, given, own, DOMAIN own, g)
      BY Zenon, FoldSolved
    <2> HIDE DEF Once
    <2>2. g = [s \in D |-> Once(g, s)]
      BY Zenon, <1>2, <2>1 DEF Solves
    <2> QED
      BY Zenon, <2>2
  <1>4. f = [s \in D |-> Once(f, s)]
    BY Zenon, <1>3
  <1> HIDE DEF f, Once
  <1>5. Solves("update", own, given, own, DOMAIN own, f)
    BY Zenon, <1>2, <1>4 DEF Solves
  <1> QED
    BY Zenon, <1>1, <1>5, SolutionTrace

LEMMA InheritTrace ==
    ASSUME NEW V, NEW ic, ic.inheritEnv, NEW vars \in Seq(V)
    PROVE  \E r : InitVars(ic, vars) = r[Len(vars)] /\ Trace("inherit", ic.env, ic.env, vars, r)
  <1> DEFINE D == SUBSET DOMAIN vars
             Once(g, s) == IF s = {} THEN ic.env ELSE InheritVar(ic.env, g[s \ {Max(s)}], vars[Max(s)])
             f == CHOOSE g : g = [s \in D |-> Once(g, s)]
  <1>1. InitVars(ic, vars) = f[DOMAIN vars]
    BY Zenon DEF InitVars, FoldLeft, MapThenFoldSet
  <1>2. \A g, s : Once(g, s) = Fold("inherit", ic.env, ic.env, vars, g, s)
    BY Zenon DEF Fold, Step
  <1>3. \E g : g = [s \in D |-> Once(g, s)]
    <2>1. PICK g : Solves("inherit", ic.env, ic.env, vars, DOMAIN vars, g)
      BY Zenon, FoldSolved
    <2> HIDE DEF Once
    <2>2. g = [s \in D |-> Once(g, s)]
      BY Zenon, <1>2, <2>1 DEF Solves
    <2> QED
      BY Zenon, <2>2
  <1>4. f = [s \in D |-> Once(f, s)]
    BY Zenon, <1>3
  <1> HIDE DEF f, Once
  <1>5. Solves("inherit", ic.env, ic.env, vars, DOMAIN vars, f)
    BY Zenon, <1>2, <1>4 DEF Solves
  <1> QED
    BY Zenon, <1>1, <1>5, SolutionTrace

----------------------------------------------------------------------------
(* The variables of a sidecar *)

\* No two variables of the list have the same name.
Distinct(list) == \A i, j \in DOMAIN list : list[i][1] = list[j][1] => i = j

\* v is the last of its name among the first k of own, but for those with a
\* value in blank, which are not merged; none of them has its name.
Latest(blank, own, k, v) ==
    \E j \in 1..k : own[j] = v /\ v[2] \notin blank /\ \A m \in (j + 1)..k : own[m][1] = v[1] => own[m][2] \in blank
Untouched(blank, own, k, v) == \A j \in 1..k : own[j][1] = v[1] => own[j][2] \in blank

\* list is given with the first k of own merged in.
Merged(blank, V, given, own, k, list) ==
    /\ list \in Seq(V) /\ Distinct(list)
    /\ \A i \in DOMAIN list : \/ Latest(blank, own, k, list[i])
                              \/ Untouched(blank, own, k, list[i]) /\ list[i] \in ToSet(given)
    /\ \A v \in ToSet(given) : v[1] \in Names(list)
    /\ \A j \in 1..k : own[j][2] \in blank \/ own[j][1] \in Names(list)

\* Nothing merged yet.
LEMMA NoneMerged ==
    ASSUME NEW blank, NEW V, NEW given \in Seq(V), Distinct(given), NEW own
    PROVE  Merged(blank, V, given, own, 0, given)
  <1>1. 1..0 = {}
    OBVIOUS
  <1>2. \A i \in DOMAIN given : given[i] \in ToSet(given) /\ Untouched(blank, own, 0, given[i])
    BY Zenon, <1>1 DEF ToSet, Untouched
  <1>3. \A v \in ToSet(given) : v[1] \in Names(given)
    BY Zenon DEF Names
  <1> QED
    BY Zenon, <1>1, <1>2, <1>3 DEF Merged

\* A variable of another name, or one that is not merged, changes neither.
LEMMA OtherName ==
    ASSUME NEW blank, NEW own, NEW k \in Nat, NEW v, own[k + 1][1] # v[1] \/ own[k + 1][2] \in blank
    PROVE  /\ Latest(blank, own, k, v) => Latest(blank, own, k + 1, v)
           /\ Untouched(blank, own, k, v) => Untouched(blank, own, k + 1, v)
  <1>1. \A j \in 1..(k + 1) : j \in 1..k \/ j = k + 1
    OBVIOUS
  <1>2. ASSUME Latest(blank, own, k, v) PROVE Latest(blank, own, k + 1, v)
    <2>1. PICK j \in 1..k : /\ own[j] = v /\ v[2] \notin blank
                            /\ \A m \in (j + 1)..k : own[m][1] = v[1] => own[m][2] \in blank
      BY Zenon, <1>2 DEF Latest
    <2>2. j \in 1..(k + 1) /\ \A m \in (j + 1)..(k + 1) : m \in (j + 1)..k \/ m = k + 1
      OBVIOUS
    <2> QED
      BY Zenon, <2>1, <2>2 DEF Latest
  <1> QED
    BY Zenon, <1>1, <1>2 DEF Untouched

\* The variable that comes next is the last of its name.
LEMMA NewestLast ==
    ASSUME NEW blank, NEW own, NEW k \in Nat, own[k + 1][2] \notin blank
    PROVE  Latest(blank, own, k + 1, own[k + 1])
  <1>1. k + 1 \in 1..(k + 1) /\ (k + 1 + 1)..(k + 1) = {}
    OBVIOUS
  <1> QED
    BY Zenon, <1>1 DEF Latest

\* A variable that is not merged leaves the list as it should be.
LEMMA BlankStep ==
    ASSUME NEW blank, NEW V, NEW given, NEW own, NEW k \in Nat, NEW list,
           Merged(blank, V, given, own, k, list), own[k + 1][2] \in blank
    PROVE  Merged(blank, V, given, own, k + 1, list)
  <1>1. \A j \in 1..(k + 1) : j \in 1..k \/ j = k + 1
    OBVIOUS
  <1>2. \A j \in 1..(k + 1) : own[j][2] \in blank \/ own[j][1] \in Names(list)
    BY Zenon, <1>1 DEF Merged
  <1>3. \A i \in DOMAIN list : \/ Latest(blank, own, k + 1, list[i])
                               \/ Untouched(blank, own, k + 1, list[i]) /\ list[i] \in ToSet(given)
    BY Zenon, OtherName DEF Merged
  <1> QED
    BY Zenon, <1>2, <1>3 DEF Merged

\* The names of a list, by index.
LEMMA NamesByIndex ==
    ASSUME NEW list, NEW name
    PROVE  name \in Names(list) <=> \E i \in DOMAIN list : list[i][1] = name
  BY Zenon DEF Names, ToSet

\* The first variable of a name has it.
LEMMA FirstHasName ==
    ASSUME NEW V, NEW list \in Seq(V), NEW name \in Names(list)
    PROVE  FirstNamed(list, name) \in DOMAIN list /\ list[FirstNamed(list, name)][1] = name
  <1> DEFINE S == {i \in DOMAIN list : list[i][1] = name}
  <1>1. S # {}
    BY Zenon, NamesByIndex
  <1>2. S \subseteq Nat
    OBVIOUS
  <1>3. Min(S) \in S
    BY Zenon, <1>1, <1>2, Smallest
  <1> QED
    BY Zenon, <1>3 DEF FirstNamed

\* Each variable of the app is merged in turn.
LEMMA MergeStep ==
    ASSUME NEW blank, NEW V, NEW given, NEW own \in Seq(V), NEW k \in Nat, k < Len(own), NEW list,
           Merged(blank, V, given, own, k, list), own[k + 1][2] \notin blank
    PROVE  Merged(blank, V, given, own, k + 1, MergeVar(list, own[k + 1]))
  <1> DEFINE v == own[k + 1]
             next == MergeVar(list, v)
  <1>1. v \in V /\ list \in Seq(V) /\ Distinct(list) /\ DOMAIN list = 1..Len(list)
    BY DEF Merged
  <1>2. Latest(blank, own, k + 1, v)
    BY Zenon, NewestLast
  <1>3. ASSUME NEW i \in DOMAIN list, list[i][1] # v[1]
        PROVE  Latest(blank, own, k + 1, list[i]) \/ (Untouched(blank, own, k + 1, list[i]) /\ list[i] \in ToSet(given))
    BY Zenon, <1>3, OtherName DEF Merged
  <1>4. \A j \in 1..(k + 1) : j \in 1..k \/ j = k + 1
    OBVIOUS
  <1>5. CASE v[1] \in Names(list)
    <2> DEFINE p == FirstNamed(list, v[1])
    <2>1. p \in DOMAIN list /\ list[p][1] = v[1]
      BY Zenon, <1>1, <1>5, FirstHasName
    <2>2. next = [list EXCEPT ![p] = v]
      BY Zenon, <1>5 DEF MergeVar
    <2> HIDE DEF p, next, v
    <2>3. /\ next \in Seq(V) /\ DOMAIN next = DOMAIN list /\ next[p] = v
          /\ \A i \in DOMAIN list : i # p => next[i] = list[i] /\ list[i][1] # v[1]
      BY <1>1, <2>1, <2>2 DEF Distinct
    <2>4. \A i \in DOMAIN list : next[i][1] = list[i][1]
      BY Zenon, <2>1, <2>3
    <2>5. Distinct(next) /\ \A name : name \in Names(next) <=> name \in Names(list)
      <3>1. Distinct(next)
        BY Zenon, <1>1, <2>3, <2>4 DEF Distinct
      <3>2. ASSUME NEW name PROVE name \in Names(next) <=> name \in Names(list)
        BY <2>3, <2>4, NamesByIndex
      <3> QED
        BY Zenon, <3>1, <3>2
    <2>6. \A i \in DOMAIN next : \/ Latest(blank, own, k + 1, next[i])
                                 \/ Untouched(blank, own, k + 1, next[i]) /\ next[i] \in ToSet(given)
      BY Zenon, <1>2, <1>3, <2>3
    <2>7. \A j \in 1..(k + 1) : own[j][2] \in blank \/ own[j][1] \in Names(next)
      BY Zenon, <1>4, <1>5, <2>5 DEF Merged, v
    <2> QED
      BY Zenon, <2>3, <2>5, <2>6, <2>7 DEF Merged, next, v
  <1>6. CASE v[1] \notin Names(list)
    <2>1. next = Append(list, v)
      BY Zenon, <1>6 DEF MergeVar
    <2>2. \A i \in DOMAIN list : list[i][1] # v[1]
      BY Zenon, <1>6, NamesByIndex
    <2> HIDE DEF next, v
    <2>3. /\ next \in Seq(V) /\ DOMAIN next = 1..(Len(list) + 1) /\ next[Len(list) + 1] = v
          /\ \A i \in DOMAIN list : i \in DOMAIN next /\ next[i] = list[i]
          /\ \A i \in DOMAIN next : i \in DOMAIN list \/ i = Len(list) + 1
          /\ Len(list) + 1 \in DOMAIN next
      BY <1>1, <2>1
    <2>4. Distinct(next)
      BY Zenon, <1>1, <2>2, <2>3 DEF Distinct
    <2>5. v[1] \in Names(next) /\ \A name \in Names(list) : name \in Names(next)
      BY <2>3, NamesByIndex
    <2>6. \A i \in DOMAIN next : \/ Latest(blank, own, k + 1, next[i])
                                 \/ Untouched(blank, own, k + 1, next[i]) /\ next[i] \in ToSet(given)
      BY Zenon, <1>2, <1>3, <2>2, <2>3
    <2>7. \A j \in 1..(k + 1) : own[j][2] \in blank \/ own[j][1] \in Names(next)
      BY Zenon, <1>4, <2>5 DEF Merged, v
    <2>8. \A u \in ToSet(given) : u[1] \in Names(next)
      BY Zenon, <2>5 DEF Merged
    <2> QED
      BY Zenon, <2>3, <2>4, <2>6, <2>7, <2>8 DEF Merged, next, v
  <1> QED
    BY Zenon, <1>5, <1>6

\* The value of a name is that of the last variable of that name.
LEMMA ValueIsLast ==
    ASSUME NEW V, NEW list \in Seq(V), NEW name \in Names(list)
    PROVE  \E i \in DOMAIN list : /\ list[i][1] = name /\ Value(list, name) = list[i][2]
                                  /\ \A j \in DOMAIN list : list[j][1] = name => j <= i
  <1> DEFINE S == {i \in DOMAIN list : list[i][1] = name}
  <1>1. Len(list) \in Nat /\ S \subseteq -Len(list)..Len(list) /\ DOMAIN list = 1..Len(list)
    OBVIOUS
  <1>2. S # {}
    BY Zenon, NamesByIndex
  <1>3. Max(S) \in S /\ \A j \in S : Max(S) >= j
    BY Zenon, <1>1, <1>2, Largest
  <1>4. \A j \in S : j <= Max(S)
    BY Zenon, <1>1, <1>3
  <1>5. Value(list, name) = list[Max(S)][2]
    BY Zenon DEF Value
  <1> HIDE DEF Value
  <1> QED
    BY Zenon, <1>3, <1>4, <1>5

\* Once all of own is merged, the list has the values of own, and those of
\* given that own does not set.
LEMMA MergedOverrides ==
    ASSUME NEW V, NEW given \in Seq(V), Distinct(given), NEW own \in Seq(V),
           NEW list, Merged({}, V, given, own, Len(own), list)
    PROVE  Overrides(list, own, given)
  <1>1. list \in Seq(V) /\ DOMAIN own = 1..Len(own) /\ Len(own) \in Nat
    BY DEF Merged
  <1>2. \A i \in DOMAIN list : \/ \E j \in DOMAIN own : /\ own[j] = list[i]
                                                        /\ \A m \in DOMAIN own : m > j => own[m][1] # list[i][1]
                               \/ list[i][1] \notin Names(own) /\ list[i] \in ToSet(given)
    <2> SUFFICES ASSUME NEW i \in DOMAIN list
                 PROVE  \/ \E j \in DOMAIN own : /\ own[j] = list[i]
                                                 /\ \A m \in DOMAIN own : m > j => own[m][1] # list[i][1]
                        \/ list[i][1] \notin Names(own) /\ list[i] \in ToSet(given)
      BY Zenon
    <2>1. CASE Latest({}, own, Len(own), list[i])
      <3>1. PICK j \in 1..Len(own) : own[j] = list[i] /\ \A m \in (j + 1)..Len(own) : own[m][1] # list[i][1]
        BY Zenon, <2>1 DEF Latest
      <3>2. \A m \in DOMAIN own : m > j => m \in (j + 1)..Len(own)
        BY <1>1
      <3> QED
        BY Zenon, <1>1, <3>1, <3>2
    <2>2. CASE Untouched({}, own, Len(own), list[i]) /\ list[i] \in ToSet(given)
      <3>1. \A j \in DOMAIN own : own[j][1] # list[i][1]
        BY Zenon, <1>1, <2>2 DEF Untouched
      <3>2. list[i][1] \notin Names(own)
        BY <3>1, NamesByIndex
      <3> QED
        BY Zenon, <2>2, <3>2
    <2> QED
      BY Zenon, <2>1, <2>2 DEF Merged
  <1>3. \A name : name \in Names(list) <=> name \in Names(own) \union Names(given)
    <2> SUFFICES ASSUME NEW name PROVE name \in Names(list) <=> name \in Names(own) \union Names(given)
      BY Zenon
    <2>1. ASSUME name \in Names(list) PROVE name \in Names(own) \union Names(given)
      <3>1. PICK i \in DOMAIN list : list[i][1] = name
        BY Zenon, <2>1, NamesByIndex
      <3>2. CASE list[i] \in ToSet(given)
        BY Zenon, <3>1, <3>2 DEF Names
      <3>3. CASE \E j \in DOMAIN own : own[j] = list[i]
        BY Zenon, <3>1, <3>3, NamesByIndex
      <3> QED
        BY Zenon, <1>2, <3>2, <3>3
    <2>2. ASSUME name \in Names(own) PROVE name \in Names(list)
      BY <1>1, <2>2, NamesByIndex DEF Merged
    <2>3. ASSUME name \in Names(given) PROVE name \in Names(list)
      <3>1. PICK u \in ToSet(given) : u[1] = name
        BY Zenon, <2>3 DEF Names
      <3> QED
        BY Zenon, <3>1 DEF Merged
    <2> QED
      BY Zenon, <2>1, <2>2, <2>3
  <1>4. ASSUME NEW v \in ToSet(own) PROVE Value(list, v[1]) = Value(own, v[1])
    <2>1. v[1] \in Names(own) /\ v[1] \in Names(list)
      BY Zenon, <1>3 DEF Names
    <2>2. PICK i \in DOMAIN list : list[i][1] = v[1] /\ Value(list, v[1]) = list[i][2]
      BY Zenon, <1>1, <2>1, ValueIsLast
    <2>3. PICK q \in DOMAIN own : /\ own[q][1] = v[1] /\ Value(own, v[1]) = own[q][2]
                                  /\ \A j \in DOMAIN own : own[j][1] = v[1] => j <= q
      BY Zenon, <2>1, ValueIsLast
    <2>4. PICK j \in DOMAIN own : own[j] = list[i] /\ \A m \in DOMAIN own : m > j => own[m][1] # list[i][1]
      BY Zenon, <1>2, <2>1, <2>2
    <2>5. j <= q /\ ~(q > j)
      BY Zenon, <2>2, <2>3, <2>4
    <2>6. j = q
      BY <1>1, <2>5
    <2> QED
      BY Zenon, <2>2, <2>3, <2>4, <2>6
  <1>5. ASSUME NEW v \in ToSet(given), v[1] \notin Names(own) PROVE Value(list, v[1]) = Value(given, v[1])
    <2>1. v[1] \in Names(given) /\ v[1] \in Names(list)
      BY Zenon, <1>3 DEF Names
    <2>2. PICK i \in DOMAIN list : list[i][1] = v[1] /\ Value(list, v[1]) = list[i][2]
      BY Zenon, <1>1, <2>1, ValueIsLast
    <2>3. PICK q \in DOMAIN given : given[q][1] = v[1] /\ Value(given, v[1]) = given[q][2]
      BY Zenon, <2>1, ValueIsLast
    <2>4. list[i] \in ToSet(given)
      BY <1>2, <1>5, <2>2, NamesByIndex
    <2>5. PICK m \in DOMAIN given : given[m] = list[i]
      BY Zenon, <2>4 DEF ToSet
    <2>6. m = q
      BY Zenon, <2>2, <2>3, <2>5 DEF Distinct
    <2> QED
      BY Zenon, <2>2, <2>3, <2>5, <2>6
  <1> QED
    BY Zenon, <1>3, <1>4, <1>5 DEF Overrides

(* MergeEnvVars, which gives a sidecar the environment's variables and the *)
(* app's: the sidecar has the names of both, the app's value wherever the  *)
(* app sets one (its last, if it sets the name again), and else the value  *)
(* of the environment.  The environment's list must not name a variable    *)
(* twice: only the first of a name is replaced, and the last one counts.   *)
THEOREM MergeTheorem ==
    ASSUME NEW V, NEW vars \in Seq(V), Distinct(vars), NEW appVars \in Seq(V)
    PROVE  Overrides(MergeEnvVars(vars, appVars), appVars, vars)
  <1> DEFINE n == Len(appVars)
  <1>1. PICK r : MergeEnvVars(vars, appVars) = r[n] /\ Trace("merge", appVars, vars, appVars, r)
    BY Zenon, MergeTrace
  <1> DEFINE T == {k \in Nat : Merged({}, V, vars, appVars, k, r[k])}
  <1>2. n \in Nat /\ \A k \in 0..(n - 1) : k \in Nat /\ k + 1 \in Nat /\ k < n /\ k + 1 \in 1..n /\ (k + 1) - 1 = k
    OBVIOUS
  <1>3. 0 \in T
    BY Zenon, <1>1, NoneMerged DEF Trace
  <1>4. ASSUME NEW k \in 0..(n - 1), k \in T PROVE k + 1 \in T
    <2>1. Merged({}, V, vars, appVars, k + 1, MergeVar(r[k], appVars[k + 1]))
      BY Zenon, <1>2, <1>4, MergeStep
    <2>2. r[k + 1] = MergeVar(r[k], appVars[k + 1])
      BY Zenon, <1>1, <1>2 DEF Trace, Step
    <2> QED
      BY Zenon, <1>2, <2>1, <2>2
  <1>5. n \in T
    BY Zenon, <1>2, <1>3, <1>4, UpTo
  <1> QED
    BY Zenon, <1>1, <1>5, MergedOverrides

----------------------------------------------------------------------------
(* The variables of a test job *)

\* In a list without a name twice a new value replaces one variable.
LEMMA UpdateIsMerge ==
    ASSUME NEW V, NEW list \in Seq(V), Distinct(list), NEW v, v[2] # ""
    PROVE  UpdateVar(list, v) = MergeVar(list, v)
  <1>1. CASE v[1] \notin Names(list)
    BY Zenon, <1>1 DEF UpdateVar, MergeVar
  <1>2. CASE v[1] \in Names(list)
    <2> DEFINE p == FirstNamed(list, v[1])
               g == [i \in DOMAIN list |-> IF list[i][1] = v[1] THEN v ELSE list[i]]
    <2>1. p \in DOMAIN list /\ list[p][1] = v[1]
      BY Zenon, <1>2, FirstHasName
    <2>2. UpdateVar(list, v) = g /\ MergeVar(list, v) = [list EXCEPT ![p] = v]
      BY Zenon, <1>2 DEF UpdateVar, MergeVar
    <2> HIDE DEF p
    <2>3. \A i \in DOMAIN list : list[i][1] = v[1] <=> i = p
      BY Zenon, <2>1 DEF Distinct
    <2>4. [list EXCEPT ![p] = v] = g
      BY Zenon, <2>1, <2>3
    <2> QED
      BY Zenon, <2>2, <2>4
  <1> QED
    BY Zenon, <1>1, <1>2

\* A list without a name twice has as many names as variables.
LEMMA DistinctCount ==
    ASSUME NEW V, NEW list \in Seq(V), Distinct(list)
    PROVE  Cardinality(Names(list)) = Len(list)
  <1> DEFINE n == Len(list)
             P(k) == {list[i][1] : i \in 1..k}
             T == {k \in Nat : IsFiniteSet(P(k)) /\ Cardinality(P(k)) = k}
  <1>1. n \in Nat /\ DOMAIN list = 1..n
    OBVIOUS
  <1>2. 0 \in T
    <2>1. 1..0 = {}
      OBVIOUS
    <2>2. P(0) = {}
      BY Zenon, <2>1
    <2> HIDE DEF P
    <2> QED
      BY <2>2, FS_EmptySet
  <1>3. ASSUME NEW k \in 0..(n - 1), k \in T PROVE k + 1 \in T
    <2>1. k \in Nat /\ k + 1 \in Nat /\ k + 1 \in 1..n
      BY <1>1
    <2>2. \A i : i \in 1..(k + 1) <=> i \in 1..k \/ i = k + 1
      BY <2>1
    <2>3. P(k + 1) = P(k) \union {list[k + 1][1]}
      BY Zenon, <2>2
    <2>4. \A i \in 1..k : i \in 1..n /\ i # k + 1
      BY <1>1
    <2>5. list[k + 1][1] \notin P(k)
      BY Zenon, <1>1, <2>1, <2>4 DEF Distinct
    <2>6. IsFiniteSet(P(k)) /\ Cardinality(P(k)) = k
      BY Zenon, <1>3
    <2> HIDE DEF P
    <2>7. IsFiniteSet(P(k + 1)) /\ Cardinality(P(k + 1)) = k + 1
      <3>1. /\ IsFiniteSet(P(k) \union {list[k + 1][1]})
            /\ Cardinality(P(k) \union {list[k + 1][1]}) = Cardinality(P(k)) + 1
        BY Zenon, <2>5, <2>6, FS_AddElement
      <3> QED
        BY Zenon, <2>3, <2>6, <3>1
    <2> QED
      BY Zenon, <2>1, <2>7
  <1>4. n \in T
    BY Zenon, <1>1, <1>2, <1>3, UpTo
  <1>5. Names(list) = P(n)
    <2>1. \A name : name \in Names(list) <=> name \in P(n)
      BY Zenon, <1>1, NamesByIndex
    <2> QED
      BY Zenon, <2>1
  <1> QED
    BY Zenon, <1>4, <1>5

(* updateEnvVars, which gives a test job the variables of its invocation:  *)
(* from a list that names none twice it makes another such list, with the  *)
(* names of both but for variables given without a value.  Each variable   *)
(* is the last one with a value of its name among the new ones, or an old  *)
(* one for whose name no new value is given.                               *)
THEOREM UpdateTheorem ==
    ASSUME NEW V, NEW vars \in Seq(V), Distinct(vars), NEW newVars \in Seq(V)
    PROVE  LET list == updateEnvVars(vars, newVars)
           IN  /\ Cardinality(Names(list)) = Len(list)
               /\ Names(list) = Names(vars) \union {v[1] : v \in {u \in ToSet(newVars) : u[2] # ""}}
               /\ \A i \in DOMAIN list :
                    \/ Latest({""}, newVars, Len(newVars), list[i])
                    \/ Untouched({""}, newVars, Len(newVars), list[i]) /\ list[i] \in ToSet(vars)
  <1> DEFINE n == Len(newVars)
             list == updateEnvVars(vars, newVars)
             new == {u \in ToSet(newVars) : u[2] # ""}
  <1>1. PICK r : list = r[n] /\ Trace("update", newVars, vars, newVars, r)
    BY Zenon, UpdateTrace
  <1> DEFINE T == {k \in Nat : Merged({""}, V, vars, newVars, k, r[k])}
  <1>2. /\ n \in Nat /\ DOMAIN newVars = 1..n
        /\ \A k \in 0..(n - 1) : k \in Nat /\ k + 1 \in Nat /\ k < n /\ k + 1 \in 1..n /\ (k + 1) - 1 = k
    OBVIOUS
  <1>3. 0 \in T
    BY Zenon, <1>1, NoneMerged DEF Trace
  <1>4. ASSUME NEW k \in 0..(n - 1), k \in T PROVE k + 1 \in T
    <2>1. r[k] \in Seq(V) /\ Distinct(r[k]) /\ Merged({""}, V, vars, newVars, k, r[k])
      BY Zenon, <1>4 DEF Merged
    <2>2. r[k + 1] = UpdateVar(r[k], newVars[k + 1])
      BY Zenon, <1>1, <1>2 DEF Trace, Step
    <2>3. CASE newVars[k + 1][2] = ""
      <3>1. r[k + 1] = r[k]
        BY Zenon, <2>2, <2>3 DEF UpdateVar
      <3> QED
        BY Zenon, <1>2, <2>1, <2>3, <3>1, BlankStep
    <2>4. CASE newVars[k + 1][2] # ""
      <3>1. r[k + 1] = MergeVar(r[k], newVars[k + 1])
        BY Zenon, <2>1, <2>2, <2>4, UpdateIsMerge
      <3>2. Merged({""}, V, vars, newVars, k + 1, MergeVar(r[k], newVars[k + 1]))
        BY Zenon, <1>2, <2>1, <2>4, MergeStep
      <3> QED
        BY Zenon, <1>2, <3>1, <3>2
    <2> QED
      BY Zenon, <2>3, <2>4
  <1>5. n \in T
    BY Zenon, <1>2, <1>3, <1>4, UpTo
  <1> HIDE DEF list
  <1>6. Merged({""}, V, vars, newVars, n, list)
    BY Zenon, <1>1, <1>5
  <1> HIDE DEF n
  <1>7. Cardinality(Names(list)) = Len(list)
    BY Zenon, <1>6, DistinctCount DEF Merged
  <1>8. ASSUME NEW name PROVE name \in Names(list) <=> name \in Names(vars) \union {v[1] : v \in new}
    <2>1. ASSUME name \in Names(list) PROVE name \in Names(vars) \union {v[1] : v \in new}
      <3>1. PICK i \in DOMAIN list : list[i][1] = name
        BY Zenon, <2>1, NamesByIndex
      <3>2. CASE Latest({""}, newVars, n, list[i])
        <4>1. PICK j \in 1..n : newVars[j] = list[i] /\ list[i][2] # ""
          BY Zenon, <3>2 DEF Latest
        <4>2. list[i] \in new
          BY Zenon, <1>2, <4>1 DEF ToSet
        <4> QED
          BY Zenon, <3>1, <4>2
      <3>3. CASE list[i] \in ToSet(vars)
        BY Zenon, <3>1, <3>3 DEF Names
      <3> QED
        BY Zenon, <1>6, <3>2, <3>3 DEF Merged
    <2>2. ASSUME name \in Names(vars) PROVE name \in Names(list)
      BY Zenon, <1>6, <2>2 DEF Merged, Names
    <2>3. ASSUME NEW v \in new, name = v[1] PROVE name \in Names(list)
      <3>1. PICK j \in 1..n : newVars[j] = v
        BY Zenon, <1>2 DEF ToSet
      <3> QED
        BY Zenon, <1>6, <2>3, <3>1 DEF Merged
    <2> QED
      BY Zenon, <2>1, <2>2, <2>3
  <1>9. Names(list) = Names(vars) \union {v[1] : v \in new}
    BY Zenon, <1>8
  <1>10. \A i \in DOMAIN list : \/ Latest({""}, newVars, n, list[i])
                                \/ Untouched({""}, newVars, n, list[i]) /\ list[i] \in ToSet(vars)
    BY Zenon, <1>6 DEF Merged
  <1> QED
    BY Zenon, <1>7, <1>9, <1>10 DEF list, n

(* A test job starts from IQE_PLUGINS and ACG_CONFIG: whatever variables   *)
(* its invocation gives, these or one of the others several times, the job *)
(* has no variable twice.                                                  *)
COROLLARY TestJobTheorem ==
    ASSUME NEW plugins, NEW V, NEW env \in Seq(V)
    PROVE  LET list == updateEnvVars(<<<<"IQE_PLUGINS", plugins>>>> \o ACGConfig, env)
           IN  Cardinality(Names(list)) = Len(list)
  <1> DEFINE base == <<<<"IQE_PLUGINS", plugins>>>> \o ACGConfig
             W == V \union {<<"IQE_PLUGINS", plugins>>, <<"ACG_CONFIG", "cdappconfig">>}
  <1>1. base \in Seq(W) /\ DOMAIN base = 1..2 /\ base[1][1] = "IQE_PLUGINS" /\ base[2][1] = "ACG_CONFIG"
    BY DEF ACGConfig
  <1>2. env \in Seq(W)
    OBVIOUS
  <1> HIDE DEF base, W
  <1>3. Distinct(base)
    BY <1>1 DEF Distinct
  <1>4. Cardinality(Names(updateEnvVars(base, env))) = Len(updateEnvVars(base, env))
    BY Zenon, <1>1, <1>2, <1>3, UpdateTheorem
  <1> QED
    BY Zenon, <1>4 DEF base

----------------------------------------------------------------------------
(* The variables of an init container *)

\* list is own, followed by the first k of given but for the names own sets.
Inherited(V, own, given, k, list) ==
    /\ list \in Seq(V) /\ DOMAIN own \subseteq DOMAIN list
    /\ \A i \in DOMAIN own : list[i] = own[i]
    /\ \A i \in DOMAIN list \ DOMAIN own :
         /\ list[i][1] \notin Names(own) /\ list[i] \in ToSet(given)
         /\ Latest({}, given, k, list[i]) \/ \E m \in DOMAIN list : m > i /\ list[m][1] = list[i][1]
    /\ \A j \in 1..k : given[j][1] \in Names(list)

\* Each variable of the deployment is looked at in turn.
LEMMA InheritStep ==
    ASSUME NEW V, NEW own \in Seq(V), NEW given \in Seq(V), NEW k \in Nat, k < Len(given), NEW list,
           Inherited(V, own, given, k, list)
    PROVE  Inherited(V, own, given, k + 1, InheritVar(own, list, given[k + 1]))
  <1> DEFINE v == given[k + 1]
             next == InheritVar(own, list, v)
  <1>1. v \in V /\ list \in Seq(V) /\ DOMAIN list = 1..Len(list) /\ Len(list) \in Nat
    BY DEF Inherited
  <1>2. v \in ToSet(given)
    <2>1. k + 1 \in DOMAIN given
      OBVIOUS
    <2> QED
      BY Zenon, <2>1 DEF ToSet
  <1>3. \A j \in 1..(k + 1) : j \in 1..k \/ j = k + 1
    OBVIOUS
  <1>4. ASSUME NEW u, u[1] # v[1], Latest({}, given, k, u) PROVE Latest({}, given, k + 1, u)
    BY Zenon, <1>4, OtherName
  <1>5. CASE v[1] \in Names(own)
    <2>1. next = list
      BY Zenon, <1>5 DEF InheritVar
    <2>2. \A i \in DOMAIN list \ DOMAIN own :
             Latest({}, given, k + 1, list[i]) \/ \E m \in DOMAIN list : m > i /\ list[m][1] = list[i][1]
      BY Zenon, <1>4, <1>5 DEF Inherited
    <2>3. v[1] \in Names(list)
      <3>1. PICK i \in DOMAIN own : own[i][1] = v[1]
        BY Zenon, <1>5 DEF Names, ToSet
      <3>2. i \in DOMAIN list /\ list[i][1] = v[1]
        BY Zenon, <3>1 DEF Inherited
      <3> QED
        BY Zenon, <3>2, NamesByIndex
    <2>4. \A j \in 1..(k + 1) : given[j][1] \in Names(list)
      BY Zenon, <1>3, <2>3 DEF Inherited
    <2> HIDE DEF next, v
    <2>5. Inherited(V, own, given, k + 1, list)
      BY Zenon, <2>2, <2>4 DEF Inherited
    <2> QED
      BY Zenon, <2>1, <2>5 DEF next, v
  <1>6. CASE v[1] \notin Names(own)
    <2> DEFINE l == Len(list) + 1
    <2>1. next = Append(list, v)
      BY Zenon, <1>6 DEF InheritVar
    <2>2. Latest({}, given, k + 1, v)
      BY Zenon, NewestLast
    <2> HIDE DEF next, v
    <2>3. /\ next \in Seq(V) /\ next[l] = v /\ l \in DOMAIN next
          /\ \A i \in DOMAIN list : i \in DOMAIN next /\ next[i] = list[i] /\ l > i
          /\ \A i \in DOMAIN next : i \in DOMAIN list \/ i = l
      BY <1>1, <2>1
    <2> HIDE DEF l
    <2>4. ASSUME NEW i \in DOMAIN next \ DOMAIN own
          PROVE  /\ next[i][1] \notin Names(own) /\ next[i] \in ToSet(given)
                 /\ Latest({}, given, k + 1, next[i]) \/ \E m \in DOMAIN next : m > i /\ next[m][1] = next[i][1]
      <3>1. CASE i = l
        BY Zenon, <1>2, <1>6, <2>2, <2>3, <3>1
      <3>2. CASE i \in DOMAIN list
        <4>1. /\ next[i] = list[i] /\ list[i][1] \notin Names(own) /\ list[i] \in ToSet(given)
              /\ Latest({}, given, k, list[i]) \/ \E m \in DOMAIN list : m > i /\ list[m][1] = list[i][1]
          BY Zenon, <2>3, <3>2 DEF Inherited
        <4>2. CASE list[i][1] = v[1]
          BY Zenon, <2>3, <3>2, <4>1, <4>2
        <4>3. CASE list[i][1] # v[1]
          BY Zenon, <1>4, <2>3, <4>1, <4>3
        <4> QED
          BY Zenon, <4>2, <4>3
      <3> QED
        BY Zenon, <2>3, <3>1, <3>2
    <2>5. v[1] \in Names(next) /\ \A name \in Names(list) : name \in Names(next)
      BY <2>3, NamesByIndex
    <2>6. \A j \in 1..(k + 1) : given[j][1] \in Names(next)
      BY Zenon, <1>3, <2>5 DEF Inherited, v
    <2>7. DOMAIN own \subseteq DOMAIN next /\ \A i \in DOMAIN own : next[i] = own[i]
      BY Zenon, <2>3 DEF Inherited
    <2>8. Inherited(V, own, given, k + 1, next)
      BY Zenon, <2>3, <2>4, <2>6, <2>7 DEF Inherited
    <2> QED
      BY Zenon, <2>8 DEF next, v
  <1> QED
    BY Zenon, <1>5, <1>6

\* Once all variables have been looked at, own ones come before given ones.
LEMMA InheritedOverrides ==
    ASSUME NEW V, NEW own \in Seq(V), NEW given \in Seq(V), NEW list,
           Inherited(V, own, given, Len(given), list)
    PROVE  Overrides(list, own, given)
  <1>1. /\ list \in Seq(V) /\ DOMAIN list = 1..Len(list) /\ DOMAIN own \subseteq DOMAIN list
        /\ DOMAIN own = 1..Len(own) /\ DOMAIN given = 1..Len(given) /\ Len(own) \in Nat /\ Len(given) \in Nat
    BY DEF Inherited
  <1>2. ASSUME NEW name PROVE name \in Names(list) <=> name \in Names(own) \union Names(given)
    <2>1. ASSUME name \in Names(list) PROVE name \in Names(own) \union Names(given)
      <3>1. PICK i \in DOMAIN list : list[i][1] = name
        BY Zenon, <2>1, NamesByIndex
      <3>2. CASE i \in DOMAIN own
        <4>1. own[i][1] = name
          BY Zenon, <3>1, <3>2 DEF Inherited
        <4> QED
          BY Zenon, <3>2, <4>1, NamesByIndex
      <3>3. CASE i \notin DOMAIN own
        BY Zenon, <3>1, <3>3 DEF Inherited, Names
      <3> QED
        BY Zenon, <3>2, <3>3
    <2>2. ASSUME name \in Names(own) PROVE name \in Names(list)
      <3>1. PICK i \in DOMAIN own : own[i][1] = name
        BY Zenon, <2>2, NamesByIndex
      <3>2. i \in DOMAIN list /\ list[i][1] = name
        BY Zenon, <1>1, <3>1 DEF Inherited
      <3> QED
        BY Zenon, <3>2, NamesByIndex
    <2>3. ASSUME name \in Names(given) PROVE name \in Names(list)
      <3>1. PICK j \in DOMAIN given : given[j][1] = name
        BY Zenon, <2>3, NamesByIndex
      <3> QED
        BY Zenon, <1>1, <3>1 DEF Inherited
    <2> QED
      BY Zenon, <2>1, <2>2, <2>3
  <1>3. ASSUME NEW v \in ToSet(own) PROVE Value(list, v[1]) = Value(own, v[1])
    <2>1. v[1] \in Names(own) /\ v[1] \in Names(list)
      BY Zenon, <1>2 DEF Names
    <2>2. PICK i \in DOMAIN list : /\ list[i][1] = v[1] /\ Value(list, v[1]) = list[i][2]
                                   /\ \A j \in DOMAIN list : list[j][1] = v[1] => j <= i
      BY Zenon, <1>1, <2>1, ValueIsLast
    <2>3. PICK q \in DOMAIN own : /\ own[q][1] = v[1] /\ Value(own, v[1]) = own[q][2]
                                  /\ \A j \in DOMAIN own : own[j][1] = v[1] => j <= q
      BY Zenon, <2>1, ValueIsLast
    <2>4. i \in DOMAIN own /\ own[i] = list[i] /\ list[q] = own[q] /\ q \in DOMAIN list
      BY Zenon, <1>1, <2>1, <2>2, <2>3 DEF Inherited
    <2>5. q <= i /\ i <= q
      BY Zenon, <2>2, <2>3, <2>4
    <2>6. i = q
      BY <1>1, <2>4, <2>5
    <2> QED
      BY Zenon, <2>2, <2>3, <2>4, <2>6
  <1>4. ASSUME NEW v \in ToSet(given), v[1] \notin Names(own) PROVE Value(list, v[1]) = Value(given, v[1])
    <2>1. v[1] \in Names(given) /\ v[1] \in Names(list)
      BY Zenon, <1>2 DEF Names
    <2>2. PICK i \in DOMAIN list : /\ list[i][1] = v[1] /\ Value(list, v[1]) = list[i][2]
                                   /\ \A j \in DOMAIN list : list[j][1] = v[1] => j <= i
      BY Zenon, <1>1, <2>1, ValueIsLast
    <2>3. PICK q \in DOMAIN given : /\ given[q][1] = v[1] /\ Value(given, v[1]) = given[q][2]
                                    /\ \A j \in DOMAIN given : given[j][1] = v[1] => j <= q
      BY Zenon, <2>1, ValueIsLast
    <2>4. i \notin DOMAIN own
      <3>1. i \in DOMAIN own => own[i][1] = v[1]
        BY Zenon, <2>2 DEF Inherited
      <3> QED
        BY Zenon, <1>4, <3>1, NamesByIndex
    <2>5. ~\E m \in DOMAIN list : m > i /\ list[m][1] = list[i][1]
      <3>1. \A m \in DOMAIN list : m > i => ~(m <= i)
        BY <1>1
      <3> QED
        BY Zenon, <2>2, <3>1
    <2>6. Latest({}, given, Len(given), list[i])
      BY Zenon, <2>4, <2>5 DEF Inherited
    <2>7. PICK j \in 1..Len(given) : given[j] = list[i] /\ \A m \in (j + 1)..Len(given) : given[m][1] # list[i][1]
      BY Zenon, <2>6 DEF Latest
    <2>8. j <= q /\ q \notin (j + 1)..Len(given)
      BY Zenon, <1>1, <2>2, <2>3, <2>7
    <2>9. j = q
      BY <1>1, <2>8
    <2> QED
      BY Zenon, <2>2, <2>3, <2>7, <2>9
  <1> QED
    BY Zenon, <1>2, <1>3, <1>4 DEF Overrides

(* ProcessInitContainers, for an init container that inherits variables:   *)
(* it has its own and the deployment's names, its own value (the last, if  *)
(* it sets a name again) wherever it sets one, and else the value that the *)
(* name has in the deployment.  Names may occur several times in both.     *)
THEOREM InheritTheorem ==
    ASSUME NEW V, NEW ic, ic.inheritEnv, ic.env \in Seq(V), NEW vars \in Seq(V)
    PROVE  Overrides(InitVars(ic, vars), ic.env, vars)
  <1> DEFINE n == Len(vars)
  <1>1. PICK r : InitVars(ic, vars) = r[n] /\ Trace("inherit", ic.env, ic.env, vars, r)
    BY Zenon, InheritTrace
  <1> DEFINE T == {k \in Nat : Inherited(V, ic.env, vars, k, r[k])}
  <1>2. n \in Nat /\ \A k \in 0..(n - 1) : k \in Nat /\ k + 1 \in Nat /\ k < n /\ k + 1 \in 1..n /\ (k + 1) - 1 = k
    OBVIOUS
  <1>3. 0 \in T
    <2>1. 1..0 = {}
      OBVIOUS
    <2>2. Inherited(V, ic.env, vars, 0, ic.env)
      BY Zenon, <2>1 DEF Inherited
    <2> QED
      BY Zenon, <1>1, <2>2 DEF Trace
  <1>4. ASSUME NEW k \in 0..(n - 1), k \in T PROVE k + 1 \in T
    <2>1. Inherited(V, ic.env, vars, k + 1, InheritVar(ic.env, r[k], vars[k + 1]))
      BY Zenon, <1>2, <1>4, InheritStep
    <2>2. r[k + 1] = InheritVar(ic.env, r[k], vars[k + 1])
      BY Zenon, <1>1, <1>2 DEF Trace, Step
    <2> QED
      BY Zenon, <1>2, <2>1, <2>2
  <1>5. n \in T
    BY Zenon, <1>2, <1>3, <1>4, UpTo
  <1> QED
    BY Zenon, <1>1, <1>5, InheritedOverrides
=============================================================================
