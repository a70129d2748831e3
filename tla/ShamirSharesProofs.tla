------------------------- MODULE ShamirSharesProofs -------------------------
(***************************************************************************)
(* What was split is recovered, for every field of characteristic 2, every *)
(* threshold and every list of shares.  The loops of shamir.rs are folds;  *)
(* that interpolation at 0 gives the constant term back is proved by       *)
(* induction over the points (the weights add up to 1, the powers below    *)
(* the number of points cancel).                                           *)
(***************************************************************************)
EXTENDS ShamirShares, Iteration, FiniteSetTheorems

(* The field. *)
LEMMA Closed ==
    /\ 0 \in Field /\ 1 \in Field /\ 0 # 1
    /\ \A a, b \in Field : a ++ b \in Field /\ a ** b \in Field
<1>1. 0 \in Field /\ 1 \in Field
  BY GfAssumption DEF Field
<1>2. \A a, b \in Field : a ++ b \in Field /\ a ** b \in Field
  BY GfAssumption DEF ++, **
<1>. QED BY <1>1, <1>2

LEMMA Commutes == \A a, b \in Field : a ++ b = b ++ a /\ a ** b = b ** a
BY GfAssumption

LEMMA Associates ==
    \A a, b, c \in Field : (a ++ b) ++ c = a ++ (b ++ c) /\ (a ** b) ** c = a ** (b ** c)
BY GfAssumption

LEMMA Distributes == \A a, b, c \in Field : a ** (b ++ c) = (a ** b) ++ (a ** c)
BY GfAssumption

LEMMA Units == \A a \in Field : a ++ 0 = a /\ 0 ++ a = a /\ a ++ a = 0 /\ a ** 1 = a /\ 1 ** a = a
<1>1. \A a \in Field : a ++ 0 = a /\ a ++ a = 0 /\ a ** 1 = a
  BY GfAssumption
<1>. QED BY <1>1, Closed, Commutes

LEMMA TimesZero == \A a \in Field : a ** 0 = 0 /\ 0 ** a = 0
<1>1. TAKE a \in Field
<1>2. a ** 0 = (a ** 0) ++ (a ** 0)
  BY Closed, Units, Distributes
<1>3. a ** 0 \in Field
  BY Closed
<1>. QED BY <1>2, <1>3, Closed, Units, Commutes

(* Two elements with the sum 0 are equal. *)
LEMMA SameWhenZero == \A a, b \in Field : a ++ b = 0 => a = b
<1>. SUFFICES ASSUME NEW a \in Field, NEW b \in Field, a ++ b = 0 PROVE a = b
  OBVIOUS
<1>1. (a ++ b) ++ b = a ++ (b ++ b)
  BY Associates
<1>. QED BY <1>1, Units

LEMMA Inverted ==
    ASSUME NEW a \in Field, a # 0
    PROVE  GfInv[a] \in Field /\ a ** GfInv[a] = 1
<1>1. \E b \in Field : a ** b = 1
  BY GfAssumption
<1>2. GfInv[a] = CHOOSE b \in Field : a ** b = 1
  BY DEF GfInv
<1>. QED BY <1>1, <1>2

(* A factor other than 0 may be left out on both sides. *)
LEMMA Cancel ==
    ASSUME NEW a \in Field, a # 0, NEW b \in Field, NEW c \in Field, a ** b = a ** c
    PROVE  b = c
<1>. DEFINE v == GfInv[a]
<1>1. v \in Field /\ a ** v = 1 /\ v ** a = 1
  BY Inverted, Commutes
<1>. HIDE DEF v
<1>2. (v ** a) ** b = v ** (a ** b) /\ (v ** a) ** c = v ** (a ** c)
  BY <1>1, Associates
<1>. QED BY <1>1, <1>2, Units

LEMMA ProductOfTwo == \A a, b \in Field : a # 0 /\ b # 0 => a ** b # 0
<1>. SUFFICES ASSUME NEW a \in Field, NEW b \in Field, a # 0, a ** b = 0 PROVE b = 0
  BY Closed
<1>1. a ** b = a ** 0
  BY TimesZero
<1>. QED BY <1>1, Cancel, Closed

(* The order of three factors. *)
LEMMA Swap ==
    ASSUME NEW a \in Field, NEW b \in Field, NEW c \in Field
    PROVE  a ** (b ** c) = b ** (a ** c)
<1>1. a ** (b ** c) = (a ** b) ** c /\ b ** (a ** c) = (b ** a) ** c
  BY Associates
<1>. QED BY <1>1, Commutes

(* The same, for sums. *)
LEMMA SwapSum ==
    ASSUME NEW a \in Field, NEW b \in Field, NEW c \in Field, NEW d \in Field
    PROVE  (a ++ b) ++ (c ++ d) = (a ++ c) ++ (b ++ d)
<1>1. (a ++ b) ++ (c ++ d) = a ++ (b ++ (c ++ d))
  BY Associates, Closed
<1>2. b ++ (c ++ d) = c ++ (b ++ d)
  <2>1. b ++ (c ++ d) = (b ++ c) ++ d /\ c ++ (b ++ d) = (c ++ b) ++ d
    BY Associates
  <2>. QED BY <2>1, Commutes
<1>3. (a ++ c) ++ (b ++ d) = a ++ (c ++ (b ++ d))
  BY Associates, Closed
<1>. QED BY <1>1, <1>2, <1>3

-----------------------------------------------------------------------------
(* The loops: f has values to read, acc has the values of the accumulator. *)
Operation(op) == op \in [Field \X Field -> Field]
Values(f, n) == \A i \in 1..n : f[i] \in Field
Runs(acc, op, b, f, n) ==
    /\ acc \in [0..n -> Field] /\ acc[0] = b
    /\ \A i \in 1..n : acc[i] = op[<<acc[i - 1], f[i]>>]

LEMMA AccumulateRuns ==
    ASSUME NEW op, Operation(op), NEW b \in Field, NEW n \in Nat, NEW f,
           Values(f, n)
    PROVE  \E acc : Runs(acc, op, b, f, n) /\ Accumulate(op, b, f, n) = acc[n]
<1>. USE DEF Operation, Values
<1>. DEFINE Body(a) == [i \in 0..n |-> IF i = 0 THEN b ELSE op[<<a[i - 1], f[i]>>]]
            next == [q \in (1..n) \X Field |-> op[<<q[2], f[q[1]]>>]]
<1>1. Accumulate(op, b, f, n) = (CHOOSE a : a = Body(a))[n]
  BY DEF Accumulate
<1>2. next \in [(1..n) \X Field -> Field]
      /\ \A i \in 1..n, x \in Field : next[<<i, x>>] = op[<<x, f[i]>>]
  <2>1. \A q \in (1..n) \X Field : q[1] \in 1..n /\ q[2] \in Field /\ op[<<q[2], f[q[1]]>>] \in Field
    OBVIOUS
  <2>. QED BY <2>1
<1>. HIDE DEF next
<1>3. HasIteration(n, Field, b, next)
  BY <1>2, Recursion
<1>4. PICK h \in [0..n -> Field] : h[0] = b /\ \A i \in 1..n : h[i] = next[<<i, h[i - 1]>>]
  BY <1>3 DEF HasIteration, Iterates
<1>5. ASSUME NEW i \in 0..n PROVE h[i] = IF i = 0 THEN b ELSE op[<<h[i - 1], f[i]>>]
  <2>1. i # 0 => i \in 1..n /\ h[i - 1] \in Field
    OBVIOUS
  <2>. QED BY <1>2, <1>4, <2>1
<1>6. h = Body(h)
  BY <1>5
<1>. DEFINE g == CHOOSE a : a = Body(a)
<1>7. g = Body(g)
  BY <1>6
<1>. HIDE DEF g
<1>8. \A i \in 0..n : g[i] = IF i = 0 THEN b ELSE op[<<g[i - 1], f[i]>>]
  BY <1>7, Zenon
<1>9. g[0] = b /\ \A i \in 1..n : g[i] = op[<<g[i - 1], f[i]>>]
  <2>1. 0 \in 0..n /\ \A i \in 1..n : i \in 0..n /\ i # 0
    OBVIOUS
  <2>. QED BY <1>8, <2>1
<1>. DEFINE K == {k \in 0..n : g[k] \in Field}
<1>10. 0..n \subseteq K
  <2>1. 0 \in K
    BY <1>9
  <2>2. ASSUME NEW k \in 0..(n - 1), k \in K PROVE k + 1 \in K
    <3>1. k + 1 \in 1..n /\ (k + 1) - 1 = k /\ k + 1 \in 0..n
      OBVIOUS
    <3>. QED BY <1>9, <2>2, <3>1
  <2>. HIDE DEF K
  <2>. QED BY <2>1, <2>2, UpTo
<1>11. g = [i \in 0..n |-> g[i]]
  <2>1. g = [i \in 0..n |-> IF i = 0 THEN b ELSE op[<<g[i - 1], f[i]>>]]
    BY <1>7, Zenon
  <2>. HIDE DEF g
  <2>. QED BY <2>1, <1>8
<1>12. g \in [0..n -> Field]
  BY <1>10, <1>11
<1>13. Runs(g, op, b, f, n)
  BY <1>9, <1>12 DEF Runs
<1>. QED BY <1>1, <1>13 DEF g

(* A loop depends on the values it reads only. *)
LEMMA RunsAgree ==
    ASSUME NEW op, NEW b, NEW f, NEW g, NEW n \in Nat, NEW m \in Nat, NEW k \in Nat,
           k <= n, k <= m, \A i \in 1..k : f[i] = g[i],
           NEW u, NEW v, Runs(u, op, b, f, n), Runs(v, op, b, g, m)
    PROVE  u[k] = v[k]
<1>. DEFINE S == {i \in 0..k : u[i] = v[i]}
<1>1. 0 \in S
  BY DEF Runs
<1>2. ASSUME NEW i \in 0..(k - 1), i \in S PROVE i + 1 \in S
  <2>1. i + 1 \in 1..n /\ i + 1 \in 1..m /\ i + 1 \in 1..k /\ (i + 1) - 1 = i /\ i + 1 \in 0..k
    OBVIOUS
  <2>2. u[i + 1] = op[<<u[i], f[i + 1]>>] /\ v[i + 1] = op[<<v[i], g[i + 1]>>]
    BY <2>1 DEF Runs
  <2>. QED BY <1>2, <2>1, <2>2
<1>. HIDE DEF S
<1>3. 0..k \subseteq S
  BY <1>1, <1>2, UpTo
<1>. QED BY <1>3 DEF S

LEMMA AccumulateLaws ==
    ASSUME NEW op, Operation(op), NEW b \in Field, NEW n \in Nat, NEW f,
           Values(f, n + 1)
    PROVE  /\ Accumulate(op, b, f, 0) = b
           /\ Accumulate(op, b, f, n) \in Field
           /\ Accumulate(op, b, f, n + 1) = op[<<Accumulate(op, b, f, n), f[n + 1]>>]
<1>3. n + 1 \in Nat /\ 0 \in Nat /\ Values(f, n) /\ Values(f, 0)
  BY DEF Values
<1>1. PICK u : Runs(u, op, b, f, 0) /\ Accumulate(op, b, f, 0) = u[0]
  BY <1>3, AccumulateRuns
<1>2. PICK v : Runs(v, op, b, f, n) /\ Accumulate(op, b, f, n) = v[n]
  BY <1>3, AccumulateRuns
<1>4. PICK w : Runs(w, op, b, f, n + 1) /\ Accumulate(op, b, f, n + 1) = w[n + 1]
  BY <1>3, AccumulateRuns
<1>5. v[n] = w[n]
  BY <1>2, <1>3, <1>4, RunsAgree
<1>6. u[0] = b
  BY <1>1 DEF Runs
<1>7. v[n] \in Field
  BY <1>2 DEF Runs
<1>8. w[n + 1] = op[<<w[n], f[n + 1]>>]
  <2>1. n + 1 \in 1..(n + 1) /\ (n + 1) - 1 = n
    OBVIOUS
  <2>. QED BY <1>4, <2>1 DEF Runs
<1>. QED BY <1>1, <1>2, <1>4, <1>5, <1>6, <1>7, <1>8

LEMMA AccumulateSame ==
    ASSUME NEW op, Operation(op), NEW b \in Field, NEW n \in Nat, NEW f, NEW g,
           Values(f, n), \A i \in 1..n : f[i] = g[i]
    PROVE  Accumulate(op, b, f, n) \in Field /\ Accumulate(op, b, f, n) = Accumulate(op, b, g, n)
<1>. Values(g, n)
  BY DEF Values
<1>1. PICK u : Runs(u, op, b, f, n) /\ Accumulate(op, b, f, n) = u[n]
  BY AccumulateRuns
<1>2. PICK v : Runs(v, op, b, g, n) /\ Accumulate(op, b, g, n) = v[n]
  BY AccumulateRuns
<1>3. u[n] = v[n]
  BY <1>1, <1>2, RunsAgree
<1>4. u[n] \in Field
  BY <1>1 DEF Runs
<1>. QED BY <1>1, <1>2, <1>3, <1>4

LEMMA SumLaws ==
    ASSUME NEW n \in Nat, NEW f, Values(f, n + 1)
    PROVE  /\ GfSum(f, 0) = 0 /\ GfSum(f, n) \in Field
           /\ GfSum(f, n + 1) = GfSum(f, n) ++ f[n + 1]
<1>1. Operation(GfAdd)
  BY GfAssumption DEF Operation
<1>. QED BY <1>1, Closed, AccumulateLaws DEF GfSum, ++

LEMMA ProductLaws ==
    ASSUME NEW n \in Nat, NEW f, Values(f, n + 1)
    PROVE  /\ GfProduct(f, 0) = 1 /\ GfProduct(f, n) \in Field
           /\ GfProduct(f, n + 1) = GfProduct(f, n) ** f[n + 1]
<1>1. Operation(GfMul)
  BY GfAssumption DEF Operation
<1>. QED BY <1>1, Closed, AccumulateLaws DEF GfProduct, **

LEMMA SumSame ==
    ASSUME NEW n \in Nat, NEW f, NEW g, Values(f, n), \A i \in 1..n : f[i] = g[i]
    PROVE  GfSum(f, n) \in Field /\ GfSum(f, n) = GfSum(g, n)
<1>1. Operation(GfAdd)
  BY GfAssumption DEF Operation
<1>. QED BY <1>1, Closed, AccumulateSame DEF GfSum

LEMMA ProductSame ==
    ASSUME NEW n \in Nat, NEW f, NEW g, Values(f, n), \A i \in 1..n : f[i] = g[i]
    PROVE  GfProduct(f, n) \in Field /\ GfProduct(f, n) = GfProduct(g, n)
<1>1. Operation(GfMul)
  BY GfAssumption DEF Operation
<1>. QED BY <1>1, Closed, AccumulateSame DEF GfProduct

LEMMA ValuesLess ==
    ASSUME NEW n \in Nat, NEW f, Values(f, n), NEW k \in 0..n
    PROVE  Values(f, k)
BY DEF Values

LEMMA Empty ==
    ASSUME NEW e
    PROVE  GfSum(e, 0) = 0 /\ GfProduct(e, 0) = 1
<1>. DEFINE z == [i \in 1..1 |-> 0]
<1>1. Values(z, 0 + 1) /\ Values(e, 0) /\ 0 \in Nat /\ \A i \in 1..0 : e[i] = z[i]
  BY Closed DEF Values
<1>. HIDE DEF z
<1>2. GfSum(z, 0) = 0 /\ GfProduct(z, 0) = 1
  BY <1>1, SumLaws, ProductLaws
<1>. QED BY <1>1, <1>2, SumSame, ProductSame

(* The first value may be taken first. *)
LEMMA SumFirst ==
    ASSUME NEW n \in Nat, NEW f, NEW g, Values(f, n + 1), \A i \in 1..n : g[i] = f[i + 1]
    PROVE  GfSum(f, n + 1) = f[1] ++ GfSum(g, n)
<1>. DEFINE S == {m \in 0..n : GfSum(f, m + 1) = f[1] ++ GfSum(g, m)}
<1>1. Values(g, n) /\ f[1] \in Field
  BY DEF Values
<1>2. 0 \in S
  <2>1. Values(f, 0 + 1) /\ Values(f, 0) /\ Values(g, 0) /\ 0 \in Nat /\ 0 + 1 = 1
    BY <1>1 DEF Values
  <2>2. GfSum(f, 0 + 1) = GfSum(f, 0) ++ f[0 + 1]
    BY <2>1, SumLaws
  <2>. QED BY <1>1, <2>1, <2>2, Empty, Units
<1>3. ASSUME NEW m \in 0..(n - 1), m \in S PROVE m + 1 \in S
  <2>1. /\ m + 1 \in Nat /\ m \in Nat /\ m + 1 \in 0..n
        /\ g[m + 1] = f[m + 1 + 1] /\ f[m + 1 + 1] \in Field
    BY DEF Values
  <2>2. Values(f, m + 1 + 1) /\ Values(g, m + 1)
    BY <1>1 DEF Values
  <2>3. GfSum(f, m + 1 + 1) = GfSum(f, m + 1) ++ f[m + 1 + 1]
    BY <2>1, <2>2, SumLaws
  <2>4. GfSum(g, m + 1) = GfSum(g, m) ++ g[m + 1] /\ GfSum(g, m) \in Field
    BY <2>1, <2>2, SumLaws
  <2>5. GfSum(f, m + 1) = f[1] ++ GfSum(g, m)
    BY <1>3
  <2>. QED BY <1>1, <2>1, <2>3, <2>4, <2>5, Associates
<1>. HIDE DEF S
<1>4. 0..n \subseteq S
  BY <1>2, <1>3, UpTo
<1>. QED BY <1>4 DEF S

LEMMA ProductFirst ==
    ASSUME NEW n \in Nat, NEW f, NEW g, Values(f, n + 1), \A i \in 1..n : g[i] = f[i + 1]
    PROVE  GfProduct(f, n + 1) = f[1] ** GfProduct(g, n)
<1>. DEFINE S == {m \in 0..n : GfProduct(f, m + 1) = f[1] ** GfProduct(g, m)}
<1>1. Values(g, n) /\ f[1] \in Field
  BY DEF Values
<1>2. 0 \in S
  <2>1. Values(f, 0 + 1) /\ Values(f, 0) /\ Values(g, 0) /\ 0 \in Nat /\ 0 + 1 = 1
    BY <1>1 DEF Values
  <2>2. GfProduct(f, 0 + 1) = GfProduct(f, 0) ** f[0 + 1]
    BY <2>1, ProductLaws
  <2>. QED BY <1>1, <2>1, <2>2, Empty, Units
<1>3. ASSUME NEW m \in 0..(n - 1), m \in S PROVE m + 1 \in S
  <2>1. /\ m + 1 \in Nat /\ m \in Nat /\ m + 1 \in 0..n
        /\ g[m + 1] = f[m + 1 + 1] /\ f[m + 1 + 1] \in Field
    BY DEF Values
  <2>2. Values(f, m + 1 + 1) /\ Values(g, m + 1)
    BY <1>1 DEF Values
  <2>3. GfProduct(f, m + 1 + 1) = GfProduct(f, m + 1) ** f[m + 1 + 1]
    BY <2>1, <2>2, ProductLaws
  <2>4. GfProduct(g, m + 1) = GfProduct(g, m) ** g[m + 1] /\ GfProduct(g, m) \in Field
    BY <2>1, <2>2, ProductLaws
  <2>5. GfProduct(f, m + 1) = f[1] ** GfProduct(g, m)
    BY <1>3
  <2>. QED BY <1>1, <2>1, <2>3, <2>4, <2>5, Associates
<1>. HIDE DEF S
<1>4. 0..n \subseteq S
  BY <1>2, <1>3, UpTo
<1>. QED BY <1>4 DEF S

(* Sums are added and scaled term by term. *)
LEMMA SumAdd ==
    ASSUME NEW n \in Nat, NEW f, NEW g, NEW h, Values(f, n), Values(g, n),
           \A i \in 1..n : h[i] = f[i] ++ g[i]
    PROVE  GfSum(h, n) = GfSum(f, n) ++ GfSum(g, n)
<1>. DEFINE S == {m \in 0..n : GfSum(h, m) = GfSum(f, m) ++ GfSum(g, m)}
<1>1. Values(h, n)
  BY Closed DEF Values
<1>2. 0 \in S
  BY Empty, Closed, Units
<1>3. ASSUME NEW m \in 0..(n - 1), m \in S PROVE m + 1 \in S
  <2>1. m \in Nat /\ m + 1 \in 0..n /\ m + 1 \in 1..n
    OBVIOUS
  <2>2. Values(f, m + 1) /\ Values(g, m + 1) /\ Values(h, m + 1)
    BY <1>1, <2>1 DEF Values
  <2>3. GfSum(f, m + 1) = GfSum(f, m) ++ f[m + 1] /\ GfSum(f, m) \in Field
    BY <2>1, <2>2, SumLaws
  <2>4. GfSum(g, m + 1) = GfSum(g, m) ++ g[m + 1] /\ GfSum(g, m) \in Field
    BY <2>1, <2>2, SumLaws
  <2>5. GfSum(h, m + 1) = GfSum(h, m) ++ h[m + 1]
    BY <2>1, <2>2, SumLaws
  <2>6. GfSum(h, m) = GfSum(f, m) ++ GfSum(g, m)
    BY <1>3
  <2>7. f[m + 1] \in Field /\ g[m + 1] \in Field /\ h[m + 1] = f[m + 1] ++ g[m + 1]
    BY <2>1 DEF Values
  <2>. QED BY <2>1, <2>3, <2>4, <2>5, <2>6, <2>7, SwapSum
<1>. HIDE DEF S
<1>4. 0..n \subseteq S
  BY <1>2, <1>3, UpTo
<1>. QED BY <1>4 DEF S

LEMMA SumScale ==
    ASSUME NEW n \in Nat, NEW f, NEW h, NEW c \in Field, Values(f, n),
           \A i \in 1..n : h[i] = c ** f[i]
    PROVE  GfSum(h, n) = c ** GfSum(f, n)
<1>. DEFINE S == {m \in 0..n : GfSum(h, m) = c ** GfSum(f, m)}
<1>1. Values(h, n)
  BY Closed DEF Values
<1>2. 0 \in S
  BY Empty, TimesZero
<1>3. ASSUME NEW m \in 0..(n - 1), m \in S PROVE m + 1 \in S
  <2>1. m \in Nat /\ m + 1 \in 0..n /\ m + 1 \in 1..n
    OBVIOUS
  <2>2. Values(f, m + 1) /\ Values(h, m + 1)
    BY <1>1, <2>1 DEF Values
  <2>3. GfSum(f, m + 1) = GfSum(f, m) ++ f[m + 1] /\ GfSum(f, m) \in Field
    BY <2>1, <2>2, SumLaws
  <2>4. GfSum(h, m + 1) = GfSum(h, m) ++ h[m + 1]
    BY <2>1, <2>2, SumLaws
  <2>5. GfSum(h, m) = c ** GfSum(f, m)
    BY <1>3
  <2>6. f[m + 1] \in Field /\ h[m + 1] = c ** f[m + 1]
    BY <2>1 DEF Values
  <2>. QED BY <2>1, <2>3, <2>4, <2>5, <2>6, Distributes
<1>. HIDE DEF S
<1>4. 0..n \subseteq S
  BY <1>2, <1>3, UpTo
<1>. QED BY <1>4 DEF S

LEMMA ProductNonzero ==
    ASSUME NEW n \in Nat, NEW f, Values(f, n), \A i \in 1..n : f[i] # 0
    PROVE  GfProduct(f, n) \in Field /\ GfProduct(f, n) # 0
<1>. DEFINE S == {m \in 0..n : GfProduct(f, m) # 0}
<1>1. 0 \in S
  BY Empty, Closed
<1>2. ASSUME NEW m \in 0..(n - 1), m \in S PROVE m + 1 \in S
  <2>1. m \in Nat /\ m + 1 \in 0..n /\ m + 1 \in 1..n
    OBVIOUS
  <2>2. Values(f, m + 1)
    BY <2>1 DEF Values
  <2>3. GfProduct(f, m + 1) = GfProduct(f, m) ** f[m + 1] /\ GfProduct(f, m) \in Field
    BY <2>1, <2>2, ProductLaws
  <2>4. f[m + 1] \in Field /\ f[m + 1] # 0 /\ GfProduct(f, m) # 0
    BY <1>2, <2>1 DEF Values
  <2>. QED BY <2>1, <2>3, <2>4, ProductOfTwo
<1>. HIDE DEF S
<1>3. 0..n \subseteq S
  BY <1>1, <1>2, UpTo
<1>4. GfProduct(f, n) \in Field
  BY ProductSame
<1>. QED BY <1>3, <1>4 DEF S

LEMMA PowerLaws ==
    ASSUME NEW x \in Field, NEW m \in Nat
    PROVE  /\ GfPower(x, 0) = 1 /\ GfPower(x, m) \in Field
           /\ GfPower(x, m + 1) = x ** GfPower(x, m)
<1>. DEFINE f == [j \in 1..m |-> x]
            g == [j \in 1..(m + 1) |-> x]
<1>1. Values(g, m + 1) /\ Values(g, m) /\ Values(f, m) /\ g[m + 1] = x /\ \A i \in 1..m : g[i] = f[i]
  BY DEF Values
<1>2. GfPower(x, m) = GfProduct(f, m) /\ GfPower(x, m + 1) = GfProduct(g, m + 1)
  BY DEF GfPower
<1>. HIDE DEF f, g
<1>3. GfProduct(g, m + 1) = GfProduct(g, m) ** g[m + 1]
  BY <1>1, ProductLaws
<1>4. GfProduct(f, m) \in Field /\ GfProduct(f, m) = GfProduct(g, m)
  BY <1>1, ProductSame
<1>5. GfPower(x, 0) = 1
  BY Empty DEF GfPower
<1>. QED BY <1>1, <1>2, <1>3, <1>4, <1>5, Commutes

-----------------------------------------------------------------------------
(* The points of an interpolation: different, and none of them 0. *)
Points(xs, k) ==
    /\ \A i \in 1..k : xs[i] \in Field /\ xs[i] # 0
    /\ \A i, j \in 1..k : i # j => xs[i] # xs[j]

(* The two products of a weight. *)
Others(xs, k, i) == [j \in 1..k |-> IF j = i THEN 1 ELSE xs[j]]
Distances(xs, k, i) == [j \in 1..k |-> IF j = i THEN 1 ELSE xs[i] ++ xs[j]]
Num(xs, k, i) == GfProduct(Others(xs, k, i), k)
Den(xs, k, i) == GfProduct(Distances(xs, k, i), k)

LEMMA DistanceNonzero ==
    ASSUME NEW k \in Nat, NEW xs, Points(xs, k), NEW i \in 1..k, NEW j \in 1..k, i # j
    PROVE  xs[i] ++ xs[j] \in Field /\ xs[i] ++ xs[j] # 0
BY Closed, SameWhenZero DEF Points

LEMMA Factors ==
    ASSUME NEW k \in Nat, NEW xs, Points(xs, k), NEW i \in 1..k
    PROVE  Values(Others(xs, k, i), k) /\ Values(Distances(xs, k, i), k)
<1>1. Values(Others(xs, k, i), k)
  BY Closed DEF Values, Others, Points
<1>2. ASSUME NEW j \in 1..k PROVE Distances(xs, k, i)[j] \in Field
  BY Closed, DistanceNonzero DEF Distances
<1>. QED BY <1>1, <1>2 DEF Values

LEMMA WeightLaws ==
    ASSUME NEW k \in Nat, NEW xs, Points(xs, k), NEW i \in 1..k
    PROVE  /\ Num(xs, k, i) \in Field
           /\ Den(xs, k, i) \in Field /\ Den(xs, k, i) # 0
           /\ Weight(xs, k, i) = Num(xs, k, i) ** GfInv[Den(xs, k, i)]
           /\ Weight(xs, k, i) \in Field
<1>1. Num(xs, k, i) \in Field
  BY Factors, ProductSame DEF Num
<1>2. ASSUME NEW j \in 1..k PROVE Distances(xs, k, i)[j] # 0
  BY Closed, DistanceNonzero DEF Distances
<1>3. Den(xs, k, i) \in Field /\ Den(xs, k, i) # 0
  BY <1>2, Factors, ProductNonzero DEF Den
<1>4. Weight(xs, k, i) = Num(xs, k, i) ** GfInv[Den(xs, k, i)]
  BY DEF Weight, Num, Den, Others, Distances
<1>5. GfInv[Den(xs, k, i)] \in Field
  BY <1>3, Inverted
<1>. QED BY <1>1, <1>3, <1>4, <1>5, Closed

(* A factor above and one below, taken out of a quotient. *)
LEMMA Quotients ==
    ASSUME NEW d \in Field, NEW D \in Field, NEW x \in Field, NEW N \in Field, d # 0, D # 0
    PROVE  d ** ((x ** N) ** GfInv[d ** D]) = x ** (N ** GfInv[D])
<1>. DEFINE p == GfInv[d ** D]
            q == GfInv[D]
<1>1. d ** D \in Field /\ d ** D # 0
  BY Closed, ProductOfTwo
<1>2. p \in Field /\ (d ** D) ** p = 1
  BY <1>1, Inverted
<1>3. q \in Field /\ D ** q = 1
  BY Inverted
<1>. HIDE DEF p, q
<1>4. D ** (d ** ((x ** N) ** p)) = x ** N
  <2>1. x ** N \in Field /\ (x ** N) ** p \in Field
    BY <1>2, Closed
  <2>2. D ** (d ** ((x ** N) ** p)) = (d ** D) ** ((x ** N) ** p)
    BY <2>1, Associates, Commutes
  <2>3. (d ** D) ** ((x ** N) ** p) = (x ** N) ** ((d ** D) ** p)
    BY <1>1, <1>2, <2>1, Swap
  <2>. QED BY <1>2, <2>1, <2>2, <2>3, Units
<1>5. D ** (x ** (N ** q)) = x ** N
  <2>1. D ** (x ** (N ** q)) = x ** (D ** (N ** q))
    BY <1>3, Closed, Swap
  <2>2. D ** (N ** q) = N ** (D ** q)
    BY <1>3, Swap
  <2>. QED BY <1>3, <2>1, <2>2, Units
<1>6. d ** ((x ** N) ** p) \in Field /\ x ** (N ** q) \in Field
  BY <1>2, <1>3, Closed
<1>7. d ** ((x ** N) ** p) = x ** (N ** q)
  BY <1>4, <1>5, <1>6, Cancel
<1>. QED BY <1>7 DEF p, q

(* A weight without the last point. *)
LEMMA WeightFront ==
    ASSUME NEW k \in Nat, NEW xs, Points(xs, k + 1), NEW i \in 1..k
    PROVE  /\ Points(xs, k)
           /\ (xs[i] ++ xs[k + 1]) ** Weight(xs, k + 1, i) = xs[k + 1] ** Weight(xs, k, i)
<1>. DEFINE x == xs[k + 1]
            d == xs[i] ++ x
<1>1. k + 1 \in Nat /\ i \in 1..(k + 1) /\ k + 1 \in 1..(k + 1) /\ i # k + 1 /\ Points(xs, k)
  BY DEF Points
<1>2. x \in Field /\ d \in Field /\ d # 0
  BY <1>1, DistanceNonzero DEF Points
<1>3. Num(xs, k + 1, i) = x ** Num(xs, k, i)
  <2>. DEFINE f == Others(xs, k + 1, i)
              g == Others(xs, k, i)
  <2>1. Values(f, k + 1) /\ Values(f, k) /\ Values(g, k)
    <3>1. Values(f, k + 1) /\ Values(g, k)
      BY <1>1, Factors
    <3>. QED BY <3>1 DEF Values
  <2>2. f[k + 1] = x /\ \A j \in 1..k : f[j] = g[j]
    BY <1>1 DEF Others
  <2>. HIDE DEF f, g
  <2>3. GfProduct(f, k + 1) = GfProduct(f, k) ** f[k + 1]
    BY <2>1, ProductLaws
  <2>4. GfProduct(f, k) = GfProduct(g, k) /\ GfProduct(f, k) \in Field
    BY <2>1, <2>2, ProductSame
  <2>. QED BY <1>2, <2>2, <2>3, <2>4, Commutes DEF Num, f, g
<1>4. Den(xs, k + 1, i) = d ** Den(xs, k, i)
  <2>. DEFINE f == Distances(xs, k + 1, i)
              g == Distances(xs, k, i)
  <2>1. Values(f, k + 1) /\ Values(f, k) /\ Values(g, k)
    <3>1. Values(f, k + 1) /\ Values(g, k)
      BY <1>1, Factors
    <3>. QED BY <3>1 DEF Values
  <2>2. f[k + 1] = d /\ \A j \in 1..k : f[j] = g[j]
    BY <1>1 DEF Distances
  <2>. HIDE DEF f, g
  <2>3. GfProduct(f, k + 1) = GfProduct(f, k) ** f[k + 1]
    BY <2>1, ProductLaws
  <2>4. GfProduct(f, k) = GfProduct(g, k) /\ GfProduct(f, k) \in Field
    BY <2>1, <2>2, ProductSame
  <2>. QED BY <1>2, <2>2, <2>3, <2>4, Commutes DEF Den, f, g
<1>5. /\ Num(xs, k, i) \in Field /\ Den(xs, k, i) \in Field /\ Den(xs, k, i) # 0
      /\ Weight(xs, k, i) = Num(xs, k, i) ** GfInv[Den(xs, k, i)]
  BY <1>1, WeightLaws
<1>6. Weight(xs, k + 1, i) = Num(xs, k + 1, i) ** GfInv[Den(xs, k + 1, i)]
  BY <1>1, WeightLaws
<1>. HIDE DEF x, d
<1>7. d ** Weight(xs, k + 1, i) = x ** Weight(xs, k, i)
  BY <1>2, <1>3, <1>4, <1>5, <1>6, Quotients
<1>. QED BY <1>1, <1>7 DEF x, d

(* A weight without the first point. *)
LEMMA WeightTail ==
    ASSUME NEW k \in Nat, NEW xs, Points(xs, k + 1), NEW i \in 1..k,
           NEW t, \A j \in 1..k : t[j] = xs[j + 1]
    PROVE  /\ Points(t, k)
           /\ (xs[i + 1] ++ xs[1]) ** Weight(xs, k + 1, i + 1) = xs[1] ** Weight(t, k, i)
<1>. DEFINE x == xs[1]
            d == xs[i + 1] ++ x
<1>1. k + 1 \in Nat /\ i + 1 \in 1..(k + 1) /\ 1 \in 1..(k + 1) /\ i + 1 # 1
  OBVIOUS
<1>2. x \in Field /\ d \in Field /\ d # 0
  BY <1>1, DistanceNonzero DEF Points
<1>3. Points(t, k)
  <2>1. \A j \in 1..k : j + 1 \in 1..(k + 1)
    OBVIOUS
  <2>2. \A j \in 1..k : t[j] \in Field /\ t[j] # 0
    BY <2>1 DEF Points
  <2>3. ASSUME NEW j \in 1..k, NEW m \in 1..k, j # m PROVE t[j] # t[m]
    <3>1. j + 1 # m + 1
      BY <2>3
    <3>. QED BY <2>1, <3>1 DEF Points
  <2>. QED BY <2>2, <2>3 DEF Points
<1>4. Num(xs, k + 1, i + 1) = x ** Num(t, k, i)
  <2>. DEFINE f == Others(xs, k + 1, i + 1)
              g == Others(t, k, i)
  <2>1. Values(f, k + 1)
    BY <1>1, Factors
  <2>2. f[1] = x /\ \A j \in 1..k : g[j] = f[j + 1]
    BY <1>1 DEF Others
  <2>. HIDE DEF f, g
  <2>. QED BY <2>1, <2>2, ProductFirst DEF Num, f, g
<1>5. Den(xs, k + 1, i + 1) = d ** Den(t, k, i)
  <2>. DEFINE f == Distances(xs, k + 1, i + 1)
              g == Distances(t, k, i)
  <2>1. Values(f, k + 1)
    BY <1>1, Factors
  <2>2. f[1] = d /\ \A j \in 1..k : g[j] = f[j + 1]
    BY <1>1 DEF Distances
  <2>. HIDE DEF f, g
  <2>. QED BY <2>1, <2>2, ProductFirst DEF Den, f, g
<1>6. /\ Num(t, k, i) \in Field /\ Den(t, k, i) \in Field /\ Den(t, k, i) # 0
      /\ Weight(t, k, i) = Num(t, k, i) ** GfInv[Den(t, k, i)]
  BY <1>3, WeightLaws
<1>7. Weight(xs, k + 1, i + 1) = Num(xs, k + 1, i + 1) ** GfInv[Den(xs, k + 1, i + 1)]
  BY <1>1, WeightLaws
<1>. HIDE DEF x, d
<1>8. d ** Weight(xs, k + 1, i + 1) = x ** Weight(t, k, i)
  BY <1>2, <1>4, <1>5, <1>6, <1>7, Quotients
<1>. QED BY <1>3, <1>8 DEF x, d

-----------------------------------------------------------------------------
(* The interpolation. *)
Terms(xs, ys, k) == [i \in 1..k |-> ys[i] ** Weight(xs, k, i)]

LEMMA LagrangeLaws ==
    ASSUME NEW k \in Nat, NEW xs, Points(xs, k), NEW ys, Values(ys, k)
    PROVE  /\ LagrangeAtZero(xs, ys, k) = GfSum(Terms(xs, ys, k), k)
           /\ Values(Terms(xs, ys, k), k)
           /\ \A i \in 1..k : /\ Terms(xs, ys, k)[i] = ys[i] ** Weight(xs, k, i)
                             /\ ys[i] \in Field /\ Weight(xs, k, i) \in Field
           /\ LagrangeAtZero(xs, ys, k) \in Field
<1>1. \A i \in 1..k : Weight(xs, k, i) \in Field
  BY WeightLaws
<1>2. \A i \in 1..k : Terms(xs, ys, k)[i] = ys[i] ** Weight(xs, k, i) /\ ys[i] \in Field
  BY DEF Terms, Values
<1>3. Values(Terms(xs, ys, k), k)
  BY <1>1, <1>2, Closed DEF Values
<1>4. LagrangeAtZero(xs, ys, k) = GfSum(Terms(xs, ys, k), k)
  BY DEF LagrangeAtZero, Terms
<1>5. GfSum(Terms(xs, ys, k), k) \in Field
  BY <1>3, SumSame
<1>. QED BY <1>1, <1>2, <1>3, <1>4, <1>5

LEMMA LagrangeSame ==
    ASSUME NEW k \in Nat, NEW xs, Points(xs, k), NEW f, NEW g, Values(f, k),
           \A i \in 1..k : f[i] = g[i]
    PROVE  LagrangeAtZero(xs, f, k) = LagrangeAtZero(xs, g, k)
<1>1. Values(g, k)
  BY DEF Values
<1>2. \A i \in 1..k : Terms(xs, f, k)[i] = Terms(xs, g, k)[i]
  BY <1>1, LagrangeLaws
<1>3. GfSum(Terms(xs, f, k), k) = GfSum(Terms(xs, g, k), k)
  BY <1>2, LagrangeLaws, SumSame
<1>. QED BY <1>1, <1>3, LagrangeLaws

LEMMA LagrangeAdd ==
    ASSUME NEW k \in Nat, NEW xs, Points(xs, k), NEW f, NEW g, NEW h, Values(f, k), Values(g, k),
           \A i \in 1..k : h[i] = f[i] ++ g[i]
    PROVE  LagrangeAtZero(xs, h, k) = LagrangeAtZero(xs, f, k) ++ LagrangeAtZero(xs, g, k)
<1>. DEFINE F == Terms(xs, f, k)
            G == Terms(xs, g, k)
            H == Terms(xs, h, k)
<1>1. Values(h, k)
  BY Closed DEF Values
<1>2. /\ LagrangeAtZero(xs, f, k) = GfSum(F, k) /\ Values(F, k)
      /\ \A i \in 1..k : F[i] = f[i] ** Weight(xs, k, i) /\ f[i] \in Field /\ Weight(xs, k, i) \in Field
  BY LagrangeLaws
<1>3. /\ LagrangeAtZero(xs, g, k) = GfSum(G, k) /\ Values(G, k)
      /\ \A i \in 1..k : G[i] = g[i] ** Weight(xs, k, i) /\ g[i] \in Field
  BY LagrangeLaws
<1>4. /\ LagrangeAtZero(xs, h, k) = GfSum(H, k)
      /\ \A i \in 1..k : H[i] = h[i] ** Weight(xs, k, i)
  BY <1>1, LagrangeLaws
<1>. HIDE DEF F, G, H
<1>5. ASSUME NEW i \in 1..k PROVE H[i] = F[i] ++ G[i]
  <2>1. H[i] = (f[i] ++ g[i]) ** Weight(xs, k, i)
    BY <1>4
  <2>2. \A a, b, w \in Field : (a ++ b) ** w = (a ** w) ++ (b ** w)
    BY Closed, Commutes, Distributes
  <2>3. (f[i] ++ g[i]) ** Weight(xs, k, i) = (f[i] ** Weight(xs, k, i)) ++ (g[i] ** Weight(xs, k, i))
    BY <1>2, <1>3, <2>2
  <2>. QED BY <1>2, <1>3, <2>1, <2>3
<1>. QED BY <1>2, <1>3, <1>4, <1>5, SumAdd

LEMMA LagrangeScale ==
    ASSUME NEW k \in Nat, NEW xs, Points(xs, k), NEW f, NEW h, NEW c \in Field, Values(f, k),
           \A i \in 1..k : h[i] = c ** f[i]
    PROVE  LagrangeAtZero(xs, h, k) = c ** LagrangeAtZero(xs, f, k)
<1>. DEFINE F == Terms(xs, f, k)
            H == Terms(xs, h, k)
<1>1. Values(h, k)
  BY Closed DEF Values
<1>2. /\ LagrangeAtZero(xs, f, k) = GfSum(F, k) /\ Values(F, k)
      /\ \A i \in 1..k : F[i] = f[i] ** Weight(xs, k, i) /\ f[i] \in Field /\ Weight(xs, k, i) \in Field
  BY LagrangeLaws
<1>3. /\ LagrangeAtZero(xs, h, k) = GfSum(H, k)
      /\ \A i \in 1..k : H[i] = h[i] ** Weight(xs, k, i)
  BY <1>1, LagrangeLaws
<1>. HIDE DEF F, H
<1>4. ASSUME NEW i \in 1..k PROVE H[i] = c ** F[i]
  <2>1. H[i] = (c ** f[i]) ** Weight(xs, k, i)
    BY <1>3
  <2>2. (c ** f[i]) ** Weight(xs, k, i) = c ** (f[i] ** Weight(xs, k, i))
    BY <1>2, Associates
  <2>. QED BY <1>2, <2>1, <2>2
<1>. QED BY <1>2, <1>3, <1>4, SumScale

(* A value with the distance to the last point as a factor: that point *)
(* drops out.                                                          *)
LEMMA DropLast ==
    ASSUME NEW k \in Nat, NEW xs, Points(xs, k + 1), NEW g, NEW h, Values(g, k + 1),
           \A i \in 1..(k + 1) : h[i] = (xs[i] ++ xs[k + 1]) ** g[i]
    PROVE  LagrangeAtZero(xs, h, k + 1) = xs[k + 1] ** LagrangeAtZero(xs, g, k)
<1>. DEFINE x == xs[k + 1]
            H == Terms(xs, h, k + 1)
            G == Terms(xs, g, k)
<1>1. k + 1 \in Nat /\ k + 1 \in 1..(k + 1) /\ \A i \in 1..k : i \in 1..(k + 1)
  OBVIOUS
<1>2. Points(xs, k) /\ Values(g, k)
  BY DEF Points, Values
<1>3. \A i \in 1..(k + 1) : xs[i] \in Field /\ g[i] \in Field /\ xs[i] ++ x \in Field /\ h[i] = (xs[i] ++ x) ** g[i]
  BY <1>1, Closed DEF Points, Values
<1>4. Values(h, k + 1)
  BY <1>3, Closed DEF Values
<1>5. /\ LagrangeAtZero(xs, h, k + 1) = GfSum(H, k + 1) /\ Values(H, k + 1)
      /\ \A i \in 1..(k + 1) : H[i] = h[i] ** Weight(xs, k + 1, i) /\ Weight(xs, k + 1, i) \in Field
  BY <1>1, <1>4, LagrangeLaws
<1>6. /\ LagrangeAtZero(xs, g, k) = GfSum(G, k) /\ Values(G, k)
      /\ \A i \in 1..k : G[i] = g[i] ** Weight(xs, k, i) /\ Weight(xs, k, i) \in Field
  BY <1>2, LagrangeLaws
<1>7. x \in Field
  BY <1>1, <1>3
<1>8. \A i \in 1..k : (xs[i] ++ x) ** Weight(xs, k + 1, i) = x ** Weight(xs, k, i)
  BY WeightFront
<1>. HIDE DEF x, H, G
<1>9. H[k + 1] = 0
  <2>1. h[k + 1] = 0
    BY <1>1, <1>3, <1>7, Units, TimesZero DEF x
  <2>. QED BY <1>1, <1>5, <2>1, TimesZero
<1>10. ASSUME NEW i \in 1..k PROVE H[i] = x ** G[i]
  <2>1. H[i] = ((xs[i] ++ x) ** g[i]) ** Weight(xs, k + 1, i)
    BY <1>1, <1>3, <1>5
  <2>2. \A d, a, w \in Field : (d ** a) ** w = a ** (d ** w)
    BY Commutes, Associates
  <2>3. H[i] = g[i] ** (x ** Weight(xs, k, i))
    BY <1>1, <1>3, <1>5, <1>8, <2>1, <2>2
  <2>4. g[i] \in Field /\ Weight(xs, k, i) \in Field /\ G[i] = g[i] ** Weight(xs, k, i)
    BY <1>1, <1>3, <1>6
  <2>. QED BY <1>7, <2>3, <2>4, Swap
<1>11. GfSum(H, k) = x ** GfSum(G, k)
  BY <1>6, <1>7, <1>10, SumScale
<1>12. GfSum(H, k + 1) = GfSum(H, k) ++ H[k + 1] /\ GfSum(H, k) \in Field
  BY <1>5, SumLaws
<1>13. GfSum(H, k + 1) = x ** GfSum(G, k)
  BY <1>9, <1>11, <1>12, Units
<1>. QED BY <1>5, <1>6, <1>13 DEF x

(* The same for the first point. *)
LEMMA DropFirst ==
    ASSUME NEW k \in Nat, NEW xs, Points(xs, k + 1), NEW g, NEW h, Values(g, k + 1),
           \A i \in 1..(k + 1) : h[i] = (xs[i] ++ xs[1]) ** g[i],
           NEW t, \A j \in 1..k : t[j] = xs[j + 1],
           NEW u, \A j \in 1..k : u[j] = g[j + 1]
    PROVE  Points(t, k) /\ LagrangeAtZero(xs, h, k + 1) = xs[1] ** LagrangeAtZero(t, u, k)
<1>. DEFINE x == xs[1]
            H == Terms(xs, h, k + 1)
            G == Terms(t, u, k)
            T == [j \in 1..k |-> H[j + 1]]
<1>1. k + 1 \in Nat /\ 1 \in 1..(k + 1) /\ \A i \in 1..k : i + 1 \in 1..(k + 1)
  OBVIOUS
<1>2. Values(u, k)
  BY <1>1 DEF Values
<1>3. \A i \in 1..(k + 1) : xs[i] \in Field /\ g[i] \in Field /\ xs[i] ++ x \in Field /\ h[i] = (xs[i] ++ x) ** g[i]
  BY <1>1, Closed DEF Points, Values
<1>4. Values(h, k + 1)
  BY <1>3, Closed DEF Values
<1>5. /\ LagrangeAtZero(xs, h, k + 1) = GfSum(H, k + 1) /\ Values(H, k + 1)
      /\ \A i \in 1..(k + 1) : H[i] = h[i] ** Weight(xs, k + 1, i) /\ Weight(xs, k + 1, i) \in Field
  BY <1>1, <1>4, LagrangeLaws
<1>6. Points(t, k)
  <2>1. CASE k = 0
    BY <2>1 DEF Points
  <2>2. CASE k # 0
    <3>1. 1 \in 1..k
      BY <2>2
    <3>. QED BY <3>1, WeightTail
  <2>. QED BY <2>1, <2>2
<1>7. /\ LagrangeAtZero(t, u, k) = GfSum(G, k) /\ Values(G, k)
      /\ \A i \in 1..k : G[i] = u[i] ** Weight(t, k, i) /\ Weight(t, k, i) \in Field
  BY <1>2, <1>6, LagrangeLaws
<1>8. x \in Field
  BY <1>1, <1>3
<1>9. ASSUME NEW i \in 1..k PROVE (xs[i + 1] ++ x) ** Weight(xs, k + 1, i + 1) = x ** Weight(t, k, i)
  <2>1. (xs[i + 1] ++ xs[1]) ** Weight(xs, k + 1, i + 1) = xs[1] ** Weight(t, k, i)
    BY WeightTail
  <2>. QED BY <2>1 DEF x
<1>10. \A i \in 1..k : T[i] = H[i + 1]
  OBVIOUS
<1>. HIDE DEF x, H, G, T
<1>11. H[1] = 0
  <2>1. h[1] = 0
    BY <1>1, <1>3, <1>8, Units, TimesZero DEF x
  <2>. QED BY <1>1, <1>5, <2>1, TimesZero
<1>12. ASSUME NEW i \in 1..k PROVE T[i] = x ** G[i]
  <2>1. H[i + 1] = ((xs[i + 1] ++ x) ** g[i + 1]) ** Weight(xs, k + 1, i + 1)
    BY <1>1, <1>3, <1>5
  <2>2. \A d, a, w \in Field : (d ** a) ** w = a ** (d ** w)
    BY Commutes, Associates
  <2>3. H[i + 1] = g[i + 1] ** (x ** Weight(t, k, i))
    BY <1>1, <1>3, <1>5, <1>9, <2>1, <2>2
  <2>4. u[i] = g[i + 1] /\ u[i] \in Field /\ Weight(t, k, i) \in Field /\ G[i] = u[i] ** Weight(t, k, i)
    BY <1>1, <1>3, <1>7
  <2>. QED BY <1>8, <1>10, <2>3, <2>4, Swap
<1>13. GfSum(T, k) = x ** GfSum(G, k)
  BY <1>7, <1>8, <1>12, SumScale
<1>14. GfSum(H, k + 1) = H[1] ++ GfSum(T, k)
  BY <1>5, <1>10, SumFirst
<1>15. GfSum(G, k) \in Field
  BY <1>7, SumSame
<1>16. GfSum(H, k + 1) = x ** GfSum(G, k)
  BY <1>8, <1>11, <1>13, <1>14, <1>15, Closed, Units
<1>. QED BY <1>5, <1>6, <1>7, <1>16 DEF x

-----------------------------------------------------------------------------
(* The weights of any points add up to 1. *)
Ones(k) == [i \in 1..k |-> 1]
UnitSum(k) == \A xs : Points(xs, k) => LagrangeAtZero(xs, Ones(k), k) = 1

LEMMA OnesLaws ==
    ASSUME NEW k \in Nat
    PROVE  Values(Ones(k), k) /\ \A i \in 1..k : Ones(k)[i] = 1
BY Closed DEF Values, Ones

LEMMA UnitSumOne == UnitSum(1)
<1>. SUFFICES ASSUME NEW xs, Points(xs, 1) PROVE LagrangeAtZero(xs, Ones(1), 1) = 1
  BY DEF UnitSum
<1>1. 1 \in Nat /\ 0 \in Nat /\ 1 \in 1..1 /\ 0 + 1 = 1
  OBVIOUS
<1>2. Num(xs, 1, 1) = 1
  <2>. DEFINE f == Others(xs, 1, 1)
  <2>1. Values(f, 0 + 1) /\ f[0 + 1] = 1
    BY <1>1, Factors DEF Others
  <2>. HIDE DEF f
  <2>2. GfProduct(f, 0) = 1 /\ GfProduct(f, 0 + 1) = GfProduct(f, 0) ** f[0 + 1]
    BY <1>1, <2>1, ProductLaws
  <2>. QED BY <1>1, <2>1, <2>2, Closed, Units DEF Num, f
<1>3. Den(xs, 1, 1) = 1
  <2>. DEFINE f == Distances(xs, 1, 1)
  <2>1. Values(f, 0 + 1) /\ f[0 + 1] = 1
    BY <1>1, Factors DEF Distances
  <2>. HIDE DEF f
  <2>2. GfProduct(f, 0) = 1 /\ GfProduct(f, 0 + 1) = GfProduct(f, 0) ** f[0 + 1]
    BY <1>1, <2>1, ProductLaws
  <2>. QED BY <1>1, <2>1, <2>2, Closed, Units DEF Den, f
<1>4. Weight(xs, 1, 1) = 1
  <2>1. Weight(xs, 1, 1) = 1 ** GfInv[1]
    BY <1>1, <1>2, <1>3, WeightLaws
  <2>2. GfInv[1] \in Field /\ 1 ** GfInv[1] = 1
    BY Closed, Inverted
  <2>. QED BY <2>1, <2>2
<1>. DEFINE F == Terms(xs, Ones(1), 1)
<1>5. Values(Ones(1), 1) /\ Ones(1)[1] = 1
  BY <1>1, OnesLaws
<1>6. LagrangeAtZero(xs, Ones(1), 1) = GfSum(F, 1) /\ Values(F, 1) /\ F[1] = Ones(1)[1] ** Weight(xs, 1, 1)
  BY <1>1, <1>5, LagrangeLaws
<1>. HIDE DEF F
<1>7. GfSum(F, 0) = 0 /\ GfSum(F, 0 + 1) = GfSum(F, 0) ++ F[0 + 1]
  BY <1>1, <1>6, SumLaws
<1>. QED BY <1>1, <1>4, <1>5, <1>6, <1>7, Closed, Units

LEMMA UnitSumStep ==
    ASSUME NEW k \in Nat, k > 0, UnitSum(k)
    PROVE  UnitSum(k + 1)
<1>. SUFFICES ASSUME NEW xs, Points(xs, k + 1) PROVE LagrangeAtZero(xs, Ones(k + 1), k + 1) = 1
  BY DEF UnitSum
<1>. DEFINE x == xs[1]
            z == xs[k + 1]
            one == Ones(k + 1)
            f == [i \in 1..(k + 1) |-> (xs[i] ++ z) ** one[i]]
            g == [i \in 1..(k + 1) |-> (xs[i] ++ x) ** one[i]]
            h == [i \in 1..(k + 1) |-> (z ++ x) ** one[i]]
            t == [j \in 1..k |-> xs[j + 1]]
<1>1. k + 1 \in Nat /\ 1 \in 1..(k + 1) /\ k + 1 \in 1..(k + 1) /\ k + 1 # 1
  OBVIOUS
<1>2. Points(xs, k)
  BY DEF Points
<1>3. Values(one, k + 1) /\ (\A i \in 1..(k + 1) : one[i] = 1) /\ Values(Ones(k), k) /\ \A i \in 1..k : Ones(k)[i] = 1
  BY <1>1, OnesLaws
<1>4. x \in Field /\ z \in Field /\ z ++ x \in Field /\ z ++ x # 0
  BY <1>1, DistanceNonzero DEF Points
<1>5. \A i \in 1..(k + 1) : xs[i] \in Field
  BY DEF Points
<1>. HIDE DEF one, x, z
<1>6. /\ \A i \in 1..(k + 1) : f[i] = (xs[i] ++ z) ** one[i]
      /\ \A i \in 1..(k + 1) : g[i] = (xs[i] ++ x) ** one[i]
      /\ \A i \in 1..(k + 1) : h[i] = (z ++ x) ** one[i]
      /\ \A j \in 1..k : t[j] = xs[j + 1]
  OBVIOUS
<1>. HIDE DEF f, g, h, t
<1>7. Values(f, k + 1) /\ Values(g, k + 1)
  BY <1>3, <1>4, <1>5, <1>6, Closed DEF Values
<1>8. LagrangeAtZero(xs, f, k + 1) = z
  <2>1. LagrangeAtZero(xs, f, k + 1) = z ** LagrangeAtZero(xs, one, k)
    BY <1>3, <1>6, DropLast DEF z
  <2>2. LagrangeAtZero(xs, Ones(k), k) = LagrangeAtZero(xs, one, k)
    <3>1. \A i \in 1..k : Ones(k)[i] = one[i]
      BY <1>3
    <3>. QED BY <1>2, <1>3, <3>1, LagrangeSame
  <2>3. LagrangeAtZero(xs, Ones(k), k) = 1
    BY <1>2 DEF UnitSum
  <2>. QED BY <1>4, <2>1, <2>2, <2>3, Units
<1>9. LagrangeAtZero(xs, g, k + 1) = x
  <2>1. \A j \in 1..k : Ones(k)[j] = one[j + 1]
    BY <1>3
  <2>2. Points(t, k) /\ LagrangeAtZero(xs, g, k + 1) = x ** LagrangeAtZero(t, Ones(k), k)
    BY <1>3, <1>6, <2>1, DropFirst DEF x
  <2>3. LagrangeAtZero(t, Ones(k), k) = 1
    BY <2>2 DEF UnitSum
  <2>. QED BY <1>4, <2>2, <2>3, Units
<1>10. ASSUME NEW i \in 1..(k + 1) PROVE h[i] = f[i] ++ g[i]
  <2>1. f[i] = xs[i] ++ z /\ g[i] = xs[i] ++ x /\ h[i] = z ++ x
    <3>1. one[i] = 1 /\ xs[i] ++ z \in Field /\ xs[i] ++ x \in Field
      BY <1>3, <1>4, <1>5, Closed
    <3>2. f[i] = (xs[i] ++ z) ** 1 /\ g[i] = (xs[i] ++ x) ** 1 /\ h[i] = (z ++ x) ** 1
      BY <1>6, <3>1
    <3>. QED BY <1>4, <3>1, <3>2, Units
  <2>2. (xs[i] ++ z) ++ (xs[i] ++ x) = (xs[i] ++ xs[i]) ++ (z ++ x)
    BY <1>4, <1>5, SwapSum
  <2>. QED BY <1>4, <1>5, <2>1, <2>2, Units
<1>11. LagrangeAtZero(xs, h, k + 1) = z ++ x
  BY <1>1, <1>7, <1>8, <1>9, <1>10, LagrangeAdd
<1>12. LagrangeAtZero(xs, h, k + 1) = (z ++ x) ** LagrangeAtZero(xs, one, k + 1)
  BY <1>1, <1>3, <1>4, <1>6, LagrangeScale
<1>13. LagrangeAtZero(xs, one, k + 1) \in Field
  BY <1>1, <1>3, LagrangeLaws
<1>14. LagrangeAtZero(xs, one, k + 1) = 1
  <2>1. (z ++ x) ** LagrangeAtZero(xs, one, k + 1) = (z ++ x) ** 1
    BY <1>4, <1>11, <1>12, Units
  <2>. QED BY <1>4, <1>13, <2>1, Closed, Cancel
<1>. QED BY <1>14 DEF one

LEMMA WeightsAddUp ==
    ASSUME NEW n \in Nat, n > 0
    PROVE  UnitSum(n)
<1>. DEFINE S == {k \in 0..n : k > 0 => UnitSum(k)}
<1>1. 0 \in S
  OBVIOUS
<1>2. ASSUME NEW k \in 0..(n - 1), k \in S PROVE k + 1 \in S
  <2>1. k \in Nat /\ k + 1 \in 0..n
    OBVIOUS
  <2>2. CASE k = 0
    BY <2>1, <2>2, UnitSumOne
  <2>3. CASE k > 0
    BY <1>2, <2>1, <2>3, UnitSumStep
  <2>. QED BY <2>1, <2>2, <2>3
<1>. HIDE DEF S
<1>3. 0..n \subseteq S
  BY <1>1, <1>2, UpTo
<1>. QED BY <1>3 DEF S

(* The powers of the points interpolate to 0, up to the degree k - 1. *)
Powers(xs, k, m) == [i \in 1..k |-> GfPower(xs[i], m)]
Unit(m) == IF m = 0 THEN 1 ELSE 0
PowersToUnit(m) ==
    \A k \in Nat : m < k => \A xs : Points(xs, k) => LagrangeAtZero(xs, Powers(xs, k, m), k) = Unit(m)

LEMMA PowersLaws ==
    ASSUME NEW k \in Nat, NEW xs, Points(xs, k), NEW m \in Nat
    PROVE  /\ Values(Powers(xs, k, m), k)
           /\ \A i \in 1..k : /\ Powers(xs, k, m)[i] = GfPower(xs[i], m)
                             /\ GfPower(xs[i], 0) = 1 /\ GfPower(xs[i], m) \in Field
                             /\ GfPower(xs[i], m + 1) = xs[i] ** GfPower(xs[i], m)
<1>1. \A i \in 1..k : xs[i] \in Field
  BY DEF Points
<1>2. \A i \in 1..k : /\ GfPower(xs[i], 0) = 1 /\ GfPower(xs[i], m) \in Field
                     /\ GfPower(xs[i], m + 1) = xs[i] ** GfPower(xs[i], m)
  BY <1>1, PowerLaws
<1>3. \A i \in 1..k : Powers(xs, k, m)[i] = GfPower(xs[i], m)
  BY DEF Powers
<1>. QED BY <1>2, <1>3 DEF Values

LEMMA PowersStep ==
    ASSUME NEW m \in Nat, PowersToUnit(m)
    PROVE  PowersToUnit(m + 1)
<1>. SUFFICES ASSUME NEW n \in Nat, m + 1 < n, NEW xs, Points(xs, n)
              PROVE  LagrangeAtZero(xs, Powers(xs, n, m + 1), n) = 0
  BY DEF PowersToUnit, Unit
<1>. DEFINE k == n - 1
            x == xs[n]
            p == Powers(xs, n, m)
            q == Powers(xs, n, m + 1)
            h == [i \in 1..n |-> (xs[i] ++ x) ** p[i]]
            e == [i \in 1..n |-> x ** p[i]]
<1>1. k \in Nat /\ k + 1 = n /\ m < k /\ m < n /\ n \in 1..n /\ m + 1 \in Nat
  OBVIOUS
<1>2. Points(xs, k) /\ \A i \in 1..n : xs[i] \in Field
  BY DEF Points
<1>3. Values(p, n) /\ \A i \in 1..n : p[i] = GfPower(xs[i], m) /\ p[i] \in Field
                                     /\ GfPower(xs[i], m + 1) = xs[i] ** p[i]
  BY PowersLaws
<1>4. \A i \in 1..n : q[i] = GfPower(xs[i], m + 1)
  BY <1>1, PowersLaws
<1>5. x \in Field
  BY <1>1, <1>2
<1>6. /\ \A i \in 1..n : h[i] = (xs[i] ++ x) ** p[i]
      /\ \A i \in 1..n : e[i] = x ** p[i]
  OBVIOUS
<1>7. LagrangeAtZero(xs, p, n) = Unit(m)
  BY <1>1 DEF PowersToUnit
<1>8. LagrangeAtZero(xs, Powers(xs, k, m), k) = Unit(m)
  BY <1>1, <1>2 DEF PowersToUnit
<1>9. LagrangeAtZero(xs, Powers(xs, k, m), k) = LagrangeAtZero(xs, p, k)
  <2>1. Values(Powers(xs, k, m), k) /\ \A i \in 1..k : Powers(xs, k, m)[i] = GfPower(xs[i], m)
    BY <1>1, <1>2, PowersLaws
  <2>2. \A i \in 1..k : Powers(xs, k, m)[i] = p[i]
    BY <1>1, <1>3, <2>1
  <2>. HIDE DEF k, p
  <2>. QED BY <1>1, <1>2, <2>1, <2>2, LagrangeSame
<1>. HIDE DEF x, p, q, h, e, k
<1>10. LagrangeAtZero(xs, h, n) = x ** Unit(m)
  <2>1. Points(xs, k + 1) /\ Values(p, k + 1) /\ \A i \in 1..(k + 1) : h[i] = (xs[i] ++ xs[k + 1]) ** p[i]
    BY <1>1, <1>3, <1>6 DEF x
  <2>2. LagrangeAtZero(xs, h, k + 1) = xs[k + 1] ** LagrangeAtZero(xs, p, k)
    BY <1>1, <2>1, DropLast
  <2>. QED BY <1>1, <1>8, <1>9, <2>2 DEF x
<1>11. LagrangeAtZero(xs, e, n) = x ** Unit(m)
  BY <1>3, <1>5, <1>6, <1>7, LagrangeScale
<1>12. Values(h, n) /\ Values(e, n)
  BY <1>2, <1>3, <1>5, <1>6, Closed DEF Values
<1>13. ASSUME NEW i \in 1..n PROVE q[i] = h[i] ++ e[i]
  <2>. DEFINE a == xs[i]
              b == p[i]
  <2>1. a \in Field /\ b \in Field /\ h[i] = (a ++ x) ** b /\ e[i] = x ** b /\ q[i] = a ** b
    BY <1>2, <1>3, <1>4, <1>6
  <2>. HIDE DEF a, b
  <2>2. (a ++ x) ** b = (a ** b) ++ (x ** b)
    <3>1. (a ++ x) ** b = b ** (a ++ x) /\ b ** a = a ** b /\ b ** x = x ** b
      BY <1>5, <2>1, Closed, Commutes
    <3>. QED BY <1>5, <2>1, <3>1, Distributes
  <2>4. a ** b \in Field /\ x ** b \in Field
    BY <1>5, <2>1, Closed
  <2>3. ((a ** b) ++ (x ** b)) ++ (x ** b) = (a ** b) ++ ((x ** b) ++ (x ** b))
    BY <2>4, Associates
  <2>. QED BY <2>1, <2>2, <2>3, <2>4, Units
<1>14. LagrangeAtZero(xs, q, n) = (x ** Unit(m)) ++ (x ** Unit(m))
  BY <1>10, <1>11, <1>12, <1>13, LagrangeAdd
<1>15. x ** Unit(m) \in Field
  BY <1>5, Closed DEF Unit
<1>16. LagrangeAtZero(xs, q, n) = 0
  BY <1>14, <1>15, Units
<1>. QED BY <1>16 DEF q

LEMMA PowersInterpolate ==
    ASSUME NEW n \in Nat
    PROVE  PowersToUnit(n)
<1>. DEFINE S == {m \in 0..n : PowersToUnit(m)}
<1>1. 0 \in S
  <2>1. ASSUME NEW k \in Nat, 0 < k, NEW xs, Points(xs, k)
        PROVE  LagrangeAtZero(xs, Powers(xs, k, 0), k) = 1
    <3>1. Values(Ones(k), k) /\ \A i \in 1..k : Ones(k)[i] = 1
      BY OnesLaws
    <3>2. \A i \in 1..k : Powers(xs, k, 0)[i] = 1
      BY <2>1, PowersLaws
    <3>3. LagrangeAtZero(xs, Ones(k), k) = LagrangeAtZero(xs, Powers(xs, k, 0), k)
      BY <2>1, <3>1, <3>2, LagrangeSame
    <3>4. LagrangeAtZero(xs, Ones(k), k) = 1
      BY <2>1, WeightsAddUp DEF UnitSum
    <3>. QED BY <3>3, <3>4
  <2>. QED BY <2>1 DEF PowersToUnit, Unit
<1>2. ASSUME NEW m \in 0..(n - 1), m \in S PROVE m + 1 \in S
  <2>1. m \in Nat /\ m + 1 \in 0..n
    OBVIOUS
  <2>. QED BY <1>2, <2>1, PowersStep
<1>. HIDE DEF S
<1>3. 0..n \subseteq S
  BY <1>1, <1>2, UpTo
<1>. QED BY <1>3 DEF S

-----------------------------------------------------------------------------
(* The values of a polynomial with k coefficients at k points bring back *)
(* the first coefficient.                                                *)
Monomials(c, k, x) == [i \in 1..k |-> c[i] ** GfPower(x, i - 1)]
Partial(c, k, xs, m) == [i \in 1..k |-> GfSum(Monomials(c, k, xs[i]), m)]

LEMMA MonomialsLaws ==
    ASSUME NEW k \in Nat, NEW c, Values(c, k), NEW x \in Field
    PROVE  /\ Values(Monomials(c, k, x), k)
           /\ \A i \in 1..k : /\ Monomials(c, k, x)[i] = c[i] ** GfPower(x, i - 1)
                             /\ c[i] \in Field /\ GfPower(x, i - 1) \in Field
<1>1. \A i \in 1..k : i - 1 \in Nat
  OBVIOUS
<1>2. \A i \in 1..k : GfPower(x, i - 1) \in Field /\ c[i] \in Field
  BY <1>1, PowerLaws DEF Values
<1>3. \A i \in 1..k : Monomials(c, k, x)[i] = c[i] ** GfPower(x, i - 1)
  BY DEF Monomials
<1>4. Values(Monomials(c, k, x), k)
  BY <1>2, <1>3, Closed DEF Values
<1>. QED BY <1>2, <1>3, <1>4

LEMMA PartialValues ==
    ASSUME NEW k \in Nat, NEW c, Values(c, k), NEW xs, Points(xs, k), NEW m \in 0..k
    PROVE  Values(Partial(c, k, xs, m), k)
           /\ \A i \in 1..k : Partial(c, k, xs, m)[i] = GfSum(Monomials(c, k, xs[i]), m)
<1>1. \A i \in 1..k : Partial(c, k, xs, m)[i] = GfSum(Monomials(c, k, xs[i]), m)
  BY DEF Partial
<1>2. ASSUME NEW i \in 1..k PROVE GfSum(Monomials(c, k, xs[i]), m) \in Field
  <2>1. xs[i] \in Field
    BY DEF Points
  <2>2. Values(Monomials(c, k, xs[i]), k)
    BY <2>1, MonomialsLaws
  <2>3. Values(Monomials(c, k, xs[i]), m) /\ m \in Nat
    BY <2>2, ValuesLess
  <2>. QED BY <2>3, SumSame
<1>. QED BY <1>1, <1>2 DEF Values

LEMMA PartialInterpolate ==
    ASSUME NEW k \in Nat, NEW c, Values(c, k), NEW xs, Points(xs, k), NEW m \in 0..k
    PROVE  LagrangeAtZero(xs, Partial(c, k, xs, m), k) = IF m = 0 THEN 0 ELSE c[1]
<1>. DEFINE S == {j \in 0..k : LagrangeAtZero(xs, Partial(c, k, xs, j), k) = IF j = 0 THEN 0 ELSE c[1]}
<1>1. 0 \in S
  <2>. DEFINE f == Partial(c, k, xs, 0)
  <2>1. Values(f, k) /\ \A i \in 1..k : f[i] = GfSum(Monomials(c, k, xs[i]), 0)
    <3>1. 0 \in 0..k
      OBVIOUS
    <3>. QED BY <3>1, PartialValues
  <2>. HIDE DEF f
  <2>2. \A i \in 1..k : f[i] = 0 ** f[i]
    BY <2>1, Empty, Closed, TimesZero
  <2>3. LagrangeAtZero(xs, f, k) = 0 ** LagrangeAtZero(xs, f, k)
    BY <2>1, <2>2, Closed, LagrangeScale
  <2>4. LagrangeAtZero(xs, f, k) \in Field
    BY <2>1, LagrangeLaws
  <2>. QED BY <2>3, <2>4, TimesZero DEF f
<1>2. ASSUME NEW j \in 0..(k - 1), j \in S PROVE j + 1 \in S
  <2>. DEFINE f == Partial(c, k, xs, j)
              h == Partial(c, k, xs, j + 1)
              p == Powers(xs, k, j)
              a == c[j + 1]
              e == [i \in 1..k |-> a ** p[i]]
  <2>1. j \in Nat /\ j < k /\ j + 1 \in 0..k /\ j + 1 \in 1..k /\ (j + 1) - 1 = j /\ j \in 0..k
    OBVIOUS
  <2>2. Values(f, k) /\ \A i \in 1..k : f[i] = GfSum(Monomials(c, k, xs[i]), j)
    BY <2>1, PartialValues
  <2>3. Values(h, k) /\ \A i \in 1..k : h[i] = GfSum(Monomials(c, k, xs[i]), j + 1)
    BY <2>1, PartialValues
  <2>4. Values(p, k) /\ \A i \in 1..k : p[i] = GfPower(xs[i], j)
    BY <2>1, PowersLaws
  <2>5. a \in Field
    BY <2>1 DEF Values
  <2>6. \A i \in 1..k : e[i] = a ** p[i]
    OBVIOUS
  <2>7. LagrangeAtZero(xs, p, k) = Unit(j)
    <3>1. PowersToUnit(j)
      BY <2>1, PowersInterpolate
    <3>. QED BY <2>1, <3>1 DEF PowersToUnit
  <2>8. LagrangeAtZero(xs, f, k) = IF j = 0 THEN 0 ELSE c[1]
    BY <1>2
  <2>. HIDE DEF f, h, p, e
  <2>9. Values(e, k)
    BY <2>4, <2>5, <2>6, Closed DEF Values
  <2>10. ASSUME NEW i \in 1..k PROVE h[i] = f[i] ++ e[i]
    <3>. DEFINE M == Monomials(c, k, xs[i])
    <3>1. xs[i] \in Field
      BY DEF Points
    <3>2. Values(M, k) /\ M[j + 1] = c[j + 1] ** GfPower(xs[i], (j + 1) - 1)
      BY <2>1, <3>1, MonomialsLaws
    <3>3. Values(M, j + 1)
      BY <2>1, <3>2, ValuesLess
    <3>4. GfSum(M, j + 1) = GfSum(M, j) ++ M[j + 1]
      BY <2>1, <3>3, SumLaws
    <3>. HIDE DEF M
    <3>5. M[j + 1] = e[i]
      BY <2>1, <2>4, <2>6, <3>2
    <3>6. h[i] = GfSum(M, j + 1) /\ f[i] = GfSum(M, j)
      BY <2>2, <2>3 DEF M
    <3>. QED BY <3>4, <3>5, <3>6
  <2>11. LagrangeAtZero(xs, h, k) = LagrangeAtZero(xs, f, k) ++ LagrangeAtZero(xs, e, k)
    BY <2>2, <2>9, <2>10, LagrangeAdd
  <2>12. LagrangeAtZero(xs, e, k) = a ** Unit(j)
    BY <2>4, <2>5, <2>6, <2>7, LagrangeScale
  <2>13. LagrangeAtZero(xs, h, k) = c[1]
    <3>1. 1 \in 1..k /\ c[1] \in Field
      BY <2>1 DEF Values
    <3>2. CASE j = 0
      <4>1. a = c[1] /\ Unit(j) = 1 /\ LagrangeAtZero(xs, f, k) = 0
        BY <2>8, <3>2 DEF Unit
      <4>. HIDE DEF a
      <4>. QED BY <2>11, <2>12, <3>1, <4>1, Units
    <3>3. CASE j # 0
      <4>1. Unit(j) = 0 /\ LagrangeAtZero(xs, f, k) = c[1]
        BY <2>8, <3>3 DEF Unit
      <4>. QED BY <2>5, <2>11, <2>12, <3>1, <4>1, Units, TimesZero
    <3>. QED BY <3>2, <3>3
  <2>14. j + 1 # 0
    BY <2>1
  <2>. QED BY <2>1, <2>13, <2>14 DEF h
<1>. HIDE DEF S
<1>3. 0..k \subseteq S
  BY <1>1, <1>2, UpTo
<1>. QED BY <1>3 DEF S

LEMMA Interpolation ==
    ASSUME NEW k \in Nat, k > 0, NEW c \in [1..k -> Field], NEW xs, Points(xs, k),
           NEW ys, \A i \in 1..k : ys[i] = EvalPoly(c, xs[i])
    PROVE  LagrangeAtZero(xs, ys, k) = c[1]
<1>1. Values(c, k) /\ Len(c) = k
  BY DEF Values
<1>2. k \in 0..k
  OBVIOUS
<1>3. \A x : EvalPoly(c, x) = GfSum(Monomials(c, k, x), k)
  BY <1>1 DEF EvalPoly, Monomials
<1>4. Values(Partial(c, k, xs, k), k) /\ \A i \in 1..k : Partial(c, k, xs, k)[i] = ys[i]
  BY <1>1, <1>2, <1>3, PartialValues
<1>5. LagrangeAtZero(xs, Partial(c, k, xs, k), k) = LagrangeAtZero(xs, ys, k)
  BY <1>4, LagrangeSame
<1>6. LagrangeAtZero(xs, Partial(c, k, xs, k), k) = IF k = 0 THEN 0 ELSE c[1]
  BY <1>1, <1>2, PartialInterpolate
<1>. QED BY <1>5, <1>6

LEMMA EvalPolyType ==
    ASSUME NEW k \in Nat, NEW c \in [1..k -> Field], NEW x \in Field
    PROVE  EvalPoly(c, x) \in Field
<1>1. Values(c, k) /\ Len(c) = k
  BY DEF Values
<1>2. EvalPoly(c, x) = GfSum(Monomials(c, k, x), k)
  BY <1>1 DEF EvalPoly, Monomials
<1>. QED BY <1>1, <1>2, MonomialsLaws, SumSame

-----------------------------------------------------------------------------
(* The order of shares with different indices. *)
Ascending(s, m) == \A i, j \in 1..m : i < j => s[i].index < s[j].index

SortedBelow(T, v) ==
    \E m \in Nat : \E s \in [1..m -> {t \in T : t.index < v}] :
        Ascending(s, m) /\ \A t \in T : t.index < v => \E i \in 1..m : s[i] = t

LEMMA SortedOneMore ==
    ASSUME NEW T, \A t \in T : t.index \in Nat, \A t, u \in T : t.index = u.index => t = u,
           NEW v \in Nat, SortedBelow(T, v)
    PROVE  SortedBelow(T, v + 1)
<1>. DEFINE A == {t \in T : t.index < v}
            B == {t \in T : t.index < v + 1}
<1>1. PICK m \in Nat : \E s \in [1..m -> A] :
        Ascending(s, m) /\ \A t \in T : t.index < v => \E i \in 1..m : s[i] = t
  BY DEF SortedBelow
<1>2. PICK s \in [1..m -> A] :
        Ascending(s, m) /\ \A t \in T : t.index < v => \E i \in 1..m : s[i] = t
  BY <1>1
<1>3. \A i \in 1..m : s[i] \in T /\ s[i].index < v /\ s[i].index \in Nat
  OBVIOUS
<1>4. CASE \E t \in T : t.index = v
  <2>1. PICK last \in T : last.index = v
    BY <1>4
  <2>. DEFINE r == [i \in 1..(m + 1) |-> IF i = m + 1 THEN last ELSE s[i]]
  <2>2. r[m + 1] = last /\ \A i \in 1..m : r[i] = s[i]
    OBVIOUS
  <2>3. r \in [1..(m + 1) -> B]
    <3>1. \A i \in 1..(m + 1) : i = m + 1 \/ i \in 1..m
      OBVIOUS
    <3>2. last \in B /\ \A i \in 1..m : s[i] \in B
      BY <1>3, <2>1
    <3>. HIDE DEF B
    <3>. QED BY <3>1, <3>2
  <2>. HIDE DEF r
  <2>4. ASSUME NEW i \in 1..(m + 1), NEW j \in 1..(m + 1), i < j PROVE r[i].index < r[j].index
    <3>1. i \in 1..m /\ (j = m + 1 \/ j \in 1..m)
      BY <2>4
    <3>2. CASE j = m + 1
      BY <1>3, <2>1, <2>2, <3>1, <3>2
    <3>3. CASE j \in 1..m
      BY <1>2, <2>2, <2>4, <3>1, <3>3 DEF Ascending
    <3>. QED BY <3>1, <3>2, <3>3
  <2>5. ASSUME NEW t \in T, t.index < v + 1 PROVE \E i \in 1..(m + 1) : r[i] = t
    <3>1. CASE t.index < v
      <4>1. PICK i \in 1..m : s[i] = t
        BY <1>2, <3>1
      <4>2. i \in 1..(m + 1) /\ r[i] = t
        BY <2>2, <4>1
      <4>. QED BY <4>2
    <3>2. CASE t.index = v
      <4>1. t = last /\ m + 1 \in 1..(m + 1)
        BY <2>1, <3>2
      <4>. QED BY <2>2, <4>1
    <3>. QED BY <2>5, <3>1, <3>2
  <2>6. m + 1 \in Nat
    OBVIOUS
  <2>. QED BY <2>3, <2>4, <2>5, <2>6 DEF SortedBelow, Ascending
<1>5. CASE ~ \E t \in T : t.index = v
  <2>1. \A t \in T : t.index < v + 1 <=> t.index < v
    BY <1>5
  <2>2. A = B
    BY <2>1
  <2>. HIDE DEF A, B
  <2>3. s \in [1..m -> B]
    BY <2>2
  <2>. QED BY <1>2, <2>1, <2>3 DEF SortedBelow, B
<1>. QED BY <1>4, <1>5

LEMMA Sortable ==
    ASSUME NEW T, NEW n \in Nat, \A t \in T : t.index \in 0..n, \A t, u \in T : t.index = u.index => t = u
    PROVE  \E m \in Nat : \E s \in [1..m -> T] : Ascending(s, m) /\ \A t \in T : \E i \in 1..m : s[i] = t
<1>. DEFINE S == {v \in 0..(n + 1) : SortedBelow(T, v)}
<1>1. 0 \in S
  <2>. DEFINE s == [i \in 1..0 |-> 0]
  <2>1. 1..0 = {} /\ 0 \in Nat
    OBVIOUS
  <2>2. s \in [1..0 -> {t \in T : t.index < 0}]
    BY <2>1
  <2>3. \A t \in T : ~ (t.index < 0)
    OBVIOUS
  <2>. HIDE DEF s
  <2>4. SortedBelow(T, 0)
    BY <2>1, <2>2, <2>3 DEF SortedBelow, Ascending
  <2>. QED BY <2>4
<1>2. ASSUME NEW v \in 0..((n + 1) - 1), v \in S PROVE v + 1 \in S
  <2>1. v \in Nat /\ v + 1 \in 0..(n + 1) /\ \A t \in T : t.index \in Nat
    OBVIOUS
  <2>. QED BY <1>2, <2>1, SortedOneMore
<1>. HIDE DEF S
<1>3. n + 1 \in Nat
  OBVIOUS
<1>4. 0..(n + 1) \subseteq S
  BY <1>1, <1>2, <1>3, UpTo
<1>5. SortedBelow(T, n + 1)
  BY <1>3, <1>4 DEF S
<1>6. {t \in T : t.index < n + 1} = T /\ \A t \in T : t.index < n + 1
  OBVIOUS
<1>. QED BY <1>5, <1>6 DEF SortedBelow

Different(shares) == IsInjective([i \in DOMAIN shares |-> shares[i].index])

(* Shares with different indices have an order, and it has all of them. *)
LEMMA SortedShares ==
    ASSUME NEW shares \in Seq(Shares), Different(shares)
    PROVE  /\ SortedByIndex(shares) \in [1..Len(shares) -> ToSet(shares)]
           /\ Ascending(SortedByIndex(shares), Len(shares))
<1>. DEFINE T == ToSet(shares)
            n == Len(shares)
            top == FieldSize - 1
<1>1. n \in Nat /\ DOMAIN shares = 1..n /\ top \in Nat
  BY GfAssumption
<1>2. \A i \in 1..n : shares[i] \in Shares /\ shares[i] \in T
  BY DEF ToSet
<1>3. \A t \in T : \E i \in 1..n : shares[i] = t
  BY DEF ToSet
<1>4. \A t \in Shares : t.index \in 0..top
  BY DEF Shares, Field
<1>5. \A i, j \in 1..n : shares[i].index = shares[j].index => i = j
  <2>. DEFINE f == [i \in DOMAIN shares |-> shares[i].index]
  <2>1. DOMAIN f = 1..n /\ \A i \in 1..n : f[i] = shares[i].index
    BY <1>1
  <2>2. \A i, j \in DOMAIN f : f[i] = f[j] => i = j
    BY DEF Different, IsInjective
  <2>. HIDE DEF f, n
  <2>. QED BY <2>1, <2>2
<1>. HIDE DEF T, n, top
<1>6. \A t \in T : t.index \in 0..top
  BY <1>2, <1>3, <1>4
<1>7. \A t, u \in T : t.index = u.index => t = u
  BY <1>3, <1>5
<1>8. PICK m \in Nat : \E s \in [1..m -> T] : Ascending(s, m) /\ \A t \in T : \E i \in 1..m : s[i] = t
  BY <1>1, <1>6, <1>7, Sortable
<1>9. PICK s \in [1..m -> T] : Ascending(s, m) /\ \A t \in T : \E i \in 1..m : s[i] = t
  BY <1>8
<1>10. s \in Bijection(1..m, T)
  <2>1. ASSUME NEW i \in 1..m, NEW j \in 1..m, s[i] = s[j] PROVE i = j
    <3>1. s[i].index \in 0..top
      BY <1>6
    <3>2. ~ (i < j) /\ ~ (j < i)
      BY <1>1, <1>9, <2>1, <3>1 DEF Ascending
    <3>. QED BY <3>2
  <2>2. s \in [1..m -> T] /\ \A t \in T : \E i \in 1..m : s[i] = t
    BY <1>9
  <2>. QED BY <2>1, <2>2, DOMAIN s = 1..m DEF Bijection, Injection, Surjection, IsInjective
<1>11. shares \in Bijection(1..n, T)
  <2>1. shares \in [1..n -> T]
    <3>1. shares = [i \in 1..n |-> shares[i]]
      BY <1>1 DEF n
    <3>. QED BY <1>2, <3>1
  <2>2. \A i, j \in 1..n : shares[i] = shares[j] => i = j
    BY <1>5
  <2>. QED BY <1>1, <1>3, <2>1, <2>2 DEF Bijection, Injection, Surjection, IsInjective
<1>12. m = n
  <2>1. ExistsBijection(1..m, T) /\ ExistsBijection(1..n, T)
    BY <1>10, <1>11 DEF ExistsBijection
  <2>2. Cardinality(T) = m /\ Cardinality(T) = n
    BY <1>1, <2>1, FS_CountingElements
  <2>. QED BY <2>2
<1>13. s \in [1..n -> T] /\ Ascending(s, n)
  BY <1>9, <1>12
<1>14. SortedByIndex(shares) = CHOOSE r \in [1..n -> T] : Ascending(r, n)
  BY DEF SortedByIndex, Ascending, n, T
<1>. QED BY <1>13, <1>14 DEF n, T

LEMMA CoeffBound == \A n \in Nat : n \in 1..MaxCoeffs => n # 0 /\ ~(n > MaxCoeffs) /\ ~(n < n)
BY DEF MaxCoeffs

(* shamir_recover interpolates the given shares, each at its index. *)
LEMMA Interpolated ==
    ASSUME NEW shares \in Seq(Shares), NEW k \in Nat, Len(shares) = k, k \in 1..MaxCoeffs,
           \A i \in 1..k : shares[i].index # 0, Different(shares)
    PROVE  \E xs, ys : /\ RecoverSecret(shares, k) = LagrangeAtZero(xs, ys, k)
                       /\ Points(xs, k)
                       /\ \A i \in 1..k : \E j \in 1..k : xs[i] = shares[j].index /\ ys[i] = shares[j].value
<1>. DEFINE s == SortedByIndex(shares)
            xs == [i \in 1..k |-> s[i].index]
            ys == [i \in 1..k |-> s[i].value]
<1>1. s \in [1..k -> ToSet(shares)] /\ Ascending(s, k)
  BY SortedShares
<1>2. DOMAIN shares = 1..k
  OBVIOUS
<1>3. RecoverSecret(shares, k) = LagrangeAtZero(xs, ys, k)
  <2>1. ~(k = 0 \/ k > MaxCoeffs \/ Len(shares) < k \/ (\E i \in DOMAIN shares : shares[i].index = 0))
    <3>1. k # 0 /\ ~(k > MaxCoeffs) /\ ~(Len(shares) < k)
      BY CoeffBound, Zenon
    <3>2. ~ \E i \in DOMAIN shares : shares[i].index = 0
      BY <1>2, Zenon
    <3>. QED BY <3>1, <3>2, Zenon
  <2>. QED BY <2>1 DEF RecoverSecret, Different
<1>. HIDE DEF s
<1>4. \A i \in 1..k : \E j \in 1..k : s[i] = shares[j]
  <2>. SUFFICES ASSUME NEW i \in 1..k PROVE \E j \in 1..k : s[i] = shares[j]
    OBVIOUS
  <2>1. s[i] \in ToSet(shares)
    BY <1>1
  <2>2. ToSet(shares) = {shares[j] : j \in 1..k}
    BY <1>2, Zenon DEF ToSet
  <2>. QED BY <2>1, <2>2, Zenon
<1>5. \A i \in 1..k : xs[i] = s[i].index /\ ys[i] = s[i].value
  OBVIOUS
<1>. HIDE DEF xs, ys
<1>6. \A i \in 1..k : \E j \in 1..k : xs[i] = shares[j].index /\ ys[i] = shares[j].value
  <2>. SUFFICES ASSUME NEW i \in 1..k
                PROVE  \E j \in 1..k : xs[i] = shares[j].index /\ ys[i] = shares[j].value
    OBVIOUS
  <2>1. PICK j \in 1..k : s[i] = shares[j]
    BY <1>4
  <2>2. xs[i] = shares[j].index /\ ys[i] = shares[j].value
    BY <1>5, <2>1
  <2>. QED BY <2>2
<1>7. \A j \in 1..k : shares[j].index \in Field /\ shares[j].index # 0
  <2>1. \A j \in 1..k : shares[j] \in Shares
    OBVIOUS
  <2>. QED BY <2>1 DEF Shares
<1>8. \A i \in 1..k : xs[i] \in Field /\ xs[i] # 0 /\ xs[i] \in Int
  <2>1. ASSUME NEW i \in 1..k PROVE xs[i] \in Field /\ xs[i] # 0
    <3>1. PICK j \in 1..k : xs[i] = shares[j].index
      BY <1>6
    <3>. QED BY <1>7, <3>1
  <2>2. Field \subseteq Int
    BY DEF Field
  <2>. QED BY <2>1, <2>2, Zenon
<1>9. ASSUME NEW i \in 1..k, NEW j \in 1..k, i # j PROVE xs[i] # xs[j]
  <2>1. i < j \/ j < i
    BY <1>9
  <2>2. xs[i] < xs[j] \/ xs[j] < xs[i]
    BY <1>1, <1>5, <2>1 DEF Ascending
  <2>. QED BY <1>8, <2>2
<1>10. Points(xs, k)
  BY <1>8, <1>9 DEF Points
<1>. DEFINE P(as, bs) == /\ RecoverSecret(shares, k) = LagrangeAtZero(as, bs, k)
                         /\ Points(as, k)
                         /\ \A i \in 1..k : \E j \in 1..k : as[i] = shares[j].index /\ bs[i] = shares[j].value
<1>11. P(xs, ys)
  BY <1>3, <1>6, <1>10
<1>12. \E as, bs : P(as, bs)
  <2>. HIDE DEF P
  <2>. QED BY <1>11, Zenon
<1>. QED BY <1>12

LEMMA FunctionIsSequence ==
    ASSUME NEW S, NEW n \in Nat, NEW f \in [1..n -> S]
    PROVE  f \in Seq(S) /\ Len(f) = n
OBVIOUS

(* Any p.k different shares of a split, in any order, bring back what       *)
(* shamir_split was given, whichever bytes the generator returned: what     *)
(* shamir_recover computes is the inverse of what shamir_split computes.    *)
THEOREM AnySharesRecover ==
    ASSUME NEW p \in [k : Field, n : Field], CanSplit(p),
           NEW secret \in Field, NEW random \in [1..(p.k - 1) -> Field],
           NEW shares \in Seq(Shares), Len(shares) = p.k, Different(shares),
           \A i \in 1..p.k : /\ shares[i].index \in 1..p.n
                            /\ shares[i].value = SharesOf(secret, p, random)[shares[i].index]
    PROVE  RecoverSecret(shares, p.k) = secret
<1>. DEFINE k == p.k
            c == <<secret>> \o random
<1>1. k \in Nat /\ k \in 1..MaxCoeffs /\ k > 0
  <2>1. p.k \in Nat /\ p.n \in Nat
    <3>1. Field \subseteq Nat
      BY DEF Field
    <3>. QED BY <3>1
  <2>2. \A x, y \in Nat : x \in 1..y /\ x <= MaxCoeffs => x \in 1..MaxCoeffs /\ x > 0
    BY DEF MaxCoeffs
  <2>3. p.k \in 1..p.n /\ p.k <= MaxCoeffs
    BY DEF CanSplit
  <2>. QED BY <2>1, <2>2, <2>3, Zenon
<1>2. c \in [1..k -> Field] /\ c[1] = secret
  <2>1. random \in Seq(Field) /\ Len(random) = k - 1
    <3>1. k - 1 \in Nat
      BY <1>1
    <3>. QED BY <3>1, FunctionIsSequence
  <2>2. c \in Seq(Field) /\ Len(c) = k /\ c[1] = secret
    BY <1>1, <2>1
  <2>. HIDE DEF c
  <2>. QED BY <2>2
<1>3. \A i \in 1..k : shares[i].index # 0
  OBVIOUS
<1>4. ASSUME NEW i \in 1..k PROVE shares[i].value = EvalPoly(c, shares[i].index)
  <2>1. shares[i].index \in 1..p.n /\ shares[i].value = SharesOf(secret, p, random)[shares[i].index]
    OBVIOUS
  <2>2. \A j \in 1..p.n : SharesOf(secret, p, random)[j] = EvalPoly(c, j)
    BY DEF SharesOf
  <2>. HIDE DEF c
  <2>. QED BY <2>1, <2>2
<1>. HIDE DEF c, k
<1>5. PICK xs, ys : /\ RecoverSecret(shares, k) = LagrangeAtZero(xs, ys, k)
                    /\ Points(xs, k)
                    /\ \A i \in 1..k : \E j \in 1..k : xs[i] = shares[j].index /\ ys[i] = shares[j].value
  <2>1. Len(shares) = k
    BY DEF k
  <2>. QED BY <1>1, <1>3, <2>1, Interpolated
<1>6. ASSUME NEW a \in 1..k PROVE ys[a] = EvalPoly(c, xs[a])
  <2>1. PICK j \in 1..k : xs[a] = shares[j].index /\ ys[a] = shares[j].value
    BY <1>5
  <2>. QED BY <1>4, <2>1
<1>7. LagrangeAtZero(xs, ys, k) = c[1]
  <2>1. \A a \in 1..k : ys[a] = EvalPoly(c, xs[a])
    BY <1>6
  <2>2. k \in Nat /\ k > 0 /\ c \in [1..k -> Field] /\ Points(xs, k)
    BY <1>1, <1>2, <1>5
  <2>. QED BY <2>1, <2>2, Interpolation, Zenon
<1>8. RecoverSecret(shares, k) = secret
  BY <1>2, <1>5, <1>7, Zenon
<1>. QED BY <1>8 DEF k

-----------------------------------------------------------------------------
(* ss are the splits made, T the texts there are: every text of a split has *)
(* its threshold and the value of one polynomial, which has the split key   *)
(* as its constant term.                                                    *)
SplitRecord == [key : Field, k : 1..MaxCoeffs, n : Field]
OfSplit(t, s, c) == t.k = s.k /\ t.index # 0 /\ t.value = EvalPoly(c, t.index)
OnPolynomial(T, s, i, c) == c[1] = s.key /\ \A t \in T : t.split = i => OfSplit(t, s, c)

Shared(ss, T) ==
    /\ ss \in Seq(SplitRecord) /\ T \subseteq Shares
    /\ \A t \in T : t.split \in 0..Len(ss)
    /\ \A i \in 1..Len(ss) : \E c \in [1..ss[i].k -> Field] : OnPolynomial(T, ss[i], i, c)

LEMMA SharedSubset ==
    ASSUME NEW ss, NEW T, NEW U, Shared(ss, T), U \subseteq T
    PROVE  Shared(ss, U)
<1>1. ss \in Seq(SplitRecord) /\ U \subseteq Shares /\ \A t \in U : t.split \in 0..Len(ss)
  BY DEF Shared
<1>2. ASSUME NEW i \in 1..Len(ss) PROVE \E c \in [1..ss[i].k -> Field] : OnPolynomial(U, ss[i], i, c)
  <2>1. PICK c \in [1..ss[i].k -> Field] : OnPolynomial(T, ss[i], i, c)
    BY DEF Shared
  <2>2. OnPolynomial(U, ss[i], i, c)
    BY <2>1 DEF OnPolynomial
  <2>. QED BY <2>2
<1>. QED BY <1>1, <1>2 DEF Shared

(* Reading a text changes its threshold only when it comes from no split. *)
LEMMA Parsed ==
    ASSUME NEW ss, NEW T, Shared(ss, T), NEW t \in T
    PROVE  /\ FromArmoured(t) \in Shares /\ FromArmoured(t).split = t.split
           /\ t.split # 0 => FromArmoured(t) = t
<1>1. t \in Shares /\ t.split \in 0..Len(ss) /\ Len(ss) \in Nat
  BY DEF Shared
<1>2. CASE t.k # 0
  BY <1>1, <1>2 DEF FromArmoured
<1>3. CASE t.k = 0
  <2>1. FromArmoured(t) = [t EXCEPT !.k = 1]
    BY <1>3 DEF FromArmoured
  <2>2. FromArmoured(t) \in Shares /\ FromArmoured(t).split = t.split
    BY <1>1, <2>1, Closed DEF Shares
  <2>3. t.split = 0
    <3>. SUFFICES ASSUME t.split # 0 PROVE FALSE
      OBVIOUS
    <3>1. t.split \in 1..Len(ss)
      BY <1>1
    <3>2. PICK c \in [1..ss[t.split].k -> Field] : OnPolynomial(T, ss[t.split], t.split, c)
      BY <3>1 DEF Shared
    <3>3. t.k = ss[t.split].k
      BY <3>2 DEF OnPolynomial, OfSplit
    <3>4. ss[t.split] \in SplitRecord
      BY <3>1 DEF Shared
    <3>5. \A s \in SplitRecord : s.k # 0
      BY DEF SplitRecord
    <3>. QED BY <1>3, <3>3, <3>4, <3>5
  <2>. QED BY <2>2, <2>3
<1>. QED BY <1>2, <1>3

LEMMA SharedParsed ==
    ASSUME NEW ss, NEW T, Shared(ss, T)
    PROVE  Shared(ss, T \cup {FromArmoured(t) : t \in T})
<1>. DEFINE U == T \cup {FromArmoured(t) : t \in T}
<1>1. \A u \in U : u \in T \/ \E t \in T : u = FromArmoured(t)
  OBVIOUS
<1>2. ASSUME NEW u \in U PROVE u \in Shares /\ u.split \in 0..Len(ss) /\ (u.split # 0 => u \in T)
  <2>1. CASE u \in T
    BY <2>1 DEF Shared
  <2>2. CASE \E t \in T : u = FromArmoured(t)
    <3>1. PICK t \in T : u = FromArmoured(t)
      BY <2>2
    <3>2. t.split \in 0..Len(ss)
      BY DEF Shared
    <3>. QED BY <3>1, <3>2, Parsed
  <2>. QED BY <1>1, <2>1, <2>2
<1>. HIDE DEF U
<1>3. ASSUME NEW i \in 1..Len(ss) PROVE \E c \in [1..ss[i].k -> Field] : OnPolynomial(U, ss[i], i, c)
  <2>1. PICK c \in [1..ss[i].k -> Field] : OnPolynomial(T, ss[i], i, c)
    BY DEF Shared
  <2>2. i # 0
    OBVIOUS
  <2>3. OnPolynomial(U, ss[i], i, c)
    BY <1>2, <2>1, <2>2 DEF OnPolynomial
  <2>. QED BY <2>3
<1>4. Shared(ss, U)
  BY <1>2, <1>3 DEF Shared
<1>. QED BY <1>4 DEF U

-----------------------------------------------------------------------------
(* The length of a list as a u8. *)
LEMMA Wrapped ==
    ASSUME NEW n \in Nat
    PROVE  n % FieldSize \in Nat /\ n % FieldSize <= n /\ (n < FieldSize => n % FieldSize = n)
<1>. DEFINE q == n \div FieldSize
            r == n % FieldSize
<1>1. FieldSize \in Nat /\ FieldSize > 1
  BY GfAssumption
<1>2. r \in 0..(FieldSize - 1)
  BY <1>1
<1>3. q \in Nat /\ n = FieldSize * q + r
  BY <1>1
<1>. HIDE DEF q, r
<1>4. FieldSize * q \in Nat /\ (q # 0 => FieldSize * q >= FieldSize)
  BY <1>1, <1>3
<1>5. r <= n
  BY <1>2, <1>3, <1>4
<1>6. n < FieldSize => q = 0
  BY <1>1, <1>2, <1>3, <1>4
<1>7. n < FieldSize => r = n
  BY <1>1, <1>2, <1>3, <1>6
<1>. QED BY <1>2, <1>5, <1>7 DEF r

(* The recovery of a list which starts with k different shares. *)
LEMMA RecoverKeyLaws ==
    ASSUME NEW given \in Seq(Shares), given # <<>>
    PROVE  LET k == given[1].k IN
           /\ k \in Nat /\ 1 \in 1..Len(given)
           /\ Len(given) < k => RecoverKey(given) = -1
           /\ RecoverKey(given) # -1 =>
                /\ k \in 1..MaxCoeffs /\ k <= Len(given)
                /\ Different(Taken(given, k)) /\ \A i \in 1..k : given[i].index # 0
           /\ Len(given) < FieldSize /\ k \in 1..Len(given) => RecoverKey(given) = RecoverSecret(Taken(given, k), k)
           /\ RecoverKey(given) \in {-1, RecoverSecret(Taken(given, k), k)}
<1>. DEFINE k == given[1].k
            n == Len(given)
            s == Taken(given, k)
<1>1. n \in Nat /\ 1 \in 1..n /\ given[1] \in Shares
  OBVIOUS
<1>2. k \in Nat
  BY <1>1 DEF Shares, Field
<1>3. RecoverKey(given) = IF k = 0 \/ n % FieldSize < k THEN -1 ELSE RecoverSecret(s, k)
  BY DEF RecoverKey
<1>4. n % FieldSize \in Nat /\ n % FieldSize <= n /\ (n < FieldSize => n % FieldSize = n)
  BY <1>1, Wrapped
<1>5. k <= n => s \in Seq(Shares) /\ Len(s) = k /\ DOMAIN s = 1..k /\ \A i \in 1..k : s[i] = given[i]
  <2>. SUFFICES ASSUME k <= n PROVE s \in Seq(Shares) /\ Len(s) = k /\ DOMAIN s = 1..k /\ \A i \in 1..k : s[i] = given[i]
    OBVIOUS
  <2>1. s = SubSeq(given, 1, k)
    BY DEF Taken
  <2>. HIDE DEF k
  <2>. QED BY <1>1, <1>2, <2>1
<1>. HIDE DEF k, n, s
<1>6. n < k => RecoverKey(given) = -1
  BY <1>1, <1>2, <1>3, <1>4
<1>7. n < FieldSize /\ k \in 1..n => RecoverKey(given) = RecoverSecret(s, k)
  BY <1>1, <1>2, <1>3, <1>4
<1>8. RecoverKey(given) \in {-1, RecoverSecret(s, k)}
  BY <1>3
<1>9. ASSUME RecoverKey(given) # -1
      PROVE  k \in 1..MaxCoeffs /\ k <= n /\ Different(s) /\ \A i \in 1..k : given[i].index # 0
  <2>1. RecoverSecret(s, k) # -1
    BY <1>8, <1>9
  <2>2. k <= n
    BY <1>1, <1>2, <1>6, <1>9
  <2>3. /\ ~(k = 0 \/ k > MaxCoeffs \/ Len(s) < k \/ (\E i \in DOMAIN s : s[i].index = 0))
        /\ Different(s)
    BY <2>1 DEF RecoverSecret, Different
  <2>4. k # 0 /\ ~(k > MaxCoeffs) /\ \A i \in 1..k : s[i].index # 0
    BY <1>5, <2>2, <2>3
  <2>5. k \in 1..MaxCoeffs
    BY <1>2, <2>4 DEF MaxCoeffs
  <2>6. \A i \in 1..k : given[i].index # 0
    BY <1>5, <2>2, <2>4
  <2>. QED BY <2>2, <2>3, <2>5, <2>6
<1>. QED BY <1>1, <1>2, <1>6, <1>7, <1>8, <1>9 DEF k, n, s

LEMMA KeyType ==
    ASSUME NEW given \in Seq(Shares)
    PROVE  RecoverKey(given) \in Field \cup {-1}
<1>1. CASE given = <<>>
  BY <1>1 DEF RecoverKey
<1>2. CASE given # <<>> /\ RecoverKey(given) # -1
  <2>. DEFINE k == given[1].k
              s == Taken(given, k)
  <2>1. /\ k \in Nat /\ k \in 1..MaxCoeffs /\ k <= Len(given) /\ Different(s)
        /\ \A i \in 1..k : given[i].index # 0
        /\ RecoverKey(given) = RecoverSecret(s, k)
    BY <1>2, RecoverKeyLaws
  <2>. HIDE DEF k
  <2>2. s \in Seq(Shares) /\ Len(s) = k /\ \A i \in 1..k : s[i] = given[i]
    BY <2>1 DEF Taken
  <2>. HIDE DEF s
  <2>3. \A i \in 1..k : s[i].index # 0
    BY <2>1, <2>2
  <2>4. PICK xs, ys : /\ RecoverSecret(s, k) = LagrangeAtZero(xs, ys, k)
                      /\ Points(xs, k)
                      /\ \A i \in 1..k : \E j \in 1..k : xs[i] = s[j].index /\ ys[i] = s[j].value
    BY <2>1, <2>2, <2>3, Interpolated
  <2>5. \A j \in 1..k : s[j].value \in Field
    <3>1. \A j \in 1..k : s[j] \in Shares
      BY <2>2
    <3>. QED BY <3>1 DEF Shares
  <2>6. ASSUME NEW i \in 1..k PROVE ys[i] \in Field
    <3>1. PICK j \in 1..k : ys[i] = s[j].value
      BY <2>4
    <3>. QED BY <2>5, <3>1
  <2>7. Values(ys, k)
    BY <2>6 DEF Values
  <2>8. LagrangeAtZero(xs, ys, k) \in Field
    BY <2>1, <2>4, <2>7, LagrangeLaws
  <2>. QED BY <2>1, <2>4, <2>8
<1>3. CASE RecoverKey(given) = -1
  BY <1>3
<1>. QED BY <1>1, <1>2, <1>3

(* The kinds of lists. *)
LEMMA KindLaws ==
    ASSUME NEW given \in Seq(Shares), Kind(given) # "mixed"
    PROVE  /\ given # <<>> /\ 1 \in 1..Len(given)
           /\ \A i \in 1..Len(given) : given[i].split = given[1].split /\ given[i].split # 0
           /\ Kind(given) = "few" => Len(given) < given[1].k
           /\ Kind(given) \in {"repeated", "enough", "wrapped"} =>
                ~(Len(given) < given[1].k)
                /\ (Kind(given) = "repeated" <=> ~IsInjective([i \in 1..given[1].k |-> given[i].index]))
           /\ Kind(given) = "enough" => Len(given) < FieldSize
<1>1. ~(given = <<>> \/ \E i \in DOMAIN given : given[i].split # given[1].split \/ given[i].split = 0)
  BY DEF Kind
<1>2. given # <<>> /\ Len(given) \in Nat /\ DOMAIN given = 1..Len(given)
  BY <1>1
<1>3. 1 \in 1..Len(given)
  BY <1>2
<1>. DEFINE k == given[1].k
            inj == IsInjective([i \in 1..k |-> given[i].index])
<1>4. Kind(given) = IF Len(given) < k THEN "few" ELSE IF ~inj THEN "repeated"
                    ELSE IF Len(given) < FieldSize THEN "enough" ELSE "wrapped"
  BY <1>1 DEF Kind
<1>5. \A i \in 1..Len(given) : given[i].split = given[1].split /\ given[i].split # 0
  BY <1>1, <1>2, Zenon
<1>. HIDE DEF k, inj
<1>6. /\ Kind(given) = "few" => Len(given) < k
      /\ Kind(given) \in {"repeated", "enough", "wrapped"} =>
           ~(Len(given) < k) /\ (Kind(given) = "repeated" <=> ~inj)
      /\ Kind(given) = "enough" => Len(given) < FieldSize
  BY <1>4
<1>. QED BY <1>2, <1>3, <1>5, <1>6 DEF k, inj

(* The first k shares of a list, as shamir_recover sees them. *)
LEMMA TakenDifferent ==
    ASSUME NEW given \in Seq(Shares), NEW k \in Nat, k <= Len(given)
    PROVE  /\ Taken(given, k) \in Seq(Shares) /\ Len(Taken(given, k)) = k
           /\ \A i \in 1..k : Taken(given, k)[i] = given[i]
           /\ Different(Taken(given, k)) <=> IsInjective([i \in 1..k |-> given[i].index])
<1>. DEFINE s == Taken(given, k)
<1>1. s \in Seq(Shares) /\ Len(s) = k /\ DOMAIN s = 1..k /\ \A i \in 1..k : s[i] = given[i]
  BY DEF Taken
<1>. HIDE DEF s
<1>2. [i \in DOMAIN s |-> s[i].index] = [i \in 1..k |-> given[i].index]
  BY <1>1
<1>. QED BY <1>1, <1>2 DEF s, Different

LEMMA KeyRefused ==
    ASSUME NEW given \in Seq(Shares), Kind(given) \in {"few", "repeated"}
    PROVE  RecoverKey(given) = -1
<1>. DEFINE k == given[1].k
<1>1. Kind(given) # "mixed"
  OBVIOUS
<1>2. given # <<>>
  BY <1>1, KindLaws
<1>3. k \in Nat /\ (Len(given) < k => RecoverKey(given) = -1)
      /\ (RecoverKey(given) # -1 => Different(Taken(given, k)))
  BY <1>2, RecoverKeyLaws
<1>4. CASE Kind(given) = "few"
  BY <1>1, <1>3, <1>4, KindLaws
<1>5. CASE Kind(given) = "repeated"
  <2>1. ~(Len(given) < k) /\ ~IsInjective([i \in 1..k |-> given[i].index])
    BY <1>1, <1>5, KindLaws
  <2>. HIDE DEF k
  <2>2. k <= Len(given)
    BY <1>3, <2>1
  <2>. QED BY <1>3, <2>1, <2>2, TakenDifferent
<1>. QED BY <1>4, <1>5

LEMMA KeyBack ==
    ASSUME NEW given \in Seq(Shares), NEW ss, NEW T, Shared(ss, T), \A i \in 1..Len(given) : given[i] \in T,
           Kind(given) \in {"enough", "wrapped"}
    PROVE  /\ RecoverKey(given) \in {ss[given[1].split].key, -1}
           /\ Kind(given) = "enough" => RecoverKey(given) = ss[given[1].split].key
<1>. DEFINE k == given[1].k
            i == given[1].split
            s == Taken(given, k)
<1>1. /\ Kind(given) # "mixed" /\ given # <<>> /\ 1 \in 1..Len(given)
      /\ \A j \in 1..Len(given) : given[j].split = i /\ given[j].split # 0
      /\ ~(Len(given) < k) /\ IsInjective([j \in 1..k |-> given[j].index])
      /\ Kind(given) = "enough" => Len(given) < FieldSize
  BY KindLaws
<1>2. /\ k \in Nat /\ RecoverKey(given) \in {-1, RecoverSecret(s, k)}
      /\ Len(given) < FieldSize /\ k \in 1..Len(given) => RecoverKey(given) = RecoverSecret(s, k)
  BY <1>1, RecoverKeyLaws
<1>3. i \in 1..Len(ss) /\ given[1] \in T
  <2>1. given[1] \in T /\ i # 0
    BY <1>1
  <2>2. i \in 0..Len(ss) /\ Len(ss) \in Nat
    BY <2>1 DEF Shared
  <2>. QED BY <2>1, <2>2
<1>4. PICK c \in [1..ss[i].k -> Field] : OnPolynomial(T, ss[i], i, c)
  BY <1>3 DEF Shared
<1>5. k = ss[i].k
  BY <1>3, <1>4 DEF OnPolynomial, OfSplit
<1>6. k \in 1..MaxCoeffs
  <2>1. ss[i] \in SplitRecord
    BY <1>3 DEF Shared
  <2>2. \A r \in SplitRecord : r.k \in 1..MaxCoeffs
    BY DEF SplitRecord
  <2>. QED BY <1>5, <2>1, <2>2
<1>7. \A j \in 1..Len(given) : given[j].index # 0 /\ given[j].value = EvalPoly(c, given[j].index)
  BY <1>1, <1>4 DEF OnPolynomial, OfSplit
<1>8. c[1] = ss[i].key /\ c \in [1..k -> Field]
  BY <1>4, <1>5 DEF OnPolynomial
<1>. HIDE DEF k, i
<1>9. k <= Len(given) /\ k > 0 /\ k \in 1..Len(given)
  BY <1>1, <1>2, <1>6
<1>10. /\ s \in Seq(Shares) /\ Len(s) = k /\ \A j \in 1..k : s[j] = given[j]
       /\ Different(s)
  BY <1>1, <1>2, <1>9, TakenDifferent
<1>. HIDE DEF s
<1>11. \A j \in 1..k : s[j].index # 0 /\ s[j].value = EvalPoly(c, s[j].index)
  BY <1>7, <1>9, <1>10
<1>12. PICK xs, ys : /\ RecoverSecret(s, k) = LagrangeAtZero(xs, ys, k)
                     /\ Points(xs, k)
                     /\ \A a \in 1..k : \E j \in 1..k : xs[a] = s[j].index /\ ys[a] = s[j].value
  BY <1>2, <1>6, <1>10, <1>11, Interpolated
<1>13. ASSUME NEW a \in 1..k PROVE ys[a] = EvalPoly(c, xs[a])
  <2>1. PICK j \in 1..k : xs[a] = s[j].index /\ ys[a] = s[j].value
    BY <1>12
  <2>. QED BY <1>11, <2>1
<1>14. LagrangeAtZero(xs, ys, k) = c[1]
  <2>1. \A a \in 1..k : ys[a] = EvalPoly(c, xs[a])
    BY <1>13
  <2>2. k \in Nat /\ k > 0 /\ c \in [1..k -> Field] /\ Points(xs, k)
    BY <1>2, <1>8, <1>9, <1>12
  <2>. QED BY <2>1, <2>2, Interpolation, Zenon
<1>15. RecoverSecret(s, k) = ss[i].key
  BY <1>8, <1>12, <1>14
<1>. QED BY <1>1, <1>2, <1>9, <1>15 DEF i

-----------------------------------------------------------------------------
(* A new split: its texts are values of the polynomial it draws. *)
LEMMA SharedSplit ==
    ASSUME NEW T, Shared(splits, T), slotKey \in Field,
           NEW p \in [k : Field, n : Field], CanSplit(p), NEW r \in [1..(p.k - 1) -> RandomBytes]
    PROVE  /\ Armoured(p, r) \in Seq(Shares)
           /\ Shared(Append(splits, [key |-> slotKey, k |-> p.k, n |-> p.n]), T \cup ToSet(Armoured(p, r)))
<1>. DEFINE rec == [key |-> slotKey, k |-> p.k, n |-> p.n]
            ss == Append(splits, rec)
            m == Len(splits)
            A == Armoured(p, r)
            U == T \cup ToSet(A)
            c == <<slotKey>> \o r
<1>1. p.k \in Nat /\ p.n \in Nat /\ p.k \in 1..p.n /\ p.n < FieldSize /\ p.k <= MaxCoeffs /\ p.k \in Field /\ p.n \in Field
  <2>1. p.k \in Field /\ p.n \in Field /\ CanSplit(p)
    OBVIOUS
  <2>2. Field \subseteq Nat
    BY DEF Field
  <2>. QED BY <2>1, <2>2 DEF CanSplit
<1>2. c \in [1..p.k -> Field] /\ c[1] = slotKey
  <2>1. r \in [1..(p.k - 1) -> Field] /\ p.k - 1 \in Nat
    BY <1>1, ShamirAssumption
  <2>2. r \in Seq(Field) /\ Len(r) = p.k - 1
    BY <2>1
  <2>3. c \in Seq(Field) /\ Len(c) = p.k /\ c[1] = slotKey
    BY <1>1, <2>2
  <2>. HIDE DEF c
  <2>. QED BY <2>3
<1>. HIDE DEF c
<1>3. rec \in SplitRecord
  <2>1. p.k \in 1..MaxCoeffs
    <3>1. \A x, y \in Nat : x \in 1..y /\ x <= MaxCoeffs => x \in 1..MaxCoeffs
      BY DEF MaxCoeffs
    <3>. QED BY <1>1, <3>1, Zenon
  <2>. QED BY <1>1, <2>1 DEF SplitRecord
<1>4. splits \in Seq(SplitRecord) /\ m \in Nat
  BY DEF Shared
<1>5. ss \in Seq(SplitRecord) /\ Len(ss) = m + 1 /\ ss[m + 1] = rec /\ \A i \in 1..m : ss[i] = splits[i]
  <2>. HIDE DEF rec
  <2>. QED BY <1>3, <1>4
<1>6. ASSUME NEW i \in 1..p.n
      PROVE  /\ A[i] \in Shares /\ A[i].split = m + 1 /\ A[i].k = p.k /\ A[i].index = i
             /\ A[i].index # 0 /\ A[i].value = EvalPoly(c, i)
  <2>1. i \in Field /\ i # 0
    BY <1>1, GfAssumption DEF Field
  <2>2. SharesOf(slotKey, p, r)[i] = EvalPoly(c, i)
    BY DEF SharesOf, c
  <2>3. EvalPoly(c, i) \in Field
    BY <1>1, <1>2, <2>1, EvalPolyType
  <2>4. A[i] = [split |-> m + 1, k |-> p.k, n |-> p.n, index |-> i, value |-> EvalPoly(c, i)]
    BY <2>2 DEF Armoured
  <2>. HIDE DEF A
  <2>. QED BY <1>1, <1>4, <2>1, <2>3, <2>4 DEF Shares
<1>7. A \in Seq(Shares) /\ DOMAIN A = 1..p.n
  <2>1. A = [i \in 1..p.n |-> A[i]] /\ DOMAIN A = 1..p.n
    BY DEF Armoured
  <2>. HIDE DEF A
  <2>2. A \in [1..p.n -> Shares]
    BY <1>6, <2>1
  <2>. QED BY <1>1, <2>1, <2>2
<1>. HIDE DEF A
<1>8. \A u \in U : u \in T \/ \E i \in 1..p.n : u = A[i]
  <2>1. ToSet(A) = {A[i] : i \in 1..p.n}
    BY <1>7 DEF ToSet
  <2>. QED BY <2>1
<1>. HIDE DEF rec, ss, m, U
<1>9. T \subseteq Shares /\ \A t \in T : t.split \in 0..m
  BY DEF Shared, m
<1>10. \A u \in U : u \in Shares /\ u.split \in 0..(m + 1)
  <2>1. 0..m \subseteq 0..(m + 1) /\ m + 1 \in 0..(m + 1)
    BY <1>4
  <2>. QED BY <1>6, <1>8, <1>9, <2>1
<1>11. ASSUME NEW i \in 1..m PROVE \E d \in [1..ss[i].k -> Field] : OnPolynomial(U, ss[i], i, d)
  <2>1. PICK d \in [1..splits[i].k -> Field] : OnPolynomial(T, splits[i], i, d)
    BY DEF Shared, m
  <2>2. \A u \in U : u.split = i => u \in T
    <3>1. i # m + 1
      BY <1>4
    <3>. QED BY <1>6, <1>8, <3>1
  <2>3. OnPolynomial(U, splits[i], i, d)
    BY <2>1, <2>2 DEF OnPolynomial
  <2>4. ss[i] = splits[i]
    BY <1>5
  <2>. QED BY <2>3, <2>4
<1>12. OnPolynomial(U, ss[m + 1], m + 1, c) /\ c \in [1..ss[m + 1].k -> Field]
  <2>1. \A u \in U : u.split = m + 1 => \E i \in 1..p.n : u = A[i]
    <3>1. \A t \in T : t.split # m + 1
      BY <1>4, <1>9
    <3>. QED BY <1>8, <3>1
  <2>2. rec.k = p.k /\ rec.key = slotKey
    BY DEF rec
  <2>3. \A u \in U : u.split = m + 1 => OfSplit(u, rec, c)
    BY <1>6, <2>1, <2>2 DEF OfSplit
  <2>. QED BY <1>2, <1>5, <2>2, <2>3 DEF OnPolynomial
<1>13. Shared(ss, U)
  <2>1. \A i \in 1..(m + 1) : i \in 1..m \/ i = m + 1
    BY <1>4
  <2>2. \A i \in 1..(m + 1) : \E d \in [1..ss[i].k -> Field] : OnPolynomial(U, ss[i], i, d)
    BY <1>11, <1>12, <2>1
  <2>. QED BY <1>5, <1>10, <2>2 DEF Shared
<1>. QED BY <1>7, <1>13 DEF ss, rec, U, A

-----------------------------------------------------------------------------
(* All share texts, the ones still to be written included. *)
Written == Texts \cup ToSet(writing)

(* The inductive invariant: the texts belong to the splits that were made, *)
(* and the last recovery was right.                                        *)
ShamirInv ==
    /\ slotKey \in Field /\ shamirCommands \in 0..MaxShamirCommands
    /\ writing \in Seq(Shares)
    /\ Shared(splits, Written)
    /\ restored.out \in Field \cup {-1}
    /\ SharesRecover

LEMMA ShamirInitInv == ShamirInit => ShamirInv
<1>. SUFFICES ASSUME ShamirInit PROVE ShamirInv
  OBVIOUS
<1>. USE DEF ShamirInit
<1>1. slotKey \in Field
  <2>1. slotKey \in Keys
    BY ShamirAssumption
  <2>. QED BY <2>1, ShamirAssumption
<1>2. shamirCommands \in 0..MaxShamirCommands
  BY ShamirAssumption
<1>3. writing \in Seq(Shares) /\ ToSet(writing) = {}
  BY DEF ToSet
<1>4. Texts = Handmade
  BY DEF Texts
<1>5. Shared(splits, Written)
  <2>1. Written = Handmade
    BY <1>3, <1>4 DEF Written
  <2>2. splits \in Seq(SplitRecord) /\ Len(splits) = 0
    OBVIOUS
  <2>3. Handmade \subseteq Shares /\ \A t \in Handmade : t.split \in 0..0
    BY ShamirAssumption
  <2>. QED BY <2>1, <2>2, <2>3 DEF Shared
<1>6. restored.out \in Field \cup {-1} /\ SharesRecover
  BY DEF SharesRecover
<1>. QED BY <1>1, <1>2, <1>3, <1>5, <1>6 DEF ShamirInv

LEMMA StartBound ==
    ASSUME ShamirInv, ShamirStart
    PROVE  shamirCommands' \in 0..MaxShamirCommands /\ writing = <<>> /\ ToSet(writing) = {}
<1>1. shamirCommands' \in 0..MaxShamirCommands
  BY ShamirAssumption DEF ShamirInv, ShamirStart
<1>2. writing = <<>>
  BY DEF ShamirStart
<1>. QED BY <1>1, <1>2 DEF ToSet

(* A step that leaves the splits alone and makes no new texts. *)
LEMMA FewerTexts ==
    ASSUME ShamirInv, UNCHANGED splits, Written' \subseteq Written
    PROVE  Shared(splits', Written')
<1>1. Shared(splits, Written)
  BY DEF ShamirInv
<1>2. Shared(splits, Written')
  BY <1>1, SharedSubset
<1>. QED BY <1>2

LEMMA NewKeyInv == ShamirInv /\ NewKey => ShamirInv'
<1>. SUFFICES ASSUME ShamirInv, NewKey PROVE ShamirInv'
  OBVIOUS
<1>1. slotKey' \in Field
  BY ShamirAssumption DEF NewKey
<1>2. UNCHANGED <<splits, directory, copies, writing, restored, shamirCommands>>
  BY DEF NewKey
<1>3. Written' = Written
  BY <1>2 DEF Written, Texts
<1>4. Shared(splits', Written')
  BY <1>2, <1>3, FewerTexts
<1>. QED BY <1>1, <1>2, <1>4 DEF ShamirInv, SharesRecover

(* The texts of a new split, of whichever command. *)
LEMMA RecordedInv ==
    ASSUME ShamirInv, ShamirStart, NEW p \in {q \in Plans : CanSplit(q)},
           NEW r \in [1..(p.k - 1) -> RandomBytes], Recorded(p),
           Written' \subseteq Written \cup ToSet(Armoured(p, r))
    PROVE  Shared(splits', Written') /\ Armoured(p, r) \in Seq(Shares)
<1>1. p \in [k : Field, n : Field] /\ CanSplit(p)
  BY ShamirAssumption
<1>2. Shared(splits, Written) /\ slotKey \in Field
  BY DEF ShamirInv
<1>3. /\ Armoured(p, r) \in Seq(Shares)
      /\ Shared(Append(splits, [key |-> slotKey, k |-> p.k, n |-> p.n]), Written \cup ToSet(Armoured(p, r)))
  BY <1>1, <1>2, SharedSplit
<1>4. splits' = Append(splits, [key |-> slotKey, k |-> p.k, n |-> p.n])
  BY DEF Recorded
<1>5. Shared(splits', Written \cup ToSet(Armoured(p, r)))
  BY <1>3, <1>4
<1>6. Shared(splits', Written')
  BY <1>5, SharedSubset
<1>. QED BY <1>3, <1>6

LEMMA SplitInv == ShamirInv /\ Split => ShamirInv'
<1>. SUFFICES ASSUME ShamirInv, Split PROVE ShamirInv'
  OBVIOUS
<1>1. ShamirStart /\ UNCHANGED <<slotKey, directory, copies, restored>>
  BY DEF Split
<1>2. shamirCommands' \in 0..MaxShamirCommands /\ writing = <<>> /\ ToSet(writing) = {}
  BY <1>1, StartBound
<1>3. Texts' = Texts
  BY <1>1 DEF Texts
<1>4. Shared(splits', Written') /\ writing' \in Seq(Shares)
  <2>1. CASE \E p \in {q \in Plans : CanSplit(q)} : \E r \in [1..(p.k - 1) -> RandomBytes] :
               writing' = Armoured(p, r) /\ Recorded(p)
    <3>1. PICK p \in {q \in Plans : CanSplit(q)} : \E r \in [1..(p.k - 1) -> RandomBytes] :
                 writing' = Armoured(p, r) /\ Recorded(p)
      BY <2>1
    <3>2. PICK r \in [1..(p.k - 1) -> RandomBytes] : writing' = Armoured(p, r) /\ Recorded(p)
      BY <3>1
    <3>3. Written' \subseteq Written \cup ToSet(Armoured(p, r))
      BY <1>3, <3>2 DEF Written
    <3>4. Shared(splits', Written') /\ Armoured(p, r) \in Seq(Shares)
      BY <1>1, <3>2, <3>3, RecordedInv
    <3>. QED BY <3>2, <3>4
  <2>2. CASE UNCHANGED <<writing, splits>>
    <3>1. Written' = Written
      BY <1>3, <2>2 DEF Written
    <3>. QED BY <2>2, <3>1, FewerTexts DEF ShamirInv
  <2>. QED BY <2>1, <2>2 DEF Split
<1>. QED BY <1>1, <1>2, <1>4 DEF ShamirInv, SharesRecover

LEMMA SplitHandlerInv == ShamirInv /\ SplitHandler => ShamirInv'
<1>. SUFFICES ASSUME ShamirInv, SplitHandler PROVE ShamirInv'
  OBVIOUS
<1>1. ShamirStart /\ UNCHANGED <<slotKey, directory, writing, restored>>
  BY DEF SplitHandler
<1>2. shamirCommands' \in 0..MaxShamirCommands
  BY <1>1, StartBound
<1>3. Shared(splits', Written')
  <2>1. CASE \E p \in {q \in Plans : CanSplit(q)} : \E r \in [1..(p.k - 1) -> RandomBytes] :
               copies' = copies \cup ToSet(Armoured(p, r)) /\ Recorded(p)
    <3>1. PICK p \in {q \in Plans : CanSplit(q)} : \E r \in [1..(p.k - 1) -> RandomBytes] :
                 copies' = copies \cup ToSet(Armoured(p, r)) /\ Recorded(p)
      BY <2>1
    <3>2. PICK r \in [1..(p.k - 1) -> RandomBytes] : copies' = copies \cup ToSet(Armoured(p, r)) /\ Recorded(p)
      BY <3>1
    <3>3. Written' \subseteq Written \cup ToSet(Armoured(p, r))
      BY <1>1, <3>2 DEF Written, Texts
    <3>. QED BY <1>1, <3>2, <3>3, RecordedInv
  <2>2. CASE UNCHANGED <<copies, splits>>
    <3>1. Written' = Written
      BY <1>1, <2>2 DEF Written, Texts
    <3>. QED BY <2>2, <3>1, FewerTexts
  <2>. QED BY <2>1, <2>2 DEF SplitHandler
<1>. QED BY <1>1, <1>2, <1>3 DEF ShamirInv, SharesRecover

LEMMA WriteShareInv == ShamirInv /\ WriteShare => ShamirInv'
<1>. SUFFICES ASSUME ShamirInv, WriteShare PROVE ShamirInv'
  OBVIOUS
<1>1. writing # <<>> /\ UNCHANGED <<slotKey, splits, copies, restored, shamirCommands>>
  BY DEF WriteShare
<1>2. writing \in Seq(Shares)
  BY DEF ShamirInv
<1>3. writing' \in Seq(Shares) /\ Written' \subseteq Written
  <2>. DEFINE t == Head(writing)
              f0 == <<t.index, t.n>>
  <2>1. CASE /\ directory' = [f \in DOMAIN directory \cup {f0} |-> IF f = f0 THEN t ELSE directory[f]]
             /\ writing' = Tail(writing)
    <3>1. t \in ToSet(writing) /\ Tail(writing) \in Seq(Shares) /\ ToSet(Tail(writing)) \subseteq ToSet(writing)
      <4>1. t = writing[1] /\ 1 \in DOMAIN writing /\ Tail(writing) \in Seq(Shares)
        BY <1>1, <1>2
      <4>2. \A i \in DOMAIN Tail(writing) : i + 1 \in DOMAIN writing /\ Tail(writing)[i] = writing[i + 1]
        BY <1>1, <1>2
      <4>. QED BY <4>1, <4>2 DEF ToSet
    <3>2. \A f \in DOMAIN directory' : directory'[f] = t \/ (f \in DOMAIN directory /\ directory'[f] = directory[f])
      BY <2>1, Zenon
    <3>3. Texts' \subseteq Texts \cup {t}
      BY <1>1, <3>2 DEF Texts
    <3>. QED BY <2>1, <3>1, <3>3 DEF Written
  <2>2. CASE writing' = <<>> /\ UNCHANGED directory
    <3>1. ToSet(<<>>) = {} /\ writing' \in Seq(Shares)
      BY <2>2 DEF ToSet
    <3>2. Texts' = Texts
      BY <1>1, <2>2 DEF Texts
    <3>. QED BY <2>2, <3>1, <3>2 DEF Written
  <2>. QED BY <2>1, <2>2 DEF WriteShare
<1>4. Shared(splits', Written')
  BY <1>1, <1>3, FewerTexts
<1>. QED BY <1>1, <1>3, <1>4 DEF ShamirInv, SharesRecover

LEMMA CopyByQrInv == ShamirInv /\ CopyByQr => ShamirInv'
<1>. SUFFICES ASSUME ShamirInv, CopyByQr PROVE ShamirInv'
  OBVIOUS
<1>1. ShamirStart /\ UNCHANGED <<slotKey, splits, directory, writing, restored>>
  BY DEF CopyByQr
<1>2. shamirCommands' \in 0..MaxShamirCommands
  BY <1>1, StartBound
<1>3. PICK t \in Texts : copies' = copies \cup {FromArmoured(t)}
  BY DEF CopyByQr
<1>4. Written' \subseteq Written \cup {FromArmoured(u) : u \in Written}
  BY <1>1, <1>3 DEF Written, Texts
<1>5. Shared(splits, Written)
  BY DEF ShamirInv
<1>6. Shared(splits, Written')
  BY <1>4, <1>5, SharedParsed, SharedSubset
<1>. QED BY <1>1, <1>2, <1>6 DEF ShamirInv, SharesRecover

LEMMA RecoverInv == ShamirInv /\ Recover => ShamirInv'
<1>. SUFFICES ASSUME ShamirInv, Recover PROVE ShamirInv'
  OBVIOUS
<1>1. ShamirStart /\ UNCHANGED <<splits, directory, copies, writing>>
  BY DEF Recover
<1>2. shamirCommands' \in 0..MaxShamirCommands
  BY <1>1, StartBound
<1>3. PICK len \in 0..MaxGiven : \E texts \in [1..len -> Texts], imports \in BOOLEAN :
             Restore([i \in 1..len |-> FromArmoured(texts[i])], imports)
  BY DEF Recover
<1>4. PICK texts \in [1..len -> Texts], imports \in BOOLEAN :
             Restore([i \in 1..len |-> FromArmoured(texts[i])], imports)
  BY <1>3
<1>. DEFINE given == [i \in 1..len |-> FromArmoured(texts[i])]
            T == Written \cup {FromArmoured(u) : u \in Written}
            out == RecoverKey(given)
<1>5. Shared(splits, T) /\ T \subseteq Shares
  <2>1. Shared(splits, Written)
    BY DEF ShamirInv
  <2>. HIDE DEF T
  <2>2. Shared(splits, T)
    BY <2>1, SharedParsed DEF T
  <2>. QED BY <2>2 DEF Shared
<1>6. \A i \in 1..len : given[i] \in T
  BY DEF Written
<1>. HIDE DEF T
<1>7. given \in Seq(Shares) /\ Len(given) = len
  <2>1. len \in Nat
    BY ShamirAssumption
  <2>2. given \in [1..len -> Shares]
    BY <1>5, <1>6
  <2>. HIDE DEF given
  <2>. QED BY <2>1, <2>2
<1>8. Restore(given, imports)
  BY <1>4
<1>. HIDE DEF given
<1>9. /\ restored' = [given |-> Kind(given), out |-> out,
                     key |-> IF Kind(given) = "mixed" THEN -1 ELSE splits[given[1].split].key]
      /\ slotKey' = IF out # -1 /\ imports THEN out ELSE slotKey
  BY <1>8 DEF Restore
<1>10. out \in Field \cup {-1}
  BY <1>7, KeyType
<1>11. Kind(given) \in {"few", "repeated"} => out = -1
  BY <1>7, KeyRefused
<1>12. Kind(given) \in {"enough", "wrapped"} =>
         /\ out \in {splits[given[1].split].key, -1}
         /\ Kind(given) = "enough" => out = splits[given[1].split].key
  BY <1>5, <1>6, <1>7, KeyBack
<1>. HIDE DEF out
<1>13. slotKey' \in Field
  BY <1>9, <1>10 DEF ShamirInv
<1>14. restored'.given = Kind(given) /\ restored'.out = out
       /\ (Kind(given) # "mixed" => restored'.key = splits[given[1].split].key)
  BY <1>9
<1>15. SharesRecover'
  BY <1>11, <1>12, <1>14 DEF SharesRecover
<1>16. Written' = Written
  BY <1>1 DEF Written, Texts
<1>17. Shared(splits', Written')
  BY <1>1, <1>16, FewerTexts
<1>. QED BY <1>1, <1>2, <1>10, <1>13, <1>14, <1>15, <1>17 DEF ShamirInv

(* The share texts always belong to the splits that were made: every text  *)
(* `galdra shamir` writes, copies or still has to write is a value of the  *)
(* polynomial its split drew.                                              *)
THEOREM ShamirInvariance == ShamirSpec => []ShamirInv
<1>1. ShamirInit => ShamirInv
  BY ShamirInitInv
<1>2. ShamirInv /\ [ShamirNext]_shamirVars => ShamirInv'
  <2>. SUFFICES ASSUME ShamirInv, [ShamirNext]_shamirVars PROVE ShamirInv'
    OBVIOUS
  <2>1. CASE UNCHANGED shamirVars
    <3>1. UNCHANGED <<slotKey, splits, directory, copies, writing, restored, shamirCommands>>
      BY <2>1 DEF shamirVars
    <3>2. Written' = Written
      BY <3>1 DEF Written, Texts
    <3>3. Shared(splits', Written')
      BY <3>1, <3>2, FewerTexts
    <3>. QED BY <3>1, <3>3 DEF ShamirInv, SharesRecover
  <2>2. CASE ShamirNext
    BY <2>2, NewKeyInv, SplitInv, SplitHandlerInv, WriteShareInv, CopyByQrInv, RecoverInv DEF ShamirNext
  <2>. QED BY <2>1, <2>2
<1>. QED BY <1>1, <1>2, PTL DEF ShamirSpec

LEMMA ShamirInvTypes == ShamirInv => ShamirTypeOK
<1>. SUFFICES ASSUME ShamirInv PROVE ShamirTypeOK
  OBVIOUS
<1>1. Written \subseteq Shares /\ splits \in Seq(SplitRecord)
  BY DEF ShamirInv, Shared
<1>2. \A i \in DOMAIN splits : splits[i].key \in Field
  <2>1. \A i \in DOMAIN splits : splits[i] \in SplitRecord
    BY <1>1
  <2>. QED BY <2>1 DEF SplitRecord
<1>. QED BY <1>1, <1>2 DEF ShamirTypeOK, ShamirInv, Written

(* Shares of one split bring back the key that was split, for every field, *)
(* threshold and list: shamir_recover_key returns it as soon as the first  *)
(* k shares are different ones, and returns no key for fewer.              *)
THEOREM SharesAlwaysRecover == ShamirSpec => []SharesRecover
<1>1. ShamirInv => SharesRecover
  BY DEF ShamirInv
<1>. QED BY <1>1, ShamirInvariance, PTL
=============================================================================
