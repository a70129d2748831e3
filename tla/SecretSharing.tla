---------------------------- MODULE SecretSharing ----------------------------
(***************************************************************************)
(* shamir.rs of the vault: a secret split into shares and recovered from   *)
(* some of them.  Every byte of a secret is shared alike, so a secret is   *)
(* one field element here.  The field is the library's (Gf256, 256         *)
(* elements); a share's index is also the point its value belongs to.      *)
(***************************************************************************)
EXTENDS Integers, FiniteSets, SequencesExt

CONSTANTS
    FieldSize,      \* values of a u8, which are the elements of the field
    GfAdd,          \* Gf256::add, a function of two elements
    GfMul           \* Gf256::mul

Field == 0..(FieldSize - 1)

a ++ b == GfAdd[<<a, b>>]
a ** b == GfMul[<<a, b>>]

(* A field in which every element is its own negative. *)
ASSUME GfAssumption ==
    /\ FieldSize \in Nat /\ FieldSize > 1
    /\ GfAdd \in [Field \X Field -> Field] /\ GfMul \in [Field \X Field -> Field]
    /\ \A a, b \in Field : a ++ b = b ++ a /\ a ** b = b ** a
    /\ \A a, b, c \in Field : /\ (a ++ b) ++ c = a ++ (b ++ c)
                             /\ (a ** b) ** c = a ** (b ** c)
                             /\ a ** (b ++ c) = (a ** b) ++ (a ** c)
    /\ \A a \in Field : a ++ 0 = a /\ a ++ a = 0 /\ a ** 1 = a
    /\ \A a \in Field \ {0} : \E b \in Field : a ** b = 1

(* Gf256::invert *)
GfInv == [a \in Field \ {0} |-> CHOOSE b \in Field : a ** b = 1]

-----------------------------------------------------------------------------
(* A loop over f[1], ..., f[n] that starts from b. *)
Accumulate(op, b, f, n) ==
    LET acc[i \in 0..n] == IF i = 0 THEN b ELSE op[<<acc[i - 1], f[i]>>] IN acc[n]

GfSum(f, n) == Accumulate(GfAdd, 0, f, n)
GfProduct(f, n) == Accumulate(GfMul, 1, f, n)
GfPower(x, m) == GfProduct([j \in 1..m |-> x], m)

(* Mutant: integer instead of field arithmetic. *)
EvalPolyPlain(coeffs, x) ==
    FoldLeft(LAMBDA a, b : a + b, 0, [i \in DOMAIN coeffs |-> coeffs[i] * x^(i - 1)])

(* eval_poly: coefficients from the constant term up. *)
EvalPoly(coeffs, x) ==
    GfSum([i \in 1..Len(coeffs) |-> coeffs[i] ** GfPower(x, i - 1)], Len(coeffs))

(* The coefficient of lagrange_at_zero for point i of k: the product of the *)
(* others over the product of its distances to them.                        *)
Weight(xs, k, i) ==
    LET num == GfProduct([j \in 1..k |-> IF j = i THEN 1 ELSE xs[j]], k)
        den == GfProduct([j \in 1..k |-> IF j = i THEN 1 ELSE xs[i] ++ xs[j]], k)
    IN num ** GfInv[den]

LagrangeAtZero(xs, ys, k) == GfSum([i \in 1..k |-> ys[i] ** Weight(xs, k, i)], k)

-----------------------------------------------------------------------------
MaxCoeffs == 64         \* heapless capacity of the coefficient and point vectors

(* ShamirConfig::new and is_active, validate_split_params, and the vector *)
(* the coefficients must fit.                                             *)
CanSplit(p) == p.k \in 1..p.n /\ p.n > 1 /\ p.n < FieldSize /\ p.k <= MaxCoeffs

(* shamir_split: the secret and random bytes as coefficients, a share per index. *)
SharesOf(secret, p, random) == [i \in 1..p.n |-> EvalPoly(<<secret>> \o random, i)]

(* sort_shares_by_index, of shares whose indices differ. *)
SortedByIndex(shares) ==
    CHOOSE s \in [1..Len(shares) -> ToSet(shares)] :
        \A i, j \in 1..Len(shares) : i < j => s[i].index < s[j].index

(* shamir_recover; -1 stands for an error. *)
RecoverSecret(shares, k) ==
    IF k = 0 \/ k > MaxCoeffs \/ Len(shares) < k \/ (\E i \in DOMAIN shares : shares[i].index = 0)
       \/ ~IsInjective([i \in DOMAIN shares |-> shares[i].index])
    THEN -1
    ELSE LET sorted == SortedByIndex(shares) IN
         LagrangeAtZero([i \in 1..k |-> sorted[i].index], [i \in 1..k |-> sorted[i].value], k)
=============================================================================
