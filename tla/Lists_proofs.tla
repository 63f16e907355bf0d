----------------------------- MODULE Lists_proofs -----------------------------
(***************************************************************************)
(* Facts about sequences that the proofs about the components share:       *)
(* induction over numbers and over sequences, functions defined by         *)
(* recursion, and what Keep returns. The library's induction theorems take *)
(* a predicate as a parameter; here a set stands for the predicate.        *)
(***************************************************************************)
EXTENDS Lists, SequenceTheorems, WellFoundedInduction, TLAPS

-----------------------------------------------------------------------------
(* Induction.                                                              *)

LEMMA LeastNat ==
  ASSUME NEW T, T \subseteq Nat, T # {}
  PROVE  \E x \in T : \A y \in T : x <= y
<1> DEFINE R == OpToRel(<, Nat)
<1>1. IsWellFoundedOn(R, Nat) BY NatLessThanWellFounded
<1>2. \A x, y \in Nat : x < y => <<x, y>> \in R BY DEF OpToRel
<1>3. \E x \in T : \A y \in T : ~(<<y, x>> \in R)
  <2> HIDE DEF R
  <2> QED BY <1>1, WFMin
<1>4. PICK x \in T : \A y \in T : ~(<<y, x>> \in R) BY <1>3
<1> HIDE DEF R
<1>5. \A y \in T : ~(y < x) BY <1>2, <1>4
<1>6. \A y \in T : x <= y BY <1>5
<1> QED BY <1>6

LEMMA Induct ==
  ASSUME NEW S, S \subseteq Nat, 0 \in S, \A n \in S : n + 1 \in S
  PROVE  S = Nat
<1> SUFFICES ASSUME Nat \ S # {} PROVE FALSE OBVIOUS
<1>1. PICK x \in Nat \ S : \A y \in Nat \ S : x <= y BY LeastNat
<1>2. x # 0 /\ x - 1 \in Nat /\ x - 1 \notin Nat \ S BY <1>1
<1>3. x - 1 \in S /\ (x - 1) + 1 = x BY <1>2
<1> QED BY <1>3

\* A set with the empty sequence that is closed under Append has them all.
LEMMA SeqInduct ==
  ASSUME NEW T, NEW G, <<>> \in G, \A s \in Seq(T) \cap G, e \in T : Append(s, e) \in G
  PROVE  Seq(T) \subseteq G
<1> DEFINE S == {n \in Nat : \A s \in Seq(T) : Len(s) = n => s \in G}
<1>1. 0 \in S
  <2>1. \A s \in Seq(T) : Len(s) = 0 => s = <<>> BY EmptySeq
  <2> QED BY <2>1
<1>2. ASSUME NEW n \in S PROVE n + 1 \in S
  <2> SUFFICES ASSUME NEW s \in Seq(T), Len(s) = n + 1 PROVE s \in G OBVIOUS
  <2>1. n \in Nat OBVIOUS
  <2> DEFINE t == SubSeq(s, 1, n)
             e == s[n + 1]
  <2>2. t \in Seq(T) /\ Len(t) = n /\ \A i \in 1..n : t[i] = s[i]
    <3>1. \A i \in 1..n : s[i] \in T BY <2>1
    <3>2. 1 \in Int /\ n \in Int BY <2>1
    <3>3. /\ t \in Seq(T)
          /\ Len(t) = IF 1 <= n THEN n - 1 + 1 ELSE 0
          /\ \A i \in 1..(n - 1 + 1) : t[i] = s[1 + i - 1]
      BY <3>1, <3>2, SubSeqProperties
    <3> HIDE DEF t
    <3> QED BY <2>1, <3>3
  <2>3. e \in T BY <2>1
  <2> HIDE DEF t, e
  <2>4. t \in G BY <2>2
  <2>5. Append(t, e) \in G BY <2>2, <2>3, <2>4
  <2>6. s = Append(t, e)
    <3>1. /\ Append(t, e) \in Seq(T) /\ Len(Append(t, e)) = n + 1
          /\ Append(t, e)[n + 1] = e /\ \A i \in 1..n : Append(t, e)[i] = t[i]
      BY <2>2, <2>3, AppendProperties
    <3>2. ASSUME NEW i \in 1..(n + 1) PROVE s[i] = Append(t, e)[i]
      <4>1. i \in 1..n \/ i = n + 1 BY <2>1
      <4> QED BY <2>2, <3>1, <4>1 DEF e
    <3> QED BY <3>1, <3>2, SeqEqual
  <2> QED BY <2>5, <2>6
<1>3. S = Nat
  <2>1. S \subseteq Nat OBVIOUS
  <2> HIDE DEF S
  <2> QED BY <1>1, <1>2, <2>1, Induct
<1>4. ASSUME NEW s \in Seq(T) PROVE s \in G
  <2>1. Len(s) \in S BY <1>3, LenProperties
  <2> QED BY <2>1
<1> QED BY <1>4

\* A function on 0..n that starts with a and takes a step at each number.
Iterates(f, n, a, step) ==
  f[0] = a /\ \A i \in 1..n : f[i] = step[<<i, f[i - 1]>>]
LEMMA Recursion ==
  ASSUME NEW S, NEW a \in S, NEW step \in [Nat \X S -> S], NEW n \in Nat
  PROVE  \E f \in [0..n -> S] : Iterates(f, n, a, step)
<1> DEFINE Is(f, m) == f[0] = a /\ \A i \in 1..m : f[i] = step[<<i, f[i - 1]>>]
           R == {m \in Nat : \E f \in [0..m -> S] : Is(f, m)}
<1>1. 0 \in R
  <2> DEFINE f == [i \in 0..0 |-> a]
  <2>1. 0 \in 0..0 /\ \A i \in 1..0 : FALSE OBVIOUS
  <2>2. f \in [0..0 -> S] /\ f[0] = a BY <2>1
  <2> HIDE DEF f
  <2> QED BY <2>1, <2>2
<1>2. ASSUME NEW m \in R PROVE m + 1 \in R
  <2>1. m \in Nat OBVIOUS
  <2>2. PICK f \in [0..m -> S] : Is(f, m) OBVIOUS
  <2> DEFINE last == step[<<m + 1, f[m]>>]
             g == [i \in 0..(m + 1) |-> IF i \in 0..m THEN f[i] ELSE last]
  <2>3. f[m] \in S BY <2>1
  <2>4. last \in S BY <2>1, <2>3
  <2> HIDE DEF last
  <2>5. g \in [0..(m + 1) -> S] BY <2>4
  <2>6. /\ \A i \in 0..m : g[i] = f[i]
        /\ g[m + 1] = last
    BY <2>1
  <2> HIDE DEF g
  <2>7. g[0] = a BY <2>1, <2>2, <2>6
  <2>8. ASSUME NEW i \in 1..(m + 1) PROVE g[i] = step[<<i, g[i - 1]>>]
    <3>1. CASE i \in 1..m
      <4>1. i \in 0..m /\ i - 1 \in 0..m BY <2>1, <3>1
      <4> QED BY <2>2, <2>6, <3>1, <4>1
    <3>2. CASE i = m + 1
      <4>1. m \in 0..m /\ i - 1 = m BY <2>1, <3>2
      <4> QED BY <2>6, <3>2, <4>1 DEF last
    <3>3. i \in 1..m \/ i = m + 1 BY <2>1
    <3> QED BY <3>1, <3>2, <3>3
  <2> QED BY <2>1, <2>5, <2>7, <2>8
<1>3. R = Nat
  <2>1. R \subseteq Nat OBVIOUS
  <2> HIDE DEF R
  <2> QED BY <1>1, <1>2, <2>1, Induct
<1>4. n \in R BY <1>3
<1> QED BY <1>4 DEF Iterates

\* Two functions that start alike and go on alike are alike.
Alike(f, g, n) ==
  f[0] = g[0] /\ \A i \in 1..n : f[i - 1] = g[i - 1] => f[i] = g[i]
LEMMA SameRecursion ==
  ASSUME NEW n \in Nat, NEW f, NEW g, Alike(f, g, n)
  PROVE  \A i \in 0..n : f[i] = g[i]
<1> USE DEF Alike
<1> DEFINE R == {m \in Nat : m \in 0..n => f[m] = g[m]}
<1>1. 0 \in R OBVIOUS
<1>2. ASSUME NEW m \in R PROVE m + 1 \in R
  <2> SUFFICES ASSUME m + 1 \in 0..n PROVE f[m + 1] = g[m + 1] OBVIOUS
  <2>1. m \in Nat /\ m \in 0..n /\ m + 1 \in 1..n /\ (m + 1) - 1 = m OBVIOUS
  <2>2. f[m] = g[m] BY <2>1
  <2> QED BY <2>1, <2>2
<1>3. R = Nat
  <2>1. R \subseteq Nat OBVIOUS
  <2> HIDE DEF R
  <2> QED BY <1>1, <1>2, <2>1, Induct
<1> QED BY <1>3

-----------------------------------------------------------------------------
(* Parts of sequences, and sequences put together.                         *)

\* What is taken from a sequence and what stays.
LEMMA CutAt ==
  ASSUME NEW S, NEW s \in Seq(S), NEW n \in 0..Len(s)
  PROVE  /\ SubSeq(s, 1, n) \in Seq(S) /\ Len(SubSeq(s, 1, n)) = n
         /\ \A i \in 1..n : SubSeq(s, 1, n)[i] = s[i]
         /\ SubSeq(s, n + 1, Len(s)) \in Seq(S)
         /\ Len(SubSeq(s, n + 1, Len(s))) = Len(s) - n
         /\ \A i \in 1..(Len(s) - n) : SubSeq(s, n + 1, Len(s))[i] = s[n + i]
<1> DEFINE m == Len(s)
           taken == SubSeq(s, 1, n)
           rest == SubSeq(s, n + 1, Len(s))
<1>1. m \in Nat /\ n \in 0..m BY LenProperties
<1>2. \A i \in 1..m : s[i] \in S OBVIOUS
<1>3. taken \in Seq(S) /\ Len(taken) = n /\ \A i \in 1..n : taken[i] = s[i]
  <2>1. \A i \in 1..n : s[i] \in S BY <1>1, <1>2
  <2>2. 1 \in Int /\ n \in Int BY <1>1
  <2>3. /\ taken \in Seq(S)
        /\ Len(taken) = IF 1 <= n THEN n - 1 + 1 ELSE 0
        /\ \A i \in 1..(n - 1 + 1) : taken[i] = s[1 + i - 1]
    BY <2>1, <2>2, SubSeqProperties
  <2> HIDE DEF taken, m
  <2> QED BY <1>1, <2>3
<1>4. rest \in Seq(S) /\ Len(rest) = m - n /\ \A i \in 1..(m - n) : rest[i] = s[n + i]
  <2>1. \A i \in (n + 1)..m : s[i] \in S BY <1>1, <1>2
  <2>2. n + 1 \in Int /\ m \in Int BY <1>1
  <2>3. /\ rest \in Seq(S)
        /\ Len(rest) = IF n + 1 <= m THEN m - (n + 1) + 1 ELSE 0
        /\ \A i \in 1..(m - (n + 1) + 1) : rest[i] = s[(n + 1) + i - 1]
    BY <2>1, <2>2, SubSeqProperties
  <2> HIDE DEF rest, m
  <2>4. Len(rest) = m - n BY <1>1, <2>3
  <2>5. ASSUME NEW i \in 1..(m - n) PROVE rest[i] = s[n + i]
    <3>1. i \in 1..(m - (n + 1) + 1) /\ (n + 1) + i - 1 = n + i BY <1>1
    <3> QED BY <2>3, <3>1
  <2> QED BY <2>3, <2>4, <2>5
<1> QED BY <1>3, <1>4

\* One sequence, then another.
LEMMA Joined ==
  ASSUME NEW S, NEW x \in Seq(S), NEW y \in Seq(S)
  PROVE  /\ x \o y \in Seq(S) /\ Len(x \o y) = Len(x) + Len(y)
         /\ Len(x) \in Nat /\ Len(y) \in Nat
         /\ \A i \in 1..Len(x) : (x \o y)[i] = x[i]
         /\ \A i \in 1..Len(y) : (x \o y)[Len(x) + i] = y[i]
<1> DEFINE b == Len(x)
           m == Len(y)
           u == x \o y
<1>1. b \in Nat /\ m \in Nat BY LenProperties
<1>2. /\ u \in Seq(S) /\ Len(u) = b + m
      /\ \A i \in 1..(b + m) : u[i] = IF i <= b THEN x[i] ELSE y[i - b]
  BY ConcatProperties
<1> HIDE DEF b, m, u
<1>3. \A i \in 1..b : i \in 1..(b + m) /\ i <= b BY <1>1
<1>4. \A i \in 1..m : b + i \in 1..(b + m) /\ ~(b + i <= b) /\ (b + i) - b = i BY <1>1
<1> QED BY <1>1, <1>2, <1>3, <1>4 DEF b, m, u

\* A piece is added at the end.
LEMMA Grown ==
  ASSUME NEW S, NEW x \in Seq(S), NEW y \in Seq(S), NEW p \in S
  PROVE  /\ Append(y, p) \in Seq(S)
         /\ x \o Append(y, p) \in Seq(S)
         /\ Len(x \o y) \in Nat
         /\ Len(x \o Append(y, p)) = Len(x \o y) + 1
         /\ \A i \in 1..Len(x \o y) : (x \o Append(y, p))[i] = (x \o y)[i]
         /\ (x \o Append(y, p))[Len(x \o y) + 1] = p
<1> DEFINE u == x \o y
           v == x \o Append(y, p)
<1>1. u \in Seq(S) /\ Append(y, p) \in Seq(S) BY ConcatProperties, AppendProperties
<1>2. v \in Seq(S) BY <1>1, ConcatProperties
<1>3. v = Append(u, p)
  <2>1. <<p>> \in Seq(S) OBVIOUS
  <2>2. Append(y, p) = y \o <<p>> /\ Append(u, p) = u \o <<p>> BY <1>1, AppendIsConcat
  <2>3. (x \o y) \o <<p>> = x \o (y \o <<p>>) BY <2>1, ConcatAssociative
  <2> QED BY <2>2, <2>3
<1> HIDE DEF u, v
<1>4. Len(u) \in Nat BY <1>1, LenProperties
<1>5. /\ Len(v) = Len(u) + 1 /\ v[Len(u) + 1] = p
      /\ \A i \in 1..Len(u) : v[i] = u[i]
  BY <1>1, <1>3, AppendProperties
<1> QED BY <1>1, <1>2, <1>4, <1>5 DEF u, v

-----------------------------------------------------------------------------
(* Keep.                                                                   *)

Kept(kept, s, K) ==
  kept = [i \in 0..Len(s) |->
            IF i = 0 THEN <<>>
            ELSE IF s[i] \in K THEN Append(kept[i - 1], s[i]) ELSE kept[i - 1]]

LEMMA KeptIs ==
  ASSUME NEW T, NEW s \in Seq(T), NEW K
  PROVE  \E kept : /\ Kept(kept, s, K) /\ Keep(s, K) = kept[Len(s)]
                   /\ kept \in [0..Len(s) -> Seq(T)]
<1> DEFINE n == Len(s)
           P(i, x) == IF s[i] \in K THEN Append(x, s[i]) ELSE x
           step == [p \in Nat \X Seq(T) |-> IF p[1] \in 1..n THEN P(p[1], p[2]) ELSE p[2]]
<1>1. n \in Nat /\ \A i \in 1..n : s[i] \in T BY LenProperties
<1>2. <<>> \in Seq(T) BY EmptySeq
<1> HIDE DEF n
<1>3. \A i \in 1..n, x \in Seq(T) : P(i, x) \in Seq(T) BY <1>1, AppendProperties
<1> HIDE DEF P
<1>4. step \in [Nat \X Seq(T) -> Seq(T)] BY <1>3
<1>5. \A i \in 1..n, x \in Seq(T) : step[<<i, x>>] = P(i, x) BY <1>1
<1> HIDE DEF step
<1>6. PICK f \in [0..n -> Seq(T)] : f[0] = <<>> /\ \A i \in 1..n : f[i] = step[<<i, f[i - 1]>>]
  <2>1. n \in Nat BY <1>1
  <2>2. \E f \in [0..n -> Seq(T)] : Iterates(f, n, <<>>, step)
    BY ONLY <2>1, <1>2, <1>4, Recursion
  <2> QED BY <2>2 DEF Iterates
<1>7. ASSUME NEW i \in 1..n PROVE f[i] = P(i, f[i - 1])
  <2>1. i - 1 \in 0..n BY <1>1
  <2> QED BY <1>5, <1>6, <2>1
<1>8. \A i \in 0..n : i # 0 => i \in 1..n BY <1>1
<1>9. f = [i \in 0..n |-> IF i = 0 THEN <<>> ELSE P(i, f[i - 1])] BY <1>6, <1>7, <1>8
<1>10. Kept(f, s, K) BY <1>9 DEF Kept, n, P
<1> DEFINE kept == CHOOSE g : Kept(g, s, K)
<1>11. Kept(kept, s, K) BY <1>10
<1>12. Keep(s, K) = kept[Len(s)] BY DEF Keep, Kept
<1>13. kept = [i \in 0..n |-> IF i = 0 THEN <<>> ELSE P(i, kept[i - 1])]
  BY <1>11 DEF Kept, n, P
<1> HIDE DEF kept
<1>14. \A i \in 0..n : kept[i] = f[i]
  <2>1. kept[0] = f[0] BY <1>1, <1>6, <1>13
  <2>2. ASSUME NEW i \in 1..n, kept[i - 1] = f[i - 1] PROVE kept[i] = f[i]
    <3>1. i \in 0..n /\ i # 0 BY <1>1
    <3> QED BY <1>7, <1>13, <2>2, <3>1
  <2>3. \A i \in 1..n : kept[i - 1] = f[i - 1] => kept[i] = f[i] BY <2>2
  <2>4. n \in Nat BY <1>1
  <2>5. Alike(kept, f, n) BY <2>1, <2>3 DEF Alike
  <2> QED BY ONLY <2>4, <2>5, SameRecursion
<1>15. kept = f BY <1>13, <1>14
<1>16. kept \in [0..Len(s) -> Seq(T)] BY <1>15 DEF n
<1> QED BY <1>11, <1>12, <1>16

LEMMA KeepSeq ==
  ASSUME NEW T, NEW s \in Seq(T), NEW K
  PROVE  Keep(s, K) \in Seq(T)
<1>1. PICK kept : Keep(s, K) = kept[Len(s)] /\ kept \in [0..Len(s) -> Seq(T)] BY KeptIs
<1>2. Len(s) \in 0..Len(s) BY LenProperties
<1> QED BY <1>1, <1>2

LEMMA KeepEmpty == ASSUME NEW K PROVE Keep(<<>>, K) = <<>>
<1>1. <<>> \in Seq({}) /\ Len(<<>>) = 0 BY EmptySeq
<1>2. PICK kept : Kept(kept, <<>>, K) /\ Keep(<<>>, K) = kept[0] BY <1>1, KeptIs
<1>3. 0 \in 0..Len(<<>>) BY <1>1
<1> QED BY <1>2, <1>3 DEF Kept

LEMMA KeepAppend ==
  ASSUME NEW T, NEW s \in Seq(T), NEW e \in T, NEW K
  PROVE  /\ e \in K => Keep(Append(s, e), K) = Append(Keep(s, K), e)
         /\ e \notin K => Keep(Append(s, e), K) = Keep(s, K)
<1> DEFINE n == Len(s)
           t == Append(s, e)
<1>1. n \in Nat BY LenProperties
<1>2. t \in Seq(T) /\ Len(t) = n + 1 /\ t[n + 1] = e /\ \A i \in 1..n : t[i] = s[i]
  BY AppendProperties
<1> HIDE DEF t
<1>3. PICK f : Kept(f, s, K) /\ Keep(s, K) = f[n] BY KeptIs
<1>4. PICK g : Kept(g, t, K) /\ Keep(t, K) = g[n + 1] BY <1>2, KeptIs
<1> HIDE DEF n
<1>5. f = [i \in 0..n |-> IF i = 0 THEN <<>>
                          ELSE IF s[i] \in K THEN Append(f[i - 1], s[i]) ELSE f[i - 1]]
  BY <1>3 DEF Kept, n
<1>6. g = [i \in 0..(n + 1) |-> IF i = 0 THEN <<>>
                          ELSE IF t[i] \in K THEN Append(g[i - 1], t[i]) ELSE g[i - 1]]
  BY <1>2, <1>4 DEF Kept
<1>7. \A i \in 0..n : f[i] = g[i]
  <2>1. f[0] = <<>> /\ g[0] = <<>>
    <3>1. 0 \in 0..n /\ 0 \in 0..(n + 1) BY <1>1
    <3> QED BY <1>5, <1>6, <3>1
  <2>2. ASSUME NEW i \in 1..n, f[i - 1] = g[i - 1] PROVE f[i] = g[i]
    <3>1. i \in 0..n /\ i \in 0..(n + 1) /\ i # 0 BY <1>1
    <3>2. f[i] = IF s[i] \in K THEN Append(f[i - 1], s[i]) ELSE f[i - 1] BY <1>5, <3>1
    <3>3. g[i] = IF t[i] \in K THEN Append(g[i - 1], t[i]) ELSE g[i - 1] BY <1>6, <3>1
    <3> QED BY <1>2, <2>2, <3>2, <3>3
  <2>3. Alike(f, g, n) BY <2>1, <2>2 DEF Alike
  <2> QED BY ONLY <1>1, <2>3, SameRecursion
<1>8. f[n] = g[n] BY <1>1, <1>7
<1>9. g[n + 1] = IF t[n + 1] \in K THEN Append(g[n], t[n + 1]) ELSE g[n]
  <2>1. n + 1 \in 0..(n + 1) /\ n + 1 # 0 /\ (n + 1) - 1 = n BY <1>1
  <2> QED BY <1>6, <2>1
<1> QED BY <1>2, <1>3, <1>4, <1>8, <1>9 DEF n, t

\* Only the elements that occur count.
LEMMA KeepSame ==
  ASSUME NEW T, NEW s \in Seq(T), NEW K, NEW M, K \cap T = M \cap T
  PROVE  Keep(s, K) = Keep(s, M)
<1> DEFINE G == {x \in Seq(T) : Keep(x, K) = Keep(x, M)}
<1>1. <<>> \in G BY KeepEmpty, EmptySeq
<1>2. ASSUME NEW x \in Seq(T) \cap G, NEW e \in T PROVE Append(x, e) \in G
  <2>1. x \in Seq(T) /\ Append(x, e) \in Seq(T) BY AppendProperties
  <2>2. Keep(x, K) = Keep(x, M) OBVIOUS
  <2>3. e \in K <=> e \in M OBVIOUS
  <2>4. Keep(Append(x, e), K) = Keep(Append(x, e), M)
    <3>1. /\ e \in K => Keep(Append(x, e), K) = Append(Keep(x, K), e)
          /\ e \notin K => Keep(Append(x, e), K) = Keep(x, K)
      BY <2>1, KeepAppend
    <3>2. /\ e \in M => Keep(Append(x, e), M) = Append(Keep(x, M), e)
          /\ e \notin M => Keep(Append(x, e), M) = Keep(x, M)
      BY <2>1, KeepAppend
    <3> QED BY <2>2, <2>3, <3>1, <3>2
  <2> QED BY <2>1, <2>4
<1> HIDE DEF G
<1>3. Seq(T) \subseteq G BY <1>1, <1>2, SeqInduct
<1> QED BY <1>3 DEF G

LEMMA KeepConcat ==
  ASSUME NEW T, NEW s \in Seq(T), NEW t \in Seq(T), NEW K
  PROVE  Keep(s \o t, K) = Keep(s, K) \o Keep(t, K)
<1> DEFINE G == {x \in Seq(T) : Keep(s \o x, K) = Keep(s, K) \o Keep(x, K)}
<1>1. <<>> \in G
  <2>1. <<>> \in Seq(T) /\ s \o <<>> = s BY EmptySeq, ConcatEmptySeq
  <2>2. Keep(s, K) \in Seq(T) BY KeepSeq
  <2>3. Keep(s, K) \o <<>> = Keep(s, K) BY <2>2, ConcatEmptySeq
  <2> QED BY <2>1, <2>3, KeepEmpty
<1>2. ASSUME NEW x \in Seq(T) \cap G, NEW e \in T PROVE Append(x, e) \in G
  <2>1. x \in Seq(T) /\ Append(x, e) \in Seq(T) /\ <<e>> \in Seq(T) BY AppendProperties
  <2>2. Keep(s \o x, K) = Keep(s, K) \o Keep(x, K) OBVIOUS
  <2> HIDE DEF G
  <2>3. s \o x \in Seq(T) BY <2>1, ConcatProperties
  <2>4. \A y, z \in Seq(T) : y \o Append(z, e) = Append(y \o z, e)
    <3> SUFFICES ASSUME NEW y \in Seq(T), NEW z \in Seq(T)
                 PROVE  y \o Append(z, e) = Append(y \o z, e)
      OBVIOUS
    <3>1. Append(z, e) = z \o <<e>> BY AppendIsConcat
    <3>2. y \o z \in Seq(T) BY ConcatProperties
    <3>3. Append(y \o z, e) = (y \o z) \o <<e>> BY <3>2, AppendIsConcat
    <3>4. (y \o z) \o <<e>> = y \o (z \o <<e>>)
      <4>1. y \in Seq(T) /\ z \in Seq(T) /\ <<e>> \in Seq(T) BY <2>1
      <4> QED BY ONLY <4>1, ConcatAssociative, SMTT(30)
    <3> QED BY <3>1, <3>3, <3>4
  <2>5. Keep(s, K) \in Seq(T) /\ Keep(x, K) \in Seq(T) BY <2>1, KeepSeq
  <2>6. Keep(s \o Append(x, e), K) = Keep(Append(s \o x, e), K) BY <2>1, <2>4
  <2>7. CASE e \in K
    <3>1. Keep(Append(s \o x, e), K) = Append(Keep(s \o x, K), e) BY <2>3, <2>7, KeepAppend
    <3>2. Keep(Append(x, e), K) = Append(Keep(x, K), e) BY <2>1, <2>7, KeepAppend
    <3>3. Append(Keep(s, K) \o Keep(x, K), e) = Keep(s, K) \o Append(Keep(x, K), e)
      BY <2>4, <2>5
    <3> QED BY <2>1, <2>2, <2>6, <3>1, <3>2, <3>3 DEF G
  <2>8. CASE e \notin K
    <3>1. Keep(Append(s \o x, e), K) = Keep(s \o x, K) BY <2>3, <2>8, KeepAppend
    <3>2. Keep(Append(x, e), K) = Keep(x, K) BY <2>1, <2>8, KeepAppend
    <3> QED BY <2>1, <2>2, <2>6, <3>1, <3>2 DEF G
  <2> QED BY <2>7, <2>8
<1> HIDE DEF G
<1>3. Seq(T) \subseteq G BY <1>1, <1>2, SeqInduct
<1> QED BY <1>3 DEF G

-----------------------------------------------------------------------------
(* Elements, and sequences whose elements do not clash.                    *)

Elements(s) == {s[i] : i \in 1..Len(s)}

\* R is a set of pairs that clash.
Apart(s, R) == \A i, j \in 1..Len(s) : <<s[i], s[j]>> \in R => i = j

LEMMA ElementsEmpty == Elements(<<>>) = {} /\ \A R : Apart(<<>>, R)
<1>1. 1..Len(<<>>) = {} BY EmptySeq
<1> QED BY <1>1 DEF Elements, Apart

LEMMA ElementsAppend ==
  ASSUME NEW T, NEW s \in Seq(T), NEW e \in T
  PROVE  Elements(Append(s, e)) = Elements(s) \cup {e}
<1> DEFINE n == Len(s)
           t == Append(s, e)
<1>1. n \in Nat BY LenProperties
<1>2. Len(t) = n + 1 /\ t[n + 1] = e /\ \A i \in 1..n : t[i] = s[i]
  BY AppendProperties
<1> HIDE DEF t, n
<1>3. 1..(n + 1) = 1..n \cup {n + 1} BY <1>1
<1>4. {t[i] : i \in 1..(n + 1)} = {s[i] : i \in 1..n} \cup {e} BY <1>2, <1>3
<1> QED BY <1>2, <1>4 DEF Elements, n, t

LEMMA ApartAppend ==
  ASSUME NEW T, NEW s \in Seq(T), NEW e \in T, NEW R
  PROVE  Apart(Append(s, e), R) <=>
           Apart(s, R) /\ \A x \in Elements(s) : <<x, e>> \notin R /\ <<e, x>> \notin R
<1> DEFINE n == Len(s)
           t == Append(s, e)
<1>1. n \in Nat BY LenProperties
<1>2. Len(t) = n + 1 /\ t[n + 1] = e /\ \A i \in 1..n : t[i] = s[i]
  BY AppendProperties
<1> HIDE DEF t, n
<1>3. \A i \in 1..(n + 1) : i \in 1..n \/ i = n + 1 BY <1>1
<1>4. \A i \in 1..n : i \in 1..(n + 1) /\ i # n + 1 BY <1>1
<1>5. n + 1 \in 1..(n + 1) BY <1>1
<1>6. ASSUME Apart(t, R) PROVE Apart(s, R)
  BY <1>2, <1>4, <1>6 DEF Apart, n
<1>7. ASSUME Apart(t, R), NEW x \in Elements(s) PROVE <<x, e>> \notin R /\ <<e, x>> \notin R
  <2>1. PICK i \in 1..n : x = s[i] BY <1>7 DEF Elements, n
  <2>2. i \in 1..(n + 1) /\ i # n + 1 /\ t[i] = x BY <1>2, <1>4, <2>1
  <2>3. \A j, k \in 1..(n + 1) : <<t[j], t[k]>> \in R => j = k BY <1>2, <1>7 DEF Apart
  <2> QED BY <1>2, <1>5, <2>2, <2>3
<1>8. ASSUME Apart(s, R), \A x \in Elements(s) : <<x, e>> \notin R /\ <<e, x>> \notin R
      PROVE  Apart(t, R)
  <2>1. \A i \in 1..n : s[i] \in Elements(s) BY DEF Elements, n
  <2>2. \A i, j \in 1..n : <<s[i], s[j]>> \in R => i = j BY <1>8 DEF Apart, n
  <2>3. ASSUME NEW i \in 1..(n + 1), NEW j \in 1..(n + 1), <<t[i], t[j]>> \in R
        PROVE  i = j
    <3>1. CASE i \in 1..n /\ j \in 1..n BY <1>2, <2>2, <2>3, <3>1
    <3>2. CASE i \in 1..n /\ j = n + 1 BY <1>2, <1>8, <2>1, <2>3, <3>2
    <3>3. CASE i = n + 1 /\ j \in 1..n BY <1>2, <1>8, <2>1, <2>3, <3>3
    <3>4. CASE i = n + 1 /\ j = n + 1 BY <3>4
    <3> QED BY <1>3, <3>1, <3>2, <3>3, <3>4
  <2> QED BY <1>2, <2>3 DEF Apart
<1> QED BY <1>6, <1>7, <1>8 DEF t

\* Keep returns the elements that are in K, no two of which clash if none did.
LEMMA KeepElements ==
  ASSUME NEW T, NEW s \in Seq(T), NEW K
  PROVE  Elements(Keep(s, K)) = Elements(s) \cap K
<1> DEFINE G == {x \in Seq(T) : Elements(Keep(x, K)) = Elements(x) \cap K}
<1>1. <<>> \in G BY KeepEmpty, EmptySeq, ElementsEmpty
<1>2. ASSUME NEW x \in Seq(T) \cap G, NEW e \in T PROVE Append(x, e) \in G
  <2>1. x \in Seq(T) /\ Append(x, e) \in Seq(T) /\ Keep(x, K) \in Seq(T)
    BY AppendProperties, KeepSeq
  <2>2. Elements(Keep(x, K)) = Elements(x) \cap K OBVIOUS
  <2> HIDE DEF G
  <2>3. Elements(Append(x, e)) = Elements(x) \cup {e} BY <2>1, ElementsAppend
  <2>4. CASE e \in K
    <3>1. Keep(Append(x, e), K) = Append(Keep(x, K), e) BY <2>1, <2>4, KeepAppend
    <3>2. Elements(Append(Keep(x, K), e)) = Elements(Keep(x, K)) \cup {e}
      BY <2>1, ElementsAppend
    <3>3. Elements(Keep(Append(x, e), K)) = Elements(Append(x, e)) \cap K
      BY <2>2, <2>3, <2>4, <3>1, <3>2
    <3> QED BY <2>1, <3>3 DEF G
  <2>5. CASE e \notin K
    <3>1. Keep(Append(x, e), K) = Keep(x, K) BY <2>1, <2>5, KeepAppend
    <3>2. Elements(Keep(Append(x, e), K)) = Elements(Append(x, e)) \cap K
      BY <2>2, <2>3, <2>5, <3>1
    <3> QED BY <2>1, <3>2 DEF G
  <2> QED BY <2>4, <2>5
<1> HIDE DEF G
<1>3. Seq(T) \subseteq G BY <1>1, <1>2, SeqInduct
<1> QED BY <1>3 DEF G

LEMMA KeepApart ==
  ASSUME NEW T, NEW s \in Seq(T), NEW K, NEW R, Apart(s, R)
  PROVE  Apart(Keep(s, K), R)
<1> DEFINE G == {x \in Seq(T) : Apart(x, R) => Apart(Keep(x, K), R)}
<1>1. <<>> \in G BY KeepEmpty, EmptySeq, ElementsEmpty
<1>2. ASSUME NEW x \in Seq(T) \cap G, NEW e \in T PROVE Append(x, e) \in G
  <2>1. x \in Seq(T) /\ Append(x, e) \in Seq(T) /\ Keep(x, K) \in Seq(T)
    BY AppendProperties, KeepSeq
  <2>2. Apart(x, R) => Apart(Keep(x, K), R) OBVIOUS
  <2> HIDE DEF G
  <2>3. ASSUME Apart(Append(x, e), R) PROVE Apart(Keep(Append(x, e), K), R)
    <3>1. Apart(x, R) /\ \A y \in Elements(x) : <<y, e>> \notin R /\ <<e, y>> \notin R
      BY <2>1, <2>3, ApartAppend
    <3>2. Apart(Keep(x, K), R) BY <2>2, <3>1
    <3>3. CASE e \in K
      <4>1. Keep(Append(x, e), K) = Append(Keep(x, K), e) BY <2>1, <3>3, KeepAppend
      <4>2. \A y \in Elements(Keep(x, K)) : y \in Elements(x) BY <2>1, KeepElements
      <4>3. \A y \in Elements(Keep(x, K)) : <<y, e>> \notin R /\ <<e, y>> \notin R
        BY <3>1, <4>2
      <4>4. Apart(Append(Keep(x, K), e), R) BY <2>1, <3>2, <4>3, ApartAppend
      <4> QED BY <4>1, <4>4
    <3>4. CASE e \notin K
      <4>1. Keep(Append(x, e), K) = Keep(x, K) BY <2>1, <3>4, KeepAppend
      <4> QED BY <3>2, <4>1
    <3> QED BY <3>3, <3>4
  <2> QED BY <2>1, <2>3 DEF G
<1> HIDE DEF G
<1>3. Seq(T) \subseteq G BY <1>1, <1>2, SeqInduct
<1> QED BY <1>3 DEF G

\* The elements of a sequence are its range.
LEMMA ElementsIn ==
  ASSUME NEW T, NEW s \in Seq(T)
  PROVE  Elements(s) \subseteq T /\ Elements(s) = Range(s)
<1>1. DOMAIN s = 1..Len(s) BY LenProperties
<1> QED BY <1>1 DEF Elements, Range

\* Only what Keep is asked about the elements of the sequence matters.
LEMMA KeepRange ==
  ASSUME NEW T, NEW s \in Seq(T), NEW K, NEW M,
         \A p \in Range(s) : p \in K <=> p \in M
  PROVE  Keep(s, K) = Keep(s, M)
<1>1. s \in [1..Len(s) -> T] /\ Len(s) \in Nat /\ DOMAIN s = 1..Len(s) BY LenProperties
<1>2. s \in [1..Len(s) -> Range(s)] BY <1>1 DEF Range
<1>3. s \in Seq(Range(s)) BY <1>1, <1>2, SeqDef
<1>4. K \cap Range(s) = M \cap Range(s) OBVIOUS
<1> QED BY <1>3, <1>4, KeepSame

\* What a sequence has from some place on grows with it.
LEMMA RestAppend ==
  ASSUME NEW T, NEW h \in Seq(T), NEW e \in T, NEW k \in Nat, k <= Len(h)
  PROVE  /\ SubSeq(h, k + 1, Len(h)) \in Seq(T)
         /\ SubSeq(Append(h, e), k + 1, Len(Append(h, e)))
              = Append(SubSeq(h, k + 1, Len(h)), e)
<1> DEFINE n == Len(h)
           H == Append(h, e)
<1>1. n \in Nat /\ \A i \in 1..n : h[i] \in T BY LenProperties
<1>2. H \in Seq(T) /\ Len(H) = n + 1 /\ H[n + 1] = e /\ \A i \in 1..n : H[i] = h[i]
  BY AppendProperties
<1>3. \A i \in 1..(n + 1) : H[i] \in T BY <1>1, <1>2
<1> HIDE DEF H
<1> DEFINE a == SubSeq(h, k + 1, n)
           b == SubSeq(H, k + 1, n + 1)
<1>4. a \in Seq(T) /\ Len(a) = n - k /\ \A i \in 1..(n - k) : a[i] = h[k + i]
  <2>1. n \in Int /\ k + 1 \in Int /\ \A i \in (k + 1)..n : h[i] \in T BY <1>1
  <2> HIDE DEF n
  <2>2. /\ a \in Seq(T)
        /\ Len(a) = IF k + 1 <= n THEN n - (k + 1) + 1 ELSE 0
        /\ \A i \in 1..(n - (k + 1) + 1) : a[i] = h[(k + 1) + i - 1]
    BY ONLY <2>1, SubSeqProperties
  <2>3. k <= n BY DEF n
  <2> HIDE DEF a
  <2> QED BY <1>1, <2>2, <2>3
<1>5. b \in Seq(T) /\ Len(b) = n - k + 1 /\ \A i \in 1..(n - k + 1) : b[i] = H[k + i]
  <2>1. n + 1 \in Int /\ k + 1 \in Int /\ \A i \in (k + 1)..(n + 1) : H[i] \in T
    BY <1>1, <1>3
  <2>2. k <= n OBVIOUS
  <2> HIDE DEF n
  <2>3. /\ b \in Seq(T)
        /\ Len(b) = IF k + 1 <= n + 1 THEN (n + 1) - (k + 1) + 1 ELSE 0
        /\ \A i \in 1..((n + 1) - (k + 1) + 1) : b[i] = H[(k + 1) + i - 1]
    BY ONLY <2>1, SubSeqProperties
  <2> HIDE DEF b
  <2> QED BY <1>1, <2>2, <2>3
<1>6. k <= n OBVIOUS
<1> HIDE DEF a, b, n
<1>7. /\ Append(a, e) \in Seq(T) /\ Len(Append(a, e)) = n - k + 1
      /\ \A i \in 1..(n - k) : Append(a, e)[i] = a[i]
      /\ Append(a, e)[n - k + 1] = e
  BY <1>4, AppendProperties
<1>8. ASSUME NEW i \in 1..(n - k + 1) PROVE b[i] = Append(a, e)[i]
  <2>1. CASE i = n - k + 1
    <3>1. k + i = n + 1 BY <1>1, <2>1
    <3> QED BY <1>2, <1>5, <1>7, <2>1, <3>1
  <2>2. CASE i # n - k + 1
    <3>1. i \in 1..(n - k) /\ k + i \in 1..n BY <1>1, <1>6, <2>2
    <3> QED BY <1>2, <1>4, <1>5, <1>7, <3>1
  <2> QED BY <2>1, <2>2
<1>9. b = Append(a, e)
  <2>1. Len(b) = Len(Append(a, e)) BY <1>5, <1>7
  <2>2. \A i \in 1..Len(b) : b[i] = Append(a, e)[i] BY <1>5, <1>8
  <2>3. b \in Seq(T) /\ Append(a, e) \in Seq(T) BY <1>5, <1>7
  <2> QED BY ONLY <2>1, <2>2, <2>3, SeqEqual
<1> QED BY <1>2, <1>4, <1>9 DEF a, b, n, H
=============================================================================
