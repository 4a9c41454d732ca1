--------------------------- MODULE CommandLineProofs ---------------------------
(***************************************************************************)
(* What CommandLine says holds for lines of any cells and any length, any    *)
(* stack behind the buffer and bytes of any number of bits.                  *)
(*                                                                         *)
(* The recursive functions of CommandLine are shown to be defined by          *)
(* induction, which is done by looking at a least counterexample.            *)
(***************************************************************************)
EXTENDS CommandLine, SequenceTheorems, WellFoundedInduction, TLAPS

-----------------------------------------------------------------------------
(* Induction, and functions defined by recursion. *)

\* A set of natural numbers has a least element.
LEMMA Least ==
  ASSUME NEW T, T \subseteq Nat, T # {}
  PROVE  \E m \in T : \A t \in T : m <= t
<1>1. PICK m \in T : \A t \in T : <<t, m>> \notin OpToRel(<, Nat)
  BY NatLessThanWellFounded, WFMin
<1>2. \A t \in T : ~ (t < m)
  BY <1>1 DEF OpToRel
<1> QED
  BY <1>2

\* Induction, for a set instead of a predicate.
LEMMA Induction ==
  ASSUME NEW T, T \subseteq Nat, 0 \in T, \A n \in T : n + 1 \in T
  PROVE  T = Nat
<1> SUFFICES ASSUME Nat \ T # {} PROVE FALSE
  OBVIOUS
<1>1. PICK m \in Nat \ T : \A t \in Nat \ T : m <= t
  <2>1. Nat \ T \subseteq Nat
    OBVIOUS
  <2> QED
    BY <2>1, Least
<1>2. m - 1 \in T
  BY <1>1
<1> QED
  BY <1>1, <1>2

\* Induction that may use all smaller numbers.
LEMMA StrongInduction ==
  ASSUME NEW T, T \subseteq Nat, \A n \in Nat : (0 .. n - 1) \subseteq T => n \in T
  PROVE  T = Nat
<1> SUFFICES ASSUME Nat \ T # {} PROVE FALSE
  OBVIOUS
<1>1. PICK m \in Nat \ T : \A t \in Nat \ T : m <= t
  <2>1. Nat \ T \subseteq Nat
    OBVIOUS
  <2> QED
    BY <2>1, Least
<1>2. 0 .. m - 1 \subseteq T
  BY <1>1
<1> QED
  BY <1>1, <1>2

\* A function f that starts with base and goes on by step, as far as n.
Follows(f, n, base, step) ==
  f[0] = base /\ \A k \in 1 .. n : f[k] = step[k][f[k - 1]]

\* There is such a function as far as n.
LEMMA FiniteRecursion ==
  ASSUME NEW S, NEW base \in S, NEW step \in [Nat -> [S -> S]], NEW n \in Nat
  PROVE  \E f \in [0 .. n -> S] : Follows(f, n, base, step)
<1> DEFINE T == {m \in Nat : \E f \in [0 .. m -> S] : Follows(f, m, base, step)}
<1>1. 0 \in T
  <2> DEFINE f == [k \in 0 .. 0 |-> base]
  <2>1. f \in [0 .. 0 -> S] /\ Follows(f, 0, base, step)
    BY DEF Follows
  <2> QED
    BY <2>1
<1>2. ASSUME NEW m \in T
      PROVE  m + 1 \in T
  <2>1. PICK f \in [0 .. m -> S] : Follows(f, m, base, step)
    OBVIOUS
  <2> DEFINE g == [k \in 0 .. m + 1 |-> IF k <= m THEN f[k] ELSE step[m + 1][f[m]]]
  <2>2. m \in Nat /\ f[m] \in S /\ step[m + 1][f[m]] \in S
    OBVIOUS
  <2>3. g \in [0 .. m + 1 -> S]
    BY <2>2
  <2>4. Follows(g, m + 1, base, step)
    BY <2>1, <2>2 DEF Follows
  <2> QED
    BY <2>2, <2>3, <2>4
<1>3. T = Nat
  <2> HIDE DEF T
  <2>1. T \subseteq Nat
    BY DEF T
  <2> QED
    BY <1>1, <1>2, <2>1, Induction
<1> QED
  BY <1>3

\* Two such functions agree as far as both go.
LEMMA RecursionUnique ==
  ASSUME NEW S, NEW base \in S, NEW step, NEW m \in Nat, NEW n \in Nat, m <= n,
         NEW f \in [0 .. m -> S], Follows(f, m, base, step),
         NEW g \in [0 .. n -> S], Follows(g, n, base, step)
  PROVE  \A k \in 0 .. m : f[k] = g[k]
<1> DEFINE T == {k \in Nat : k <= m => f[k] = g[k]}
<1>1. 0 \in T
  BY DEF Follows
<1>2. ASSUME NEW k \in T
      PROVE  k + 1 \in T
  <2> SUFFICES ASSUME k + 1 <= m PROVE f[k + 1] = g[k + 1]
    OBVIOUS
  <2>1. f[k] = g[k] /\ k + 1 \in 1 .. m /\ k + 1 \in 1 .. n /\ (k + 1) - 1 = k
    OBVIOUS
  <2> QED
    BY <2>1 DEF Follows
<1>3. T = Nat
  <2> HIDE DEF T
  <2>1. T \subseteq Nat
    BY DEF T
  <2> QED
    BY <1>1, <1>2, <2>1, Induction
<1> QED
  BY <1>3

\* There is such a function on all numbers.
FollowsAll(f, base, step) ==
  f[0] = base /\ \A k \in Nat \ {0} : f[k] = step[k][f[k - 1]]

LEMMA Recursion ==
  ASSUME NEW S, NEW base \in S, NEW step \in [Nat -> [S -> S]]
  PROVE  \E f \in [Nat -> S] : FollowsAll(f, base, step)
<1> DEFINE F(n) == CHOOSE f \in [0 .. n -> S] : Follows(f, n, base, step)
           g    == [n \in Nat |-> F(n)[n]]
<1>1. \A n \in Nat : F(n) \in [0 .. n -> S] /\ Follows(F(n), n, base, step)
  BY FiniteRecursion
<1>2. ASSUME NEW n \in Nat \ {0}
      PROVE  F(n)[n - 1] = F(n - 1)[n - 1]
  <2>1. n - 1 \in Nat /\ n - 1 <= n /\ n - 1 \in 0 .. n - 1
    OBVIOUS
  <2> HIDE DEF F
  <2> QED
    BY <1>1, <2>1, RecursionUnique
<1> HIDE DEF F
<1>3. g \in [Nat -> S]
  BY <1>1
<1>4. g[0] = base
  BY <1>1 DEF Follows
<1>5. ASSUME NEW k \in Nat \ {0}
      PROVE  g[k] = step[k][g[k - 1]]
  <2>1. F(k)[k] = step[k][F(k)[k - 1]]
    BY <1>1 DEF Follows
  <2> QED
    BY <2>1, <1>2
<1> QED
  BY <1>3, <1>4, <1>5 DEF FollowsAll

-----------------------------------------------------------------------------
(* Numbers: the bitwise or of two numbers that share no bit is their sum. *)

\* Half of a number.
LEMMA Half ==
  ASSUME NEW y \in Nat
  PROVE  /\ y \div 2 \in Nat /\ y % 2 \in {0, 1} /\ y = 2 * (y \div 2) + (y % 2)
         /\ y # 0 => y \div 2 < y
OBVIOUS

\* A power of two is twice the one before.
LEMMA PowerOfTwo ==
  /\ Two \in [Nat -> Nat \ {0}]
  /\ Two[0] = 1
  /\ \A n \in Nat : Two[n + 1] = 2 * Two[n]
<1> DEFINE S    == Nat \ {0}
           step == [k \in Nat |-> [v \in S |-> 2 * v]]
<1>1. step \in [Nat -> [S -> S]] /\ 1 \in S
  OBVIOUS
<1>2. PICK f \in [Nat -> S] : FollowsAll(f, 1, step)
  <2> HIDE DEF S, step
  <2> QED
    BY <1>1, Recursion
<1>3. f = [n \in Nat |-> IF n = 0 THEN 1 ELSE 2 * f[n - 1]]
  <2>1. ASSUME NEW n \in Nat \ {0}
        PROVE  f[n] = 2 * f[n - 1]
    <3>1. f[n] = step[n][f[n - 1]] /\ f[n - 1] \in S
      BY <1>2 DEF FollowsAll
    <3> QED
      BY <3>1
  <2> QED
    BY <1>2, <2>1 DEF FollowsAll
<1>4. Two = [n \in Nat |-> IF n = 0 THEN 1 ELSE 2 * Two[n - 1]]
  BY <1>3 DEF Two
<1> HIDE DEF S, step
<1>5. Two[0] = 1 /\ \A n \in Nat : Two[n + 1] = 2 * Two[n]
  <2>1. \A n \in Nat : n + 1 # 0 /\ (n + 1) - 1 = n /\ n + 1 \in Nat
    OBVIOUS
  <2> QED
    BY <1>4, <2>1
<1> DEFINE T == {n \in Nat : Two[n] \in Nat \ {0}}
<1>6. T = Nat
  <2>1. T \subseteq Nat /\ 0 \in T /\ \A n \in T : n + 1 \in T
    BY <1>5
  <2> HIDE DEF T
  <2> QED
    BY <2>1, Induction
<1>7. DOMAIN Two = Nat /\ Two = [n \in Nat |-> Two[n]]
  BY <1>4
<1>8. \A n \in Nat : Two[n] \in Nat \ {0}
  BY <1>6
<1> HIDE DEF T
<1>9. Two \in [Nat -> Nat \ {0}]
  BY <1>7, <1>8
<1> QED
  BY <1>5, <1>9

\* The bit that the or of x and y has at its end.
LastBit(x, y) == IF x % 2 = 1 \/ y % 2 = 1 THEN 1 ELSE 0

\* The or, by its recursion.
LEMMA BitOrDef ==
  ASSUME NEW x \in Nat, NEW y \in Nat
  PROVE  BitOr[<<x, y>>] = IF y = 0 THEN x ELSE 2 * BitOr[<<x \div 2, y \div 2>>] + LastBit(x, y)
<1> DEFINE S    == [Nat \X Nat -> Nat]
           next(h) == [p \in Nat \X Nat |-> IF p[2] = 0 THEN p[1]
                         ELSE 2 * h[<<p[1] \div 2, p[2] \div 2>>] + LastBit(p[1], p[2])]
           base == [p \in Nat \X Nat |-> 0]
           step == [k \in Nat |-> [h \in S |-> next(h)]]
<1>1. base \in S /\ \A h \in S : next(h) \in S
  <2>1. ASSUME NEW h \in S, NEW p \in Nat \X Nat
        PROVE  next(h)[p] \in Nat
    <3>1. p[1] \in Nat /\ p[2] \in Nat /\ <<p[1] \div 2, p[2] \div 2>> \in Nat \X Nat
      BY Half
    <3>2. h[<<p[1] \div 2, p[2] \div 2>>] \in Nat /\ LastBit(p[1], p[2]) \in Nat
      BY <3>1 DEF LastBit
    <3> QED
      BY <3>1, <3>2
  <2> QED
    BY <2>1
<1>2. PICK g \in [Nat -> S] : FollowsAll(g, base, step)
  <2>1. step \in [Nat -> [S -> S]]
    BY <1>1
  <2> HIDE DEF S, base, step
  <2> QED
    BY <1>1, <2>1, Recursion
\* Enough recursion gives the value, however much more there is.
<1>3. ASSUME NEW k \in Nat \ {0}, NEW u \in Nat, NEW v \in Nat
      PROVE  g[k][<<u, v>>] = IF v = 0 THEN u
                              ELSE 2 * g[k - 1][<<u \div 2, v \div 2>>] + LastBit(u, v)
  <2>1. g[k] = step[k][g[k - 1]] /\ g[k - 1] \in S
    <3> HIDE DEF S, step
    <3> QED
      BY <1>2 DEF FollowsAll
  <2>2. g[k] = next(g[k - 1])
    BY <2>1
  <2> QED
    BY <2>2
<1> HIDE DEF S, base, step, next
<1> DEFINE T == {v \in Nat : \A u \in Nat : \A k, m \in Nat :
                   k > v /\ m > v => g[k][<<u, v>>] = g[m][<<u, v>>]}
<1>4. T = Nat
  <2>1. ASSUME NEW v \in Nat, 0 .. v - 1 \subseteq T
        PROVE  v \in T
    <3> SUFFICES ASSUME NEW u \in Nat, NEW k \in Nat, NEW m \in Nat, k > v, m > v
                 PROVE  g[k][<<u, v>>] = g[m][<<u, v>>]
      OBVIOUS
    <3>0. k \in Nat \ {0} /\ m \in Nat \ {0} /\ k - 1 \in Nat /\ m - 1 \in Nat
      OBVIOUS
    <3>1. CASE v = 0
      <4>1. \A j \in Nat \ {0} : g[j][<<u, 0>>] = u
        BY <1>3
      <4> QED
        BY <3>0, <3>1, <4>1
    <3>2. CASE v # 0
      <4>1. v \div 2 \in T /\ u \div 2 \in Nat /\ k - 1 > v \div 2 /\ m - 1 > v \div 2
        BY <2>1, <3>2, Half
      <4>2. g[k - 1][<<u \div 2, v \div 2>>] = g[m - 1][<<u \div 2, v \div 2>>]
        BY <3>0, <4>1
      <4> HIDE DEF T
      <4> QED
        BY <3>0, <3>2, <4>2, <1>3
    <3> QED
      BY <3>1, <3>2
  <2>2. T \subseteq Nat
    OBVIOUS
  <2> HIDE DEF T
  <2> QED
    BY <2>1, <2>2, StrongInduction
<1> DEFINE f == [p \in Nat \X Nat |-> g[p[2] + 1][p]]
<1>5. f = [p \in Nat \X Nat |-> IF p[2] = 0 THEN p[1]
                               ELSE 2 * f[<<p[1] \div 2, p[2] \div 2>>] + LastBit(p[1], p[2])]
  <2>1. ASSUME NEW u \in Nat, NEW v \in Nat
        PROVE  f[<<u, v>>] = IF v = 0 THEN u ELSE 2 * f[<<u \div 2, v \div 2>>] + LastBit(u, v)
    <3>1. f[<<u, v>>] = g[v + 1][<<u, v>>] /\ v + 1 \in Nat \ {0} /\ (v + 1) - 1 = v
      OBVIOUS
    <3>2. g[v + 1][<<u, v>>] = IF v = 0 THEN u ELSE 2 * g[v][<<u \div 2, v \div 2>>] + LastBit(u, v)
      BY <3>1, <1>3
    <3>3. ASSUME v # 0
          PROVE  g[v][<<u \div 2, v \div 2>>] = f[<<u \div 2, v \div 2>>]
      <4>1. v \div 2 \in Nat /\ u \div 2 \in Nat /\ v > v \div 2 /\ v \div 2 + 1 > v \div 2
        BY <3>3, Half
      <4>2. v \div 2 \in T
        BY <1>4, <4>1
      <4>3. g[v][<<u \div 2, v \div 2>>] = g[v \div 2 + 1][<<u \div 2, v \div 2>>]
        BY <4>1, <4>2
      <4> QED
        BY <4>1, <4>3
    <3> HIDE DEF f, T
    <3> QED
      BY <3>1, <3>2, <3>3
  <2>2. ASSUME NEW p \in Nat \X Nat
        PROVE  f[p] = IF p[2] = 0 THEN p[1]
                      ELSE 2 * f[<<p[1] \div 2, p[2] \div 2>>] + LastBit(p[1], p[2])
    <3>1. PICK u \in Nat, v \in Nat : p = <<u, v>>
      OBVIOUS
    <3>2. p[1] = u /\ p[2] = v
      BY <3>1
    <3> HIDE DEF f, T
    <3>3. f[<<u, v>>] = IF v = 0 THEN u ELSE 2 * f[<<u \div 2, v \div 2>>] + LastBit(u, v)
      BY <2>1
    <3> QED
      BY <3>1, <3>2, <3>3
  <2>3. f = [p \in Nat \X Nat |-> f[p]]
    OBVIOUS
  <2> HIDE DEF f, T
  <2> QED
    BY <2>2, <2>3
<1>6. BitOr = [p \in Nat \X Nat |-> IF p[2] = 0 THEN p[1]
                 ELSE 2 * BitOr[<<p[1] \div 2, p[2] \div 2>>] + LastBit(p[1], p[2])]
  <2> HIDE DEF f
  <2> QED
    BY <1>5 DEF BitOr, LastBit
<1> QED
  BY <1>6

\* A number below a power of two fills the bits that a multiple of it leaves free.
LEMMA DisjointBits ==
  ASSUME NEW n \in Nat, NEW h \in Nat, NEW l \in Nat, l < Two[n]
  PROVE  BitOr[<<h * Two[n], l>>] = h * Two[n] + l
<1> DEFINE T == {k \in Nat : \A m \in Nat : m < Two[k] => BitOr[<<h * Two[k], m>>] = h * Two[k] + m}
<1>1. 0 \in T
  <2>1. Two[0] = 1 /\ h * 1 = h /\ h + 0 = h /\ \A m \in Nat : m < 1 => m = 0
    BY PowerOfTwo
  <2>2. BitOr[<<h, 0>>] = h
    BY BitOrDef
  <2> QED
    BY <2>1, <2>2
<1>2. ASSUME NEW k \in T
      PROVE  k + 1 \in T
  <2> SUFFICES ASSUME NEW m \in Nat, m < Two[k + 1]
               PROVE  BitOr[<<h * Two[k + 1], m>>] = h * Two[k + 1] + m
    BY <1>2
  <2> DEFINE z == h * Two[k]
  <2>1. Two[k] \in Nat /\ Two[k + 1] = 2 * Two[k] /\ z \in Nat
    BY PowerOfTwo
  <2>2. h * Two[k + 1] = 2 * z
    BY <2>1
  <2>3. m \div 2 \in Nat /\ m = 2 * (m \div 2) + (m % 2) /\ m % 2 \in {0, 1} /\ m \div 2 < Two[k]
    BY <2>1, Half
  <2>4. BitOr[<<z, m \div 2>>] = z + m \div 2
    BY <2>3
  <2> HIDE DEF z
  <2>5. (2 * z) \div 2 = z /\ (2 * z) % 2 = 0 /\ 2 * z \in Nat
    BY <2>1
  <2>6. BitOr[<<2 * z, m>>] = IF m = 0 THEN 2 * z ELSE 2 * BitOr[<<z, m \div 2>>] + LastBit(2 * z, m)
    BY <2>5, BitOrDef
  <2>7. LastBit(2 * z, m) = m % 2
    BY <2>3, <2>5 DEF LastBit
  <2>8. BitOr[<<2 * z, m>>] = 2 * z + m
    BY <2>1, <2>3, <2>4, <2>6, <2>7
  <2> QED
    BY <2>2, <2>8
<1>3. T = Nat
  <2>1. T \subseteq Nat
    OBVIOUS
  <2> HIDE DEF T
  <2> QED
    BY <1>1, <1>2, <2>1, Induction
<1> QED
  BY <1>3

\* The or of natural numbers is one.
LEMMA BitOrNatural ==
  ASSUME NEW x \in Nat, NEW y \in Nat
  PROVE  BitOr[<<x, y>>] \in Nat
<1> DEFINE T == {v \in Nat : \A u \in Nat : BitOr[<<u, v>>] \in Nat}
<1>1. ASSUME NEW v \in Nat, 0 .. v - 1 \subseteq T
      PROVE  v \in T
  <2> SUFFICES ASSUME NEW u \in Nat PROVE BitOr[<<u, v>>] \in Nat
    OBVIOUS
  <2>1. v # 0 => BitOr[<<u \div 2, v \div 2>>] \in Nat
    <3>1. v # 0 => v \div 2 \in T /\ u \div 2 \in Nat
      BY <1>1, Half
    <3> QED
      BY <3>1
  <2>2. LastBit(u, v) \in Nat
    BY DEF LastBit
  <2> QED
    BY <2>1, <2>2, BitOrDef
<1>2. T = Nat
  <2>1. T \subseteq Nat
    OBVIOUS
  <2> HIDE DEF T
  <2> QED
    BY <1>1, <2>1, StrongInduction
<1> QED
  BY <1>2

-----------------------------------------------------------------------------
(* Streams: what the operators on cells return. *)

\* A part of a stream.
LEMMA Slice ==
  ASSUME NEW s \in Seq(Cell), NEW i \in 1 .. Len(s) + 1, NEW j \in i - 1 .. Len(s)
  PROVE  /\ SubSeq(s, i, j) \in Seq(Cell)
         /\ Len(SubSeq(s, i, j)) = j - i + 1
         /\ \A k \in 1 .. j - i + 1 : SubSeq(s, i, j)[k] = s[i + k - 1]
<1>1. Len(s) \in Nat /\ \A k \in 1 .. Len(s) : s[k] \in Cell
  BY LenProperties, ElementOfSeq
<1>2. i \in Int /\ j \in Int /\ \A k \in i .. j : s[k] \in Cell
  BY <1>1
<1>3. IF i <= j THEN j - i + 1 = j - i + 1 ELSE j - i + 1 = 0
  BY <1>1
<1> QED
  BY <1>1, <1>2, <1>3, SubSeqProperties

\* A part of a part of a stream.
LEMMA SliceOfSlice ==
  ASSUME NEW s \in Seq(Cell), NEW i \in 1 .. Len(s) + 1, NEW j \in i - 1 .. Len(s),
         NEW a \in 1 .. j - i + 2, NEW b \in a - 1 .. j - i + 1
  PROVE  SubSeq(SubSeq(s, i, j), a, b) = SubSeq(s, i + a - 1, i + b - 1)
<1> DEFINE t == SubSeq(s, i, j)
           u == SubSeq(t, a, b)
           v == SubSeq(s, i + a - 1, i + b - 1)
<1>0. Len(s) \in Nat
  BY LenProperties
<1>1. t \in Seq(Cell) /\ Len(t) = j - i + 1 /\ \A k \in 1 .. j - i + 1 : t[k] = s[i + k - 1]
  BY Slice
<1>2. u \in Seq(Cell) /\ Len(u) = b - a + 1 /\ \A k \in 1 .. b - a + 1 : u[k] = t[a + k - 1]
  <2>1. a \in 1 .. Len(t) + 1 /\ b \in a - 1 .. Len(t)
    BY <1>0, <1>1
  <2> HIDE DEF t
  <2> QED
    BY <1>1, <2>1, Slice
<1>3. v \in Seq(Cell) /\ Len(v) = b - a + 1 /\ \A k \in 1 .. b - a + 1 : v[k] = s[i + a - 1 + k - 1]
  <2> DEFINE c == i + a - 1
             d == i + b - 1
  <2>1. c \in 1 .. Len(s) + 1 /\ d \in c - 1 .. Len(s) /\ d - c + 1 = b - a + 1
    BY <1>0
  <2> HIDE DEF c, d
  <2>2. SubSeq(s, c, d) \in Seq(Cell) /\ Len(SubSeq(s, c, d)) = d - c + 1
        /\ \A k \in 1 .. d - c + 1 : SubSeq(s, c, d)[k] = s[c + k - 1]
    BY <2>1, Slice
  <2> QED
    BY <2>1, <2>2 DEF c, d
<1> HIDE DEF t, u, v
<1>4. ASSUME NEW k \in 1 .. Len(u)
      PROVE  u[k] = v[k]
  <2>1. u[k] = t[a + k - 1] /\ a + k - 1 \in 1 .. j - i + 1
    BY <1>0, <1>2
  <2>2. t[a + k - 1] = s[i + (a + k - 1) - 1] /\ v[k] = s[i + a - 1 + k - 1]
    BY <1>1, <1>2, <1>3, <2>1
  <2>3. i + (a + k - 1) - 1 = i + a - 1 + k - 1
    BY <1>0, <1>2
  <2> QED
    BY <2>1, <2>2, <2>3
<1>5. u = v
  BY <1>2, <1>3, <1>4, SeqEqual
<1> QED
  BY <1>5 DEF u, v, t

\* The first of the positions in I, or 0.
LEMMA FirstPosition ==
  ASSUME NEW n \in Nat, NEW I \in SUBSET (1 .. n)
  PROVE  LET i == IF I # {} THEN Min(I) ELSE 0
         IN  \/ i = 0 /\ I = {}
             \/ i \in I /\ \A k \in I : i <= k
<1>1. I \subseteq Nat
  OBVIOUS
<1>2. I # {} => \E m \in I : \A k \in I : m <= k
  BY <1>1, Least
<1>3. I # {} => Min(I) \in I /\ \A k \in I : Min(I) <= k
  BY <1>2 DEF Min
<1> QED
  BY <1>3

\* Before and After part a stream at the first c.
LEMMA Parted ==
  ASSUME NEW s \in Seq(Cell), NEW c
  PROVE  \E i \in 1 .. Len(s) + 1 :
           /\ \A k \in 1 .. i - 1 : s[k] # c
           /\ i <= Len(s) => s[i] = c
           /\ Before(s, c) = SubSeq(s, 1, i - 1)
           /\ After(s, c) = SubSeq(s, i + 1, Len(s))
<1> DEFINE I == {k \in 1 .. Len(s) : s[k] = c}
           i == IF I # {} THEN Min(I) ELSE 0
<1>0. Len(s) \in Nat /\ I \in SUBSET (1 .. Len(s))
  BY LenProperties
<1>1. /\ Before(s, c) = IF i = 0 THEN s ELSE SubSeq(s, 1, i - 1)
      /\ After(s, c) = IF i = 0 THEN <<>> ELSE SubSeq(s, i + 1, Len(s))
  BY DEF Before, After, SelectInSeq
<1> HIDE DEF i
<1>2. \/ i = 0 /\ I = {}
      \/ i \in I /\ \A k \in I : i <= k
  <2> HIDE DEF I
  <2> QED
    BY <1>0, FirstPosition DEF i
<1>3. CASE i = 0 /\ I = {}
  <2>1. SubSeq(s, 1, Len(s)) = s
    BY SubSeqFull
  <2>2. SubSeq(s, Len(s) + 2, Len(s)) = <<>>
    <3>1. Len(s) + 2 \in Int /\ Len(s) \in Int /\ Len(s) < Len(s) + 2
      BY <1>0
    <3> QED
      BY <3>1, SubSeqEmpty
  <2>3. (Len(s) + 1) - 1 = Len(s) /\ (Len(s) + 1) + 1 = Len(s) + 2 /\ Len(s) + 1 \in 1 .. Len(s) + 1
        /\ ~ (Len(s) + 1 <= Len(s))
    BY <1>0
  <2>4. \A k \in 1 .. Len(s) : s[k] # c
    BY <1>3
  <2> HIDE DEF I
  <2> WITNESS Len(s) + 1 \in 1 .. Len(s) + 1
  <2> QED
    BY <1>1, <1>3, <2>1, <2>2, <2>3, <2>4
<1>4. CASE i \in I /\ \A k \in I : i <= k
  <2>1. i \in 1 .. Len(s) + 1 /\ s[i] = c /\ i # 0
    BY <1>0, <1>4
  <2>2. \A k \in 1 .. i - 1 : s[k] # c
    BY <1>0, <1>4
  <2> HIDE DEF I
  <2> USE <2>1
  <2> WITNESS i \in 1 .. Len(s) + 1
  <2> QED
    BY <1>1, <2>1, <2>2
<1> QED
  BY <1>2, <1>3, <1>4

\* Trim leaves what begins with the first cell that is no separator.
LEMMA Trimmed ==
  ASSUME NEW s \in Seq(Cell)
  PROVE  \E i \in 1 .. Len(s) + 1 :
           /\ \A k \in 1 .. i - 1 : s[k] = Sep
           /\ i <= Len(s) => s[i] # Sep
           /\ Trim(s) = SubSeq(s, i, Len(s))
<1> DEFINE I == {k \in 1 .. Len(s) : s[k] # Sep}
           i == IF I # {} THEN Min(I) ELSE 0
<1>0. Len(s) \in Nat /\ I \in SUBSET (1 .. Len(s))
  BY LenProperties
<1>1. Trim(s) = IF i = 0 THEN <<>> ELSE SubSeq(s, i, Len(s))
  BY DEF Trim, SelectInSeq
<1> HIDE DEF i
<1>2. \/ i = 0 /\ I = {}
      \/ i \in I /\ \A k \in I : i <= k
  <2> HIDE DEF I
  <2> QED
    BY <1>0, FirstPosition DEF i
<1>3. CASE i = 0 /\ I = {}
  <2>1. SubSeq(s, Len(s) + 1, Len(s)) = <<>>
    <3>1. Len(s) + 1 \in Int /\ Len(s) \in Int /\ Len(s) < Len(s) + 1
      BY <1>0
    <3> QED
      BY <3>1, SubSeqEmpty
  <2>2. (Len(s) + 1) - 1 = Len(s) /\ Len(s) + 1 \in 1 .. Len(s) + 1 /\ ~ (Len(s) + 1 <= Len(s))
    BY <1>0
  <2>3. \A k \in 1 .. Len(s) : s[k] = Sep
    BY <1>3
  <2> HIDE DEF I
  <2> WITNESS Len(s) + 1 \in 1 .. Len(s) + 1
  <2> QED
    BY <1>1, <1>3, <2>1, <2>2, <2>3
<1>4. CASE i \in I /\ \A k \in I : i <= k
  <2>1. i \in 1 .. Len(s) + 1 /\ s[i] # Sep /\ i # 0
    BY <1>0, <1>4
  <2>2. \A k \in 1 .. i - 1 : s[k] = Sep
    BY <1>0, <1>4
  <2> HIDE DEF I
  <2> USE <2>1
  <2> WITNESS i \in 1 .. Len(s) + 1
  <2> QED
    BY <1>1, <2>1, <2>2
<1> QED
  BY <1>2, <1>3, <1>4

\* Where the first word of a stream stands: from i to j - 1.
WordAt(s, i, j) ==
  /\ i \in 1 .. Len(s) + 1 /\ j \in i .. Len(s) + 1
  /\ \A k \in 1 .. i - 1 : s[k] = Sep
  /\ \A k \in i .. j - 1 : s[k] # Sep
  /\ i <= Len(s) => s[i] # Sep
  /\ j <= Len(s) => s[j] = Sep

\* There is such a place.
LEMMA WordExists ==
  ASSUME NEW s \in Seq(Cell)
  PROVE  \E i, j \in 1 .. Len(s) + 1 : WordAt(s, i, j)
<1>0. Len(s) \in Nat
  BY LenProperties
<1>1. PICK i \in 1 .. Len(s) + 1 : (\A k \in 1 .. i - 1 : s[k] = Sep) /\ (i <= Len(s) => s[i] # Sep)
  BY Trimmed
<1> DEFINE I == {k \in i .. Len(s) + 1 : k <= Len(s) => s[k] = Sep}
<1>2. I \subseteq Nat /\ Len(s) + 1 \in I
  BY <1>0
<1>3. PICK j \in I : \A k \in I : j <= k
  <2> HIDE DEF I
  <2> QED
    BY <1>2, Least
<1>4. \A k \in i .. j - 1 : s[k] # Sep
  BY <1>0, <1>3
<1>5. j \in i .. Len(s) + 1 /\ (j <= Len(s) => s[j] = Sep) /\ j \in 1 .. Len(s) + 1
  BY <1>0
<1> HIDE DEF I
<1>6. WordAt(s, i, j)
  BY <1>1, <1>4, <1>5 DEF WordAt
<1> QED
  BY <1>5, <1>6

\* It is what Word reads, and Left the rest.
LEMMA WordIs ==
  ASSUME NEW s \in Seq(Cell), NEW i, NEW j, WordAt(s, i, j)
  PROVE  Word(s) = SubSeq(s, i, j - 1) /\ Left(s) = SubSeq(s, j, Len(s))
<1> DEFINE t == Trim(s)
<1>0. Len(s) \in Nat /\ i \in 1 .. Len(s) + 1 /\ j \in i .. Len(s) + 1
  BY LenProperties DEF WordAt
<1>1. t = SubSeq(s, i, Len(s))
  <2>1. PICK m \in 1 .. Len(s) + 1 :
          /\ \A k \in 1 .. m - 1 : s[k] = Sep
          /\ m <= Len(s) => s[m] # Sep
          /\ t = SubSeq(s, m, Len(s))
    BY Trimmed
  <2> HIDE DEF t
  <2>2. ~ (m < i)
    <3> SUFFICES ASSUME m < i PROVE FALSE
      OBVIOUS
    <3>1. m \in 1 .. i - 1 /\ m <= Len(s)
      BY <1>0
    <3> QED
      BY <2>1, <3>1 DEF WordAt
  <2>3. ~ (i < m)
    <3> SUFFICES ASSUME i < m PROVE FALSE
      OBVIOUS
    <3>1. i \in 1 .. m - 1 /\ i <= Len(s)
      BY <1>0
    <3> QED
      BY <2>1, <3>1 DEF WordAt
  <2>4. m = i
    BY <1>0, <2>2, <2>3
  <2> QED
    BY <2>1, <2>4
<1>2. t \in Seq(Cell) /\ Len(t) = Len(s) - i + 1 /\ \A k \in 1 .. Len(s) - i + 1 : t[k] = s[i + k - 1]
  <2>1. Len(s) \in i - 1 .. Len(s)
    BY <1>0
  <2> HIDE DEF t
  <2> QED
    BY <1>0, <1>1, <2>1, Slice
<1> HIDE DEF t
<1>3. PICK m \in 1 .. Len(t) + 1 :
        /\ \A k \in 1 .. m - 1 : t[k] # Sep
        /\ m <= Len(t) => t[m] = Sep
        /\ Before(t, Sep) = SubSeq(t, 1, m - 1)
  BY <1>2, Parted
<1>4. m = j - i + 1
  <2>1. ~ (m < j - i + 1)
    <3> SUFFICES ASSUME m < j - i + 1 PROVE FALSE
      OBVIOUS
    <3>1. m \in 1 .. Len(s) - i + 1 /\ i + m - 1 \in i .. j - 1 /\ m <= Len(t)
      BY <1>0, <1>2
    <3>2. t[m] = s[i + m - 1] /\ t[m] = Sep
      BY <1>2, <1>3, <3>1
    <3> QED
      BY <3>1, <3>2 DEF WordAt
  <2>2. ~ (j - i + 1 < m)
    <3> SUFFICES ASSUME j - i + 1 < m PROVE FALSE
      OBVIOUS
    <3>1. j - i + 1 \in 1 .. m - 1 /\ j <= Len(s) /\ j - i + 1 \in 1 .. Len(s) - i + 1
      BY <1>0, <1>2
    <3>2. i + (j - i + 1) - 1 = j
      BY <1>0
    <3>3. t[j - i + 1] = s[j] /\ t[j - i + 1] # Sep
      BY <1>2, <1>3, <3>1, <3>2
    <3> QED
      BY <3>1, <3>3 DEF WordAt
  <2> QED
    BY <1>0, <1>2, <2>1, <2>2
<1>5. Word(s) = SubSeq(s, i, j - 1)
  <2>1. SubSeq(SubSeq(s, i, Len(s)), 1, j - i) = SubSeq(s, i + 1 - 1, i + (j - i) - 1)
    <3>1. Len(s) \in i - 1 .. Len(s) /\ 1 \in 1 .. Len(s) - i + 2 /\ j - i \in 1 - 1 .. Len(s) - i + 1
      BY <1>0
    <3> QED
      BY <1>0, <3>1, SliceOfSlice
  <2>2. m - 1 = j - i /\ i + 1 - 1 = i /\ i + (j - i) - 1 = j - 1
    BY <1>0, <1>4
  <2>3. Word(s) = Before(t, Sep)
    BY DEF Word, t
  <2> QED
    BY <1>1, <1>3, <2>1, <2>2, <2>3
<1>6. Left(s) = SubSeq(s, j, Len(s))
  <2>1. Len(SubSeq(s, i, j - 1)) = j - i
    <3>1. j - 1 \in i - 1 .. Len(s) /\ (j - 1) - i + 1 = j - i
      BY <1>0
    <3> QED
      BY <1>0, <3>1, Slice
  <2>2. SubSeq(SubSeq(s, i, Len(s)), j - i + 1, Len(s) - i + 1)
        = SubSeq(s, i + (j - i + 1) - 1, i + (Len(s) - i + 1) - 1)
    <3>1. /\ Len(s) \in i - 1 .. Len(s) /\ j - i + 1 \in 1 .. Len(s) - i + 2
          /\ Len(s) - i + 1 \in (j - i + 1) - 1 .. Len(s) - i + 1
      BY <1>0
    <3> QED
      BY <1>0, <3>1, SliceOfSlice
  <2>3. i + (j - i + 1) - 1 = j /\ i + (Len(s) - i + 1) - 1 = Len(s)
    BY <1>0
  <2>4. Left(s) = SubSeq(t, Len(Word(s)) + 1, Len(t))
    BY DEF Left, t
  <2> QED
    BY <1>1, <1>2, <1>5, <2>1, <2>2, <2>3, <2>4
<1> QED
  BY <1>5, <1>6

\* Words and what is left of them are streams.
LEMMA WordType ==
  ASSUME NEW s \in Seq(Cell)
  PROVE  Word(s) \in Seq(Cell) /\ Left(s) \in Seq(Cell)
<1>0. Len(s) \in Nat
  BY LenProperties
<1>1. PICK i, j \in 1 .. Len(s) + 1 : WordAt(s, i, j)
  BY WordExists
<1>2. Word(s) = SubSeq(s, i, j - 1) /\ Left(s) = SubSeq(s, j, Len(s))
  BY <1>1, WordIs
<1>3. j - 1 \in i - 1 .. Len(s) /\ Len(s) \in j - 1 .. Len(s)
  BY <1>0, <1>1 DEF WordAt
<1> QED
  BY <1>2, <1>3, Slice

\* A word with a separator behind it is read alike, whatever follows.
LEMMA WordLocal ==
  ASSUME NEW s \in Seq(Cell), NEW rest \in Seq(Cell),
         s # <<>>, Last(s) = Sep, Word(s) # <<>>
  PROVE  /\ Word(s \o rest) = Word(s)
         /\ Left(s \o rest) = Left(s) \o rest
         /\ Left(s) # <<>> /\ Last(Left(s)) = Sep
<1> DEFINE u == s \o rest
<1>0. /\ Len(s) \in Nat \ {0} /\ Len(rest) \in Nat /\ s[Len(s)] = Sep
      /\ u \in Seq(Cell) /\ Len(u) = Len(s) + Len(rest)
      /\ \A k \in 1 .. Len(s) + Len(rest) : u[k] = IF k <= Len(s) THEN s[k] ELSE rest[k - Len(s)]
  BY LenProperties, EmptySeq, ConcatProperties DEF Last
<1>1. PICK i, j \in 1 .. Len(s) + 1 : WordAt(s, i, j)
  BY WordExists
<1>2. Word(s) = SubSeq(s, i, j - 1) /\ Left(s) = SubSeq(s, j, Len(s))
  BY <1>1, WordIs
<1>3. i < j
  <2> SUFFICES ASSUME j = i PROVE FALSE
    BY <1>0, <1>1 DEF WordAt
  <2>1. SubSeq(s, i, j - 1) = <<>>
    <3>1. i \in Int /\ j - 1 \in Int /\ j - 1 < i
      BY <1>0
    <3> QED
      BY <3>1, SubSeqEmpty
  <2> QED
    BY <1>2, <2>1
<1>4. j <= Len(s)
  <2> SUFFICES ASSUME j = Len(s) + 1 PROVE FALSE
    BY <1>0, <1>1
  <2>1. Len(s) \in i .. j - 1
    BY <1>0, <1>3
  <2> QED
    BY <1>0, <1>1, <2>1 DEF WordAt
<1> HIDE DEF u
<1>5. WordAt(u, i, j)
  <2>1. \A k \in 1 .. Len(s) : u[k] = s[k]
    BY <1>0
  <2> QED
    BY <1>0, <1>1, <1>3, <1>4, <2>1 DEF WordAt
<1>6. Word(u) = SubSeq(u, i, j - 1) /\ Left(u) = SubSeq(u, j, Len(u))
  BY <1>0, <1>5, WordIs
<1>7. SubSeq(u, i, j - 1) = SubSeq(s, i, j - 1)
  <2>1. i \in 1 .. Len(s) /\ j - 1 \in 1 .. Len(s)
    BY <1>0, <1>1, <1>3, <1>4
  <2> QED
    BY <2>1, SubSeqOfConcat1 DEF u
<1>8. /\ Left(s) \in Seq(Cell) /\ Len(Left(s)) = Len(s) - j + 1
      /\ \A k \in 1 .. Len(s) - j + 1 : Left(s)[k] = s[j + k - 1]
  <2>1. Len(s) \in j - 1 .. Len(s)
    BY <1>0, <1>4
  <2> QED
    BY <1>2, <2>1, Slice
<1>9. Left(u) = Left(s) \o rest
  <2> DEFINE v == Left(s) \o rest
             w == SubSeq(u, j, Len(u))
  <2>1. /\ v \in Seq(Cell) /\ Len(v) = Len(s) - j + 1 + Len(rest)
        /\ \A k \in 1 .. Len(s) - j + 1 + Len(rest) :
             v[k] = IF k <= Len(s) - j + 1 THEN Left(s)[k] ELSE rest[k - (Len(s) - j + 1)]
    <3>1. /\ v \in Seq(Cell) /\ Len(v) = Len(Left(s)) + Len(rest)
          /\ \A k \in 1 .. Len(Left(s)) + Len(rest) :
               v[k] = IF k <= Len(Left(s)) THEN Left(s)[k] ELSE rest[k - Len(Left(s))]
      BY <1>8, ConcatProperties
    <3> HIDE DEF v
    <3> QED
      BY <1>8, <3>1
  <2>2. /\ w \in Seq(Cell) /\ Len(w) = Len(u) - j + 1
        /\ \A k \in 1 .. Len(u) - j + 1 : w[k] = u[j + k - 1]
    <3>1. j \in 1 .. Len(u) + 1 /\ Len(u) \in j - 1 .. Len(u)
      BY <1>0, <1>4
    <3> QED
      BY <1>0, <3>1, Slice
  <2> HIDE DEF v, w
  <2>3. ASSUME NEW k \in 1 .. Len(w)
        PROVE  w[k] = v[k]
    <3>1. w[k] = u[j + k - 1] /\ j + k - 1 \in 1 .. Len(s) + Len(rest) /\ k \in 1 .. Len(s) - j + 1 + Len(rest)
      BY <1>0, <1>4, <2>2
    <3>2. CASE k <= Len(s) - j + 1
      <4>1. j + k - 1 <= Len(s) /\ k \in 1 .. Len(s) - j + 1
        BY <1>0, <1>4, <3>1, <3>2
      <4> QED
        BY <1>0, <1>8, <2>1, <3>1, <3>2, <4>1
    <3>3. CASE ~ (k <= Len(s) - j + 1)
      <4>1. ~ (j + k - 1 <= Len(s)) /\ (j + k - 1) - Len(s) = k - (Len(s) - j + 1)
        BY <1>0, <1>4, <3>1, <3>3
      <4>2. u[j + k - 1] = rest[(j + k - 1) - Len(s)]
        BY <1>0, <3>1, <4>1
      <4>3. v[k] = rest[k - (Len(s) - j + 1)]
        BY <2>1, <3>1, <3>3
      <4> QED
        BY <3>1, <4>1, <4>2, <4>3
    <3> QED
      BY <3>2, <3>3
  <2>4. w = v
    <3>1. Len(w) = Len(v)
      BY <1>0, <2>1, <2>2
    <3> QED
      BY <2>1, <2>2, <2>3, <3>1, SeqEqual
  <2> QED
    BY <1>6, <2>4 DEF v, w
<1>10. Left(s) # <<>> /\ Last(Left(s)) = Sep
  <2>1. Len(s) - j + 1 \in 1 .. Len(s) - j + 1 /\ j + (Len(s) - j + 1) - 1 = Len(s)
    BY <1>0, <1>4
  <2>2. Left(s)[Len(s) - j + 1] = Sep /\ Len(Left(s)) # 0
    BY <1>0, <1>8, <2>1
  <2> QED
    BY <1>8, <2>2, EmptySeq DEF Last
<1> QED
  BY <1>2, <1>6, <1>7, <1>9, <1>10 DEF u

\* What is in front of a cell and behind it are streams; of nothing, nothing is left.
LEMMA PartType ==
  ASSUME NEW s \in Seq(Cell), NEW c
  PROVE  /\ Before(s, c) \in Seq(Cell) /\ After(s, c) \in Seq(Cell)
         /\ s = <<>> => After(s, c) = <<>>
<1>0. Len(s) \in Nat
  BY LenProperties
<1>1. PICK i \in 1 .. Len(s) + 1 : /\ Before(s, c) = SubSeq(s, 1, i - 1)
                                  /\ After(s, c) = SubSeq(s, i + 1, Len(s))
  BY Parted
<1>2. SubSeq(s, 1, i - 1) \in Seq(Cell)
  <2>1. 1 \in 1 .. Len(s) + 1 /\ i - 1 \in 1 - 1 .. Len(s)
    BY <1>0
  <2> QED
    BY <2>1, Slice
<1>3. SubSeq(s, i + 1, Len(s)) \in Seq(Cell) /\ (i >= Len(s) => SubSeq(s, i + 1, Len(s)) = <<>>)
  <2>1. CASE i >= Len(s)
    <3>1. i + 1 \in Int /\ Len(s) \in Int /\ Len(s) < i + 1
      BY <1>0, <2>1
    <3> QED
      BY <3>1, SubSeqEmpty, EmptySeq
  <2>2. CASE ~ (i >= Len(s))
    <3>1. i + 1 \in 1 .. Len(s) + 1 /\ Len(s) \in (i + 1) - 1 .. Len(s)
      BY <1>0, <2>2
    <3> QED
      BY <2>2, <3>1, Slice
  <2> QED
    BY <2>1, <2>2
<1>4. s = <<>> => i >= Len(s)
  BY <1>0, EmptySeq
<1> QED
  BY <1>1, <1>2, <1>3, <1>4

\* The recursion of Rest, which leaves a stream, and nothing of nothing.
LEMMA RestType ==
  ASSUME NEW s \in Seq(Cell), NEW n \in Nat
  PROVE  /\ Rest(s, n) \in Seq(Cell)
         /\ s = <<>> => Rest(s, n) = <<>>
<1> DEFINE S    == Seq(Cell)
           step == [k \in Nat |-> [v \in S |-> After(v, Comma)]]
<1>1. step \in [Nat -> [S -> S]] /\ s \in S
  BY PartType
<1>2. PICK f \in [0 .. n -> S] : Follows(f, n, s, step)
  <2> HIDE DEF S, step
  <2> QED
    BY <1>1, FiniteRecursion
<1>3. \A k \in 1 .. n : f[k - 1] \in S /\ f[k] = After(f[k - 1], Comma)
  <2> SUFFICES ASSUME NEW k \in 1 .. n
               PROVE  f[k - 1] \in S /\ f[k] = After(f[k - 1], Comma)
    OBVIOUS
  <2>1. f[k - 1] \in S /\ f[k] = step[k][f[k - 1]]
    <3>1. k - 1 \in 0 .. n
      OBVIOUS
    <3> HIDE DEF S, step
    <3> QED
      BY <1>2, <3>1 DEF Follows
  <2> QED
    BY <2>1
<1>4. f = [k \in 0 .. n |-> IF k = 0 THEN s ELSE After(f[k - 1], Comma)]
  <2>1. f[0] = s /\ f = [k \in 0 .. n |-> f[k]]
    BY <1>2 DEF Follows
  <2>2. \A k \in 0 .. n : k = 0 \/ k \in 1 .. n
    OBVIOUS
  <2>3. \A k \in 0 .. n : f[k] = IF k = 0 THEN s ELSE After(f[k - 1], Comma)
    BY <1>3, <2>1, <2>2
  <2> HIDE DEF S, step
  <2> QED
    BY <2>1, <2>3
<1> DEFINE r == CHOOSE r : r = [k \in 0 .. n |-> IF k = 0 THEN s ELSE After(r[k - 1], Comma)]
<1>5. Rest(s, n) = r[n]
  BY DEF Rest
<1>6. r = [k \in 0 .. n |-> IF k = 0 THEN s ELSE After(r[k - 1], Comma)]
  BY <1>4
<1> HIDE DEF r, S, step
<1> DEFINE T == {k \in Nat : k <= n => r[k] \in Seq(Cell) /\ (s = <<>> => r[k] = <<>>)}
<1>7. T = Nat
  <2>1. 0 \in T
    BY <1>6
  <2>2. ASSUME NEW k \in T
        PROVE  k + 1 \in T
    <3> SUFFICES ASSUME k + 1 <= n
                 PROVE  r[k + 1] \in Seq(Cell) /\ (s = <<>> => r[k + 1] = <<>>)
      OBVIOUS
    <3>1. k + 1 \in 0 .. n /\ k + 1 # 0 /\ (k + 1) - 1 = k
      OBVIOUS
    <3>2. r[k + 1] = After(r[k], Comma)
      BY <1>6, <3>1
    <3> QED
      BY <3>2, PartType
  <2>3. T \subseteq Nat
    OBVIOUS
  <2> HIDE DEF T
  <2> QED
    BY <2>1, <2>2, <2>3, Induction
<1> QED
  BY <1>5, <1>7

\* The cells of a number are digits.
LEMMA DigitsType ==
  ASSUME NEW s \in Seq(Cell)
  PROVE  /\ Digits(s) \in Seq(Cell)
         /\ \A k \in 1 .. Len(Digits(s)) : Digits(s)[k][2] \in Nat
<1> DEFINE I == {k \in 1 .. Len(s) : s[k][1] # "digit"}
           i == IF I # {} THEN Min(I) ELSE 0
<1>0. Len(s) \in Nat /\ I \in SUBSET (1 .. Len(s)) /\ \A k \in 1 .. Len(s) : s[k] \in Cell
  BY LenProperties, ElementOfSeq
<1>1. Digits(s) = IF i = 0 THEN s ELSE SubSeq(s, 1, i - 1)
  BY DEF Digits, SelectInSeq
<1> HIDE DEF i
<1>2. \/ i = 0 /\ I = {}
      \/ i \in I /\ \A k \in I : i <= k
  <2> HIDE DEF I
  <2> QED
    BY <1>0, FirstPosition DEF i
<1>3. \A c \in Cell : c[1] = "digit" => c[2] \in Nat
  BY DEF Cell
<1>4. CASE i = 0 /\ I = {}
  BY <1>0, <1>1, <1>3, <1>4
<1>5. CASE i \in I /\ \A k \in I : i <= k
  <2>1. 1 \in 1 .. Len(s) + 1 /\ i - 1 \in 1 - 1 .. Len(s) /\ i # 0 /\ (i - 1) - 1 + 1 = i - 1
    BY <1>0, <1>5
  <2>2. /\ SubSeq(s, 1, i - 1) \in Seq(Cell) /\ Len(SubSeq(s, 1, i - 1)) = i - 1
        /\ \A k \in 1 .. i - 1 : SubSeq(s, 1, i - 1)[k] = s[1 + k - 1]
    BY <2>1, Slice
  <2>3. \A k \in 1 .. i - 1 : k \in 1 .. Len(s) /\ s[k][1] = "digit" /\ 1 + k - 1 = k
    BY <1>0, <1>5
  <2> QED
    BY <1>0, <1>1, <1>3, <2>1, <2>2, <2>3
<1> QED
  BY <1>2, <1>4, <1>5

\* What std::stoi reads is a natural number, of one cell its value.
LEMMA NumberIs ==
  ASSUME NEW s \in Seq(Cell)
  PROVE  /\ Number(s) \in Nat
         /\ Len(Digits(s)) = 1 => Number(s) = Digits(s)[1][2]
<1> DEFINE D    == Digits(s)
           n    == Len(D)
           step == [k \in Nat |-> [v \in Nat |-> IF k \in 1 .. n THEN 10 * v + D[k][2] ELSE v]]
<1>0. D \in Seq(Cell) /\ n \in Nat /\ \A k \in 1 .. n : D[k][2] \in Nat
  BY DigitsType, LenProperties
<1> DEFINE value == CHOOSE value :
                      value = [k \in 0 .. n |-> IF k = 0 THEN 0 ELSE 10 * value[k - 1] + D[k][2]]
<1>1. Number(s) = value[n]
  BY DEF Number
<1> HIDE DEF D, n
<1>2. step \in [Nat -> [Nat -> Nat]]
  BY <1>0
<1>3. PICK f \in [0 .. n -> Nat] : Follows(f, n, 0, step)
  <2> HIDE DEF step
  <2> QED
    BY <1>0, <1>2, FiniteRecursion
<1>4. \A k \in 1 .. n : f[k] = 10 * f[k - 1] + D[k][2]
  <2> SUFFICES ASSUME NEW k \in 1 .. n
               PROVE  f[k] = 10 * f[k - 1] + D[k][2]
    OBVIOUS
  <2>1. f[k - 1] \in Nat /\ f[k] = step[k][f[k - 1]]
    <3>1. k - 1 \in 0 .. n
      BY <1>0
    <3> HIDE DEF step, value
    <3> QED
      BY <1>3, <3>1 DEF Follows
  <2> QED
    BY <1>0, <2>1
<1>5. f = [k \in 0 .. n |-> IF k = 0 THEN 0 ELSE 10 * f[k - 1] + D[k][2]]
  <2>1. f[0] = 0 /\ f = [k \in 0 .. n |-> f[k]]
    BY <1>3 DEF Follows
  <2>2. \A k \in 0 .. n : k = 0 \/ k \in 1 .. n
    BY <1>0
  <2> HIDE DEF step, value
  <2>3. \A k \in 0 .. n : f[k] = IF k = 0 THEN 0 ELSE 10 * f[k - 1] + D[k][2]
    BY <1>4, <2>1, <2>2
  <2> QED
    BY <2>1, <2>3
<1>6. value = [k \in 0 .. n |-> IF k = 0 THEN 0 ELSE 10 * value[k - 1] + D[k][2]]
  BY <1>5
<1> HIDE DEF value, step
<1> DEFINE T == {k \in Nat : k <= n => value[k] \in Nat}
<1>7. T = Nat
  <2>1. 0 \in T
    BY <1>0, <1>6
  <2>2. ASSUME NEW k \in T
        PROVE  k + 1 \in T
    <3> SUFFICES ASSUME k + 1 <= n PROVE value[k + 1] \in Nat
      OBVIOUS
    <3>1. k + 1 \in 0 .. n /\ k + 1 # 0 /\ (k + 1) - 1 = k /\ k + 1 \in 1 .. n /\ value[k] \in Nat
      BY <1>0
    <3>2. value[k + 1] = 10 * value[k] + D[k + 1][2]
      BY <1>6, <3>1
    <3>3. D[k + 1][2] \in Nat
      BY <1>0, <3>1
    <3> HIDE DEF T
    <3> QED
      BY <3>1, <3>2, <3>3
  <2>3. T \subseteq Nat
    OBVIOUS
  <2> HIDE DEF T
  <2> QED
    BY <2>1, <2>2, <2>3, Induction
<1>8. n = 1 => value[1] = D[1][2]
  <2> SUFFICES ASSUME n = 1 PROVE value[1] = D[1][2]
    OBVIOUS
  <2>1. value[0] = 0 /\ value[1] = 10 * value[0] + D[1][2]
    BY <1>6
  <2> QED
    BY <1>0, <2>1
<1> QED
  BY <1>0, <1>1, <1>7, <1>8 DEF D, n

-----------------------------------------------------------------------------
(* Commands. *)

\* A command has the type that TypeOK gives it.
LEMMA CommandType ==
  ASSUME NEW s \in Seq(Cell)
  PROVE  /\ Command(s) \in [verb : Verb \union {"PORT", "UNKNOWN", "INCOMPLETE", "throws", "none"},
                            argument : Seq(Cell), port : Int]
         /\ Command(s).verb = "PORT" <=> Command(s).port # -1
<1>1. <<>> \in Seq(Cell)
  BY EmptySeq
<1>2. Word(s) \in Seq(Cell) /\ Left(s) \in Seq(Cell) /\ Word(Left(s)) \in Seq(Cell)
  BY WordType
<1>3. CASE Word(s) = <<Port>>
  <2> DEFINE u     == Left(s)
             a     == Word(u)
             rest  == Rest(a, AddressFields)
             high  == Before(rest, Comma)
             after == After(rest, Comma)
             low   == IF after = <<>> THEN high ELSE after
             arg   == SubSeq(a, 1, Len(a) - Len(rest) - 1)
             port  == PortNumber(Number(high), Number(low))
  <2>1. rest \in Seq(Cell)
    BY <1>2, RestType, LineAssumption
  <2>2. high \in Seq(Cell) /\ low \in Seq(Cell)
    BY <2>1, PartType
  <2>3. Command(s) = IF Left(u) = <<>> \/ rest = <<>> THEN None("INCOMPLETE")
                     ELSE IF ~ IsNumber(high) \/ ~ IsNumber(low) THEN None("throws")
                     ELSE [verb |-> "PORT", argument |-> arg, port |-> port]
    BY <1>3 DEF Command, PortCommand
  <2>4. arg \in Seq(Cell)
    <3>1. Len(a) \in Nat /\ Len(rest) \in Nat /\ \A k \in 1 .. Len(a) : a[k] \in Cell
      BY <1>2, <2>1, LenProperties, ElementOfSeq
    <3> DEFINE n == Len(a) - Len(rest) - 1
    <3>2. n \in Int /\ \A k \in 1 .. n : a[k] \in Cell
      BY <3>1
    <3> HIDE DEF n
    <3>3. SubSeq(a, 1, n) \in Seq(Cell)
      BY <3>2, SubSeqProperties
    <3> QED
      BY <3>3 DEF n
  <2>5. port \in Nat
    <3>1. Number(high) \in Nat /\ Number(low) \in Nat /\ Byte \in Nat
      BY <2>2, NumberIs, PowerOfTwo, LineAssumption DEF Byte
    <3>2. Number(high) * Byte \in Nat
      BY <3>1
    <3> QED
      BY <3>1, <3>2, BitOrNatural DEF PortNumber
  <2> HIDE DEF arg, port, high, low, rest, u
  <2> QED
    BY <1>1, <2>3, <2>4, <2>5, LineAssumption DEF None
<1>4. CASE Word(s) # <<Port>>
  <2> DEFINE verb == {v \in Verb : Word(s) = <<Spell(v)>>}
             v    == CHOOSE v \in verb : TRUE
  <2>1. verb # {} => v \in Verb
    OBVIOUS
  <2>2. Command(s) = IF verb = {} THEN None("UNKNOWN")
                     ELSE [None(v) EXCEPT !.argument =
                             IF v \in ArgumentVerb THEN Word(Left(s)) ELSE <<>>]
    BY <1>4 DEF Command
  <2> HIDE DEF verb, v
  <2>3. CASE verb = {}
    BY <1>1, <2>2, <2>3 DEF None
  <2>4. CASE verb # {}
    <3> DEFINE arg == IF v \in ArgumentVerb THEN Word(Left(s)) ELSE <<>>
    <3>1. arg \in Seq(Cell) /\ v \in Verb /\ v # "PORT"
      BY <1>1, <1>2, <2>1, <2>4, LineAssumption
    <3>2. Command(s) = [verb |-> v, argument |-> arg, port |-> -1]
      BY <2>2, <2>4 DEF None
    <3> HIDE DEF arg
    <3> QED
      BY <3>1, <3>2
  <2> QED
    BY <2>3, <2>4
<1> QED
  BY <1>3, <1>4

\* Without a word nothing is left.
LEMMA NoWord ==
  ASSUME NEW s \in Seq(Cell), Word(s) = <<>>
  PROVE  Left(s) = <<>> /\ Word(Left(s)) = <<>>
<1>0. Len(s) \in Nat
  BY LenProperties
<1>1. PICK i, j \in 1 .. Len(s) + 1 : WordAt(s, i, j)
  BY WordExists
<1>2. Word(s) = SubSeq(s, i, j - 1) /\ Left(s) = SubSeq(s, j, Len(s))
  BY <1>1, WordIs
<1>3. j - i = 0
  <2>1. j - 1 \in i - 1 .. Len(s)
    BY <1>0, <1>1 DEF WordAt
  <2>2. Len(SubSeq(s, i, j - 1)) = j - 1 - i + 1
    BY <2>1, Slice
  <2>3. Len(SubSeq(s, i, j - 1)) = 0
    BY <1>2, EmptySeq
  <2> QED
    BY <1>0, <2>2, <2>3
<1>4. j = Len(s) + 1
  BY <1>0, <1>1, <1>3 DEF WordAt
<1>5. Left(s) = <<>>
  <2>1. j \in Int /\ Len(s) \in Int /\ Len(s) < j
    BY <1>0, <1>4
  <2> QED
    BY <1>2, <2>1, SubSeqEmpty
<1>6. Word(<<>>) = <<>>
  <2>1. <<>> \in Seq(Cell) /\ Len(<<>>) = 0
    BY EmptySeq
  <2>2. WordAt(<<>>, 1, 1)
    BY <2>1 DEF WordAt
  <2>3. Word(<<>>) = SubSeq(<<>>, 1, 1 - 1)
    BY <2>1, <2>2, WordIs
  <2>4. 1 \in Int /\ 1 - 1 \in Int /\ 1 - 1 < 1
    OBVIOUS
  <2> QED
    BY <2>3, <2>4, SubSeqEmpty
<1> QED
  BY <1>5, <1>6

\* A complete line is the same command, whatever follows.
LEMMA CommandLocal ==
  ASSUME NEW line \in Seq(Cell), NEW rest \in Seq(Cell),
         line # <<>>, Last(line) = Sep, IsComplete(line)
  PROVE  Command(line \o rest) = Command(line)
<1>1. Word(line) # <<>>
  <2>1. \A v \in Verb : <<Spell(v)>> # <<>>
    OBVIOUS
  <2> QED
    BY <2>1, NoWord DEF IsComplete
<1>2. /\ Word(line \o rest) = Word(line) /\ Left(line \o rest) = Left(line) \o rest
      /\ Left(line) # <<>> /\ Last(Left(line)) = Sep /\ Left(line) \in Seq(Cell)
  BY <1>1, WordLocal, WordType
<1> DEFINE u == line \o rest
           w == Word(line)
           verb == {v \in Verb : w = <<Spell(v)>>}
           v    == CHOOSE v \in verb : TRUE
<1>3. ASSUME NEW t \in {line, u}
      PROVE  Command(t) = IF w = <<Port>> THEN PortCommand(Left(t))
                          ELSE IF verb = {} THEN None("UNKNOWN")
                          ELSE [None(v) EXCEPT !.argument =
                                  IF v \in ArgumentVerb THEN Word(Left(t)) ELSE <<>>]
  <2>1. Word(t) = w
    BY <1>2
  <2> QED
    BY <2>1 DEF Command
<1>4. CASE Word(Left(line)) # <<>>
  <2>1. /\ Word(Left(line) \o rest) = Word(Left(line))
        /\ Left(Left(line) \o rest) = Left(Left(line)) \o rest
        /\ Left(Left(line)) # <<>> /\ Left(Left(line)) \in Seq(Cell)
    BY <1>2, <1>4, WordLocal, WordType
  <2>2. Left(Left(line)) \o rest # <<>>
    BY <2>1, ConcatEqualIffEmpty
  <2>3. PortCommand(Left(line) \o rest) = PortCommand(Left(line))
    BY <2>1, <2>2 DEF PortCommand
  <2> HIDE DEF w, verb, v, u
  <2>4. Word(Left(u)) = Word(Left(line)) /\ PortCommand(Left(u)) = PortCommand(Left(line))
    BY <1>2, <2>1, <2>3 DEF u
  <2>5. Command(u) = Command(line)
    BY <1>3, <2>4
  <2> QED
    BY <2>5 DEF u
<1>5. CASE Word(Left(line)) = <<>>
  <2>1. PICK x \in Verb \ ArgumentVerb : w = <<Spell(x)>>
    BY <1>5 DEF IsComplete
  <2>2. w # <<Port>>
    BY <2>1, LineAssumption DEF Spell, Port
  <2>3. verb = {x}
    BY <2>1 DEF Spell
  <2>4. v \notin ArgumentVerb /\ verb # {}
    BY <2>3
  <2> HIDE DEF w, verb, v
  <2> QED
    BY <1>3, <2>2, <2>4
<1> QED
  BY <1>4, <1>5

\* What is in front of a zero byte begins with what the stream begins with.
LEMMA PrefixKept ==
  ASSUME NEW s \in Seq(Cell), NEW line \in Seq(Cell), IsPrefix(line, s),
         \A k \in DOMAIN line : line[k] # Nul
  PROVE  \E rest \in Seq(Cell) : Before(s, Nul) = line \o rest
<1> DEFINE n == Len(line)
<1>0. /\ Len(s) \in Nat /\ n \in Nat /\ n <= Len(s) /\ DOMAIN line = 1 .. n
      /\ SubSeq(line, 1, n) = line /\ SubSeq(s, 1, n) = line
  BY LenProperties, SubSeqFull DEF IsPrefix
<1> HIDE DEF n
<1>1. PICK i \in 1 .. Len(s) + 1 : (i <= Len(s) => s[i] = Nul) /\ Before(s, Nul) = SubSeq(s, 1, i - 1)
  BY Parted
<1>2. \A k \in 1 .. n : line[k] = s[k]
  <2>1. 1 \in 1 .. Len(s) + 1 /\ n \in 1 - 1 .. Len(s) /\ n - 1 + 1 = n
    BY <1>0
  <2>2. \A k \in 1 .. n : SubSeq(s, 1, n)[k] = s[1 + k - 1] /\ 1 + k - 1 = k
    BY <1>0, <2>1, Slice
  <2> QED
    BY <1>0, <2>2
<1>3. n < i
  BY <1>0, <1>1, <1>2
<1>4. SubSeq(s, 1, n) \o SubSeq(s, n + 1, i - 1) = SubSeq(s, 1, i - 1)
  <2>1. 1 \in 1 .. Len(s) + 1 /\ n \in 1 - 1 .. Len(s) /\ i - 1 \in n .. Len(s)
    BY <1>0, <1>3
  <2> QED
    BY <2>1, ConcatAdjacentSubSeq
<1>5. SubSeq(s, n + 1, i - 1) \in Seq(Cell)
  <2>1. n + 1 \in 1 .. Len(s) + 1 /\ i - 1 \in (n + 1) - 1 .. Len(s)
    BY <1>0, <1>3
  <2> QED
    BY <2>1, Slice
<1> QED
  BY <1>0, <1>1, <1>4, <1>5

-----------------------------------------------------------------------------
(* The numbers of a PORT. *)

\* A cell with a number is read as that number.
LEMMA OneNumber ==
  ASSUME NEW h \in Nat
  PROVE  IsNumber(<<<<"digit", h>>>>) /\ Number(<<<<"digit", h>>>>) = h
<1> DEFINE s == <<<<"digit", h>>>>
           I == {k \in 1 .. Len(s) : s[k][1] # "digit"}
<1>1. s \in Seq(Cell) /\ Len(s) = 1 /\ s[1] = <<"digit", h>>
  BY DEF Cell
<1>2. I = {}
  BY <1>1
<1>3. Digits(s) = IF (IF I # {} THEN Min(I) ELSE 0) = 0 THEN s
                  ELSE SubSeq(s, 1, (IF I # {} THEN Min(I) ELSE 0) - 1)
  BY DEF Digits, SelectInSeq
<1>4. Digits(s) = s
  BY <1>2, <1>3
<1>5. Number(s) = h
  <2>1. Len(Digits(s)) = 1 => Number(s) = Digits(s)[1][2]
    BY <1>1, NumberIs
  <2> QED
    BY <1>1, <1>4, <2>1
<1>6. s # <<>>
  OBVIOUS
<1> QED
  BY <1>4, <1>5, <1>6 DEF IsNumber

\* Two numbers and a comma between them.
LEMMA TwoNumbers ==
  ASSUME NEW h \in Nat, NEW l \in Nat
  PROVE  LET t == <<<<"digit", h>>, Comma, <<"digit", l>>>>
         IN  /\ t \in Seq(Cell) /\ t # <<>>
             /\ Before(t, Comma) = <<<<"digit", h>>>>
             /\ After(t, Comma) = <<<<"digit", l>>>>
<1> DEFINE t == <<<<"digit", h>>, Comma, <<"digit", l>>>>
<1>1. /\ t \in Seq(Cell) /\ t # <<>> /\ Len(t) = 3
      /\ t[1] = <<"digit", h>> /\ t[2] = Comma /\ t[3] = <<"digit", l>>
  BY DEF Cell, Comma
<1>2. t[1] # Comma
  BY <1>1 DEF Comma
<1> HIDE DEF t
<1>3. PICK i \in 1 .. 4 :
        /\ \A k \in 1 .. i - 1 : t[k] # Comma
        /\ i <= 3 => t[i] = Comma
        /\ Before(t, Comma) = SubSeq(t, 1, i - 1)
        /\ After(t, Comma) = SubSeq(t, i + 1, 3)
  <2>1. Len(t) + 1 = 4
    BY <1>1
  <2>2. \E i \in 1 .. Len(t) + 1 :
          /\ \A k \in 1 .. i - 1 : t[k] # Comma
          /\ i <= Len(t) => t[i] = Comma
          /\ Before(t, Comma) = SubSeq(t, 1, i - 1)
          /\ After(t, Comma) = SubSeq(t, i + 1, Len(t))
    BY <1>1, Parted
  <2> QED
    BY <1>1, <2>1, <2>2, Zenon
<1>4. i = 2
  <2>1. i # 1
    <3>1. CASE i = 1
      BY <1>2, <1>3, <3>1
    <3> QED
      BY <3>1
  <2>2. ~ 2 \in 1 .. i - 1
    BY <1>1, <1>3
  <2> QED
    BY <1>3, <2>1, <2>2
<1>5. SubSeq(t, 1, 1) = <<<<"digit", h>>>> /\ SubSeq(t, 3, 3) = <<<<"digit", l>>>>
  <2>1. /\ SubSeq(t, 1, 1) \in Seq(Cell) /\ Len(SubSeq(t, 1, 1)) = 1 - 1 + 1
        /\ SubSeq(t, 1, 1)[1] = t[1 + 1 - 1]
    <3>1. 1 \in 1 .. Len(t) + 1 /\ 1 \in 1 - 1 .. Len(t)
      BY <1>1
    <3> QED
      BY <1>1, <3>1, Slice
  <2>2. /\ SubSeq(t, 3, 3) \in Seq(Cell) /\ Len(SubSeq(t, 3, 3)) = 3 - 3 + 1
        /\ SubSeq(t, 3, 3)[1] = t[3 + 1 - 1]
    <3>1. 3 \in 1 .. Len(t) + 1 /\ 3 \in 3 - 1 .. Len(t) /\ 1 \in 1 .. 3 - 3 + 1
      BY <1>1
    <3> QED
      BY <1>1, <3>1, Slice
  <2>3. ASSUME NEW d \in Cell, NEW u \in Seq(Cell), Len(u) = 1, u[1] = d
        PROVE  u = <<d>>
    <3>1. <<d>> \in Seq(Cell) /\ Len(<<d>>) = 1 /\ <<d>>[1] = d
      OBVIOUS
    <3> QED
      BY <2>3, <3>1, SeqEqual
  <2>4. <<"digit", h>> \in Cell /\ <<"digit", l>> \in Cell
    BY DEF Cell
  <2>5. SubSeq(t, 1, 1) = <<<<"digit", h>>>>
    <3>1. Len(SubSeq(t, 1, 1)) = 1 /\ SubSeq(t, 1, 1)[1] = <<"digit", h>>
      BY <1>1, <2>1
    <3> QED
      BY <2>1, <2>3, <2>4, <3>1
  <2>6. SubSeq(t, 3, 3) = <<<<"digit", l>>>>
    <3>1. Len(SubSeq(t, 3, 3)) = 1 /\ SubSeq(t, 3, 3)[1] = <<"digit", l>>
      BY <1>1, <2>2
    <3> QED
      BY <2>2, <2>3, <2>4, <3>1
  <2> QED
    BY <2>5, <2>6
<1>6. Before(t, Comma) = <<<<"digit", h>>>> /\ After(t, Comma) = <<<<"digit", l>>>>
  <2>1. i - 1 = 1 /\ i + 1 = 3
    BY <1>4
  <2> QED
    BY <1>3, <1>5, <2>1
<1>7. t \in Seq(Cell) /\ t # <<>>
  BY <1>1
<1> QED
  BY <1>6, <1>7 DEF t

\* A PORT whose address is followed by two bytes is the port that they make.
LEMMA PortOfBytes ==
  ASSUME NEW s \in Seq(Cell), Left(s) # <<>>, NEW h \in 0 .. Byte - 1, NEW l \in 0 .. Byte - 1,
         Rest(Word(s), AddressFields) = <<<<"digit", h>>, Comma, <<"digit", l>>>>
  PROVE  PortCommand(s).verb = "PORT" /\ PortCommand(s).port = h * Byte + l
<1>0. Byte \in Nat /\ h \in Nat /\ l \in Nat /\ l < Byte
  <2>1. Two[ByteBits] \in Nat \ {0}
    BY PowerOfTwo, LineAssumption
  <2>2. Byte \in Nat
    BY <2>1 DEF Byte
  <2> QED
    BY <2>2
<1> DEFINE a     == Word(s)
           rest  == Rest(a, AddressFields)
           high  == Before(rest, Comma)
           after == After(rest, Comma)
           low   == IF after = <<>> THEN high ELSE after
           arg   == SubSeq(a, 1, Len(a) - Len(rest) - 1)
           port  == PortNumber(Number(high), Number(low))
<1>1. rest # <<>> /\ high = <<<<"digit", h>>>> /\ after = <<<<"digit", l>>>>
  BY <1>0, TwoNumbers
<1>2. low = <<<<"digit", l>>>>
  <2>1. <<<<"digit", l>>>> # <<>>
    OBVIOUS
  <2> QED
    BY <1>1, <2>1
<1>3. IsNumber(high) /\ IsNumber(low) /\ Number(high) = h /\ Number(low) = l
  BY <1>0, <1>1, <1>2, OneNumber
<1>4. PortCommand(s) = [verb |-> "PORT", argument |-> arg, port |-> port]
  <2>1. PortCommand(s) = IF Left(s) = <<>> \/ rest = <<>> THEN None("INCOMPLETE")
                         ELSE IF ~ IsNumber(high) \/ ~ IsNumber(low) THEN None("throws")
                         ELSE [verb |-> "PORT", argument |-> arg, port |-> port]
    BY DEF PortCommand
  <2> HIDE DEF arg, port, high, low, after, rest
  <2> QED
    BY <1>1, <1>3, <2>1
<1>5. port = h * Byte + l
  <2>1. port = BitOr[<<h * Byte, l>>]
    BY <1>3 DEF PortNumber
  <2>2. BitOr[<<h * Two[ByteBits], l>>] = h * Two[ByteBits] + l
    BY <1>0, DisjointBits, LineAssumption DEF Byte
  <2> HIDE DEF port
  <2> QED
    BY <2>1, <2>2 DEF Byte
<1> HIDE DEF arg, port
<1> QED
  BY <1>4, <1>5

-----------------------------------------------------------------------------
(* The invariants. *)

LEMMA InitTypeOK == Init => TypeOK
<1> SUFFICES ASSUME Init PROVE TypeOK
  OBVIOUS
<1>1. <<>> \in Seq(Cell) /\ Len(<<>>) = 0
  BY EmptySeq
<1> QED
  BY <1>1, LineAssumption DEF Init, TypeOK, None

LEMMA ClientWriteTypeOK ==
  ASSUME TypeOK, NEW line \in Line, ClientWrite(line)
  PROVE  TypeOK'
<1>1. line \in Seq(Cell) /\ wire \in Seq(Cell)
  BY LineAssumption DEF TypeOK
<1>2. wire' \in Seq(Cell) /\ Len(wire') = Len(wire) + Len(line)
  BY <1>1, ConcatProperties DEF ClientWrite
<1>3. Len(wire') <= MaxWire
  BY <1>2 DEF ClientWrite
<1> QED
  BY <1>2, <1>3 DEF TypeOK, ClientWrite

\* What a pull receives and stores: buffer and wire stay streams, the buffer keeps its
\* length, and begins with what was received.
LEMMA Pulled ==
  ASSUME TypeOK, Pull
  PROVE  /\ chunk' \in Seq(Cell) /\ chunk' # <<>> /\ Len(chunk') <= BufferSize
         /\ wire' \in Seq(Cell) /\ Len(wire') <= MaxWire
         /\ buffer' \in Seq(Cell) /\ Len(buffer') = Len(buffer)
         /\ IsPrefix(chunk', buffer')
<1>0. /\ wire \in Seq(Cell) /\ buffer \in Seq(Cell) /\ Len(wire) \in Nat /\ Len(buffer) \in Nat
      /\ Len(wire) <= MaxWire /\ Len(buffer) > BufferSize /\ BufferSize \in Nat /\ MaxWire \in Nat
  BY LineAssumption, LenProperties DEF TypeOK
<1>1. PICK n \in 1 .. BufferSize :
        n <= Len(wire) /\ chunk' = SubSeq(wire, 1, n) /\ wire' = SubSeq(wire, n + 1, Len(wire))
  BY DEF Pull
<1>2. chunk' \in Seq(Cell) /\ Len(chunk') = n
  <2>1. 1 \in 1 .. Len(wire) + 1 /\ n \in 1 - 1 .. Len(wire) /\ n - 1 + 1 = n
    BY <1>0, <1>1
  <2> QED
    BY <1>0, <1>1, <2>1, Slice
<1>3. wire' \in Seq(Cell) /\ Len(wire') <= MaxWire
  <2>1. n + 1 \in 1 .. Len(wire) + 1 /\ Len(wire) \in (n + 1) - 1 .. Len(wire)
        /\ Len(wire) - (n + 1) + 1 <= MaxWire
    BY <1>0, <1>1
  <2> QED
    BY <1>0, <1>1, <2>1, Slice
<1> DEFINE tail == SubSeq(buffer, n + 1, Len(buffer))
<1>4. tail \in Seq(Cell) /\ Len(tail) = Len(buffer) - n
  <2>1. n + 1 \in 1 .. Len(buffer) + 1 /\ Len(buffer) \in (n + 1) - 1 .. Len(buffer)
        /\ Len(buffer) - (n + 1) + 1 = Len(buffer) - n
    BY <1>0, <1>1
  <2> QED
    BY <1>0, <2>1, Slice
<1>5. buffer' = chunk' \o tail
  BY <1>2 DEF Pull, BufferAfter
<1> HIDE DEF tail
<1>6. buffer' \in Seq(Cell) /\ Len(buffer') = Len(buffer)
  <2>1. buffer' \in Seq(Cell) /\ Len(buffer') = Len(chunk') + Len(tail)
    BY <1>2, <1>4, <1>5, ConcatProperties
  <2> QED
    BY <1>0, <1>1, <1>2, <1>4, <2>1
<1>7. IsPrefix(chunk', buffer')
  <2>1. n \in 1 .. Len(chunk') /\ 1 \in 1 .. Len(chunk')
    BY <1>0, <1>1, <1>2
  <2>2. SubSeq(buffer', 1, n) = SubSeq(chunk', 1, n)
    BY <1>2, <1>4, <1>5, <2>1, SubSeqOfConcat1
  <2> QED
    BY <1>0, <1>1, <1>2, <1>6, <2>2 DEF IsPrefix
<1>8. chunk' # <<>>
  BY <1>1, <1>2, EmptySeq
<1> QED
  BY <1>1, <1>2, <1>3, <1>6, <1>7, <1>8

LEMMA PullTypeOK ==
  ASSUME TypeOK, Pull
  PROVE  TypeOK'
<1>1. Before(buffer', Nul) \in Seq(Cell)
  BY Pulled, PartType
<1>2. /\ parsed' \in [verb : Verb \union {"PORT", "UNKNOWN", "INCOMPLETE", "throws", "none"},
                      argument : Seq(Cell), port : Int]
      /\ parsed'.verb = "PORT" <=> parsed'.port # -1
  BY <1>1, CommandType DEF Pull
<1>3. pulls' \in 0 .. MaxPulls
  BY LineAssumption DEF Pull, TypeOK
<1>4. \E g \in Garbage : Len(buffer') = Len(g)
  BY Pulled DEF TypeOK
<1> QED
  BY <1>2, <1>3, <1>4, Pulled DEF TypeOK

\* Streams are streams, the buffer keeps its length, and a command is one of ftp_command's.
THEOREM TypeCorrect == Spec => []TypeOK
<1>1. TypeOK /\ [Next]_vars => TypeOK'
  <2> SUFFICES ASSUME TypeOK, [Next]_vars PROVE TypeOK'
    OBVIOUS
  <2>1. CASE Pull
    BY <2>1, PullTypeOK
  <2>2. ASSUME NEW line \in Line, ClientWrite(line)
        PROVE  TypeOK'
    BY <2>2, ClientWriteTypeOK
  <2>3. CASE UNCHANGED vars
    BY <2>3 DEF TypeOK, vars
  <2> QED
    BY <2>1, <2>2, <2>3 DEF Next
<1> QED
  BY <1>1, InitTypeOK, PTL DEF Spec

\* What was pulled stands at the beginning of the buffer, and the buffer was parsed.
ReadInv ==
  chunk # <<>> => IsPrefix(chunk, buffer) /\ parsed = Command(Before(buffer, Nul))

LEMMA ReadHolds == Spec => []ReadInv
<1>1. Init => ReadInv
  BY DEF Init, ReadInv
<1>2. TypeOK /\ ReadInv /\ [Next]_vars => ReadInv'
  <2> SUFFICES ASSUME TypeOK, ReadInv, [Next]_vars PROVE ReadInv'
    OBVIOUS
  <2>1. CASE Pull
    <3>1. IsPrefix(chunk', buffer') /\ parsed' = Command(Before(buffer', Nul))
      BY <2>1, Pulled DEF Pull
    <3> QED
      BY <3>1 DEF ReadInv
  <2>2. ASSUME NEW line \in Line, ClientWrite(line)
        PROVE  ReadInv'
    BY <2>2 DEF ReadInv, ClientWrite
  <2>3. CASE UNCHANGED vars
    BY <2>3 DEF ReadInv, vars
  <2> QED
    BY <2>1, <2>2, <2>3 DEF Next
<1> QED
  BY <1>1, <1>2, TypeCorrect, PTL DEF Spec

LEMMA PrefixTransitive ==
  ASSUME NEW r \in Seq(Cell), NEW s \in Seq(Cell), NEW t \in Seq(Cell),
         IsPrefix(r, s), IsPrefix(s, t)
  PROVE  IsPrefix(r, t)
<1>0. Len(r) \in Nat /\ Len(s) \in Nat /\ Len(t) \in Nat /\ Len(r) <= Len(s) /\ Len(s) <= Len(t)
  BY LenProperties DEF IsPrefix
<1>1. SubSeq(s, 1, Len(r)) = SubSeq(t, 1, Len(r))
  <2>1. SubSeq(SubSeq(s, 1, Len(s)), 1, Len(r)) = SubSeq(s, 1 + 1 - 1, 1 + Len(r) - 1)
    <3>1. /\ 1 \in 1 .. Len(s) + 1 /\ Len(s) \in 1 - 1 .. Len(s)
          /\ 1 \in 1 .. Len(s) - 1 + 2 /\ Len(r) \in 1 - 1 .. Len(s) - 1 + 1
      BY <1>0
    <3> QED
      BY <3>1, SliceOfSlice
  <2>2. SubSeq(SubSeq(t, 1, Len(s)), 1, Len(r)) = SubSeq(t, 1 + 1 - 1, 1 + Len(r) - 1)
    <3>1. /\ 1 \in 1 .. Len(t) + 1 /\ Len(s) \in 1 - 1 .. Len(t)
          /\ 1 \in 1 .. Len(s) - 1 + 2 /\ Len(r) \in 1 - 1 .. Len(s) - 1 + 1
      BY <1>0
    <3> QED
      BY <3>1, SliceOfSlice
  <2>3. 1 + 1 - 1 = 1 /\ 1 + Len(r) - 1 = Len(r)
    BY <1>0
  <2> QED
    BY <2>1, <2>2, <2>3 DEF IsPrefix
<1> QED
  BY <1>0, <1>1 DEF IsPrefix

\* A complete line at the beginning of a pull is the command that it is alone.
LEMMA ReadsLine ==
  ASSUME TypeOK, ReadInv, NEW line \in Line, IsPrefix(line, chunk), IsComplete(line)
  PROVE  parsed = Command(line)
<1>1. /\ line \in Seq(Cell) /\ line # <<>> /\ Last(line) = Sep
      /\ chunk \in Seq(Cell) /\ buffer \in Seq(Cell)
  BY LineAssumption DEF TypeOK
<1>2. chunk # <<>>
  <2>1. Len(line) \in Nat \ {0} /\ Len(line) <= Len(chunk)
    BY <1>1, EmptySeq DEF IsPrefix
  <2> QED
    BY <2>1, EmptySeq
<1>3. IsPrefix(line, buffer)
  BY <1>1, <1>2, PrefixTransitive DEF ReadInv
<1>4. PICK rest \in Seq(Cell) : Before(buffer, Nul) = line \o rest
  BY <1>1, <1>3, PrefixKept DEF IsComplete
<1> QED
  BY <1>1, <1>2, <1>4, CommandLocal DEF ReadInv

\* A complete line means what it says, whatever was left in the buffer and whatever was
\* received with it (client_session_thread parses the buffer, not what it received).
THEOREM LeftoversIgnored == Spec => []LeftoverIgnored
<1>1. TypeOK /\ ReadInv => LeftoverIgnored
  BY ReadsLine DEF LeftoverIgnored
<1> QED
  BY <1>1, TypeCorrect, ReadHolds, PTL

\* The shift and the bitwise or of PORT make of two bytes the number whose bytes they are,
\* for bytes of any number of bits.
THEOREM PortsAsSent == Spec => []PortAsSent
<1>1. TypeOK /\ ReadInv => PortAsSent
  <2> SUFFICES ASSUME TypeOK, ReadInv, NEW line \in Line, IsPrefix(line, chunk), IsComplete(line),
                      Word(line) = <<Port>>, NEW h \in 0 .. Byte - 1, NEW l \in 0 .. Byte - 1,
                      Rest(Word(Left(line)), AddressFields) = <<<<"digit", h>>, Comma, <<"digit", l>>>>
               PROVE  parsed.verb = "PORT" /\ parsed.port = h * Byte + l
    BY DEF PortAsSent
  <2>1. line \in Seq(Cell) /\ line # <<>> /\ Last(line) = Sep
    BY LineAssumption
  <2>2. parsed = PortCommand(Left(line))
    BY ReadsLine DEF Command
  <2>3. Left(line) \in Seq(Cell) /\ Left(line) # <<>> /\ Last(Left(line)) = Sep
    <3>1. <<Port>> # <<>>
      OBVIOUS
    <3> QED
      BY <2>1, <3>1, EmptySeq, WordLocal, WordType
  <2>4. Word(Left(line)) # <<>>
    <3>1. AddressFields \in Nat /\ <<>> \in Seq(Cell) /\ <<<<"digit", h>>, Comma, <<"digit", l>>>> # <<>>
      BY LineAssumption, EmptySeq
    <3> QED
      BY <3>1, RestType
  <2>5. Left(Left(line)) # <<>>
    BY <2>3, <2>4, EmptySeq, WordLocal
  <2> QED
    BY <2>2, <2>3, <2>5, PortOfBytes
<1> QED
  BY <1>1, TypeCorrect, ReadHolds, PTL

=============================================================================
