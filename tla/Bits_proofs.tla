---------------------------- MODULE Bits_proofs -----------------------------
(***************************************************************************)
(* What the bit streams of Binary and Bits are, for numbers and atoms of   *)
(* any size: the low bits of a number spell it, and rub reads what mat     *)
(* wrote.                                                                  *)
(*   Induction over the natural numbers and recursive functions are taken  *)
(* from the well-foundedness of < alone, with sets for predicates.         *)
(***************************************************************************)
EXTENDS Bits, TLAPS, WellFoundedInduction, SequenceTheorems

-----------------------------------------------------------------------------
(* Induction and recursion. *)

\* The relation of the library's well-foundedness theorem is <.
LEMMA LessIsRelated == \A m, n \in Nat : m < n => <<m, n>> \in OpToRel(<, Nat)
BY Zenon DEF OpToRel

\* A set of numbers that is not empty has a least one.
LEMMA LeastNatural ==
    ASSUME NEW T, T \subseteq Nat, T # {}
    PROVE  \E m \in T : \A n \in T : m <= n
<1>1. PICK m \in T : \A n \in T : <<n, m>> \notin OpToRel(<, Nat)
  BY NatLessThanWellFounded, WFMin, Zenon
<1>2. \A n \in T : ~(n < m)
  BY <1>1, LessIsRelated, Zenon
<1> QED BY <1>2, SMT

\* Induction: a set that has 0 and every successor has every number.
LEMMA NaturalInduction ==
    ASSUME NEW T, 0 \in T, \A n \in Nat : n \in T => n + 1 \in T
    PROVE  \A n \in Nat : n \in T
<1>1. SUFFICES ASSUME Nat \ T # {} PROVE FALSE
  OBVIOUS
<1>2. PICK m \in Nat \ T : \A n \in Nat \ T : m <= n
  BY <1>1, LeastNatural
<1>3. m # 0 /\ m - 1 \in Nat
  BY <1>2
<1>4. m - 1 \in T
  BY <1>2, <1>3
<1> QED BY <1>2, <1>3, <1>4

\* Recursion: a first value and steps determine a function.
Steps(T) == [Nat -> [T -> T]]
\* f is what repeating step makes of base.
Iterates(f, T, base, step) ==
    f \in [Nat -> T] /\ f[0] = base /\ \A n \in Nat : f[n + 1] = step[n][f[n]]

\* A function defined by recursion over the numbers exists.
LEMMA Recursion ==
    ASSUME NEW T, NEW base \in T, NEW step \in Steps(T)
    PROVE  \E f : Iterates(f, T, base, step)
<1> USE DEF Steps
<1> DEFINE Follows(f, n) == /\ f \in [0..n -> T] /\ f[0] = base
                            /\ \A i \in 0..(n - 1) : f[i + 1] = step[i][f[i]]
           T1 == {n \in Nat : \E f : Follows(f, n)}
           T2(f, g, n) == {i \in Nat : i <= n => f[i] = g[i]}
<1>1. \A n \in Nat : n \in T1
  <2>1. 0 \in T1
    <3>1. Follows([i \in 0..0 |-> base], 0)
      OBVIOUS
    <3> QED BY <3>1
  <2>2. ASSUME NEW n \in Nat, n \in T1 PROVE n + 1 \in T1
    <3>1. PICK f : Follows(f, n)
      BY <2>2
    <3>2. step[n][f[n]] \in T
      BY <3>1
    <3> DEFINE g == [i \in 0..(n + 1) |-> IF i = n + 1 THEN step[n][f[n]] ELSE f[i]]
    <3>3. Follows(g, n + 1)
      BY <3>1, <3>2
    <3> HIDE DEF Follows, g
    <3> QED BY <3>3
  <2> QED BY <2>1, <2>2, NaturalInduction
<1>2. ASSUME NEW n \in Nat, NEW m \in Nat, n <= m, NEW f, NEW g, Follows(f, n), Follows(g, m)
      PROVE  \A i \in 0..n : f[i] = g[i]
  <2>1. 0 \in T2(f, g, n)
    BY <1>2
  <2>2. ASSUME NEW i \in Nat, i \in T2(f, g, n) PROVE i + 1 \in T2(f, g, n)
    <3>1. SUFFICES ASSUME i + 1 <= n PROVE f[i + 1] = g[i + 1]
      OBVIOUS
    <3>2. i \in 0..(n - 1) /\ i \in 0..(m - 1) /\ f[i] = g[i]
      BY <1>2, <2>2, <3>1
    <3> QED BY <1>2, <3>2
  <2>3. \A i \in Nat : i \in T2(f, g, n)
    BY <2>1, <2>2, NaturalInduction
  <2> QED BY <2>3
<1> DEFINE F == [n \in Nat |-> CHOOSE f : Follows(f, n)]
           h == [n \in Nat |-> F[n][n]]
<1>3. ASSUME NEW n \in Nat PROVE Follows(F[n], n)
  <2>1. \E f : Follows(f, n)
    BY <1>1
  <2> HIDE DEF Follows
  <2> QED BY <2>1
<1> HIDE DEF F
<1>4. ASSUME NEW n \in Nat PROVE F[n][n] \in T
  BY <1>3
<1>5. h \in [Nat -> T] /\ h[0] = base
  BY <1>3, <1>4
<1>6. ASSUME NEW n \in Nat PROVE h[n + 1] = step[n][h[n]]
  <2>1. Follows(F[n], n) /\ Follows(F[n + 1], n + 1)
    BY <1>3
  <2>2. F[n][n] = F[n + 1][n]
    <3>1. n <= n + 1 /\ n \in 0..n /\ n + 1 \in Nat
      OBVIOUS
    <3> HIDE DEF Follows
    <3> QED BY <1>2, <2>1, <3>1
  <2>3. F[n + 1][n + 1] = step[n][F[n + 1][n]]
    <3>1. n \in 0..((n + 1) - 1)
      OBVIOUS
    <3> QED BY <2>1, <3>1
  <2> QED BY <2>2, <2>3
<1> QED BY <1>5, <1>6 DEF Iterates

-----------------------------------------------------------------------------
(* Binary. *)

\* Shifts is defined: n >> 0 is n, and each shift halves the one before.
LEMMA ShiftsStep ==
    ASSUME NEW n \in Nat
    PROVE  /\ Shifts(n) \in [Nat -> Nat]
           /\ Shifts(n)[0] = n
           /\ \A i \in Nat : Shifts(n)[i + 1] = Shifts(n)[i] \div 2
<1> DEFINE Halves(s) == s = [i \in Nat |-> IF i = 0 THEN n ELSE s[i - 1] \div 2]
           step == [i \in Nat |-> [x \in Nat |-> x \div 2]]
<1>1. step \in Steps(Nat)
  BY DEF Steps
<1>2. PICK f : Iterates(f, Nat, n, step)
  <2> HIDE DEF step
  <2> QED BY <1>1, Recursion
<1>3. f \in [Nat -> Nat] /\ f[0] = n /\ \A i \in Nat : f[i + 1] = f[i] \div 2
  BY <1>2 DEF Iterates
<1>4. \A i \in Nat : i # 0 => f[i] = f[i - 1] \div 2
  <2> SUFFICES ASSUME NEW i \in Nat, i # 0 PROVE f[i] = f[i - 1] \div 2
    OBVIOUS
  <2>1. i - 1 \in Nat /\ (i - 1) + 1 = i
    OBVIOUS
  <2> QED BY <1>3, <2>1
<1>5. Halves(f)
  BY <1>3, <1>4
<1>6. Halves(Shifts(n))
  BY <1>5 DEF Shifts
<1> DEFINE T == {i \in Nat : Shifts(n)[i] \in Nat}
<1>7. Shifts(n)[0] = n /\ \A i \in Nat : Shifts(n)[i + 1] = Shifts(n)[i] \div 2
  <2> HIDE DEF Halves
  <2> DEFINE s == Shifts(n)
  <2>1. s = [i \in Nat |-> IF i = 0 THEN n ELSE s[i - 1] \div 2]
    BY <1>6 DEF Halves
  <2> HIDE DEF s
  <2>2. s[0] = n /\ \A i \in Nat : s[i + 1] = s[i] \div 2
    BY <2>1
  <2> QED BY <2>2 DEF s
<1>8. \A i \in Nat : i \in T
  <2>1. 0 \in T
    BY <1>7
  <2>2. \A i \in Nat : i \in T => i + 1 \in T
    BY <1>7
  <2> HIDE DEF T
  <2> QED BY <2>1, <2>2, NaturalInduction
<1>9. Shifts(n) = [i \in Nat |-> Shifts(n)[i]]
  BY <1>6
<1> QED BY <1>7, <1>8, <1>9

\* A function from 1..n is a sequence of length n.
LEMMA FunctionIsSequence ==
    ASSUME NEW S, NEW n \in Nat, NEW f \in [1..n -> S]
    PROVE  f \in Seq(S) /\ Len(f) = n /\ DOMAIN f = 1..n
OBVIOUS

\* NatOf, one bit at a time.
Tops(t, bits) ==
    /\ t \in [0..Len(bits) -> Nat] /\ t[0] = 0
    /\ \A i \in 0..(Len(bits) - 1) : t[i + 1] = bits[Len(bits) - i] + 2 * t[i]

\* NatOf is defined: it is the last of the values from the top bit down.
LEMMA NatOfTops ==
    ASSUME NEW bits \in Seq(Nat)
    PROVE  \E t : Tops(t, bits) /\ NatOf(bits) = t[Len(bits)]
<1> DEFINE len == Len(bits)
           IsTop(t) == t = [i \in 0..len |-> IF i = 0 THEN 0 ELSE bits[len + 1 - i] + 2 * t[i - 1]]
           step == [i \in Nat |-> [x \in Nat |-> IF i < len THEN bits[len - i] + 2 * x ELSE 0]]
<1>1. len \in Nat /\ \A i \in 1..len : bits[i] \in Nat
  OBVIOUS
<1>2. step \in Steps(Nat)
  <2>1. ASSUME NEW i \in Nat, NEW x \in Nat
        PROVE  (IF i < len THEN bits[len - i] + 2 * x ELSE 0) \in Nat
    <3>1. CASE i < len
      <4>1. len - i \in 1..len
        BY <1>1, <3>1
      <4> QED BY <1>1, <4>1
    <3>2. CASE ~(i < len)
      BY <3>2
    <3> QED BY <3>1, <3>2
  <2> QED BY <2>1 DEF Steps
<1>3. PICK f : Iterates(f, Nat, 0, step)
  <2> HIDE DEF step
  <2> QED BY <1>2, Recursion
<1>4. f \in [Nat -> Nat] /\ f[0] = 0 /\ \A i \in Nat : i < len => f[i + 1] = bits[len - i] + 2 * f[i]
  BY <1>3 DEF Iterates
<1> HIDE DEF step, len
<1> DEFINE g == [i \in 0..len |-> f[i]]
<1>5. ASSUME NEW i \in 0..len, i # 0 PROVE g[i] = bits[len + 1 - i] + 2 * g[i - 1]
  <2>1. i - 1 \in Nat /\ i - 1 < len /\ (i - 1) + 1 = i /\ len - (i - 1) = len + 1 - i
    BY <1>1, <1>5
  <2>2. f[(i - 1) + 1] = bits[len - (i - 1)] + 2 * f[i - 1]
    BY <1>4, <2>1
  <2> QED BY <1>1, <2>1, <2>2
<1>6. IsTop(g)
  BY <1>1, <1>4, <1>5
<1> DEFINE t == CHOOSE t : IsTop(t)
<1>7. IsTop(t)
  <2> HIDE DEF IsTop, g
  <2> QED BY <1>6
<1>8. NatOf(bits) = t[len]
  BY DEF NatOf, len
<1> HIDE DEF t, g
<1>9. t[0] = 0 /\ \A i \in 0..(len - 1) : t[i + 1] = bits[len - i] + 2 * t[i]
  <2>1. t[0] = 0
    BY <1>1, <1>7
  <2>2. ASSUME NEW i \in 0..(len - 1) PROVE t[i + 1] = bits[len - i] + 2 * t[i]
    <3>1. i + 1 \in 0..len /\ i + 1 # 0 /\ (i + 1) - 1 = i /\ len + 1 - (i + 1) = len - i
      BY <1>1
    <3> QED BY <1>7, <3>1
  <2> QED BY <2>1, <2>2
<1> DEFINE T == {i \in Nat : i <= len => t[i] \in Nat}
<1>10. \A i \in Nat : i \in T
  <2>1. 0 \in T
    BY <1>9
  <2>2. ASSUME NEW i \in Nat, i \in T PROVE i + 1 \in T
    <3>1. SUFFICES ASSUME i + 1 <= len PROVE t[i + 1] \in Nat
      OBVIOUS
    <3>2. i \in 0..(len - 1) /\ len - i \in 1..len /\ t[i] \in Nat
      BY <1>1, <2>2, <3>1
    <3>3. bits[len - i] \in Nat
      BY <1>1, <3>2
    <3> QED BY <1>9, <3>2, <3>3
  <2> HIDE DEF T
  <2> QED BY <2>1, <2>2, NaturalInduction
<1>11. t \in [0..len -> Nat]
  <2>1. \A i \in 0..len : t[i] \in Nat
    BY <1>1, <1>10
  <2>2. t = [i \in 0..len |-> t[i]]
    BY <1>7
  <2> QED BY <2>1, <2>2
<1>12. Tops(t, bits)
  BY <1>9, <1>11 DEF Tops, len
<1> QED BY <1>8, <1>12 DEF len

\* Bits spell a number.
LEMMA NatOfType ==
    ASSUME NEW bits \in Seq(Nat)
    PROVE  NatOf(bits) \in Nat
<1>1. PICK t : Tops(t, bits) /\ NatOf(bits) = t[Len(bits)]
  BY NatOfTops
<1>2. Len(bits) \in 0..Len(bits)
  OBVIOUS
<1> QED BY <1>1, <1>2 DEF Tops

\* One shift drops the bit that was put below x.
LEMMA HalfOfDouble ==
    ASSUME NEW b \in Bit, NEW x \in Nat
    PROVE  (b + 2 * x) \div 2 = x /\ (b + 2 * x) % 2 = b
BY DEF Bit

\* A number is its lowest bit and its half, doubled.
LEMMA DoubleOfHalf ==
    ASSUME NEW x \in Nat
    PROVE  x \div 2 \in Nat /\ x % 2 \in Bit /\ x = (x % 2) + 2 * (x \div 2)
BY DEF Bit

\* The low bits of a number are bits, as many as asked for.
LEMMA LowType ==
    ASSUME NEW n \in Nat, NEW width \in Nat
    PROVE  /\ Low(width, n) \in Seq(Bit) /\ Low(width, n) \in Seq(Nat)
           /\ Len(Low(width, n)) = width /\ DOMAIN Low(width, n) = 1..width
           /\ \A i \in 1..width : Low(width, n)[i] = Shifts(n)[i - 1] % 2
<1>1. \A i \in 1..width : i - 1 \in Nat /\ Shifts(n)[i - 1] \in Nat
  BY ShiftsStep
<1>2. \A i \in 1..width : Shifts(n)[i - 1] % 2 \in Bit
  BY <1>1 DEF Bit
<1>3. Low(width, n) \in [1..width -> Bit]
  BY <1>2 DEF Low
<1>4. Low(width, n) \in [1..width -> Nat]
  BY <1>2 DEF Low, Bit
<1> QED BY <1>3, <1>4 DEF Low

\* A number that fits is what its low bits spell.
LEMMA NatOfLow ==
    ASSUME NEW n \in Nat, NEW width \in Nat, Fits(n, width)
    PROVE  NatOf(Low(width, n)) = n
<1> DEFINE bits == Low(width, n)
           s == Shifts(n)
<1>1. /\ bits \in Seq(Nat) /\ Len(bits) = width
      /\ \A i \in 1..width : bits[i] = s[i - 1] % 2
  BY LowType
<1>2. /\ s \in [Nat -> Nat] /\ s[0] = n /\ s[width] = 0
      /\ \A i \in Nat : s[i + 1] = s[i] \div 2
  BY ShiftsStep DEF Fits
<1> HIDE DEF bits, s
<1>3. PICK t : Tops(t, bits) /\ NatOf(bits) = t[Len(bits)]
  BY <1>1, NatOfTops
<1> DEFINE T == {i \in Nat : i <= width => t[i] = s[width - i]}
<1>4. 0 \in T
  BY <1>2, <1>3 DEF Tops
<1>5. ASSUME NEW i \in Nat, i \in T PROVE i + 1 \in T
  <2>1. SUFFICES ASSUME i + 1 <= width PROVE t[i + 1] = s[width - (i + 1)]
    OBVIOUS
  <2> DEFINE j == width - (i + 1)
  <2>2. j \in Nat /\ j + 1 = width - i /\ width - i \in 1..width /\ i \in 0..(width - 1)
    BY <2>1
  <2>3. t[i + 1] = bits[width - i] + 2 * t[i]
    BY <1>1, <1>3, <2>2 DEF Tops
  <2>4. bits[width - i] = s[j] % 2
    BY <1>1, <2>2
  <2>5. t[i] = s[j] \div 2
    BY <1>2, <1>5, <2>2
  <2>6. s[j] = (s[j] % 2) + 2 * (s[j] \div 2)
    BY <1>2, <2>2, DoubleOfHalf
  <2> QED BY <2>3, <2>4, <2>5, <2>6
<1>6. width \in T
  <2> HIDE DEF T
  <2> QED BY <1>4, <1>5, NaturalInduction
<1> QED BY <1>1, <1>2, <1>3, <1>6 DEF bits

\* And the other way: the bits that spell a number are its low ones.
LEMMA LowOfNat ==
    ASSUME NEW bits \in Seq(Bit)
    PROVE  /\ Low(Len(bits), NatOf(bits)) = bits
           /\ Fits(NatOf(bits), Len(bits))
<1> DEFINE width == Len(bits)
           n == NatOf(bits)
           s == Shifts(n)
<1>1. bits \in Seq(Nat) /\ width \in Nat /\ \A i \in 1..width : bits[i] \in Bit
  BY DEF Bit
<1>2. n \in Nat
  BY <1>1, NatOfType
<1>3. PICK t : Tops(t, bits) /\ n = t[width]
  BY <1>1, NatOfTops
<1>4. s \in [Nat -> Nat] /\ s[0] = n /\ \A i \in Nat : s[i + 1] = s[i] \div 2
  BY <1>2, ShiftsStep
<1>5. /\ t \in [0..width -> Nat] /\ t[0] = 0
      /\ \A i \in 0..(width - 1) : t[i + 1] = bits[width - i] + 2 * t[i]
  BY <1>3 DEF Tops
<1> HIDE DEF s, n
<1>6. ASSUME NEW i \in 0..(width - 1)
      PROVE  t[i + 1] \div 2 = t[i] /\ t[i + 1] % 2 = bits[width - i]
  <2>1. width - i \in 1..width /\ i \in 0..width
    BY <1>1
  <2>2. bits[width - i] \in Bit /\ t[i] \in Nat /\ t[i + 1] = bits[width - i] + 2 * t[i]
    BY <1>1, <1>5, <2>1
  <2> QED BY <2>2, HalfOfDouble
<1> DEFINE T == {i \in Nat : i <= width => s[i] = t[width - i]}
<1>7. 0 \in T
  BY <1>1, <1>3, <1>4
<1>8. ASSUME NEW i \in Nat, i \in T PROVE i + 1 \in T
  <2>1. SUFFICES ASSUME i + 1 <= width PROVE s[i + 1] = t[width - (i + 1)]
    OBVIOUS
  <2>2. width - (i + 1) \in 0..(width - 1) /\ (width - (i + 1)) + 1 = width - i
    BY <1>1, <2>1
  <2>3. t[width - i] \div 2 = t[width - (i + 1)]
    BY <1>6, <2>2
  <2>4. s[i] = t[width - i]
    BY <1>1, <1>8, <2>1
  <2>5. s[i + 1] = s[i] \div 2
    BY <1>4
  <2> HIDE DEF width
  <2> QED BY <2>3, <2>4, <2>5
<1>9. \A i \in Nat : i \in T
  <2> HIDE DEF T
  <2> QED BY <1>7, <1>8, NaturalInduction
<1>10. Fits(n, width)
  BY SMTT(30), <1>1, <1>5, <1>9 DEF Fits, s
<1>11. ASSUME NEW i \in 1..width PROVE Low(width, n)[i] = bits[i]
  <2>1. Low(width, n)[i] = s[i - 1] % 2
    BY <1>1, <1>2, LowType DEF s
  <2>2. width - i \in 0..(width - 1) /\ (width - i) + 1 = width - (i - 1)
          /\ width - (width - i) = i /\ i - 1 \in Nat /\ i - 1 <= width
    BY <1>1
  <2> QED BY <1>6, <1>9, <2>1, <2>2
<1>12. Low(width, n) = bits
  <2>1. Low(width, n) \in Seq(Bit) /\ Len(Low(width, n)) = width
    BY <1>1, <1>2, LowType
  <2> QED BY <1>11, <2>1, SeqEqual
<1> QED BY <1>10, <1>12 DEF n

-----------------------------------------------------------------------------
(* Lengths. *)

\* Shifting further leaves less.
LEMMA FitsWider ==
    ASSUME NEW n \in Nat, NEW c \in Nat, Fits(n, c)
    PROVE  \A d \in Nat : d >= c => Fits(n, d) /\ Shifts(n)[d] = 0
<1> DEFINE s == Shifts(n)
           T == {i \in Nat : s[c + i] = 0}
<1>1. s \in [Nat -> Nat] /\ s[c] = 0 /\ \A i \in Nat : s[i + 1] = s[i] \div 2
  BY ShiftsStep DEF Fits
<1> HIDE DEF s
<1>2. 0 \in T
  BY <1>1
<1>3. ASSUME NEW i \in Nat, i \in T PROVE i + 1 \in T
  <2>1. c + i \in Nat /\ c + (i + 1) = (c + i) + 1 /\ s[c + i] = 0
    BY <1>3
  <2>2. s[(c + i) + 1] = 0
    BY <1>1, <2>1
  <2> QED BY <2>1, <2>2
<1>4. \A i \in Nat : i \in T
  <2> HIDE DEF T
  <2> QED BY <1>2, <1>3, NaturalInduction
<1>5. ASSUME NEW d \in Nat, d >= c PROVE s[d] = 0
  <2>1. d - c \in Nat /\ c + (d - c) = d
    BY <1>5
  <2> QED BY <1>4, <2>1
<1> QED BY <1>5 DEF Fits, s

\* A smaller number is smaller after every shift.
LEMMA ShiftsMonotone ==
    ASSUME NEW m \in Nat, NEW n \in Nat, m <= n
    PROVE  \A i \in Nat : Shifts(m)[i] <= Shifts(n)[i]
<1> DEFINE s == Shifts(m)
           t == Shifts(n)
           T == {i \in Nat : s[i] <= t[i]}
<1>1. /\ s \in [Nat -> Nat] /\ s[0] = m /\ \A i \in Nat : s[i + 1] = s[i] \div 2
      /\ t \in [Nat -> Nat] /\ t[0] = n /\ \A i \in Nat : t[i + 1] = t[i] \div 2
  BY ShiftsStep
<1> HIDE DEF s, t
<1>2. 0 \in T
  BY <1>1
<1>3. ASSUME NEW i \in Nat, i \in T PROVE i + 1 \in T
  <2>1. s[i] \in Nat /\ t[i] \in Nat /\ s[i] <= t[i]
    BY <1>1, <1>3
  <2>2. s[i + 1] = s[i] \div 2 /\ t[i + 1] = t[i] \div 2
    BY <1>1
  <2> QED BY <2>1, <2>2
<1>4. \A i \in Nat : i \in T
  <2> HIDE DEF T
  <2> QED BY <1>2, <1>3, NaturalInduction
<1> QED BY <1>4 DEF s, t

\* A number fits in as many bits as it is large.
LEMMA FitsItself ==
    ASSUME NEW n \in Nat
    PROVE  Fits(n, n)
<1> DEFINE s == Shifts(n)
           T == {i \in Nat : s[i] = 0 \/ s[i] + i <= n}
<1>1. s \in [Nat -> Nat] /\ s[0] = n /\ \A i \in Nat : s[i + 1] = s[i] \div 2
  BY ShiftsStep
<1> HIDE DEF s
<1>2. 0 \in T
  BY <1>1
<1>3. ASSUME NEW i \in Nat, i \in T PROVE i + 1 \in T
  <2>1. s[i] \in Nat /\ (s[i] = 0 \/ s[i] + i <= n)
    BY <1>1, <1>3
  <2>2. s[i + 1] = s[i] \div 2
    BY <1>1
  <2>3. s[i + 1] = 0 \/ s[i + 1] + (i + 1) <= n
    BY <2>1, <2>2
  <2> QED BY <2>3
<1>4. n \in T
  <2> HIDE DEF T
  <2> QED BY <1>2, <1>3, NaturalInduction
<1>5. s[n] \in Nat
  BY <1>1
<1>6. s[n] = 0
  BY <1>4, <1>5
<1> QED BY <1>6 DEF Fits, s

\* usize_bits: a number fits just the widths that are no less than its length.
LEMMA BitLengthFits ==
    ASSUME NEW n \in Nat
    PROVE  /\ BitLength(n) \in 0..n /\ BitLength(n) \in Nat
           /\ \A c \in Nat : Fits(n, c) <=> BitLength(n) <= c
<1> DEFINE T == {c \in Nat : Fits(n, c)}
           Least(c) == Fits(n, c) /\ (c > 0 => ~Fits(n, c - 1))
<1>1. n \in T
  BY FitsItself
<1>2. PICK m \in T : \A c \in T : m <= c
  BY <1>1, LeastNatural
<1>3. m \in 0..n /\ Least(m)
  BY <1>1, <1>2
<1>4. BitLength(n) = CHOOSE c \in 0..n : Least(c)
  BY DEF BitLength
<1>5. BitLength(n) \in 0..n /\ Least(BitLength(n))
  <2> HIDE DEF Least
  <2> QED BY <1>3, <1>4
<1> DEFINE b == BitLength(n)
<1> HIDE DEF b
<1>6. b \in 0..n /\ b \in Nat /\ Fits(n, b) /\ (b > 0 => ~Fits(n, b - 1))
  BY <1>5 DEF b
<1>7. ASSUME NEW c \in Nat, Fits(n, c), b > c PROVE FALSE
  <2>1. b - 1 \in Nat /\ b - 1 >= c /\ b > 0
    BY <1>6, <1>7
  <2> QED BY <1>6, <1>7, <2>1, FitsWider
<1>8. ASSUME NEW c \in Nat, b <= c PROVE Fits(n, c)
  BY <1>6, <1>8, FitsWider
<1> QED BY <1>6, <1>7, <1>8 DEF b

\* A greater number is no shorter.
LEMMA BitLengthMonotone ==
    ASSUME NEW m \in Nat, NEW n \in Nat, m <= n
    PROVE  BitLength(m) <= BitLength(n)
<1>1. BitLength(n) \in Nat /\ Fits(n, BitLength(n))
  BY BitLengthFits
<1>2. Shifts(n)[BitLength(n)] = 0
  BY <1>1 DEF Fits
<1>3. Shifts(m)[BitLength(n)] \in Nat /\ Shifts(m)[BitLength(n)] <= 0
  BY <1>1, <1>2, ShiftsStep, ShiftsMonotone
<1>4. Fits(m, BitLength(n))
  BY <1>3 DEF Fits
<1> QED BY <1>1, <1>4, BitLengthFits

\* The bits of a number: a one on top of the others.
LEMMA LowOnTop ==
    ASSUME NEW n \in Nat \ {0}
    PROVE  /\ BitLength(n) \in Nat \ {0}
           /\ Low(BitLength(n), n)[BitLength(n)] = 1
           /\ Low(BitLength(n), n) = Low(BitLength(n) - 1, n) \o <<1>>
<1> DEFINE b == BitLength(n)
           s == Shifts(n)
<1>1. b \in Nat /\ \A c \in Nat : Fits(n, c) <=> b <= c
  BY BitLengthFits
<1>2. s \in [Nat -> Nat] /\ s[0] = n /\ \A i \in Nat : s[i + 1] = s[i] \div 2
  BY ShiftsStep
<1>3. b # 0
  BY <1>1, <1>2 DEF Fits
<1>4. b - 1 \in Nat /\ (b - 1) + 1 = b
  BY <1>1, <1>3
<1>5. ~Fits(n, b - 1) /\ Fits(n, b)
  BY <1>1, <1>4
<1> HIDE DEF b, s
<1>6. s[b - 1] # 0 /\ s[b] = 0
  BY <1>5 DEF Fits, s
<1>7. s[b - 1] \in Nat /\ s[b - 1] \div 2 = 0
  BY <1>2, <1>4, <1>6
<1>8. s[b - 1] % 2 = 1
  BY <1>6, <1>7
<1>9. Low(b, n)[b] = 1
  BY <1>1, <1>3, <1>8 DEF Low, s
<1> DEFINE x == Low(b, n)
           y == Low(b - 1, n)
<1>10. /\ x \in Seq(Bit) /\ Len(x) = b /\ \A i \in 1..b : x[i] = s[i - 1] % 2
       /\ y \in Seq(Bit) /\ Len(y) = b - 1 /\ \A i \in 1..(b - 1) : y[i] = s[i - 1] % 2
  BY <1>1, <1>4, LowType DEF s
<1>11. x[b] = 1
  BY <1>9
<1> HIDE DEF x, y
<1>12. y \o <<1>> \in Seq(Bit) /\ Len(y \o <<1>>) = b
  BY <1>4, <1>10 DEF Bit
<1>13. ASSUME NEW i \in 1..b PROVE x[i] = (y \o <<1>>)[i]
  BY <1>1, <1>4, <1>10, <1>11
<1>14. x = y \o <<1>>
  BY <1>10, <1>12, <1>13, SeqEqual
<1> QED BY <1>1, <1>3, <1>9, <1>14 DEF b, x, y

-----------------------------------------------------------------------------
(* Atoms. *)

\* A bounded set of numbers has its maximum.
LEMMA MaxOfNumbers ==
    ASSUME NEW n \in Nat, NEW T, T \subseteq 0..n, T # {}
    PROVE  Max(T) \in T /\ \A x \in T : Max(T) >= x
<1> DEFINE U == {n - x : x \in T}
<1>1. U \subseteq Nat /\ U # {}
  <2>1. \A x \in T : x \in 0..n /\ n - x \in Nat
    OBVIOUS
  <2>2. PICK x \in T : TRUE
    OBVIOUS
  <2> QED BY <2>1, <2>2
<1>2. PICK m \in U : \A y \in U : m <= y
  BY <1>1, LeastNatural
<1>3. PICK x \in T : m = n - x
  BY <1>2
<1>4. ASSUME NEW y \in T PROVE x >= y
  <2>1. n - y \in U /\ x \in 0..n /\ y \in 0..n
    OBVIOUS
  <2>2. m <= n - y
    BY <1>2, <2>1
  <2> QED BY <1>3, <2>1, <2>2
<1> QED BY <1>3, <1>4 DEF Max

\* A set of numbers has its minimum.
LEMMA MinOfNumbers ==
    ASSUME NEW T, T \subseteq Nat, T # {}
    PROVE  Min(T) \in T /\ \A x \in T : Min(T) <= x
BY LeastNatural DEF Min

\* Where the highest one is.
LEMMA SigBitsTop ==
    ASSUME NEW le \in Seq(Bit)
    PROVE  /\ SigBits(le) \in 0..Len(le) /\ SigBits(le) \in Nat
           /\ SigBits(le) > 0 => le[SigBits(le)] = 1
           /\ \A i \in 1..Len(le) : i > SigBits(le) => le[i] = 0
<1> DEFINE T == {0} \cup {i \in DOMAIN le : le[i] = 1}
<1>1. DOMAIN le = 1..Len(le) /\ Len(le) \in Nat /\ \A i \in 1..Len(le) : le[i] \in {0, 1}
  BY DEF Bit
<1>2. T \subseteq 0..Len(le) /\ T # {}
  BY <1>1
<1>3. Max(T) \in T /\ \A x \in T : Max(T) >= x
  BY <1>1, <1>2, MaxOfNumbers
<1>4. SigBits(le) = Max(T)
  BY DEF SigBits
<1> DEFINE b == Max(T)
<1>5. b \in 0..Len(le) /\ (b > 0 => le[b] = 1)
  BY <1>1, <1>3
<1>6. ASSUME NEW i \in 1..Len(le), i > b PROVE le[i] = 0
  <2>1. i \notin T
    <3> HIDE DEF T
    <3> QED BY <1>1, <1>3, <1>5, <1>6
  <2>2. le[i] # 1
    BY <1>1, <2>1
  <2> QED BY <1>1, <2>2
<1> HIDE DEF b
<1> QED BY <1>1, <1>4, <1>5, <1>6 DEF b

\* sig_bits is the one index with a one at it and zeros above.
LEMMA SigBitsIs ==
    ASSUME NEW le \in Seq(Bit), NEW b \in 0..Len(le),
           b > 0 => le[b] = 1, \A i \in 1..Len(le) : i > b => le[i] = 0
    PROVE  SigBits(le) = b
BY SigBitsTop

\* write_le writes bits, as many as asked for: the atom's, then zeros.
LEMMA LeBitsType ==
    ASSUME NEW le \in Seq(Bit), NEW width \in Nat
    PROVE  /\ LeBits(width, le) \in Seq(Bit)
           /\ Len(LeBits(width, le)) = width /\ DOMAIN LeBits(width, le) = 1..width
           /\ \A i \in 1..width : LeBits(width, le)[i] = IF i <= Len(le) THEN le[i] ELSE 0
<1>1. \A i \in 1..width : (IF i \in DOMAIN le THEN le[i] ELSE 0) \in Bit
  BY DEF Bit
<1>2. LeBits(width, le) \in [1..width -> Bit]
  BY <1>1 DEF LeBits
<1>3. DOMAIN le = 1..Len(le)
  OBVIOUS
<1> QED BY <1>2, <1>3, FunctionIsSequence DEF LeBits

\* Of an empty atom write_le writes zeros.
LEMMA Zeros ==
    ASSUME NEW width \in Nat
    PROVE  /\ LeBits(width, <<>>) \in Seq(Bit) /\ Len(LeBits(width, <<>>)) = width
           /\ \A i \in 1..width : LeBits(width, <<>>)[i] = 0
<1>1. <<>> \in Seq(Bit) /\ Len(<<>>) = 0
  OBVIOUS
<1>2. \A i \in 1..width : ~(i <= 0)
  OBVIOUS
<1> QED BY <1>1, <1>2, LeBitsType

\* The low bits of a number are bits.
LEMMA LowIsBits ==
    ASSUME NEW n \in Nat, NEW width \in Nat
    PROVE  Low(width, n) \in Seq(Bit)
BY LowType

\* Bits and the number they spell determine each other at a given width.
LEMMA NatOfBits ==
    ASSUME NEW bits \in Seq(Bit)
    PROVE  /\ NatOf(bits) \in Nat
           /\ Low(Len(bits), NatOf(bits)) = bits
           /\ Fits(NatOf(bits), Len(bits))
<1>1. bits \in Seq(Bit) /\ bits \in Seq(Nat)
  BY DEF Bit
<1> QED BY <1>1, LowOfNat, NatOfType

\* Zeros on top do not count.
LEMMA NatOfWider ==
    ASSUME NEW le \in Seq(Bit), NEW width \in Nat,
           \A i \in 1..Len(le) : i > width => le[i] = 0
    PROVE  NatOf(LeBits(width, le)) = NatOf(le)
<1> DEFINE n == NatOf(le)
           s == Shifts(n)
           x == LeBits(width, le)
           y == Low(width, n)
           z == Low(Len(le), n)
<1>1. n \in Nat /\ z = le /\ Fits(n, Len(le)) /\ Len(le) \in Nat
  BY NatOfBits
<1>2. \A d \in Nat : d >= Len(le) => s[d] = 0
  BY <1>1, FitsWider
<1>3. s \in [Nat -> Nat] /\ \A i \in Nat : s[i + 1] = s[i] \div 2
  BY <1>1, ShiftsStep
<1>4. y \in Seq(Bit) /\ Len(y) = width /\ \A i \in 1..width : y[i] = s[i - 1] % 2
  BY <1>1, LowType, LowIsBits
<1>5. \A i \in 1..Len(le) : le[i] = s[i - 1] % 2
  <2>1. \A i \in 1..Len(le) : z[i] = s[i - 1] % 2
    BY <1>1, LowType
  <2> QED BY <1>1, <2>1
<1>6. x \in Seq(Bit) /\ Len(x) = width
      /\ \A i \in 1..width : x[i] = IF i <= Len(le) THEN le[i] ELSE 0
  BY LeBitsType
<1> HIDE DEF n, s, x, y, z
<1>7. ASSUME NEW i \in 1..width PROVE x[i] = y[i]
  <2>1. CASE i <= Len(le)
    BY <1>1, <1>4, <1>5, <1>6, <2>1
  <2>2. CASE ~(i <= Len(le))
    <3>1. i - 1 \in Nat /\ i - 1 >= Len(le)
      BY <1>1, <2>2
    <3>2. s[i - 1] = 0
      BY <1>2, <3>1
    <3> QED BY <1>4, <1>6, <2>2, <3>2
  <2> QED BY <2>1, <2>2
<1>8. x = y
  BY <1>4, <1>6, <1>7, SeqEqual
<1>9. Fits(n, width)
  <2>1. CASE width >= Len(le)
    BY <1>1, <2>1, FitsWider DEF Fits, s
  <2>2. CASE width < Len(le)
    <3> DEFINE T == {i \in Nat : i <= Len(le) - width => s[Len(le) - i] = 0}
    <3>1. 0 \in T
      BY <1>1, <1>2
    <3>2. ASSUME NEW i \in Nat, i \in T PROVE i + 1 \in T
      <4>1. SUFFICES ASSUME i + 1 <= Len(le) - width PROVE s[Len(le) - (i + 1)] = 0
        OBVIOUS
      <4> DEFINE j == Len(le) - (i + 1)
      <4>2. j \in Nat /\ j + 1 = Len(le) - i /\ j + 1 \in 1..Len(le) /\ j + 1 > width
            /\ (j + 1) - 1 = j
        BY <1>1, <4>1
      <4> HIDE DEF j
      <4>3. le[j + 1] = 0 /\ s[j + 1] = 0
        BY <1>1, <3>2, <4>1, <4>2
      <4>4. s[j] % 2 = 0 /\ s[j] \div 2 = 0 /\ s[j] \in Nat
        BY <1>3, <1>5, <4>2, <4>3
      <4>5. s[j] = 0
        BY <4>4, DoubleOfHalf
      <4> QED BY <4>5 DEF j
    <3>3. Len(le) - width \in Nat
      BY <1>1, <2>2
    <3>4. Len(le) - width \in T
      <4> HIDE DEF T
      <4> QED BY <3>1, <3>2, <3>3, NaturalInduction
    <3>5. s[width] = 0
      BY <1>1, <3>3, <3>4
    <3> QED BY <3>5 DEF Fits, s
  <2> QED BY <1>1, <2>1, <2>2
<1>10. NatOf(y) = n
  BY <1>1, <1>9, NatOfLow DEF y
<1> QED BY <1>8, <1>10 DEF x, n

\* An atom without its zeros.
LEMMA TrimType ==
    ASSUME NEW le \in Seq(Bit)
    PROVE  /\ Trim(le) \in Seq(Bit) /\ Len(Trim(le)) = SigBits(le)
           /\ SigBits(le) \in Nat
           /\ \A i \in 1..SigBits(le) : Trim(le)[i] = le[i]
           /\ NatOf(Trim(le)) = NatOf(le)
<1>1. /\ SigBits(le) \in 0..Len(le) /\ SigBits(le) \in Nat
      /\ \A i \in 1..Len(le) : i > SigBits(le) => le[i] = 0
  BY SigBitsTop
<1>2. /\ Trim(le) \in Seq(Bit) /\ Len(Trim(le)) = SigBits(le)
      /\ \A i \in 1..SigBits(le) : Trim(le)[i] = IF i <= Len(le) THEN le[i] ELSE 0
  BY <1>1, LeBitsType DEF Trim
<1>3. NatOf(Trim(le)) = NatOf(le)
  BY <1>1, NatOfWider DEF Trim
<1> QED BY <1>1, <1>2, <1>3

\* What is the same beyond its zeros has the same trimmed form.
LEMMA TrimOfEqual ==
    ASSUME NEW a \in Seq(Bit), NEW b \in Seq(Bit), NatOf(a) = NatOf(b)
    PROVE  Trim(a) = Trim(b)
<1> DEFINE x == Trim(a)
           y == Trim(b)
           n == NatOf(a)
           s == Shifts(n)
<1>1. /\ x \in Seq(Bit) /\ Len(x) = SigBits(a) /\ SigBits(a) \in 0..Len(a) /\ Len(a) \in Nat
      /\ NatOf(x) = n
      /\ \A i \in 1..SigBits(a) : x[i] = a[i]
      /\ SigBits(a) > 0 => a[SigBits(a)] = 1
  BY TrimType, SigBitsTop
<1>2. /\ y \in Seq(Bit) /\ Len(y) = SigBits(b) /\ SigBits(b) \in 0..Len(b) /\ Len(b) \in Nat
      /\ NatOf(y) = n
      /\ \A i \in 1..SigBits(b) : y[i] = b[i]
      /\ SigBits(b) > 0 => b[SigBits(b)] = 1
  BY TrimType, SigBitsTop
<1> HIDE DEF x, y
<1>3. n \in Nat
  BY NatOfBits
<1>4. /\ Low(Len(x), n) = x /\ Fits(n, Len(x)) /\ Low(Len(y), n) = y /\ Fits(n, Len(y))
  BY <1>1, <1>2, NatOfBits
<1>5. /\ \A i \in 1..Len(x) : x[i] = s[i - 1] % 2
      /\ \A i \in 1..Len(y) : y[i] = s[i - 1] % 2
  <2>1. Len(x) \in Nat /\ Len(y) \in Nat
    BY <1>1, <1>2
  <2>2. \A i \in 1..Len(x) : Low(Len(x), n)[i] = s[i - 1] % 2
    BY <1>3, <2>1, LowType
  <2>3. \A i \in 1..Len(y) : Low(Len(y), n)[i] = s[i - 1] % 2
    BY <1>3, <2>1, LowType
  <2> QED BY <1>4, <2>2, <2>3
<1>6. /\ \A d \in Nat : d >= Len(x) => s[d] = 0
      /\ \A d \in Nat : d >= Len(y) => s[d] = 0
  BY <1>1, <1>2, <1>3, <1>4, FitsWider
<1> HIDE DEF s, n
<1>7. ~(Len(x) > Len(y))
  <2>1. SUFFICES ASSUME Len(x) > Len(y) PROVE FALSE
    OBVIOUS
  <2>2. x[Len(x)] = 1 /\ Len(x) \in 1..Len(x) /\ Len(x) - 1 \in Nat /\ Len(x) - 1 >= Len(y)
    BY <1>1, <1>2, <2>1
  <2>3. s[Len(x) - 1] = 0
    BY <1>6, <2>2
  <2> QED BY <1>5, <2>2, <2>3
<1>8. ~(Len(y) > Len(x))
  <2>1. SUFFICES ASSUME Len(y) > Len(x) PROVE FALSE
    OBVIOUS
  <2>2. y[Len(y)] = 1 /\ Len(y) \in 1..Len(y) /\ Len(y) - 1 \in Nat /\ Len(y) - 1 >= Len(x)
    BY <1>1, <1>2, <2>1
  <2>3. s[Len(y) - 1] = 0
    BY <1>6, <2>2
  <2> QED BY <1>5, <2>2, <2>3
<1>9. Len(x) = Len(y)
  BY <1>1, <1>2, <1>7, <1>8
<1>10. x = y
  BY <1>1, <1>2, <1>5, <1>9, SeqEqual
<1> QED BY <1>10 DEF x, y

\* A number's bits have no zeros on top.
LEMMA TrimOfNumber ==
    ASSUME NEW n \in Nat
    PROVE  /\ SigBits(Low(BitLength(n), n)) = BitLength(n)
           /\ Trim(Low(BitLength(n), n)) = Low(BitLength(n), n)
           /\ NatOf(Low(BitLength(n), n)) = n
<1> DEFINE b == BitLength(n)
           le == Low(b, n)
<1>1. b \in Nat /\ Fits(n, b)
  BY BitLengthFits
<1>2. le \in Seq(Bit) /\ Len(le) = b
  BY <1>1, LowType, LowIsBits
<1>3. b > 0 => le[b] = 1
  <2>1. CASE n = 0
    BY <2>1, BitLengthFits
  <2>2. CASE n # 0
    BY <2>2, LowOnTop
  <2> QED BY <2>1, <2>2
<1>4. NatOf(le) = n
  BY <1>1, NatOfLow
<1> HIDE DEF b, le
<1>5. SigBits(le) = b
  BY <1>1, <1>2, <1>3, SigBitsIs
<1>6. Trim(le) = le
  BY <1>1, <1>2, <1>5, TrimType, SeqEqual
<1> QED BY <1>4, <1>5, <1>6 DEF b, le

\* Division with remainder.
LEMMA Division ==
    ASSUME NEW a \in Nat, NEW b \in Nat \ {0}
    PROVE  a \div b \in Nat /\ a % b \in 0..(b - 1) /\ a = (a \div b) * b + (a % b)
OBVIOUS

\* There is only one quotient and remainder.
LEMMA QuotientIs ==
    ASSUME NEW a \in Nat, NEW b \in Nat \ {0}, NEW q \in Nat, NEW r \in 0..(b - 1),
           a = q * b + r
    PROVE  a \div b = q /\ a % b = r
OBVIOUS

-----------------------------------------------------------------------------
(* Reading. *)

\* The bits are in the stream, from p on.
Reads(stream, p, bits) == \A i \in 1..Len(bits) : BitAt(stream, p + i - 1) = bits[i]

\* A stream has a bit everywhere, zero beyond its end.
LEMMA BitAtType ==
    ASSUME NEW stream \in Seq(Bit), NEW p \in Nat \ {0}
    PROVE  /\ BitAt(stream, p) \in Bit
           /\ BitAt(stream, p) = IF p <= Len(stream) THEN stream[p] ELSE 0
<1>1. DOMAIN stream = 1..Len(stream)
  OBVIOUS
<1> QED BY <1>1 DEF BitAt, Bit

\* What is written one after the other is read one after the other.
LEMMA ReadsConcat ==
    ASSUME NEW stream, NEW p \in Nat \ {0}, NEW a \in Seq(Bit), NEW b \in Seq(Bit)
    PROVE  Reads(stream, p, a \o b) <=> Reads(stream, p, a) /\ Reads(stream, p + Len(a), b)
<1> DEFINE c == a \o b
<1>1. /\ Len(a) \in Nat /\ Len(b) \in Nat /\ Len(c) = Len(a) + Len(b)
      /\ \A i \in 1..Len(c) : c[i] = IF i <= Len(a) THEN a[i] ELSE b[i - Len(a)]
  BY ConcatProperties
<1> HIDE DEF c
<1>2. ASSUME Reads(stream, p, c)
      PROVE  Reads(stream, p, a) /\ Reads(stream, p + Len(a), b)
  <2>1. \A i \in 1..Len(a) : i \in 1..Len(c) /\ c[i] = a[i]
    BY <1>1
  <2>2. ASSUME NEW i \in 1..Len(b) PROVE BitAt(stream, (p + Len(a)) + i - 1) = b[i]
    <3>1. Len(a) + i \in 1..Len(c) /\ c[Len(a) + i] = b[i]
          /\ p + (Len(a) + i) - 1 = (p + Len(a)) + i - 1
      BY SMTT(30), <1>1
    <3>2. BitAt(stream, p + (Len(a) + i) - 1) = c[Len(a) + i]
      BY <1>2, <3>1 DEF Reads
    <3> QED BY <3>1, <3>2
  <2> QED BY <1>2, <2>1, <2>2 DEF Reads
<1>3. ASSUME Reads(stream, p, a), Reads(stream, p + Len(a), b)
      PROVE  Reads(stream, p, c)
  <2>1. ASSUME NEW i \in 1..Len(c) PROVE BitAt(stream, p + i - 1) = c[i]
    <3>1. CASE i <= Len(a)
      BY <1>1, <1>3, <3>1 DEF Reads
    <3>2. CASE ~(i <= Len(a))
      <4>1. i - Len(a) \in 1..Len(b) /\ (p + Len(a)) + (i - Len(a)) - 1 = p + i - 1
            /\ c[i] = b[i - Len(a)]
        BY <1>1, <3>2
      <4>2. BitAt(stream, (p + Len(a)) + (i - Len(a)) - 1) = b[i - Len(a)]
        BY <1>3, <4>1 DEF Reads
      <4> QED BY <4>1, <4>2
    <3> QED BY <3>1, <3>2
  <2> QED BY <2>1 DEF Reads
<1> QED BY <1>2, <1>3 DEF c

\* A bit is a sequence of length one.
LEMMA OneBit ==
    ASSUME NEW bit \in Bit
    PROVE  <<bit>> \in Seq(Bit) /\ Len(<<bit>>) = 1 /\ <<bit>>[1] = bit
OBVIOUS

\* Four pieces.
LEMMA PiecesType ==
    ASSUME NEW s1 \in Seq(Bit), NEW s2 \in Seq(Bit), NEW s3 \in Seq(Bit), NEW s4 \in Seq(Bit)
    PROVE  /\ s1 \o s2 \o s3 \o s4 \in Seq(Bit)
           /\ Len(s1 \o s2 \o s3 \o s4) = Len(s1) + Len(s2) + Len(s3) + Len(s4)
OBVIOUS

\* Of four parts each is read behind those before it.
LEMMA ReadsPieces ==
    ASSUME NEW s1 \in Seq(Bit), NEW s2 \in Seq(Bit), NEW s3 \in Seq(Bit), NEW s4 \in Seq(Bit),
           NEW stream, NEW p \in Nat \ {0}, Reads(stream, p, s1 \o s2 \o s3 \o s4)
    PROVE  /\ Reads(stream, p, s1)
           /\ Reads(stream, p + Len(s1), s2)
           /\ Reads(stream, p + (Len(s1) + Len(s2)), s3)
           /\ Reads(stream, p + (Len(s1) + Len(s2) + Len(s3)), s4)
<1> DEFINE u == s1 \o s2
           v == u \o s3
<1>1. u \in Seq(Bit) /\ Len(u) = Len(s1) + Len(s2)
  BY ConcatProperties
<1>2. Reads(stream, p, u) => Reads(stream, p, s1) /\ Reads(stream, p + Len(s1), s2)
  BY ReadsConcat
<1> HIDE DEF u
<1>3. v \in Seq(Bit) /\ Len(v) = Len(u) + Len(s3)
  BY <1>1, ConcatProperties
<1>4. Reads(stream, p, v) => Reads(stream, p, u) /\ Reads(stream, p + Len(u), s3)
  BY <1>1, ReadsConcat
<1>5. Reads(stream, p, v \o s4)
  BY DEF u
<1> HIDE DEF v
<1>6. Reads(stream, p, v) /\ Reads(stream, p + Len(v), s4)
  BY <1>3, <1>5, ReadsConcat
<1> QED BY <1>1, <1>2, <1>3, <1>4, <1>6

\* A stream reads as itself from its beginning.
LEMMA ReadsItself ==
    ASSUME NEW bits \in Seq(Bit)
    PROVE  Reads(bits, 1, bits)
<1>1. ASSUME NEW i \in 1..Len(bits) PROVE BitAt(bits, 1 + i - 1) = bits[i]
  <2>1. 1 + i - 1 = i /\ i \in Nat \ {0}
    OBVIOUS
  <2> QED BY <2>1, BitAtType
<1> QED BY <1>1 DEF Reads

\* A stream of the same bits reads the same.
LEMMA ReadsSame ==
    ASSUME NEW s, NEW t, NEW p \in Nat \ {0}, NEW bits \in Seq(Bit),
           \A i \in Nat \ {0} : BitAt(s, i) = BitAt(t, i), Reads(s, p, bits)
    PROVE  Reads(t, p, bits)
<1>1. \A i \in 1..Len(bits) : p + i - 1 \in Nat \ {0}
  OBVIOUS
<1> QED BY <1>1 DEF Reads

\* ++cut gives bits, as many as asked for.
LEMMA CutType ==
    ASSUME NEW stream \in Seq(Bit), NEW p \in Nat \ {0}, NEW width \in Nat
    PROVE  /\ Cut(stream, p, width) \in Seq(Bit) /\ Len(Cut(stream, p, width)) = width
           /\ \A i \in 1..width : Cut(stream, p, width)[i] = BitAt(stream, p + i - 1)
<1>1. ASSUME NEW i \in 1..width PROVE BitAt(stream, p + i - 1) \in Bit
  <2>1. p + i - 1 \in Nat \ {0}
    OBVIOUS
  <2> QED BY <2>1, BitAtType
<1>2. Cut(stream, p, width) \in [1..width -> Bit]
  BY <1>1 DEF Cut
<1> QED BY <1>2, FunctionIsSequence DEF Cut

\* ++cut at the place where bits stand gives them.
LEMMA CutReads ==
    ASSUME NEW stream \in Seq(Bit), NEW p \in Nat \ {0}, NEW bits \in Seq(Bit),
           Reads(stream, p, bits)
    PROVE  Cut(stream, p, Len(bits)) = bits
<1>1. Len(bits) \in Nat
  OBVIOUS
<1>2. /\ Cut(stream, p, Len(bits)) \in Seq(Bit) /\ Len(Cut(stream, p, Len(bits))) = Len(bits)
      /\ \A i \in 1..Len(bits) : Cut(stream, p, Len(bits))[i] = bits[i]
  BY <1>1, CutType DEF Reads
<1> QED BY <1>2, SeqEqual

\* A number that was written in its width.
LEMMA NatReads ==
    ASSUME NEW stream \in Seq(Bit), NEW p \in Nat \ {0}, NEW n \in Nat, NEW width \in Nat,
           Fits(n, width), Reads(stream, p, Low(width, n))
    PROVE  NatOf(Cut(stream, p, width)) = n
<1>1. Low(width, n) \in Seq(Bit) /\ Len(Low(width, n)) = width
  BY LowType
<1>2. Cut(stream, p, width) = Low(width, n)
  BY <1>1, CutReads
<1> QED BY <1>2, NatOfLow

\* Whole bytes: the same bits, and zeros.
LEMMA IntoBytesBits ==
    ASSUME NEW stream \in Seq(Bit)
    PROVE  /\ IntoBytes(stream) \in Seq(Bit)
           /\ Len(IntoBytes(stream)) >= Len(stream) /\ Len(IntoBytes(stream)) \in Nat
           /\ \A i \in Nat \ {0} : BitAt(IntoBytes(stream), i) = BitAt(stream, i)
           /\ Reads(IntoBytes(stream), 1, stream)
           /\ NatOf(IntoBytes(stream)) = NatOf(stream)
           /\ \E bytes \in Nat : Len(IntoBytes(stream)) = bytes * ByteBits
<1> DEFINE a == Len(stream) + ByteBits - 1
           bytes == a \div ByteBits
           width == bytes * ByteBits
<1>1. Len(stream) \in Nat /\ ByteBits \in Nat \ {0}
  BY BitsAssumption
<1>2. bytes \in Nat /\ width \in Nat /\ width >= Len(stream)
  <2>1. a \in Nat /\ a = Len(stream) + ByteBits - 1
    BY <1>1
  <2> HIDE DEF a
  <2>2. bytes \in Nat /\ a % ByteBits \in 0..(ByteBits - 1) /\ a = bytes * ByteBits + (a % ByteBits)
    BY <1>1, <2>1, Division
  <2>3. ASSUME NEW x \in Nat PROVE x * ByteBits \in Nat
    BY <1>1
  <2>4. width \in Nat /\ a = width + (a % ByteBits)
    BY <2>2, <2>3
  <2> HIDE DEF bytes, width
  <2> QED BY <1>1, <2>1, <2>2, <2>4
<1> HIDE DEF bytes
<1>3. IntoBytes(stream) = LeBits(width, stream)
  BY DEF IntoBytes, bytes
<1> HIDE DEF width
<1> DEFINE x == IntoBytes(stream)
<1>4. /\ x \in Seq(Bit) /\ Len(x) = width
      /\ \A i \in 1..width : x[i] = IF i <= Len(stream) THEN stream[i] ELSE 0
  BY <1>2, <1>3, LeBitsType
<1> HIDE DEF x
<1>5. \A i \in Nat \ {0} : BitAt(x, i) = BitAt(stream, i)
  BY <1>1, <1>2, <1>4, BitAtType
<1>6. Reads(x, 1, stream)
  BY <1>5, ReadsItself, ReadsSame
<1>7. NatOf(x) = NatOf(stream)
  BY <1>1, <1>2, <1>3, NatOfWider DEF x
<1> QED BY <1>2, <1>4, <1>5, <1>6, <1>7 DEF x, width

-----------------------------------------------------------------------------
(* ++rub reads what mat wrote. *)

\* ++mat writes bits; how many.
LEMMA MatType ==
    ASSUME NEW le \in Seq(Bit)
    PROVE  /\ Mat(le) \in Seq(Bit)
           /\ Len(Mat(le)) = IF SigBits(le) = 0 THEN 1
                             ELSE 2 * BitLength(SigBits(le)) + SigBits(le)
<1> DEFINE b == SigBits(le)
           c == BitLength(b)
<1>1. b \in Nat
  BY SigBitsTop
<1>2. c \in Nat
  BY <1>1, BitLengthFits
<1>3. CASE b = 0
  <2>1. Mat(le) = <<1>>
    BY <1>3 DEF Mat
  <2>2. Mat(le) \in Seq(Bit) /\ Len(Mat(le)) = 1
    BY <2>1, OneBit DEF Bit
  <2> QED BY <1>3, <2>2
<1>4. CASE b # 0
  <2>1. c - 1 \in Nat
    <3>1. b \in Nat \ {0}
      BY <1>1, <1>4
    <3>2. c \in Nat \ {0}
      BY <3>1, LowOnTop
    <3> QED BY <3>2
  <2> DEFINE x == LeBits(c, <<>>)
             y == Low(c - 1, b)
             z == LeBits(b, le)
             one == <<1>>
  <2>2. x \in Seq(Bit) /\ Len(x) = c /\ y \in Seq(Bit) /\ Len(y) = c - 1
        /\ z \in Seq(Bit) /\ Len(z) = b /\ one \in Seq(Bit) /\ Len(one) = 1 /\ one[1] = 1
    <3>1. x \in Seq(Bit) /\ Len(x) = c
      BY <1>2, Zeros
    <3>2. y \in Seq(Bit) /\ Len(y) = c - 1
      BY <1>1, <2>1, LowType
    <3>3. z \in Seq(Bit) /\ Len(z) = b
      BY <1>1, LeBitsType
    <3>4. one \in Seq(Bit) /\ Len(one) = 1 /\ one[1] = 1
      BY DEF Bit
    <3> HIDE DEF x, y, z, one
    <3> QED BY <3>1, <3>2, <3>3, <3>4
  <2>3. Mat(le) = x \o one \o y \o z
    BY <1>4 DEF Mat
  <2> HIDE DEF b, c, x, y, z, one
  <2>4. /\ x \o one \o y \o z \in Seq(Bit)
        /\ Len(x \o one \o y \o z) = Len(x) + Len(one) + Len(y) + Len(z)
    <3>1. x \in Seq(Bit) /\ one \in Seq(Bit) /\ y \in Seq(Bit) /\ z \in Seq(Bit)
      BY <2>2
    <3> QED BY <3>1, PiecesType
  <2>5. Mat(le) \in Seq(Bit) /\ Len(Mat(le)) = 2 * c + b
    BY <1>1, <1>2, <2>2, <2>3, <2>4
  <2> QED BY <1>4, <2>5 DEF b, c
<1> QED BY <1>3, <1>4

\* ++rub reads at any place where write_mat_le (src/src/urb/encoder.rs) wrote an atom
\* of any size: it gives the atom, without zeros on top, and stops right behind it.
LEMMA RubReads ==
    ASSUME NEW stream \in Seq(Bit), NEW p \in Nat \ {0}, NEW le \in Seq(Bit),
           Reads(stream, p, Mat(le))
    PROVE  Rub(stream, p) = [atom |-> Trim(le), next |-> p + Len(Mat(le))]
<1> DEFINE b == SigBits(le)
           c == BitLength(b)
           ones == {k \in 0..Len(stream) : BitAt(stream, p + k) = 1}
           d == IF ones = {} THEN 0 ELSE Min(ones)
           n == NatOf(Cut(stream, p + d + 1, d - 1) \o <<1>>)
<1>1. b \in 0..Len(le) /\ b \in Nat /\ (b > 0 => le[b] = 1)
  BY SigBitsTop
<1>2. c \in Nat
  BY <1>1, BitLengthFits
<1>3. /\ (d = 0 \/ d > BitLength(Len(stream))
          => Rub(stream, p) = [atom |-> <<>>, next |-> p + 1])
      /\ ~(d = 0 \/ d > BitLength(Len(stream))) =>
           Rub(stream, p) = [atom |-> Cut(stream, p + 2 * d, n), next |-> p + 2 * d + n]
  BY DEF Rub
<1>4. Len(stream) \in Nat
  OBVIOUS
<1>5. CASE b = 0
  <2>1. Mat(le) = <<1>>
    BY <1>5 DEF Mat
  <2>2. BitAt(stream, p + 1 - 1) = 1
    BY <2>1 DEF Reads
  <2>3. 0 \in ones
    BY <1>4, <2>2
  <2>4. d = 0
    <3>1. ones \subseteq Nat /\ ones # {}
      BY <2>3
    <3>2. Min(ones) \in ones /\ \A k \in ones : Min(ones) <= k
      BY <3>1, MinOfNumbers
    <3>3. Min(ones) = 0
      BY <2>3, <3>1, <3>2
    <3> QED BY <3>1, <3>3
  <2>5. Trim(le) = <<>>
    BY <1>5, TrimType
  <2>6. p + Len(Mat(le)) = p + 1
    BY <2>1
  <2> QED BY <1>3, <2>4, <2>5, <2>6
<1>6. CASE b # 0
  <2>1. c \in Nat \ {0} /\ c - 1 \in Nat /\ Low(c, b) = Low(c - 1, b) \o <<1>> /\ Fits(b, c)
    <3>1. c \in Nat \ {0} /\ Low(c, b) = Low(c - 1, b) \o <<1>>
      BY <1>1, <1>6, LowOnTop
    <3>2. Fits(b, c)
      BY <1>1, <1>2, BitLengthFits
    <3> QED BY <3>1, <3>2
  <2> DEFINE x == LeBits(c, <<>>)
             y == Low(c - 1, b)
             z == LeBits(b, le)
             one == <<1>>
  <2>2. x \in Seq(Bit) /\ Len(x) = c /\ y \in Seq(Bit) /\ Len(y) = c - 1
        /\ z \in Seq(Bit) /\ Len(z) = b /\ one \in Seq(Bit) /\ Len(one) = 1 /\ one[1] = 1
    <3>1. x \in Seq(Bit) /\ Len(x) = c
      BY <1>2, Zeros
    <3>2. y \in Seq(Bit) /\ Len(y) = c - 1
      BY <1>1, <2>1, LowType
    <3>3. z \in Seq(Bit) /\ Len(z) = b
      BY <1>1, LeBitsType
    <3>4. one \in Seq(Bit) /\ Len(one) = 1 /\ one[1] = 1
      BY DEF Bit
    <3> HIDE DEF x, y, z, one
    <3> QED BY <3>1, <3>2, <3>3, <3>4
  <2>3. (\A i \in 1..c : x[i] = 0) /\ z = Trim(le) /\ z[b] = 1
    <3>1. \A i \in 1..c : x[i] = 0
      BY <1>2, Zeros
    <3>2. z[b] = le[b] /\ z = Trim(le)
      BY <1>1, <1>6, TrimType DEF Trim
    <3> QED BY <1>1, <1>6, <3>1, <3>2
  <2>4. Mat(le) = x \o one \o y \o z
    BY <1>6 DEF Mat
  <2>5. Low(c, b) = y \o one
    BY <2>1
  <2>6. Len(Mat(le)) = 2 * c + b
    BY <1>6, MatType
  <2> HIDE DEF b, x, y, z, one
  <2>7. NatOf(y \o one) = b
    BY <1>1, <2>1, <2>5, NatOfLow
  <2> HIDE DEF c
  <2>12. /\ Reads(stream, p, x)
         /\ Reads(stream, p + Len(x), one)
         /\ Reads(stream, p + (Len(x) + Len(one)), y)
         /\ Reads(stream, p + (Len(x) + Len(one) + Len(y)), z)
    <3>1. x \in Seq(Bit) /\ one \in Seq(Bit) /\ y \in Seq(Bit) /\ z \in Seq(Bit)
      BY <2>2
    <3>2. Reads(stream, p, x \o one \o y \o z)
      BY <2>4
    <3> QED BY <3>1, <3>2, ReadsPieces
  <2>13. BitAt(stream, p + c) = 1
    <3>1. 1 \in 1..Len(one) /\ (p + Len(x)) + 1 - 1 = p + c /\ one[1] = 1
      BY <2>1, <2>2
    <3> QED BY <2>12, <3>1 DEF Reads
  <2>14. p + c <= Len(stream)
    <3>1. p + c \in Nat \ {0}
      BY <2>1
    <3> QED BY <2>13, <3>1, BitAtType
  <2>15. c \in ones
    BY <1>4, <2>1, <2>13, <2>14
  <2>16. ASSUME NEW k \in 0..(c - 1) PROVE BitAt(stream, p + k) = 0
    <3>1. k + 1 \in 1..Len(x) /\ p + (k + 1) - 1 = p + k
      BY <2>1, <2>2
    <3> QED BY <2>2, <2>3, <2>12, <3>1 DEF Reads
  <2>17. d = c
    <3>1. ones \subseteq Nat /\ ones # {}
      BY <2>15
    <3>2. Min(ones) \in ones /\ \A k \in ones : Min(ones) <= k
      BY <3>1, MinOfNumbers
    <3>3. \A k \in ones : ~(k < c)
      BY <2>1, <2>16
    <3>4. Min(ones) = c
      BY <2>1, <2>15, <3>1, <3>2, <3>3
    <3> QED BY <3>1, <3>4
  <2> HIDE DEF d
  <2>18. Cut(stream, p + c + 1, c - 1) = y
    <3>1. p + c + 1 = p + (Len(x) + Len(one)) /\ p + c + 1 \in Nat \ {0}
      BY <2>1, <2>2
    <3>2. Cut(stream, p + c + 1, Len(y)) = y
      BY <2>2, <2>12, <3>1, CutReads
    <3> QED BY <2>2, <3>2
  <2>19. n = b
    BY <2>7, <2>17, <2>18 DEF one
  <2> HIDE DEF n
  <2>20. Cut(stream, p + 2 * c, b) = z
    <3>1. p + (Len(x) + Len(one) + Len(y)) = p + 2 * c /\ p + 2 * c \in Nat \ {0}
      BY <2>1, <2>2
    <3>2. Cut(stream, p + 2 * c, Len(z)) = z
      BY <2>2, <2>12, <3>1, CutReads
    <3> QED BY <2>2, <3>2
  <2>21. BitAt(stream, p + 2 * c + b - 1) = 1
    <3>1. b \in 1..Len(z) /\ p + (Len(x) + Len(one) + Len(y)) + b - 1 = p + 2 * c + b - 1
      BY <1>1, <1>6, <2>1, <2>2
    <3> QED BY <2>3, <2>12, <3>1 DEF Reads
  <2>22. b <= Len(stream)
    <3>1. p + 2 * c + b - 1 \in Nat \ {0}
      BY <1>1, <1>6, <2>1
    <3>2. p + 2 * c + b - 1 <= Len(stream)
      BY <2>21, <3>1, BitAtType
    <3> QED BY <1>1, <1>4, <2>1, <3>2
  <2>23. c <= BitLength(Len(stream)) /\ BitLength(Len(stream)) \in Nat
    BY <1>1, <1>4, <2>22, BitLengthMonotone, BitLengthFits DEF c
  <2>24. ~(d = 0 \/ d > BitLength(Len(stream)))
    BY <2>1, <2>17, <2>23
  <2>25. Rub(stream, p) = [atom |-> Cut(stream, p + 2 * c, b), next |-> p + 2 * c + b]
    BY <1>3, <2>17, <2>19, <2>24
  <2>26. p + Len(Mat(le)) = p + 2 * c + b
    BY <1>1, <2>1, <2>6
  <2> QED BY <2>3, <2>20, <2>25, <2>26
<1> QED BY <1>5, <1>6

\* And numbers.
LEMMA RubReadsNumber ==
    ASSUME NEW stream \in Seq(Bit), NEW p \in Nat \ {0}, NEW n \in Nat,
           Reads(stream, p, MatNat(n))
    PROVE  /\ NatOf(Rub(stream, p).atom) = n
           /\ Rub(stream, p).next = p + Len(MatNat(n))
           /\ MatNat(n) \in Seq(Bit)
<1> DEFINE le == Low(BitLength(n), n)
<1>1. le \in Seq(Bit)
  BY BitLengthFits, LowType
<1>2. NatOf(le) = n
  BY TrimOfNumber
<1>3. MatNat(n) = Mat(le)
  BY DEF MatNat
<1> HIDE DEF le
<1>4. Rub(stream, p) = [atom |-> Trim(le), next |-> p + Len(Mat(le))]
  BY <1>1, <1>3, RubReads
<1>5. NatOf(Trim(le)) = n
  BY <1>1, <1>2, TrimType
<1> QED BY <1>1, <1>3, <1>4, <1>5, MatType

-----------------------------------------------------------------------------
(* Sequences of sequences. *)

\* FlattenSeq, one sequence at a time.
Joined(g, seqs, S) ==
    /\ g \in [0..Len(seqs) -> Seq(S)] /\ g[0] = <<>>
    /\ \A i \in 0..(Len(seqs) - 1) : g[i + 1] = g[i] \o seqs[i + 1]

\* FlattenSeq is defined: it appends one sequence after the other.
LEMMA FlattenJoins ==
    ASSUME NEW S, NEW seqs \in Seq(Seq(S))
    PROVE  \E g : Joined(g, seqs, S) /\ FlattenSeq(seqs) = g[Len(seqs)]
<1> DEFINE n == Len(seqs)
           step == [i \in Nat |-> [x \in Seq(S) |-> IF i < n THEN x \o seqs[i + 1] ELSE x]]
           Flattens(f) == f = [i \in 1..n |-> IF i = 1 THEN seqs[i] ELSE f[i - 1] \o seqs[i]]
<1>1. n \in Nat /\ \A i \in 1..n : seqs[i] \in Seq(S)
  OBVIOUS
<1>2. step \in Steps(Seq(S))
  <2>1. ASSUME NEW i \in Nat, NEW x \in Seq(S)
        PROVE  (IF i < n THEN x \o seqs[i + 1] ELSE x) \in Seq(S)
    <3>1. CASE i < n
      <4>1. i + 1 \in 1..n
        BY <1>1, <3>1
      <4>2. seqs[i + 1] \in Seq(S)
        BY <1>1, <4>1
      <4> HIDE DEF n
      <4> QED BY <3>1, <4>2
    <3>2. CASE ~(i < n)
      BY <3>2
    <3> QED BY <3>1, <3>2
  <2> QED BY <2>1 DEF Steps
<1>3. PICK h : Iterates(h, Seq(S), <<>>, step)
  <2>1. <<>> \in Seq(S)
    OBVIOUS
  <2> HIDE DEF step
  <2> QED BY <1>2, <2>1, Recursion
<1>4. h \in [Nat -> Seq(S)] /\ h[0] = <<>> /\ \A i \in Nat : i < n => h[i + 1] = h[i] \o seqs[i + 1]
  BY <1>3 DEF Iterates
<1> HIDE DEF step, n
<1> DEFINE g == [i \in 0..n |-> h[i]]
<1>5. g \in [0..n -> Seq(S)] /\ g[0] = <<>> /\ \A i \in 0..(n - 1) : g[i + 1] = g[i] \o seqs[i + 1]
  <2>1. g \in [0..n -> Seq(S)] /\ g[0] = <<>>
    BY <1>1, <1>4
  <2>2. ASSUME NEW i \in 0..(n - 1) PROVE g[i + 1] = g[i] \o seqs[i + 1]
    <3>1. i \in Nat /\ i < n /\ i + 1 \in 0..n /\ i \in 0..n
      BY <1>1
    <3> QED BY <1>4, <3>1
  <2> QED BY <2>1, <2>2
<1>6. Joined(g, seqs, S)
  BY <1>5 DEF Joined, n
<1> HIDE DEF g
<1>7. CASE n = 0
  <2>1. FlattenSeq(seqs) = seqs /\ seqs = <<>>
    BY <1>7 DEF FlattenSeq, n
  <2> QED BY <1>5, <1>6, <1>7, <2>1 DEF n
<1>8. CASE n # 0
  <2> DEFINE f == CHOOSE f : Flattens(f)
             k == [i \in 1..n |-> g[i]]
  <2>1. Flattens(k)
    <3>1. ASSUME NEW i \in 1..n
          PROVE  k[i] = IF i = 1 THEN seqs[i] ELSE k[i - 1] \o seqs[i]
      <4>1. i - 1 \in 0..(n - 1) /\ (i - 1) + 1 = i /\ i - 1 \in 0..n
        BY <1>1
      <4>2. g[i] = g[i - 1] \o seqs[i]
        BY <1>5, <4>1
      <4>3. CASE i = 1
        <5>1. i - 1 = 0 /\ g[0] = <<>> /\ seqs[i] \in Seq(S)
          BY <1>1, <1>5, <4>3
        <5>2. g[i] = <<>> \o seqs[i]
          BY <4>2, <5>1
        <5>3. g[i] = seqs[i]
          BY <5>1, <5>2, ConcatEmptySeq
        <5> QED BY <4>3, <5>3
      <4>4. CASE i # 1
        <5>1. i - 1 \in 1..n
          BY <1>1, <4>4
        <5>2. k[i] = g[i] /\ k[i - 1] = g[i - 1]
          BY <5>1
        <5> HIDE DEF k
        <5> QED BY <4>2, <4>4, <5>2
      <4> QED BY <4>3, <4>4
    <3> QED BY <3>1
  <2>2. Flattens(f)
    <3> HIDE DEF Flattens, k
    <3> QED BY <2>1
  <2>3. FlattenSeq(seqs) = f[n]
    BY <1>8 DEF FlattenSeq, n
  <2> HIDE DEF f
  <2> DEFINE T == {i \in Nat : 1 <= i /\ i <= n => f[i] = g[i]}
  <2>4. 0 \in T
    OBVIOUS
  <2>5. ASSUME NEW i \in Nat, i \in T PROVE i + 1 \in T
    <3>1. SUFFICES ASSUME i + 1 <= n PROVE f[i + 1] = g[i + 1]
      OBVIOUS
    <3>2. i + 1 \in 1..n /\ i \in 0..(n - 1) /\ (i + 1) - 1 = i
      BY <1>1, <3>1
    <3>3. f[i + 1] = IF i + 1 = 1 THEN seqs[i + 1] ELSE f[i] \o seqs[i + 1]
      BY <2>2, <3>2
    <3>4. g[i + 1] = g[i] \o seqs[i + 1]
      BY <1>5, <3>2
    <3>5. CASE i = 0
      <4>1. i + 1 = 1 /\ g[i] = <<>> /\ seqs[i + 1] \in Seq(S)
        BY <1>1, <1>5, <3>2, <3>5
      <4>2. g[i + 1] = <<>> \o seqs[i + 1] /\ f[i + 1] = seqs[i + 1]
        BY <3>3, <3>4, <4>1
      <4> QED BY <4>1, <4>2, ConcatEmptySeq
    <3>6. CASE i # 0
      <4>1. f[i] = g[i]
        BY <1>1, <2>5, <3>1, <3>6
      <4>2. i + 1 # 1
        BY <3>6
      <4>3. f[i + 1] = f[i] \o seqs[i + 1]
        BY <3>3, <4>2
      <4> QED BY <3>4, <4>1, <4>3
    <3> QED BY <3>5, <3>6
  <2>6. n \in T
    <3> HIDE DEF T
    <3> QED BY <1>1, <2>4, <2>5, NaturalInduction
  <2>7. f[n] = g[n]
    BY <1>1, <1>8, <2>6
  <2> QED BY <1>6, <2>3, <2>7 DEF n
<1> QED BY <1>7, <1>8

\* Sequences of one length.
LEMMA FlattenEven ==
    ASSUME NEW S, NEW seqs \in Seq(Seq(S)), NEW w \in Nat,
           \A i \in 1..Len(seqs) : Len(seqs[i]) = w
    PROVE  /\ FlattenSeq(seqs) \in Seq(S) /\ Len(FlattenSeq(seqs)) = Len(seqs) * w
           /\ \A i \in 1..Len(seqs) : \A j \in 1..w :
                FlattenSeq(seqs)[(i - 1) * w + j] = seqs[i][j]
<1> DEFINE n == Len(seqs)
<1>1. n \in Nat /\ \A i \in 1..n : seqs[i] \in Seq(S) /\ Len(seqs[i]) = w
  OBVIOUS
<1>2. PICK g : Joined(g, seqs, S) /\ FlattenSeq(seqs) = g[n]
  BY FlattenJoins
<1>3. g \in [0..n -> Seq(S)] /\ g[0] = <<>> /\ \A i \in 0..(n - 1) : g[i + 1] = g[i] \o seqs[i + 1]
  BY <1>2 DEF Joined
<1> HIDE DEF n
<1> DEFINE Done(m) == /\ Len(g[m]) = m * w
                      /\ \A i \in 1..m : \A j \in 1..w : g[m][(i - 1) * w + j] = seqs[i][j]
           T == {m \in Nat : m <= n => Done(m)}
<1>4. 0 \in T
  BY <1>1, <1>3
<1>5. ASSUME NEW m \in Nat, m \in T PROVE m + 1 \in T
  <2>1. SUFFICES ASSUME m + 1 <= n PROVE Done(m + 1)
    OBVIOUS
  <2>2. m \in 0..(n - 1) /\ m \in 0..n /\ m + 1 \in 1..n /\ Done(m)
    <3>1. m \in 0..(n - 1) /\ m \in 0..n /\ m + 1 \in 1..n /\ m <= n
      BY <1>1, <2>1
    <3>2. m <= n => Done(m)
      <4> HIDE DEF Done
      <4> QED BY <1>5
    <3> QED BY <3>1, <3>2
  <2> DEFINE a == g[m]
             b == seqs[m + 1]
             mw == m * w
  <2>3. a \in Seq(S) /\ b \in Seq(S) /\ g[m + 1] = a \o b /\ Len(a) = mw /\ Len(b) = w /\ mw \in Nat
    <3>1. a \in Seq(S) /\ g[m + 1] = a \o b
      BY <1>3, <2>2
    <3>2. b \in Seq(S) /\ Len(b) = w
      BY <1>1, <2>2
    <3>3. Len(a) = mw
      BY <2>2
    <3>4. mw \in Nat
      OBVIOUS
    <3> QED BY <3>1, <3>2, <3>3, <3>4
  <2>4. ASSUME NEW i \in 1..m, NEW j \in 1..w PROVE a[(i - 1) * w + j] = seqs[i][j]
    BY <2>2
  <2>5. (m + 1) * w = mw + w
    OBVIOUS
  <2> HIDE DEF a, b, mw
  <2>6. /\ Len(a \o b) = mw + w
        /\ \A x \in 1..(mw + w) : (a \o b)[x] = IF x <= mw THEN a[x] ELSE b[x - mw]
    <3>1. /\ Len(a \o b) = Len(a) + Len(b)
          /\ \A x \in 1..(Len(a) + Len(b)) : (a \o b)[x] = IF x <= Len(a) THEN a[x] ELSE b[x - Len(a)]
      BY <2>3, ConcatProperties
    <3> QED BY <2>3, <3>1
  <2>7. ASSUME NEW i \in 1..(m + 1), NEW j \in 1..w
        PROVE  (a \o b)[(i - 1) * w + j] = seqs[i][j]
    <3> DEFINE iw == (i - 1) * w
               x == iw + j
    <3>1. i - 1 \in Nat /\ iw \in Nat
      OBVIOUS
    <3>2. CASE i = m + 1
      <4>1. iw = mw
        BY <3>2 DEF mw
      <4>2. x \in 1..(mw + w) /\ ~(x <= mw) /\ x - mw = j
        BY <2>3, <4>1
      <4> HIDE DEF x
      <4>3. (a \o b)[x] = b[j]
        BY <2>6, <4>2
      <4> QED BY <3>2, <4>3 DEF x, b
    <3>3. CASE i # m + 1
      <4>1. i \in 1..m /\ i <= m
        BY <3>3
      <4>2. i * w <= mw /\ i * w = iw + w
        <5>1. i * w = (i - 1) * w + w
          OBVIOUS
        <5>2. (m - i) * w \in Nat /\ m * w = i * w + (m - i) * w
          BY <4>1
        <5>3. i * w \in Nat
          OBVIOUS
        <5> QED BY <5>1, <5>2, <5>3 DEF mw
      <4>3. x \in 1..(mw + w) /\ x <= mw
        <5>1. iw + w <= mw
          BY <4>2
        <5> HIDE DEF iw
        <5> QED BY <2>3, <3>1, <5>1
      <4>4. a[x] = seqs[i][j]
        BY <2>4, <4>1
      <4> HIDE DEF x
      <4>5. (a \o b)[x] = a[x]
        BY <2>6, <4>3
      <4> QED BY <4>4, <4>5 DEF x
    <3> QED BY <3>2, <3>3
  <2>8. Len(g[m + 1]) = (m + 1) * w
    BY <2>3, <2>5, <2>6
  <2>9. \A i \in 1..(m + 1) : \A j \in 1..w : g[m + 1][(i - 1) * w + j] = seqs[i][j]
    BY ZenonT(30), <2>3, <2>7
  <2> QED BY <2>8, <2>9
<1>6. n \in T
  <2> HIDE DEF T
  <2> QED BY <1>1, <1>4, <1>5, NaturalInduction
<1>7. Done(n) /\ g[n] \in Seq(S)
  BY <1>1, <1>3, <1>6
<1> QED BY <1>2, <1>7 DEF n

\* A prefix and what follows it are the longer prefix.
LEMMA SubSeqSplit ==
    ASSUME NEW S, NEW dat \in Seq(S), NEW a \in Nat, NEW b \in Nat, a <= b, b <= Len(dat)
    PROVE  /\ SubSeq(dat, 1, a) \o SubSeq(dat, a + 1, b) = SubSeq(dat, 1, b)
           /\ SubSeq(dat, 1, a) \in Seq(S) /\ SubSeq(dat, a + 1, b) \in Seq(S)
           /\ Len(SubSeq(dat, a + 1, b)) = b - a
<1> DEFINE x == SubSeq(dat, 1, a)
           y == SubSeq(dat, a + 1, b)
           z == SubSeq(dat, 1, b)
<1>1. x \in Seq(S) /\ Len(x) = a /\ \A i \in 1..a : x[i] = dat[i]
  OBVIOUS
<1>2. y \in Seq(S) /\ Len(y) = b - a /\ \A i \in 1..(b - a) : y[i] = dat[a + i]
  <2>1. \A i \in (a + 1)..b : dat[i] \in S
    OBVIOUS
  <2>2. /\ y \in Seq(S) /\ Len(y) = IF a + 1 <= b THEN b - (a + 1) + 1 ELSE 0
        /\ \A i \in 1..(b - (a + 1) + 1) : y[i] = dat[(a + 1) + i - 1]
    BY <2>1, SubSeqProperties
  <2>3. b - (a + 1) + 1 = b - a /\ \A i \in 1..(b - a) : (a + 1) + i - 1 = a + i
    OBVIOUS
  <2> HIDE DEF y
  <2> QED BY <2>2, <2>3
<1>3. z \in Seq(S) /\ Len(z) = b /\ \A i \in 1..b : z[i] = dat[i]
  OBVIOUS
<1> HIDE DEF x, y, z
<1>4. /\ x \o y \in Seq(S) /\ Len(x \o y) = Len(x) + Len(y)
      /\ \A i \in 1..(Len(x) + Len(y)) : (x \o y)[i] = IF i <= Len(x) THEN x[i] ELSE y[i - Len(x)]
  <2>1. x \in Seq(S) /\ y \in Seq(S)
    BY <1>1, <1>2
  <2> QED BY <2>1, ConcatProperties
<1>5. Len(x) + Len(y) = b
  BY <1>1, <1>2
<1>6. ASSUME NEW i \in 1..b PROVE (x \o y)[i] = z[i]
  <2>1. CASE i <= a
    BY SMTT(30), <1>1, <1>3, <1>4, <1>5, <2>1
  <2>2. CASE ~(i <= a)
    <3>1. i - a \in 1..(b - a) /\ a + (i - a) = i
      BY <2>2
    <3> QED BY <1>1, <1>2, <1>3, <1>4, <1>5, <2>2, <3>1
  <2> QED BY <2>1, <2>2
<1>7. x \o y = z
  BY <1>3, <1>4, <1>5, <1>6, SeqEqual
<1> QED BY <1>1, <1>2, <1>7 DEF x, y, z

\* The pieces a sequence is cut into, the last one as long as what is left.
Piece(dat, size, i) == SubSeq(dat, (i - 1) * size + 1, Min({i * size, Len(dat)}))

\* The pieces a sequence is cut into (urb_leaf_script) flatten to it.
LEMMA FlattenCuts ==
    ASSUME NEW S, NEW dat \in Seq(S), NEW size \in Nat \ {0},
           NEW n, n = (Len(dat) + size - 1) \div size
    PROVE  /\ n \in Nat
           /\ \A i \in 1..n : Piece(dat, size, i) \in Seq(S)
           /\ FlattenSeq([i \in 1..n |-> Piece(dat, size, i)]) = dat
<1> DEFINE len == Len(dat)
           rest == (len + size - 1) % size
           ns == n * size
           seqs == [i \in 1..n |-> Piece(dat, size, i)]
           end(i) == Min({i * size, len})
<1>1. len \in Nat /\ len + size - 1 \in Nat
  OBVIOUS
<1>2. n \in Nat /\ rest \in 0..(size - 1) /\ len + size - 1 = ns + rest
  <2> HIDE DEF len
  <2> QED BY <1>1, Division DEF len
<1>3. ns \in Nat /\ ns >= len /\ ns - size < len
  <2>1. ns \in Nat
    BY <1>2
  <2> HIDE DEF ns, rest, len
  <2> QED BY <1>1, <1>2, <2>1
<1> HIDE DEF ns, rest, len
<1>4. ASSUME NEW x \in Nat PROVE Min({x, len}) = IF x <= len THEN x ELSE len
  <2> DEFINE T == {x, len}
  <2>1. T \subseteq Nat /\ T # {} /\ x \in T /\ len \in T
    BY <1>1
  <2> HIDE DEF T
  <2>2. Min(T) \in T /\ \A y \in T : Min(T) <= y
    BY <2>1, MinOfNumbers
  <2> QED BY <1>1, <2>1, <2>2 DEF T
<1>5. ASSUME NEW i \in 0..(n - 1) PROVE i * size \in Nat /\ i * size <= len /\ (i + 1) * size = i * size + size
  <2>1. (n - 1 - i) * size \in Nat /\ i * size \in Nat /\ ns - size = i * size + (n - 1 - i) * size
    BY <1>2 DEF ns
  <2>2. (i + 1) * size = i * size + size
    BY <1>2
  <2> DEFINE a == i * size
             b == (n - 1 - i) * size
  <2> HIDE DEF a, b
  <2>3. a \in Nat /\ b \in Nat /\ ns - size = a + b
    BY <2>1 DEF a, b
  <2>4. a <= len
    BY <1>1, <1>3, <2>3
  <2> QED BY <2>1, <2>2, <2>4 DEF a
<1>6. ASSUME NEW i \in 0..(n - 1)
      PROVE  /\ end(i) = i * size /\ end(i) <= len /\ end(i + 1) <= len
             /\ end(i + 1) \in Nat /\ end(i) <= end(i + 1)
  <2> DEFINE a == i * size
  <2>0. a \in Nat /\ a <= len /\ (i + 1) * size = a + size
    BY <1>5
  <2>1. a \in Nat /\ a <= len /\ (i + 1) * size = a + size /\ a + size \in Nat
    <3> HIDE DEF a
    <3> QED BY <2>0
  <2>2. end(i) = a
    BY <1>4, <2>1
  <2> HIDE DEF a
  <2>3. end(i + 1) = IF a + size <= len THEN a + size ELSE len
    BY <1>4, <2>1
  <2> QED BY <1>1, <2>1, <2>2, <2>3 DEF a
<1> HIDE DEF end
<1>7. ASSUME NEW i \in 0..(n - 1)
      PROVE  /\ SubSeq(dat, 1, end(i)) \o Piece(dat, size, i + 1) = SubSeq(dat, 1, end(i + 1))
             /\ Piece(dat, size, i + 1) \in Seq(S)
  <2>1. (i + 1) - 1 = i
    OBVIOUS
  <2>2. Piece(dat, size, i + 1) = SubSeq(dat, end(i) + 1, end(i + 1))
    BY <1>6, <2>1 DEF Piece, end, len
  <2>3. end(i) \in Nat /\ end(i + 1) \in Nat /\ end(i) <= end(i + 1) /\ end(i + 1) <= Len(dat)
    BY <1>5, <1>6 DEF len
  <2> DEFINE x == end(i)
             y == end(i + 1)
  <2>4. x \in Nat /\ y \in Nat /\ x <= y /\ y <= Len(dat)
    BY <2>3
  <2>5. Piece(dat, size, i + 1) = SubSeq(dat, x + 1, y)
    BY <2>2
  <2> HIDE DEF x, y
  <2>6. SubSeq(dat, 1, x) \o SubSeq(dat, x + 1, y) = SubSeq(dat, 1, y)
    BY <2>4, SubSeqSplit
  <2>7. SubSeq(dat, x + 1, y) \in Seq(S)
    BY <2>4, SubSeqSplit
  <2> QED BY <2>5, <2>6, <2>7 DEF x, y
<1>8. \A i \in 1..n : Piece(dat, size, i) \in Seq(S)
  <2> SUFFICES ASSUME NEW i \in 1..n PROVE Piece(dat, size, i) \in Seq(S)
    OBVIOUS
  <2>1. i - 1 \in 0..(n - 1) /\ (i - 1) + 1 = i
    BY <1>2
  <2> QED BY <1>7, <2>1
<1>9. seqs \in Seq(Seq(S)) /\ Len(seqs) = n /\ \A i \in 1..n : seqs[i] = Piece(dat, size, i)
  BY SMTT(30), <1>2, <1>8
<1> HIDE DEF seqs
<1>10. PICK g : Joined(g, seqs, S) /\ FlattenSeq(seqs) = g[n]
  BY <1>9, FlattenJoins
<1>11. g \in [0..n -> Seq(S)] /\ g[0] = <<>> /\ \A i \in 0..(n - 1) : g[i + 1] = g[i] \o seqs[i + 1]
  BY <1>9, <1>10 DEF Joined
<1> DEFINE T == {i \in Nat : i <= n => g[i] = SubSeq(dat, 1, end(i))}
<1>12. 0 \in T
  <2>1. end(0) = 0
    <3>1. 0 * size = 0
      OBVIOUS
    <3> QED BY <1>1, <1>4, <3>1 DEF end
  <2>2. SubSeq(dat, 1, 0) = <<>>
    BY SubSeqEmpty
  <2> QED BY <1>11, <2>1, <2>2
<1>13. ASSUME NEW i \in Nat, i \in T PROVE i + 1 \in T
  <2>1. SUFFICES ASSUME i + 1 <= n PROVE g[i + 1] = SubSeq(dat, 1, end(i + 1))
    OBVIOUS
  <2>2. i \in 0..(n - 1) /\ i + 1 \in 1..n /\ g[i] = SubSeq(dat, 1, end(i))
    BY <1>2, <1>13, <2>1
  <2>3. g[i + 1] = g[i] \o Piece(dat, size, i + 1)
    BY <1>9, <1>11, <2>2
  <2> QED BY <1>7, <2>2, <2>3
<1>14. n \in T
  <2> HIDE DEF T
  <2> QED BY <1>2, <1>12, <1>13, NaturalInduction
<1>15. end(n) = len
  <2>1. n * size \in Nat /\ n * size >= len
    BY <1>3 DEF ns
  <2>2. Min({n * size, len}) = IF n * size <= len THEN n * size ELSE len
    BY <1>4, <2>1
  <2> QED BY <1>1, <2>1, <2>2 DEF end
<1>16. FlattenSeq(seqs) = SubSeq(dat, 1, Len(dat))
  BY <1>2, <1>10, <1>14, <1>15 DEF len
<1>17. FlattenSeq(seqs) = dat
  BY <1>16, SubSeqFull
<1> QED BY <1>2, <1>8, <1>17 DEF seqs

\* Four sequences, one after the other.
InOrder(a, b, c, d) == a \o b \o c \o d

\* Four sequences flatten to what they are one after the other.
LEMMA FlattenFour ==
    ASSUME NEW S, NEW a \in Seq(S), NEW b \in Seq(S), NEW c \in Seq(S), NEW d \in Seq(S)
    PROVE  FlattenSeq(<<a, b, c, d>>) = InOrder(a, b, c, d)
<1> DEFINE seqs == <<a, b, c, d>>
<1>1. /\ seqs \in Seq(Seq(S)) /\ Len(seqs) = 4
      /\ seqs[1] = a /\ seqs[2] = b /\ seqs[3] = c /\ seqs[4] = d
  OBVIOUS
<1> HIDE DEF seqs
<1>2. PICK g : Joined(g, seqs, S) /\ FlattenSeq(seqs) = g[4]
  BY <1>1, FlattenJoins
<1>3. g[0] = <<>> /\ \A i \in 0..3 : g[i + 1] = g[i] \o seqs[i + 1]
  <2>1. 4 - 1 = 3
    OBVIOUS
  <2> QED BY <1>1, <1>2, <2>1 DEF Joined
<1>4. g[1] = <<>> \o a
  <2>1. 0 \in 0..3 /\ 0 + 1 = 1
    OBVIOUS
  <2> QED BY <1>1, <1>3, <2>1
<1>5. g[1] = a
  BY <1>4, ConcatEmptySeq
<1>6. g[2] = g[1] \o b
  <2>1. 1 \in 0..3 /\ 1 + 1 = 2
    OBVIOUS
  <2> QED BY <1>1, <1>3, <2>1
<1>7. g[3] = g[2] \o c
  <2>1. 2 \in 0..3 /\ 2 + 1 = 3
    OBVIOUS
  <2> QED BY <1>1, <1>3, <2>1
<1>8. g[4] = g[3] \o d
  <2>1. 3 \in 0..3 /\ 3 + 1 = 4
    OBVIOUS
  <2> QED BY <1>1, <1>3, <2>1
<1> QED BY <1>2, <1>5, <1>6, <1>7, <1>8 DEF seqs, InOrder

-----------------------------------------------------------------------------
(* Atoms that have the same bits. *)

\* Trim changes no bit.
LEMMA TrimBits ==
    ASSUME NEW le \in Seq(Bit)
    PROVE  \A i \in Nat \ {0} : BitAt(Trim(le), i) = BitAt(le, i)
<1> SUFFICES ASSUME NEW i \in Nat \ {0} PROVE BitAt(Trim(le), i) = BitAt(le, i)
  OBVIOUS
<1> DEFINE t == Trim(le)
           sig == SigBits(le)
<1>1. /\ t \in Seq(Bit) /\ Len(t) = sig /\ sig \in Nat
      /\ \A j \in 1..sig : t[j] = le[j]
  BY TrimType
<1>2. sig <= Len(le) /\ Len(le) \in Nat /\ \A j \in 1..Len(le) : j > sig => le[j] = 0
  BY SigBitsTop
<1> HIDE DEF t, sig
<1>3. BitAt(t, i) = IF i <= sig THEN t[i] ELSE 0
  BY <1>1, BitAtType
<1>4. BitAt(le, i) = IF i <= Len(le) THEN le[i] ELSE 0
  BY BitAtType
<1>5. BitAt(t, i) = BitAt(le, i)
  <2>1. CASE i <= sig
    BY <1>1, <1>2, <1>3, <1>4, <2>1
  <2>2. CASE ~(i <= sig)
    BY <1>1, <1>2, <1>3, <1>4, <2>2
  <2> QED BY <2>1, <2>2
<1> QED BY <1>5 DEF t

\* Atoms with the same bits are the same number, whatever zeros on top.
LEMMA SameBits ==
    ASSUME NEW a \in Seq(Bit), NEW b \in Seq(Bit), \A i \in Nat \ {0} : BitAt(a, i) = BitAt(b, i)
    PROVE  NatOf(a) = NatOf(b)
<1> DEFINE w == Len(a) + Len(b)
           x == LeBits(w, a)
           y == LeBits(w, b)
<1>1. w \in Nat /\ Len(a) \in Nat /\ Len(b) \in Nat
  OBVIOUS
<1>2. NatOf(x) = NatOf(a)
  <2>1. \A i \in 1..Len(a) : i > w => a[i] = 0
    BY <1>1
  <2> HIDE DEF w
  <2> QED BY <1>1, <2>1, NatOfWider
<1>3. NatOf(y) = NatOf(b)
  <2>1. \A i \in 1..Len(b) : i > w => b[i] = 0
    BY <1>1
  <2> HIDE DEF w
  <2> QED BY <1>1, <2>1, NatOfWider
<1>4. /\ x \in Seq(Bit) /\ Len(x) = w
      /\ \A i \in 1..w : x[i] = IF i <= Len(a) THEN a[i] ELSE 0
  BY <1>1, LeBitsType
<1>5. /\ y \in Seq(Bit) /\ Len(y) = w
      /\ \A i \in 1..w : y[i] = IF i <= Len(b) THEN b[i] ELSE 0
  BY <1>1, LeBitsType
<1> HIDE DEF x, y, w
<1>6. ASSUME NEW i \in 1..w PROVE x[i] = y[i]
  <2>1. i \in Nat \ {0}
    BY <1>1
  <2>2. BitAt(a, i) = IF i <= Len(a) THEN a[i] ELSE 0
    BY <2>1, BitAtType
  <2>3. BitAt(b, i) = IF i <= Len(b) THEN b[i] ELSE 0
    BY <2>1, BitAtType
  <2> QED BY <1>4, <1>5, <2>1, <2>2, <2>3
<1>7. x = y
  BY <1>4, <1>5, <1>6, SeqEqual
<1> QED BY <1>2, <1>3, <1>7

\* And the other way: of one number, the same bits.
LEMMA BitsOfEqual ==
    ASSUME NEW a \in Seq(Bit), NEW b \in Seq(Bit), NatOf(a) = NatOf(b)
    PROVE  \A i \in Nat \ {0} : BitAt(a, i) = BitAt(b, i)
<1>1. Trim(a) = Trim(b)
  BY TrimOfEqual
<1> QED BY <1>1, TrimBits

\* ++mat does not see the zeros on top.
LEMMA MatOfTrim ==
    ASSUME NEW le \in Seq(Bit)
    PROVE  Mat(Trim(le)) = Mat(le)
<1> DEFINE t == Trim(le)
           b == SigBits(le)
<1>1. /\ t \in Seq(Bit) /\ Len(t) = b /\ b \in Nat
      /\ \A j \in 1..b : t[j] = le[j]
  BY TrimType
<1>2. b <= Len(le) /\ Len(le) \in Nat /\ (b > 0 => le[b] = 1)
  BY SigBitsTop
<1> HIDE DEF t
<1>3. SigBits(t) = b
  <2>1. b \in 0..Len(t) /\ (b > 0 => t[b] = 1) /\ \A i \in 1..Len(t) : i > b => t[i] = 0
    BY <1>1, <1>2
  <2> HIDE DEF b
  <2> QED BY <1>1, <2>1, SigBitsIs
<1>4. LeBits(b, t) = LeBits(b, le)
  <2> DEFINE x == LeBits(b, t)
             y == LeBits(b, le)
  <2>1. x \in Seq(Bit) /\ Len(x) = b /\ \A i \in 1..b : x[i] = IF i <= Len(t) THEN t[i] ELSE 0
    BY <1>1, LeBitsType
  <2>2. y \in Seq(Bit) /\ Len(y) = b /\ \A i \in 1..b : y[i] = IF i <= Len(le) THEN le[i] ELSE 0
    BY <1>1, LeBitsType
  <2> HIDE DEF x, y, b
  <2>3. \A i \in 1..b : x[i] = y[i]
    BY <1>1, <1>2, <2>1, <2>2
  <2>4. x = y
    BY <2>1, <2>2, <2>3, SeqEqual
  <2> QED BY <2>4 DEF x, y
<1> HIDE DEF b
<1>5. Mat(t) = Mat(le)
  BY <1>3, <1>4 DEF Mat, b
<1> QED BY <1>5 DEF t

\* An atom of known length is what is left of it, filled up with zeros.
LEMMA TrimBack ==
    ASSUME NEW le \in Seq(Bit)
    PROVE  LeBits(Len(le), Trim(le)) = le
<1> DEFINE t == Trim(le)
           x == LeBits(Len(le), t)
<1>1. t \in Seq(Bit) /\ Len(t) = SigBits(le) /\ \A j \in 1..SigBits(le) : t[j] = le[j]
  BY TrimType
<1>2. SigBits(le) \in Nat /\ Len(le) \in Nat /\ \A j \in 1..Len(le) : j > SigBits(le) => le[j] = 0
  BY SigBitsTop
<1> HIDE DEF t
<1>3. x \in Seq(Bit) /\ Len(x) = Len(le) /\ \A i \in 1..Len(le) : x[i] = IF i <= Len(t) THEN t[i] ELSE 0
  BY <1>1, <1>2, LeBitsType
<1> HIDE DEF x
<1>4. \A i \in 1..Len(le) : x[i] = le[i]
  BY <1>1, <1>2, <1>3
<1>5. x = le
  BY <1>3, <1>4, SeqEqual
<1> QED BY <1>5 DEF x, t

-----------------------------------------------------------------------------
(* Sequences of different length. *)

\* Where each of the sequences begins when they are flattened.
Offsets(off, seqs) ==
    /\ off \in [0..Len(seqs) -> Nat] /\ off[0] = 0
    /\ \A i \in 1..Len(seqs) : off[i] = off[i - 1] + Len(seqs[i])

\* Each of them is found at its offset.
Placed(flat, off, seqs) ==
    \A i \in 1..Len(seqs) : \A j \in 1..Len(seqs[i]) : flat[off[i - 1] + j] = seqs[i][j]

\* FlattenSeq puts each sequence at its offset.
LEMMA FlattenAt ==
    ASSUME NEW S, NEW seqs \in Seq(Seq(S)), NEW off, Offsets(off, seqs)
    PROVE  /\ FlattenSeq(seqs) \in Seq(S) /\ Len(FlattenSeq(seqs)) = off[Len(seqs)]
           /\ Placed(FlattenSeq(seqs), off, seqs)
<1> DEFINE n == Len(seqs)
<1>1. n \in Nat /\ \A i \in 1..n : seqs[i] \in Seq(S) /\ Len(seqs[i]) \in Nat
  OBVIOUS
<1>2. PICK g : Joined(g, seqs, S) /\ FlattenSeq(seqs) = g[n]
  BY FlattenJoins
<1>3. g \in [0..n -> Seq(S)] /\ g[0] = <<>> /\ \A i \in 0..(n - 1) : g[i + 1] = g[i] \o seqs[i + 1]
  BY <1>2 DEF Joined
<1>4. /\ off \in [0..n -> Nat] /\ off[0] = 0
      /\ \A i \in 1..n : off[i] = off[i - 1] + Len(seqs[i])
  BY DEF Offsets
<1> HIDE DEF n
<1> DEFINE Done(m) == /\ Len(g[m]) = off[m]
                      /\ \A i \in 1..m : \A j \in 1..Len(seqs[i]) :
                           off[i - 1] + j <= off[m] /\ g[m][off[i - 1] + j] = seqs[i][j]
           T == {m \in Nat : m <= n => Done(m)}
<1>5. 0 \in T
  BY <1>1, <1>3, <1>4
<1>6. ASSUME NEW m \in Nat, m \in T PROVE m + 1 \in T
  <2>1. SUFFICES ASSUME m + 1 <= n PROVE Done(m + 1)
    OBVIOUS
  <2>2. m \in 0..(n - 1) /\ m \in 0..n /\ m + 1 \in 1..n /\ (m + 1) - 1 = m /\ Done(m)
    BY <1>1, <1>6, <2>1
  <2> DEFINE a == g[m]
             b == seqs[m + 1]
  <2>3. a \in Seq(S) /\ b \in Seq(S) /\ g[m + 1] = a \o b /\ Len(b) \in Nat
    BY <1>1, <1>3, <2>2
  <2>4. Len(a) = off[m] /\ off[m] \in Nat /\ off[m + 1] = off[m] + Len(b)
    BY <1>4, <2>2
  <2>5. /\ Len(a \o b) = Len(a) + Len(b)
        /\ \A x \in 1..(Len(a) + Len(b)) : (a \o b)[x] = IF x <= Len(a) THEN a[x] ELSE b[x - Len(a)]
    BY <2>3, ConcatProperties
  <2>6. Len(g[m + 1]) = off[m + 1]
    BY <2>3, <2>4, <2>5
  <2>7. ASSUME NEW i \in 1..(m + 1), NEW j \in 1..Len(seqs[i])
        PROVE  off[i - 1] + j <= off[m + 1] /\ g[m + 1][off[i - 1] + j] = seqs[i][j]
    <3>1. i \in 1..n /\ i - 1 \in 0..n
      BY <1>1, <2>2
    <3> DEFINE o == off[i - 1]
               x == o + j
    <3>2. o \in Nat /\ Len(seqs[i]) \in Nat
      BY <1>1, <1>4, <3>1
    <3> HIDE DEF a, b
    <3>3. CASE i = m + 1
      <4>1. o = off[m] /\ seqs[i] = b
        BY <2>2, <3>3 DEF b
      <4> HIDE DEF o
      <4>2. j \in 1..Len(b) /\ x <= off[m + 1] /\ x \in 1..(Len(a) + Len(b)) /\ ~(x <= Len(a)) /\ x - Len(a) = j
        BY SMTT(30), <2>3, <2>4, <3>2, <4>1
      <4> HIDE DEF x
      <4>3. (a \o b)[x] = b[j]
        BY <2>5, <4>2
      <4> QED BY <2>3, <4>1, <4>2, <4>3 DEF x, o, a, b
    <3>4. CASE i # m + 1
      <4>1. i \in 1..m
        BY <3>4
      <4>2. x <= off[m] /\ a[x] = seqs[i][j]
        BY <2>2, <4>1 DEF a
      <4> HIDE DEF o
      <4>3. x \in 1..(Len(a) + Len(b)) /\ x <= Len(a) /\ x <= off[m + 1]
        BY SMTT(30), <2>3, <2>4, <3>2, <4>2
      <4> HIDE DEF x
      <4>4. (a \o b)[x] = a[x]
        BY <2>5, <4>3
      <4> QED BY <2>3, <4>2, <4>3, <4>4 DEF x, o, a, b
    <3> QED BY <3>3, <3>4
  <2>8. \A i \in 1..(m + 1) : \A j \in 1..Len(seqs[i]) :
          off[i - 1] + j <= off[m + 1] /\ g[m + 1][off[i - 1] + j] = seqs[i][j]
    BY <2>7
  <2> QED BY <2>6, <2>8
<1>7. n \in T
  <2> HIDE DEF T
  <2> QED BY <1>1, <1>5, <1>6, NaturalInduction
<1>8. Done(n) /\ g[n] \in Seq(S)
  BY <1>1, <1>3, <1>7
<1> QED BY <1>2, <1>8 DEF n, Placed
=============================================================================
