----------------------------- MODULE Jam_proofs -----------------------------
(***************************************************************************)
(* The boot feed reads back: what Jam writes, ++cue reads as the noun that *)
(* was jammed, and the text of the feed stands for the stream.             *)
(***************************************************************************)
EXTENDS Jam, Bits_proofs

-----------------------------------------------------------------------------
(* Places. *)

\* One place is above another: the other begins with it.
LEMMA PrefixIs ==
    ASSUME NEW p \in Seq(Bit), NEW q \in Seq(Bit)
    PROVE  IsPrefix(p, q) <=> Len(p) <= Len(q) /\ \A i \in 1..Len(p) : p[i] = q[i]
<1>1. Len(p) \in Nat /\ Len(q) \in Nat
  OBVIOUS
<1>2. CASE Len(p) <= Len(q)
  <2> DEFINE s == SubSeq(p, 1, Len(p))
             t == SubSeq(q, 1, Len(p))
  <2>1. s = p
    BY SubSeqFull
  <2>2. /\ t \in Seq(Bit) /\ Len(t) = Len(p) /\ \A i \in 1..Len(p) : t[i] = q[i]
    BY <1>1, <1>2
  <2>3. IsPrefix(p, q) <=> s = t
    BY <1>2 DEF IsPrefix
  <2> HIDE DEF s, t
  <2>4. s = t <=> \A i \in 1..Len(p) : p[i] = q[i]
    BY <2>1, <2>2, SeqEqual
  <2> QED BY <1>2, <2>3, <2>4
<1>3. CASE ~(Len(p) <= Len(q))
  BY <1>3 DEF IsPrefix
<1> QED BY <1>2, <1>3

\* Every place is above itself, and the root above all.
LEMMA PrefixItself == \A p \in Seq(Bit) : IsPrefix(p, p) /\ IsPrefix(<<>>, p)
<1> SUFFICES ASSUME NEW p \in Seq(Bit) PROVE IsPrefix(p, p) /\ IsPrefix(<<>>, p)
  OBVIOUS
<1>1. IsPrefix(p, p)
  BY PrefixIs
<1> DEFINE e == <<>>
<1>2. e \in Seq(Bit) /\ Len(e) = 0 /\ Len(p) \in Nat
  OBVIOUS
<1> HIDE DEF e
<1>3. Len(e) <= Len(p) /\ \A i \in 1..Len(e) : e[i] = p[i]
  BY <1>2
<1>4. IsPrefix(e, p)
  BY <1>2, <1>3, PrefixIs
<1> QED BY <1>1, <1>4 DEF e

\* What is above what is above a place is above it.
LEMMA PrefixTransitive ==
    ASSUME NEW p \in Seq(Bit), NEW q \in Seq(Bit), NEW r \in Seq(Bit),
           IsPrefix(p, q), IsPrefix(q, r)
    PROVE  IsPrefix(p, r)
<1>1. /\ Len(p) \in Nat /\ Len(q) \in Nat /\ Len(r) \in Nat
      /\ Len(p) <= Len(q) /\ Len(q) <= Len(r)
      /\ \A i \in 1..Len(p) : p[i] = q[i]
      /\ \A i \in 1..Len(q) : q[i] = r[i]
  BY PrefixIs
<1>2. Len(p) <= Len(r) /\ \A i \in 1..Len(p) : p[i] = r[i]
  BY <1>1
<1> QED BY <1>2, PrefixIs

\* Of two places on the way to one, one is on the way to the other.
LEMMA PrefixesCompare ==
    ASSUME NEW p \in Seq(Bit), NEW q \in Seq(Bit), NEW r \in Seq(Bit),
           IsPrefix(p, r), IsPrefix(q, r)
    PROVE  IsPrefix(p, q) \/ IsPrefix(q, p)
<1>1. /\ Len(p) \in Nat /\ Len(q) \in Nat /\ Len(r) \in Nat
      /\ \A i \in 1..Len(p) : p[i] = r[i]
      /\ \A i \in 1..Len(q) : q[i] = r[i]
  BY PrefixIs
<1>2. CASE Len(p) <= Len(q)
  <2>1. \A i \in 1..Len(p) : p[i] = q[i]
    BY <1>1, <1>2
  <2> QED BY <1>2, <2>1, PrefixIs
<1>3. CASE Len(q) <= Len(p)
  <2>1. \A i \in 1..Len(q) : q[i] = p[i]
    BY <1>1, <1>3
  <2> QED BY <1>3, <2>1, PrefixIs
<1> QED BY <1>1, <1>2, <1>3

\* A place above another one is shorter.
LEMMA PrefixShorter ==
    ASSUME NEW p \in Seq(Bit), NEW q \in Seq(Bit), IsPrefix(p, q), p # q
    PROVE  Len(p) < Len(q)
<1>1. Len(p) \in Nat /\ Len(q) \in Nat /\ Len(p) <= Len(q) /\ \A i \in 1..Len(p) : p[i] = q[i]
  BY PrefixIs
<1>2. Len(p) # Len(q)
  BY <1>1, SeqEqual
<1> QED BY <1>1, <1>2

\* Two places above each other are one.
LEMMA PrefixBoth ==
    ASSUME NEW p \in Seq(Bit), NEW q \in Seq(Bit), IsPrefix(p, q), IsPrefix(q, p)
    PROVE  p = q
<1>1. Len(p) \in Nat /\ Len(q) \in Nat /\ Len(p) <= Len(q) /\ Len(q) <= Len(p)
      /\ \A i \in 1..Len(p) : p[i] = q[i]
  BY PrefixIs
<1> QED BY <1>1, SeqEqual

\* The head or the tail of a place is right below it.
LEMMA Branch ==
    ASSUME NEW p \in Seq(Bit), NEW b \in Bit
    PROVE  /\ Append(p, b) \in Seq(Bit) /\ Len(Append(p, b)) = Len(p) + 1
           /\ \A i \in 1..Len(p) : Append(p, b)[i] = p[i]
           /\ Append(p, b)[Len(p) + 1] = b
           /\ IsPrefix(p, Append(p, b)) /\ ~IsPrefix(Append(p, b), p)
<1>1. /\ Append(p, b) \in Seq(Bit) /\ Len(Append(p, b)) = Len(p) + 1 /\ Len(p) \in Nat
      /\ \A i \in 1..Len(p) : Append(p, b)[i] = p[i]
      /\ Append(p, b)[Len(p) + 1] = b
  BY AppendProperties
<1> DEFINE a == Append(p, b)
<1> HIDE DEF a
<1>2. a \in Seq(Bit) /\ Len(p) <= Len(a) /\ ~(Len(a) <= Len(p)) /\ \A i \in 1..Len(p) : p[i] = a[i]
  BY <1>1 DEF a
<1>3. IsPrefix(p, a) /\ ~IsPrefix(a, p)
  BY <1>2, PrefixIs
<1> QED BY <1>1, <1>3 DEF a

\* What is on the way to a branch is the branch, or on the way to where it starts.
LEMMA PrefixOfBranch ==
    ASSUME NEW p \in Seq(Bit), NEW b \in Bit, NEW r \in Seq(Bit), IsPrefix(r, Append(p, b))
    PROVE  r = Append(p, b) \/ IsPrefix(r, p)
<1> DEFINE a == Append(p, b)
<1>1. /\ a \in Seq(Bit) /\ Len(a) = Len(p) + 1 /\ Len(p) \in Nat
      /\ \A i \in 1..Len(p) : a[i] = p[i]
  BY Branch
<1>0. IsPrefix(r, a)
  OBVIOUS
<1> HIDE DEF a
<1>2. Len(r) \in Nat /\ Len(r) <= Len(a) /\ \A i \in 1..Len(r) : r[i] = a[i]
  BY <1>0, <1>1, PrefixIs
<1>3. CASE Len(r) = Len(a)
  <2>1. r = a
    BY <1>1, <1>2, <1>3, SeqEqual
  <2> QED BY <2>1 DEF a
<1>4. CASE Len(r) # Len(a)
  <2>1. Len(r) <= Len(p) /\ \A i \in 1..Len(r) : r[i] = p[i]
    BY <1>1, <1>2, <1>4
  <2> QED BY <2>1, PrefixIs
<1> QED BY <1>3, <1>4

\* Head and tail are not above each other.
LEMMA BranchesApart ==
    ASSUME NEW p \in Seq(Bit)
    PROVE  /\ ~IsPrefix(Append(p, 0), Append(p, 1))
           /\ ~IsPrefix(Append(p, 1), Append(p, 0))
<1>1. 0 \in Bit /\ 1 \in Bit
  BY DEF Bit
<1>2. /\ Append(p, 0) \in Seq(Bit) /\ Append(p, 1) \in Seq(Bit) /\ Len(p) \in Nat
      /\ Len(Append(p, 0)) = Len(p) + 1 /\ Len(Append(p, 1)) = Len(p) + 1
      /\ Append(p, 0)[Len(p) + 1] = 0 /\ Append(p, 1)[Len(p) + 1] = 1
  BY <1>1, Branch
<1> DEFINE a == Append(p, 0)
           c == Append(p, 1)
           i == Len(p) + 1
<1> HIDE DEF a, c, i
<1>3. a \in Seq(Bit) /\ c \in Seq(Bit) /\ i \in 1..Len(a) /\ i \in 1..Len(c) /\ a[i] # c[i]
  BY <1>2 DEF a, c, i
<1>4. ~IsPrefix(a, c) /\ ~IsPrefix(c, a)
  BY <1>3, PrefixIs
<1> QED BY <1>4 DEF a, c

\* What is below a place is the place, or below one of its branches.
LEMMA BelowBranches ==
    ASSUME NEW p \in Seq(Bit), NEW q \in Seq(Bit), IsPrefix(p, q), p # q
    PROVE  /\ Len(p) + 1 \in 1..Len(q) /\ q[Len(p) + 1] \in Bit
           /\ IsPrefix(Append(p, q[Len(p) + 1]), q)
           /\ SubSeq(q, 1, Len(p)) = p
<1>1. Len(p) < Len(q) /\ Len(p) \in Nat /\ Len(q) \in Nat
  BY PrefixShorter
<1>2. Len(p) + 1 \in 1..Len(q)
  BY <1>1
<1>3. q[Len(p) + 1] \in Bit
  BY <1>2
<1> DEFINE b == q[Len(p) + 1]
           a == Append(p, b)
<1>4. \A i \in 1..Len(p) : p[i] = q[i]
  BY PrefixIs
<1>5. /\ a \in Seq(Bit) /\ Len(a) = Len(p) + 1
      /\ \A i \in 1..Len(p) : a[i] = p[i]
      /\ a[Len(p) + 1] = b
  BY <1>3, Branch
<1> HIDE DEF a
<1>6. \A i \in 1..Len(a) : a[i] = q[i]
  BY <1>1, <1>4, <1>5
<1>7. IsPrefix(a, q)
  BY <1>1, <1>5, <1>6, PrefixIs
<1>8. SubSeq(q, 1, Len(p)) \in Seq(Bit) /\ Len(SubSeq(q, 1, Len(p))) = Len(p)
      /\ \A i \in 1..Len(p) : SubSeq(q, 1, Len(p))[i] = q[i]
  BY <1>1
<1>9. SubSeq(q, 1, Len(p)) = p
  BY <1>4, <1>8, SeqEqual
<1> QED BY <1>2, <1>3, <1>7, <1>9 DEF a

\* The rest of a place, from one on the way to it.
LEMMA RestType ==
    ASSUME NEW p \in Seq(Bit), NEW q \in Seq(Bit), IsPrefix(p, q)
    PROVE  /\ Rest(p, q) \in Seq(Bit) /\ Len(Rest(p, q)) = Len(q) - Len(p)
           /\ p \o Rest(p, q) = q
<1>1. Len(p) \in Nat /\ Len(q) \in Nat /\ Len(p) <= Len(q) /\ \A i \in 1..Len(p) : p[i] = q[i]
  BY PrefixIs
<1> DEFINE r == Rest(p, q)
<1>2. /\ r \in Seq(Bit) /\ Len(r) = Len(q) - Len(p)
      /\ \A i \in 1..(Len(q) - Len(p)) : r[i] = q[Len(p) + i]
  <2>1. \A i \in (Len(p) + 1)..Len(q) : q[i] \in Bit
    BY <1>1
  <2> QED BY <1>1, <2>1 DEF Rest
<1> HIDE DEF r
<1>3. /\ p \o r \in Seq(Bit) /\ Len(p \o r) = Len(q)
      /\ \A i \in 1..Len(q) : (p \o r)[i] = IF i <= Len(p) THEN p[i] ELSE r[i - Len(p)]
  BY <1>1, <1>2, ConcatProperties
<1>4. ASSUME NEW i \in 1..Len(q) PROVE (p \o r)[i] = q[i]
  <2>1. CASE i <= Len(p)
    BY <1>1, <1>3, <2>1
  <2>2. CASE ~(i <= Len(p))
    <3>1. i - Len(p) \in 1..(Len(q) - Len(p)) /\ Len(p) + (i - Len(p)) = i
      BY <1>1, <2>2
    <3> QED BY <1>2, <1>3, <2>2, <3>1
  <2> QED BY <2>1, <2>2
<1>5. p \o r = q
  BY <1>3, <1>4, SeqEqual
<1> QED BY <1>2, <1>5 DEF r

-----------------------------------------------------------------------------
(* The holes a reader has still to fill, and what it has seen. *)

\* A place in a noun: some atom is at it or below.
IsPlace(n, p) == p \in Seq(Bit) /\ \E q \in DOMAIN n : IsPrefix(p, q)

\* What is still to be written or read: places apart from each other, in order.
Holes(n, holes) ==
    /\ holes \in Seq(Seq(Bit))
    /\ \A k \in 1..Len(holes) : IsPlace(n, holes[k])
    /\ \A j, k \in 1..Len(holes) : IsPrefix(holes[j], holes[k]) => j = k

\* The atoms that are in none of them.
Filled(n, holes) == {q \in DOMAIN n : \A k \in 1..Len(holes) : ~IsPrefix(holes[k], q)}

\* Where each noun was seen: at its own index, outside the holes, and if it has a
\* hole, with all those before that one.
Seen(n, holes, seen, len) ==
    /\ \A s \in seen : s \in Nat \X Seq(Bit) /\ s[1] < len /\ IsPlace(n, s[2])
    /\ \A s, t \in seen : s[1] = t[1] => s = t
    /\ \A s \in seen : \A k \in 1..Len(holes) : ~IsPrefix(holes[k], s[2])
    /\ \A s \in seen : \A j, k \in 1..Len(holes) :
         j <= k /\ IsPrefix(s[2], holes[k]) => IsPrefix(s[2], holes[j])

\* The places that are left when a cell is written.
Branched(holes) == <<Append(Head(holes), 0), Append(Head(holes), 1)>> \o Tail(holes)

\* The next place to write, and those after it.
LEMMA HolesTop ==
    ASSUME NEW n, NEW holes, Holes(n, holes), holes # <<>>
    PROVE  /\ Head(holes) = holes[1] /\ holes[1] \in Seq(Bit) /\ IsPlace(n, holes[1])
           /\ 1 \in 1..Len(holes) /\ Len(holes) \in Nat
           /\ Tail(holes) \in Seq(Seq(Bit)) /\ Len(Tail(holes)) = Len(holes) - 1
           /\ \A k \in 1..Len(Tail(holes)) : k + 1 \in 1..Len(holes) /\ Tail(holes)[k] = holes[k + 1]
           /\ \A k \in 1..Len(holes) : holes[k] \in Seq(Bit)
<1>1. holes \in Seq(Seq(Bit))
  BY DEF Holes
<1>2. Len(holes) \in Nat /\ Len(holes) # 0 /\ Head(holes) = holes[1]
  BY <1>1
<1>3. /\ Tail(holes) \in Seq(Seq(Bit)) /\ Len(Tail(holes)) = Len(holes) - 1
      /\ \A k \in 1..Len(Tail(holes)) : Tail(holes)[k] = holes[k + 1]
  BY <1>1, HeadTailProperties
<1>4. 1 \in 1..Len(holes) /\ \A k \in 1..Len(Tail(holes)) : k + 1 \in 1..Len(holes)
  BY <1>2, <1>3
<1>5. \A k \in 1..Len(holes) : holes[k] \in Seq(Bit)
  BY <1>1
<1>6. IsPlace(n, holes[1])
  BY <1>4 DEF Holes
<1> QED BY <1>2, <1>3, <1>4, <1>5, <1>6

\* Filling the first hole.
LEMMA HolesPop ==
    ASSUME NEW n, IsNoun(n), NEW holes, Holes(n, holes), holes # <<>>
    PROVE  /\ Holes(n, Tail(holes))
           /\ Filled(n, Tail(holes)) = Filled(n, holes) \cup Below(n, Head(holes))
<1> DEFINE p == holes[1]
           t == Tail(holes)
<1>1. /\ Head(holes) = p /\ p \in Seq(Bit) /\ 1 \in 1..Len(holes) /\ Len(holes) \in Nat
      /\ t \in Seq(Seq(Bit)) /\ Len(t) = Len(holes) - 1
      /\ \A k \in 1..Len(t) : k + 1 \in 1..Len(holes) /\ t[k] = holes[k + 1]
      /\ \A k \in 1..Len(holes) : holes[k] \in Seq(Bit)
  BY HolesTop
<1> HIDE DEF t
<1>2. /\ \A k \in 1..Len(holes) : IsPlace(n, holes[k])
      /\ \A j, k \in 1..Len(holes) : IsPrefix(holes[j], holes[k]) => j = k
  BY DEF Holes
<1>3. Holes(n, t)
  <2>1. \A k \in 1..Len(t) : IsPlace(n, t[k])
    BY <1>1, <1>2
  <2>2. ASSUME NEW j \in 1..Len(t), NEW k \in 1..Len(t), IsPrefix(t[j], t[k]) PROVE j = k
    <3>1. IsPrefix(holes[j + 1], holes[k + 1]) /\ j + 1 \in 1..Len(holes) /\ k + 1 \in 1..Len(holes)
      BY <1>1, <2>2
    <3>2. j + 1 = k + 1
      BY <1>2, <3>1
    <3> QED BY <3>2
  <2> QED BY <1>1, <2>1, <2>2 DEF Holes
<1>4. \A q \in DOMAIN n : q \in Seq(Bit)
  BY DEF IsNoun
<1>5. ASSUME NEW q \in DOMAIN n, q \in Filled(n, t), ~IsPrefix(p, q) PROVE q \in Filled(n, holes)
  <2>1. ASSUME NEW k \in 1..Len(holes) PROVE ~IsPrefix(holes[k], q)
    <3>1. CASE k = 1
      BY <1>5, <3>1
    <3>2. CASE k # 1
      <4>1. k - 1 \in 1..Len(t) /\ (k - 1) + 1 = k
        BY <1>1, <3>2
      <4>2. t[k - 1] = holes[k]
        BY <1>1, <4>1
      <4> QED BY <1>5, <4>1, <4>2 DEF Filled
    <3> QED BY <3>1, <3>2
  <2> QED BY <2>1 DEF Filled
<1>6. ASSUME NEW q \in DOMAIN n, q \in Filled(n, holes) PROVE q \in Filled(n, t)
  BY <1>1, <1>6 DEF Filled
<1>7. ASSUME NEW q \in DOMAIN n, IsPrefix(p, q) PROVE q \in Filled(n, t)
  <2>1. ASSUME NEW k \in 1..Len(t), IsPrefix(t[k], q) PROVE FALSE
    <3>1. /\ k + 1 \in 1..Len(holes) /\ t[k] = holes[k + 1] /\ holes[k + 1] \in Seq(Bit)
          /\ k + 1 # 1
      BY <1>1
    <3>2. IsPrefix(p, holes[k + 1]) \/ IsPrefix(holes[k + 1], p)
      BY <1>1, <1>4, <1>7, <2>1, <3>1, PrefixesCompare
    <3> QED BY <1>1, <1>2, <3>1, <3>2
  <2> QED BY <2>1 DEF Filled
<1>8. Filled(n, t) = Filled(n, holes) \cup Below(n, p)
  <2>1. ASSUME NEW q \in DOMAIN n
        PROVE  q \in Filled(n, t) <=> q \in Filled(n, holes) \cup Below(n, p)
    BY <1>5, <1>6, <1>7 DEF Below
  <2>2. Filled(n, t) \subseteq DOMAIN n /\ Filled(n, holes) \cup Below(n, p) \subseteq DOMAIN n
    BY DEF Filled, Below
  <2> QED BY <2>1, <2>2
<1> QED BY <1>1, <1>3, <1>8 DEF t

\* Both branches of a hole that is no atom are places, and nothing is between.
LEMMA CellBranches ==
    ASSUME NEW n, IsNoun(n), NEW p, IsPlace(n, p), p \notin DOMAIN n
    PROVE  /\ IsPlace(n, Append(p, 0)) /\ IsPlace(n, Append(p, 1))
           /\ \A q \in DOMAIN n : IsPrefix(p, q) =>
                IsPrefix(Append(p, 0), q) \/ IsPrefix(Append(p, 1), q)
<1>0. p \in Seq(Bit) /\ \A q \in DOMAIN n : q \in Seq(Bit)
  BY DEF IsPlace, IsNoun
<1>1. ASSUME NEW q \in DOMAIN n, IsPrefix(p, q)
      PROVE  IsPrefix(Append(p, 0), q) \/ IsPrefix(Append(p, 1), q)
  <2>1. p # q
    BY <1>1
  <2>2. q[Len(p) + 1] \in Bit /\ IsPrefix(Append(p, q[Len(p) + 1]), q)
    BY <1>0, <1>1, <2>1, BelowBranches
  <2> QED BY <2>2 DEF Bit
<1>2. PICK q \in DOMAIN n : IsPrefix(p, q)
  BY DEF IsPlace
<1> DEFINE i == Len(p) + 1
<1>3. p # q
  BY <1>2
<1>4. /\ i \in 1..Len(q) /\ q[i] \in Bit /\ IsPrefix(Append(p, q[i]), q)
      /\ SubSeq(q, 1, Len(p)) = p /\ i - 1 = Len(p)
  BY <1>0, <1>2, <1>3, BelowBranches
<1>5. i \in DOMAIN q
  BY <1>0, <1>4
<1>6. \E r \in DOMAIN n : IsPrefix(Append(SubSeq(q, 1, i - 1), 1 - q[i]), r)
  <2> HIDE DEF i
  <2> QED BY <1>5 DEF IsNoun
<1>7. \E r \in DOMAIN n : IsPrefix(Append(p, 1 - q[i]), r)
  <2> HIDE DEF i
  <2> QED BY <1>4, <1>6
<1>8. Append(p, 0) \in Seq(Bit) /\ Append(p, 1) \in Seq(Bit)
  BY <1>0 DEF Bit
<1> HIDE DEF i
<1>9. \/ q[i] = 0 /\ 1 - q[i] = 1
      \/ q[i] = 1 /\ 1 - q[i] = 0
  BY <1>4 DEF Bit
<1>10. IsPlace(n, Append(p, 0)) /\ IsPlace(n, Append(p, 1))
  <2>1. CASE q[i] = 0
    <3>1. IsPrefix(Append(p, 0), q) /\ \E r \in DOMAIN n : IsPrefix(Append(p, 1), r)
      BY <1>4, <1>7, <1>9, <2>1
    <3> QED BY <1>8, <3>1 DEF IsPlace
  <2>2. CASE q[i] = 1
    <3>1. IsPrefix(Append(p, 1), q) /\ \E r \in DOMAIN n : IsPrefix(Append(p, 0), r)
      BY <1>4, <1>7, <1>9, <2>2
    <3> QED BY <1>8, <3>1 DEF IsPlace
  <2> QED BY <1>9, <2>1, <2>2
<1> QED BY <1>1, <1>10

\* Head, tail, and then the places there were.
LEMMA BranchedIs ==
    ASSUME NEW n, NEW holes, Holes(n, holes), holes # <<>>
    PROVE  /\ Branched(holes) \in Seq(Seq(Bit))
           /\ Len(Branched(holes)) = Len(holes) + 1 /\ Len(holes) \in Nat
           /\ Branched(holes)[1] = Append(holes[1], 0)
           /\ Branched(holes)[2] = Append(holes[1], 1)
           /\ \A k \in 3..(Len(holes) + 1) :
                k - 1 \in 1..Len(holes) /\ Branched(holes)[k] = holes[k - 1]
<1> DEFINE p == holes[1]
           a == Append(p, 0)
           b == Append(p, 1)
           t == Tail(holes)
<1>1. /\ Head(holes) = p /\ p \in Seq(Bit) /\ Len(holes) \in Nat
      /\ t \in Seq(Seq(Bit)) /\ Len(t) = Len(holes) - 1
      /\ \A k \in 1..Len(t) : t[k] = holes[k + 1]
  BY HolesTop
<1>2. a \in Seq(Bit) /\ b \in Seq(Bit)
  BY <1>1 DEF Bit
<1>3. Branched(holes) = <<a, b>> \o t
  BY <1>1 DEF Branched
<1> HIDE DEF a, b, t, p
<1> DEFINE c == <<a, b>>
<1>4. c \in Seq(Seq(Bit)) /\ Len(c) = 2 /\ c[1] = a /\ c[2] = b
  BY <1>2
<1>5. Branched(holes) = c \o t
  BY <1>3
<1> HIDE DEF c
<1>6. /\ c \o t \in Seq(Seq(Bit)) /\ Len(c \o t) = Len(c) + Len(t)
      /\ \A i \in 1..(Len(c) + Len(t)) : (c \o t)[i] = IF i <= Len(c) THEN c[i] ELSE t[i - Len(c)]
  BY <1>1, <1>4, ConcatProperties
<1> DEFINE s == c \o t
<1> HIDE DEF s
<1>7. /\ s \in Seq(Seq(Bit)) /\ Len(s) = Len(holes) + 1
      /\ \A i \in 1..(Len(holes) + 1) : s[i] = IF i <= 2 THEN c[i] ELSE t[i - 2]
  BY SMTT(30), <1>1, <1>4, <1>6 DEF s
<1>8. 1 \in 1..(Len(holes) + 1) /\ s[1] = c[1]
  BY <1>1, <1>7
<1>9. holes # <<>> => 2 \in 1..(Len(holes) + 1) /\ s[2] = c[2]
  <2>1. Len(holes) >= 1
    BY HolesTop
  <2> QED BY <1>1, <1>7, <2>1
<1>10. ASSUME NEW k \in 3..(Len(holes) + 1)
       PROVE  k - 1 \in 1..Len(holes) /\ s[k] = holes[k - 1]
  <2>1. k \in 1..(Len(holes) + 1) /\ ~(k <= 2) /\ k - 2 \in 1..Len(t) /\ (k - 2) + 1 = k - 1
        /\ k - 1 \in 1..Len(holes)
    BY <1>1
  <2>2. s[k] = t[k - 2]
    BY <1>7, <2>1
  <2>3. t[k - 2] = holes[(k - 2) + 1]
    BY <1>1, <2>1
  <2> QED BY <2>1, <2>2, <2>3
<1> QED BY <1>1, <1>4, <1>5, <1>7, <1>8, <1>9, <1>10 DEF s, a, b, p

\* A hole that becomes a cell.
LEMMA HolesBranch ==
    ASSUME NEW n, IsNoun(n), NEW holes, Holes(n, holes), holes # <<>>, Head(holes) \notin DOMAIN n
    PROVE  /\ Holes(n, Branched(holes))
           /\ Filled(n, Branched(holes)) = Filled(n, holes)
<1> DEFINE p == holes[1]
           a == Append(p, 0)
           b == Append(p, 1)
           h == Branched(holes)
<1>1. /\ Head(holes) = p /\ p \in Seq(Bit) /\ 1 \in 1..Len(holes) /\ Len(holes) \in Nat
      /\ IsPlace(n, p)
      /\ \A k \in 1..Len(holes) : holes[k] \in Seq(Bit)
  BY HolesTop
<1>2. /\ h \in Seq(Seq(Bit)) /\ Len(h) = Len(holes) + 1
      /\ h[1] = a /\ h[2] = b
      /\ \A k \in 3..(Len(holes) + 1) : k - 1 \in 1..Len(holes) /\ h[k] = holes[k - 1]
  BY BranchedIs
<1>3. /\ a \in Seq(Bit) /\ IsPrefix(p, a) /\ ~IsPrefix(a, p)
      /\ b \in Seq(Bit) /\ IsPrefix(p, b) /\ ~IsPrefix(b, p)
      /\ ~IsPrefix(a, b) /\ ~IsPrefix(b, a)
  <2>1. 0 \in Bit /\ 1 \in Bit
    BY DEF Bit
  <2> QED BY <1>1, <2>1, Branch, BranchesApart
<1>4. /\ \A k \in 1..Len(holes) : IsPlace(n, holes[k])
      /\ \A j, k \in 1..Len(holes) : IsPrefix(holes[j], holes[k]) => j = k
  BY DEF Holes
<1>5. /\ IsPlace(n, a) /\ IsPlace(n, b)
      /\ \A q \in DOMAIN n : IsPrefix(p, q) => IsPrefix(a, q) \/ IsPrefix(b, q)
  BY <1>1, CellBranches
<1>6. \A q \in DOMAIN n : q \in Seq(Bit)
  BY DEF IsNoun
<1>7. ASSUME NEW c \in Seq(Bit), c = a \/ c = b, NEW k \in 3..(Len(holes) + 1)
      PROVE  ~IsPrefix(c, h[k]) /\ ~IsPrefix(h[k], c)
  <2>1. k - 1 \in 1..Len(holes) /\ k - 1 # 1 /\ h[k] = holes[k - 1] /\ holes[k - 1] \in Seq(Bit)
    BY SMTT(30), <1>1, <1>2
  <2> DEFINE g == holes[k - 1]
  <2>2. ~IsPrefix(p, g) /\ ~IsPrefix(g, p)
    BY <1>1, <1>4, <2>1
  <2>3. IsPrefix(p, c) /\ g \in Seq(Bit)
    BY <1>3, <1>7, <2>1
  <2> HIDE DEF g, p, a, b
  <2>4. ~IsPrefix(c, g)
    BY <1>1, <2>2, <2>3, PrefixTransitive
  <2>5. ~IsPrefix(g, c)
    BY <1>1, <2>2, <2>3, PrefixesCompare
  <2> QED BY <2>1, <2>4, <2>5 DEF g
<1> HIDE DEF a, b, p, h
<1>8. \A k \in 1..Len(h) : k = 1 \/ k = 2 \/ k \in 3..(Len(holes) + 1)
  BY <1>1, <1>2
<1>9. \A k \in 1..Len(h) : IsPlace(n, h[k])
  BY <1>2, <1>4, <1>5, <1>8
<1>10. ASSUME NEW j \in 1..Len(h), NEW k \in 1..Len(h), IsPrefix(h[j], h[k]) PROVE j = k
  <2>1. CASE j \in 3..(Len(holes) + 1) /\ k \in 3..(Len(holes) + 1)
    <3>1. /\ j - 1 \in 1..Len(holes) /\ k - 1 \in 1..Len(holes)
          /\ IsPrefix(holes[j - 1], holes[k - 1])
      BY <1>2, <1>10, <2>1
    <3>2. j - 1 = k - 1
      BY <1>4, <3>1
    <3> QED BY <2>1, <3>2
  <2>2. CASE ~(j \in 3..(Len(holes) + 1)) /\ k \in 3..(Len(holes) + 1)
    BY <1>2, <1>3, <1>7, <1>8, <1>10, <2>2
  <2>3. CASE j \in 3..(Len(holes) + 1) /\ ~(k \in 3..(Len(holes) + 1))
    BY <1>2, <1>3, <1>7, <1>8, <1>10, <2>3
  <2>4. CASE ~(j \in 3..(Len(holes) + 1)) /\ ~(k \in 3..(Len(holes) + 1))
    BY <1>2, <1>3, <1>8, <1>10, <2>4
  <2> QED BY <2>1, <2>2, <2>3, <2>4
<1>11. Holes(n, h)
  BY <1>2, <1>9, <1>10 DEF Holes
<1>12. ASSUME NEW q \in DOMAIN n, q \in Filled(n, holes) PROVE q \in Filled(n, h)
  <2>1. ASSUME NEW k \in 1..Len(h), IsPrefix(h[k], q) PROVE FALSE
    <3>1. CASE k \in 3..(Len(holes) + 1)
      BY <1>2, <1>12, <2>1, <3>1 DEF Filled
    <3>2. CASE ~(k \in 3..(Len(holes) + 1))
      <4>1. h[k] = a \/ h[k] = b
        BY <1>2, <1>8, <3>2
      <4>2. IsPrefix(p, q)
        BY <1>1, <1>3, <1>6, <2>1, <4>1, PrefixTransitive
      <4> QED BY <1>1, <1>12, <4>2 DEF Filled, p
    <3> QED BY <3>1, <3>2
  <2> QED BY <2>1 DEF Filled
<1>13. ASSUME NEW q \in DOMAIN n, q \in Filled(n, h) PROVE q \in Filled(n, holes)
  <2>1. ASSUME NEW k \in 1..Len(holes), IsPrefix(holes[k], q) PROVE FALSE
    <3>1. CASE k = 1
      <4>1. IsPrefix(a, q) \/ IsPrefix(b, q)
        BY <1>5, <2>1, <3>1 DEF p
      <4>2. 1 \in 1..Len(h) /\ 2 \in 1..Len(h)
        BY <1>1, <1>2
      <4> QED BY <1>2, <1>13, <4>1, <4>2 DEF Filled
    <3>2. CASE k # 1
      <4>1. k + 1 \in 3..(Len(holes) + 1) /\ (k + 1) - 1 = k /\ k + 1 \in 1..Len(h)
        BY <1>1, <1>2, <3>2
      <4>2. h[k + 1] = holes[k]
        BY <1>2, <4>1
      <4> QED BY <1>13, <2>1, <4>1, <4>2 DEF Filled
    <3> QED BY <3>1, <3>2
  <2> QED BY <2>1 DEF Filled
<1>14. Filled(n, h) = Filled(n, holes)
  <2>1. Filled(n, h) \subseteq DOMAIN n /\ Filled(n, holes) \subseteq DOMAIN n
    BY DEF Filled
  <2> QED BY <1>12, <1>13, <2>1
<1> QED BY <1>11, <1>14 DEF h

\* Writing a cell keeps what is known of the places that were begun.
LEMMA SeenBranch ==
    ASSUME NEW n, IsNoun(n), NEW holes, Holes(n, holes), holes # <<>>, Head(holes) \notin DOMAIN n,
           NEW seen, NEW len \in Nat, Seen(n, holes, seen, len)
    PROVE  Seen(n, Branched(holes), seen \cup {<<len, Head(holes)>>}, len + 2)
<1> DEFINE p == holes[1]
           a == Append(p, 0)
           b == Append(p, 1)
           h == Branched(holes)
           new == <<len, p>>
           all == seen \cup {new}
<1>1. /\ Head(holes) = p /\ p \in Seq(Bit) /\ 1 \in 1..Len(holes) /\ Len(holes) \in Nat
      /\ IsPlace(n, p)
      /\ \A k \in 1..Len(holes) : holes[k] \in Seq(Bit)
  BY HolesTop
<1>2. /\ h \in Seq(Seq(Bit)) /\ Len(h) = Len(holes) + 1
      /\ h[1] = a /\ h[2] = b
      /\ \A k \in 3..(Len(holes) + 1) : k - 1 \in 1..Len(holes) /\ h[k] = holes[k - 1]
  BY BranchedIs
<1>3. /\ a \in Seq(Bit) /\ IsPrefix(p, a) /\ ~IsPrefix(a, p)
      /\ b \in Seq(Bit) /\ IsPrefix(p, b) /\ ~IsPrefix(b, p)
      /\ \A r \in Seq(Bit) : IsPrefix(r, a) => r = a \/ IsPrefix(r, p)
      /\ \A r \in Seq(Bit) : IsPrefix(r, b) => r = b \/ IsPrefix(r, p)
  <2>1. 0 \in Bit /\ 1 \in Bit
    BY DEF Bit
  <2>2. /\ a \in Seq(Bit) /\ IsPrefix(p, a) /\ ~IsPrefix(a, p)
        /\ b \in Seq(Bit) /\ IsPrefix(p, b) /\ ~IsPrefix(b, p)
    BY <1>1, <2>1, Branch
  <2>3. /\ \A r \in Seq(Bit) : IsPrefix(r, a) => r = a \/ IsPrefix(r, p)
        /\ \A r \in Seq(Bit) : IsPrefix(r, b) => r = b \/ IsPrefix(r, p)
    BY <1>1, <2>1, PrefixOfBranch
  <2> QED BY <2>2, <2>3
<1>4. \A j, k \in 1..Len(holes) : IsPrefix(holes[j], holes[k]) => j = k
  BY DEF Holes
<1>5. new[1] = len /\ new[2] = p /\ new \in Nat \X Seq(Bit)
  BY <1>1
<1>6. /\ \A s \in seen : s \in Nat \X Seq(Bit) /\ s[1] < len /\ IsPlace(n, s[2])
      /\ \A s, t \in seen : s[1] = t[1] => s = t
      /\ \A s \in seen : \A k \in 1..Len(holes) : ~IsPrefix(holes[k], s[2])
      /\ \A s \in seen : \A j, k \in 1..Len(holes) :
           j <= k /\ IsPrefix(s[2], holes[k]) => IsPrefix(s[2], holes[j])
  BY DEF Seen
<1>7. \A s \in seen : s[2] \in Seq(Bit) /\ s[1] \in Nat
  BY <1>6
<1> HIDE DEF a, b, p, h, new
<1>8. \A k \in 1..Len(h) : k = 1 \/ k = 2 \/ k \in 3..(Len(holes) + 1)
  BY <1>1, <1>2
<1>9. \A s \in all : s \in Nat \X Seq(Bit) /\ s[1] < len + 2 /\ IsPlace(n, s[2])
  <2>1. \A s \in seen : s[1] < len + 2
    BY <1>6, <1>7
  <2>2. new[1] < len + 2
    BY <1>5
  <2> QED BY <1>1, <1>5, <1>6, <2>1, <2>2
<1>10. \A s, t \in all : s[1] = t[1] => s = t
  <2>1. \A s \in seen : s[1] # new[1]
    BY <1>5, <1>6, <1>7
  <2> QED BY <1>6, <2>1
<1>11. ASSUME NEW s \in all, NEW k \in 1..Len(h), IsPrefix(h[k], s[2]) PROVE FALSE
  <2>1. CASE s \in seen
    <3>1. CASE k \in 3..(Len(holes) + 1)
      BY <1>2, <1>6, <1>11, <2>1, <3>1
    <3>2. CASE ~(k \in 3..(Len(holes) + 1))
      <4>1. h[k] = a \/ h[k] = b
        BY <1>2, <1>8, <3>2
      <4>2. IsPrefix(p, s[2])
        BY <1>1, <1>3, <1>7, <1>11, <2>1, <4>1, PrefixTransitive
      <4> QED BY <1>1, <1>6, <2>1, <4>2 DEF p
    <3> QED BY <3>1, <3>2
  <2>2. CASE s = new
    <3>1. IsPrefix(h[k], p)
      BY <1>5, <1>11, <2>2
    <3>2. CASE k \in 3..(Len(holes) + 1)
      <4>1. k - 1 \in 1..Len(holes) /\ k - 1 # 1 /\ h[k] = holes[k - 1]
        BY SMTT(30), <1>1, <1>2, <3>2
      <4> QED BY <1>1, <1>4, <3>1, <4>1 DEF p
    <3>3. CASE ~(k \in 3..(Len(holes) + 1))
      BY <1>2, <1>3, <1>8, <3>1, <3>3
    <3> QED BY <3>2, <3>3
  <2> QED BY <2>1, <2>2
<1>12. ASSUME NEW s \in all, NEW j \in 1..Len(h), NEW k \in 1..Len(h), j <= k, IsPrefix(s[2], h[k])
       PROVE  IsPrefix(s[2], h[j])
  <2> DEFINE r == s[2]
  <2>0. r \in Seq(Bit)
    BY <1>1, <1>5, <1>7
  <2>1. CASE s \in seen /\ k \in 3..(Len(holes) + 1)
    <3>1. k - 1 \in 1..Len(holes) /\ IsPrefix(r, holes[k - 1]) /\ 1 <= k - 1
      BY <1>2, <1>12, <2>1
    <3>2. CASE j \in 3..(Len(holes) + 1)
      <4>1. j - 1 \in 1..Len(holes) /\ j - 1 <= k - 1 /\ h[j] = holes[j - 1]
        BY SMTT(30), <1>1, <1>2, <1>12, <3>1, <3>2
      <4> QED BY <1>6, <2>1, <3>1, <4>1
    <3>3. CASE ~(j \in 3..(Len(holes) + 1))
      <4>1. IsPrefix(r, p)
        BY <1>1, <1>6, <2>1, <3>1 DEF p
      <4>2. h[j] = a \/ h[j] = b
        BY <1>2, <1>8, <3>3
      <4> HIDE DEF r
      <4>3. IsPrefix(r, h[j])
        BY <1>1, <1>3, <2>0, <4>1, <4>2, PrefixTransitive
      <4> QED BY <4>3 DEF r
    <3> QED BY <3>2, <3>3
  <2>2. CASE s \in seen /\ ~(k \in 3..(Len(holes) + 1))
    <3>0. (k = 1 \/ k = 2) /\ (j = 1 \/ j = 2)
      <4>1. k = 1 \/ k = 2
        BY <1>8, <2>2
      <4>2. j = 1 \/ j = 2 \/ j \in 3..(Len(holes) + 1)
        BY <1>8
      <4> QED BY <1>1, <1>12, <4>1, <4>2
    <3>1. (h[k] = a \/ h[k] = b) /\ (h[j] = a \/ h[j] = b)
      BY <1>2, <3>0
    <3>2. r # h[k]
      <4>1. ~IsPrefix(h[k], r)
        BY <1>11
      <4> QED BY <2>0, <4>1, PrefixItself
    <3>3. IsPrefix(r, p)
      BY <1>3, <1>12, <2>0, <3>1, <3>2
    <3> HIDE DEF r
    <3>4. IsPrefix(r, h[j])
      BY <1>1, <1>3, <2>0, <3>1, <3>3, PrefixTransitive
    <3> QED BY <3>4 DEF r
  <2>3. CASE s = new
    <3>1. IsPrefix(p, h[k]) /\ r = p
      BY <1>5, <1>12, <2>3
    <3>2. ~(k \in 3..(Len(holes) + 1))
      <4>1. ASSUME k \in 3..(Len(holes) + 1) PROVE FALSE
        <5>1. k - 1 \in 1..Len(holes) /\ k - 1 # 1 /\ h[k] = holes[k - 1]
          BY SMTT(30), <1>1, <1>2, <4>1
        <5> QED BY <1>1, <1>4, <3>1, <5>1 DEF p
      <4> QED BY <4>1
    <3>3. h[j] = a \/ h[j] = b
      BY SMTT(30), <1>1, <1>2, <1>8, <1>12, <3>2
    <3> QED BY <1>3, <3>1, <3>3
  <2> QED BY <2>1, <2>2, <2>3
<1>13. Seen(n, h, all, len + 2)
  BY <1>9, <1>10, <1>11, <1>12 DEF Seen
<1> QED BY <1>1, <1>13 DEF h, new

\* Filling the first hole, whether it was seen or not.
LEMMA SeenPop ==
    ASSUME NEW n, IsNoun(n), NEW holes, Holes(n, holes), holes # <<>>,
           NEW seen, NEW len \in Nat, Seen(n, holes, seen, len), NEW len2 \in Nat, len < len2
    PROVE  /\ Seen(n, Tail(holes), seen \cup {<<len, Head(holes)>>}, len2)
           /\ Seen(n, Tail(holes), seen, len2)
<1> DEFINE p == holes[1]
           t == Tail(holes)
           new == <<len, p>>
           all == seen \cup {new}
<1>1. /\ Head(holes) = p /\ p \in Seq(Bit) /\ 1 \in 1..Len(holes) /\ Len(holes) \in Nat
      /\ IsPlace(n, p)
      /\ t \in Seq(Seq(Bit)) /\ Len(t) = Len(holes) - 1
      /\ \A k \in 1..Len(t) : k + 1 \in 1..Len(holes) /\ t[k] = holes[k + 1]
  BY HolesTop
<1>2. \A j, k \in 1..Len(holes) : IsPrefix(holes[j], holes[k]) => j = k
  BY DEF Holes
<1>3. new[1] = len /\ new[2] = p /\ new \in Nat \X Seq(Bit)
  BY <1>1
<1>4. /\ \A s \in seen : s \in Nat \X Seq(Bit) /\ s[1] < len /\ IsPlace(n, s[2])
      /\ \A s, u \in seen : s[1] = u[1] => s = u
      /\ \A s \in seen : \A k \in 1..Len(holes) : ~IsPrefix(holes[k], s[2])
      /\ \A s \in seen : \A j, k \in 1..Len(holes) :
           j <= k /\ IsPrefix(s[2], holes[k]) => IsPrefix(s[2], holes[j])
  BY DEF Seen
<1>5. \A s \in seen : s[2] \in Seq(Bit) /\ s[1] \in Nat
  BY <1>4
<1> HIDE DEF p, t, new
<1>6. \A k \in 1..Len(t) : k \in Nat /\ ~IsPrefix(t[k], p) /\ ~IsPrefix(p, t[k])
  <2> SUFFICES ASSUME NEW k \in 1..Len(t)
               PROVE  k \in Nat /\ ~IsPrefix(t[k], p) /\ ~IsPrefix(p, t[k])
    OBVIOUS
  <2>1. k + 1 \in 1..Len(holes) /\ k + 1 # 1 /\ t[k] = holes[k + 1] /\ k \in Nat
    BY <1>1
  <2> QED BY <1>1, <1>2, <2>1 DEF p
<1>7. \A s \in all : s \in Nat \X Seq(Bit) /\ s[1] < len2 /\ IsPlace(n, s[2])
  <2>1. \A s \in seen : s[1] < len2
    BY <1>4, <1>5
  <2>2. new[1] < len2
    BY <1>3
  <2> QED BY <1>1, <1>3, <1>4, <2>1, <2>2
<1>8. \A s, u \in all : s[1] = u[1] => s = u
  <2>1. \A s \in seen : s[1] # new[1]
    BY <1>3, <1>4, <1>5
  <2> QED BY <1>4, <2>1
<1>9. \A s \in all : \A k \in 1..Len(t) : ~IsPrefix(t[k], s[2])
  BY <1>1, <1>3, <1>4, <1>6
<1>10. ASSUME NEW s \in all, NEW j \in 1..Len(t), NEW k \in 1..Len(t), j <= k, IsPrefix(s[2], t[k])
       PROVE  IsPrefix(s[2], t[j])
  <2>1. s \in seen
    BY <1>3, <1>6, <1>10
  <2>2. j + 1 \in 1..Len(holes) /\ k + 1 \in 1..Len(holes) /\ j + 1 <= k + 1
        /\ t[j] = holes[j + 1] /\ t[k] = holes[k + 1]
    BY <1>1, <1>10
  <2> QED BY <1>4, <1>10, <2>1, <2>2
<1>11. Seen(n, t, all, len2)
  BY <1>7, <1>8, <1>9, <1>10 DEF Seen
<1>12. Seen(n, t, seen, len2)
  BY <1>7, <1>8, <1>9, <1>10 DEF Seen
<1> QED BY <1>1, <1>11, <1>12 DEF t, new

\* A noun is no part of itself: the parts below a place are not those below a
\* place further down.
LEMMA NoRepeat ==
    ASSUME NEW n, IsNoun(n), NEW p \in Seq(Bit), NEW p0 \in Seq(Bit), IsPlace(n, p),
           IsPrefix(p0, p), KeyAt(n, p0) = KeyAt(n, p)
    PROVE  p0 = p
<1>1. SUFFICES ASSUME p0 # p PROVE FALSE
  OBVIOUS
<1>2. \A q \in DOMAIN n : q \in Seq(Bit) /\ Len(q) \in Nat
  BY DEF IsNoun
<1>3. Len(p0) < Len(p) /\ Len(p0) \in Nat /\ Len(p) \in Nat
  BY <1>1, PrefixShorter
<1>4. PICK d \in DOMAIN n : \A q \in DOMAIN n : Len(q) <= Len(d)
  BY DEF IsNoun
<1>5. PICK leaf \in DOMAIN n : IsPrefix(p, leaf)
  BY DEF IsPlace
<1>6. IsPrefix(p0, leaf)
  BY <1>2, <1>5, PrefixTransitive
<1> DEFINE T == {Len(q) : q \in Below(n, p0)}
<1>7. Len(leaf) \in T
  BY <1>6 DEF Below
<1>8. T \subseteq 0..Len(d) /\ Len(d) \in Nat
  <2>1. ASSUME NEW q \in Below(n, p0) PROVE Len(q) \in 0..Len(d)
    <3>1. q \in DOMAIN n
      BY DEF Below
    <3>2. Len(q) \in Nat /\ Len(d) \in Nat /\ Len(q) <= Len(d)
      BY <1>2, <1>4, <3>1
    <3> QED BY <3>2
  <2> QED BY <1>2, <2>1
<1>9. Max(T) \in T /\ \A x \in T : Max(T) >= x
  <2>1. T # {}
    BY <1>7
  <2> HIDE DEF T
  <2> QED BY <1>8, <2>1, MaxOfNumbers
<1>10. PICK q \in Below(n, p0) : \A r \in Below(n, p0) : Len(q) >= Len(r)
  BY <1>9
<1>11. q \in DOMAIN n /\ q \in Seq(Bit) /\ Len(q) \in Nat /\ IsPrefix(p0, q)
  BY <1>2 DEF Below
<1>12. <<Rest(p0, q), Trim(n[q])>> \in KeyAt(n, p)
  BY DEF KeyAt
<1>13. PICK r \in Below(n, p) : <<Rest(p0, q), Trim(n[q])>> = <<Rest(p, r), Trim(n[r])>>
  BY <1>12 DEF KeyAt
<1>14. r \in DOMAIN n /\ r \in Seq(Bit) /\ Len(r) \in Nat /\ IsPrefix(p, r)
  BY <1>2 DEF Below
<1>15. Len(Rest(p0, q)) = Len(q) - Len(p0)
  BY <1>11, RestType
<1>16. Len(Rest(p, r)) = Len(r) - Len(p)
  BY <1>14, RestType
<1>17. Len(q) - Len(p0) = Len(r) - Len(p)
  BY <1>13, <1>15, <1>16
<1>18. IsPrefix(p0, r)
  BY <1>14, PrefixTransitive
<1>19. Len(q) >= Len(r)
  BY <1>10, <1>14, <1>18 DEF Below
<1> QED BY <1>3, <1>11, <1>14, <1>17, <1>19

\* What a reader has filled in.
AtomsOf(n, places) == {<<q, Trim(n[q])>> : q \in places}

\* A noun that was seen and has the key of the first hole is read in full: a
\* pointer to it fills the hole.
LEMMA PointerFills ==
    ASSUME NEW n, IsNoun(n), NEW holes, Holes(n, holes), holes # <<>>,
           NEW seen, NEW len \in Nat, Seen(n, holes, seen, len),
           NEW e, NEW p0, <<e, p0>> \in seen, KeyAt(n, p0) = KeyAt(n, Head(holes)),
           NEW s, s.todo = holes, s.seen = seen, s.atoms = AtomsOf(n, Filled(n, holes))
    PROVE  /\ ReadAt(s, e) = {p0}
           /\ Copied(s.atoms, p0, Head(holes)) = AtomsOf(n, Below(n, Head(holes)))
<1> DEFINE p == holes[1]
<1>1. /\ Head(holes) = p /\ p \in Seq(Bit) /\ 1 \in 1..Len(holes) /\ Len(holes) \in Nat
      /\ IsPlace(n, p)
      /\ \A k \in 1..Len(holes) : holes[k] \in Seq(Bit)
  BY HolesTop
<1>2. /\ \A x \in seen : x \in Nat \X Seq(Bit) /\ x[1] < len /\ IsPlace(n, x[2])
      /\ \A x, y \in seen : x[1] = y[1] => x = y
      /\ \A x \in seen : \A k \in 1..Len(holes) : ~IsPrefix(holes[k], x[2])
      /\ \A x \in seen : \A j, k \in 1..Len(holes) :
           j <= k /\ IsPrefix(x[2], holes[k]) => IsPrefix(x[2], holes[j])
  BY DEF Seen
<1> DEFINE s0 == <<e, p0>>
<1>3. s0 \in seen /\ s0[1] = e /\ s0[2] = p0
  OBVIOUS
<1>4. p0 \in Seq(Bit)
  BY <1>2, <1>3
<1>5. DOMAIN holes = 1..Len(holes)
  BY DEF Holes
<1> HIDE DEF p, s0
<1>6. ASSUME NEW k \in 1..Len(holes) PROVE ~IsPrefix(p0, holes[k]) /\ ~IsPrefix(holes[k], p0)
  <2>1. ~IsPrefix(holes[k], p0)
    BY <1>2, <1>3
  <2>2. ASSUME IsPrefix(p0, holes[k]) PROVE FALSE
    <3>1. 1 <= k
      BY <1>1
    <3>2. IsPrefix(p0, p)
      BY <1>1, <1>2, <1>3, <2>2, <3>1 DEF p
    <3>3. p0 = p
      BY <1>1, <1>4, <3>2, NoRepeat
    <3>4. ~IsPrefix(p, p0)
      BY <1>1, <1>2, <1>3 DEF p
    <3> QED BY <1>1, <3>3, <3>4, PrefixItself
  <2> QED BY <2>1, <2>2
<1>7. ReadAt(s, e) = {p0}
  <2>1. {x \in s.seen : x[1] = e /\ \A k \in DOMAIN s.todo : ~IsPrefix(x[2], s.todo[k])} = {s0}
    <3>1. ASSUME NEW x \in seen, x[1] = e PROVE x = s0
      BY <1>2, <1>3, <3>1
    <3>2. \A k \in DOMAIN s.todo : ~IsPrefix(s0[2], s.todo[k])
      BY <1>3, <1>5, <1>6
    <3> QED BY <1>3, <3>1, <3>2
  <2>2. ReadAt(s, e) = {x[2] : x \in {s0}}
    BY <2>1 DEF ReadAt
  <2> QED BY <1>3, <2>2
<1>8. \A q \in DOMAIN n : q \in Seq(Bit)
  BY DEF IsNoun
<1>9. ASSUME NEW q \in DOMAIN n, IsPrefix(p0, q) PROVE q \in Filled(n, holes)
  <2>1. ASSUME NEW k \in 1..Len(holes), IsPrefix(holes[k], q) PROVE FALSE
    <3>1. q \in Seq(Bit) /\ holes[k] \in Seq(Bit)
      BY <1>1, <1>8
    <3>2. IsPrefix(p0, holes[k]) \/ IsPrefix(holes[k], p0)
      BY <1>4, <1>9, <2>1, <3>1, PrefixesCompare
    <3> QED BY <1>6, <3>2
  <2> QED BY <2>1 DEF Filled
<1>10. Copied(s.atoms, p0, p) = {<<p \o a[1], a[2]>> : a \in KeyAt(n, p0)}
  <2> DEFINE atoms == AtomsOf(n, Filled(n, holes))
             L == Copied(atoms, p0, p)
             R == {<<p \o a[1], a[2]>> : a \in KeyAt(n, p0)}
  <2>1. ASSUME NEW x, x \in L PROVE x \in R
    <3>1. PICK a \in atoms : IsPrefix(p0, a[1]) /\ x = <<p \o Rest(p0, a[1]), a[2]>>
      BY <2>1 DEF Copied
    <3>2. PICK q \in Filled(n, holes) : a = <<q, Trim(n[q])>>
      BY <3>1 DEF AtomsOf
    <3>3. a[1] = q /\ a[2] = Trim(n[q])
      BY <3>2
    <3>4. q \in Below(n, p0)
      BY <3>1, <3>2, <3>3 DEF Filled, Below
    <3> DEFINE k == <<Rest(p0, q), Trim(n[q])>>
    <3>5. k \in KeyAt(n, p0)
      BY <3>4 DEF KeyAt
    <3>6. k[1] = Rest(p0, q) /\ k[2] = Trim(n[q])
      OBVIOUS
    <3> HIDE DEF k
    <3>7. x = <<p \o k[1], k[2]>>
      BY <3>1, <3>3, <3>6
    <3> QED BY <3>5, <3>7
  <2>2. ASSUME NEW x, x \in R PROVE x \in L
    <3>1. PICK a \in KeyAt(n, p0) : x = <<p \o a[1], a[2]>>
      BY <2>2
    <3>2. PICK q \in Below(n, p0) : a = <<Rest(p0, q), Trim(n[q])>>
      BY DEF KeyAt
    <3>3. a[1] = Rest(p0, q) /\ a[2] = Trim(n[q])
      BY <3>2
    <3>4. q \in DOMAIN n /\ IsPrefix(p0, q) /\ q \in Filled(n, holes)
      BY <1>9 DEF Below
    <3> DEFINE k == <<q, Trim(n[q])>>
    <3>5. k \in atoms
      BY <3>4 DEF AtomsOf
    <3>6. k[1] = q /\ k[2] = Trim(n[q])
      OBVIOUS
    <3> HIDE DEF k, atoms
    <3>7. x = <<p \o Rest(p0, k[1]), k[2]>> /\ IsPrefix(p0, k[1])
      BY <3>1, <3>3, <3>4, <3>6
    <3> QED BY <3>5, <3>7 DEF Copied
  <2> HIDE DEF L, R
  <2>3. L = R
    BY <2>1, <2>2
  <2> QED BY <2>3 DEF L, R
<1>11. {<<p \o a[1], a[2]>> : a \in KeyAt(n, p)} = AtomsOf(n, Below(n, p))
  <2> DEFINE L == {<<p \o a[1], a[2]>> : a \in KeyAt(n, p)}
             R == AtomsOf(n, Below(n, p))
  <2>0. ASSUME NEW q \in Below(n, p) PROVE p \o Rest(p, q) = q
    <3>1. q \in Seq(Bit) /\ IsPrefix(p, q)
      BY <1>8 DEF Below
    <3> QED BY <1>1, <3>1, RestType
  <2>1. ASSUME NEW x, x \in L PROVE x \in R
    <3>1. PICK a \in KeyAt(n, p) : x = <<p \o a[1], a[2]>>
      BY <2>1
    <3>2. PICK q \in Below(n, p) : a = <<Rest(p, q), Trim(n[q])>>
      BY DEF KeyAt
    <3>3. a[1] = Rest(p, q) /\ a[2] = Trim(n[q])
      BY <3>2
    <3>4. x = <<q, Trim(n[q])>>
      BY <2>0, <3>1, <3>3
    <3> QED BY <3>4 DEF AtomsOf
  <2>2. ASSUME NEW x, x \in R PROVE x \in L
    <3>1. PICK q \in Below(n, p) : x = <<q, Trim(n[q])>>
      BY <2>2 DEF AtomsOf
    <3> DEFINE k == <<Rest(p, q), Trim(n[q])>>
    <3>2. k \in KeyAt(n, p)
      BY DEF KeyAt
    <3>3. k[1] = Rest(p, q) /\ k[2] = Trim(n[q])
      OBVIOUS
    <3> HIDE DEF k
    <3>4. x = <<p \o k[1], k[2]>>
      BY <2>0, <3>1, <3>3
    <3> QED BY <3>2, <3>4
  <2> HIDE DEF L, R
  <2>3. L = R
    BY <2>1, <2>2
  <2> QED BY <2>3 DEF L, R
<1>12. Copied(s.atoms, p0, p) = AtomsOf(n, Below(n, p))
  BY <1>1, <1>10, <1>11
<1> QED BY <1>1, <1>7, <1>12

-----------------------------------------------------------------------------
(* The reader's steps. *)

\* The reader is defined: it starts, and each step follows the one before.
LEMMA CueRunStep ==
    ASSUME NEW stream
    PROVE  /\ CueRun(stream)[0] = CueStart
           /\ \A i \in Nat : CueRun(stream)[i + 1] = CueNext(stream, CueRun(stream)[i])
<1> DEFINE Follows(f, n) == /\ DOMAIN f = 0..n /\ f[0] = CueStart
                            /\ \A i \in 0..(n - 1) : f[i + 1] = CueNext(stream, f[i])
           T1 == {n \in Nat : \E f : Follows(f, n)}
           T2(f, g, n) == {i \in Nat : i <= n => f[i] = g[i]}
           Runs(f) == f = [i \in Nat |-> IF i = 0 THEN CueStart ELSE CueNext(stream, f[i - 1])]
<1>1. \A n \in Nat : n \in T1
  <2>1. 0 \in T1
    <3>1. Follows([i \in 0..0 |-> CueStart], 0)
      OBVIOUS
    <3> QED BY <3>1
  <2>2. ASSUME NEW n \in Nat, n \in T1 PROVE n + 1 \in T1
    <3>1. PICK f : Follows(f, n)
      BY <2>2
    <3> DEFINE g == [i \in 0..(n + 1) |-> IF i = n + 1 THEN CueNext(stream, f[n]) ELSE f[i]]
    <3>2. Follows(g, n + 1)
      BY <3>1
    <3> HIDE DEF Follows, g
    <3> QED BY <3>2
  <2> HIDE DEF T1
  <2> QED BY <2>1, <2>2, NaturalInduction
<1>2. ASSUME NEW n \in Nat, NEW m \in Nat, n <= m, NEW f, NEW g, Follows(f, n), Follows(g, m)
      PROVE  \A i \in 0..n : f[i] = g[i]
  <2>1. 0 \in T2(f, g, n)
    BY <1>2
  <2>2. ASSUME NEW i \in Nat, i \in T2(f, g, n) PROVE i + 1 \in T2(f, g, n)
    <3>1. SUFFICES ASSUME i + 1 <= n PROVE f[i + 1] = g[i + 1]
      OBVIOUS
    <3>2. i \in 0..(n - 1) /\ i \in 0..(m - 1) /\ f[i] = g[i]
      BY <1>2, <2>2, <3>1
    <3> QED BY <1>2, <3>2
  <2>3. \A i \in Nat : i \in T2(f, g, n)
    BY <2>1, <2>2, NaturalInduction
  <2> QED BY <2>3
<1> DEFINE F == [n \in Nat |-> CHOOSE f : Follows(f, n)]
           h == [n \in Nat |-> F[n][n]]
<1>3. ASSUME NEW n \in Nat PROVE Follows(F[n], n)
  <2>1. \E f : Follows(f, n)
    BY <1>1
  <2> HIDE DEF Follows
  <2> QED BY <2>1
<1> HIDE DEF F
<1>4. h[0] = CueStart
  BY <1>3
<1>5. ASSUME NEW n \in Nat PROVE h[n + 1] = CueNext(stream, h[n])
  <2>1. Follows(F[n], n) /\ Follows(F[n + 1], n + 1)
    BY <1>3
  <2>2. F[n][n] = F[n + 1][n]
    <3>1. n <= n + 1 /\ n \in 0..n /\ n + 1 \in Nat
      OBVIOUS
    <3> HIDE DEF Follows
    <3> QED BY <1>2, <2>1, <3>1
  <2>3. F[n + 1][n + 1] = CueNext(stream, F[n + 1][n])
    <3>1. n \in 0..((n + 1) - 1)
      OBVIOUS
    <3> QED BY <2>1, <3>1
  <2> QED BY <2>2, <2>3
<1> HIDE DEF Follows
<1>6. \A i \in Nat : i # 0 => h[i] = CueNext(stream, h[i - 1])
  <2> SUFFICES ASSUME NEW i \in Nat, i # 0 PROVE h[i] = CueNext(stream, h[i - 1])
    OBVIOUS
  <2>1. i - 1 \in Nat /\ (i - 1) + 1 = i
    OBVIOUS
  <2> HIDE DEF h
  <2>2. h[(i - 1) + 1] = CueNext(stream, h[i - 1])
    BY <1>5, <2>1
  <2> QED BY <2>1, <2>2
<1>7. DOMAIN h = Nat /\ h = [i \in Nat |-> h[i]]
  OBVIOUS
<1>8. Runs(h)
  <2> HIDE DEF h
  <2> QED BY <1>4, <1>6, <1>7
<1> DEFINE r == CueRun(stream)
<1>9. Runs(r)
  <2>1. r = CHOOSE f : Runs(f)
    BY DEF CueRun
  <2> HIDE DEF h, r, Runs
  <2> QED BY <1>8, <2>1
<1> HIDE DEF r
<1>10. r[0] = CueStart /\ \A i \in Nat : r[i + 1] = CueNext(stream, r[i])
  BY <1>9
<1> QED BY <1>10 DEF r

\* A reader that is done stays as it is.
LEMMA CueStays ==
    ASSUME NEW stream, NEW k \in Nat, CueRun(stream)[k].todo = <<>>
    PROVE  \A i \in Nat : i >= k => CueRun(stream)[i] = CueRun(stream)[k]
<1> DEFINE r == CueRun(stream)
           T == {i \in Nat : r[k + i] = r[k]}
<1>1. 0 \in T
  OBVIOUS
<1>2. ASSUME NEW i \in Nat, i \in T PROVE i + 1 \in T
  <2>1. k + i \in Nat /\ (k + i) + 1 = k + (i + 1)
    OBVIOUS
  <2>2. r[(k + i) + 1] = CueNext(stream, r[k + i])
    BY <2>1, CueRunStep
  <2>3. r[k + i] = r[k]
    BY <1>2
  <2>4. CueNext(stream, r[k]) = r[k]
    BY DEF CueNext
  <2> QED BY <2>1, <2>2, <2>3, <2>4
<1>3. \A i \in Nat : i \in T
  <2> HIDE DEF T
  <2> QED BY <1>1, <1>2, NaturalInduction
<1>4. ASSUME NEW i \in Nat, i >= k PROVE r[i] = r[k]
  <2>1. i - k \in Nat /\ k + (i - k) = i
    BY <1>4
  <2> QED BY <1>3, <2>1
<1> QED BY <1>4

\* What it has read then is what Cue gives.
LEMMA CueIs ==
    ASSUME NEW stream \in Seq(Bit), NEW k \in 0..(Len(stream) \div 2),
           CueRun(stream)[k].todo = <<>>
    PROVE  Cue(stream) = CueRun(stream)[k].atoms
<1> DEFINE r == CueRun(stream)
           N == 0..(Len(stream) \div 2)
           last == CHOOSE i \in N : r[i].todo = <<>>
<1>1. N \subseteq Nat
  <2>1. Len(stream) \div 2 \in Nat
    BY DoubleOfHalf
  <2> QED BY <2>1
<1>2. k \in N /\ r[k].todo = <<>>
  OBVIOUS
<1>3. Cue(stream) = r[last].atoms
  BY <1>2 DEF Cue
<1>4. \E i \in N : r[i].todo = <<>>
  BY <1>2
<1>5. last \in N /\ r[last].todo = <<>>
  <2> HIDE DEF N, r
  <2> QED BY <1>4
<1> HIDE DEF last, N
<1>6. r[last] = r[k]
  <2>1. last \in Nat /\ k \in Nat
    BY <1>1, <1>2, <1>5
  <2>2. CASE last >= k
    BY <1>2, <2>1, <2>2, CueStays
  <2>3. CASE k >= last
    BY <1>5, <2>1, <2>3, CueStays
  <2> QED BY <2>1, <2>2, <2>3
<1> QED BY <1>3, <1>6

\* A reader that has read the first bits of the stream of a noun.
CueState(n, holes, seen, len) ==
    [at |-> len + 1, todo |-> holes, atoms |-> AtomsOf(n, Filled(n, holes)), seen |-> seen]

\* The atoms at two sets of places together.
LEMMA AtomsOfBoth ==
    ASSUME NEW n, NEW X, NEW Y
    PROVE  AtomsOf(n, X \cup Y) = AtomsOf(n, X) \cup AtomsOf(n, Y)
BY Zenon DEF AtomsOf

\* Where a bit and more was written, the bit and more is read.
LEMMA ReadsOne ==
    ASSUME NEW stream, NEW p \in Nat \ {0}, NEW a \in Bit, NEW bits \in Seq(Bit),
           Reads(stream, p, <<a>> \o bits)
    PROVE  BitAt(stream, p) = a /\ Reads(stream, p + 1, bits)
<1> DEFINE one == <<a>>
<1>1. one \in Seq(Bit) /\ Len(one) = 1 /\ one[1] = a
  BY OneBit
<1>2. Reads(stream, p, one \o bits)
  OBVIOUS
<1> HIDE DEF one
<1>3. Reads(stream, p, one) /\ Reads(stream, p + Len(one), bits)
  BY <1>1, <1>2, ReadsConcat
<1>4. BitAt(stream, p + 1 - 1) = one[1] /\ p + 1 - 1 = p
  <2>1. 1 \in 1..Len(one)
    BY <1>1
  <2> QED BY <1>3, <2>1 DEF Reads
<1> QED BY <1>1, <1>3, <1>4

\* Where two bits and more were written, they and more are read.
LEMMA ReadsTwo ==
    ASSUME NEW stream, NEW p \in Nat \ {0}, NEW a \in Bit, NEW b \in Bit, NEW bits \in Seq(Bit),
           Reads(stream, p, <<a, b>> \o bits)
    PROVE  BitAt(stream, p) = a /\ BitAt(stream, p + 1) = b /\ Reads(stream, p + 2, bits)
<1> DEFINE two == <<a, b>>
<1>1. two \in Seq(Bit) /\ Len(two) = 2 /\ two[1] = a /\ two[2] = b
  OBVIOUS
<1>2. Reads(stream, p, two \o bits)
  OBVIOUS
<1> HIDE DEF two
<1>3. Reads(stream, p, two) /\ Reads(stream, p + Len(two), bits)
  BY <1>1, <1>2, ReadsConcat
<1>4. BitAt(stream, p + 1 - 1) = two[1] /\ p + 1 - 1 = p
  <2>1. 1 \in 1..Len(two)
    BY <1>1
  <2> QED BY <1>3, <2>1 DEF Reads
<1>5. BitAt(stream, p + 2 - 1) = two[2] /\ p + 2 - 1 = p + 1
  <2>1. 2 \in 1..Len(two)
    BY <1>1
  <2> QED BY <1>3, <2>1 DEF Reads
<1> QED BY <1>1, <1>3, <1>4, <1>5

\* An atom.
LEMMA CueReadsAtom ==
    ASSUME NEW n, IsNoun(n), NEW holes, Holes(n, holes), holes # <<>>, Head(holes) \in DOMAIN n,
           NEW seen, NEW len \in Nat, NEW stream \in Seq(Bit),
           Reads(stream, len + 1, << 0 >> \o Mat(n[Head(holes)]))
    PROVE  CueNext(stream, CueState(n, holes, seen, len))
             = CueState(n, Tail(holes), seen \cup {<<len, Head(holes)>>},
                        len + 1 + Len(Mat(n[Head(holes)])))
<1> DEFINE p == Head(holes)
           m == Mat(n[p])
           s == CueState(n, holes, seen, len)
<1>1. n[p] \in Seq(Bit) /\ Below(n, p) = {p}
  <2>1. n[p] \in Seq(Bit) /\ p \in Seq(Bit) /\ \A q \in DOMAIN n : IsPrefix(p, q) => p = q
    BY DEF IsNoun
  <2> QED BY <2>1, PrefixItself DEF Below
<1>2. m \in Seq(Bit) /\ Len(m) \in Nat
  BY <1>1, MatType
<1>3. /\ s.at = len + 1 /\ s.todo = holes /\ s.seen = seen
      /\ s.atoms = AtomsOf(n, Filled(n, holes))
  BY DEF CueState
<1>0. len + 1 \in Nat \ {0} /\ 0 \in Bit /\ (len + 1) - 1 = len /\ (len + 1) + 1 \in Nat \ {0}
  BY DEF Bit
<1>4. BitAt(stream, len + 1) = 0 /\ Reads(stream, (len + 1) + 1, m)
  BY <1>0, <1>2, ReadsOne
<1>5. Rub(stream, (len + 1) + 1) = [atom |-> Trim(n[p]), next |-> ((len + 1) + 1) + Len(m)]
  BY <1>0, <1>1, <1>4, RubReads
<1>6. CueNext(stream, s) = CueAtom(stream, s)
  BY <1>3, <1>4 DEF CueNext
<1>7. CueAtom(stream, s) =
        [at    |-> ((len + 1) + 1) + Len(m),
         todo  |-> Tail(holes),
         atoms |-> AtomsOf(n, Filled(n, holes)) \cup {<<p, Trim(n[p])>>},
         seen  |-> seen \cup {<<len, p>>}]
  <2> DEFINE a == Rub(stream, s.at + 1)
  <2>1. a.atom = Trim(n[p]) /\ a.next = ((len + 1) + 1) + Len(m)
    BY <1>3, <1>5
  <2>2. CueAtom(stream, s) =
          [at    |-> a.next,
           todo  |-> Tail(s.todo),
           atoms |-> s.atoms \cup {<<Head(s.todo), a.atom>>},
           seen  |-> s.seen \cup {<<s.at - 1, Head(s.todo)>>}]
    BY DEF CueAtom
  <2>3. s.at - 1 = len
    BY <1>0, <1>3
  <2> HIDE DEF s, m, a
  <2> QED BY <1>3, <2>1, <2>2, <2>3
<1>8. AtomsOf(n, Filled(n, Tail(holes))) = AtomsOf(n, Filled(n, holes)) \cup {<<p, Trim(n[p])>>}
  <2>1. Filled(n, Tail(holes)) = Filled(n, holes) \cup {p}
    BY <1>1, HolesPop
  <2>2. AtomsOf(n, {p}) = {<<p, Trim(n[p])>>}
    BY DEF AtomsOf
  <2> QED BY <2>1, <2>2, AtomsOfBoth
<1>9. ((len + 1) + 1) + Len(m) = (len + 1 + Len(m)) + 1
  BY <1>2
<1> HIDE DEF m, p
<1> QED BY <1>6, <1>7, <1>8, <1>9 DEF CueState, s, m, p

\* A cell.
LEMMA CueReadsCell ==
    ASSUME NEW n, IsNoun(n), NEW holes, Holes(n, holes), holes # <<>>, Head(holes) \notin DOMAIN n,
           NEW seen, NEW len \in Nat, NEW stream \in Seq(Bit),
           Reads(stream, len + 1, <<1, 0>>)
    PROVE  CueNext(stream, CueState(n, holes, seen, len))
             = CueState(n, Branched(holes), seen \cup {<<len, Head(holes)>>}, len + 2)
<1> DEFINE p == Head(holes)
           s == CueState(n, holes, seen, len)
           two == <<1, 0>>
<1>1. /\ s.at = len + 1 /\ s.todo = holes /\ s.seen = seen
      /\ s.atoms = AtomsOf(n, Filled(n, holes))
  BY DEF CueState
<1>2. two[1] = 1 /\ two[2] = 0 /\ Len(two) = 2 /\ Reads(stream, len + 1, two)
  OBVIOUS
<1> HIDE DEF two
<1>3. BitAt(stream, (len + 1) + 1 - 1) = 1 /\ BitAt(stream, (len + 1) + 2 - 1) = 0
  <2>1. 1 \in 1..Len(two) /\ 2 \in 1..Len(two)
    BY <1>2
  <2> QED BY <1>2, <2>1 DEF Reads
<1>4. (len + 1) + 1 - 1 = len + 1 /\ (len + 1) + 2 - 1 = (len + 1) + 1 /\ (len + 1) - 1 = len
      /\ (len + 1) + 2 = (len + 2) + 1
  OBVIOUS
<1>5. CueNext(stream, s) = CueCell(s)
  <2>1. BitAt(stream, s.at) # 0 /\ BitAt(stream, s.at + 1) = 0
    BY <1>1, <1>3, <1>4
  <2> HIDE DEF s
  <2> QED BY <1>1, <2>1 DEF CueNext
<1>6. CueCell(s) =
        [at    |-> s.at + 2,
         todo  |-> <<Append(Head(s.todo), 0), Append(Head(s.todo), 1)>> \o Tail(s.todo),
         atoms |-> s.atoms,
         seen  |-> s.seen \cup {<<s.at - 1, Head(s.todo)>>}]
  BY DEF CueCell
<1>7. s.at - 1 = len /\ s.at + 2 = (len + 2) + 1
  BY <1>1, <1>4
<1>8. Filled(n, Branched(holes)) = Filled(n, holes)
  BY HolesBranch
<1> HIDE DEF s
<1>9. CueCell(s) =
        [at    |-> (len + 2) + 1,
         todo  |-> Branched(holes),
         atoms |-> AtomsOf(n, Filled(n, Branched(holes))),
         seen  |-> seen \cup {<<len, p>>}]
  BY <1>1, <1>6, <1>7, <1>8 DEF Branched
<1> QED BY <1>5, <1>9 DEF CueState, s

\* A pointer.
LEMMA CueReadsPointer ==
    ASSUME NEW n, IsNoun(n), NEW holes, Holes(n, holes), holes # <<>>,
           NEW seen, NEW len \in Nat, Seen(n, holes, seen, len), NEW stream \in Seq(Bit),
           NEW e \in Nat, NEW p0, <<e, p0>> \in seen, KeyAt(n, p0) = KeyAt(n, Head(holes)),
           Reads(stream, len + 1, <<1, 1>> \o MatNat(e))
    PROVE  CueNext(stream, CueState(n, holes, seen, len))
             = CueState(n, Tail(holes), seen, len + 2 + Len(MatNat(e)))
<1> DEFINE p == Head(holes)
           s == CueState(n, holes, seen, len)
           m == MatNat(e)
<1>1. /\ s.at = len + 1 /\ s.todo = holes /\ s.seen = seen
      /\ s.atoms = AtomsOf(n, Filled(n, holes))
  BY DEF CueState
<1>2. m \in Seq(Bit) /\ Len(m) \in Nat
  <2>1. Low(BitLength(e), e) \in Seq(Bit)
    BY BitLengthFits, LowIsBits
  <2>2. m \in Seq(Bit)
    BY <2>1, MatType DEF MatNat
  <2> QED BY <2>2
<1>3. 1 \in Bit /\ len + 1 \in Nat \ {0} /\ (len + 1) + 2 \in Nat \ {0}
  BY DEF Bit
<1>4. BitAt(stream, len + 1) = 1 /\ BitAt(stream, (len + 1) + 1) = 1 /\ Reads(stream, (len + 1) + 2, m)
  BY <1>2, <1>3, ReadsTwo
<1> DEFINE index == Rub(stream, s.at + 2)
           from  == ReadAt(s, NatOf(index.atom))
<1>5. NatOf(index.atom) = e /\ index.next = ((len + 1) + 2) + Len(m)
  BY <1>1, <1>3, <1>4, RubReadsNumber
<1>6. from = {p0} /\ Copied(s.atoms, p0, p) = AtomsOf(n, Below(n, p))
  <2> HIDE DEF s, index
  <2>1. ReadAt(s, e) = {p0} /\ Copied(s.atoms, p0, p) = AtomsOf(n, Below(n, p))
    BY <1>1, PointerFills
  <2> QED BY <1>5, <2>1
<1>7. CueNext(stream, s) = CuePointer(stream, s)
  <2>1. BitAt(stream, s.at) # 0 /\ BitAt(stream, s.at + 1) # 0
    BY <1>1, <1>4
  <2> HIDE DEF s
  <2> QED BY <1>1, <2>1 DEF CueNext
<1>8. CuePointer(stream, s) =
        [at    |-> index.next,
         todo  |-> Tail(s.todo),
         atoms |-> s.atoms \cup (IF from = {} THEN {<<Head(s.todo), Broken>>}
                                 ELSE UNION {Copied(s.atoms, q, Head(s.todo)) : q \in from}),
         seen  |-> s.seen]
  BY DEF CuePointer
<1> HIDE DEF s, index, from
<1>9. UNION {Copied(s.atoms, q, p) : q \in from} = AtomsOf(n, Below(n, p)) /\ from # {}
  BY <1>6
<1>10. AtomsOf(n, Filled(n, Tail(holes))) = AtomsOf(n, Filled(n, holes)) \cup AtomsOf(n, Below(n, p))
  BY HolesPop, AtomsOfBoth
<1>11. ((len + 1) + 2) + Len(m) = (len + 2 + Len(m)) + 1
  BY <1>2
<1>12. CuePointer(stream, s) =
        [at    |-> (len + 2 + Len(m)) + 1,
         todo  |-> Tail(holes),
         atoms |-> AtomsOf(n, Filled(n, Tail(holes))),
         seen  |-> seen]
  <2> HIDE DEF m, p
  <2> QED BY ZenonT(30), <1>1, <1>5, <1>8, <1>9, <1>10, <1>11 DEF p
<1> HIDE DEF m
<1> QED BY <1>7, <1>12 DEF CueState, s, m

-----------------------------------------------------------------------------
(* The invariant of the writer: whoever reads what is written so far has the *)
(* same places still to fill.                                                *)

\* Every back-reference leads to where a noun with that key was begun.
RefsSeen(n, from, seen) ==
    \A key \in DOMAIN from : /\ from[key] \in Nat
                             /\ \E p : <<from[key], p>> \in seen /\ KeyAt(n, p) = key

\* Whatever comes after it, the reader makes this of the stream.
ReadSoFar(n, holes, bits, k, seen) ==
    \A stream \in Seq(Bit) :
        Reads(stream, 1, bits) => CueRun(stream)[k] = CueState(n, holes, seen, Len(bits))

\* No zeros on top, so no bit of the stream is lost as an atom.
EndsInOne(bits) == Len(bits) > 0 /\ bits[Len(bits)] = 1

\* The invariant of the jam (encode, src/src/urb/boot.rs): the reader, after as many
\* nouns as were written, has filled in what is not left to write, and knows at each
\* index that may be pointed at the noun that was begun there.
JamInv ==
    /\ IsNoun(noun)
    /\ Holes(noun, todo)
    /\ out \in Seq(Bit)
    /\ Jammed => EndsInOne(out)
    /\ \E k, seen :
         /\ k \in Nat /\ 2 * k <= Len(out)
         /\ Seen(noun, todo, seen, Len(out))
         /\ RefsSeen(noun, refs, seen)
         /\ ReadSoFar(noun, todo, out, k, seen)

\* ++mat ends in a one.
LEMMA MatEnds ==
    ASSUME NEW le \in Seq(Bit)
    PROVE  EndsInOne(Mat(le)) /\ Mat(le) \in Seq(Bit) /\ Len(Mat(le)) \in Nat \ {0}
<1> DEFINE b == SigBits(le)
           c == BitLength(b)
           one == <<1>>
           s1 == LeBits(c, <<>>)
           s3 == Low(c - 1, b)
           s4 == LeBits(b, le)
<1>1. b \in Nat /\ b \in 0..Len(le) /\ (b > 0 => le[b] = 1)
  BY SigBitsTop
<1>2. Mat(le) \in Seq(Bit) /\ Len(Mat(le)) \in Nat
  BY MatType
<1>3. one \in Seq(Bit) /\ Len(one) = 1 /\ one[1] = 1
  BY OneBit DEF Bit
<1>4. CASE b = 0
  <2>1. Mat(le) = one
    BY <1>4 DEF Mat
  <2> HIDE DEF one
  <2>2. Len(Mat(le)) = 1 /\ Mat(le)[1] = 1
    BY <1>3, <2>1
  <2> QED BY <1>2, <2>2 DEF EndsInOne
<1>5. CASE b # 0
  <2>1. c \in Nat /\ c - 1 \in Nat
    <3>1. b \in Nat \ {0}
      BY <1>1, <1>5
    <3>2. c \in Nat \ {0}
      BY <3>1, LowOnTop
    <3> QED BY <3>2
  <2>2. s1 \in Seq(Bit) /\ s3 \in Seq(Bit)
    BY <1>1, <2>1, Zeros, LowIsBits
  <2>3. s4 \in Seq(Bit) /\ Len(s4) = b /\ \A i \in 1..b : s4[i] = IF i <= Len(le) THEN le[i] ELSE 0
    BY <1>1, LeBitsType
  <2>4. b \in 1..b /\ b <= Len(le) /\ Len(le) \in Nat /\ b > 0
    BY <1>1, <1>5
  <2>5. s4[b] = 1
    BY <1>1, <2>3, <2>4
  <2>6. Mat(le) = s1 \o one \o s3 \o s4
    BY <1>5 DEF Mat
  <2> DEFINE s == s1 \o one \o s3
  <2> HIDE DEF one, s1, s3, s4
  <2>7. s \in Seq(Bit)
    BY <1>3, <2>2
  <2>8. Mat(le) = s \o s4
    BY <2>6
  <2> HIDE DEF s, b
  <2>9. Len(s \o s4) = Len(s) + b /\ (s \o s4)[Len(s) + b] = s4[b] /\ Len(s) \in Nat
    <3>1. Len(s) \in Nat /\ Len(s) + b \in 1..(Len(s) + Len(s4)) /\ ~(Len(s) + b <= Len(s))
          /\ (Len(s) + b) - Len(s) = b
      BY <1>1, <2>3, <2>4, <2>7
    <3>2. /\ Len(s \o s4) = Len(s) + Len(s4)
          /\ \A i \in 1..(Len(s) + Len(s4)) :
               (s \o s4)[i] = IF i <= Len(s) THEN s[i] ELSE s4[i - Len(s)]
      BY <2>3, <2>7, ConcatProperties
    <3> QED BY <2>3, <3>1, <3>2
  <2>10. Len(Mat(le)) \in Nat \ {0} /\ Mat(le)[Len(Mat(le))] = 1 /\ Len(Mat(le)) > 0
    BY <1>1, <2>4, <2>5, <2>8, <2>9
  <2> QED BY <1>2, <2>10 DEF EndsInOne
<1> QED BY <1>4, <1>5

\* A stream ends as its last part does.
LEMMA EndOfBoth ==
    ASSUME NEW a \in Seq(Bit), NEW b \in Seq(Bit), EndsInOne(b)
    PROVE  EndsInOne(a \o b)
<1>1. Len(a) \in Nat /\ Len(b) \in Nat /\ Len(b) > 0 /\ b[Len(b)] = 1
  BY DEF EndsInOne
<1> DEFINE i == Len(a) + Len(b)
<1>2. i \in 1..(Len(a) + Len(b)) /\ ~(i <= Len(a)) /\ i - Len(a) = Len(b)
  BY <1>1
<1>3. Len(a \o b) = i /\ (a \o b)[i] = b[i - Len(a)]
  BY <1>2, ConcatProperties
<1> QED BY <1>1, <1>2, <1>3 DEF EndsInOne

\* So does a number written by ++mat.
LEMMA MatNatType ==
    ASSUME NEW e \in Nat
    PROVE  EndsInOne(MatNat(e)) /\ MatNat(e) \in Seq(Bit) /\ Len(MatNat(e)) \in Nat \ {0}
<1>1. Low(BitLength(e), e) \in Seq(Bit)
  BY BitLengthFits, LowIsBits
<1> QED BY <1>1, MatEnds DEF MatNat

\* One noun more, written and read.
LEMMA ReadOneMore ==
    ASSUME NEW n, NEW holes, NEW bits \in Seq(Bit), NEW k \in Nat, NEW seen,
           ReadSoFar(n, holes, bits, k, seen),
           NEW more \in Seq(Bit), NEW holes2, NEW seen2,
           \A stream \in Seq(Bit) : Reads(stream, Len(bits) + 1, more) =>
               CueNext(stream, CueState(n, holes, seen, Len(bits)))
                 = CueState(n, holes2, seen2, Len(bits) + Len(more))
    PROVE  ReadSoFar(n, holes2, bits \o more, k + 1, seen2)
<1> SUFFICES ASSUME NEW stream \in Seq(Bit), Reads(stream, 1, bits \o more)
             PROVE  CueRun(stream)[k + 1] = CueState(n, holes2, seen2, Len(bits \o more))
  BY DEF ReadSoFar
<1>1. Len(bits \o more) = Len(bits) + Len(more)
  OBVIOUS
<1>2. Reads(stream, 1, bits) /\ Reads(stream, 1 + Len(bits), more)
  BY ReadsConcat
<1>3. 1 + Len(bits) = Len(bits) + 1
  OBVIOUS
<1>4. CueRun(stream)[k] = CueState(n, holes, seen, Len(bits))
  BY <1>2 DEF ReadSoFar
<1>5. CueRun(stream)[k + 1] = CueNext(stream, CueRun(stream)[k])
  BY CueRunStep
<1> QED BY <1>1, <1>2, <1>3, <1>4, <1>5

\* A new entry leads to the noun just begun, and the old ones stay right.
LEMMA RefsGrow ==
    ASSUME NEW n, NEW from, NEW seen, RefsSeen(n, from, seen), NEW len \in Nat, NEW p
    PROVE  /\ RefsSeen(n, from, seen \cup {<<len, p>>})
           /\ RefsSeen(n, With(from, KeyAt(n, p), len), seen \cup {<<len, p>>})
<1>1. RefsSeen(n, from, seen \cup {<<len, p>>})
  BY DEF RefsSeen
<1> DEFINE w == With(from, KeyAt(n, p), len)
<1>2. /\ DOMAIN w = DOMAIN from \cup {KeyAt(n, p)}
      /\ \A key \in DOMAIN w : w[key] = IF key = KeyAt(n, p) THEN len ELSE from[key]
  BY DEF With
<1> HIDE DEF w
<1>3. ASSUME NEW key \in DOMAIN w
      PROVE  /\ w[key] \in Nat
             /\ \E q : <<w[key], q>> \in seen \cup {<<len, p>>} /\ KeyAt(n, q) = key
  <2>1. CASE key = KeyAt(n, p)
    BY <1>2, <2>1
  <2>2. CASE key # KeyAt(n, p)
    <3>1. key \in DOMAIN from /\ w[key] = from[key]
      BY <1>2, <2>2
    <3> QED BY <1>1, <3>1 DEF RefsSeen
  <2> QED BY <2>1, <2>2
<1>4. RefsSeen(n, w, seen \cup {<<len, p>>})
  BY <1>3 DEF RefsSeen
<1> QED BY <1>1, <1>4 DEF w

\* It holds when the jam starts.
LEMMA JamStarts ==
    ASSUME IsNoun(noun), todo = << <<>> >>, out = <<>>, refs = <<>>
    PROVE  JamInv
<1> DEFINE e == <<>>
           h == <<e>>
<1>1. /\ e \in Seq(Bit) /\ h \in Seq(Seq(Bit)) /\ Len(h) = 1 /\ h[1] = e /\ h # <<>>
      /\ out \in Seq(Bit) /\ Len(out) = 0 /\ todo = h
  OBVIOUS
<1>2. RefsSeen(noun, refs, {})
  BY DEF RefsSeen
<1>3. AtomsOf(noun, {}) = {}
  BY DEF AtomsOf
<1>4. CueStart = [at |-> 1, todo |-> h, atoms |-> {}, seen |-> {}]
  BY DEF CueStart
<1>5. \A q \in DOMAIN noun : IsPrefix(e, q)
  BY PrefixItself DEF IsNoun
<1>6. IsPlace(noun, e)
  BY <1>1, <1>5 DEF IsPlace, IsNoun
<1> HIDE DEF e, h
<1>7. Holes(noun, todo)
  <2>1. \A k \in 1..Len(h) : k = 1
    BY <1>1
  <2> QED BY <1>1, <1>6, <2>1 DEF Holes
<1>8. Filled(noun, todo) = {}
  <2>1. 1 \in 1..Len(h)
    BY <1>1
  <2> QED BY <1>1, <1>5, <2>1 DEF Filled
<1>9. Seen(noun, todo, {}, Len(out))
  BY DEF Seen
<1>10. ReadSoFar(noun, todo, out, 0, {})
  <2>0. AtomsOf(noun, Filled(noun, todo)) = {}
    BY <1>3, <1>8, Zenon
  <2>1. 0 + 1 = 1
    OBVIOUS
  <2>2. CueState(noun, todo, {}, 0) = CueStart
    BY <1>1, <1>4, <2>0, <2>1 DEF CueState
  <2> QED BY <1>1, <2>2, CueRunStep DEF ReadSoFar
<1>11. 2 * 0 <= Len(out) /\ 0 \in Nat
  BY <1>1
<1>12. ~Jammed
  BY <1>1 DEF Jammed
<1> QED BY <1>1, <1>2, <1>7, <1>9, <1>10, <1>11, <1>12 DEF JamInv

\* What one step leaves behind keeps the invariant.
LEMMA JamKeeps ==
    ASSUME JamInv, NEW more \in Seq(Bit), out' = out \o more, noun' = noun,
           NEW k \in Nat, 2 * k <= Len(out), Len(more) >= 2, NEW seen, NEW seen2,
           ReadSoFar(noun, todo, out, k, seen),
           Holes(noun, todo'), Seen(noun, todo', seen2, Len(out) + Len(more)),
           RefsSeen(noun, refs', seen2), todo' = <<>> => EndsInOne(more),
           \A stream \in Seq(Bit) : Reads(stream, Len(out) + 1, more) =>
               CueNext(stream, CueState(noun, todo, seen, Len(out)))
                 = CueState(noun, todo', seen2, Len(out) + Len(more))
    PROVE  JamInv'
<1>1. IsNoun(noun) /\ out \in Seq(Bit) /\ Len(out) \in Nat /\ Len(more) \in Nat
  BY DEF JamInv
<1>2. out' \in Seq(Bit) /\ Len(out') = Len(out) + Len(more)
  BY <1>1
<1>3. ReadSoFar(noun, todo', out', k + 1, seen2)
  BY <1>1, ReadOneMore
<1>4. Jammed' => EndsInOne(out')
  <2>1. CASE todo' = <<>>
    <3>1. EndsInOne(out \o more)
      BY <1>1, <2>1, EndOfBoth
    <3> QED BY <3>1
  <2> QED BY <2>1 DEF Jammed
<1>5. 2 * (k + 1) <= Len(out') /\ k + 1 \in Nat
  BY <1>1, <1>2
<1>6. Seen(noun, todo', seen2, Len(out'))
  BY <1>2
<1> QED BY <1>1, <1>2, <1>3, <1>4, <1>5, <1>6 DEF JamInv

\* An atom with its tag.
LEMMA ZeroMat ==
    ASSUME NEW le \in Seq(Bit)
    PROVE  /\ <<0>> \o Mat(le) \in Seq(Bit) /\ EndsInOne(<<0>> \o Mat(le))
           /\ Len(<<0>> \o Mat(le)) = 1 + Len(Mat(le)) /\ Len(Mat(le)) \in Nat \ {0}
<1> DEFINE one == <<0>>
<1>1. one \in Seq(Bit) /\ Len(one) = 1
  BY OneBit DEF Bit
<1>2. EndsInOne(Mat(le)) /\ Mat(le) \in Seq(Bit) /\ Len(Mat(le)) \in Nat \ {0}
  BY MatEnds
<1> HIDE DEF one
<1>3. EndsInOne(one \o Mat(le))
  BY <1>1, <1>2, EndOfBoth
<1> DEFINE m == Mat(le)
<1>4. m \in Seq(Bit)
  BY <1>2
<1> HIDE DEF m
<1>5. one \o m \in Seq(Bit) /\ Len(one \o m) = 1 + Len(m)
  <2>1. one \o m \in Seq(Bit) /\ Len(one \o m) = Len(one) + Len(m)
    BY <1>1, <1>4, ConcatProperties
  <2> QED BY <1>1, <2>1
<1> QED BY <1>2, <1>3, <1>5 DEF one, m

\* A back-reference with its tag.
LEMMA TagMat ==
    ASSUME NEW e \in Nat
    PROVE  /\ <<1, 1>> \o MatNat(e) \in Seq(Bit) /\ EndsInOne(<<1, 1>> \o MatNat(e))
           /\ Len(<<1, 1>> \o MatNat(e)) = 2 + Len(MatNat(e)) /\ Len(MatNat(e)) \in Nat \ {0}
<1> DEFINE two == <<1, 1>>
<1>1. two \in Seq(Bit) /\ Len(two) = 2
  BY DEF Bit
<1>2. EndsInOne(MatNat(e)) /\ MatNat(e) \in Seq(Bit) /\ Len(MatNat(e)) \in Nat \ {0}
  BY MatNatType
<1> HIDE DEF two
<1>3. EndsInOne(two \o MatNat(e))
  BY <1>1, <1>2, EndOfBoth
<1> DEFINE m == MatNat(e)
<1>4. m \in Seq(Bit)
  BY <1>2
<1> HIDE DEF m
<1>5. two \o m \in Seq(Bit) /\ Len(two \o m) = 2 + Len(m)
  <2>1. two \o m \in Seq(Bit) /\ Len(two \o m) = Len(two) + Len(m)
    BY <1>1, <1>4, ConcatProperties
  <2> QED BY <1>1, <2>1
<1> QED BY <1>2, <1>3, <1>5 DEF two, m

\* A cell, for the first time.
LEMMA NewCellKeeps ==
    ASSUME JamInv, ~Jammed, NewCell(Head(todo))
    PROVE  JamInv'
<1> DEFINE p == Head(todo)
           two == <<1, 0>>
<1>1. /\ IsNoun(noun) /\ Holes(noun, todo) /\ todo # <<>> /\ out \in Seq(Bit) /\ Len(out) \in Nat
      /\ p \notin DOMAIN noun
  BY DEF JamInv, Jammed, NewCell, IsCell
<1>2. PICK k, seen :
        /\ k \in Nat /\ 2 * k <= Len(out)
        /\ Seen(noun, todo, seen, Len(out))
        /\ RefsSeen(noun, refs, seen)
        /\ ReadSoFar(noun, todo, out, k, seen)
  BY DEF JamInv
<1>3. /\ out' = out \o two /\ todo' = Branched(todo) /\ noun' = noun
      /\ refs' = With(refs, KeyAt(noun, p), Len(out))
  BY DEF NewCell, Write, Branched, Remember, ThisKey
<1>4. two \in Seq(Bit) /\ Len(two) = 2
  BY DEF Bit
<1> DEFINE seen2 == seen \cup {<<Len(out), p>>}
<1>5. Holes(noun, todo') /\ todo' # <<>>
  <2>1. Len(todo') = Len(todo) + 1 /\ Len(todo) \in Nat
    BY <1>1, <1>3, BranchedIs
  <2>2. Holes(noun, todo')
    BY <1>1, <1>3, HolesBranch
  <2> QED BY <2>1, <2>2
<1>6. Seen(noun, todo', seen2, Len(out) + 2)
  BY <1>1, <1>2, <1>3, SeenBranch
<1>7. RefsSeen(noun, refs', seen2)
  BY <1>1, <1>2, <1>3, RefsGrow
<1>8. ASSUME NEW stream \in Seq(Bit), Reads(stream, Len(out) + 1, two)
      PROVE  CueNext(stream, CueState(noun, todo, seen, Len(out)))
               = CueState(noun, todo', seen2, Len(out) + 2)
  <2>1. Reads(stream, Len(out) + 1, <<1, 0>>) /\ Head(todo) \notin DOMAIN noun
    BY <1>1, <1>8
  <2>2. CueNext(stream, CueState(noun, todo, seen, Len(out)))
          = CueState(noun, Branched(todo), seen \cup {<<Len(out), Head(todo)>>}, Len(out) + 2)
    <3> HIDE DEF two, seen2, p
    <3> QED BY <1>1, <2>1, CueReadsCell
  <2>3. todo' = Branched(todo) /\ seen2 = seen \cup {<<Len(out), Head(todo)>>}
    BY <1>3
  <2> HIDE DEF seen2, two
  <2> QED BY <2>2, <2>3
<1> HIDE DEF two, seen2
<1>9. /\ Seen(noun, todo', seen2, Len(out) + Len(two))
      /\ \A stream \in Seq(Bit) : Reads(stream, Len(out) + 1, two) =>
           CueNext(stream, CueState(noun, todo, seen, Len(out)))
             = CueState(noun, todo', seen2, Len(out) + Len(two))
  BY <1>4, <1>6, <1>8
<1>10. out' = out \o two /\ noun' = noun /\ Len(two) >= 2
  BY <1>3, <1>4
<1> QED BY <1>2, <1>4, <1>5, <1>7, <1>9, <1>10, JamKeeps

\* An atom, written as such.
LEMMA PlainAtomKeeps ==
    ASSUME JamInv, ~Jammed, Head(todo) \in DOMAIN noun,
           Write(<< 0 >> \o Mat(noun[Head(todo)]), Tail(todo)),
           refs' = refs \/ Remember(Head(todo))
    PROVE  JamInv'
<1> DEFINE p == Head(todo)
           bits == <<0>> \o Mat(noun[p])
<1>1. /\ IsNoun(noun) /\ Holes(noun, todo) /\ todo # <<>> /\ out \in Seq(Bit) /\ Len(out) \in Nat
      /\ noun[p] \in Seq(Bit)
  BY DEF JamInv, Jammed, IsNoun
<1>2. PICK k, seen :
        /\ k \in Nat /\ 2 * k <= Len(out)
        /\ Seen(noun, todo, seen, Len(out))
        /\ RefsSeen(noun, refs, seen)
        /\ ReadSoFar(noun, todo, out, k, seen)
  BY DEF JamInv
<1>3. /\ out' = out \o bits /\ todo' = Tail(todo) /\ noun' = noun
      /\ refs' = refs \/ refs' = With(refs, KeyAt(noun, p), Len(out))
  BY DEF Write, Remember, ThisKey
<1>4. /\ bits \in Seq(Bit) /\ EndsInOne(bits)
      /\ Len(bits) = 1 + Len(Mat(noun[p])) /\ Len(Mat(noun[p])) \in Nat \ {0}
  BY <1>1, ZeroMat
<1> DEFINE seen2 == seen \cup {<<Len(out), p>>}
<1>5. Holes(noun, todo')
  BY <1>1, <1>3, HolesPop
<1>6. Seen(noun, todo', seen2, Len(out) + Len(bits))
  <2>1. Len(out) < Len(out) + Len(bits) /\ Len(out) + Len(bits) \in Nat
    BY <1>1, <1>4
  <2> HIDE DEF bits
  <2> QED BY <1>1, <1>2, <1>3, <2>1, SeenPop
<1>7. RefsSeen(noun, refs', seen2)
  <2>1. /\ RefsSeen(noun, refs, seen2)
        /\ RefsSeen(noun, With(refs, KeyAt(noun, p), Len(out)), seen2)
    BY <1>1, <1>2, RefsGrow
  <2> HIDE DEF seen2
  <2> QED BY <1>3, <2>1
<1>8. ASSUME NEW stream \in Seq(Bit), Reads(stream, Len(out) + 1, bits)
      PROVE  CueNext(stream, CueState(noun, todo, seen, Len(out)))
               = CueState(noun, todo', seen2, Len(out) + Len(bits))
  <2>1. CueNext(stream, CueState(noun, todo, seen, Len(out)))
          = CueState(noun, Tail(todo), seen2, Len(out) + 1 + Len(Mat(noun[p])))
    BY <1>1, <1>8, CueReadsAtom
  <2>2. Len(out) + 1 + Len(Mat(noun[p])) = Len(out) + Len(bits)
    BY <1>1, <1>4
  <2> QED BY <1>3, <2>1, <2>2
<1>9. Len(bits) >= 2
  BY <1>4
<1> HIDE DEF bits, seen2
<1> QED BY <1>2, <1>3, <1>4, <1>5, <1>6, <1>7, <1>8, <1>9, JamKeeps

\* A noun that was written before, as a pointer to it.
LEMMA PointerKeeps ==
    ASSUME JamInv, ~Jammed, Known(Head(todo)), Write(Pointer(Head(todo)), Tail(todo)), refs' = refs
    PROVE  JamInv'
<1> DEFINE p == Head(todo)
           e == refs[KeyAt(noun, p)]
           bits == <<1, 1>> \o MatNat(e)
<1>1. /\ IsNoun(noun) /\ Holes(noun, todo) /\ todo # <<>> /\ out \in Seq(Bit) /\ Len(out) \in Nat
      /\ KeyAt(noun, p) \in DOMAIN refs
  BY DEF JamInv, Jammed, Known, ThisKey
<1>2. PICK k, seen :
        /\ k \in Nat /\ 2 * k <= Len(out)
        /\ Seen(noun, todo, seen, Len(out))
        /\ RefsSeen(noun, refs, seen)
        /\ ReadSoFar(noun, todo, out, k, seen)
  BY DEF JamInv
<1>3. PICK p0 : <<e, p0>> \in seen /\ KeyAt(noun, p0) = KeyAt(noun, p)
  BY <1>1, <1>2 DEF RefsSeen
<1>4. e \in Nat
  BY <1>1, <1>2 DEF RefsSeen
<1>5. out' = out \o bits /\ todo' = Tail(todo) /\ noun' = noun /\ refs' = refs
  BY DEF Write, Pointer, ThisKey
<1> HIDE DEF e
<1>6. /\ bits \in Seq(Bit) /\ EndsInOne(bits)
      /\ Len(bits) = 2 + Len(MatNat(e)) /\ Len(MatNat(e)) \in Nat \ {0}
  BY <1>4, TagMat
<1>7. Holes(noun, todo')
  BY <1>1, <1>5, HolesPop
<1>8. Seen(noun, todo', seen, Len(out) + Len(bits))
  <2>1. Len(out) < Len(out) + Len(bits) /\ Len(out) + Len(bits) \in Nat
    BY <1>1, <1>6
  <2> HIDE DEF bits
  <2> QED BY <1>1, <1>2, <1>5, <2>1, SeenPop
<1>9. RefsSeen(noun, refs', seen)
  BY <1>2, <1>5
<1>10. ASSUME NEW stream \in Seq(Bit), Reads(stream, Len(out) + 1, bits)
       PROVE  CueNext(stream, CueState(noun, todo, seen, Len(out)))
                = CueState(noun, todo', seen, Len(out) + Len(bits))
  <2>1. CueNext(stream, CueState(noun, todo, seen, Len(out)))
          = CueState(noun, Tail(todo), seen, Len(out) + 2 + Len(MatNat(e)))
    BY <1>1, <1>2, <1>3, <1>4, <1>10, CueReadsPointer
  <2>2. Len(out) + 2 + Len(MatNat(e)) = Len(out) + Len(bits)
    BY <1>1, <1>6
  <2> QED BY <1>5, <2>1, <2>2
<1>11. Len(bits) >= 2
  BY <1>6
<1> HIDE DEF bits
<1> QED BY <1>2, <1>5, <1>6, <1>7, <1>8, <1>9, <1>10, <1>11, JamKeeps

\* One step per action.
LEMMA EncodeKeeps ==
    ASSUME JamInv, Encode
    PROVE  JamInv'
<1> DEFINE p == Head(todo)
<1>1. ~Jammed
  BY DEF Encode
<1>2. CASE NewCell(p)
  BY <1>1, <1>2, NewCellKeeps
<1>3. CASE KnownCell(p)
  BY <1>1, <1>3, PointerKeeps DEF KnownCell
<1>4. CASE NewAtom(p)
  BY <1>1, <1>4, PlainAtomKeeps DEF NewAtom, IsCell
<1>5. CASE ShortAtom(p)
  BY <1>1, <1>5, PlainAtomKeeps DEF ShortAtom, IsCell
<1>6. CASE LongAtom(p)
  BY <1>1, <1>6, PointerKeeps DEF LongAtom
<1> QED BY <1>2, <1>3, <1>4, <1>5, <1>6 DEF Encode

\* The key of a whole noun is its atoms, each at its place.
LEMMA KeyIs ==
    ASSUME NEW n, IsNoun(n)
    PROVE  Key(n) = AtomsOf(n, DOMAIN n)
<1>1. ASSUME NEW q \in DOMAIN n PROVE q \in Below(n, <<>>) /\ Rest(<<>>, q) = q
  <2> DEFINE e == <<>>
  <2>1. e \in Seq(Bit) /\ q \in Seq(Bit) /\ Len(e) = 0
    BY DEF IsNoun
  <2>2. IsPrefix(e, q)
    BY <2>1, PrefixItself
  <2>3. Rest(e, q) = SubSeq(q, 1, Len(q))
    BY <2>1 DEF Rest
  <2>4. SubSeq(q, 1, Len(q)) = q
    BY <2>1, SubSeqFull
  <2> QED BY <2>2, <2>3, <2>4 DEF Below
<1>2. Key(n) = {<<q, Trim(n[q])>> : q \in DOMAIN n}
  <2>1. Below(n, <<>>) = DOMAIN n
    BY <1>1 DEF Below
  <2>2. Key(n) = {<<Rest(<<>>, q), Trim(n[q])>> : q \in DOMAIN n}
    BY <2>1 DEF Key, KeyAt
  <2> QED BY <1>1, <2>2
<1> QED BY <1>2 DEF AtomsOf

\* When nothing is left to write, whatever carries the stream gives the noun.
LEMMA CueGives ==
    ASSUME JamInv, Jammed, NEW stream \in Seq(Bit), Reads(stream, 1, out), Len(stream) >= Len(out)
    PROVE  Cue(stream) = Key(noun)
<1>1. PICK k, seen :
        /\ k \in Nat /\ 2 * k <= Len(out)
        /\ ReadSoFar(noun, todo, out, k, seen)
  BY DEF JamInv
<1>2. IsNoun(noun) /\ todo = <<>> /\ out \in Seq(Bit) /\ Len(out) \in Nat /\ Len(stream) \in Nat
  BY DEF JamInv, Jammed
<1>3. CueRun(stream)[k] = CueState(noun, todo, seen, Len(out))
  BY <1>1 DEF ReadSoFar
<1>4. CueRun(stream)[k].todo = <<>> /\ CueRun(stream)[k].atoms = AtomsOf(noun, Filled(noun, todo))
  BY <1>2, <1>3 DEF CueState
<1>5. k \in 0..(Len(stream) \div 2)
  BY <1>1, <1>2
<1>6. Cue(stream) = AtomsOf(noun, Filled(noun, todo))
  BY <1>4, <1>5, CueIs
<1>7. Filled(noun, todo) = DOMAIN noun
  <2>1. 1..Len(todo) = {}
    BY <1>2
  <2> QED BY <2>1 DEF Filled
<1>8. Key(noun) = AtomsOf(noun, DOMAIN noun)
  BY <1>2, KeyIs
<1> QED BY <1>6, <1>7, <1>8

-----------------------------------------------------------------------------
(* The digits. *)

\* Multiplication keeps the order.
LEMMA TimesMonotone ==
    ASSUME NEW x \in Nat, NEW y \in Nat, NEW g \in Nat, x <= y
    PROVE  x * g <= y * g
<1>1. y - x \in Nat /\ (y - x) * g \in Nat /\ y * g = x * g + (y - x) * g
  OBVIOUS
<1>2. x * g \in Nat /\ y * g \in Nat
  OBVIOUS
<1> QED BY <1>1, <1>2

\* Division keeps the order.
LEMMA DivMonotone ==
    ASSUME NEW x \in Nat, NEW y \in Nat, NEW g \in Nat \ {0}, x <= y
    PROVE  x \div g <= y \div g
<1> DEFINE a == x \div g
           b == y \div g
<1>1. a \in Nat /\ x % g \in 0..(g - 1) /\ x = a * g + (x % g)
  BY Division
<1>2. b \in Nat /\ y % g \in 0..(g - 1) /\ y = b * g + (y % g)
  BY Division
<1> HIDE DEF a, b
<1>3. SUFFICES ASSUME b + 1 <= a PROVE FALSE
  BY <1>1, <1>2 DEF a, b
<1>4. (b + 1) * g <= a * g
  BY <1>1, <1>2, <1>3, TimesMonotone
<1>5. (b + 1) * g = b * g + g
  BY <1>2
<1> DEFINE ag == a * g
           bg == b * g
<1>6. ag \in Nat /\ bg \in Nat
  BY <1>1, <1>2
<1> HIDE DEF ag, bg
<1>7. x = ag + (x % g) /\ y = bg + (y % g) /\ bg + g <= ag
  BY <1>1, <1>2, <1>4, <1>5 DEF ag, bg
<1> QED BY <1>1, <1>2, <1>6, <1>7

\* Where the d-th digit is, dots counted, and which digit is there.
LEMMA GroupOf ==
    ASSUME NEW d \in Nat \ {0}
    PROVE  LET r == d + (d - 1) \div GroupLen
           IN  /\ r \in Nat \ {0} /\ r % (GroupLen + 1) # 0
               /\ r \div (GroupLen + 1) = (d - 1) \div GroupLen
               /\ r - r \div (GroupLen + 1) = d
<1> DEFINE a == (d - 1) \div GroupLen
           b == (d - 1) % GroupLen
           r == d + a
<1>1. GroupLen \in Nat \ {0} /\ GroupLen + 1 \in Nat \ {0} /\ d - 1 \in Nat
  BY JamAssumption
<1>2. a \in Nat /\ b \in 0..(GroupLen - 1) /\ d - 1 = a * GroupLen + b
  BY <1>1, Division
<1> HIDE DEF a, b
<1>3. b + 1 \in 0..((GroupLen + 1) - 1) /\ r \in Nat \ {0}
  BY <1>1, <1>2
<1>4. r = a * (GroupLen + 1) + (b + 1)
  <2>1. a * (GroupLen + 1) = a * GroupLen + a /\ a * GroupLen \in Nat
    BY <1>1, <1>2
  <2> QED BY <1>1, <1>2, <2>1
<1> HIDE DEF r
<1>5. r \div (GroupLen + 1) = a /\ r % (GroupLen + 1) = b + 1
  <2> DEFINE g == GroupLen + 1
             c == b + 1
  <2>1. /\ g \in Nat \ {0} /\ c \in 0..(g - 1) /\ r = a * g + c
        /\ a \in Nat /\ r \in Nat
    BY <1>1, <1>2, <1>3, <1>4
  <2> HIDE DEF g, c
  <2>2. r \div g = a /\ r % g = c
    BY <2>1, QuotientIs
  <2> QED BY <2>2 DEF g, c
<1>6. b + 1 # 0 /\ r - a = d
  BY <1>1, <1>2 DEF r
<1> QED BY <1>3, <1>5, <1>6 DEF r, a

\* How many digits atom_to_uw writes.
Digits(le) == Max({1, (SigBits(le) + DigitBits - 1) \div DigitBits})

\* As many digits as the bits need, and no more than that but for zero.
LEMMA DigitsCover ==
    ASSUME NEW le \in Seq(Bit)
    PROVE  /\ Digits(le) \in Nat \ {0}
           /\ Digits(le) * DigitBits >= SigBits(le)
           /\ Digits(le) > 1 => (Digits(le) - 1) * DigitBits < SigBits(le)
<1> DEFINE sig == SigBits(le)
           q == (sig + DigitBits - 1) \div DigitBits
           rest == (sig + DigitBits - 1) % DigitBits
           d == Digits(le)
<1>1. sig \in Nat /\ DigitBits \in Nat \ {0} /\ sig + DigitBits - 1 \in Nat
  BY JamAssumption, SigBitsTop
<1>2. q \in Nat /\ rest \in 0..(DigitBits - 1) /\ sig + DigitBits - 1 = q * DigitBits + rest
  BY <1>1, Division
<1>3. d \in {1, q} /\ d >= 1 /\ d >= q
  <2> HIDE DEF q
  <2> DEFINE T == {1, q}
  <2>1. T \subseteq 0..(q + 1) /\ q + 1 \in Nat /\ T # {} /\ 1 \in T /\ q \in T
    BY <1>2
  <2>2. d = Max(T)
    BY DEF Digits, q
  <2> HIDE DEF T
  <2>3. Max(T) \in T /\ \A x \in T : Max(T) >= x
    BY <2>1, MaxOfNumbers
  <2> QED BY <2>1, <2>2, <2>3 DEF T
<1> DEFINE D == DigitBits
<1> HIDE DEF q, rest, d, sig
<1>4. d \in Nat \ {0}
  BY <1>2, <1>3
<1>5. q * D \in Nat /\ q * D >= sig
  BY <1>1, <1>2
<1>6. d * D >= q * D
  <2>1. q * D <= d * D
    BY <1>1, <1>2, <1>3, <1>4, TimesMonotone
  <2>2. d * D \in Nat /\ q * D \in Nat
    BY <1>1, <1>2, <1>4
  <2> QED BY <2>1, <2>2
<1>7. ASSUME d > 1 PROVE (d - 1) * D < sig
  <2>1. d = q
    BY <1>3, <1>7
  <2>2. (q - 1) * D = q * D - D
    BY <1>1, <1>2
  <2> QED BY <1>1, <1>2, <1>5, <2>1, <2>2
<1>8. d * D \in Nat
  BY <1>1, <1>4
<1>9. d * D >= sig
  BY <1>1, <1>5, <1>6, <1>8
<1> QED BY <1>4, <1>7, <1>9 DEF d, sig

\* The text, by its places from the right.
LEMMA UwIs ==
    ASSUME NEW le \in Seq(Bit)
    PROVE  LET t == Uw(le)
               length == Digits(le) + (Digits(le) - 1) \div GroupLen
           IN  /\ length \in Nat \ {0} /\ Len(t) = length /\ DOMAIN t = 1..length
               /\ length % (GroupLen + 1) # 0 /\ length - length \div (GroupLen + 1) = Digits(le)
               /\ \A i \in 1..length : length + 1 - i \in 1..length
               /\ \A i \in 1..length : (length + 1 - i) % (GroupLen + 1) = 0 => t[i] = Dot
               /\ \A d \in 1..Digits(le) :
                    /\ d + (d - 1) \div GroupLen \in 1..length
                    /\ t[length + 1 - (d + (d - 1) \div GroupLen)]
                         = Cut(le, (d - 1) * DigitBits + 1, DigitBits)
               /\ \A i \in 1..length : (length + 1 - i) % (GroupLen + 1) # 0 =>
                    \E p \in Nat \ {0} : t[i] = Cut(le, p, DigitBits)
<1> DEFINE digits == Digits(le)
           length == digits + (digits - 1) \div GroupLen
           char(r) == IF r % (GroupLen + 1) = 0 THEN Dot
                      ELSE Cut(le, (r - r \div (GroupLen + 1) - 1) * DigitBits + 1, DigitBits)
           t == Uw(le)
<1>0. GroupLen \in Nat \ {0} /\ GroupLen + 1 \in Nat \ {0} /\ DigitBits \in Nat \ {0}
  BY JamAssumption
<1>1. digits \in Nat \ {0}
  BY DigitsCover
<1>2. t = [i \in 1..length |-> char(length + 1 - i)]
  BY DEF Uw, Digits
<1> HIDE DEF digits
<1>3. /\ length \in Nat \ {0} /\ length % (GroupLen + 1) # 0
      /\ length - length \div (GroupLen + 1) = digits
  BY <1>1, GroupOf
<1> HIDE DEF t, char
<1>4. ASSUME NEW d \in 1..digits
      PROVE  /\ d + (d - 1) \div GroupLen \in 1..length
             /\ char(d + (d - 1) \div GroupLen) = Cut(le, (d - 1) * DigitBits + 1, DigitBits)
  <2> DEFINE r == d + (d - 1) \div GroupLen
  <2>1. d \in Nat \ {0} /\ d - 1 \in Nat /\ digits - 1 \in Nat /\ d - 1 <= digits - 1
    BY <1>1
  <2>2. /\ r \in Nat \ {0} /\ r % (GroupLen + 1) # 0
        /\ r - r \div (GroupLen + 1) = d
    BY <2>1, GroupOf
  <2>3. (d - 1) \div GroupLen <= (digits - 1) \div GroupLen
    BY <1>0, <2>1, DivMonotone
  <2>4. (d - 1) \div GroupLen \in Nat /\ (digits - 1) \div GroupLen \in Nat
    BY <1>0, <2>1, Division
  <2>5. r \in 1..length
    BY <1>1, <1>3, <2>1, <2>2, <2>3, <2>4
  <2> HIDE DEF r
  <2>6. char(r) = Cut(le, (d - 1) * DigitBits + 1, DigitBits)
    BY <2>2 DEF char
  <2> QED BY <2>5, <2>6 DEF r
<1> HIDE DEF length
<1>5. \A i \in 1..length : length + 1 - i \in 1..length
  BY <1>3
<1>6. Len(t) = length /\ DOMAIN t = 1..length /\ \A i \in 1..length : t[i] = char(length + 1 - i)
  BY <1>2, <1>3
<1>7. \A d \in 1..digits :
        /\ d + (d - 1) \div GroupLen \in 1..length
        /\ t[length + 1 - (d + (d - 1) \div GroupLen)]
             = Cut(le, (d - 1) * DigitBits + 1, DigitBits)
  <2> SUFFICES ASSUME NEW d \in 1..digits
               PROVE  /\ d + (d - 1) \div GroupLen \in 1..length
                      /\ t[length + 1 - (d + (d - 1) \div GroupLen)]
                           = Cut(le, (d - 1) * DigitBits + 1, DigitBits)
    OBVIOUS
  <2> DEFINE r == d + (d - 1) \div GroupLen
  <2>1. r \in 1..length /\ char(r) = Cut(le, (d - 1) * DigitBits + 1, DigitBits)
    BY <1>4
  <2> HIDE DEF r
  <2>2. length + 1 - r \in 1..length /\ length + 1 - (length + 1 - r) = r
    BY <1>3, <2>1
  <2>3. t[length + 1 - r] = char(r)
    BY <1>6, <2>2
  <2> QED BY <2>1, <2>3 DEF r
<1>8. ASSUME NEW i \in 1..length, (length + 1 - i) % (GroupLen + 1) = 0 PROVE t[i] = Dot
  BY <1>6, <1>8 DEF char
<1>9. ASSUME NEW i \in 1..length, (length + 1 - i) % (GroupLen + 1) # 0
      PROVE  \E p \in Nat \ {0} : t[i] = Cut(le, p, DigitBits)
  <2> DEFINE r == length + 1 - i
             q == r \div (GroupLen + 1)
             p == (r - q - 1) * DigitBits + 1
  <2>1. r \in Nat \ {0}
    BY <1>5
  <2>2. t[i] = Cut(le, p, DigitBits)
    BY <1>6, <1>9 DEF char
  <2>3. q \in Nat /\ r % (GroupLen + 1) \in 0..GroupLen /\ r = q * (GroupLen + 1) + (r % (GroupLen + 1))
    <3>1. (GroupLen + 1) - 1 = GroupLen
      BY <1>0
    <3> HIDE DEF r
    <3> QED BY <1>0, <2>1, <3>1, Division
  <2>4. r % (GroupLen + 1) # 0
    BY <1>9
  <2> HIDE DEF r, q
  <2>5. q * (GroupLen + 1) = q * GroupLen + q /\ q * GroupLen \in Nat
    BY <1>0, <2>3
  <2>6. r - q - 1 \in Nat
    BY <1>0, <2>1, <2>3, <2>4, <2>5
  <2>7. p \in Nat \ {0}
    BY <1>0, <2>6
  <2> QED BY <2>2, <2>7
<1> QED BY <1>3, <1>5, <1>6, <1>7, <1>8, <1>9 DEF length, digits, t

\* The text parses, and stands for the bits it was made from.
LEMMA UwReads ==
    ASSUME NEW le \in Seq(Bit)
    PROVE  /\ UwParses(Uw(le))
           /\ ReadUw(Uw(le)) \in Seq(Bit)
           /\ Len(ReadUw(Uw(le))) >= SigBits(le)
           /\ \A i \in Nat \ {0} : BitAt(ReadUw(Uw(le)), i) = BitAt(le, i)
<1> DEFINE t == Uw(le)
           digits == Digits(le)
           length == digits + (digits - 1) \div GroupLen
           D == DigitBits
<1>0. GroupLen + 1 \in Nat \ {0} /\ D \in Nat \ {0}
  BY JamAssumption
<1>1. /\ length \in Nat \ {0} /\ Len(t) = length /\ DOMAIN t = 1..length
      /\ length % (GroupLen + 1) # 0 /\ length - length \div (GroupLen + 1) = digits
      /\ \A i \in 1..length : (length + 1 - i) % (GroupLen + 1) = 0 => t[i] = Dot
      /\ \A d \in 1..digits :
           /\ d + (d - 1) \div GroupLen \in 1..length
           /\ t[length + 1 - (d + (d - 1) \div GroupLen)] = Cut(le, (d - 1) * D + 1, D)
      /\ \A i \in 1..length : (length + 1 - i) % (GroupLen + 1) # 0 =>
           \E p \in Nat \ {0} : t[i] = Cut(le, p, D)
  BY UwIs
<1>2. /\ digits \in Nat \ {0} /\ digits * D >= SigBits(le)
      /\ digits > 1 => (digits - 1) * D < SigBits(le)
  BY DigitsCover
<1>3. /\ SigBits(le) \in Nat /\ SigBits(le) <= Len(le) /\ Len(le) \in Nat
      /\ SigBits(le) > 0 => le[SigBits(le)] = 1
      /\ \A i \in 1..Len(le) : i > SigBits(le) => le[i] = 0
  BY SigBitsTop
<1> HIDE DEF t, length, digits
<1>4. ASSUME NEW p \in Nat \ {0} PROVE Len(Cut(le, p, D)) = D /\ Cut(le, p, D) # Dot
  <2> DEFINE c == Cut(le, p, D)
  <2>1. Len(c) = D
    BY <1>0, CutType
  <2> HIDE DEF c
  <2>2. Len(Dot) = 0
    BY DEF Dot
  <2>3. c # Dot
    BY <1>0, <2>1, <2>2
  <2> QED BY <2>1, <2>3 DEF c
<1>5. \A i \in DOMAIN t : (t[i] = Dot) <=> (Len(t) + 1 - i) % (GroupLen + 1) = 0
  <2> SUFFICES ASSUME NEW i \in 1..length
               PROVE  (t[i] = Dot) <=> (length + 1 - i) % (GroupLen + 1) = 0
    BY <1>1
  <2>1. (length + 1 - i) % (GroupLen + 1) # 0 => t[i] # Dot
    BY <1>1, <1>4
  <2> QED BY <1>1, <2>1
<1>6. 1 \in 1..length /\ length + 1 - 1 = length
  BY <1>1
<1>7. t # <<>> /\ t[1] # Dot
  <2>1. t[1] # Dot
    BY <1>1, <1>4, <1>6
  <2>2. t # <<>>
    <3>1. DOMAIN t # {}
      BY <1>1, <1>6
    <3> QED BY <3>1
  <2> QED BY <2>1, <2>2
<1>8. t[1] = Zero => Len(t) = 1
  <2>1. CASE digits = 1
    <3>1. (digits - 1) \div GroupLen = 0
      <4>1. GroupLen \in Nat \ {0} /\ 0 \in 0..(GroupLen - 1) /\ 0 = 0 * GroupLen + 0
        BY JamAssumption
      <4>2. 0 \div GroupLen = 0
        BY <4>1, QuotientIs
      <4>3. digits - 1 = 0
        BY <2>1
      <4> QED BY <4>2, <4>3
    <3> QED BY <1>1, <2>1, <3>1 DEF length
  <2>2. CASE digits > 1
    <3> DEFINE base == (digits - 1) * D
               sig == SigBits(le)
               j == sig - base
    <3>1. base \in Nat /\ digits * D = base + D
      BY <1>0, <1>2
    <3>2. j \in 1..D
      BY <1>0, <1>2, <1>3, <2>2, <3>1
    <3>3. t[1] = Cut(le, base + 1, D)
      <4>1. digits \in 1..digits
        BY <1>2
      <4>2. length + 1 - (digits + (digits - 1) \div GroupLen) = 1
        BY <1>1 DEF length
      <4> QED BY <1>1, <4>1, <4>2
    <3>4. Cut(le, base + 1, D)[j] = BitAt(le, (base + 1) + j - 1)
      <4> HIDE DEF base, j
      <4>1. base + 1 \in Nat \ {0}
        BY <3>1
      <4> QED BY <1>0, <3>2, <4>1, CutType
    <3>5. (base + 1) + j - 1 = sig /\ sig > 0
      BY <1>3, <3>1, <3>2
    <3>6. BitAt(le, sig) = 1
      <4>1. sig \in Nat \ {0} /\ sig <= Len(le) /\ le[sig] = 1
        BY <1>3, <3>5
      <4> QED BY <4>1, BitAtType
    <3> HIDE DEF base, j, sig
    <3>7. t[1][j] = 1
      BY <3>3, <3>4, <3>5, <3>6
    <3>8. Zero[j] = 0
      BY <3>2 DEF Zero
    <3> QED BY <3>7, <3>8
  <2> QED BY <1>2, <2>1, <2>2
<1>9. UwParses(t)
  BY <1>5, <1>7, <1>8 DEF UwParses
<1> DEFINE digit(d) == t[Len(t) + 1 - (d + (d - 1) \div GroupLen)]
           u == ReadUw(t)
<1>10. u = [i \in 1..(digits * D) |-> digit((i - 1) \div D + 1)[((i - 1) % D) + 1]]
  BY <1>1 DEF ReadUw
<1>11. digits * D \in Nat
  BY <1>0, <1>2
<1> HIDE DEF digit, u
<1>12. ASSUME NEW i \in 1..(digits * D)
       PROVE  u[i] = BitAt(le, i) /\ u[i] \in Bit
  <2> DEFINE x == (i - 1) \div D
             y == (i - 1) % D
  <2>0. i \in Nat /\ i >= 1 /\ i <= digits * D /\ i - 1 \in Nat
    BY <1>11
  <2>1. x \in Nat /\ y \in 0..(D - 1) /\ i - 1 = x * D + y
    BY <1>0, <2>0, Division
  <2>2. u[i] = digit(x + 1)[y + 1]
    BY <1>10
  <2> HIDE DEF x, y
  <2>3. x + 1 \in 1..digits
    <3>1. SUFFICES ASSUME digits <= x PROVE FALSE
      BY <1>2, <2>1
    <3>2. digits * D <= x * D /\ x * D \in Nat
      BY <1>0, <1>2, <2>1, <3>1, TimesMonotone
    <3> QED BY <1>0, <1>11, <2>0, <2>1, <3>2
  <2>4. digit(x + 1) = Cut(le, x * D + 1, D)
    <3>1. (x + 1) - 1 = x
      BY <2>1
    <3> QED BY <1>1, <2>3, <3>1 DEF digit
  <2>5. x * D + 1 \in Nat \ {0} /\ y + 1 \in 1..D /\ (x * D + 1) + (y + 1) - 1 = i
    <3>1. x * D \in Nat
      BY <1>0, <2>1
    <3> QED BY <1>0, <2>0, <2>1, <3>1
  <2>6. Cut(le, x * D + 1, D)[y + 1] = BitAt(le, (x * D + 1) + (y + 1) - 1)
    <3> DEFINE p == x * D + 1
               j == y + 1
    <3>1. p \in Nat \ {0} /\ j \in 1..D
      BY <2>5
    <3> HIDE DEF p, j
    <3>2. Cut(le, p, D)[j] = BitAt(le, p + j - 1)
      BY <1>0, <3>1, CutType
    <3> QED BY <3>2 DEF p, j
  <2>7. BitAt(le, i) \in Bit
    BY <2>0, BitAtType
  <2> QED BY <2>2, <2>4, <2>5, <2>6, <2>7
<1>13. u \in Seq(Bit) /\ Len(u) = digits * D
  <2>1. DOMAIN u = 1..(digits * D)
    BY <1>10
  <2>2. u \in [1..(digits * D) -> Bit]
    <3>1. u = [i \in 1..(digits * D) |-> u[i]]
      BY <1>10
    <3> QED BY <1>12, <3>1
  <2> QED BY <1>11, <2>2, FunctionIsSequence
<1>14. ASSUME NEW i \in Nat \ {0} PROVE BitAt(u, i) = BitAt(le, i)
  <2>1. CASE i <= digits * D
    <3>1. i \in 1..(digits * D)
      BY <1>11, <2>1
    <3>2. BitAt(u, i) = u[i]
      BY <1>13, <2>1, BitAtType
    <3> QED BY <1>12, <3>1, <3>2
  <2>2. CASE ~(i <= digits * D)
    <3>1. i > SigBits(le)
      BY <1>2, <1>3, <1>11, <2>2
    <3>2. BitAt(u, i) = 0
      BY <1>13, <2>2, BitAtType
    <3>3. BitAt(le, i) = IF i <= Len(le) THEN le[i] ELSE 0
      BY BitAtType
    <3>4. i <= Len(le) => le[i] = 0
      BY <1>3, <3>1
    <3> QED BY <3>2, <3>3, <3>4
  <2> QED BY <2>1, <2>2
<1>15. Len(u) >= SigBits(le)
  BY <1>2, <1>13
<1> QED BY <1>9, <1>13, <1>14, <1>15 DEF t, u

\* The feed reads back.
LEMMA FeedReads ==
    ASSUME JamInv, Jammed
    PROVE  LET text == Uw(IntoBytes(out))
           IN  UwParses(text) /\ Cue(ReadUw(text)) = Key(noun)
<1> DEFINE le == IntoBytes(out)
           stream == ReadUw(Uw(le))
           n == Len(out)
<1>1. out \in Seq(Bit) /\ n \in Nat \ {0} /\ out[n] = 1
  BY DEF JamInv, EndsInOne
<1>2. /\ le \in Seq(Bit) /\ Len(le) >= n /\ Len(le) \in Nat
      /\ \A i \in Nat \ {0} : BitAt(le, i) = BitAt(out, i)
      /\ Reads(le, 1, out)
  BY <1>1, IntoBytesBits
<1> HIDE DEF le
<1>3. /\ UwParses(Uw(le)) /\ stream \in Seq(Bit) /\ Len(stream) >= SigBits(le)
      /\ \A i \in Nat \ {0} : BitAt(stream, i) = BitAt(le, i)
  BY <1>2, UwReads
<1> HIDE DEF stream
<1>4. SigBits(le) >= n /\ SigBits(le) \in Nat
  <2>1. le[n] = 1 /\ n \in 1..Len(le)
    <3>1. BitAt(le, n) = le[n] /\ BitAt(out, n) = out[n]
      BY <1>1, <1>2, BitAtType
    <3> QED BY <1>1, <1>2, <3>1
  <2>2. SigBits(le) \in Nat /\ \A i \in 1..Len(le) : i > SigBits(le) => le[i] = 0
    BY <1>2, SigBitsTop
  <2> QED BY <1>1, <2>1, <2>2
<1>5. Reads(stream, 1, out)
  BY <1>1, <1>2, <1>3, ReadsSame
<1>6. Len(stream) >= n
  BY <1>1, <1>3, <1>4
<1>7. Cue(stream) = Key(noun)
  BY <1>3, <1>5, <1>6, CueGives
<1> QED BY <1>3, <1>7 DEF le, stream

-----------------------------------------------------------------------------
(* Nouns. *)

\* A place in the head or the tail of a cell.
LEMMA Under ==
    ASSUME NEW b \in Bit, NEW q \in Seq(Bit)
    PROVE  /\ <<b>> \o q \in Seq(Bit) /\ Len(<<b>> \o q) = Len(q) + 1 /\ Len(q) \in Nat
           /\ (<<b>> \o q)[1] = b
           /\ \A i \in 2..(Len(q) + 1) : i - 1 \in 1..Len(q) /\ (<<b>> \o q)[i] = q[i - 1]
           /\ Tail(<<b>> \o q) = q
<1> DEFINE one == <<b>>
           p == one \o q
<1>1. one \in Seq(Bit) /\ Len(one) = 1 /\ one[1] = b
  BY OneBit
<1> HIDE DEF one
<1>2. /\ p \in Seq(Bit) /\ Len(p) = Len(one) + Len(q) /\ Len(q) \in Nat
      /\ \A i \in 1..(Len(one) + Len(q)) : p[i] = IF i <= Len(one) THEN one[i] ELSE q[i - Len(one)]
  <2>1. Len(q) \in Nat
    OBVIOUS
  <2>2. /\ p \in Seq(Bit) /\ Len(p) = Len(one) + Len(q)
        /\ \A i \in 1..(Len(one) + Len(q)) : p[i] = IF i <= Len(one) THEN one[i] ELSE q[i - Len(one)]
    BY <1>1, ConcatProperties
  <2> QED BY <2>1, <2>2
<1> HIDE DEF p
<1>3. Len(p) = Len(q) + 1 /\ \A i \in 1..(Len(q) + 1) : p[i] = IF i <= 1 THEN one[i] ELSE q[i - 1]
  BY <1>1, <1>2
<1>4. 1 \in 1..(Len(q) + 1) /\ p[1] = b
  BY <1>1, <1>2, <1>3
<1>5. ASSUME NEW i \in 2..(Len(q) + 1) PROVE i - 1 \in 1..Len(q) /\ p[i] = q[i - 1]
  <2>1. i \in 1..(Len(q) + 1) /\ ~(i <= 1) /\ i - 1 \in 1..Len(q)
    BY <1>2
  <2> QED BY <1>3, <2>1
<1>6. Tail(p) = q
  <2>1. p # <<>>
    BY <1>2, <1>3
  <2>2. /\ Tail(p) \in Seq(Bit) /\ Len(Tail(p)) = Len(p) - 1
        /\ \A i \in 1..Len(Tail(p)) : Tail(p)[i] = p[i + 1]
    BY <1>2, <2>1, HeadTailProperties
  <2>3. Len(Tail(p)) = Len(q)
    BY <1>2, <1>3, <2>2
  <2>4. ASSUME NEW i \in 1..Len(q) PROVE Tail(p)[i] = q[i]
    <3>1. i + 1 \in 2..(Len(q) + 1) /\ (i + 1) - 1 = i
      BY <1>2
    <3> QED BY <1>5, <2>2, <2>3, <3>1
  <2> HIDE DEF p
  <2> QED BY <2>2, <2>3, <2>4, SeqEqual
<1> QED BY <1>2, <1>3, <1>4, <1>5, <1>6 DEF p, one

\* Places in a cell compare as they do in its part.
LEMMA PrefixUnder ==
    ASSUME NEW a \in Bit, NEW b \in Bit, NEW q \in Seq(Bit), NEW r \in Seq(Bit)
    PROVE  IsPrefix(<<a>> \o q, <<b>> \o r) <=> a = b /\ IsPrefix(q, r)
<1> DEFINE x == <<a>> \o q
           y == <<b>> \o r
<1>1. /\ x \in Seq(Bit) /\ Len(x) = Len(q) + 1 /\ Len(q) \in Nat /\ x[1] = a
      /\ \A i \in 2..(Len(q) + 1) : i - 1 \in 1..Len(q) /\ x[i] = q[i - 1]
  BY Under
<1>2. /\ y \in Seq(Bit) /\ Len(y) = Len(r) + 1 /\ Len(r) \in Nat /\ y[1] = b
      /\ \A i \in 2..(Len(r) + 1) : i - 1 \in 1..Len(r) /\ y[i] = r[i - 1]
  BY Under
<1> HIDE DEF x, y
<1>3. ASSUME IsPrefix(x, y) PROVE a = b /\ IsPrefix(q, r)
  <2>1. Len(x) <= Len(y) /\ \A i \in 1..Len(x) : x[i] = y[i]
    BY <1>1, <1>2, <1>3, PrefixIs
  <2>2. a = b
    <3>1. 1 \in 1..Len(x)
      BY <1>1
    <3> QED BY <1>1, <1>2, <2>1, <3>1
  <2>3. ASSUME NEW i \in 1..Len(q) PROVE q[i] = r[i]
    <3>1. i + 1 \in 2..(Len(q) + 1) /\ i + 1 \in 2..(Len(r) + 1) /\ i + 1 \in 1..Len(x) /\ (i + 1) - 1 = i
      BY <1>1, <1>2, <2>1
    <3>2. x[i + 1] = q[i] /\ y[i + 1] = r[i]
      BY <1>1, <1>2, <3>1
    <3> QED BY <2>1, <3>1, <3>2
  <2>4. Len(q) <= Len(r)
    BY <1>1, <1>2, <2>1
  <2> QED BY <2>2, <2>3, <2>4, PrefixIs
<1>4. ASSUME a = b, IsPrefix(q, r) PROVE IsPrefix(x, y)
  <2>1. Len(q) <= Len(r) /\ \A i \in 1..Len(q) : q[i] = r[i]
    BY <1>4, PrefixIs
  <2>2. ASSUME NEW i \in 1..Len(x) PROVE x[i] = y[i]
    <3>1. CASE i = 1
      BY <1>1, <1>2, <1>4, <3>1
    <3>2. CASE i # 1
      <4>1. i \in 2..(Len(q) + 1) /\ i \in 2..(Len(r) + 1)
        BY <1>1, <1>2, <2>1, <3>2
      <4> QED BY <1>1, <1>2, <2>1, <4>1
    <3> QED BY <3>1, <3>2
  <2>3. Len(x) <= Len(y)
    BY <1>1, <1>2, <2>1
  <2> QED BY <1>1, <1>2, <2>2, <2>3, PrefixIs
<1> QED BY <1>3, <1>4 DEF x, y

\* An atom is a noun.
LEMMA NounOfAtom ==
    ASSUME NEW le \in Seq(Bit)
    PROVE  IsNoun(Atom(le)) /\ DOMAIN Atom(le) = {<<>>} /\ Atom(le)[<<>>] = le
<1> DEFINE n == Atom(le)
           e == <<>>
<1>1. DOMAIN n = {e} /\ n[e] = le
  BY DEF Atom
<1>2. e \in Seq(Bit) /\ DOMAIN e = {} /\ Len(e) = 0
  OBVIOUS
<1> HIDE DEF n, e
<1>3. IsNoun(n)
  BY <1>1, <1>2 DEF IsNoun
<1> QED BY <1>1, <1>3 DEF n, e

\* A cell has the atoms of its parts, and no others.
LEMMA CellIs ==
    ASSUME NEW x, IsNoun(x), NEW y, IsNoun(y)
    PROVE  /\ \A q \in DOMAIN x : <<0>> \o q \in DOMAIN Cell(x, y) /\ Cell(x, y)[<<0>> \o q] = x[q]
           /\ \A q \in DOMAIN y : <<1>> \o q \in DOMAIN Cell(x, y) /\ Cell(x, y)[<<1>> \o q] = y[q]
           /\ \A p \in DOMAIN Cell(x, y) :
                \/ \E q \in DOMAIN x : p = <<0>> \o q
                \/ \E q \in DOMAIN y : p = <<1>> \o q
<1> DEFINE n == Cell(x, y)
           X == {<<0>> \o q : q \in DOMAIN x}
           Y == {<<1>> \o q : q \in DOMAIN y}
<1>0. 0 \in Bit /\ 1 \in Bit
  BY DEF Bit
<1>1. \A q \in DOMAIN x : q \in Seq(Bit)
  BY DEF IsNoun
<1>2. \A q \in DOMAIN y : q \in Seq(Bit)
  BY DEF IsNoun
<1>3. DOMAIN n = X \cup Y /\ \A p \in X \cup Y : n[p] = IF p[1] = 0 THEN x[Tail(p)] ELSE y[Tail(p)]
  BY DEF Cell
<1> HIDE DEF n
<1>4. ASSUME NEW q \in DOMAIN x PROVE <<0>> \o q \in DOMAIN n /\ n[<<0>> \o q] = x[q]
  <2> DEFINE p == <<0>> \o q
  <2>1. p \in X
    OBVIOUS
  <2>2. p[1] = 0 /\ Tail(p) = q
    BY <1>0, <1>1, Under
  <2> HIDE DEF p, X, Y
  <2>3. p \in DOMAIN n /\ n[p] = x[q]
    BY <1>3, <2>1, <2>2
  <2> QED BY <2>3 DEF p
<1>5. ASSUME NEW q \in DOMAIN y PROVE <<1>> \o q \in DOMAIN n /\ n[<<1>> \o q] = y[q]
  <2> DEFINE p == <<1>> \o q
  <2>1. p \in Y
    OBVIOUS
  <2>2. p[1] = 1 /\ Tail(p) = q
    BY <1>0, <1>2, Under
  <2>3. p[1] # 0
    BY <2>2
  <2> HIDE DEF p, X, Y
  <2>4. p \in DOMAIN n /\ n[p] = y[q]
    BY <1>3, <2>1, <2>2, <2>3
  <2> QED BY <2>4 DEF p
<1>6. \A p \in DOMAIN n : \/ \E q \in DOMAIN x : p = <<0>> \o q
                          \/ \E q \in DOMAIN y : p = <<1>> \o q
  BY <1>3
<1> QED BY <1>4, <1>5, <1>6 DEF n

\* A part of a cell, b to the side.
LEMMA SideOfCell ==
    ASSUME NEW x, IsNoun(x), NEW b \in Bit, NEW q \in DOMAIN x
    PROVE  /\ \A i \in DOMAIN (<<b>> \o q) : i > 1 =>
                \E r \in DOMAIN x :
                   IsPrefix(Append(SubSeq(<<b>> \o q, 1, i - 1), 1 - (<<b>> \o q)[i]), <<b>> \o r)
           /\ x[q] \in Seq(Bit) /\ <<b>> \o q \in Seq(Bit) /\ Len(<<b>> \o q) = Len(q) + 1
<1> DEFINE p == <<b>> \o q
<1>0. q \in Seq(Bit) /\ x[q] \in Seq(Bit) /\ \A r \in DOMAIN x : r \in Seq(Bit)
  BY DEF IsNoun
<1>1. /\ p \in Seq(Bit) /\ Len(p) = Len(q) + 1 /\ Len(q) \in Nat /\ p[1] = b
      /\ \A i \in 2..(Len(q) + 1) : i - 1 \in 1..Len(q) /\ p[i] = q[i - 1]
  BY <1>0, Under
<1> HIDE DEF p
<1>2. ASSUME NEW i \in 1..Len(p), i > 1
      PROVE  \E r \in DOMAIN x : IsPrefix(Append(SubSeq(p, 1, i - 1), 1 - p[i]), <<b>> \o r)
  <2> DEFINE j == i - 1
             s == SubSeq(q, 1, j - 1)
             a == Append(s, 1 - q[j])
             ss == SubSeq(p, 1, i - 1)
             aa == Append(ss, 1 - p[i])
             y == <<b>> \o a
  <2>1. i \in 2..(Len(q) + 1) /\ j \in 1..Len(q) /\ j \in DOMAIN q /\ i = j + 1 /\ j \in Nat
    BY <1>0, <1>1, <1>2
  <2>2. p[i] = q[j] /\ q[j] \in Bit
    BY <1>0, <1>1, <2>1
  <2>3. 1 - q[j] \in Bit
    BY <2>2 DEF Bit
  <2>4. PICK r \in DOMAIN x : IsPrefix(a, r)
    <3> HIDE DEF j
    <3> QED BY <2>1 DEF IsNoun
  <2>5. s \in Seq(Bit) /\ Len(s) = j - 1 /\ \A k \in 1..(j - 1) : s[k] = q[k]
    <3> HIDE DEF j
    <3> QED BY <1>0, <2>1
  <2>6. ss \in Seq(Bit) /\ Len(ss) = j /\ \A k \in 1..j : ss[k] = p[k]
    <3>1. i - 1 = j /\ j <= Len(p)
      BY <1>1, <2>1
    <3> HIDE DEF j
    <3> QED BY <1>1, <2>1, <3>1
  <2> HIDE DEF j, s, ss
  <2>7. /\ a \in Seq(Bit) /\ Len(a) = (j - 1) + 1 /\ a[(j - 1) + 1] = 1 - q[j]
        /\ \A k \in 1..(j - 1) : a[k] = s[k]
    BY <2>1, <2>3, <2>5, AppendProperties
  <2>8. /\ aa \in Seq(Bit) /\ Len(aa) = j + 1 /\ aa[j + 1] = 1 - q[j]
        /\ \A k \in 1..j : aa[k] = ss[k]
    BY <2>1, <2>2, <2>3, <2>6, AppendProperties
  <2> HIDE DEF a, aa
  <2>9. /\ y \in Seq(Bit) /\ Len(y) = Len(a) + 1 /\ y[1] = b
        /\ \A k \in 2..(Len(a) + 1) : k - 1 \in 1..Len(a) /\ y[k] = a[k - 1]
    BY <2>7, Under
  <2> HIDE DEF y
  <2>10. Len(y) = j + 1
    BY <2>1, <2>7, <2>9
  <2>11. ASSUME NEW k \in 1..(j + 1) PROVE aa[k] = y[k]
    <3>1. CASE k = 1
      <4>1. 1 \in 1..j
        BY <2>1
      <4>2. aa[1] = ss[1] /\ ss[1] = p[1]
        BY <2>6, <2>8, <4>1
      <4> QED BY <1>1, <2>9, <3>1, <4>2
    <3>2. CASE k = j + 1
      <4>1. k \in 2..(Len(a) + 1) /\ k - 1 = (j - 1) + 1
        BY <2>1, <2>7, <3>2
      <4>2. y[k] = a[k - 1]
        BY <2>9, <4>1
      <4> QED BY <2>7, <2>8, <3>2, <4>1, <4>2
    <3>3. CASE k # 1 /\ k # j + 1
      <4>1. k \in 1..j /\ k - 1 \in 1..(j - 1) /\ k \in 2..(Len(a) + 1) /\ k \in 2..(Len(q) + 1)
        BY <2>1, <2>7, <3>3
      <4>2. aa[k] = ss[k] /\ ss[k] = p[k]
        BY <2>6, <2>8, <4>1
      <4>3. p[k] = q[k - 1]
        BY <1>1, <4>1
      <4>4. y[k] = a[k - 1] /\ a[k - 1] = s[k - 1]
        BY <2>7, <2>9, <4>1
      <4>5. s[k - 1] = q[k - 1]
        BY <2>5, <4>1
      <4> QED BY <4>2, <4>3, <4>4, <4>5
    <3> QED BY <3>1, <3>2, <3>3
  <2>12. aa = y
    BY <2>8, <2>9, <2>10, <2>11, SeqEqual
  <2>13. IsPrefix(y, <<b>> \o r)
    BY <1>0, <2>4, <2>7, PrefixUnder DEF y
  <2> QED BY <2>12, <2>13 DEF aa, ss
<1>3. DOMAIN p = 1..Len(p)
  BY <1>1
<1> QED BY <1>0, <1>1, <1>2, <1>3 DEF p

\* A place that begins with a side.
LEMMA FirstTurn ==
    ASSUME NEW a \in Bit, NEW b \in Bit, NEW q \in Seq(Bit), NEW r \in Seq(Bit), a + b = 1
    PROVE  /\ 1 \in DOMAIN (<<a>> \o q)
           /\ IsPrefix(Append(SubSeq(<<a>> \o q, 1, 1 - 1), 1 - (<<a>> \o q)[1]), <<b>> \o r)
<1> DEFINE p == <<a>> \o q
           e == SubSeq(p, 1, 1 - 1)
           x == Append(e, 1 - p[1])
           y == <<b>> \o r
<1>1. p \in Seq(Bit) /\ Len(p) = Len(q) + 1 /\ Len(q) \in Nat /\ p[1] = a
  BY Under
<1>2. y \in Seq(Bit) /\ Len(y) = Len(r) + 1 /\ Len(r) \in Nat /\ y[1] = b
  BY Under
<1> HIDE DEF p, y
<1>3. 1 - p[1] = b
  BY <1>1 DEF Bit
<1>4. e \in Seq(Bit) /\ Len(e) = 0
  <2>1. 1 - 1 = 0
    OBVIOUS
  <2> QED BY <1>1, <2>1
<1> HIDE DEF e
<1>5. x \in Seq(Bit) /\ Len(x) = 1 /\ x[1] = b
  <2>1. /\ Append(e, b) \in Seq(Bit) /\ Len(Append(e, b)) = 0 + 1 /\ Append(e, b)[0 + 1] = b
    BY <1>4, AppendProperties
  <2>2. 0 + 1 = 1
    OBVIOUS
  <2> QED BY <1>3, <2>1, <2>2
<1> HIDE DEF x
<1>6. Len(x) <= Len(y) /\ \A i \in 1..Len(x) : x[i] = y[i]
  BY <1>2, <1>5
<1>7. IsPrefix(x, y)
  BY <1>2, <1>5, <1>6, PrefixIs
<1>8. 1 \in DOMAIN p
  BY <1>1
<1> QED BY <1>7, <1>8 DEF p, e, x, y

\* A cell of two nouns is a noun.
LEMMA NounOfCell ==
    ASSUME NEW x, IsNoun(x), NEW y, IsNoun(y)
    PROVE  IsNoun(Cell(x, y))
<1> DEFINE n == Cell(x, y)
<1>0. 0 \in Bit /\ 1 \in Bit /\ 0 + 1 = 1 /\ 1 + 0 = 1
  BY DEF Bit
<1>1. /\ \A q \in DOMAIN x : <<0>> \o q \in DOMAIN n /\ n[<<0>> \o q] = x[q]
      /\ \A q \in DOMAIN y : <<1>> \o q \in DOMAIN n /\ n[<<1>> \o q] = y[q]
      /\ \A p \in DOMAIN n :
           \/ \E q \in DOMAIN x : p = <<0>> \o q
           \/ \E q \in DOMAIN y : p = <<1>> \o q
  BY SMTT(30), CellIs
<1> HIDE DEF n
<1>2. /\ \A q \in DOMAIN x : q \in Seq(Bit) /\ Len(q) \in Nat
      /\ \A q \in DOMAIN y : q \in Seq(Bit) /\ Len(q) \in Nat
      /\ \A q, r \in DOMAIN x : IsPrefix(q, r) => q = r
      /\ \A q, r \in DOMAIN y : IsPrefix(q, r) => q = r
  BY DEF IsNoun
<1>3. PICK dx \in DOMAIN x : \A q \in DOMAIN x : Len(q) <= Len(dx)
  BY DEF IsNoun
<1>4. PICK dy \in DOMAIN y : \A q \in DOMAIN y : Len(q) <= Len(dy)
  BY DEF IsNoun
<1>5. \A p \in DOMAIN n : p \in Seq(Bit) /\ n[p] \in Seq(Bit)
  <2>1. ASSUME NEW q \in DOMAIN x PROVE <<0>> \o q \in Seq(Bit) /\ x[q] \in Seq(Bit)
    BY <1>0, SideOfCell
  <2>2. ASSUME NEW q \in DOMAIN y PROVE <<1>> \o q \in Seq(Bit) /\ y[q] \in Seq(Bit)
    BY <1>0, SideOfCell
  <2> QED BY <1>1, <2>1, <2>2
<1>6. ASSUME NEW p \in DOMAIN n, NEW q \in DOMAIN n, IsPrefix(p, q) PROVE p = q
  <2>1. ASSUME NEW a \in DOMAIN x, NEW b \in DOMAIN x, IsPrefix(<< 0 >> \o a, << 0 >> \o b)
        PROVE  a = b
    <3>1. IsPrefix(a, b)
      BY <1>0, <1>2, <2>1, PrefixUnder
    <3> QED BY <1>2, <3>1
  <2>2. ASSUME NEW a \in DOMAIN y, NEW b \in DOMAIN y, IsPrefix(<< 1 >> \o a, << 1 >> \o b)
        PROVE  a = b
    <3>1. IsPrefix(a, b)
      BY <1>0, <1>2, <2>2, PrefixUnder
    <3> QED BY <1>2, <3>1
  <2>3. ASSUME NEW a \in DOMAIN x, NEW b \in DOMAIN y
        PROVE  ~IsPrefix(<<0>> \o a, <<1>> \o b) /\ ~IsPrefix(<<1>> \o b, <<0>> \o a)
    <3>1. 0 # 1
      OBVIOUS
    <3> QED BY <1>0, <1>2, <3>1, PrefixUnder
  <2>4. CASE \E a \in DOMAIN x : p = <<0>> \o a
    <3>1. PICK a \in DOMAIN x : p = <<0>> \o a
      BY <2>4
    <3>2. ~\E b \in DOMAIN y : q = <<1>> \o b
      BY <1>6, <2>3, <3>1
    <3>3. PICK b \in DOMAIN x : q = <<0>> \o b
      BY <1>1, <3>2
    <3> QED BY <1>6, <2>1, <3>1, <3>3
  <2>5. CASE \E a \in DOMAIN y : p = <<1>> \o a
    <3>1. PICK a \in DOMAIN y : p = <<1>> \o a
      BY <2>5
    <3>2. ~\E b \in DOMAIN x : q = <<0>> \o b
      BY <1>6, <2>3, <3>1
    <3>3. PICK b \in DOMAIN y : q = <<1>> \o b
      BY <1>1, <3>2
    <3> QED BY <1>6, <2>2, <3>1, <3>3
  <2> QED BY <1>1, <2>4, <2>5
<1>7. ASSUME NEW p \in DOMAIN n, NEW i \in DOMAIN p
      PROVE  \E q \in DOMAIN n : IsPrefix(Append(SubSeq(p, 1, i - 1), 1 - p[i]), q)
  <2>0. i = 1 \/ i > 1
    <3>1. i \in 1..Len(p) /\ Len(p) \in Nat
      BY <1>5
    <3> QED BY <3>1
  <2>1. CASE \E a \in DOMAIN x : p = <<0>> \o a
    <3>1. PICK a \in DOMAIN x : p = <<0>> \o a
      BY <2>1
    <3>2. CASE i = 1
      <4>1. IsPrefix(Append(SubSeq(p, 1, 1 - 1), 1 - p[1]), <<1>> \o dy)
        BY <1>0, <1>2, <3>1, FirstTurn
      <4> QED BY <1>1, <3>2, <4>1
    <3>3. CASE i > 1
      <4>1. \E r \in DOMAIN x : IsPrefix(Append(SubSeq(p, 1, i - 1), 1 - p[i]), <<0>> \o r)
        BY <1>0, <3>1, <3>3, SideOfCell
      <4> QED BY <1>1, <4>1
    <3> QED BY <2>0, <3>2, <3>3
  <2>2. CASE \E a \in DOMAIN y : p = <<1>> \o a
    <3>1. PICK a \in DOMAIN y : p = <<1>> \o a
      BY <2>2
    <3>2. CASE i = 1
      <4>1. IsPrefix(Append(SubSeq(p, 1, 1 - 1), 1 - p[1]), <<0>> \o dx)
        BY <1>0, <1>2, <3>1, FirstTurn
      <4> QED BY <1>1, <3>2, <4>1
    <3>3. CASE i > 1
      <4>1. \E r \in DOMAIN y : IsPrefix(Append(SubSeq(p, 1, i - 1), 1 - p[i]), <<1>> \o r)
        BY <1>0, <3>1, <3>3, SideOfCell
      <4> QED BY <1>1, <4>1
    <3> QED BY <2>0, <3>2, <3>3
  <2> QED BY <1>1, <2>1, <2>2
<1>8. \E p \in DOMAIN n : \A q \in DOMAIN n : Len(q) <= Len(p)
  <2>1. \A q \in DOMAIN x : Len(<<0>> \o q) = Len(q) + 1
    BY <1>0, SideOfCell
  <2>2. \A q \in DOMAIN y : Len(<<1>> \o q) = Len(q) + 1
    BY <1>0, SideOfCell
  <2>3. CASE Len(dx) <= Len(dy)
    <3>1. \A q \in DOMAIN n : Len(q) <= Len(<<1>> \o dy)
      <4>1. \A q \in DOMAIN x : Len(q) + 1 <= Len(dy) + 1
        BY <1>2, <1>3, <2>3
      <4>2. \A q \in DOMAIN y : Len(q) + 1 <= Len(dy) + 1
        BY <1>2, <1>4
      <4> QED BY <1>1, <2>1, <2>2, <4>1, <4>2
    <3> QED BY <1>1, <3>1
  <2>4. CASE Len(dy) <= Len(dx)
    <3>1. \A q \in DOMAIN n : Len(q) <= Len(<<0>> \o dx)
      <4>1. \A q \in DOMAIN x : Len(q) + 1 <= Len(dx) + 1
        BY <1>2, <1>3
      <4>2. \A q \in DOMAIN y : Len(q) + 1 <= Len(dx) + 1
        BY <1>2, <1>4, <2>4
      <4> QED BY <1>1, <2>1, <2>2, <4>1, <4>2
    <3> QED BY <1>1, <3>1
  <2> QED BY <1>2, <2>3, <2>4
<1>9. IsNoun(n)
  BY <1>5, <1>6, <1>7, <1>8 DEF IsNoun
<1> QED BY <1>9 DEF n

\* The atom at a place, from the key.
LEMMA AtomAtIs ==
    ASSUME NEW n, IsNoun(n), NEW p \in DOMAIN n
    PROVE  AtomAt(Key(n), p) = Trim(n[p])
<1> DEFINE key == Key(n)
           a == CHOOSE a \in key : a[1] = p
           x == <<p, Trim(n[p])>>
<1>1. key = AtomsOf(n, DOMAIN n)
  BY KeyIs
<1>2. x \in key /\ x[1] = p
  BY <1>1 DEF AtomsOf
<1> HIDE DEF x
<1>3. a \in key /\ a[1] = p
  BY <1>2
<1>4. AtomAt(key, p) = a[2]
  BY DEF AtomAt
<1> HIDE DEF a
<1>5. PICK q \in DOMAIN n : a = <<q, Trim(n[q])>>
  BY <1>1, <1>3 DEF AtomsOf
<1>6. q = p /\ a[2] = Trim(n[q])
  BY <1>3, <1>5
<1> QED BY <1>4, <1>6
=============================================================================
