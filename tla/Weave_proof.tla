------------------------------ MODULE Weave_proof ------------------------------
(***************************************************************************)
(* Proofs about the weave: the two lookups of the raw weave are inverse    *)
(* for every head, no two rows of a page whose ends are apart share a jet  *)
(* of a pass, and no line of any page is printed twice.                    *)
(*                                                                         *)
(* The advance a and the number p of passes in a sub-block are coprime, as *)
(* both are divided by their greatest common divisor, so that of the p     *)
(* passes of a sub-block one, and one only, prints a row of its offset.    *)
(* The walk of calculate_raw_row_parameters meets it (RawRow), which makes *)
(* the row lookup the inverse of the pass lookup (RawLookup).  The cooked  *)
(* weave moves passes, and moves their jets with them; it keeps two rows   *)
(* apart because it gives no number twice (PassmapNumbers, NumbersDiffer). *)
(*                                                                         *)
(* The bank of slots needs none of this.  Its invariant (EachLineKept) is  *)
(* that the lines in the slots and in the passes sent are lines that were  *)
(* handed over with ink, each at one place (Tidy): a row comes once, a     *)
(* pass that takes a slot over empties it, and what is sent leaves it.     *)
(* The loops over colours and subpasses are folds; a property that every   *)
(* turn keeps is kept by the fold (FoldSteps), by the least turn after     *)
(* which it fails.                                                         *)
(***************************************************************************)
EXTENDS Weave, WellFoundedInduction, FunctionTheorems, FiniteSetTheorems, TLAPS

-----------------------------------------------------------------------------
(* Numbers.                                                                *)

\* A set of naturals that holds one has a least one.
LEMMA LeastNat ==
    ASSUME NEW T \in SUBSET Nat, T # {}
    PROVE  \E x \in T : \A y \in T : x <= y
<1>1. PICK x \in T : \A y \in T : ~(<<y, x>> \in OpToRel(<, Nat))
  BY WFMin, NatLessThanWellFounded, Zenon
<1>2. \A y \in T : ~(y < x)
  BY <1>1, Zenon DEF OpToRel
<1>3. QED  BY <1>2

\* The quotient and the remainder, which / and % of the C code compute.
LEMMA DivMod ==
    ASSUME NEW k \in Int, NEW m \in Nat \ {0}
    PROVE  \E x \in Int, r \in 0 .. m - 1 :
              x = k \div m /\ r = k % m /\ k = m * x + r
<1>1. k \div m \in Int /\ k % m \in 0 .. m - 1 /\ k = m * (k \div m) + (k % m)
  OBVIOUS
<1>2. QED  BY <1>1

\* The same as a conjunction, for the provers.
LEMMA Quotient ==
    ASSUME NEW k \in Int, NEW m \in Nat \ {0}
    PROVE  k \div m \in Int /\ k % m \in 0 .. m - 1 /\ k = m * (k \div m) + (k % m)
OBVIOUS

\* A number is written with a remainder in one way only.
LEMMA DivModUnique ==
    ASSUME NEW m \in Nat \ {0}, NEW x \in Int, NEW r \in 0 .. m - 1
    PROVE  (m * x + r) \div m = x /\ (m * x + r) % m = r
OBVIOUS

\* Numbers with one remainder differ by a multiple.
LEMMA SameResidue ==
    ASSUME NEW u \in Int, NEW v \in Int, NEW m \in Nat \ {0}, u % m = v % m
    PROVE  \E z \in Int : u - v = m * z
<1>1. PICK x \in Int, r \in 0 .. m - 1 : r = u % m /\ u = m * x + r
  BY DivMod, Zenon
<1>2. PICK y \in Int, t \in 0 .. m - 1 : t = v % m /\ v = m * y + t
  BY DivMod, Zenon
<1>3. r = t /\ r \in Int  BY <1>1, <1>2
<1>4. u - v = m * (x - y)  BY <1>1, <1>2, <1>3
<1>5. QED  BY <1>4

\* The remainder is zero for the multiples and for no other number.
LEMMA Divides ==
    ASSUME NEW k \in Int, NEW m \in Nat \ {0}
    PROVE  k % m = 0 <=> \E x \in Int : k = m * x
<1>1. ASSUME k % m = 0 PROVE \E x \in Int : k = m * x
  <2>1. PICK x \in Int, r \in 0 .. m - 1 : r = k % m /\ k = m * x + r
    BY DivMod, Zenon
  <2>2. k = m * x  BY <1>1, <2>1
  <2>3. QED  BY <2>2
<1>2. ASSUME NEW x \in Int, k = m * x PROVE k % m = 0
  BY <1>2
<1>3. QED  BY <1>1, <1>2, Zenon

-----------------------------------------------------------------------------
(* The strategies of the weave.                                            *)

\* A weave whose passes start at n offsets in a pattern that works: the
\* weave test of the source calls the third way of ascending broken.
OffsetFits(w, n) ==
    /\ w.subblocksperpassblock = n /\ w.strategy \in Strategies \ {"ascending_3x"}

\* The offset that a strategy gives to a sub-block of passes is in the
\* sub-block, and the lookup of calculate_raw_row_parameters undoes it.
LEMMA OffsetOfBlock ==
    ASSUME NEW n \in Nat \ {0}, NEW w, OffsetFits(w, n), NEW b \in 0 .. n - 1
    PROVE  /\ SubpassOffset(w, b) \in 0 .. n - 1
           /\ SubpassBlock(w, SubpassOffset(w, b)) = b
BY DEF SubpassOffset, SubpassBlock, OffsetFits, Strategies

\* Every offset is the offset of the sub-block that the lookup computes.
LEMMA BlockOfOffset ==
    ASSUME NEW n \in Nat \ {0}, NEW w, OffsetFits(w, n), NEW o \in 0 .. n - 1
    PROVE  /\ SubpassBlock(w, o) \in 0 .. n - 1
           /\ SubpassOffset(w, SubpassBlock(w, o)) = o
<1>1. CASE w.strategy = "zigzag"
  BY <1>1 DEF SubpassOffset, SubpassBlock, OffsetFits
<1>2. CASE w.strategy = "ascending"
  BY <1>2 DEF SubpassOffset, SubpassBlock, OffsetFits
<1>3. CASE w.strategy = "descending"
  BY <1>3 DEF SubpassOffset, SubpassBlock, OffsetFits
<1>4. CASE w.strategy = "ascending_2x"
  BY <1>4 DEF SubpassOffset, SubpassBlock, OffsetFits
<1>5. CASE w.strategy = "staggered"
  BY <1>5 DEF SubpassOffset, SubpassBlock, OffsetFits
<1>6. QED  BY <1>1, <1>2, <1>3, <1>4, <1>5 DEF OffsetFits, Strategies

-----------------------------------------------------------------------------
(* The greatest common divisor and what is coprime.                        *)

\* gcd returns a common divisor, and no other is larger.
LEMMA GcdIsGreatest ==
    ASSUME NEW x \in Nat \ {0}, NEW y \in Nat \ {0}
    PROVE  /\ gcd(x, y) \in 1 .. x
           /\ x % gcd(x, y) = 0 /\ y % gcd(x, y) = 0
           /\ \A d \in 1 .. x : x % d = 0 /\ y % d = 0 => d <= gcd(x, y)
<1> DEFINE D == {d \in 1 .. x : x % d = 0 /\ y % d = 0}
           U == {u \in Nat : x - u \in D}
<1>1. 1 \in D  OBVIOUS
<1>2. U \in SUBSET Nat /\ x - 1 \in U  BY <1>1
<1>3. PICK u \in U : \A v \in U : u <= v  BY <1>2, LeastNat, Zenon
<1>4. x - u \in D  BY <1>3
<1>5. \A d \in D : d <= x - u
  <2>1. TAKE d \in D
  <2>2. x - d \in U  OBVIOUS
  <2>3. QED  BY <2>2, <1>3
<1>6. gcd(x, y) \in D /\ \A d \in D : gcd(x, y) >= d
  <2>1. gcd(x, y) = CHOOSE m \in D : \A d \in D : m >= d
    BY DEF gcd, Max
  <2>2. \E m \in D : \A d \in D : m >= d
    BY <1>4, <1>5, Zenon
  <2> HIDE DEF D
  <2>3. QED  BY <2>1, <2>2
<1>7. QED  BY <1>6

\* No common divisor but 1.
Coprime(p, a) == \A m \in Nat \ {0} : p % m = 0 /\ a % m = 0 => m = 1

\* Steps of a length that is coprime to p come back to a multiple of p only
\* after p steps.
LEMMA CoprimeStep ==
    ASSUME NEW p \in Nat \ {0}, NEW a \in Nat \ {0},
           Coprime(p, a),
           NEW d \in 1 .. p - 1
    PROVE  (a * d) % p # 0
<1>1. SUFFICES ASSUME (a * d) % p = 0 PROVE FALSE  OBVIOUS
<1> DEFINE T == {k \in Nat \ {0} : \E t \in Int : a * k = p * t}
<1>2. d \in T
  <2>1. a * d = p * ((a * d) \div p)  BY <1>1
  <2>2. QED  BY <2>1
<1>3. p \in T
  <2>1. a * p = p * a OBVIOUS
  <2>2. QED BY <2>1
<1>4. PICK k \in T : \A y \in T : k <= y
  <2>1. T \in SUBSET Nat  OBVIOUS
  <2> HIDE DEF T
  <2>2. QED  BY <1>2, <2>1, LeastNat
<1>5. PICK t \in Int : a * k = p * t  BY <1>4
<1>k. k \in Nat \ {0} /\ (\A y \in T : k <= y)  BY <1>4
<1> DEFINE q == p \div k
           r == p % k
<1>6. q \in Int /\ r \in 0 .. k - 1 /\ p = k * q + r  BY <1>k
<1>7. r = 0
  <2>1. a * r = p * (a - t * q)
    <3> HIDE DEF q, r, T
    <3>1. a * p = a * (k * q) + a * r BY <1>6, <1>k
    <3>2. a * (k * q) = (a * k) * q BY <1>6, <1>k
    <3>3. (a * k) * q = p * (t * q) BY <1>5, <1>6
    <3>4. QED BY <3>1, <3>2, <3>3, <1>6
  <2>2. r # 0 => r \in T
    <3>1. a - t * q \in Int  BY <1>6
    <3>2. r \in Nat  BY <1>6
    <3>3. PICK x \in Int : x = a - t * q  BY <3>1, Zenon
    <3>4. a * r = p * x  BY <2>1, <3>3
    <3> HIDE DEF q, r
    <3>5. QED  BY <3>4, <3>2
  <2> HIDE DEF q, r, T
  <2>3. QED BY <2>2, <1>k, <1>6
<1> HIDE DEF q, r, T
<1>8. p = k * q
  <2>1. k * q \in Int  BY <1>6, <1>k
  <2>2. QED  BY <2>1, <1>6, <1>7
<1>9. q \in Nat \ {0}  BY <1>8, <1>6, <1>k
<1>10. a = q * t
  <2>1. a * k = (q * t) * k
    <3>1. (k * q) * t = (q * t) * k  BY <1>k, <1>5, <1>6
    <3>2. QED  BY <3>1, <1>5, <1>8
  <2>2. QED  BY <2>1, <1>k, <1>5, <1>6
<1>11. p % q = 0 /\ a % q = 0
  BY <1>8, <1>9, <1>10, <1>k, <1>5
<1>12. q = 1  BY <1>9, <1>11 DEF Coprime
<1>13. QED  BY <1>12, <1>8, <1>k, <1>2

\* Among p steps in a row one hits a multiple of p, and no two are alike.
LEMMA OneOfARun ==
    ASSUME NEW p \in Nat \ {0}, NEW a \in Nat \ {0},
           Coprime(p, a),
           NEW c \in Int, NEW s \in Int
    PROVE  /\ \E j \in s .. s + p - 1 : (c - a * j) % p = 0
           /\ \A i, j \in s .. s + p - 1 :
                 (c - a * i) % p = (c - a * j) % p => i = j
<1> DEFINE S == s .. s + p - 1
           f == [j \in S |-> (c - a * j) % p]
<1>1. \A i, j \in S : (c - a * i) % p = (c - a * j) % p => ~(i < j)
  <2>1. SUFFICES ASSUME NEW i \in S, NEW j \in S, i < j,
                        (c - a * i) % p = (c - a * j) % p
                 PROVE  FALSE
    OBVIOUS
  <2>2. PICK z \in Int : (c - a * i) - (c - a * j) = p * z
    <3>1. PICK u \in Int, v \in Int : u = c - a * i /\ v = c - a * j  OBVIOUS
    <3>2. u % p = v % p  BY <3>1, <2>1
    <3>3. \E z \in Int : u - v = p * z  BY <3>2, SameResidue, Zenon
    <3>4. QED  BY <3>1, <3>3, Zenon
  <2>3. a * (j - i) = p * z
    BY <2>2
  <2>4. (a * (j - i)) % p = 0
    BY <2>3
  <2>5. j - i \in 1 .. p - 1
    BY <2>1
  <2>6. QED  BY <2>4, <2>5, CoprimeStep, Zenon
<1>2. \A i, j \in S : (c - a * i) % p = (c - a * j) % p => i = j
  <2>1. \A i, j \in S : i = j \/ i < j \/ j < i  OBVIOUS
  <2>2. QED  BY <2>1, <1>1
<1>3. f \in Injection(S, 0 .. p - 1)
  <2>1. f \in [S -> 0 .. p - 1]  OBVIOUS
  <2>2. \A i, j \in S : f[i] = f[j] => i = j  BY <1>2
  <2> HIDE DEF f
  <2>3. QED  BY <2>1, <2>2 DEF Injection, IsInjective
<1>4. /\ IsFiniteSet(0 .. p - 1) /\ Cardinality(0 .. p - 1) = p
      /\ Cardinality(S) = p
  BY FS_Interval
<1>5. f \in Surjection(S, 0 .. p - 1)
  <2> HIDE DEF f, S
  <2>1. QED  BY <1>3, <1>4, FS_Injection
<1>6. \E j \in S : f[j] = 0
  <2> HIDE DEF f, S
  <2>1. 0 \in 0 .. p - 1 OBVIOUS
  <2>2. QED  BY <1>5, <2>1 DEF Surjection
<1>7. QED  BY <1>6, <1>2, Zenon

-----------------------------------------------------------------------------
(* The raw weave of a head.                                                *)

\* What initialize_raw_weave computes for a head that the drivers may ask for.
Heads(w, separation, jets, oversample) ==
    /\ separation \in Nat \ {0} /\ jets \in Nat \ {0}
    /\ oversample \in Nat \ {0} /\ oversample <= jets
    /\ \E strategy \in Strategies \ {"ascending_3x"} :
          w = initialize_raw_weave(separation, jets, oversample, strategy)

\* The sub-blocks divide the separation and the advance, their number is the
\* greatest that does, and the subpasses of a pass fit on the jets.
LEMMA RawFacts ==
    ASSUME NEW w, NEW sep, NEW jets, NEW over, Heads(w, sep, jets, over)
    PROVE  /\ w.separation = sep /\ w.jets = jets /\ w.oversampling = over
           /\ w.advancebasis \in Nat \ {0} /\ w.subblocksperpassblock \in Nat \ {0}
           /\ w.passespersubblock \in Nat \ {0}
           /\ sep = w.subblocksperpassblock * w.passespersubblock
           /\ w.advancebasis * over <= jets /\ jets < (w.advancebasis + 1) * over
           /\ OffsetFits(w, w.subblocksperpassblock)
           /\ \E a \in Nat \ {0} :
                 /\ w.advancebasis = w.subblocksperpassblock * a
                 /\ Coprime(w.passespersubblock, a)
<1>1. PICK st \in Strategies \ {"ascending_3x"} : w = initialize_raw_weave(sep, jets, over, st)
  BY DEF Heads
<1>0. /\ sep \in Nat \ {0} /\ jets \in Nat \ {0} /\ over \in Nat \ {0} /\ over <= jets
  BY DEF Heads
<1> DEFINE adv == jets \div over
           n == gcd(sep, adv)
           p == sep \div n
           a == adv \div n
<1>2. adv \in Nat \ {0} /\ adv * over <= jets /\ jets < (adv + 1) * over
  <2>1. jets = over * (jets \div over) + (jets % over) /\ jets \div over \in Int
        /\ jets % over \in 0 .. over - 1
    BY <1>0
  <2>2. jets \div over # 0 BY <2>1, <1>0
  <2>3. jets \div over >= 0 BY <1>0
  <2>4. QED BY <2>1, <2>2, <2>3, <1>0
<1>3. Max({1, adv}) = adv
  <2> HIDE DEF adv
  <2>1. adv >= 1 BY <1>2
  <2>2. QED BY <1>2, <2>1 DEF Max
<1>4. /\ w.separation = sep /\ w.jets = jets /\ w.oversampling = over
      /\ w.advancebasis = adv /\ w.subblocksperpassblock = n
      /\ w.passespersubblock = p /\ w.strategy = st
  BY <1>1, <1>3 DEF initialize_raw_weave
<1>5. /\ n \in 1 .. sep /\ sep % n = 0 /\ adv % n = 0
      /\ \A d \in 1 .. sep : sep % d = 0 /\ adv % d = 0 => d <= n
  <2> HIDE DEF adv
  <2>1. QED BY <1>0, <1>2, GcdIsGreatest, Zenon
<1> HIDE DEF adv, n
<1>6. p \in Nat \ {0} /\ sep = n * p
  <2>1. sep = n * (sep \div n) + (sep % n) /\ sep \div n \in Int  BY <1>5, <1>0
  <2>2. QED  BY <2>1, <1>5, <1>0
<1>7. a \in Nat \ {0} /\ adv = n * a
  <2>1. adv = n * (adv \div n) + (adv % n) /\ adv \div n \in Int  BY <1>5, <1>2
  <2>2. QED  BY <2>1, <1>5, <1>2
<1> HIDE DEF a, p
<1>8. ASSUME NEW m \in Nat \ {0}, p % m = 0, a % m = 0
      PROVE  m = 1
  <2>1. PICK x \in Int : p = m * x
    <3>1. p \in Int  BY <1>6
    <3>2. p % m = 0 <=> \E x \in Int : p = m * x  BY <3>1, Divides, Zenon
    <3>3. QED  BY <3>2, <1>8
  <2>2. PICK y \in Int : a = m * y
    <3>1. a \in Int  BY <1>7
    <3>2. a % m = 0 <=> \E y \in Int : a = m * y  BY <3>1, Divides, Zenon
    <3>3. QED  BY <3>2, <1>8
  <2>3. sep = (n * m) * x  BY <2>1, <1>6, <1>5
  <2>4. adv = (n * m) * y  BY <2>2, <1>7, <1>5
  <2>5. PICK d \in Nat \ {0} : d = n * m  BY <1>5
  <2>6. sep = d * x /\ adv = d * y  BY <2>3, <2>4, <2>5
  <2>7. sep % d = 0 /\ adv % d = 0  BY <2>6
  <2>8. d <= sep
    <3>1. x >= 1  BY <2>6, <1>0
    <3>2. QED  BY <2>6, <3>1
  <2>9. d <= n  BY <2>7, <2>8, <1>5
  <2>10. QED  BY <2>9, <2>5, <1>5
<1>9. Coprime(p, a)  BY <1>8 DEF Coprime
<1>10. n \in Nat \ {0} /\ OffsetFits(w, n)  BY <1>4, <1>5, <1>0 DEF OffsetFits
<1>11. \E b \in Nat \ {0} :
          adv = n * b /\ Coprime(p, b)
  BY <1>7, <1>9
<1>12. QED
  BY <1>2, <1>4, <1>6, <1>10, <1>11

\* A factor on both sides of a remainder cancels.
LEMMA ScaledResidue ==
    ASSUME NEW n \in Nat \ {0}, NEW p \in Nat \ {0}, NEW d \in Int
    PROVE  (n * d) % (n * p) = 0 <=> d % p = 0
<1>1. PICK m \in Nat \ {0} : m = n * p  OBVIOUS
<1>2. PICK k \in Int : k = n * d  OBVIOUS
<1>3. k % m = 0 <=> \E x \in Int : k = m * x  BY Divides, Zenon
<1>4. d % p = 0 <=> \E x \in Int : d = p * x  BY Divides, Zenon
<1>5. \A x \in Int : k = m * x <=> d = p * x
  <2>1. TAKE x \in Int
  <2>2. PICK y \in Int : y = p * x  OBVIOUS
  <2>3. m * x = n * y  BY <1>1, <2>2
  <2>4. n * d = n * y <=> d = y  OBVIOUS
  <2>5. QED  BY <1>2, <2>2, <2>3, <2>4
<1>6. QED  BY <1>1, <1>2, <1>3, <1>4, <1>5, Zenon

\* A multiple does not change whether a remainder is zero.
LEMMA MultipleAdded ==
    ASSUME NEW m \in Nat \ {0}, NEW u \in Int, NEW z \in Int
    PROVE  (u + m * z) % m = 0 <=> u % m = 0
<1>1. PICK v \in Int : v = u + m * z  OBVIOUS
<1>2. u % m = 0 <=> \E x \in Int : u = m * x  BY Divides, Zenon
<1>3. v % m = 0 <=> \E x \in Int : v = m * x  BY Divides, Zenon
<1>4. ASSUME NEW x \in Int, u = m * x PROVE \E y \in Int : v = m * y
  <2>1. v = m * (x + z)  BY <1>1, <1>4
  <2>2. QED  BY <2>1
<1>5. ASSUME NEW x \in Int, v = m * x PROVE \E y \in Int : u = m * y
  <2>1. u = m * (x - z)  BY <1>1, <1>5
  <2>2. QED  BY <2>1
<1>6. QED  BY <1>1, <1>2, <1>3, <1>4, <1>5, Zenon

\* The passes of one subpass and one sub-block follow each other.
LEMMA RunOf ==
    ASSUME NEW n \in Nat \ {0}, NEW p \in Nat \ {0}, NEW sep, sep = n * p,
           NEW s \in Int, NEW b \in 0 .. n - 1, NEW j \in Int
    PROVE  (j \div sep = s /\ (j % sep) \div p = b)
             <=> j \in s * sep + b * p .. s * sep + b * p + p - 1
<1>0. sep \in Nat \ {0}  OBVIOUS
<1>1. ASSUME j \div sep = s, (j % sep) \div p = b
      PROVE  j \in s * sep + b * p .. s * sep + b * p + p - 1
  <2>1. PICK x \in Int, r \in 0 .. sep - 1 : x = j \div sep /\ r = j % sep /\ j = sep * x + r
    BY <1>0, DivMod, Zenon
  <2>2. r \in Int  BY <1>0, <2>1
  <2>3. PICK y \in Int, t \in 0 .. p - 1 : y = r \div p /\ t = r % p /\ r = p * y + t
    BY <2>2, DivMod, Zenon
  <2>4. j = sep * s + (p * b + t)  BY <1>1, <2>1, <2>3, Zenon
  <2>5. sep * s = s * sep /\ p * b = b * p  BY <1>0
  <2>6. QED  BY <2>3, <2>4, <2>5, <1>0
<1>2. ASSUME j \in s * sep + b * p .. s * sep + b * p + p - 1
      PROVE  j \div sep = s /\ (j % sep) \div p = b
  <2>1. PICK t \in 0 .. p - 1 : j = s * sep + b * p + t
    <3>1. PICK u \in Int : u = s * sep + b * p  BY <1>0
    <3>2. j \in u .. u + p - 1  BY <1>2, <3>1
    <3>3. j - u \in 0 .. p - 1 /\ j = u + (j - u)  BY <3>2
    <3>4. QED  BY <3>3, <3>1
  <2>2. PICK r \in Int : r = p * b + t  OBVIOUS
  <2>3. r \in 0 .. sep - 1
    <3>1. p * b <= p * (n - 1)  OBVIOUS
    <3>2. p * (n - 1) = n * p - p  OBVIOUS
    <3>3. QED  BY <3>1, <3>2, <2>1, <2>2, <1>0
  <2>4. j = sep * s + r  BY <2>1, <2>2, <1>0
  <2>5. j \div sep = s /\ j % sep = r  BY <2>3, <2>4, <1>0, DivModUnique
  <2>6. r \div p = b  BY <2>1, <2>2, DivModUnique
  <2>7. QED  BY <2>5, <2>6
<1>3. QED  BY <1>1, <1>2

\* Of the p passes from s on, one prints the row: adv rows further down each,
\* it is a multiple of the separation away from it.
HitOnce(base, adv, sep, s, p) ==
    \E j \in s .. s + p - 1 : \A i \in s .. s + p - 1 : (base - adv * i) % sep = 0 <=> i = j

\* RunOf for every pass number at once.
LEMMA RunOfProduct ==
    ASSUME NEW n \in Nat \ {0}, NEW p \in Nat \ {0},
           NEW s \in Int, NEW b \in 0 .. n - 1
    PROVE  \A j \in Int : (j \div (n * p) = s /\ (j % (n * p)) \div p = b)
                            <=> j \in s * (n * p) + b * p .. s * (n * p) + b * p + p - 1
<1>1. PICK sep \in Nat \ {0} : sep = n * p  OBVIOUS
<1>2. \A j \in Int : (j \div sep = s /\ (j % sep) \div p = b)
                        <=> j \in s * sep + b * p .. s * sep + b * p + p - 1
  BY <1>1, RunOf
<1>3. QED  BY <1>1, <1>2

\* The passes of a sub-block hit the rows of their offset once each: the walk
\* of calculate_raw_row_parameters meets one that prints the row.
LEMMA PrintingSlot ==
    ASSUME NEW n \in Nat \ {0}, NEW p \in Nat \ {0}, NEW a \in Nat \ {0},
           Coprime(p, a),
           NEW c \in Int, NEW s \in Int
    PROVE  HitOnce(n * c, n * a, n * p, s, p)
<1>0. /\ \E j \in s .. s + p - 1 : (c - a * j) % p = 0
      /\ \A i, j \in s .. s + p - 1 : (c - a * i) % p = (c - a * j) % p => i = j
  BY OneOfARun, Zenon
<1>1. PICK j \in s .. s + p - 1 : (c - a * j) % p = 0  BY <1>0, Zenon
<1>2. \A i \in s .. s + p - 1 : (c - a * i) % p = 0 => i = j
  <2>1. TAKE i \in s .. s + p - 1
  <2>2. HAVE (c - a * i) % p = 0
  <2>3. (c - a * i) % p = (c - a * j) % p  BY <2>2, <1>1
  <2>4. QED  BY <2>3, <1>0, Zenon
<1>3. \A i \in s .. s + p - 1 : (n * c - (n * a) * i) % (n * p) = 0 <=> (c - a * i) % p = 0
  <2>1. TAKE i \in s .. s + p - 1
  <2>2. PICK d \in Int : d = c - a * i  OBVIOUS
  <2>3. n * c - (n * a) * i = n * d
    <3>1. n * (c - a * i) = n * c - n * (a * i)  OBVIOUS
    <3>2. n * (a * i) = (n * a) * i  OBVIOUS
    <3>3. QED  BY <3>1, <3>2, <2>2
  <2>4. (n * d) % (n * p) = 0 <=> d % p = 0  BY ScaledResidue, Zenon
  <2>5. QED  BY <2>2, <2>3, <2>4
<1>4. QED  BY <1>1, <1>2, <1>3, Zenon DEF HitOnce

-----------------------------------------------------------------------------
(* The row lookup of the raw weave.                                        *)

\* The walk back of calculate_raw_row_parameters ends within its bound, in the
\* band of the row or the one above, at the only pass of a band that prints the
\* row in the subpass, with a jet of the head.
LEMMA RawRow ==
    ASSUME NEW w, NEW sep, NEW jets, NEW over, Heads(w, sep, jets, over),
           NEW row \in Nat, NEW s \in 0 .. over - 1
    PROVE  \E j \in 0 .. sep * over - 1, D \in {0, 1}, k \in 0 .. jets - 1 :
              LET raw  == calculate_raw_row_parameters(w, row, s)
                  band == row \div (sep * jets)
              IN  /\ raw.pass = (band - D) * (sep * over) + j
                  /\ raw.jet = k /\ raw.startrow = row - k * sep
                  /\ raw.startrow = sep * jets * (band - D) + w.advancebasis * j
                                      + (row % w.subblocksperpassblock)
                  /\ j \div sep = s
                  /\ (j % sep) \div w.passespersubblock
                       = SubpassBlock(w, row % w.subblocksperpassblock)
                  /\ \A i \in Int :
                        /\ i \div sep = s
                        /\ (i % sep) \div w.passespersubblock
                             = SubpassBlock(w, row % w.subblocksperpassblock)
                        /\ \E x \in Int : row - (row % w.subblocksperpassblock)
                                            - w.advancebasis * i = sep * x
                        => i = j
<1>0. /\ sep \in Nat \ {0} /\ jets \in Nat \ {0} /\ over \in Nat \ {0} /\ over <= jets
  BY DEF Heads
<1>1. /\ w.separation = sep /\ w.jets = jets /\ w.oversampling = over
      /\ w.advancebasis \in Nat \ {0} /\ w.subblocksperpassblock \in Nat \ {0}
      /\ w.passespersubblock \in Nat \ {0}
      /\ sep = w.subblocksperpassblock * w.passespersubblock
      /\ w.advancebasis * over <= jets /\ jets < (w.advancebasis + 1) * over
      /\ OffsetFits(w, w.subblocksperpassblock)
  BY RawFacts
<1> DEFINE n == w.subblocksperpassblock
           p == w.passespersubblock
           adv == w.advancebasis
<1>2. PICK a \in Nat \ {0} :
         /\ adv = n * a
         /\ Coprime(p, a)
  BY RawFacts
<1> DEFINE span  == sep * jets
           perband == sep * over
           suboffset == row % n
           block   == SubpassBlock(w, suboffset)
           band    == row \div span
           baserow == row - suboffset - band * span
           inband  == baserow \div adv
           rem     == baserow % adv
           rounded == (adv * over) % jets
<1>3. /\ n \in Nat \ {0} /\ p \in Nat \ {0} /\ adv \in Nat \ {0}
      /\ sep = n * p /\ adv * over <= jets /\ jets < (adv + 1) * over /\ OffsetFits(w, n)
      /\ span \in Nat \ {0} /\ perband \in Nat \ {0}
  BY <1>0, <1>1
<1>4. \E c \in Nat : /\ suboffset \in 0 .. n - 1 /\ band \in Int
                     /\ baserow = n * c /\ baserow \in 0 .. span - 1
  <2> HIDE DEF n, p, adv, span
  <2>1. PICK b \in Int, R \in 0 .. span - 1 : b = row \div span /\ row = span * b + R
    <3>1. row \in Int  OBVIOUS
    <3>2. span \in Nat \ {0}  BY <1>3
    <3>3. row \div span \in Int /\ row % span \in 0 .. span - 1
          /\ row = span * (row \div span) + (row % span)
      BY <3>1, <3>2, Quotient, Zenon
    <3>4. QED  BY <3>3, Zenon
  <2>2. PICK x \in Int, t \in 0 .. n - 1 : x = R \div n /\ t = R % n /\ R = n * x + t
    <3>1. R \in Int  BY <1>3
    <3>2. QED  BY <3>1, <1>3, DivMod, Zenon
  <2>3. PICK y \in Int : span * b = n * y
    <3>1. span * b = (n * p * jets) * b  BY <1>3 DEF span
    <3>2. (n * p * jets) * b = n * (p * jets * b)  BY <1>3, <1>0
    <3>3. p * jets * b \in Int  BY <1>3, <1>0
    <3>4. QED  BY <3>1, <3>2, <3>3
  <2>4. row = n * (x + y) + t  BY <2>1, <2>2, <2>3, <1>3
  <2>5. row % n = t
    <3>1. x + y \in Int  OBVIOUS
    <3>2. QED  BY <3>1, <2>4, <1>3, DivModUnique, Zenon
  <2>6. baserow = R - t  BY <2>1, <2>5, <1>3
  <2>7. x >= 0
    <3>1. n * x > -n  BY <2>1, <2>2, <1>3
    <3>2. QED  BY <3>1, <1>3
  <2>8. baserow = n * x  BY <2>6, <2>2, <1>3
  <2>9. R - t >= 0  BY <2>6, <2>8, <2>7, <1>3, <2>2
  <2>10. baserow \in 0 .. span - 1  BY <2>1, <2>2, <2>6, <2>9, <1>3
  <2>11. suboffset \in 0 .. n - 1 /\ band \in Int  BY <2>1, <2>2, <2>5
  <2> HIDE DEF suboffset, band, baserow
  <2>12. x \in Nat  BY <2>7
  <2>13. QED  BY <2>8, <2>10, <2>11, <2>12
<1>5. inband \in Nat /\ rem \in 0 .. adv - 1 /\ baserow = adv * inband + rem
  <2> HIDE DEF n, p, adv, span, baserow
  <2>1. PICK x \in Int, r \in 0 .. adv - 1 :
           x = baserow \div adv /\ r = baserow % adv /\ baserow = adv * x + r
    <3>1. baserow \in Int  BY <1>4
    <3>2. QED  BY <3>1, <1>3, DivMod, Zenon
  <2>2. baserow >= 0  BY <1>4
  <2>3. x >= 0
    <3>1. adv * x > -adv  BY <2>1, <2>2, <1>3
    <3>2. QED  BY <3>1, <1>3
  <2>4. QED  BY <2>1, <2>3
<1>6. block \in 0 .. n - 1
  <2> HIDE DEF n
  <2>1. QED  BY <1>3, <1>4, BlockOfOffset
<1> DEFINE first == s * sep + block * p
           run == first .. first + p - 1
<1>7. first \in Int
  <2> HIDE DEF n, p, block
  <2>1. QED  BY <1>6, <1>3, <1>0
<1>8. PICK j \in run : \A i \in run : (baserow - adv * i) % sep = 0 <=> i = j
  <2>1. PICK c \in Nat : baserow = n * c  BY <1>4
  <2> HIDE DEF n, p, adv, first, baserow
  <2>2. HitOnce(n * c, n * a, n * p, first, p)
    <3>1. c \in Int  OBVIOUS
    <3>2. /\ n \in Nat \ {0} /\ p \in Nat \ {0} /\ a \in Nat \ {0} /\ first \in Int
          /\ Coprime(p, a)
      BY <1>2, <1>3, <1>7
    <3> HIDE DEF run
    <3>3. QED  BY <3>1, <3>2, PrintingSlot, Zenon
  <2>3. HitOnce(baserow, adv, sep, first, p)  BY <2>1, <2>2, <1>2, <1>3
  <2>4. QED  BY <2>3 DEF HitOnce
<1>9. j \in 0 .. perband - 1
  <2>1. first >= 0 /\ first + p - 1 <= perband - 1
    <3> HIDE DEF n, p, block
    <3>1. s * sep >= 0 /\ block * p >= 0  BY <1>0, <1>3, <1>6
    <3>2. block * p <= (n - 1) * p  BY <1>6, <1>3
    <3>3. (n - 1) * p = sep - p  BY <1>3
    <3>4. s * sep <= (over - 1) * sep  BY <1>0
    <3>5. (over - 1) * sep = perband - sep  BY <1>0
    <3>6. QED  BY <3>1, <3>2, <3>3, <3>4, <3>5, <1>0, <1>3, <1>6
  <2> HIDE DEF first, n, p, perband
  <2>2. QED  BY <1>8, <2>1, <1>7, <1>3
<1>10. \A i \in Int : (i \div sep = s /\ (i % sep) \div p = block) <=> i \in run
  <2> HIDE DEF n, p, block
  <2>1. n \in Nat \ {0} /\ p \in Nat \ {0} /\ sep = n * p /\ block \in 0 .. n - 1 /\ s \in Int
    BY <1>3, <1>6, <1>0
  <2>2. \A i \in Int : (i \div (n * p) = s /\ (i % (n * p)) \div p = block)
                          <=> i \in s * (n * p) + block * p .. s * (n * p) + block * p + p - 1
    BY <2>1, RunOfProduct, Zenon
  <2>3. n * p = sep  BY <2>1
  <2> HIDE DEF run
  <2>4. run = s * sep + block * p .. s * sep + block * p + p - 1  BY DEF run
  <2>5. QED  BY <2>2, <2>3, <2>4, Zenon
<1> DEFINE e == IF adv * over < jets THEN 0 ELSE 1
<1>11. e \in {0, 1} /\ rounded = adv * over - e * jets
  <2> HIDE DEF adv
  <2>1. PICK y \in Nat : y = adv * over  BY <1>0, <1>3
  <2>2. y <= jets  BY <2>1, <1>3
  <2>3. CASE y < jets
    <3>1. y % jets = y  BY <2>3, <1>0
    <3>2. e = 0 /\ rounded = y  BY <3>1, <2>3, <2>1
    <3>3. QED  BY <3>2, <2>1, <1>0
  <2>4. CASE y = jets
    <3>1. y % jets = 0  BY <2>4, <1>0
    <3>2. QED  BY <3>1, <2>4, <2>1, <1>0
  <2>5. QED  BY <2>2, <2>3, <2>4, <1>0, <2>1
<1>12. adv * perband = sep * (adv * over) /\ adv * perband <= span
  <2> HIDE DEF adv
  <2>1. adv * perband = sep * (adv * over)  BY <1>0, <1>3
  <2>2. PICK y \in Nat : y = adv * over  BY <1>0, <1>3
  <2>3. sep * y <= sep * jets  BY <2>2, <1>0, <1>3
  <2>4. QED  BY <2>1, <2>2, <2>3
<1> DEFINE At(back) ==
               LET bands == IF back <= inband THEN 0
                            ELSE (back - inband + perband - 1) \div perband
               IN  [band   |-> band - bands,
                    inband |-> inband - back + bands * perband,
                    offset |-> (baserow % adv) + back * adv
                                 + bands * sep * (jets - rounded)]
           Prints(at) ==
               /\ at.offset % sep = 0
               /\ at.inband \div sep = s
               /\ (at.inband % sep) \div p = block
           B == IF j <= inband THEN inband - j ELSE inband - j + perband
           D == IF j <= inband THEN 0 ELSE 1
           k == (baserow - adv * j) \div sep + D * jets
<1>13. \A back \in Int : back <= inband =>
          At(back) = [band |-> band, inband |-> inband - back,
                      offset |-> baserow - adv * (inband - back)]
  <2> HIDE DEF adv, baserow, inband, band, perband, rounded
  <2>1. TAKE back \in Int
  <2>2. HAVE back <= inband
  <2>3. rem + back * adv = baserow - adv * (inband - back)
    BY <1>3, <1>5
  <2>4. 0 * perband = 0 /\ 0 * sep * (jets - rounded) = 0
    BY <1>0, <1>3, <1>11
  <2>5. At(back) = [band |-> band - 0, inband |-> inband - back + 0 * perband,
                    offset |-> rem + back * adv + 0 * sep * (jets - rounded)]
    BY <2>2
  <2>6. QED  BY <2>3, <2>4, <2>5, <1>3, <1>4, <1>5
<1>14. \A back \in Int : inband < back /\ back <= inband + perband =>
          At(back) = [band |-> band - 1, inband |-> inband - back + perband,
                      offset |-> baserow - adv * (inband - back + perband)
                                   + sep * (jets + e * jets)]
  <2> HIDE DEF adv, baserow, inband, band, perband, rounded, e
  <2>1. TAKE back \in Int
  <2>2. HAVE inband < back /\ back <= inband + perband
  <2>3. (back - inband + perband - 1) \div perband = 1
    <3>1. PICK r \in 0 .. perband - 1 : r = back - inband - 1  BY <2>2, <1>3, <1>5
    <3>2. (perband * 1 + r) \div perband = 1
      <4>1. 1 \in Int /\ perband \in Nat \ {0} /\ r \in 0 .. perband - 1  BY <1>3
      <4>2. QED  BY <4>1, DivModUnique, Zenon
    <3>3. QED  BY <3>1, <3>2, <1>3, <1>5
  <2>4. rem + back * adv + 1 * sep * (jets - rounded)
          = baserow - adv * (inband - back + perband) + sep * (jets + e * jets)
    <3>1. rem + back * adv = baserow - adv * (inband - back)  BY <1>3, <1>5
    <3>2. adv * (inband - back + perband) = adv * (inband - back) + adv * perband
      BY <1>3, <1>5
    <3>3. sep * (jets - rounded) = sep * (jets + e * jets) - sep * (adv * over)
      <4>1. jets - rounded = (jets + e * jets) - adv * over  BY <1>11, <1>0, <1>3
      <4>2. QED  BY <4>1, <1>0, <1>3, <1>11
    <3>4. PICK u \in Int, v \in Int, x \in Int, y \in Int :
             /\ u = adv * (inband - back) /\ v = adv * perband
             /\ x = sep * (jets + e * jets) /\ y = sep * (jets - rounded)
      BY <1>0, <1>3, <1>5, <1>11
    <3>5. 1 * sep * (jets - rounded) = y  BY <3>4, <1>0, <1>11
    <3>6. y = x - v  BY <3>3, <3>4, <1>12
    <3>7. QED  BY <3>1, <3>2, <3>4, <3>5, <3>6, <1>4
  <2>5. At(back) = [band |-> band - 1, inband |-> inband - back + 1 * perband,
                    offset |-> rem + back * adv + 1 * sep * (jets - rounded)]
    BY <2>2, <2>3, <1>5
  <2>6. QED  BY <2>4, <2>5, <1>3
<1>15. \A i \in Int, z \in Int :
          /\ (baserow - adv * i) % sep = 0 \/ (baserow - adv * i + sep * z) % sep = 0
          /\ i \div sep = s /\ (i % sep) \div p = block
          <=> i = j
  <2> HIDE DEF p, adv, baserow, block, run
  <2>1. TAKE i \in Int, z \in Int
  <2>2. PICK u \in Int : u = baserow - adv * i  BY <1>3, <1>4
  <2>3. (u + sep * z) % sep = 0 <=> u % sep = 0  BY <1>0, MultipleAdded, Zenon
  <2>4. i \in run => (u % sep = 0 <=> i = j)  BY <1>8, <2>2
  <2>5. QED  BY <2>2, <2>3, <2>4, <1>8, <1>10
<1>16. j \in Int /\ B \in Nat /\ inband \in Nat /\ perband \in Nat \ {0} /\ j < perband /\ j >= 0
  <2> HIDE DEF inband, perband, run
  <2>1. QED  BY <1>9, <1>5, <1>3
<1>17. \A b \in 0 .. B : Prints(At(b)) <=> b = B
  <2>1. TAKE b \in 0 .. B
  <2>2. CASE b <= inband
    <3>1. At(b).inband = inband - b /\ At(b).offset = baserow - adv * (inband - b)
      <4> HIDE DEF adv, baserow, inband, band, At, B
      <4>1. QED  BY <1>13, <2>2, <1>16
    <3>2. Prints(At(b)) <=> inband - b = j
      <4> HIDE DEF adv, baserow, inband, At, p, block, B
      <4>1. inband - b \in Int /\ 0 \in Int  BY <1>16
      <4>2. (baserow - adv * (inband - b)) % sep = 0 \/ (baserow - adv * (inband - b) + sep * 0) % sep = 0
            <=> (baserow - adv * (inband - b)) % sep = 0
        BY <1>0, <1>3, <1>4, <4>1
      <4>3. QED  BY <3>1, <1>15, <4>1, <4>2
    <3>3. inband - b = j <=> b = B
      <4> HIDE DEF inband, perband, run
      <4>1. QED  BY <1>16, <2>2
    <3>4. QED  BY <3>2, <3>3
  <2>3. CASE b > inband
    <3>1. j > inband /\ b <= inband + perband
      <4> HIDE DEF inband, perband, run
      <4>1. QED  BY <1>16, <2>3
    <3> DEFINE i == inband - b + perband
               z == jets + e * jets
    <3>2. i \in Int /\ z \in Int
      <4> HIDE DEF inband, perband, run, e, B
      <4>1. QED  BY <1>16, <1>11, <1>0
    <3>3. At(b).inband = i /\ At(b).offset = baserow - adv * i + sep * z
      <4> HIDE DEF adv, baserow, inband, band, perband, e, At, B
      <4>1. b \in Int  BY <1>16
      <4>2. QED  BY <1>14, <2>3, <3>1, <4>1
    <3>4. Prints(At(b)) <=> i = j
      <4> HIDE DEF adv, baserow, At, p, block, i, z, B
      <4>1. PICK u \in Int : u = baserow - adv * i  BY <1>3, <1>4, <3>2
      <4>2. (u + sep * z) % sep = 0 <=> u % sep = 0  BY <1>0, <3>2, MultipleAdded, Zenon
      <4>3. QED  BY <3>2, <3>3, <1>15, <4>1, <4>2
    <3>5. i = j <=> b = B
      <4> HIDE DEF inband, perband, run
      <4>1. QED  BY <1>16, <3>1
    <3>6. QED  BY <3>4, <3>5
  <2>4. QED
    <3> HIDE DEF inband, B, At, Prints
    <3>1. b <= inband \/ b > inband  BY <1>16
    <3>2. QED  BY <2>2, <2>3, <3>1
<1>18. B \in 0 .. MaxWalk(w)
  <2> HIDE DEF inband, perband, adv, run, baserow
  <2>1. MaxWalk(w) = 4 * perband
    <3>1. 4 * sep * over = 4 * perband  BY <1>0 DEF perband
    <3>2. QED  BY <3>1, <1>1 DEF MaxWalk
  <2>2. inband < 2 * perband
    <3>1. jets < 2 * (adv * over)
      <4>1. (adv + 1) * over = adv * over + over  BY <1>0, <1>3
      <4>2. over <= adv * over  BY <1>0, <1>3
      <4>3. PICK y \in Int : y = adv * over  BY <1>0, <1>3
      <4>4. QED  BY <4>1, <4>2, <4>3, <1>3, <1>0
    <3>2. PICK y \in Nat : y = adv * over  BY <1>0, <1>3
    <3>3. span < sep * (2 * y)  BY <3>1, <3>2, <1>0
    <3>4. sep * (2 * y) = 2 * (adv * perband)  BY <1>12, <3>2, <1>0, <1>3
    <3>5. adv * inband <= baserow  BY <1>5, <1>3
    <3>6. 2 * (adv * perband) = adv * (2 * perband)  BY <1>3
    <3>7. adv * inband < adv * (2 * perband)
      <4> HIDE DEF span
      <4>1. QED  BY <3>3, <3>4, <3>5, <3>6, <1>4, <1>3, <1>16
    <3>8. QED  BY <3>7, <1>3, <1>16
  <2>3. QED  BY <2>1, <2>2, <1>16
<1> DEFINE Found == At(B)
<1>19. /\ Found.band = band - D /\ Found.inband = j
       /\ k \in 0 .. jets - 1 /\ (Found.offset \div sep) % jets = k
       /\ k * sep = baserow - adv * j + D * span
       /\ D \in {0, 1}
  <2>1. PICK x \in Int : baserow - adv * j = sep * x
    <3> HIDE DEF adv, baserow, run
    <3>1. PICK u \in Int : u = baserow - adv * j  BY <1>3, <1>4, <1>16
    <3>2. u % sep = 0  BY <1>8, <3>1
    <3>3. QED  BY <3>1, <3>2, <1>0, Divides, Zenon
  <2>2. (baserow - adv * j) \div sep = x
    <3> HIDE DEF adv, baserow
    <3>1. 0 \in 0 .. sep - 1  BY <1>0
    <3>2. (sep * x + 0) \div sep = x  BY <3>1, <1>0, DivModUnique, Zenon
    <3>3. QED  BY <2>1, <3>2, <1>0
  <2>3. k = x + D * jets
    BY <2>2
  <2>4. sep * x > -span
    <3> HIDE DEF adv, baserow, span, perband, run
    <3>1. adv * j < adv * perband  BY <1>3, <1>16
    <3>2. PICK u \in Int, v \in Int : u = adv * j /\ v = adv * perband  BY <1>3, <1>16
    <3>3. u < v /\ v <= span /\ baserow >= 0 /\ baserow - u = sep * x /\ baserow \in Int /\ span \in Int
      BY <2>1, <3>1, <3>2, <1>12, <1>4, <1>3
    <3>4. QED  BY <3>3
  <2>5. x > -jets
    <3>1. sep * x > sep * (-jets)  BY <2>4, <1>0
    <3>2. QED  BY <3>1, <1>0
  <2>6. CASE j <= inband
    <3>1. B = inband - j /\ D = 0  BY <2>6
    <3>2. Found.band = band /\ Found.inband = j /\ Found.offset = sep * x
      <4> HIDE DEF adv, baserow, inband, band, At, B, D
      <4>1. inband - (inband - j) = j  BY <1>16
      <4>2. B \in Int /\ B <= inband  BY <1>16, <3>1
      <4>3. QED  BY <1>13, <2>1, <3>1, <4>1, <4>2
    <3>3. x \in 0 .. jets - 1
      <4> HIDE DEF adv, baserow, inband, B, D, run
      <4>1. adv * j <= adv * inband  BY <2>6, <1>16, <1>3
      <4>2. sep * x >= 0  BY <4>1, <2>1, <1>5, <1>3, <1>4, <1>16
      <4>3. x >= 0  BY <4>2, <1>0
      <4>4. sep * x < span
        <5>1. adv * j >= 0  BY <1>16, <1>3
        <5>2. QED  BY <5>1, <2>1, <1>4, <1>16, <1>3
      <4>5. x < jets  BY <4>4, <1>0
      <4>6. QED  BY <4>3, <4>5, <1>0
    <3>4. (sep * x) \div sep = x /\ x % jets = x  BY <2>1, <2>2, <3>3, <1>0
    <3>5. k = x
      <4> HIDE DEF D, k
      <4>1. QED  BY <2>3, <3>1, <3>3, <1>0
    <3>6. x * sep = sep * x + D * span
      <4> HIDE DEF D, span
      <4>1. QED  BY <3>1, <1>0, <1>3
    <3> HIDE DEF Found, band, D, k, adv, baserow, span
    <3>7. QED  BY <3>1, <3>2, <3>3, <3>4, <3>5, <3>6, <2>1, <1>4
  <2>7. CASE j > inband
    <3>1. B = inband - j + perband /\ D = 1
      <4> HIDE DEF inband, perband, run
      <4>1. ~(j <= inband)  BY <2>7, <1>16
      <4>2. QED  BY <4>1
    <3> DEFINE z == jets + e * jets
    <3>2. Found.band = band - 1 /\ Found.inband = j /\ Found.offset = sep * x + sep * z
      <4> HIDE DEF adv, baserow, inband, band, perband, At, B, D, z
      <4>1. inband - B + perband = j  BY <1>16, <3>1
      <4>2. B \in Int /\ B > inband /\ B <= inband + perband  BY <1>16, <3>1, <2>7
      <4>3. At(B) = [band |-> band - 1, inband |-> j,
                     offset |-> baserow - adv * j + sep * z]
        BY <1>14, <4>1, <4>2 DEF z
      <4>4. QED  BY <4>3, <2>1
    <3>3. x < 0
      <4> HIDE DEF adv, baserow, inband, B, D, run
      <4>1. adv * j >= adv * (inband + 1)  BY <2>7, <1>16, <1>3
      <4>2. adv * (inband + 1) = adv * inband + adv  BY <1>3, <1>16
      <4>3. sep * x < 0  BY <4>1, <4>2, <2>1, <1>5, <1>3, <1>4, <1>16
      <4>4. QED  BY <4>3, <1>0
    <3>4. x + jets \in 0 .. jets - 1  BY <3>3, <2>5, <1>0
    <3>5. (sep * x + sep * z) \div sep = x + z /\ (x + z) % jets = x + jets
      <4>1. z \in Int /\ e \in Int
        <5> HIDE DEF e
        <5>1. QED  BY <1>11, <1>0
      <4> HIDE DEF e
      <4>2. x + z = jets * e + (x + jets)  BY <4>1, <1>0
      <4>3. (jets * e + (x + jets)) % jets = x + jets  BY <4>1, <3>4, <1>0, DivModUnique, Zenon
      <4> HIDE DEF z
      <4>4. sep * x + sep * z = sep * (x + z) + 0  BY <4>1, <1>0
      <4>5. x + z \in Int /\ 0 \in 0 .. sep - 1  BY <4>1, <1>0
      <4>6. (sep * (x + z) + 0) \div sep = x + z  BY <4>5, <1>0, DivModUnique, Zenon
      <4>7. QED  BY <4>2, <4>3, <4>4, <4>6
    <3>6. k = x + jets
      <4> HIDE DEF D, k
      <4>1. QED  BY <2>3, <3>1, <1>0
    <3>7. (x + jets) * sep = sep * x + D * span
      <4> HIDE DEF D
      <4>1. QED  BY <3>1, <1>0
    <3>8. (Found.offset \div sep) % jets = k
      <4> HIDE DEF Found, z, k
      <4>1. QED  BY <3>2, <3>5, <3>6
    <3> HIDE DEF Found, band, D, k, adv, baserow, span, z
    <3>9. QED  BY <3>1, <3>2, <3>4, <3>6, <3>7, <3>8, <2>1, <1>4
  <2>8. QED
    <3> HIDE DEF inband, Found, D, k, band, baserow, adv, span, run
    <3>1. j <= inband \/ j > inband  BY <1>16
    <3>2. QED  BY <2>6, <2>7, <3>1
<1>20. calculate_raw_row_parameters(w, row, s)
          = [pass |-> Found.band * perband + Found.inband,
             jet  |-> (Found.offset \div sep) % jets,
             startrow |-> row - ((Found.offset \div sep) % jets) * sep]
  <2> DEFINE per     == w.separation * w.oversampling
             block0  == SubpassBlock(w, row % w.subblocksperpassblock)
             band0   == row \div (w.separation * w.jets)
             base0   == row - (row % w.subblocksperpassblock) - band0 * (w.separation * w.jets)
             inband0 == base0 \div w.advancebasis
             round0  == (w.advancebasis * w.oversampling) % w.jets
             At0(b)  ==
                 LET bands == IF b <= inband0 THEN 0 ELSE (b - inband0 + per - 1) \div per
                 IN  [band   |-> band0 - bands,
                      inband |-> inband0 - b + bands * per,
                      offset |-> (base0 % w.advancebasis) + b * w.advancebasis
                                   + bands * w.separation * (w.jets - round0)]
             Prints0(at) == /\ at.offset % w.separation = 0
                            /\ at.inband \div w.separation = s
                            /\ (at.inband % w.separation) \div w.passespersubblock = block0
             Here(b) == Prints0(At0(b)) /\ \A y \in 0 .. b - 1 : ~Prints0(At0(y))
             back    == CHOOSE b \in 0 .. MaxWalk(w) : Here(b)
  <2>0. \A b : At0(b) = At(b) /\ (Prints0(At0(b)) <=> Prints(At(b)))
    <3>1. /\ per = perband /\ block0 = block /\ band0 = band /\ base0 = baserow
          /\ inband0 = inband /\ round0 = rounded
      BY <1>1
    <3> HIDE DEF per, block0, band0, base0, inband0, round0, perband, block, band, baserow,
                 inband, rounded
    <3>2. \A b : At0(b) = At(b)  BY <3>1, <1>1
    <3> HIDE DEF At, At0
    <3>3. QED  BY <3>1, <3>2, <1>1
  <2>1. back = B
    <3> HIDE DEF At, Prints, At0, Prints0, B
    <3>1. B \in Nat  BY <1>16
    <3>2. Here(B)
      <4>1. \A y \in 0 .. B - 1 : y \in 0 .. B /\ y # B  BY <3>1
      <4>2. B \in 0 .. B  BY <3>1
      <4>3. QED  BY <4>1, <4>2, <1>17, <2>0
    <3>3. \A b \in 0 .. MaxWalk(w) : Here(b) => b = B
      <4>1. TAKE b \in 0 .. MaxWalk(w)
      <4>2. HAVE Here(b)
      <4>3. b \in Int  OBVIOUS
      <4>4. CASE b <= B
        <5>1. b \in 0 .. B  BY <4>3, <4>4, <3>1
        <5>2. QED  BY <5>1, <4>2, <1>17, <2>0
      <4>5. CASE b > B
        <5>1. \A x \in Int, y \in Nat : x > y => y \in 0 .. x - 1 /\ y \in 0 .. y  OBVIOUS
        <5>2. B \in 0 .. b - 1 /\ B \in 0 .. B  BY <4>3, <4>5, <3>1, <5>1, Zenon
        <5>3. QED  BY <5>2, <4>2, <1>17, <2>0
      <4>6. QED  BY <4>3, <4>4, <4>5, <3>1
    <3> HIDE DEF Here
    <3>4. QED  BY <3>2, <3>3, <1>18
  <2>2. calculate_raw_row_parameters(w, row, s)
          = [pass |-> At0(back).band * per + At0(back).inband,
             jet  |-> (At0(back).offset \div w.separation) % w.jets,
             startrow |-> row - ((At0(back).offset \div w.separation) % w.jets) * w.separation]
    BY Zenon DEF calculate_raw_row_parameters, Span
  <2>3. per = perband  BY <1>1
  <2> HIDE DEF back, At, At0, per, perband
  <2>4. QED  BY <2>0, <2>1, <2>2, <2>3, <1>1, Zenon
<1>21. row - k * sep = span * (band - D) + adv * j + suboffset
  <2>1. PICK u \in Int : u = adv * j  BY <1>3, <1>16
  <2>2. row = baserow + suboffset + band * span
    <3> HIDE DEF suboffset, band, span
    <3>1. suboffset \in Int /\ band * span \in Int  BY <1>4, <1>3
    <3>2. QED  BY <3>1
  <2> HIDE DEF suboffset, band, span, baserow, D, k, adv
  <2>3. span * (band - D) = band * span - D * span  BY <1>19, <1>4, <1>3
  <2>4. band * span \in Int /\ D * span \in Int /\ baserow \in Int /\ suboffset \in Int
    BY <1>19, <1>4, <1>3
  <2>5. QED  BY <2>1, <2>2, <2>3, <2>4, <1>19
<1>22. ASSUME NEW i \in Int, i \div sep = s, (i % sep) \div p = block,
              NEW x \in Int, row - suboffset - adv * i = sep * x
       PROVE  i = j
  <2>1. PICK u \in Int : u = adv * i  BY <1>3
  <2>2. baserow - u = sep * (x - band * jets)
    <3>1. band * span = sep * (band * jets)
      <4> HIDE DEF band
      <4>1. QED  BY <1>4, <1>0
    <3>2. sep * (x - band * jets) = sep * x - sep * (band * jets)
      <4> HIDE DEF band
      <4>1. band * jets \in Int  BY <1>4, <1>0
      <4>2. QED  BY <4>1, <1>0
    <3> HIDE DEF band, suboffset, span, adv
    <3>3. band * span \in Int /\ suboffset \in Int /\ sep * x \in Int  BY <1>4, <1>3, <1>0
    <3>4. QED  BY <3>1, <3>2, <3>3, <2>1, <1>22
  <2>3. (baserow - adv * i) % sep = 0
    <3> HIDE DEF band, baserow, adv
    <3>1. x - band * jets \in Int  BY <1>4, <1>0
    <3>2. PICK y \in Int : y = x - band * jets  BY <3>1
    <3>3. (sep * y) % sep = 0  BY <1>0
    <3>4. QED  BY <2>1, <2>2, <3>2, <3>3
  <2> HIDE DEF p, adv, baserow, block
  <2>4. 0 \in Int  OBVIOUS
  <2>5. QED  BY <1>15, <1>22, <2>3, <2>4
<1>23. j \div sep = s /\ (j % sep) \div p = block
  <2> HIDE DEF p, block, run
  <2>1. QED  BY <1>8, <1>10, <1>16
<1>24. QED
  <2> HIDE DEF Found, k, D, run
  <2>1. /\ calculate_raw_row_parameters(w, row, s).pass = (band - D) * (sep * over) + j
        /\ calculate_raw_row_parameters(w, row, s).jet = k
        /\ calculate_raw_row_parameters(w, row, s).startrow = row - k * sep
    BY <1>19, <1>20
  <2>2. row - k * sep = sep * jets * (band - D) + w.advancebasis * j + (row % n)
    BY <1>21
  <2>3. QED  BY <2>1, <2>2, <1>9, <1>19, <1>22, <1>23

\* For passes that are not negative C divides as TLA+ does.
LEMMA DivisionOfC ==
    ASSUME NEW x \in Nat, NEW m \in Nat \ {0}
    PROVE  CDiv(x, m) = x \div m /\ CMod(x, m) = x % m
<1>1. CDiv(x, m) = x \div m  BY DEF CDiv
<1>2. x - m * (x \div m) = x % m
  <2>1. PICK q \in Int, r \in 0 .. m - 1 : q = x \div m /\ r = x % m /\ x = m * q + r
    <3>1. x \in Int  OBVIOUS
    <3>2. QED  BY <3>1, DivMod, Zenon
  <2>2. x - m * q = r
    <3>1. PICK y \in Int : y = m * q  OBVIOUS
    <3>2. QED  BY <2>1, <3>1
  <2>3. QED  BY <2>1, <2>2
<1>3. QED  BY <1>1, <1>2 DEF CMod

\* calculate_raw_pass_parameters, for the pass in the place i of the band b.
PassAt(w, sep, jets, over, pass, b, i) ==
    LET block == (i % sep) \div w.passespersubblock
    IN  /\ pass = sep * over * b + i
        /\ b = pass \div (sep * over)
        /\ block \in 0 .. w.subblocksperpassblock - 1
        /\ calculate_raw_pass_parameters(w, pass)
             = [startrow |-> sep * jets * b + w.advancebasis * i + SubpassOffset(w, block),
                subpass  |-> i \div sep]

\* Every pass has its place in a band.
LEMMA PassOf ==
    ASSUME NEW w, NEW sep, NEW jets, NEW over, Heads(w, sep, jets, over), NEW pass \in Nat
    PROVE  \E b \in Int, i \in 0 .. sep * over - 1 :
              PassAt(w, sep, jets, over, pass, b, i)
<1>0. /\ sep \in Nat \ {0} /\ jets \in Nat \ {0} /\ over \in Nat \ {0} /\ over <= jets
  BY DEF Heads
<1> DEFINE n == w.subblocksperpassblock
           p == w.passespersubblock
           perband == sep * over
<1>1. /\ w.separation = sep /\ w.jets = jets /\ w.oversampling = over
      /\ n \in Nat \ {0} /\ p \in Nat \ {0} /\ sep = n * p
  BY RawFacts
<1>2. perband \in Nat \ {0}  BY <1>0
<1>3. PICK b \in Int, i \in 0 .. perband - 1 :
         b = pass \div perband /\ i = pass % perband /\ pass = perband * b + i
  <2> HIDE DEF perband
  <2>1. /\ pass \div perband \in Int /\ pass % perband \in 0 .. perband - 1
        /\ pass = perband * (pass \div perband) + (pass % perband)
    <3>1. pass \in Int  OBVIOUS
    <3>2. QED  BY <1>2, <3>1, Quotient, Zenon
  <2>2. QED  BY <2>1
<1>4. PICK q \in Int, r \in 0 .. sep - 1 : q = i \div sep /\ r = i % sep /\ i = sep * q + r
  <2>1. i \in Int  BY <1>2, <1>3
  <2>2. /\ i \div sep \in Int /\ i % sep \in 0 .. sep - 1
        /\ i = sep * (i \div sep) + (i % sep)
    BY <1>0, <2>1, Quotient, Zenon
  <2>3. QED  BY <2>2
<1>5. pass % sep = r
  <2>1. pass = sep * (over * b + q) + r
    <3>1. perband * b = sep * (over * b)  BY <1>0
    <3>2. sep * (over * b + q) = sep * (over * b) + sep * q  BY <1>0
    <3> HIDE DEF perband
    <3>3. perband * b \in Int /\ sep * q \in Int /\ r \in Int  BY <1>0, <1>2
    <3>4. QED  BY <3>1, <3>2, <3>3, <1>3, <1>4
  <2>2. over * b + q \in Int  BY <1>0
  <2>3. (sep * (over * b + q) + r) % sep = r  BY <2>2, <1>0, DivModUnique, Zenon
  <2>4. QED  BY <2>1, <2>3
<1>6. PICK x \in Int, t \in 0 .. p - 1 : x = r \div p /\ r = p * x + t
  <2>1. r \in Int  BY <1>0
  <2>2. /\ r \div p \in Int /\ r % p \in 0 .. p - 1 /\ r = p * (r \div p) + (r % p)
    BY <1>1, <2>1, Quotient, Zenon
  <2>3. QED  BY <2>2
<1> HIDE DEF n, p
<1>7. x \in 0 .. n - 1
  <2>1. p * x > -p /\ p * x < p * n  BY <1>0, <1>1, <1>4, <1>6
  <2>2. x > -1 /\ x < n  BY <2>1, <1>1
  <2>3. QED  BY <2>2, <1>1
<1>8. (r * n) \div sep = x
  <2>1. r * n = sep * x + n * t
    <3>1. r * n = n * (p * x) + n * t  BY <1>1, <1>6
    <3>2. n * (p * x) = sep * x  BY <1>1
    <3>3. QED  BY <3>1, <3>2
  <2>2. n * t \in 0 .. sep - 1
    <3>1. n * t <= n * (p - 1)  BY <1>1, <1>6
    <3>2. n * (p - 1) = sep - n  BY <1>1
    <3>3. QED  BY <3>1, <3>2, <1>1, <1>6
  <2>3. PICK u \in 0 .. sep - 1 : u = n * t  BY <2>2
  <2>4. (sep * x + u) \div sep = x  BY <2>3, <1>0, DivModUnique, Zenon
  <2>5. QED  BY <2>1, <2>3, <2>4
<1>9. calculate_raw_pass_parameters(w, pass)
        = [startrow |-> sep * jets * b + w.advancebasis * i + SubpassOffset(w, x),
           subpass  |-> i \div sep]
  <2> HIDE DEF perband
  <2>1. CDiv(pass, perband) = b /\ CMod(pass, perband) = i
    <3>1. CDiv(pass, perband) = pass \div perband /\ CMod(pass, perband) = pass % perband
      BY <1>2, DivisionOfC, Zenon
    <3>2. QED  BY <3>1, <1>3
  <2>2. i \in Nat  BY <1>2, <1>3
  <2>3. CDiv(i, sep) = i \div sep  BY <2>2, <1>0, DivisionOfC, Zenon
  <2>4. CMod(pass, sep) = r
    <3>1. CMod(pass, sep) = pass % sep  BY <1>0, DivisionOfC, Zenon
    <3>2. QED  BY <3>1, <1>5
  <2>5. CDiv(r * n, sep) = x
    <3>1. r * n \in Nat  BY <1>0, <1>1, <1>4
    <3>2. CDiv(r * n, sep) = (r * n) \div sep  BY <3>1, <1>0, DivisionOfC, Zenon
    <3>3. QED  BY <3>2, <1>8
  <2>6. calculate_raw_pass_parameters(w, pass)
          = [startrow |-> (sep * jets) * CDiv(pass, perband) + w.advancebasis * CMod(pass, perband)
                            + SubpassOffset(w, CDiv(CMod(pass, sep) * n, sep)),
             subpass  |-> CDiv(CMod(pass, perband), sep)]
    BY <1>1 DEF calculate_raw_pass_parameters, Span, n, perband
  <2>7. QED  BY <2>1, <2>3, <2>4, <2>5, <2>6
<1>10. i \in 0 .. sep * over - 1 /\ pass = sep * over * b + i /\ b = pass \div (sep * over)
  BY <1>3
<1>11. (i % sep) \div p = x  BY <1>4, <1>6, Zenon
<1> HIDE DEF perband
<1>12. QED  BY <1>7, <1>9, <1>10, <1>11, Zenon DEF n, p, PassAt

\* raw is the pass and the jet that print the row in the subpass s: the pass
\* starts where the jet is above the row, and no other pass and jet do.
IsRawPassOf(w, sep, jets, row, s, raw) ==
    /\ raw.pass \in Nat /\ raw.jet \in 0 .. jets - 1
    /\ raw.startrow = row - raw.jet * sep
    /\ calculate_raw_pass_parameters(w, raw.pass) = [startrow |-> raw.startrow, subpass |-> s]
    /\ \A pass \in Nat, k \in 0 .. jets - 1 :
          calculate_raw_pass_parameters(w, pass) = [startrow |-> row - k * sep, subpass |-> s]
          => pass = raw.pass /\ k = raw.jet

\* The lookup of a row is the inverse of the lookup of a pass: for every
\* row below the first head of margin (as stpi_calculate_row_parameters asks,
\* which adds separation * jets to the row) and every subpass
\* calculate_raw_row_parameters returns the one pass, and the
\* one jet of it, that calculate_raw_pass_parameters puts over the row.
THEOREM RawLookup ==
    ASSUME NEW w, NEW sep, NEW jets, NEW over, Heads(w, sep, jets, over),
           NEW row \in Nat, row >= sep * jets, NEW s \in 0 .. over - 1
    PROVE  IsRawPassOf(w, sep, jets, row, s, calculate_raw_row_parameters(w, row, s))
<1>0. /\ sep \in Nat \ {0} /\ jets \in Nat \ {0} /\ over \in Nat \ {0} /\ over <= jets
  BY DEF Heads
<1> DEFINE n == w.subblocksperpassblock
           p == w.passespersubblock
           adv == w.advancebasis
           band == row \div (sep * jets)
           raw == calculate_raw_row_parameters(w, row, s)
           o == row % n
<1>1. /\ n \in Nat \ {0} /\ p \in Nat \ {0} /\ adv \in Nat \ {0} /\ sep = n * p
      /\ OffsetFits(w, n)
  BY RawFacts
<1>2. PICK a \in Nat \ {0} : adv = n * a  BY RawFacts
<1>3. PICK j \in 0 .. sep * over - 1, D \in {0, 1}, k \in 0 .. jets - 1 :
         /\ raw.pass = (band - D) * (sep * over) + j
         /\ raw.jet = k /\ raw.startrow = row - k * sep
         /\ raw.startrow = sep * jets * (band - D) + adv * j + o
         /\ j \div sep = s
         /\ (j % sep) \div p = SubpassBlock(w, o)
         /\ \A i \in Int :
               /\ i \div sep = s
               /\ (i % sep) \div p = SubpassBlock(w, o)
               /\ \E x \in Int : row - o - adv * i = sep * x
               => i = j
  BY RawRow
<1>4. PICK per \in Nat \ {0}, span \in Nat \ {0}, B \in Int :
         per = sep * over /\ span = sep * jets /\ B = band - D
  <2>1. sep * over \in Nat \ {0} /\ sep * jets \in Nat \ {0}  BY <1>0
  <2>2. row \div (sep * jets) \in Int
    <3>1. row \in Int  OBVIOUS
    <3>2. QED  BY <2>1, <3>1, Quotient, Zenon
  <2>3. band - D \in Int  BY <2>2
  <2>4. QED  BY <2>1, <2>3
<1>5. j \in Int /\ 0 <= j /\ j < per  BY <1>4
<1>6. raw.pass = per * B + j /\ raw.startrow = span * B + adv * j + o
  BY <1>3, <1>4, <1>5
<1> HIDE DEF n, p, adv, raw
<1>7. o \in 0 .. n - 1
  BY <1>1
<1> HIDE DEF o
<1>8. raw.pass \in Nat
  <2>1. B >= 0
    <3>1. row >= span  BY <1>4
    <3>2. row \div span >= 1
      <4>1. row \in Int  OBVIOUS
      <4>2. PICK x \in Int, r \in 0 .. span - 1 : x = row \div span /\ row = span * x + r
        <5>1. row \div span \in Int /\ row % span \in 0 .. span - 1
              /\ row = span * (row \div span) + (row % span)
          BY <4>1, <1>4, Quotient, Zenon
        <5>2. QED  BY <5>1
      <4>3. span * x > 0  BY <3>1, <4>2, <1>4
      <4>4. x > 0  BY <4>3, <1>4
      <4>5. QED  BY <4>2, <4>4
    <3>3. QED  BY <3>2, <1>4
  <2>2. QED  BY <2>1, <1>6, <1>4, <1>5
<1>9. calculate_raw_pass_parameters(w, raw.pass) = [startrow |-> raw.startrow, subpass |-> s]
  <2>1. PICK b \in Int, i \in 0 .. sep * over - 1 :
           PassAt(w, sep, jets, over, raw.pass, b, i)
    BY <1>8, PassOf, Zenon
  <2>2. i \in 0 .. per - 1 /\ raw.pass = per * b + i  BY <2>1, <1>4 DEF PassAt
  <2>3. b = B /\ i = j
    <3>1. (per * b + i) \div per = b /\ (per * b + i) % per = i
      BY <2>2, <1>4, DivModUnique, Zenon
    <3>2. (per * B + j) \div per = B /\ (per * B + j) % per = j
      <4>1. j \in 0 .. per - 1  BY <1>5, <1>4
      <4>2. per \in Nat \ {0} /\ B \in Int  BY <1>4
      <4>3. QED  BY <4>1, <4>2, DivModUnique, Zenon
    <3>3. QED  BY <3>1, <3>2, <2>2, <1>6
  <2>4. SubpassOffset(w, (j % sep) \div p) = o
    BY <1>1, <1>3, <1>7, BlockOfOffset
  <2>5. QED  BY <2>1, <2>3, <2>4, <1>3, <1>4, <1>6, Zenon DEF n, p, adv, PassAt
<1>10. ASSUME NEW pass \in Nat, NEW k2 \in 0 .. jets - 1,
              calculate_raw_pass_parameters(w, pass) = [startrow |-> row - k2 * sep, subpass |-> s]
       PROVE  pass = raw.pass /\ k2 = raw.jet
  <2>1. PICK b \in Int, i \in 0 .. sep * over - 1 :
           PassAt(w, sep, jets, over, pass, b, i)
    BY PassOf, Zenon
  <2> DEFINE block == (i % sep) \div p
             o2    == SubpassOffset(w, block)
  <2>2. /\ block \in 0 .. n - 1 /\ row - k2 * sep = span * b + adv * i + o2
        /\ i \div sep = s /\ pass = per * b + i /\ i \in Int
    BY <2>1, <1>10, <1>4 DEF n, p, adv, PassAt
  <2> HIDE DEF block
  <2>3. o2 \in 0 .. n - 1 /\ SubpassBlock(w, o2) = block
    BY <2>2, <1>1, OffsetOfBlock
  <2> HIDE DEF o2
  <2>4. row - o2 - adv * i = sep * (k2 + jets * b)
    <3>1. span * b = sep * (jets * b)  BY <1>4, <1>0
    <3>2. sep * (k2 + jets * b) = k2 * sep + sep * (jets * b)  BY <1>0
    <3>3. adv * i \in Int /\ k2 * sep \in Int /\ sep * (jets * b) \in Int /\ o2 \in Int
      BY <1>0, <1>1, <2>2, <2>3
    <3>4. QED  BY <3>1, <3>2, <3>3, <2>2
  <2>5. o2 = o
    <3>1. sep * (k2 + jets * b) = n * (p * (k2 + jets * b))  BY <1>1, <1>0
    <3>2. adv * i = n * (a * i)  BY <1>1, <1>2, <2>2
    <3>3. PICK y \in Int : y = p * (k2 + jets * b) + a * i
      <4>1. p * (k2 + jets * b) \in Int /\ a * i \in Int  BY <1>1, <1>0, <1>2, <2>2
      <4>2. QED  BY <4>1
    <3>4. n * y = n * (p * (k2 + jets * b)) + n * (a * i)
      <4>1. p * (k2 + jets * b) \in Int /\ a * i \in Int  BY <1>1, <1>0, <1>2, <2>2
      <4>2. QED  BY <4>1, <3>3, <1>1
    <3>5. row = n * y + o2
      <4>1. n * (p * (k2 + jets * b)) \in Int /\ n * (a * i) \in Int /\ o2 \in Int
        BY <1>1, <1>0, <1>2, <2>2, <2>3
      <4>2. QED  BY <4>1, <3>1, <3>2, <3>4, <2>4
    <3>6. (n * y + o2) % n = o2  BY <1>1, <2>3, DivModUnique, Zenon
    <3>7. QED  BY <3>5, <3>6 DEF o
  <2>6. i = j
    <3>1. k2 + jets * b \in Int  BY <1>0
    <3>2. (i % sep) \div p = SubpassBlock(w, o)  BY <2>3, <2>5 DEF block
    <3>3. \E x \in Int : row - o - adv * i = sep * x  BY <3>1, <2>4, <2>5
    <3>4. QED  BY <3>2, <3>3, <2>2, <1>3
  <2>7. k2 = k /\ b = B
    <3>1. k2 * sep - k * sep = span * (B - b)
      <4>1. row - k * sep = span * B + adv * j + o  BY <1>3, <1>6
      <4>2. row - k2 * sep = span * b + adv * j + o  BY <2>2, <2>5, <2>6
      <4>3. k * sep \in Int /\ k2 * sep \in Int /\ adv * j \in Int /\ o \in Int
            /\ span * B \in Int /\ span * b \in Int
        BY <1>0, <1>1, <1>4, <1>5, <1>7
      <4>4. k2 * sep - k * sep = span * B - span * b
        <5>1. PICK u \in Int, v \in Int, x \in Int, y \in Int, z \in Int :
                 /\ u = k * sep /\ v = k2 * sep /\ x = adv * j
                 /\ y = span * B /\ z = span * b
          BY <4>3
        <5>2. row - u = y + x + o /\ row - v = z + x + o  BY <4>1, <4>2, <5>1
        <5>3. v - u = y - z  BY <5>2, <4>3
        <5>4. QED  BY <5>1, <5>3
      <4>5. span * (B - b) = span * B - span * b  BY <1>4
      <4>6. QED  BY <4>4, <4>5
    <3>2. sep * (k2 - k) = sep * (jets * (B - b))
      <4>1. span * (B - b) = sep * (jets * (B - b))  BY <1>4, <1>0
      <4>2. QED  BY <3>1, <4>1, <1>0
    <3>3. k2 - k = jets * (B - b)
      <4>1. PICK x \in Int, y \in Int : x = k2 - k /\ y = jets * (B - b)  BY <1>0, <1>4
      <4>2. sep * x = sep * y  BY <3>2, <4>1
      <4>3. QED  BY <4>1, <4>2, <1>0
    <3>4. B - b = 0
      <4>1. jets * (B - b) < jets /\ jets * (B - b) > -jets  BY <3>3, <1>0
      <4>2. QED  BY <4>1, <1>0, <1>4
    <3>5. QED  BY <3>3, <3>4, <1>0, <1>4
  <2>8. QED  BY <2>2, <2>6, <2>7, <1>3, <1>6
<1>12. QED
  <2>1. raw.jet \in 0 .. jets - 1 /\ raw.startrow = row - raw.jet * sep  BY <1>3
  <2>2. QED  BY <2>1, <1>8, <1>9, <1>10 DEF raw, IsRawPassOf

-----------------------------------------------------------------------------
(* The pass map of a page: the parts of calculate_pass_map.                *)

\* Later passes of the raw weave start at no smaller rows.
LEMMA StartsGrow ==
    ASSUME NEW w, NEW sep, NEW jets, NEW over, Heads(w, sep, jets, over),
           NEW p1 \in Nat, NEW p2 \in Nat, p1 <= p2
    PROVE  /\ calculate_raw_pass_parameters(w, p1).startrow \in Nat
           /\ calculate_raw_pass_parameters(w, p1).startrow >= p1
           /\ calculate_raw_pass_parameters(w, p1).startrow
                <= calculate_raw_pass_parameters(w, p2).startrow
<1>0. /\ sep \in Nat \ {0} /\ jets \in Nat \ {0} /\ over \in Nat \ {0} /\ over <= jets
  BY DEF Heads
<1> DEFINE n == w.subblocksperpassblock
           p == w.passespersubblock
           adv == w.advancebasis
           start(q) == calculate_raw_pass_parameters(w, q).startrow
<1>1. /\ n \in Nat \ {0} /\ p \in Nat \ {0} /\ adv \in Nat \ {0} /\ sep = n * p
      /\ OffsetFits(w, n) /\ adv * over <= jets
  BY RawFacts
<1>2. PICK a \in Nat \ {0} : adv = n * a  BY RawFacts
<1>3. n <= adv  BY <1>1, <1>2
<1>4. PICK per \in Nat \ {0}, span \in Nat \ {0} : per = sep * over /\ span = sep * jets
  BY <1>0
<1>5. adv * per <= span /\ per <= span
  <2>1. adv * per = sep * (adv * over)  BY <1>4, <1>0, <1>1
  <2>2. PICK y \in Nat : y = adv * over  BY <1>0, <1>1
  <2>3. sep * y <= sep * jets  BY <2>2, <1>0, <1>1
  <2>4. sep * over <= sep * jets  BY <1>0
  <2>5. QED  BY <2>1, <2>2, <2>3, <2>4, <1>4
<1> HIDE DEF n, p, adv
<1>6. \A q \in Nat : \E b \in Nat, i \in 0 .. per - 1, o \in 0 .. n - 1 :
         q = per * b + i /\ start(q) = span * b + adv * i + o
  <2>1. TAKE q \in Nat
  <2>2. q \in Int  OBVIOUS
  <2>3. PICK b \in Int, i \in 0 .. sep * over - 1 : PassAt(w, sep, jets, over, q, b, i)
    BY <2>2, PassOf, Zenon
  <2>4. i \in 0 .. per - 1 /\ q = per * b + i  BY <2>3, <1>4 DEF PassAt
  <2>5. b \in Nat
    <3>1. per * b > -per  BY <2>4, <1>4
    <3>2. b > -1  BY <3>1, <1>4
    <3>3. QED  BY <3>2
  <2> DEFINE o == SubpassOffset(w, (i % sep) \div p)
  <2>6. start(q) = span * b + adv * i + o /\ (i % sep) \div p \in 0 .. n - 1
    BY <2>3, <1>4 DEF PassAt, n, p, adv
  <2>7. o \in 0 .. n - 1  BY <2>6, <1>1, OffsetOfBlock
  <2>8. QED  BY <2>4, <2>5, <2>6, <2>7
<1>7. PICK b1 \in Nat, i1 \in 0 .. per - 1, o1 \in 0 .. n - 1 :
         p1 = per * b1 + i1 /\ start(p1) = span * b1 + adv * i1 + o1
  BY <1>6, Zenon
<1>8. PICK b2 \in Nat, i2 \in 0 .. per - 1, o2 \in 0 .. n - 1 :
         p2 = per * b2 + i2 /\ start(p2) = span * b2 + adv * i2 + o2
  BY <1>6, Zenon
<1> HIDE DEF start
<1>9. start(p1) \in Nat /\ start(p1) >= p1
  <2>1. span * b1 >= per * b1 /\ adv * i1 >= i1  BY <1>4, <1>5, <1>1, <1>7
  <2>2. PICK u \in Nat, v \in Nat, x \in Nat : u = span * b1 /\ v = adv * i1 /\ x = per * b1
    <3>1. span * b1 \in Nat /\ adv * i1 \in Nat /\ per * b1 \in Nat  BY <1>4, <1>1, <1>7
    <3>2. QED  BY <3>1, Zenon
  <2>3. u >= x /\ v >= i1 /\ p1 = x + i1 /\ start(p1) = u + v + o1  BY <2>1, <2>2, <1>7
  <2>4. QED  BY <2>3, <1>7, <1>1, <1>4
<1>10. start(p1) <= start(p2)
  <2>1. b1 <= b2
    <3>1. SUFFICES ASSUME b1 >= b2 + 1 PROVE FALSE  OBVIOUS
    <3>2. per * b1 >= per * (b2 + 1)  BY <3>1, <1>4
    <3>3. per * (b2 + 1) = per * b2 + per  BY <1>4
    <3>4. QED  BY <3>2, <3>3, <1>7, <1>8, <1>4
  <2>2. CASE b1 = b2
    <3>1. i1 <= i2  BY <2>2, <1>7, <1>8, <1>4
    <3>2. CASE i1 = i2
      <4>1. o1 = o2
        <5>1. p1 = p2  BY <2>2, <3>2, <1>7, <1>8
        <5>2. span * b1 + adv * i1 \in Int  BY <1>4, <1>1
        <5>3. QED  BY <5>1, <5>2, <2>2, <3>2, <1>7, <1>8, <1>1
      <4>2. QED  BY <4>1, <2>2, <3>2, <1>9, <1>7, <1>8
    <3>3. CASE i1 + 1 <= i2
      <4>1. adv * i2 >= adv * i1 + adv
        <5>1. adv * (i1 + 1) <= adv * i2  BY <3>3, <1>1
        <5>2. adv * (i1 + 1) = adv * i1 + adv  BY <1>1
        <5>3. QED  BY <5>1, <5>2
      <4>2. PICK u \in Nat, v \in Nat, x \in Nat : u = span * b1 /\ v = adv * i1 /\ x = adv * i2
        BY <1>4, <1>1
      <4>3. QED  BY <4>1, <4>2, <2>2, <1>3, <1>7, <1>8, <1>1
    <3>4. QED  BY <3>1, <3>2, <3>3
  <2>3. CASE b1 + 1 <= b2
    <3>1. span * b2 >= span * b1 + span
      <4>1. span * (b1 + 1) <= span * b2  BY <2>3, <1>4
      <4>2. span * (b1 + 1) = span * b1 + span  BY <1>4
      <4>3. QED  BY <4>1, <4>2
    <3>2. adv * i1 + adv <= adv * per
      <4>1. adv * (i1 + 1) <= adv * per  BY <1>1, <1>4
      <4>2. adv * (i1 + 1) = adv * i1 + adv  BY <1>1
      <4>3. QED  BY <4>1, <4>2
    <3>3. PICK u \in Nat, v \in Nat, x \in Nat, y \in Nat, z \in Nat :
             /\ u = span * b1 /\ v = adv * i1 /\ x = adv * i2 /\ y = span * b2 /\ z = adv * per
      <4>1. span * b1 \in Nat /\ adv * i1 \in Nat /\ adv * i2 \in Nat  BY <1>4, <1>1
      <4>2. span * b2 \in Nat /\ adv * per \in Nat  BY <1>4, <1>1
      <4>3. QED  BY <4>1, <4>2, Zenon
    <3>4. QED  BY <3>1, <3>2, <3>3, <1>3, <1>5, <1>7, <1>8, <1>1, <1>4
  <2>4. QED  BY <2>1, <2>2, <2>3
<1>11. QED  BY <1>9, <1>10 DEF start

\* The passes of a negative number, which a pass map may reach, have a start row, too.
LEMMA StartIsInt ==
    ASSUME NEW w, NEW sep, NEW jets, NEW over, Heads(w, sep, jets, over), NEW p \in Int
    PROVE  calculate_raw_pass_parameters(w, p).startrow \in Int
<1>0. /\ sep \in Nat \ {0} /\ jets \in Nat \ {0} /\ over \in Nat \ {0}
  BY DEF Heads
<1>1. /\ w.separation = sep /\ w.jets = jets /\ w.oversampling = over
      /\ w.subblocksperpassblock \in Nat \ {0} /\ w.advancebasis \in Nat \ {0}
      /\ w.strategy \in Strategies \ {"ascending_3x"}
  <2>1. w.strategy \in Strategies \ {"ascending_3x"}  BY DEF Heads, initialize_raw_weave
  <2>2. QED  BY <2>1, RawFacts
<1>2. \A a \in Int, b \in Nat \ {0} : CDiv(a, b) \in Int /\ CMod(a, b) \in Int
  <2>1. TAKE a \in Int, b \in Nat \ {0}
  <2>2. CDiv(a, b) \in Int  BY DEF CDiv
  <2>3. QED  BY <2>2 DEF CMod
<1>3. PICK per \in Nat \ {0}, span \in Nat : per = sep * over /\ span = sep * jets  BY <1>0
<1> DEFINE inband == CMod(p, per)
           block  == CDiv(CMod(p, sep) * w.subblocksperpassblock, sep)
           u      == CDiv(p, per)
<1>4. inband \in Int /\ u \in Int  BY <1>2, <1>3
<1>5. block \in Int
  <2>1. CMod(p, sep) \in Int  BY <1>0, <1>2
  <2>2. CMod(p, sep) * w.subblocksperpassblock \in Int  BY <2>1, <1>1
  <2>3. QED  BY <2>2, <1>0, <1>2
<1> HIDE DEF inband, block, u
<1>6. SubpassOffset(w, block) \in Int
  <2>1. CASE w.strategy = "zigzag"  BY <2>1, <1>1, <1>5 DEF SubpassOffset
  <2>2. CASE w.strategy = "ascending"  BY <2>2, <1>1, <1>5 DEF SubpassOffset
  <2>3. CASE w.strategy = "descending"  BY <2>3, <1>1, <1>5 DEF SubpassOffset
  <2>4. CASE w.strategy = "ascending_2x"  BY <2>4, <1>1, <1>5 DEF SubpassOffset
  <2>5. CASE w.strategy = "staggered"  BY <2>5, <1>1, <1>5 DEF SubpassOffset
  <2>6. QED  BY <2>1, <2>2, <2>3, <2>4, <2>5, <1>1 DEF Strategies
<1>7. calculate_raw_pass_parameters(w, p).startrow
        = span * u + w.advancebasis * inband + SubpassOffset(w, block)
  BY <1>1, <1>3 DEF calculate_raw_pass_parameters, Span, u, inband, block
<1>8. span * u \in Int /\ w.advancebasis * inband \in Int  BY <1>1, <1>3, <1>4
<1>9. QED  BY <1>6, <1>7, <1>8

\* Min returns the least element.
LEMMA LeastOf ==
    ASSUME NEW T \in SUBSET Nat, T # {}
    PROVE  Min(T) \in T /\ \A y \in T : Min(T) <= y
<1>1. \E x \in T : \A y \in T : x <= y  BY LeastNat
<1>2. Min(T) = CHOOSE x \in T : \A y \in T : x <= y  BY DEF Min
<1>3. QED  BY <1>1, <1>2, Zenon

\* The fields of a pass map: the passes are divided in order, the moved ones are
\* mapped by make_passmap, and a pass that prints a row of the page is used.
IsPageMap(w, sep, jets, first, last, ck) ==
    LET Start(q) == calculate_raw_pass_parameters(w, q).startrow
    IN  /\ ck.rw = w /\ ck.first_row_printed = first /\ ck.last_row_printed = last
        /\ ck.first_premapped_pass \in Nat /\ ck.first_normal_pass \in Nat
        /\ ck.first_postmapped_pass \in Int /\ ck.first_unused_pass \in Nat
        /\ ck.first_premapped_pass <= ck.first_normal_pass
        /\ ck.first_postmapped_pass <= ck.first_unused_pass
        /\ ck.first_premapped_pass < ck.first_normal_pass
             => \E from \in Int, to \in Int, separations \in Nat :
                   ck.premap = make_passmap(w, ck.first_premapped_pass,
                                            ck.first_premapped_pass, ck.first_normal_pass,
                                            from, to, -1, separations)
        /\ \E from \in Int, to \in Int, maximal \in Int, separations \in Nat :
              ck.postmap = make_passmap(w, ck.first_premapped_pass,
                                        ck.first_postmapped_pass, ck.first_unused_pass,
                                        from, to, maximal, separations)
        /\ \A q \in Nat : Start(q) - sep >= first => q >= ck.first_premapped_pass
        /\ \A q \in Nat : Start(q) <= last + sep * jets => q < ck.first_unused_pass

\* calculate_pass_map computes such a map for every page.
LEMMA PageMap ==
    ASSUME NEW w, NEW sep, NEW jets, NEW over, Heads(w, sep, jets, over),
           NEW page \in Nat, NEW first \in Nat, NEW last \in Nat, first <= last
    PROVE  IsPageMap(w, sep, jets, first, last, calculate_pass_map(w, page, first, last))
<1>0. /\ sep \in Nat \ {0} /\ jets \in Nat \ {0} /\ over \in Nat \ {0} /\ over <= jets
  BY DEF Heads
<1>1. w.separation = sep /\ w.jets = jets /\ w.advancebasis \in Nat \ {0}  BY RawFacts
<1> DEFINE height    == Max({page, last + 1})
           Start(q)  == calculate_raw_pass_parameters(w, q).startrow
           Within(q) == Start(q) <= last + Span(w)
           OnPage(q) == Start(q) - w.separation < height /\ Within(q)
           limit     == last + Span(w) + w.separation + 1
           premapped  == Min({q \in 0 .. limit : Start(q) - w.separation >= first})
           normal     == Min({q \in premapped .. limit : ~(Start(q) < Span(w) /\ OnPage(q))})
           postmapped == Min({q \in normal .. limit : ~OnPage(q)})
           unused     == Min({q \in postmapped .. limit : ~Within(q)})
           above      == first \div w.separation
           below      == (height - last - 1) \div w.separation
           extra      == ((above + 1) * w.separation + w.advancebasis - 1) \div w.advancebasis
           fewer      == ((below + 1) * w.separation + w.advancebasis) \div w.advancebasis
           normal2    == IF normal > premapped THEN normal + extra ELSE normal
           post2      == postmapped - fewer
           ck         == calculate_pass_map(w, page, first, last)
<1>2. /\ ck.rw = w /\ ck.first_row_printed = first /\ ck.last_row_printed = last
      /\ ck.first_premapped_pass = premapped /\ ck.first_normal_pass = normal2
      /\ ck.first_postmapped_pass = post2 /\ ck.first_unused_pass = unused
  BY Zenon DEF calculate_pass_map
<1>a. /\ ck.premap = IF normal > premapped
                     THEN make_passmap(w, premapped, premapped, normal2,
                                       premapped, normal, -1, above)
                     ELSE <<>>
      /\ ck.postmap = make_passmap(w, premapped, post2, unused, postmapped, unused,
                                   height - 1 - w.separation * (w.jets - 1), below)
  BY DEF calculate_pass_map
<1>3. limit \in Nat /\ Span(w) = sep * jets /\ sep * jets \in Nat
  BY <1>0, <1>1 DEF Span
<1>4. \A q \in Nat : Start(q) \in Nat /\ Start(q) >= q
  BY StartsGrow
<1>5. \A q \in Nat, r \in Nat : q <= r => Start(q) <= Start(r)
  BY StartsGrow
<1>6. /\ Start(limit) \in Nat /\ ~Within(limit)
      /\ ~OnPage(limit) /\ Start(limit) - w.separation >= first
  <2> HIDE DEF Start
  <2>1. Start(limit) \in Nat /\ Start(limit) >= limit
    <3> HIDE DEF limit
    <3>1. QED  BY <1>3, <1>4
  <2>2. QED  BY <2>1, <1>3, <1>0, <1>1
<1> HIDE DEF Start, Within, OnPage, limit, ck
<1>7. premapped \in 0 .. limit /\ \A q \in Nat : Start(q) - w.separation >= first => q >= premapped
  <2> DEFINE T == {q \in 0 .. limit : Start(q) - w.separation >= first}
  <2>1. T \in SUBSET Nat /\ limit \in T  BY <1>3, <1>6
  <2>2. Min(T) \in T /\ \A y \in T : Min(T) <= y
    <3> HIDE DEF T
    <3>1. QED  BY <2>1, LeastOf
  <2>3. ASSUME NEW q \in Nat, Start(q) - w.separation >= first PROVE q >= premapped
    <3>1. CASE q <= limit
      <4>1. q \in T  BY <3>1, <2>3, <1>3
      <4>2. QED  BY <4>1, <2>2
    <3>2. CASE q > limit
      <4>1. premapped <= limit /\ premapped \in Nat  BY <2>2, <1>3
      <4> HIDE DEF premapped
      <4>2. QED  BY <4>1, <3>2, <1>3
    <3>3. QED  BY <3>1, <3>2, <1>3
  <2>4. QED  BY <2>2, <2>3
<1> HIDE DEF premapped
<1>8. normal \in premapped .. limit
  <2> DEFINE T == {q \in premapped .. limit : ~(Start(q) < Span(w) /\ OnPage(q))}
  <2>1. T \in SUBSET Nat /\ limit \in T  BY <1>3, <1>6, <1>7
  <2> HIDE DEF T
  <2>2. Min(T) \in T  BY <2>1, LeastOf
  <2>3. QED  BY <2>2 DEF T
<1> HIDE DEF normal
<1>9. postmapped \in normal .. limit
  <2> DEFINE T == {q \in normal .. limit : ~OnPage(q)}
  <2>1. T \in SUBSET Nat /\ limit \in T  BY <1>3, <1>6, <1>7, <1>8
  <2> HIDE DEF T
  <2>2. Min(T) \in T  BY <2>1, LeastOf
  <2>3. QED  BY <2>2 DEF T
<1> HIDE DEF postmapped
<1>10. unused \in postmapped .. limit /\ ~Within(unused)
  <2> DEFINE T == {q \in postmapped .. limit : ~Within(q)}
  <2>1. T \in SUBSET Nat /\ limit \in T  BY <1>3, <1>6, <1>7, <1>8, <1>9
  <2> HIDE DEF T
  <2>2. Min(T) \in T  BY <2>1, LeastOf
  <2>3. QED  BY <2>2 DEF T
<1> HIDE DEF unused
<1>11. \A q \in Nat : Start(q) <= last + sep * jets => q < unused
  <2>1. TAKE q \in Nat
  <2>2. HAVE Start(q) <= last + sep * jets
  <2>3. unused \in Nat /\ Start(unused) > last + sep * jets
    BY <1>10, <1>3, <1>7, <1>8, <1>9, <1>4 DEF Within
  <2>4. unused <= q => Start(unused) <= Start(q)  BY <1>5, <2>3
  <2>5. Start(q) \in Nat /\ Start(unused) \in Nat  BY <1>4, <2>3
  <2>6. QED  BY <2>2, <2>3, <2>4, <2>5, <1>3
<1>12. height \in Nat /\ height - last - 1 \in Nat
  <2>1. Max({page, last + 1}) \in {page, last + 1} /\ Max({page, last + 1}) >= last + 1
    <3>1. CASE page >= last + 1
      <4>1. Max({page, last + 1}) = page  BY <3>1 DEF Max
      <4>2. QED  BY <4>1, <3>1
    <3>2. CASE page < last + 1
      <4>1. Max({page, last + 1}) = last + 1  BY <3>2 DEF Max
      <4>2. QED  BY <4>1
    <3>3. QED  BY <3>1, <3>2
  <2>2. QED  BY <2>1
<1>13. extra \in Nat /\ fewer \in Nat /\ above \in Nat /\ below \in Nat
  <2> HIDE DEF height
  <2>1. above \in Nat /\ below \in Nat  BY <1>0, <1>1, <1>12
  <2> HIDE DEF above, below
  <2>2. (above + 1) * w.separation \in Nat /\ (below + 1) * w.separation \in Nat
    BY <2>1, <1>0, <1>1
  <2>3. PICK u \in Nat, v \in Nat :
           u = (above + 1) * w.separation + w.advancebasis - 1
           /\ v = (below + 1) * w.separation + w.advancebasis
    BY <2>2, <1>1
  <2>4. u \div w.advancebasis \in Nat /\ v \div w.advancebasis \in Nat  BY <1>1
  <2>5. QED  BY <2>1, <2>3, <2>4
<1> HIDE DEF extra, fewer, above, below
<1>14. ck.first_premapped_pass < ck.first_normal_pass
         => \E from \in Int, to \in Int, separations \in Nat :
               ck.premap = make_passmap(w, ck.first_premapped_pass,
                                        ck.first_premapped_pass, ck.first_normal_pass,
                                        from, to, -1, separations)
  <2>1. HAVE ck.first_premapped_pass < ck.first_normal_pass
  <2>2. normal > premapped  BY <2>1, <1>2, <1>3, <1>7, <1>8
  <2>3. ck.premap = make_passmap(w, premapped, premapped, normal2, premapped, normal, -1, above)
    BY <2>2, <1>a
  <2>4. premapped \in Int /\ normal \in Int  BY <1>3, <1>7, <1>8
  <2>5. QED  BY <2>3, <2>4, <1>2, <1>13
<1>15. \E from \in Int, to \in Int, maximal \in Int, separations \in Nat :
          ck.postmap = make_passmap(w, ck.first_premapped_pass,
                                    ck.first_postmapped_pass, ck.first_unused_pass,
                                    from, to, maximal, separations)
  <2>1. PICK maximal \in Int : maximal = height - 1 - w.separation * (w.jets - 1)
    <3> HIDE DEF height
    <3>1. w.separation * (w.jets - 1) \in Int  BY <1>0, <1>1
    <3>2. QED  BY <3>1, <1>12
  <2>2. postmapped \in Int /\ unused \in Int  BY <1>3, <1>7, <1>8, <1>9, <1>10
  <2>3. ck.postmap = make_passmap(w, premapped, post2, unused, postmapped, unused, maximal, below)
    BY <2>1, <1>a
  <2>4. QED  BY <2>2, <2>3, <1>2, <1>13
<1>16. QED  BY <1>1, <1>2, <1>3, <1>7, <1>8, <1>9, <1>10, <1>11, <1>13, <1>14, <1>15 DEF ck, Start, IsPageMap

-----------------------------------------------------------------------------
(* The passes moved at an end of the page: make_passmap.                   *)

\* t holds the elements of s, a sequence of length N, and no others.
Reorders(t, s, N) ==
    /\ DOMAIN t = 1 .. N
    /\ \A n \in 1 .. N : \E k \in 1 .. N : t[n] = s[k]
    /\ \A k \in 1 .. N : \E n \in 1 .. N : t[n] = s[k]

\* sort_by_start_row, the qsort of the C code, loses and doubles no element.
LEMMA SortPermutes ==
    ASSUME NEW N \in Nat, NEW s, DOMAIN s = 1 .. N, \A i \in 1 .. N : s[i].startrow \in Int
    PROVE  Reorders(sort_by_start_row(s), s, N)
<1> DEFINE Before(i, k) == \/ s[i].startrow < s[k].startrow
                           \/ s[i].startrow = s[k].startrow /\ i < k
           Earlier(k) == {i \in 1 .. N : Before(i, k)}
           Rank(k) == 1 + Cardinality(Earlier(k))
           At(n) == CHOOSE k \in 1 .. N : Rank(k) = n
<1>1. /\ \A i \in 1 .. N : ~Before(i, i)
      /\ \A i, k \in 1 .. N : i = k \/ Before(i, k) \/ Before(k, i)
      /\ \A i, k, l \in 1 .. N : Before(i, k) /\ Before(k, l) => Before(i, l)
  OBVIOUS
<1> HIDE DEF Before
<1>2. IsFiniteSet(1 .. N) /\ Cardinality(1 .. N) = N  BY FS_Interval
<1>3. \A k \in 1 .. N : Rank(k) \in 1 .. N
  <2>1. TAKE k \in 1 .. N
  <2>2. Earlier(k) \in SUBSET ((1 .. N) \ {k})  BY <1>1
  <2>3. IsFiniteSet((1 .. N) \ {k}) /\ Cardinality((1 .. N) \ {k}) = N - 1
    BY <1>2, FS_RemoveElement, Zenon
  <2> HIDE DEF Earlier
  <2>4. IsFiniteSet(Earlier(k)) /\ Cardinality(Earlier(k)) <= N - 1
    BY <2>2, <2>3, FS_Subset
  <2>5. Cardinality(Earlier(k)) \in Nat  BY <2>4, FS_CardinalityType
  <2>6. QED  BY <2>4, <2>5
<1>4. \A i, k \in 1 .. N : Before(i, k) => Rank(i) < Rank(k)
  <2>1. TAKE i, k \in 1 .. N
  <2>2. HAVE Before(i, k)
  <2>3. Earlier(i) \in SUBSET Earlier(k)  BY <2>2, <1>1
  <2>4. i \in Earlier(k) /\ i \notin Earlier(i)  BY <2>2, <1>1
  <2>5. Earlier(k) \in SUBSET (1 .. N)  OBVIOUS
  <2> HIDE DEF Earlier
  <2>6. IsFiniteSet(Earlier(k))  BY <2>5, <1>2, FS_Subset
  <2>7. IsFiniteSet(Earlier(i)) /\ Cardinality(Earlier(i)) <= Cardinality(Earlier(k))
        /\ Cardinality(Earlier(i)) # Cardinality(Earlier(k))
    BY <2>3, <2>4, <2>6, FS_Subset
  <2>8. Cardinality(Earlier(i)) \in Nat /\ Cardinality(Earlier(k)) \in Nat
    BY <2>6, <2>7, FS_CardinalityType
  <2>9. QED  BY <2>7, <2>8
<1> HIDE DEF Rank
<1>5. \A i, k \in 1 .. N : Rank(i) = Rank(k) => i = k
  <2>1. TAKE i, k \in 1 .. N
  <2>2. Rank(i) \in Int /\ Rank(k) \in Int  BY <1>3
  <2>3. QED  BY <2>2, <1>1, <1>4
<1>6. \A n \in 1 .. N : \E k \in 1 .. N : Rank(k) = n
  <2> DEFINE f == [k \in 1 .. N |-> Rank(k)]
  <2>1. f \in Injection(1 .. N, 1 .. N)
    <3>1. f \in [1 .. N -> 1 .. N]  BY <1>3
    <3>2. \A i, k \in 1 .. N : f[i] = f[k] => i = k  BY <1>5
    <3> HIDE DEF f
    <3>3. QED  BY <3>1, <3>2 DEF Injection, IsInjective
  <2>2. f \in Surjection(1 .. N, 1 .. N)
    <3> HIDE DEF f
    <3>1. QED  BY <2>1, <1>2, FS_Injection
  <2>3. \A n \in 1 .. N : \E k \in 1 .. N : f[k] = n
    <3> HIDE DEF f
    <3>1. QED  BY <2>2 DEF Surjection
  <2>4. QED  BY <2>3
<1>7. \A n \in 1 .. N : At(n) \in 1 .. N /\ Rank(At(n)) = n
  BY <1>6, Zenon
<1>8. \A k \in 1 .. N : At(Rank(k)) = k
  <2>1. TAKE k \in 1 .. N
  <2>2. Rank(k) \in 1 .. N  BY <1>3
  <2>3. At(Rank(k)) \in 1 .. N /\ Rank(At(Rank(k))) = Rank(k)  BY <1>7, <2>2
  <2> HIDE DEF At
  <2>4. QED  BY <2>3, <1>5
<1>9. sort_by_start_row(s) = [n \in 1 .. N |-> s[At(n)]]
  BY DEF sort_by_start_row, Rank, Earlier, Before
<1> HIDE DEF At
<1>10. DOMAIN sort_by_start_row(s) = 1 .. N /\ \A n \in 1 .. N : sort_by_start_row(s)[n] = s[At(n)]
  BY <1>9
<1>11. QED  BY <1>3, <1>7, <1>8, <1>10 DEF Reorders

\* make_passmap gives the passes of an end of the page distinct numbers in the
\* range that the raw passes leave for them, and moves them by whole separations.
LEMMA PassmapNumbers ==
    ASSUME NEW w, NEW sep, NEW jets, NEW over, Heads(w, sep, jets, over),
           NEW first \in Int, NEW from \in Int, NEW to \in Int, from <= to,
           NEW stagger_from \in Int, NEW stagger_to \in Int, NEW maximal \in Int,
           NEW separations \in Nat
    PROVE  LET m == make_passmap(w, first, from, to, stagger_from, stagger_to, maximal, separations)
           IN  /\ \A p \in from .. to - 1 :
                     m[p].pass \in from - first .. to - first - 1 /\ m[p].stagger \in Int
               /\ \A p, q \in from .. to - 1 : m[p].pass = m[q].pass => p = q
<1>0. /\ sep \in Nat \ {0} /\ jets \in Nat \ {0} /\ w.separation = sep /\ w.jets = jets
  BY RawFacts, Zenon DEF Heads
<1> DEFINE N == to - from
           Raw(p)    == calculate_raw_pass_parameters(w, p).startrow - Span(w)
           Mirror(r) == IF maximal >= 0 THEN maximal - r ELSE r
           Onto(r)   == IF r < 0 THEN r % w.separation ELSE r
           old       == [i \in 1 .. to - from |->
                            [map |-> from + i - 1, startrow |-> Onto(Mirror(Raw(from + i - 1)))]]
           byStart   == sort_by_start_row(old)
           Spread(i) ==
               LET r == byStart[i].startrow
                   k == (i - 1 - (stagger_from - from)) % (separations + 1)
               IN  IF /\ i - 1 \in stagger_from - from .. stagger_to - from - 1
                      /\ r \div w.separation < k
                   THEN (r % w.separation) + w.separation * k
                   ELSE r
           moved     == [i \in 1 .. to - from |->
                            [map |-> byStart[i].map, startrow |-> Mirror(Spread(i))]]
           final     == sort_by_start_row(moved)
           place(p)  == CHOOSE k \in DOMAIN final : final[k].map = p
           m == make_passmap(w, first, from, to, stagger_from, stagger_to, maximal, separations)
<1>1. N \in Nat  OBVIOUS
<1>2. \A p \in Int : Raw(p) \in Int
  <2>1. TAKE p \in Int
  <2>2. calculate_raw_pass_parameters(w, p).startrow \in Int  BY StartIsInt
  <2>3. Span(w) \in Int  BY <1>0 DEF Span
  <2>4. QED  BY <2>2, <2>3
<1>3. \A r \in Int : Mirror(r) \in Int /\ Onto(r) \in Int  BY <1>0
<1> HIDE DEF Raw, Mirror, Onto
<1>4. DOMAIN old = 1 .. N /\ \A i \in 1 .. N : old[i].map = from + i - 1 /\ old[i].startrow \in Int
  <2>1. \A i \in 1 .. N : from + i - 1 \in Int  OBVIOUS
  <2>2. \A i \in 1 .. N : Onto(Mirror(Raw(from + i - 1))) \in Int  BY <2>1, <1>2, <1>3
  <2>3. QED  BY <2>2
<1> HIDE DEF old
<1>5. /\ DOMAIN byStart = 1 .. N
      /\ \A n \in 1 .. N : \E k \in 1 .. N : byStart[n] = old[k]
      /\ \A k \in 1 .. N : \E n \in 1 .. N : byStart[n] = old[k]
  <2> HIDE DEF N
  <2>1. Reorders(byStart, old, N)  BY <1>1, <1>4, SortPermutes, Zenon
  <2> HIDE DEF byStart
  <2>2. QED  BY <2>1 DEF Reorders
<1> HIDE DEF byStart
<1>6. \A n \in 1 .. N : Spread(n) \in Int
  <2>1. TAKE n \in 1 .. N
  <2>2. byStart[n].startrow \in Int  BY <1>4, <1>5, Zenon
  <2>3. PICK k \in Int : k = (n - 1 - (stagger_from - from)) % (separations + 1)
    <3>1. n - 1 - (stagger_from - from) \in Int /\ separations + 1 \in Nat \ {0}  OBVIOUS
    <3>2. QED  BY <3>1
  <2>4. (byStart[n].startrow % w.separation) + w.separation * k \in Int  BY <2>2, <1>0
  <2>5. QED  BY <2>2, <2>3, <2>4
<1> HIDE DEF Spread
<1>7. /\ DOMAIN moved = 1 .. N
      /\ \A i \in 1 .. N : moved[i].map = byStart[i].map /\ moved[i].startrow \in Int
  BY <1>3, <1>6
<1> HIDE DEF moved
<1>8. /\ DOMAIN final = 1 .. N
      /\ \A n \in 1 .. N : \E k \in 1 .. N : final[n] = moved[k]
      /\ \A k \in 1 .. N : \E n \in 1 .. N : final[n] = moved[k]
  <2> HIDE DEF N
  <2>1. Reorders(final, moved, N)  BY <1>1, <1>7, SortPermutes, Zenon
  <2> HIDE DEF final
  <2>2. QED  BY <2>1 DEF Reorders
<1> HIDE DEF final
<1>9. \A p \in from .. to - 1 : \E n \in 1 .. N : final[n].map = p
  <2>1. TAKE p \in from .. to - 1
  <2>2. p - from + 1 \in 1 .. N /\ from + (p - from + 1) - 1 = p  OBVIOUS
  <2>3. PICK k \in 1 .. N : old[k].map = p  BY <2>2, <1>4, Zenon
  <2>4. PICK i \in 1 .. N : byStart[i] = old[k]  BY <1>5
  <2>5. PICK n \in 1 .. N : final[n] = moved[i]  BY <1>8
  <2>6. final[n].map = p  BY <2>3, <2>4, <2>5, <1>7
  <2>7. QED  BY <2>6
<1>10. \A p \in from .. to - 1 : place(p) \in 1 .. N /\ final[place(p)].map = p
  BY <1>8, <1>9, Zenon
<1>11. \A p \in from .. to - 1 :
          m[p] = [pass    |-> place(p) - 1 + from - first,
                  stagger |-> (final[place(p)].startrow - Raw(p)) \div w.separation]
  BY Zenon DEF make_passmap, final, moved, Spread, byStart, old, Onto, Mirror, Raw
<1> HIDE DEF place, m
<1>a. \A p \in from .. to - 1 :
         /\ m[p].pass = place(p) - 1 + from - first
         /\ m[p].stagger = (final[place(p)].startrow - Raw(p)) \div w.separation
  <2>1. TAKE p \in from .. to - 1
  <2>2. PICK x, y : /\ x = place(p) - 1 + from - first
                    /\ y = (final[place(p)].startrow - Raw(p)) \div w.separation
    OBVIOUS
  <2>3. m[p] = [pass |-> x, stagger |-> y]  BY <1>11, <2>2, Zenon
  <2>4. m[p].pass = x /\ m[p].stagger = y  BY <2>3
  <2>5. QED  BY <2>2, <2>4
<1>12. \A p \in from .. to - 1 : m[p].pass \in from - first .. to - first - 1 /\ m[p].stagger \in Int
  <2>1. TAKE p \in from .. to - 1
  <2>2. place(p) \in 1 .. N  BY <1>10
  <2>3. final[place(p)].startrow \in Int  BY <2>2, <1>7, <1>8, Zenon
  <2>4. Raw(p) \in Int  BY <1>2
  <2>5. PICK u \in Int : u = final[place(p)].startrow - Raw(p)  BY <2>3, <2>4
  <2>6. u \div w.separation \in Int  BY <1>0
  <2>7. place(p) - 1 + from - first \in from - first .. to - first - 1  BY <2>2
  <2>8. QED  BY <1>a, <2>5, <2>6, <2>7
<1>13. \A p, q \in from .. to - 1 : m[p].pass = m[q].pass => p = q
  <2>1. TAKE p, q \in from .. to - 1
  <2>2. HAVE m[p].pass = m[q].pass
  <2>3. place(p) \in Int /\ place(q) \in Int  BY <1>10
  <2>4. place(p) - 1 + from - first = place(q) - 1 + from - first  BY <1>a, <2>2
  <2>5. place(p) = place(q)  BY <2>3, <2>4
  <2>6. QED  BY <2>5, <1>10
<1>14. QED  BY <1>12, <1>13 DEF m

-----------------------------------------------------------------------------
(* The cooked weave.                                                       *)

\* The assertions of stpi_calculate_row_parameters hold: the pass of a row of
\* the page is one of those between the first and the last pass of the page.
LEMMA RowsHavePasses ==
    ASSUME NEW w, NEW sep, NEW jets, NEW over, Heads(w, sep, jets, over),
           NEW page \in Nat, NEW first \in Nat, NEW last \in Nat, first <= last,
           NEW row \in first .. last, NEW s \in 0 .. over - 1
    PROVE  RowAsserts(calculate_pass_map(w, page, first, last), row, s)
<1>0. /\ sep \in Nat \ {0} /\ jets \in Nat \ {0} /\ over \in Nat \ {0}
  BY DEF Heads
<1>1. w.separation = sep /\ w.jets = jets  BY RawFacts
<1> DEFINE ck == calculate_pass_map(w, page, first, last)
           Start(q) == calculate_raw_pass_parameters(w, q).startrow
           raw == calculate_raw_row_parameters(w, row + sep * jets, s)
<1>2. /\ ck.rw = w /\ ck.first_row_printed = first /\ ck.last_row_printed = last
      /\ ck.first_premapped_pass \in Nat /\ ck.first_unused_pass \in Nat
      /\ \A q \in Nat : Start(q) - sep >= first => q >= ck.first_premapped_pass
      /\ \A q \in Nat : Start(q) <= last + sep * jets => q < ck.first_unused_pass
  <2>1. IsPageMap(w, sep, jets, first, last, ck)  BY PageMap, Zenon
  <2> HIDE DEF ck
  <2>2. QED  BY <2>1 DEF IsPageMap
<1>3. PICK span \in Nat : span = sep * jets  BY <1>0
<1>4. row + sep * jets \in Nat /\ row + sep * jets >= sep * jets  BY <1>3
<1>5. /\ raw.pass \in Nat /\ raw.jet \in 0 .. jets - 1
      /\ raw.startrow = (row + span) - raw.jet * sep
      /\ calculate_raw_pass_parameters(w, raw.pass) = [startrow |-> raw.startrow, subpass |-> s]
  <2>1. IsRawPassOf(w, sep, jets, row + sep * jets, s, raw)  BY <1>4, RawLookup, Zenon
  <2> HIDE DEF raw
  <2>2. raw.pass \in Nat  BY <2>1, <1>4 DEF IsRawPassOf
  <2>3. raw.jet \in 0 .. jets - 1  BY <2>1 DEF IsRawPassOf
  <2>4. raw.startrow = (row + span) - raw.jet * sep
    <3>1. IsRawPassOf(w, sep, jets, row + span, s, raw)  BY <2>1, <1>3, Zenon
    <3>2. QED  BY <3>1 DEF IsRawPassOf
  <2>5. calculate_raw_pass_parameters(w, raw.pass) = [startrow |-> raw.startrow, subpass |-> s]
    BY <2>1 DEF IsRawPassOf
  <2>6. QED  BY <2>2, <2>3, <2>4, <2>5
<1> HIDE DEF raw, ck
<1>6. Start(raw.pass) = (row + span) - raw.jet * sep  BY <1>5
<1>7. raw.jet * sep \in Nat /\ raw.jet * sep <= span - sep
  <2>1. raw.jet * sep <= (jets - 1) * sep  BY <1>0, <1>5
  <2>2. (jets - 1) * sep = span - sep  BY <1>0, <1>3
  <2>3. QED  BY <2>1, <2>2, <1>0, <1>5
<1> HIDE DEF Start
<1>8. Start(raw.pass) - sep >= first /\ Start(raw.pass) <= last + sep * jets
  BY <1>0, <1>3, <1>6, <1>7
<1>9. raw.pass >= ck.first_premapped_pass /\ raw.pass < ck.first_unused_pass
  BY <1>2, <1>5, <1>8
<1>10. Span(w) = sep * jets  BY <1>1 DEF Span
<1>11. QED  BY <1>2, <1>9, <1>10 DEF RowAsserts, ck, raw

\* No pass is moved at the top of the page, or the ones moved there are before
\* those moved at the bottom.
Apart(ck) == \/ ck.first_normal_pass = ck.first_premapped_pass
             \/ ck.first_normal_pass <= ck.first_postmapped_pass

\* What PassmapNumbers says of a map of passes, as one formula.
NumbersOf(m, first, from, to) ==
    /\ \A p \in from .. to - 1 :
          m[p].pass \in from - first .. to - first - 1 /\ m[p].stagger \in Int
    /\ \A p, q \in from .. to - 1 : m[p].pass = m[q].pass => p = q

\* PassmapNumbers in these words.
LEMMA PassmapApart ==
    ASSUME NEW w, NEW sep, NEW jets, NEW over, Heads(w, sep, jets, over),
           NEW first \in Int, NEW from \in Int, NEW to \in Int, from <= to,
           NEW stagger_from \in Int, NEW stagger_to \in Int, NEW maximal \in Int,
           NEW separations \in Nat
    PROVE  NumbersOf(make_passmap(w, first, from, to, stagger_from, stagger_to,
                                  maximal, separations), first, from, to)
<1> DEFINE m == make_passmap(w, first, from, to, stagger_from, stagger_to, maximal, separations)
<1>1. /\ \A p \in from .. to - 1 :
            m[p].pass \in from - first .. to - first - 1 /\ m[p].stagger \in Int
      /\ \A p, q \in from .. to - 1 : m[p].pass = m[q].pass => p = q
  BY PassmapNumbers
<1> HIDE DEF m
<1>2. NumbersOf(m, first, from, to)  BY <1>1, Zenon DEF NumbersOf
<1>3. QED  BY <1>2 DEF m

\* Every pass that is used gets a number.  When the moved passes at the ends of
\* the page are apart, no two passes are printed as one: those moved at the top,
\* those left alone and those moved at the bottom have distinct numbers.
LEMMA NumbersDiffer ==
    ASSUME NEW w, NEW sep, NEW jets, NEW over, Heads(w, sep, jets, over),
           NEW page \in Nat, NEW first \in Nat, NEW last \in Nat, first <= last
    PROVE  LET ck == calculate_pass_map(w, page, first, last)
               Used == ck.first_premapped_pass .. ck.first_unused_pass - 1
           IN  /\ \A p \in Used : /\ Renumbered(ck, p).pass \in Int
                                  /\ Renumbered(ck, p).stagger \in Int
               /\ Apart(ck) =>
                    \A p, q \in Used : Renumbered(ck, p).pass = Renumbered(ck, q).pass => p = q
<1> DEFINE ck == calculate_pass_map(w, page, first, last)
           pre    == ck.first_premapped_pass
           normal == ck.first_normal_pass
           post   == ck.first_postmapped_pass
           unused == ck.first_unused_pass
           Used   == pre .. unused - 1
<1>1. /\ pre \in Nat /\ normal \in Nat /\ post \in Int /\ unused \in Nat
      /\ pre <= normal /\ post <= unused
      /\ pre < normal
           => \E from \in Int, to \in Int, separations \in Nat :
                 ck.premap = make_passmap(w, pre, pre, normal, from, to, -1, separations)
      /\ \E from \in Int, to \in Int, maximal \in Int, separations \in Nat :
            ck.postmap = make_passmap(w, pre, post, unused, from, to, maximal, separations)
  <2>1. IsPageMap(w, sep, jets, first, last, ck)  BY PageMap, Zenon
  <2> HIDE DEF ck
  <2>2. QED  BY <2>1 DEF IsPageMap
<1> DEFINE N(p) == Renumbered(ck, p)
<1>2. /\ \A p \in Int : p < normal => N(p) = ck.premap[p]
      /\ \A p \in Int : p >= normal /\ p < post
           => N(p).pass = p - pre /\ N(p).stagger = 0
      /\ \A p \in Int : p >= normal /\ p >= post => N(p) = ck.postmap[p]
  <2> HIDE DEF ck
  <2>1. \A p \in Int : p < ck.first_normal_pass => Renumbered(ck, p) = ck.premap[p]
    BY <1>1 DEF Renumbered
  <2>2. \A p \in Int : p >= normal /\ p < post
           => Renumbered(ck, p) = [pass |-> p - pre, stagger |-> 0]
    <3>1. \A p \in Int : p >= normal /\ p < post => ~(p >= post)  BY <1>1
    <3>2. \A p \in Int : p >= normal /\ p < post => ~(p < normal)  BY <1>1
    <3>3. QED  BY <3>1, <3>2 DEF Renumbered
  <2>3. \A p \in Int : p >= normal /\ p >= post => Renumbered(ck, p) = ck.postmap[p]
    <3>1. \A p \in Int : p >= normal => ~(p < normal)  BY <1>1
    <3>2. QED  BY <3>1 DEF Renumbered
  <2>4. QED  BY <2>1, <2>2, <2>3
<1> HIDE DEF N, ck, pre, normal, post, unused
<1>3. /\ \A p \in pre .. normal - 1 : N(p).pass \in 0 .. normal - pre - 1 /\ N(p).stagger \in Int
      /\ \A p, q \in pre .. normal - 1 : N(p).pass = N(q).pass => p = q
  <2>1. CASE pre = normal  BY <2>1, <1>1
  <2>2. CASE pre < normal
    <3>1. PICK from \in Int, to \in Int, separations \in Nat :
             ck.premap = make_passmap(w, pre, pre, normal, from, to, -1, separations)
      BY <2>2, <1>1
    <3>2. pre \in Int /\ normal \in Int /\ -1 \in Int /\ pre <= normal  BY <1>1
    <3> DEFINE m == make_passmap(w, pre, pre, normal, from, to, -1, separations)
    <3>3. NumbersOf(m, pre, pre, normal)  BY <3>2, PassmapApart, Zenon
    <3>4. /\ \A p \in pre .. normal - 1 :
               m[p].pass \in pre - pre .. normal - pre - 1 /\ m[p].stagger \in Int
          /\ \A p, q \in pre .. normal - 1 : m[p].pass = m[q].pass => p = q
      BY <3>3, Zenon DEF NumbersOf
    <3>5. \A p \in pre .. normal - 1 : N(p) = m[p]  BY <3>1, <1>1, <1>2
    <3> HIDE DEF m
    <3>6. pre - pre = 0  BY <1>1
    <3>7. QED  BY <3>4, <3>5, <3>6
  <2>3. QED  BY <2>1, <2>2, <1>1
<1>4. /\ \A p \in post .. unused - 1 : p >= normal
            => N(p).pass \in post - pre .. unused - pre - 1 /\ N(p).stagger \in Int
      /\ \A p, q \in post .. unused - 1 :
            p >= normal /\ q >= normal /\ N(p).pass = N(q).pass => p = q
  <2>1. PICK from \in Int, to \in Int, maximal \in Int, separations \in Nat :
           ck.postmap = make_passmap(w, pre, post, unused, from, to, maximal, separations)
    BY <1>1
  <2>2. pre \in Int /\ post \in Int /\ unused \in Int /\ post <= unused  BY <1>1
  <2> DEFINE m == make_passmap(w, pre, post, unused, from, to, maximal, separations)
  <2>3. NumbersOf(m, pre, post, unused)  BY <2>2, PassmapApart, Zenon
  <2>4. /\ \A p \in post .. unused - 1 :
             m[p].pass \in post - pre .. unused - pre - 1 /\ m[p].stagger \in Int
        /\ \A p, q \in post .. unused - 1 : m[p].pass = m[q].pass => p = q
    BY <2>3, Zenon DEF NumbersOf
  <2>5. \A p \in post .. unused - 1 : p >= normal => N(p) = m[p]
    BY <2>1, <1>1, <1>2
  <2> HIDE DEF m
  <2>6. QED  BY <2>4, <2>5
<1>5. \A p \in Used : /\ N(p).pass \in Int /\ N(p).stagger \in Int
                      /\ p < normal => N(p).pass < normal - pre
                      /\ p >= normal /\ p < post => N(p).pass = p - pre
                      /\ p >= normal /\ p >= post => N(p).pass >= post - pre
  <2>1. TAKE p \in Used
  <2>2. CASE p < normal  BY <2>2, <1>1, <1>3
  <2>3. CASE p >= normal /\ p < post  BY <2>3, <1>1, <1>2
  <2>4. CASE p >= normal /\ p >= post  BY <2>4, <1>1, <1>4
  <2>5. QED  BY <2>2, <2>3, <2>4, <1>1
<1>6. ASSUME normal = pre \/ normal <= post, NEW p \in Used, NEW q \in Used,
             N(p).pass = N(q).pass
      PROVE  p = q
  <2>1. p \in Int /\ q \in Int /\ N(p).pass \in Int /\ N(q).pass \in Int
    BY <1>1, <1>5
  <2>2. CASE p < normal
    <3>1. normal <= post  BY <2>2, <1>1, <1>6
    <3>2. q < normal  BY <2>1, <2>2, <3>1, <1>1, <1>5, <1>6
    <3>3. QED  BY <3>2, <2>2, <1>1, <1>3, <1>6
  <2>3. CASE p >= normal /\ p >= post
    <3>1. q >= normal  BY <2>1, <2>3, <1>1, <1>5, <1>6
    <3>2. q >= post  BY <2>1, <2>3, <3>1, <1>1, <1>5, <1>6
    <3>3. QED  BY <3>1, <3>2, <2>3, <1>1, <1>4, <1>6
  <2>4. CASE p >= normal /\ p < post
    <3>1. q >= normal  BY <2>1, <2>4, <1>1, <1>5, <1>6
    <3>2. q < post  BY <2>1, <2>4, <3>1, <1>1, <1>5, <1>6
    <3>3. QED  BY <3>1, <3>2, <2>1, <2>4, <1>1, <1>5, <1>6
  <2>5. QED  BY <2>1, <2>2, <2>3, <2>4, <1>1
<1>7. Apart(ck) => normal = pre \/ normal <= post  BY DEF Apart, normal, pre, post
<1>8. /\ \A p \in Used : N(p).pass \in Int /\ N(p).stagger \in Int
      /\ Apart(ck) => \A p, q \in Used : N(p).pass = N(q).pass => p = q
  BY <1>5, <1>6, <1>7, Zenon
<1>9. QED  BY <1>8 DEF Used, N, ck, pre, unused

-----------------------------------------------------------------------------
(* What stp_initialize_weave computes of a job.                            *)

\* The largest head offset is a natural, and no other is larger.
LEMMA LargestOffset ==
    ASSUME NEW f \in Seq(Nat), f # <<>>
    PROVE  Max(Range(f)) \in Nat /\ \A k \in DOMAIN f : f[k] <= Max(Range(f))
<1>1. PICK N \in Nat \ {0} :
         N = Len(f) /\ DOMAIN f = 1 .. N /\ \A k \in 1 .. N : f[k] \in Nat
  OBVIOUS
<1> DEFINE Greatest(n, i) == i \in 1 .. n /\ \A k \in 1 .. n : f[k] <= f[i]
           T == {n \in 1 .. N : ~ \E i \in 1 .. n : Greatest(n, i)}
<1>2. T = {}
  <2>1. SUFFICES ASSUME T # {} PROVE FALSE  OBVIOUS
  <2>2. PICK n \in T : \A y \in T : n <= y
    <3>1. T \in SUBSET Nat  OBVIOUS
    <3> HIDE DEF T
    <3>2. QED  BY <2>1, <3>1, LeastNat
  <2>3. n \in 1 .. N /\ n \in Nat /\ ~ \E i \in 1 .. n : Greatest(n, i)  BY <2>2
  <2>4. \A k \in 1 .. n : f[k] \in Nat  BY <1>1, <2>3
  <2>5. n # 1
    <3>1. n = 1 => Greatest(1, 1)  BY <2>4
    <3>2. QED  BY <3>1, <2>3
  <2>6. n - 1 \in 1 .. N /\ ~(n <= n - 1)  BY <2>3, <2>5
  <2>7. n - 1 \notin T
    <3> HIDE DEF T
    <3>1. QED  BY <2>2, <2>6
  <2>8. PICK i \in 1 .. n - 1 : Greatest(n - 1, i)
    <3> HIDE DEF Greatest
    <3>1. QED  BY <2>6, <2>7
  <2>9. i \in 1 .. n /\ \A k \in 1 .. n : k = n \/ k \in 1 .. n - 1  BY <2>3, <2>8
  <2>a. n \in 1 .. n /\ i \in 1 .. n  BY <2>3, <2>9
  <2>10. CASE f[n] <= f[i]
    <3>1. Greatest(n, i)  BY <2>8, <2>9, <2>10, Zenon
    <3>2. QED  BY <3>1, <2>3, <2>9
  <2>11. CASE f[n] > f[i]
    <3>1. \A k \in 1 .. n : f[k] <= f[n]
      <4>1. TAKE k \in 1 .. n
      <4>0. f[k] \in Nat /\ f[n] \in Nat /\ f[i] \in Nat  BY <2>4, <2>a, Zenon
      <4>2. k # n => f[k] <= f[i]  BY <2>8, <2>9
      <4>3. k = n \/ f[k] <= f[i]  BY <4>2
      <4> HIDE DEF Greatest, T
      <4>4. PICK x, y, z \in Nat : x = f[k] /\ y = f[n] /\ z = f[i]  BY <4>0, Zenon
      <4>5. y > z /\ (k = n \/ x <= z)  BY <4>3, <4>4, <2>11, Zenon
      <4>6. k = n => x = y  BY <4>4
      <4>7. x <= y  BY <4>5, <4>6
      <4>8. QED  BY <4>4, <4>7, Zenon
    <3>2. Greatest(n, n)  BY <3>1, <2>3
    <3>3. QED  BY <3>2, <2>3
  <2>12. f[n] <= f[i] \/ f[n] > f[i]
    <3>1. f[n] \in Nat /\ f[i] \in Nat  BY <2>4, <2>a
    <3>2. \A x, y \in Nat : x <= y \/ x > y  OBVIOUS
    <3>3. QED  BY <3>1, <3>2, Zenon
  <2>13. QED  BY <2>10, <2>11, <2>12
<1>3. PICK i \in 1 .. N : \A k \in 1 .. N : f[k] <= f[i]
  <2>1. N \in 1 .. N  OBVIOUS
  <2> HIDE DEF T
  <2>2. N \notin T  BY <1>2
  <2> USE DEF T
  <2>3. QED  BY <2>1, <2>2
<1>4. Range(f) = {f[k] : k \in 1 .. N}  BY <1>1 DEF Range
<1>5. \E x \in Range(f) : \A y \in Range(f) : x >= y
  <2>1. f[i] \in Range(f)  BY <1>4
  <2>2. \A y \in Range(f) : f[i] >= y  BY <1>1, <1>3, <1>4
  <2>3. QED  BY <2>1, <2>2
<1>6. Max(Range(f)) \in Range(f) /\ \A y \in Range(f) : Max(Range(f)) >= y
  BY <1>5, Zenon DEF Max
<1>7. PICK m \in Range(f) : m = Max(Range(f))  BY <1>6
<1>8. m \in Nat /\ \A k \in 1 .. N : m >= f[k]  BY <1>1, <1>4, <1>6, <1>7
<1>9. m \in Nat /\ \A k \in 1 .. N : f[k] <= m  BY <1>1, <1>8
<1>10. QED  BY <1>1, <1>7, <1>9

\* The passes and jets that the rows first .. last get are distinct.
JetsOnce(ck, first, last, over) ==
    \A r1 \in first .. last, s1 \in 0 .. over - 1, r2 \in first .. last, s2 \in 0 .. over - 1 :
        LET p1 == stpi_calculate_row_parameters(ck, r1, s1)
            p2 == stpi_calculate_row_parameters(ck, r2, s2)
        IN  p1.pass = p2.pass /\ p1.jet = p2.jet => r1 = r2 /\ s1 = s2

\* When the ends of the page are apart, two rows or two subpasses of one never
\* meet in a jet of a pass, moved or not.
LEMMA JetsDiffer ==
    ASSUME NEW w, NEW sep, NEW jets, NEW over, Heads(w, sep, jets, over),
           NEW page \in Nat, NEW first \in Nat, NEW last \in Nat, first <= last,
           Apart(calculate_pass_map(w, page, first, last))
    PROVE  JetsOnce(calculate_pass_map(w, page, first, last), first, last, over)
<1> SUFFICES ASSUME NEW r1 \in first .. last, NEW s1 \in 0 .. over - 1,
                    NEW r2 \in first .. last, NEW s2 \in 0 .. over - 1,
                    LET ck == calculate_pass_map(w, page, first, last)
                        p1 == stpi_calculate_row_parameters(ck, r1, s1)
                        p2 == stpi_calculate_row_parameters(ck, r2, s2)
                    IN  p1.pass = p2.pass /\ p1.jet = p2.jet
             PROVE  r1 = r2 /\ s1 = s2
  BY Zenon DEF JetsOnce
<1>0. /\ sep \in Nat \ {0} /\ jets \in Nat \ {0} /\ over \in Nat \ {0}
  BY DEF Heads
<1>1. w.separation = sep /\ w.jets = jets  BY RawFacts
<1>2. PICK span \in Nat : span = sep * jets  BY <1>0
<1> DEFINE ck == calculate_pass_map(w, page, first, last)
           raw(r, s) == calculate_raw_row_parameters(w, r + span, s)
           Used == ck.first_premapped_pass .. ck.first_unused_pass - 1
<1>3. ck.rw = w /\ Span(w) = span
      /\ ck.first_premapped_pass \in Nat /\ ck.first_unused_pass \in Nat
  <2>1. IsPageMap(w, sep, jets, first, last, ck)  BY PageMap, Zenon
  <2> HIDE DEF ck
  <2>2. QED  BY <2>1, <1>1, <1>2 DEF IsPageMap, Span
<1>4. \A r \in first .. last, s \in 0 .. over - 1 :
         IsRawPassOf(w, sep, jets, r + span, s, raw(r, s)) /\ raw(r, s).pass \in Used
  <2>1. TAKE r \in first .. last, s \in 0 .. over - 1
  <2>2. r + span \in Nat /\ r + span >= sep * jets  BY <1>2
  <2>3. IsRawPassOf(w, sep, jets, r + span, s, raw(r, s))  BY <2>2, RawLookup, Zenon
  <2>4. RowAsserts(ck, r, s)  BY RowsHavePasses, Zenon
  <2>5. raw(r, s).pass \in Int  BY <2>3 DEF IsRawPassOf
  <2> HIDE DEF ck
  <2>6. QED  BY <2>3, <2>4, <2>5, <1>3 DEF RowAsserts
<1>5. /\ \A p \in Used : /\ Renumbered(ck, p).pass \in Int
                         /\ Renumbered(ck, p).stagger \in Int
      /\ \A p, q \in Used : Renumbered(ck, p).pass = Renumbered(ck, q).pass => p = q
  BY NumbersDiffer
<1>6. /\ stpi_calculate_row_parameters(ck, r1, s1).pass = stpi_calculate_row_parameters(ck, r2, s2).pass
      /\ stpi_calculate_row_parameters(ck, r1, s1).jet = stpi_calculate_row_parameters(ck, r2, s2).jet
  OBVIOUS
<1> HIDE DEF ck
<1>7. \A r, s :
         /\ stpi_calculate_row_parameters(ck, r, s).pass = Renumbered(ck, raw(r, s).pass).pass
         /\ stpi_calculate_row_parameters(ck, r, s).jet
              = raw(r, s).jet - Renumbered(ck, raw(r, s).pass).stagger
  BY <1>3 DEF stpi_calculate_row_parameters, CookedRow, Cooked
<1> HIDE DEF raw, Used
<1>8. raw(r1, s1).pass \in Used /\ raw(r2, s2).pass \in Used  BY <1>4
<1>9. raw(r1, s1).pass = raw(r2, s2).pass  BY <1>5, <1>6, <1>7, <1>8
<1>10. raw(r1, s1).jet = raw(r2, s2).jet
  <2>1. raw(r1, s1).jet \in Int /\ raw(r2, s2).jet \in Int
    <3>1. raw(r1, s1).jet \in 0 .. jets - 1 /\ raw(r2, s2).jet \in 0 .. jets - 1
      BY <1>4, Zenon DEF IsRawPassOf
    <3>2. QED  BY <3>1, <1>0
  <2>2. Renumbered(ck, raw(r1, s1).pass).stagger \in Int  BY <1>5, <1>8
  <2>3. raw(r1, s1).jet - Renumbered(ck, raw(r1, s1).pass).stagger
          = raw(r2, s2).jet - Renumbered(ck, raw(r1, s1).pass).stagger
    BY <1>6, <1>7, <1>9
  <2>4. QED  BY <2>1, <2>2, <2>3
<1>11. raw(r1, s1).startrow = raw(r2, s2).startrow /\ s1 = s2
  <2>1. [startrow |-> raw(r1, s1).startrow, subpass |-> s1]
          = [startrow |-> raw(r2, s2).startrow, subpass |-> s2]
    <3>1. calculate_raw_pass_parameters(w, raw(r1, s1).pass)
            = [startrow |-> raw(r1, s1).startrow, subpass |-> s1]
      BY <1>4 DEF IsRawPassOf
    <3>2. calculate_raw_pass_parameters(w, raw(r2, s2).pass)
            = [startrow |-> raw(r2, s2).startrow, subpass |-> s2]
      BY <1>4 DEF IsRawPassOf
    <3>3. QED  BY <3>1, <3>2, <1>9
  <2>2. QED  BY <2>1
<1>12. PICK y \in Int : y = raw(r1, s1).jet * sep
  <2>1. raw(r1, s1).jet \in Int
    <3>1. raw(r1, s1).jet \in 0 .. jets - 1 /\ raw(r2, s2).jet \in 0 .. jets - 1
      BY <1>4, Zenon DEF IsRawPassOf
    <3>2. QED  BY <3>1, <1>0
  <2>2. raw(r1, s1).jet * sep \in Int  BY <2>1, <1>0
  <2>3. QED  BY <2>2
<1>13. (r1 + span) - y = (r2 + span) - y
  <2>1. raw(r1, s1).startrow = (r1 + span) - raw(r1, s1).jet * sep  BY <1>4, Zenon DEF IsRawPassOf
  <2>2. raw(r2, s2).startrow = (r2 + span) - raw(r2, s2).jet * sep  BY <1>4, Zenon DEF IsRawPassOf
  <2>3. QED  BY <2>1, <2>2, <1>10, <1>11, <1>12
<1>14. QED  BY <1>11, <1>13

\* The passes over a row, the last row of any colour, the weave of the head and
\* the pass map of the page.
OversampleOf(j) == j.osample * j.v_subpasses * j.v_subsample
LastLine(j) == j.first_line + j.line_count - 1 + Max(Range(j.head_offset))
HeadOf(j) == initialize_raw_weave(j.sep, j.jets, OversampleOf(j), j.strategy)
PageOf(j) == calculate_pass_map(HeadOf(j), j.page_height, j.first_line, LastLine(j))

\* No pass is moved at the top of the page, or the ones moved there are numbered
\* before those moved at its bottom.  calculate_pass_map does not see to it (the
\* FIXME of print-weave.c), and on a page of less than about two heads on which
\* it fails two rows may share a jet.
EndsApart(j) == Apart(PageOf(j))

\* A job of JobsAssumption has a head and a page that the lemmas above are about.
LEMMA JobHead ==
    ASSUME NEW j \in Jobs, j.strategy # "ascending_3x"
    PROVE  /\ Heads(HeadOf(j), j.sep, j.jets, OversampleOf(j))
           /\ j.page_height \in Nat /\ j.first_line \in Nat /\ LastLine(j) \in Nat
           /\ j.first_line <= LastLine(j)
<1>1. /\ j.jets \in Nat \ {0} /\ j.sep \in Nat \ {0} /\ j.osample \in Nat \ {0}
      /\ j.v_subpasses \in Nat \ {0} /\ j.v_subsample \in Nat \ {0}
      /\ OversampleOf(j) <= j.jets
      /\ j.head_offset \in Seq(Nat) /\ j.head_offset # <<>>
      /\ j.line_count \in Nat \ {0} /\ j.first_line \in Nat
      /\ j.page_height \in Nat /\ j.strategy \in Strategies
  BY JobsAssumption DEF OversampleOf
<1>2. OversampleOf(j) \in Nat \ {0}
  <2>1. \A x, y \in Nat \ {0} : x * y \in Nat \ {0}  OBVIOUS
  <2>2. (j.osample * j.v_subpasses) * j.v_subsample \in Nat \ {0}  BY <1>1, <2>1, Zenon
  <2>3. QED  BY <2>2 DEF OversampleOf
<1>3. PICK m \in Nat : m = Max(Range(j.head_offset))  BY <1>1, LargestOffset
<1>4. LastLine(j) \in Nat /\ j.first_line <= LastLine(j)
  <2>1. PICK u \in Nat, v \in Nat \ {0} : u = j.first_line /\ v = j.line_count  BY <1>1
  <2>2. LastLine(j) = u + v - 1 + m  BY <2>1, <1>3 DEF LastLine
  <2>3. QED  BY <2>1, <2>2
<1>5. Heads(HeadOf(j), j.sep, j.jets, OversampleOf(j))  BY <1>1, <1>2 DEF Heads, HeadOf
<1>6. QED  BY <1>1, <1>4, <1>5

\* The fields of stp_initialize_weave that the properties read.
LEMMA OfTheJob ==
    ASSUME NEW j \in Jobs
    PROVE  LET s == stp_initialize_weave(j)
           IN  /\ s.oversample = OversampleOf(j) /\ s.weaveparm = PageOf(j)
               /\ s.by_row = [row \in j.first_line .. LastLine(j) |->
                                 [i \in 0 .. OversampleOf(j) - 1 |->
                                     stpi_calculate_row_parameters(PageOf(j), row, i)]]
  BY DEF stp_initialize_weave, OversampleOf, PageOf, HeadOf, LastLine

\* The weave is the one that the job asks for.
SwOfTheJob == job \in Jobs /\ sw = stp_initialize_weave(job)

\* Neither stp_write_weave nor stp_flush_all changes the weave of the page.
LEMMA PageIsConstant == Spec => []SwOfTheJob
<1>1. Init => SwOfTheJob  BY DEF Init, SwOfTheJob
<1>2. SwOfTheJob /\ [Next]_vars => SwOfTheJob'
  BY Zenon DEF SwOfTheJob, Next, vars, stp_write_weave, stp_flush_all
<1>3. QED  BY <1>1, <1>2, PTL DEF Spec

\* The two lookups of the weave of a job are inverse.
LEMMA InverseOf ==
    ASSUME SwOfTheJob, job.strategy # "ascending_3x"
    PROVE  LookupsInverse
<1>1. job \in Jobs /\ job.strategy # "ascending_3x" /\ sw = stp_initialize_weave(job)
  BY DEF SwOfTheJob
<1> DEFINE w == HeadOf(job)
           first == job.first_line
           last == LastLine(job)
           over == OversampleOf(job)
<1>2. /\ Heads(w, job.sep, job.jets, over) /\ job.page_height \in Nat
      /\ first \in Nat /\ last \in Nat /\ first <= last
  BY <1>1, JobHead
<1>3. /\ sw.oversample = over /\ sw.weaveparm = PageOf(job)
      /\ DOMAIN sw.by_row = first .. last
  BY <1>1, OfTheJob, Zenon
<1> HIDE DEF w, first, last, over
<1>4. PageOf(job) = calculate_pass_map(w, job.page_height, first, last)
  BY DEF PageOf, w, first, last
<1>5. sw.weaveparm.rw = w /\ Span(w) = job.sep * job.jets
  <2>1. IsPageMap(w, job.sep, job.jets, first, last, PageOf(job))
    BY <1>2, <1>4, PageMap, Zenon
  <2>2. w.separation = job.sep /\ w.jets = job.jets  BY <1>2, RawFacts
  <2>3. QED  BY <2>1, <2>2, <1>3 DEF IsPageMap, Span
<1>6. ASSUME NEW row \in first .. last, NEW s \in 0 .. over - 1
      PROVE  LET raw == calculate_raw_row_parameters(w, row + Span(w), s)
             IN  /\ calculate_raw_pass_parameters(w, raw.pass)
                      = [startrow |-> raw.startrow, subpass |-> s]
                 /\ RowAsserts(PageOf(job), row, s)
  <2> DEFINE raw == calculate_raw_row_parameters(w, row + Span(w), s)
  <2>1. RowAsserts(PageOf(job), row, s)  BY <1>2, <1>4, RowsHavePasses, Zenon
  <2>2. row + Span(w) \in Nat /\ row + Span(w) >= job.sep * job.jets
    <3>1. Span(w) \in Nat  BY <1>2, <1>5 DEF Heads
    <3>2. QED  BY <3>1, <1>2, <1>5
  <2>3. IsRawPassOf(w, job.sep, job.jets, row + Span(w), s, raw)
    BY <2>2, <1>2, RawLookup, Zenon
  <2> HIDE DEF raw
  <2>4. calculate_raw_pass_parameters(w, raw.pass) = [startrow |-> raw.startrow, subpass |-> s]
    BY <2>3, Zenon DEF IsRawPassOf
  <2>5. QED  BY <2>1, <2>4 DEF raw
<1>7. QED  BY <1>3, <1>5, <1>6 DEF LookupsInverse, Subpasses

\* No jet of the weave of a job is used twice.
LEMMA NotShared ==
    ASSUME SwOfTheJob, job.strategy # "ascending_3x", EndsApart(job)
    PROVE  JetsNotShared
<1>1. /\ job \in Jobs /\ job.strategy # "ascending_3x" /\ EndsApart(job)
      /\ sw = stp_initialize_weave(job)
  BY DEF SwOfTheJob
<1> DEFINE w == HeadOf(job)
           first == job.first_line
           last == LastLine(job)
           over == OversampleOf(job)
           C(r, s) == stpi_calculate_row_parameters(PageOf(job), r, s)
           S == (first .. last) \X (0 .. over - 1)
           f == [x \in S |-> <<C(x[1], x[2]).pass, C(x[1], x[2]).jet>>]
           T == {f[x] : x \in S}
<1>2. /\ Heads(w, job.sep, job.jets, over) /\ job.page_height \in Nat
      /\ first \in Nat /\ last \in Nat /\ first <= last
  BY <1>1, JobHead
<1>3. /\ sw.oversample = over
      /\ sw.by_row = [row \in first .. last |-> [i \in 0 .. over - 1 |-> C(row, i)]]
  BY <1>1, OfTheJob
<1>4. over \in Nat /\ first \in Int /\ last \in Int  BY <1>2 DEF Heads
<1>5. IsFiniteSet(S)
  <2>1. IsFiniteSet(first .. last) /\ IsFiniteSet(0 .. over - 1)
    <3> HIDE DEF first, last, over
    <3>1. 0 \in Int /\ over - 1 \in Int  BY <1>4
    <3>2. QED  BY <1>4, <3>1, FS_Interval
  <2> HIDE DEF first, last, over
  <2>2. QED  BY <2>1, FS_Product, Zenon
<1>6. PageOf(job) = calculate_pass_map(w, job.page_height, first, last)
  BY DEF PageOf
<1>7. Apart(calculate_pass_map(w, job.page_height, first, last))
  BY <1>1, <1>6 DEF EndsApart
<1> HIDE DEF w, first, last, over
<1>8. \A r1 \in first .. last, s1 \in 0 .. over - 1, r2 \in first .. last, s2 \in 0 .. over - 1 :
         C(r1, s1).pass = C(r2, s2).pass /\ C(r1, s1).jet = C(r2, s2).jet => r1 = r2 /\ s1 = s2
  <2>1. JetsOnce(PageOf(job), first, last, over)  BY <1>2, <1>6, <1>7, JetsDiffer, Zenon
  <2>2. QED  BY <2>1 DEF JetsOnce
<1> HIDE DEF C
<1>9. f \in Bijection(S, T)
  <2>1. \A x, y \in S : f[x] = f[y] => x = y
    <3>1. TAKE x, y \in S
    <3>2. HAVE f[x] = f[y]
    <3>3. PICK r1 \in first .. last, s1 \in 0 .. over - 1 : x = <<r1, s1>>  OBVIOUS
    <3>4. PICK r2 \in first .. last, s2 \in 0 .. over - 1 : y = <<r2, s2>>  OBVIOUS
    <3>5. C(r1, s1).pass = C(r2, s2).pass /\ C(r1, s1).jet = C(r2, s2).jet
      BY <3>2, <3>3, <3>4
    <3>6. QED  BY <1>8, <3>3, <3>4, <3>5
  <2>2. f \in [S -> T]  OBVIOUS
  <2> HIDE DEF f, S
  <2>3. QED  BY <2>1, <2>2 DEF Bijection, Injection, Surjection, IsInjective
<1>10. Cardinality(T) = Cardinality(S)
  <2> HIDE DEF f, T, S
  <2>1. QED  BY <1>5, <1>9, FS_Bijection DEF ExistsBijection
<1>11. T = {<<sw.by_row[x[1]][x[2]].pass, sw.by_row[x[1]][x[2]].jet>> : x \in S}
  <2>1. \A x \in S : sw.by_row[x[1]][x[2]] = C(x[1], x[2])  BY <1>3
  <2>2. T = {<<C(x[1], x[2]).pass, C(x[1], x[2]).jet>> : x \in S}  OBVIOUS
  <2> HIDE DEF T, S
  <2>3. QED  BY <2>1, <2>2
<1>12. DOMAIN sw.by_row = first .. last /\ Subpasses = 0 .. over - 1  BY <1>3 DEF Subpasses
<1> HIDE DEF T
<1>13. QED  BY <1>10, <1>11, <1>12 DEF JetsNotShared, S

-----------------------------------------------------------------------------
(* FoldLeft: the loops over the subpasses, colours and passes of a row.    *)
(*                                                                         *)
(* FoldLeft(op, base, seq) is iter[DOMAIN seq], where iter is a recursion  *)
(* over the sets of indices, from the largest index down.  It is a value   *)
(* only when the recursion has a solution (FoldExists).  Then the turns of *)
(* the loop are iter[1 .. k], and what every turn keeps the loop keeps.    *)

\* The largest of some indices, and of the first k.
LEMMA LargestIndex ==
    ASSUME NEW n \in Nat
    PROVE  /\ \A s \in SUBSET (1 .. n) : s # {} => Max(s) \in s /\ \A y \in s : y <= Max(s)
           /\ \A k \in 1 .. n : /\ Max(1 .. k) = k /\ (1 .. k) \ {k} = 1 .. k - 1
                               /\ 1 .. k \in SUBSET (1 .. n) /\ 1 .. k # {}
<1>1. ASSUME NEW s \in SUBSET (1 .. n), s # {}
      PROVE  Max(s) \in s /\ \A y \in s : y <= Max(s)
  <2> DEFINE T == {d \in Nat : \E x \in s : x = n - d}
  <2>1. T # {}
    <3>1. PICK x \in s : TRUE  BY <1>1
    <3>2. x \in 1 .. n  BY <1>1
    <3>3. n - x \in Nat /\ x = n - (n - x)  BY <3>2
    <3>4. QED  BY <3>1, <3>3
  <2>2. PICK d \in T : \A e \in T : d <= e
    <3>1. T \in SUBSET Nat  OBVIOUS
    <3> HIDE DEF T
    <3>2. QED  BY <2>1, <3>1, LeastNat
  <2>3. n - d \in s  BY <2>2
  <2>4. ASSUME NEW y \in s PROVE y <= n - d
    <3>1. y \in 1 .. n  OBVIOUS
    <3>2. n - y \in Nat /\ y = n - (n - y)  BY <3>1
    <3>3. n - y \in T  BY <3>2
    <3>4. d <= n - y /\ d \in Nat  BY <3>3, <2>2
    <3>5. QED  BY <3>1, <3>4
  <2>5. \E x \in s : \A y \in s : x >= y
    <3>1. \A y \in s : y \in Int /\ n - d \in Int /\ y <= n - d  BY <1>1, <2>2, <2>4
    <3>2. \A y \in s : n - d >= y  BY <3>1
    <3>3. QED  BY <2>3, <3>2, Zenon
  <2>6. Max(s) \in s /\ \A y \in s : Max(s) >= y  BY <2>5, Zenon DEF Max
  <2>7. PICK x \in s : x = Max(s)  BY <2>6
  <2>8. \A y \in s : y <= x
    <3>1. \A y \in s : y \in Int /\ x \in Int /\ x >= y  BY <1>1, <2>6, <2>7
    <3>2. QED  BY <3>1
  <2>9. QED  BY <2>7, <2>8
<1>2. ASSUME NEW k \in 1 .. n
      PROVE  /\ Max(1 .. k) = k /\ (1 .. k) \ {k} = 1 .. k - 1
             /\ 1 .. k \in SUBSET (1 .. n) /\ 1 .. k # {}
  <2>1. 1 .. k \in SUBSET (1 .. n) /\ 1 .. k # {} /\ k \in 1 .. k  OBVIOUS
  <2>2. Max(1 .. k) \in 1 .. k /\ k <= Max(1 .. k)  BY <1>1, <2>1, Zenon
  <2>3. Max(1 .. k) = k  BY <2>2
  <2>4. QED  BY <2>3
<1>3. QED  BY <1>1, <1>2

\* g holds the values of a fold of F over n indices, which are in A.
IsFold(g, A, n, F, base) ==
    /\ g \in [SUBSET (1 .. n) -> A]
    /\ \A s \in SUBSET (1 .. n) :
          g[s] = IF s = {} THEN base ELSE F[<<Max(s), g[s \ {Max(s)}]>>]

\* The recursion of a fold has a solution when every turn stays within A.
LEMMA FoldExists ==
    ASSUME NEW A, NEW n \in Nat, NEW F \in [(1 .. n) \X A -> A], NEW base \in A
    PROVE  \E g : IsFold(g, A, n, F, base)
<1> DEFINE Solves(g, m) == IsFold(g, A, m, F, base)
           T == {m \in 0 .. n : ~ \E g : Solves(g, m)}
<1>1. T = {}
  <2>1. SUFFICES ASSUME T # {} PROVE FALSE  OBVIOUS
  <2>2. PICK m \in T : \A y \in T : m <= y
    <3>1. T \in SUBSET Nat  OBVIOUS
    <3> HIDE DEF T
    <3>2. QED  BY <2>1, <3>1, LeastNat
  <2>3. m \in 0 .. n /\ ~ \E g : Solves(g, m)  BY <2>2
  <2>4. m # 0
    <3> DEFINE g == [s \in SUBSET (1 .. 0) |-> base]
    <3>1. SUBSET (1 .. 0) = {{}}  OBVIOUS
    <3>2. Solves(g, 0)  BY <3>1 DEF IsFold
    <3> HIDE DEF Solves, g
    <3>3. QED  BY <3>2, <2>3, Zenon
  <2>5. m - 1 \in 0 .. n /\ ~(m <= m - 1)  BY <2>3, <2>4
  <2>6. m - 1 \notin T
    <3> HIDE DEF T
    <3>1. QED  BY <2>2, <2>5
  <2>7. PICK f : Solves(f, m - 1)
    <3> HIDE DEF Solves
    <3>1. QED  BY <2>5, <2>6
  <2>8. f \in [SUBSET (1 .. m - 1) -> A]  BY <2>7 DEF IsFold
  <2> DEFINE g == [s \in SUBSET (1 .. m) |->
                     IF m \in s THEN F[<<m, f[s \ {m}]>>] ELSE f[s]]
  <2>9. ASSUME NEW s \in SUBSET (1 .. m)
        PROVE  g[s] \in A /\ g[s] = IF s = {} THEN base ELSE F[<<Max(s), g[s \ {Max(s)}]>>]
    <3>1. CASE m \in s
      <4>1. s \ {m} \in SUBSET (1 .. m - 1) /\ s \ {m} \in SUBSET (1 .. m) /\ m \notin s \ {m}
        BY <2>3
      <4>2. Max(s) = m
        <5>1. m \in Nat /\ s # {}  BY <2>3, <3>1
        <5>2. Max(s) \in s /\ m <= Max(s)  BY <3>1, <5>1, LargestIndex, Zenon
        <5>3. Max(s) \in 1 .. m  BY <5>2
        <5> DEFINE y == Max(s)
        <5> HIDE DEF y
        <5>4. y \in 1 .. m /\ m <= y /\ m \in Nat  BY <5>1, <5>2, <5>3 DEF y
        <5>5. y = m  BY <5>4
        <5>6. QED  BY <5>5 DEF y
      <4>3. f[s \ {m}] \in A /\ m \in 1 .. n  BY <4>1, <2>8, <2>3, <2>4
      <4>4. g[s] = F[<<m, f[s \ {m}]>>] /\ g[s \ {m}] = f[s \ {m}]  BY <4>1, <3>1
      <4>5. F[<<m, f[s \ {m}]>>] \in A  BY <4>3
      <4> HIDE DEF g
      <4>6. QED  BY <4>2, <4>4, <4>5, <3>1
    <3>2. CASE m \notin s
      <4>1. s \in SUBSET (1 .. m - 1)  BY <3>2, <2>3
      <4>2. g[s] = f[s] /\ f[s] \in A  BY <4>1, <3>2, <2>8
      <4>3. f[s] = IF s = {} THEN base ELSE F[<<Max(s), f[s \ {Max(s)}]>>]
        BY <4>1, <2>7 DEF IsFold
      <4>4. s \ {Max(s)} \in SUBSET (1 .. m) /\ m \notin s \ {Max(s)}  BY <3>2
      <4>5. g[s \ {Max(s)}] = f[s \ {Max(s)}]  BY <4>4
      <4> HIDE DEF g
      <4>6. QED  BY <4>2, <4>3, <4>5
    <3>3. QED  BY <3>1, <3>2
  <2>10. Solves(g, m)
    <3>1. g \in [SUBSET (1 .. m) -> A]
      <4>1. \A s \in SUBSET (1 .. m) : g[s] \in A  BY <2>9
      <4>2. g = [s \in SUBSET (1 .. m) |-> g[s]]  OBVIOUS
      <4> HIDE DEF g
      <4>3. QED  BY <4>1, <4>2
    <3> HIDE DEF g
    <3>2. QED  BY <3>1, <2>9 DEF IsFold
  <2> HIDE DEF Solves, g
  <2>11. QED  BY <2>3, <2>10, Zenon
<1>2. n \notin T /\ n \in 0 .. n
  <2>1. n \in 0 .. n  OBVIOUS
  <2> HIDE DEF T
  <2>2. QED  BY <1>1, <2>1
<1>3. PICK g : Solves(g, n)
  <2> HIDE DEF Solves
  <2>1. QED  BY <1>2
<1>4. QED  BY <1>3

\* What the first turns have, the last one has.
LEMMA FoldSteps ==
    ASSUME NEW n \in Nat, NEW g, NEW B, g[1 .. 0] \in B[0],
           \A k \in 1 .. n : g[1 .. k - 1] \in B[k - 1] => g[1 .. k] \in B[k]
    PROVE  g[1 .. n] \in B[n]
<1> DEFINE T == {k \in 0 .. n : g[1 .. k] \notin B[k]}
<1>1. T = {}
  <2>1. SUFFICES ASSUME T # {} PROVE FALSE  OBVIOUS
  <2>2. PICK k \in T : \A y \in T : k <= y
    <3>1. T \in SUBSET Nat  OBVIOUS
    <3> HIDE DEF T
    <3>2. QED  BY <2>1, <3>1, LeastNat
  <2>3. k \in 0 .. n /\ g[1 .. k] \notin B[k]  BY <2>2
  <2>4. k # 0  BY <2>3
  <2>5. k - 1 \in 0 .. n /\ ~(k <= k - 1) /\ k \in 1 .. n  BY <2>3, <2>4
  <2>6. k - 1 \notin T
    <3> HIDE DEF T
    <3>1. QED  BY <2>2, <2>5
  <2>7. g[1 .. k - 1] \in B[k - 1]  BY <2>5, <2>6
  <2>8. QED  BY <2>3, <2>5, <2>7
<1>2. n \in 0 .. n  OBVIOUS
<1>3. QED  BY <1>1, <1>2

\* The turns of initialize_row.
LEMMA InitializeRowTurns ==
    ASSUME NEW A, NEW st \in A, NEW row, NEW n \in Nat, NEW q, q = SubpassColours, DOMAIN q = 1 .. n,
           \A k \in 1 .. n : \A a \in A : initialize_subpass(row, a, q[k][1], q[k][2]) \in A
    PROVE  initialize_row(row, st) \in A
<1> DEFINE F == [x \in (1 .. n) \X A |-> initialize_subpass(row, x[2], q[x[1]][1], q[x[1]][2])]
           Solves(g) == g = [s \in SUBSET DOMAIN q |->
                               IF s = {} THEN st ELSE initialize_subpass(row, g[s \ {Max(s)}], q[Max(s)][1], q[Max(s)][2])]
           iter == CHOOSE g : Solves(g)
<1>1. F \in [(1 .. n) \X A -> A] /\ \A k \in 1 .. n, a \in A : F[<<k, a>>] = initialize_subpass(row, a, q[k][1], q[k][2])
  OBVIOUS
<1>2. PICK h : IsFold(h, A, n, F, st)
  <2> HIDE DEF F
  <2>1. QED  BY <1>1, FoldExists, Zenon
<1>a. /\ h \in [SUBSET (1 .. n) -> A]
      /\ \A s \in SUBSET (1 .. n) :
            h[s] = IF s = {} THEN st ELSE F[<<Max(s), h[s \ {Max(s)}]>>]
  BY <1>2, Zenon DEF IsFold
<1>3. Solves(h)
  <2>1. ASSUME NEW s \in SUBSET (1 .. n)
        PROVE  h[s] = IF s = {} THEN st ELSE initialize_subpass(row, h[s \ {Max(s)}], q[Max(s)][1], q[Max(s)][2])
    <3> HIDE DEF F, Solves, iter
    <3>1. CASE s = {}  BY <3>1, <1>a
    <3>2. CASE s # {}
      <4>1. Max(s) \in 1 .. n  BY <3>2, LargestIndex
      <4>2. s \ {Max(s)} \in SUBSET (1 .. n)  OBVIOUS
      <4>3. h[s \ {Max(s)}] \in A  BY <4>2, <1>a
      <4>4. h[s] = F[<<Max(s), h[s \ {Max(s)}]>>]  BY <3>2, <1>a
      <4>5. h[s] = initialize_subpass(row, h[s \ {Max(s)}], q[Max(s)][1], q[Max(s)][2])  BY <4>1, <4>3, <4>4, <1>1, Zenon
      <4>6. QED  BY <3>2, <4>5
    <3>3. QED  BY <3>1, <3>2
  <2>2. h = [s \in SUBSET (1 .. n) |-> h[s]]  BY <1>a
  <2>3. QED  BY <2>1, <2>2, Zenon
<1>4. Solves(iter)
  <2> HIDE DEF Solves
  <2>1. QED  BY <1>3, Zenon
<1>5. initialize_row(row, st) = iter[DOMAIN q]
  BY Zenon DEF initialize_row, FoldLeft, MapThenFoldSet
<1>6. \A s \in SUBSET (1 .. n) :
         iter[s] = IF s = {} THEN st ELSE initialize_subpass(row, iter[s \ {Max(s)}], q[Max(s)][1], q[Max(s)][2])
  <2> HIDE DEF iter
  <2>1. QED  BY <1>4, Zenon
<1> HIDE DEF iter, Solves, F
<1>7. iter[1 .. 0] = st
  <2>1. 1 .. 0 = {} /\ 1 .. 0 \in SUBSET (1 .. n)  OBVIOUS
  <2>2. QED  BY <2>1, <1>6, Zenon
<1>8. ASSUME NEW k \in 1 .. n
      PROVE  iter[1 .. k] = initialize_subpass(row, iter[1 .. k - 1], q[k][1], q[k][2])
  <2>1. 1 .. k \in SUBSET (1 .. n) /\ 1 .. k # {}  BY LargestIndex, Zenon
  <2>2. Max(1 .. k) = k /\ (1 .. k) \ {k} = 1 .. k - 1  BY LargestIndex, Zenon
  <2>3. iter[1 .. k] = initialize_subpass(row, iter[(1 .. k) \ {Max(1 .. k)}], q[Max(1 .. k)][1], q[Max(1 .. k)][2])
    BY <2>1, <1>6, Zenon
  <2>4. QED  BY <2>2, <2>3, Zenon
<1>9. initialize_row(row, st) = iter[1 .. n]  BY <1>5, Zenon
<1> DEFINE B == [k \in 0 .. n |-> A]
<1>10. B[0] = A /\ B[n] = A /\ \A k \in 1 .. n : B[k - 1] = A /\ B[k] = A  OBVIOUS
<1> HIDE DEF B
<1>11. ASSUME NEW k \in 1 .. n, iter[1 .. k - 1] \in B[k - 1]
       PROVE  iter[1 .. k] \in B[k]
  <2>1. iter[1 .. k - 1] \in A  BY <1>10, <1>11
  <2>2. initialize_subpass(row, iter[1 .. k - 1], q[k][1], q[k][2]) \in A  BY <2>1, Zenon
  <2>3. QED  BY <2>2, <1>8, <1>10, Zenon
<1>12. iter[1 .. 0] \in B[0]  BY <1>7, <1>10
<1>13. iter[1 .. n] \in B[n]  BY <1>11, <1>12, FoldSteps, Zenon
<1>14. QED  BY <1>9, <1>10, <1>13, Zenon

\* The turns of the loop of stp_write_weave over the lines of a row.
LEMMA AddTurns ==
    ASSUME NEW A, NEW st \in A, NEW ink, NEW n \in Nat, NEW q, q = LinesOf(ink), DOMAIN q = 1 .. n,
           \A k \in 1 .. n : \A a \in A : add_to_row(a, q[k]) \in A,
           NEW B, st \in B[0],
           \A k \in 1 .. n : \A a \in B[k - 1] : add_to_row(a, q[k]) \in B[k]
    PROVE  FoldLeft(add_to_row, st, LinesOf(ink)) \in B[n]
<1> DEFINE F == [x \in (1 .. n) \X A |-> add_to_row(x[2], q[x[1]])]
           Solves(g) == g = [s \in SUBSET DOMAIN q |->
                               IF s = {} THEN st ELSE add_to_row(g[s \ {Max(s)}], q[Max(s)])]
           iter == CHOOSE g : Solves(g)
<1>1. F \in [(1 .. n) \X A -> A] /\ \A k \in 1 .. n, a \in A : F[<<k, a>>] = add_to_row(a, q[k])
  OBVIOUS
<1>2. PICK h : IsFold(h, A, n, F, st)
  <2> HIDE DEF F
  <2>1. QED  BY <1>1, FoldExists, Zenon
<1>a. /\ h \in [SUBSET (1 .. n) -> A]
      /\ \A s \in SUBSET (1 .. n) :
            h[s] = IF s = {} THEN st ELSE F[<<Max(s), h[s \ {Max(s)}]>>]
  BY <1>2, Zenon DEF IsFold
<1>3. Solves(h)
  <2>1. ASSUME NEW s \in SUBSET (1 .. n)
        PROVE  h[s] = IF s = {} THEN st ELSE add_to_row(h[s \ {Max(s)}], q[Max(s)])
    <3> HIDE DEF F, Solves, iter
    <3>1. CASE s = {}  BY <3>1, <1>a
    <3>2. CASE s # {}
      <4>1. Max(s) \in 1 .. n  BY <3>2, LargestIndex
      <4>2. s \ {Max(s)} \in SUBSET (1 .. n)  OBVIOUS
      <4>3. h[s \ {Max(s)}] \in A  BY <4>2, <1>a
      <4>4. h[s] = F[<<Max(s), h[s \ {Max(s)}]>>]  BY <3>2, <1>a
      <4>5. h[s] = add_to_row(h[s \ {Max(s)}], q[Max(s)])  BY <4>1, <4>3, <4>4, <1>1, Zenon
      <4>6. QED  BY <3>2, <4>5
    <3>3. QED  BY <3>1, <3>2
  <2>2. h = [s \in SUBSET (1 .. n) |-> h[s]]  BY <1>a
  <2>3. QED  BY <2>1, <2>2, Zenon
<1>4. Solves(iter)
  <2> HIDE DEF Solves
  <2>1. QED  BY <1>3, Zenon
<1>5. FoldLeft(add_to_row, st, LinesOf(ink)) = iter[DOMAIN q]
  BY Zenon DEF FoldLeft, MapThenFoldSet
<1>6. \A s \in SUBSET (1 .. n) :
         iter[s] = IF s = {} THEN st ELSE add_to_row(iter[s \ {Max(s)}], q[Max(s)])
  <2> HIDE DEF iter
  <2>1. QED  BY <1>4, Zenon
<1> HIDE DEF iter, Solves, F
<1>7. iter[1 .. 0] = st
  <2>1. 1 .. 0 = {} /\ 1 .. 0 \in SUBSET (1 .. n)  OBVIOUS
  <2>2. QED  BY <2>1, <1>6, Zenon
<1>8. ASSUME NEW k \in 1 .. n
      PROVE  iter[1 .. k] = add_to_row(iter[1 .. k - 1], q[k])
  <2>1. 1 .. k \in SUBSET (1 .. n) /\ 1 .. k # {}  BY LargestIndex, Zenon
  <2>2. Max(1 .. k) = k /\ (1 .. k) \ {k} = 1 .. k - 1  BY LargestIndex, Zenon
  <2>3. iter[1 .. k] = add_to_row(iter[(1 .. k) \ {Max(1 .. k)}], q[Max(1 .. k)])
    BY <2>1, <1>6, Zenon
  <2>4. QED  BY <2>2, <2>3, Zenon
<1>9. FoldLeft(add_to_row, st, LinesOf(ink)) = iter[1 .. n]  BY <1>5, Zenon
<1>10. iter[1 .. 0] \in B[0] /\ \A k \in 1 .. n : iter[1 .. k - 1] \in B[k - 1] => iter[1 .. k] \in B[k]
  BY <1>7, <1>8, Zenon
<1>11. iter[1 .. n] \in B[n]  BY <1>10, FoldSteps, Zenon
<1>12. QED  BY <1>9, <1>11, Zenon

\* The turns of CountLines.
LEMMA CountTurns ==
    ASSUME NEW A, NEW st \in A, NEW subpass, NEW n \in Nat, NEW q, q = [c \in Colours |-> c], DOMAIN q = 1 .. n,
           \A k \in 1 .. n : \A a \in A : CountLine(a, subpass, q[k]) \in A
    PROVE  CountLines(st, subpass) \in A
<1> DEFINE F == [x \in (1 .. n) \X A |-> CountLine(x[2], subpass, q[x[1]])]
           Solves(g) == g = [s \in SUBSET DOMAIN q |->
                               IF s = {} THEN st ELSE CountLine(g[s \ {Max(s)}], subpass, q[Max(s)])]
           iter == CHOOSE g : Solves(g)
<1>1. F \in [(1 .. n) \X A -> A] /\ \A k \in 1 .. n, a \in A : F[<<k, a>>] = CountLine(a, subpass, q[k])
  OBVIOUS
<1>2. PICK h : IsFold(h, A, n, F, st)
  <2> HIDE DEF F
  <2>1. QED  BY <1>1, FoldExists, Zenon
<1>a. /\ h \in [SUBSET (1 .. n) -> A]
      /\ \A s \in SUBSET (1 .. n) :
            h[s] = IF s = {} THEN st ELSE F[<<Max(s), h[s \ {Max(s)}]>>]
  BY <1>2, Zenon DEF IsFold
<1>3. Solves(h)
  <2>1. ASSUME NEW s \in SUBSET (1 .. n)
        PROVE  h[s] = IF s = {} THEN st ELSE CountLine(h[s \ {Max(s)}], subpass, q[Max(s)])
    <3> HIDE DEF F, Solves, iter
    <3>1. CASE s = {}  BY <3>1, <1>a
    <3>2. CASE s # {}
      <4>1. Max(s) \in 1 .. n  BY <3>2, LargestIndex
      <4>2. s \ {Max(s)} \in SUBSET (1 .. n)  OBVIOUS
      <4>3. h[s \ {Max(s)}] \in A  BY <4>2, <1>a
      <4>4. h[s] = F[<<Max(s), h[s \ {Max(s)}]>>]  BY <3>2, <1>a
      <4>5. h[s] = CountLine(h[s \ {Max(s)}], subpass, q[Max(s)])  BY <4>1, <4>3, <4>4, <1>1, Zenon
      <4>6. QED  BY <3>2, <4>5
    <3>3. QED  BY <3>1, <3>2
  <2>2. h = [s \in SUBSET (1 .. n) |-> h[s]]  BY <1>a
  <2>3. QED  BY <2>1, <2>2, Zenon
<1>4. Solves(iter)
  <2> HIDE DEF Solves
  <2>1. QED  BY <1>3, Zenon
<1>5. CountLines(st, subpass) = iter[DOMAIN q]
  BY Zenon DEF CountLines, FoldLeft, MapThenFoldSet
<1>6. \A s \in SUBSET (1 .. n) :
         iter[s] = IF s = {} THEN st ELSE CountLine(iter[s \ {Max(s)}], subpass, q[Max(s)])
  <2> HIDE DEF iter
  <2>1. QED  BY <1>4, Zenon
<1> HIDE DEF iter, Solves, F
<1>7. iter[1 .. 0] = st
  <2>1. 1 .. 0 = {} /\ 1 .. 0 \in SUBSET (1 .. n)  OBVIOUS
  <2>2. QED  BY <2>1, <1>6, Zenon
<1>8. ASSUME NEW k \in 1 .. n
      PROVE  iter[1 .. k] = CountLine(iter[1 .. k - 1], subpass, q[k])
  <2>1. 1 .. k \in SUBSET (1 .. n) /\ 1 .. k # {}  BY LargestIndex, Zenon
  <2>2. Max(1 .. k) = k /\ (1 .. k) \ {k} = 1 .. k - 1  BY LargestIndex, Zenon
  <2>3. iter[1 .. k] = CountLine(iter[(1 .. k) \ {Max(1 .. k)}], subpass, q[Max(1 .. k)])
    BY <2>1, <1>6, Zenon
  <2>4. QED  BY <2>2, <2>3, Zenon
<1>9. CountLines(st, subpass) = iter[1 .. n]  BY <1>5, Zenon
<1> DEFINE B == [k \in 0 .. n |-> A]
<1>10. B[0] = A /\ B[n] = A /\ \A k \in 1 .. n : B[k - 1] = A /\ B[k] = A  OBVIOUS
<1> HIDE DEF B
<1>11. ASSUME NEW k \in 1 .. n, iter[1 .. k - 1] \in B[k - 1]
       PROVE  iter[1 .. k] \in B[k]
  <2>1. iter[1 .. k - 1] \in A  BY <1>10, <1>11
  <2>2. CountLine(iter[1 .. k - 1], subpass, q[k]) \in A  BY <2>1, Zenon
  <2>3. QED  BY <2>2, <1>8, <1>10, Zenon
<1>12. iter[1 .. 0] \in B[0]  BY <1>7, <1>10
<1>13. iter[1 .. n] \in B[n]  BY <1>11, <1>12, FoldSteps, Zenon
<1>14. QED  BY <1>9, <1>10, <1>13, Zenon

\* The turns of stpi_flush_passes.
LEMMA FlushTurns ==
    ASSUME NEW A, NEW st \in A, NEW flushall, NEW n \in Nat, NEW q, q = [turn \in 1 .. Cardinality({s \in Slots : st.bank[s].pass.pass >= 0}) |-> turn], DOMAIN q = 1 .. n,
           \A k \in 1 .. n : \A a \in A : FlushNext(a, flushall) \in A
    PROVE  stpi_flush_passes(st, flushall) \in A
<1> DEFINE F == [x \in (1 .. n) \X A |-> FlushNext(x[2], flushall)]
           Solves(g) == g = [s \in SUBSET DOMAIN q |->
                               IF s = {} THEN st ELSE FlushNext(g[s \ {Max(s)}], flushall)]
           iter == CHOOSE g : Solves(g)
<1>1. F \in [(1 .. n) \X A -> A] /\ \A k \in 1 .. n, a \in A : F[<<k, a>>] = FlushNext(a, flushall)
  OBVIOUS
<1>2. PICK h : IsFold(h, A, n, F, st)
  <2> HIDE DEF F
  <2>1. QED  BY <1>1, FoldExists, Zenon
<1>a. /\ h \in [SUBSET (1 .. n) -> A]
      /\ \A s \in SUBSET (1 .. n) :
            h[s] = IF s = {} THEN st ELSE F[<<Max(s), h[s \ {Max(s)}]>>]
  BY <1>2, Zenon DEF IsFold
<1>3. Solves(h)
  <2>1. ASSUME NEW s \in SUBSET (1 .. n)
        PROVE  h[s] = IF s = {} THEN st ELSE FlushNext(h[s \ {Max(s)}], flushall)
    <3> HIDE DEF F, Solves, iter
    <3>1. CASE s = {}  BY <3>1, <1>a
    <3>2. CASE s # {}
      <4>1. Max(s) \in 1 .. n  BY <3>2, LargestIndex
      <4>2. s \ {Max(s)} \in SUBSET (1 .. n)  OBVIOUS
      <4>3. h[s \ {Max(s)}] \in A  BY <4>2, <1>a
      <4>4. h[s] = F[<<Max(s), h[s \ {Max(s)}]>>]  BY <3>2, <1>a
      <4>5. h[s] = FlushNext(h[s \ {Max(s)}], flushall)  BY <4>1, <4>3, <4>4, <1>1, Zenon
      <4>6. QED  BY <3>2, <4>5
    <3>3. QED  BY <3>1, <3>2
  <2>2. h = [s \in SUBSET (1 .. n) |-> h[s]]  BY <1>a
  <2>3. QED  BY <2>1, <2>2, Zenon
<1>4. Solves(iter)
  <2> HIDE DEF Solves
  <2>1. QED  BY <1>3, Zenon
<1>5. stpi_flush_passes(st, flushall) = iter[DOMAIN q]
  BY Zenon DEF stpi_flush_passes, FoldLeft, MapThenFoldSet
<1>6. \A s \in SUBSET (1 .. n) :
         iter[s] = IF s = {} THEN st ELSE FlushNext(iter[s \ {Max(s)}], flushall)
  <2> HIDE DEF iter
  <2>1. QED  BY <1>4, Zenon
<1> HIDE DEF iter, Solves, F
<1>7. iter[1 .. 0] = st
  <2>1. 1 .. 0 = {} /\ 1 .. 0 \in SUBSET (1 .. n)  OBVIOUS
  <2>2. QED  BY <2>1, <1>6, Zenon
<1>8. ASSUME NEW k \in 1 .. n
      PROVE  iter[1 .. k] = FlushNext(iter[1 .. k - 1], flushall)
  <2>1. 1 .. k \in SUBSET (1 .. n) /\ 1 .. k # {}  BY LargestIndex, Zenon
  <2>2. Max(1 .. k) = k /\ (1 .. k) \ {k} = 1 .. k - 1  BY LargestIndex, Zenon
  <2>3. iter[1 .. k] = FlushNext(iter[(1 .. k) \ {Max(1 .. k)}], flushall)
    BY <2>1, <1>6, Zenon
  <2>4. QED  BY <2>2, <2>3, Zenon
<1>9. stpi_flush_passes(st, flushall) = iter[1 .. n]  BY <1>5, Zenon
<1> DEFINE B == [k \in 0 .. n |-> A]
<1>10. B[0] = A /\ B[n] = A /\ \A k \in 1 .. n : B[k - 1] = A /\ B[k] = A  OBVIOUS
<1> HIDE DEF B
<1>11. ASSUME NEW k \in 1 .. n, iter[1 .. k - 1] \in B[k - 1]
       PROVE  iter[1 .. k] \in B[k]
  <2>1. iter[1 .. k - 1] \in A  BY <1>10, <1>11
  <2>2. FlushNext(iter[1 .. k - 1], flushall) \in A  BY <2>1, Zenon
  <2>3. QED  BY <2>2, <1>8, <1>10, Zenon
<1>12. iter[1 .. 0] \in B[0]  BY <1>7, <1>10
<1>13. iter[1 .. n] \in B[n]  BY <1>11, <1>12, FoldSteps, Zenon
<1>14. QED  BY <1>9, <1>10, <1>13, Zenon

\* The turns of finalize_row.
LEMMA FinalizeTurns ==
    ASSUME NEW A, NEW st \in A, NEW n \in Nat, NEW q, q = [k \in 1 .. sw.oversample |-> k - 1], DOMAIN q = 1 .. n,
           \A k \in 1 .. n : \A a \in A : finalize_subpass(a, q[k]) \in A
    PROVE  finalize_row(st) \in A
<1> DEFINE F == [x \in (1 .. n) \X A |-> finalize_subpass(x[2], q[x[1]])]
           Solves(g) == g = [s \in SUBSET DOMAIN q |->
                               IF s = {} THEN st ELSE finalize_subpass(g[s \ {Max(s)}], q[Max(s)])]
           iter == CHOOSE g : Solves(g)
<1>1. F \in [(1 .. n) \X A -> A] /\ \A k \in 1 .. n, a \in A : F[<<k, a>>] = finalize_subpass(a, q[k])
  OBVIOUS
<1>2. PICK h : IsFold(h, A, n, F, st)
  <2> HIDE DEF F
  <2>1. QED  BY <1>1, FoldExists, Zenon
<1>a. /\ h \in [SUBSET (1 .. n) -> A]
      /\ \A s \in SUBSET (1 .. n) :
            h[s] = IF s = {} THEN st ELSE F[<<Max(s), h[s \ {Max(s)}]>>]
  BY <1>2, Zenon DEF IsFold
<1>3. Solves(h)
  <2>1. ASSUME NEW s \in SUBSET (1 .. n)
        PROVE  h[s] = IF s = {} THEN st ELSE finalize_subpass(h[s \ {Max(s)}], q[Max(s)])
    <3> HIDE DEF F, Solves, iter
    <3>1. CASE s = {}  BY <3>1, <1>a
    <3>2. CASE s # {}
      <4>1. Max(s) \in 1 .. n  BY <3>2, LargestIndex
      <4>2. s \ {Max(s)} \in SUBSET (1 .. n)  OBVIOUS
      <4>3. h[s \ {Max(s)}] \in A  BY <4>2, <1>a
      <4>4. h[s] = F[<<Max(s), h[s \ {Max(s)}]>>]  BY <3>2, <1>a
      <4>5. h[s] = finalize_subpass(h[s \ {Max(s)}], q[Max(s)])  BY <4>1, <4>3, <4>4, <1>1, Zenon
      <4>6. QED  BY <3>2, <4>5
    <3>3. QED  BY <3>1, <3>2
  <2>2. h = [s \in SUBSET (1 .. n) |-> h[s]]  BY <1>a
  <2>3. QED  BY <2>1, <2>2, Zenon
<1>4. Solves(iter)
  <2> HIDE DEF Solves
  <2>1. QED  BY <1>3, Zenon
<1>5. finalize_row(st) = iter[DOMAIN q]
  BY Zenon DEF finalize_row, FoldLeft, MapThenFoldSet
<1>6. \A s \in SUBSET (1 .. n) :
         iter[s] = IF s = {} THEN st ELSE finalize_subpass(iter[s \ {Max(s)}], q[Max(s)])
  <2> HIDE DEF iter
  <2>1. QED  BY <1>4, Zenon
<1> HIDE DEF iter, Solves, F
<1>7. iter[1 .. 0] = st
  <2>1. 1 .. 0 = {} /\ 1 .. 0 \in SUBSET (1 .. n)  OBVIOUS
  <2>2. QED  BY <2>1, <1>6, Zenon
<1>8. ASSUME NEW k \in 1 .. n
      PROVE  iter[1 .. k] = finalize_subpass(iter[1 .. k - 1], q[k])
  <2>1. 1 .. k \in SUBSET (1 .. n) /\ 1 .. k # {}  BY LargestIndex, Zenon
  <2>2. Max(1 .. k) = k /\ (1 .. k) \ {k} = 1 .. k - 1  BY LargestIndex, Zenon
  <2>3. iter[1 .. k] = finalize_subpass(iter[(1 .. k) \ {Max(1 .. k)}], q[Max(1 .. k)])
    BY <2>1, <1>6, Zenon
  <2>4. QED  BY <2>2, <2>3, Zenon
<1>9. finalize_row(st) = iter[1 .. n]  BY <1>5, Zenon
<1> DEFINE B == [k \in 0 .. n |-> A]
<1>10. B[0] = A /\ B[n] = A /\ \A k \in 1 .. n : B[k - 1] = A /\ B[k] = A  OBVIOUS
<1> HIDE DEF B
<1>11. ASSUME NEW k \in 1 .. n, iter[1 .. k - 1] \in B[k - 1]
       PROVE  iter[1 .. k] \in B[k]
  <2>1. iter[1 .. k - 1] \in A  BY <1>10, <1>11
  <2>2. finalize_subpass(iter[1 .. k - 1], q[k]) \in A  BY <2>1, Zenon
  <2>3. QED  BY <2>2, <1>8, <1>10, Zenon
<1>12. iter[1 .. 0] \in B[0]  BY <1>7, <1>10
<1>13. iter[1 .. n] \in B[n]  BY <1>11, <1>12, FoldSteps, Zenon
<1>14. QED  BY <1>9, <1>10, <1>13, Zenon
-----------------------------------------------------------------------------
(* The parameters of the rows of a page.                                   *)

\* The pass, the jet and the extent that stpi_calculate_row_parameters gives a
\* row are integers, whether the ends of the page are apart or not.
LEMMA RowTyped ==
    ASSUME NEW w, NEW sep, NEW jets, NEW over, Heads(w, sep, jets, over),
           NEW page \in Nat, NEW first \in Nat, NEW last \in Nat, first <= last,
           NEW row \in first .. last, NEW s \in 0 .. over - 1
    PROVE  LET p == stpi_calculate_row_parameters(calculate_pass_map(w, page, first, last), row, s)
           IN  /\ p.pass \in Int /\ p.jet \in Int /\ p.logicalpassstart \in Int
               /\ p.missingstartrows \in Int /\ p.jetsused \in Int
<1> DEFINE ck == calculate_pass_map(w, page, first, last)
           raw == calculate_raw_row_parameters(w, row + Span(w), s)
           move == Renumbered(ck, raw.pass)
           start == raw.startrow - Span(w) + move.stagger * sep
<1>0. /\ sep \in Nat \ {0} /\ jets \in Nat \ {0} /\ over \in Nat \ {0}
  BY DEF Heads
<1>1. w.separation = sep /\ w.jets = jets  BY RawFacts
<1>2. PICK span \in Nat : span = sep * jets /\ Span(w) = span  BY <1>0, <1>1 DEF Span
<1>3. IsPageMap(w, sep, jets, first, last, ck)  BY PageMap, Zenon
<1>4. RowAsserts(ck, row, s)  BY RowsHavePasses, Zenon
<1>5. /\ \A p \in ck.first_premapped_pass .. ck.first_unused_pass - 1 :
            Renumbered(ck, p).pass \in Int /\ Renumbered(ck, p).stagger \in Int
  BY NumbersDiffer
<1> HIDE DEF ck
<1>6. /\ ck.rw = w /\ ck.first_row_printed = first /\ ck.last_row_printed = last
      /\ ck.first_premapped_pass \in Nat /\ ck.first_unused_pass \in Nat
  BY <1>3 DEF IsPageMap
<1>7. IsRawPassOf(w, sep, jets, row + span, s, raw)
  <2>1. row + span \in Nat /\ row + span >= sep * jets  BY <1>2
  <2>2. raw = calculate_raw_row_parameters(w, row + span, s)  BY <1>2
  <2> HIDE DEF raw
  <2>3. QED  BY <2>1, <2>2, RawLookup, Zenon
<1>8. raw.pass >= ck.first_premapped_pass /\ raw.pass < ck.first_unused_pass
  BY <1>4, <1>6, Zenon DEF RowAsserts
<1> HIDE DEF raw
<1>9. raw.pass \in Nat /\ raw.jet \in Int /\ raw.startrow \in Int
  <2>1. raw.pass \in Nat /\ raw.jet \in 0 .. jets - 1 /\ raw.startrow = (row + span) - raw.jet * sep
    BY <1>7 DEF IsRawPassOf
  <2>2. raw.jet \in Int  BY <2>1, <1>0
  <2>3. raw.jet * sep \in Int  BY <2>2, <1>0
  <2>4. QED  BY <2>1, <2>2, <2>3
<1>10. move.pass \in Int /\ move.stagger \in Int
  <2>1. raw.pass \in ck.first_premapped_pass .. ck.first_unused_pass - 1  BY <1>6, <1>8, <1>9
  <2>2. QED  BY <2>1, <1>5, Zenon
<1> HIDE DEF move
<1>11. start \in Int
  <2>1. move.stagger * sep \in Int  BY <1>0, <1>10
  <2>2. QED  BY <2>1, <1>2, <1>9
<1> HIDE DEF start
<1> DEFINE phantom == Max({0, -move.stagger})
           moved == Max({move.stagger, -move.stagger})
           Over(n) == IF n > 0 THEN (n + sep - 1) \div sep ELSE 0
           missing == phantom + Over(first - (start + sep * phantom))
           used == jets - moved - (missing - phantom)
           lastrow == start + sep * (missing + used - 1)
<1>12. phantom \in Int /\ moved \in Int
  <2>1. \A x, y \in Int : Max({x, y}) \in Int
    <3>1. TAKE x, y \in Int
    <3>2. \E z \in {x, y} : \A u \in {x, y} : z >= u  OBVIOUS
    <3>3. Max({x, y}) \in {x, y}  BY <3>2 DEF Max
    <3>4. QED  BY <3>3
  <2>2. QED  BY <2>1, <1>10
<1>13. \A n \in Int : Over(n) \in Int  BY <1>0
<1> HIDE DEF phantom, moved, Over
<1>14. missing \in Int
  <2>1. sep * phantom \in Int  BY <1>0, <1>12
  <2>2. first - (start + sep * phantom) \in Int  BY <2>1, <1>11
  <2>3. QED  BY <2>2, <1>12, <1>13
<1> HIDE DEF missing
<1>15. used \in Int  BY <1>0, <1>12, <1>14
<1> HIDE DEF used
<1>16. lastrow \in Int
  <2>1. sep * (missing + used - 1) \in Int  BY <1>0, <1>14, <1>15
  <2>2. QED  BY <2>1, <1>11
<1> HIDE DEF lastrow
<1>17. used - Over(lastrow - last) \in Int
  <2>1. lastrow - last \in Int  BY <1>16
  <2>2. Over(lastrow - last) \in Int  BY <2>1, <1>13
  <2>3. QED  BY <2>2, <1>15
<1>18. JetsUsed(ck, start, move.stagger, phantom)
         = [missingstartrows |-> missing, jetsused |-> used - Over(lastrow - last)]
  BY <1>1, <1>6, Zenon DEF JetsUsed, missing, used, lastrow, Over, moved
<1>19. stpi_calculate_row_parameters(ck, row, s)
         = [pass             |-> move.pass,
            jet              |-> raw.jet - move.stagger,
            logicalpassstart |-> start,
            missingstartrows |-> JetsUsed(ck, start, move.stagger, phantom).missingstartrows,
            jetsused         |-> JetsUsed(ck, start, move.stagger, phantom).jetsused]
  BY <1>1, <1>6, Zenon DEF stpi_calculate_row_parameters, CookedRow, Cooked, raw, move, start, phantom
<1> DEFINE p == stpi_calculate_row_parameters(ck, row, s)
<1>20. /\ p.pass = move.pass /\ p.jet = raw.jet - move.stagger /\ p.logicalpassstart = start
       /\ p.missingstartrows = missing /\ p.jetsused = used - Over(lastrow - last)
  <2>1. /\ JetsUsed(ck, start, move.stagger, phantom).missingstartrows = missing
        /\ JetsUsed(ck, start, move.stagger, phantom).jetsused = used - Over(lastrow - last)
    BY <1>18
  <2>2. QED  BY <2>1, <1>19
<1> HIDE DEF p
<1>21. raw.jet - move.stagger \in Int  BY <1>9, <1>10
<1>22. QED  BY <1>10, <1>11, <1>14, <1>17, <1>20, <1>21 DEF p, ck

\* What the bank and its loops read of a page: its colours, subpasses and slots,
\* and parameters for every subpass of every colour of its rows.
IsPlace(p) ==
    /\ p.pass \in Int /\ p.jet \in Int
    /\ p.logicalpassstart \in Int /\ p.physpassend \in Int
PageFacts ==
    /\ sw.h_passes \in Nat \ {0} /\ sw.vertical_oversample \in Nat \ {0}
    /\ sw.oversample = sw.h_passes * sw.vertical_oversample
    /\ sw.vmod \in Nat \ {0}
    /\ job.min_nozzles \in Nat /\ job.nozzle_start \in Nat
    /\ sw.firstline \in Nat /\ sw.lastline \in Nat /\ sw.firstline <= sw.lastline
    /\ Len(sw.head_offset) \in Nat \ {0} /\ Colours = 1 .. Len(sw.head_offset)
    /\ \A row \in sw.firstline .. sw.lastline, s \in Subpasses, c \in Colours :
          IsPlace(Place(row, s, c)) /\ Slot(row, s, c) \in Slots

\* stp_initialize_weave sees to it for every job.
LEMMA PageHasFacts ==
    ASSUME SwOfTheJob, job.strategy # "ascending_3x"
    PROVE  PageFacts
<1>1. job \in Jobs /\ job.strategy # "ascending_3x" /\ sw = stp_initialize_weave(job)
  BY DEF SwOfTheJob
<1> DEFINE w == HeadOf(job)
           first == job.first_line
           last == LastLine(job)
           over == OversampleOf(job)
           offset == job.head_offset
           C(r, s) == stpi_calculate_row_parameters(PageOf(job), r, s)
<1>2. /\ offset \in Seq(Nat) /\ offset # <<>> /\ first \in Nat /\ job.page_height \in Nat
  BY <1>1, JobsAssumption
<1>3. PICK m \in Nat : m = Max(Range(offset)) /\ \A c \in DOMAIN offset : offset[c] <= m
  BY <1>2, LargestOffset
<1>4. /\ Heads(w, job.sep, job.jets, over) /\ last \in Nat /\ first <= last
  BY <1>1, JobHead
<1>a. PICK jets, sep, osample, subpasses, subsample, count \in Nat \ {0} :
         /\ jets = job.jets /\ sep = job.sep /\ osample = job.osample
         /\ subpasses = job.v_subpasses /\ subsample = job.v_subsample
         /\ count = job.line_count
  BY <1>1, JobsAssumption
<1>5. /\ sw.separation = sep /\ sw.h_passes = osample * subpasses
      /\ sw.vertical_oversample = subsample /\ sw.oversample = over
      /\ sw.head_offset = offset
      /\ sw.firstline = first /\ sw.lastline = first + count - 1
      /\ sw.vmod = PassSlots(job, over, VirtualJets(job, m))
  BY <1>1, <1>3, <1>a DEF stp_initialize_weave, OversampleOf
<1>6. sw.by_row = [row \in first .. last |-> [i \in 0 .. over - 1 |-> C(row, i)]]
  BY <1>1, OfTheJob
<1>7. last = first + count - 1 + m  BY <1>3, <1>a DEF LastLine
<1>8. over \in Nat \ {0}  BY <1>4 DEF Heads
<1>9. /\ sw.h_passes \in Nat \ {0} /\ sw.vertical_oversample \in Nat \ {0}
      /\ sw.oversample = sw.h_passes * sw.vertical_oversample
  <2>1. osample * subpasses \in Nat \ {0}
    <3> HIDE DEF first, last, over, w
    <3>1. QED  OBVIOUS
  <2>2. over = (osample * subpasses) * subsample  BY <1>a, Zenon DEF OversampleOf
  <2>3. QED  BY <2>1, <2>2, <1>5, Zenon
<1>10. sw.vmod \in Nat \ {0}
  <2> HIDE DEF first, last, over, w, offset, C
  <2>1. PICK v \in Nat : v = VirtualJets(job, m) /\ v >= jets
    <3>1. (m + sep - 1) \div sep \in Nat  OBVIOUS
    <3>2. VirtualJets(job, m) = jets + (m + sep - 1) \div sep  BY <1>a, Zenon DEF VirtualJets
    <3>3. QED  BY <3>1, <3>2
  <2> DEFINE f == IF v > jets THEN (v + jets - 1) \div jets ELSE 1
  <2>2. f \in Nat \ {0}
    <3>1. CASE v > jets
      <4>1. v + jets - 1 \in Int /\ v + jets - 1 >= jets  BY <3>1
      <4>2. PICK q \in Int, r \in 0 .. jets - 1 :
               q = (v + jets - 1) \div jets /\ v + jets - 1 = jets * q + r
        <5>1. \E x \in Int, r \in 0 .. jets - 1 :
                 /\ x = (v + jets - 1) \div jets /\ r = (v + jets - 1) % jets
                 /\ v + jets - 1 = jets * x + r
          BY <4>1, DivMod
        <5>2. QED  BY <5>1
      <4>3. q > 0
        <5>1. jets * q > 0  BY <4>1, <4>2
        <5>2. QED  BY <5>1
      <4>4. QED  BY <4>2, <4>3, <3>1
    <3>2. QED  BY <3>1
  <2>3. sw.vmod = 2 * sep * over * f  BY <2>1, <1>5, <1>a, Zenon DEF PassSlots
  <2> HIDE DEF f
  <2>4. PICK x \in Nat \ {0} : x = 2 * sep  OBVIOUS
  <2>5. PICK y \in Nat \ {0} : y = x * over  BY <1>8
  <2>6. y * f \in Nat \ {0}  BY <2>2
  <2>7. QED  BY <2>3, <2>4, <2>5, <2>6
<1>11. /\ Len(sw.head_offset) \in Nat \ {0} /\ Colours = 1 .. Len(sw.head_offset)
       /\ \A c \in Colours : offset[c] \in Nat
  <2> HIDE DEF first, last, over, w, offset, C
  <2>1. Len(offset) \in Nat \ {0} /\ DOMAIN offset = 1 .. Len(offset)
        /\ \A c \in DOMAIN offset : offset[c] \in Nat
    BY <1>2
  <2>2. QED  BY <2>1, <1>5, Zenon DEF Colours
<1>12. sw.lastline \in Nat /\ sw.firstline \in Nat /\ sw.firstline <= sw.lastline
  <2> HIDE DEF first
  <2>1. first + count - 1 \in Nat /\ first <= first + count - 1  BY <1>2
  <2>2. QED  BY <2>1, <1>2, <1>5
<1>13. ASSUME NEW row \in sw.firstline .. sw.lastline, NEW s \in Subpasses, NEW c \in Colours
       PROVE  IsPlace(Place(row, s, c)) /\ Slot(row, s, c) \in Slots
  <2>1. c \in DOMAIN offset /\ offset[c] \in Nat /\ offset[c] <= m
    BY <1>3, <1>5, <1>11 DEF Colours
  <2>2. PICK r \in first .. last : r = row + offset[c]
    <3> HIDE DEF first, last, offset, over, w, C
    <3>1. row \in Int /\ first <= row /\ row <= first + count - 1
      BY <1>5, <1>12
    <3>2. PICK o \in Nat : o = offset[c] /\ o <= m  BY <2>1
    <3>3. first \in Nat /\ count \in Nat /\ m \in Nat /\ last = first + count - 1 + m
      BY <1>2, <1>7
    <3>4. row + o \in first .. last
      <4>1. row + o \in Int /\ first <= row + o  BY <3>1, <3>2, <3>3
      <4>2. row + o <= first + count - 1 + m  BY <3>1, <3>2, <3>3
      <4>3. last \in Int  BY <3>3
      <4>4. QED  BY <4>1, <4>2, <4>3, <3>3
    <3>5. row + offset[c] = row + o  BY <3>2
    <3> DEFINE x == row + o
    <3>6. x \in first .. last /\ x = row + offset[c]  BY <3>4, <3>5
    <3> HIDE DEF x
    <3>7. QED  BY <3>6
  <2>3. s \in 0 .. over - 1  BY <1>5 DEF Subpasses
  <2> DEFINE p == C(r, s)
  <2>4. /\ p.pass \in Int /\ p.jet \in Int /\ p.logicalpassstart \in Int
        /\ p.missingstartrows \in Int /\ p.jetsused \in Int
    <3>1. PageOf(job) = calculate_pass_map(w, job.page_height, first, last)
      BY DEF PageOf
    <3> HIDE DEF w, first, last, over
    <3> DEFINE x == stpi_calculate_row_parameters(
                        calculate_pass_map(w, job.page_height, first, last), r, s)
    <3>2. /\ x.pass \in Int /\ x.jet \in Int /\ x.logicalpassstart \in Int
          /\ x.missingstartrows \in Int /\ x.jetsused \in Int
      <4>1. /\ Heads(w, job.sep, job.jets, over) /\ job.page_height \in Nat
            /\ first \in Nat /\ last \in Nat /\ first <= last
            /\ r \in first .. last /\ s \in 0 .. over - 1
        BY <2>2, <2>3, <1>2, <1>4
      <4>2. QED  BY <4>1, RowTyped, Zenon
    <3>3. p = x  BY <3>1
    <3> HIDE DEF x
    <3>4. QED  BY <3>2, <3>3
  <2>5. sw.by_row[row + sw.head_offset[c]][s] = p  BY <2>2, <2>3, <1>5, <1>6
  <2> HIDE DEF p
  <2> DEFINE start == p.logicalpassstart + sw.separation * p.missingstartrows
  <2>6. Place(row, s, c) =
          [pass |-> p.pass, jet |-> p.jet, logicalpassstart |-> p.logicalpassstart,
           physpassstart |-> start, physpassend |-> start + sw.separation * (p.jetsused - 1)]
    BY <2>5 DEF Place, weave_parameters_by_row
  <2>7. sw.separation \in Int /\ p.jetsused - 1 \in Int  BY <2>4, <1>5
  <2>8. start \in Int
    <3>1. sw.separation * p.missingstartrows \in Int  BY <2>4, <2>7
    <3>2. QED  BY <3>1, <2>4
  <2> HIDE DEF start
  <2>9. start + sw.separation * (p.jetsused - 1) \in Int
    <3>1. sw.separation * (p.jetsused - 1) \in Int  BY <2>7
    <3>2. QED  BY <3>1, <2>8
  <2>10. IsPlace(Place(row, s, c))  BY <2>4, <2>6, <2>9 DEF IsPlace
  <2>11. Place(row, s, c).pass % sw.vmod \in 0 .. sw.vmod - 1
    <3>1. Place(row, s, c).pass \in Int  BY <2>10 DEF IsPlace
    <3>2. QED  BY <3>1, <1>10, Quotient
  <2>12. QED  BY <2>10, <2>11 DEF Slot, Slots
<1>14. job.min_nozzles \in Nat /\ job.nozzle_start \in Nat  BY <1>1, JobsAssumption
<1>15. QED  BY <1>9, <1>10, <1>11, <1>12, <1>13, <1>14 DEF PageFacts
-----------------------------------------------------------------------------
(* No line is printed twice.                                               *)
(*                                                                         *)
(* A line of data is in the buffers of a slot until the pass of the slot   *)
(* is sent, and among the lines of that pass from then on.  The places of  *)
(* data are numbered for that: h > 0 is the h-th pass sent and h <= 0 the  *)
(* slot -h.  A state is tidy when every line with ink was handed over and  *)
(* no two of them are the same line; every step of a row keeps it tidy.    *)

Entries == [row : Int, subpass : Int, ink : BOOLEAN]
Headers == [pass : Int, subpass : Int, logicalpassstart : Int, physpassend : Int]
SlotRecords ==
    [pass : Headers, lines : [Colours -> Seq(Entries)],
     linecount : [Colours -> Int], lineactive : [Colours -> BOOLEAN]]
SentPasses ==
    [pass : Int, subpass : Int, at : Int,
     nlines : UNION {[cs -> Int] : cs \in SUBSET Colours},
     empty : UNION {[cs -> Int] : cs \in SUBSET Colours},
     lines  : UNION {[cs -> Seq(Entries)] : cs \in SUBSET Colours}]
Banks  == [Slots -> SlotRecords]
States == [bank : Banks, last_pass : Int, last_pass_offset : Int, sent : Seq(SentPasses)]

Holders(st) == 1 - sw.vmod .. Len(st.sent)
LinesIn(st, h, c) ==
    IF h <= 0 THEN st.bank[-h].lines[c]
    ELSE IF c \in DOMAIN st.sent[h].lines THEN st.sent[h].lines[c] ELSE <<>>

\* The places of the lines with ink in a buffer, and which line is at one.
InkIn(lines) == {k \in DOMAIN lines : lines[k].ink}
Which(lines, c, k) == <<lines[k].row, c, lines[k].subpass>>

Tidy(st, K) ==
    \A h \in Holders(st), c \in Colours : \A k \in InkIn(LinesIn(st, h, c)) :
       /\ Which(LinesIn(st, h, c), c, k) \in K
       /\ \A i \in Holders(st) : \A n \in InkIn(LinesIn(st, i, c)) :
             Which(LinesIn(st, h, c), c, k) = Which(LinesIn(st, i, c), c, n) => h = i /\ k = n
TidyStates(K) == {st \in States : Tidy(st, K)}

\* What a tidy state says of one place.
PlaceTidy(st, K, p, c) ==
    \A k \in InkIn(LinesIn(st, p, c)) :
       /\ Which(LinesIn(st, p, c), c, k) \in K
       /\ \A i \in Holders(st) : \A n \in InkIn(LinesIn(st, i, c)) :
             Which(LinesIn(st, p, c), c, k) = Which(LinesIn(st, i, c), c, n) => p = i /\ k = n
LEMMA TidyAt ==
    ASSUME NEW st, NEW K, Tidy(st, K), NEW p \in Holders(st), NEW c \in Colours
    PROVE  PlaceTidy(st, K, p, c)
BY Zenon DEF Tidy, PlaceTidy

\* A state whose places are places of a tidy one, with the same lines or
\* with none, is tidy.
LEMMA MovedTidy ==
    ASSUME NEW x, NEW y, NEW K, Tidy(x, K), NEW m,
           \A h \in Holders(y) : m[h] \in Holders(x),
           \A h \in Holders(y), c \in Colours :
              LinesIn(y, h, c) = LinesIn(x, m[h], c) \/ InkIn(LinesIn(y, h, c)) = {},
           \A h, i \in Holders(y) :
              m[h] = m[i] => \/ h = i
                             \/ \A c \in Colours : InkIn(LinesIn(y, h, c)) = {}
                             \/ \A c \in Colours : InkIn(LinesIn(y, i, c)) = {}
    PROVE  Tidy(y, K)
<1>1. SUFFICES ASSUME NEW h \in Holders(y), NEW c \in Colours, NEW k \in InkIn(LinesIn(y, h, c))
               PROVE  /\ Which(LinesIn(y, h, c), c, k) \in K
                      /\ \A i \in Holders(y) : \A n \in InkIn(LinesIn(y, i, c)) :
                            Which(LinesIn(y, h, c), c, k) = Which(LinesIn(y, i, c), c, n)
                               => h = i /\ k = n
  BY Zenon DEF Tidy
<1>2. LinesIn(y, h, c) = LinesIn(x, m[h], c) /\ m[h] \in Holders(x)  BY Zenon
<1>3. /\ Which(LinesIn(x, m[h], c), c, k) \in K
      /\ \A i \in Holders(x) : \A n \in InkIn(LinesIn(x, i, c)) :
            Which(LinesIn(x, m[h], c), c, k) = Which(LinesIn(x, i, c), c, n) => m[h] = i /\ k = n
  <2>1. PlaceTidy(x, K, m[h], c)  BY <1>2, TidyAt, Zenon
  <2>2. k \in InkIn(LinesIn(x, m[h], c))  BY <1>2, Zenon
  <2>3. QED  BY <2>1, <2>2, Zenon DEF PlaceTidy
<1>4. ASSUME NEW i \in Holders(y), NEW n \in InkIn(LinesIn(y, i, c)),
             Which(LinesIn(y, h, c), c, k) = Which(LinesIn(y, i, c), c, n)
      PROVE  h = i /\ k = n
  <2>1. LinesIn(y, i, c) = LinesIn(x, m[i], c) /\ m[i] \in Holders(x)  BY Zenon
  <2>2. m[h] = m[i] /\ k = n  BY <1>2, <1>3, <1>4, <2>1, Zenon
  <2>3. InkIn(LinesIn(y, h, c)) # {} /\ InkIn(LinesIn(y, i, c)) # {}  BY Zenon
  <2>4. h = i  BY <2>2, <2>3, Zenon
  <2>5. QED  BY <2>2, <2>4
<1>5. QED  BY <1>2, <1>3, <1>4, Zenon

\* Other values of the variables than the lines, and blanks for lines, too.
LEMMA BlankedTidy ==
    ASSUME PageFacts, NEW x, NEW y, NEW K, Tidy(x, K), y.sent = x.sent,
           \A s \in Slots, c \in Colours :
              y.bank[s].lines[c] = x.bank[s].lines[c] \/ InkIn(y.bank[s].lines[c]) = {}
    PROVE  Tidy(y, K)
<1> DEFINE m == [h \in Holders(y) |-> h]
<1>1. Holders(y) = Holders(x)  BY DEF Holders
<1>2. ASSUME NEW h \in Holders(y), NEW c \in Colours
      PROVE  LinesIn(y, h, c) = LinesIn(x, m[h], c) \/ InkIn(LinesIn(y, h, c)) = {}
  <2>1. CASE h <= 0
    <3>1. -h \in Slots
      <4>1. sw.vmod \in Nat  BY DEF PageFacts
      <4>2. QED  BY <4>1, <2>1 DEF Holders, Slots
    <3>2. LinesIn(y, h, c) = y.bank[-h].lines[c] /\ LinesIn(x, h, c) = x.bank[-h].lines[c]
      BY <2>1, Zenon DEF LinesIn
    <3>3. \/ y.bank[-h].lines[c] = x.bank[-h].lines[c]
          \/ InkIn(y.bank[-h].lines[c]) = {}
      BY <3>1, Zenon
    <3>4. QED  BY <3>2, <3>3, Zenon
  <2>2. CASE ~(h <= 0)
    <3>1. LinesIn(y, h, c) = LinesIn(x, h, c)  BY <2>2, Zenon DEF LinesIn
    <3>2. QED  BY <3>1
  <2>3. QED  BY <2>1, <2>2
<1>3. /\ \A h \in Holders(y) : m[h] \in Holders(x)
      /\ \A h, i \in Holders(y) : m[h] = m[i] => h = i
  BY <1>1
<1> HIDE DEF m
<1>4. QED  BY <1>2, <1>3, MovedTidy

\* Lines of bank b are blanked, and the others are as they were.
OnlyBlanks(b, d) ==
    \A s \in Slots, c \in Colours :
       d[s].lines[c] = b[s].lines[c] \/ InkIn(d[s].lines[c]) = {}

\* A slot with other contents.
LEMMA SlotChanged ==
    ASSUME NEW b \in Banks, NEW s \in Slots, NEW z \in SlotRecords,
           \A c \in Colours : z.lines[c] = b[s].lines[c] \/ InkIn(z.lines[c]) = {}
    PROVE  [b EXCEPT ![s] = z] \in Banks /\ OnlyBlanks(b, [b EXCEPT ![s] = z])
<1> DEFINE d == [b EXCEPT ![s] = z]
<1>1. d \in Banks  BY DEF Banks
<1>2. d[s] = z /\ \A t \in Slots : t # s => d[t] = b[t]  BY DEF Banks
<1> HIDE DEF d
<1>3. OnlyBlanks(b, d)
  <2>1. ASSUME NEW t \in Slots, NEW c \in Colours
        PROVE  d[t].lines[c] = b[t].lines[c] \/ InkIn(d[t].lines[c]) = {}
    <3>1. CASE t = s  BY <3>1, <1>2, Zenon
    <3>2. CASE t # s  BY <3>2, <1>2, Zenon
    <3>3. QED  BY <3>1, <3>2
  <2>2. QED  BY <2>1 DEF OnlyBlanks
<1>4. QED  BY <1>1, <1>3 DEF d

\* A pass is set up in a free slot, which loses what it held.
LEMMA InitializePassBlanks ==
    ASSUME NEW b \in Banks, NEW s \in Slots, NEW p, IsPlace(p), NEW subpass \in Int
    PROVE  /\ InitializePass(b, s, p, subpass) \in Banks
           /\ OnlyBlanks(b, InitializePass(b, s, p, subpass))
<1> DEFINE new == [pass |-> p.pass, subpass |-> subpass,
                   logicalpassstart |-> p.logicalpassstart, physpassend |-> p.physpassend]
           z == [EmptySlot(Colours) EXCEPT !.pass = new]
<1>1. new \in Headers  BY DEF IsPlace, Headers
<1> HIDE DEF new
<1>2. z = [pass |-> new, lines |-> [c \in Colours |-> <<>>],
           linecount |-> [c \in Colours |-> 0], lineactive |-> [c \in Colours |-> FALSE]]
  <2> DEFINE e == EmptySlot(Colours)
             lines == [c \in Colours |-> <<>>]
             counts == [c \in Colours |-> 0]
             active == [c \in Colours |-> FALSE]
  <2>1. e = [pass |-> NoPass, lines |-> lines, linecount |-> counts, lineactive |-> active]
    BY Zenon DEF EmptySlot
  <2> HIDE DEF e, lines, counts, active
  <2>2. [e EXCEPT !.pass = new]
          = [pass |-> new, lines |-> lines, linecount |-> counts, lineactive |-> active]
    BY <2>1
  <2>3. QED  BY <2>2 DEF e, lines, counts, active
<1> HIDE DEF z
<1>3. z \in SlotRecords /\ \A c \in Colours : z.lines[c] = <<>>
  <2>1. <<>> \in Seq(Entries)  OBVIOUS
  <2>2. [c \in Colours |-> <<>>] \in [Colours -> Seq(Entries)]  BY <2>1
  <2>3. /\ [c \in Colours |-> 0] \in [Colours -> Int]
        /\ [c \in Colours |-> FALSE] \in [Colours -> BOOLEAN]
    OBVIOUS
  <2>4. QED  BY <1>1, <1>2, <2>2, <2>3 DEF SlotRecords
<1>4. \A c \in Colours : InkIn(z.lines[c]) = {}  BY <1>3 DEF InkIn
<1>5. [b EXCEPT ![s] = z] \in Banks /\ OnlyBlanks(b, [b EXCEPT ![s] = z])
  BY <1>3, <1>4, SlotChanged, Zenon
<1>6. OnlyBlanks(b, b)  BY DEF OnlyBlanks
<1>7. InitializePass(b, s, p, subpass) = IF b[s].pass.pass >= 0 THEN b ELSE [b EXCEPT ![s] = z]
  BY DEF InitializePass, z, new
<1>8. QED  BY <1>5, <1>6, <1>7, Zenon

\* The lines filled in above the first of a colour have no ink.
LEMMA FillBlanks ==
    ASSUME NEW b \in Banks, NEW s \in Slots, NEW c \in Colours, NEW jet \in Int
    PROVE  Fill(b, s, c, jet) \in Banks /\ OnlyBlanks(b, Fill(b, s, c, jet))
<1> DEFINE blank == [k \in 1 .. jet |-> Phantom]
           z == [b[s] EXCEPT !.lines = [@ EXCEPT ![c] = blank],
                             !.linecount = [@ EXCEPT ![c] = jet]]
<1>1. Phantom \in Entries /\ Phantom.ink = FALSE  BY DEF Phantom, Line, Entries
<1>2. InkIn(blank) = {}
  <2> HIDE DEF Phantom
  <2>1. QED  BY <1>1 DEF InkIn
<1>3. jet > 0 => blank \in Seq(Entries)
  <2> HIDE DEF Phantom
  <2>1. QED  BY <1>1
<1> HIDE DEF blank
<1>4. ASSUME jet > 0
      PROVE  [b EXCEPT ![s] = z] \in Banks /\ OnlyBlanks(b, [b EXCEPT ![s] = z])
  <2>1. b[s] \in SlotRecords  BY DEF Banks
  <2>2. z \in SlotRecords  BY <2>1, <1>3, <1>4 DEF SlotRecords
  <2>3. \A e \in Colours : z.lines[e] = IF e = c THEN blank ELSE b[s].lines[e]
    BY <2>1 DEF SlotRecords
  <2> HIDE DEF z
  <2>4. \A e \in Colours : z.lines[e] = b[s].lines[e] \/ InkIn(z.lines[e]) = {}
    BY <2>3, <1>2, Zenon
  <2>5. QED  BY <2>2, <2>4, SlotChanged, Zenon
<1>5. OnlyBlanks(b, b)  BY DEF OnlyBlanks
<1>6. Fill(b, s, c, jet)
        = IF b[s].linecount[c] = 0 /\ jet > 0 THEN [b EXCEPT ![s] = z] ELSE b
  BY DEF Fill, blank, Banks
<1>7. CASE jet > 0  BY <1>4, <1>5, <1>6, <1>7, Zenon
<1>8. CASE ~(jet > 0)  BY <1>5, <1>6, <1>8, Zenon
<1>9. QED  BY <1>7, <1>8

\* The banks that are tidy with the passes sent so far.
TidyBanks(K) == {b \in Banks : Tidy(State(b), K)}

\* A turn of initialize_row keeps the bank tidy.
LEMMA InitializeSubpassTidy ==
    ASSUME PageFacts, NEW K, NEW b \in TidyBanks(K),
           NEW row \in sw.firstline .. sw.lastline, NEW s \in Subpasses, NEW c \in Colours
    PROVE  initialize_subpass(row, b, s, c) \in TidyBanks(K)
<1> DEFINE p == Place(row, s, c)
           t == Slot(row, s, c)
           d == InitializePass(b, t, p, s)
           e == Fill(d, t, c, p.jet)
<1>1. IsPlace(p) /\ t \in Slots  BY Zenon DEF PageFacts
<1>2. s \in Int  BY DEF Subpasses, PageFacts
<1>3. b \in Banks /\ Tidy(State(b), K)  BY DEF TidyBanks
<1>4. e = initialize_subpass(row, b, s, c)  BY DEF initialize_subpass, Slot
<1> HIDE DEF p, t
<1>5. d \in Banks /\ OnlyBlanks(b, d)  BY <1>1, <1>2, <1>3, InitializePassBlanks
<1> HIDE DEF d
<1>6. p.jet \in Int  BY <1>1 DEF IsPlace
<1>7. e \in Banks /\ OnlyBlanks(d, e)  BY <1>1, <1>5, <1>6, FillBlanks
<1> HIDE DEF e
<1>8. OnlyBlanks(b, e)  BY <1>5, <1>7, Zenon DEF OnlyBlanks
<1>9. Tidy(State(e), K)
  <2> DEFINE x == State(b)
             y == State(e)
  <2>1. x.bank = b /\ y.bank = e /\ y.sent = x.sent  BY DEF State
  <2> HIDE DEF x, y
  <2>2. \A r \in Slots, i \in Colours :
           y.bank[r].lines[i] = x.bank[r].lines[i] \/ InkIn(y.bank[r].lines[i]) = {}
    BY <1>8, <2>1, Zenon DEF OnlyBlanks
  <2>3. Tidy(x, K)  BY <1>3 DEF x
  <2>4. Tidy(y, K)  BY <2>1, <2>2, <2>3, BlankedTidy
  <2>5. QED  BY <2>4 DEF y
<1>10. QED  BY <1>4, <1>7, <1>9 DEF TidyBanks

\* initialize_row does.
LEMMA InitializeRowTidy ==
    ASSUME PageFacts, NEW K, NEW b \in TidyBanks(K), NEW row \in sw.firstline .. sw.lastline
    PROVE  initialize_row(row, b) \in TidyBanks(K)
<1> DEFINE q == SubpassColours
           n == sw.oversample * Len(sw.head_offset)
           A == TidyBanks(K)
<1>1. PICK C \in Nat \ {0} : C = Len(sw.head_offset) /\ Colours = 1 .. C
  BY DEF PageFacts
<1>2. PICK O \in Nat \ {0} : O = sw.oversample /\ Subpasses = 0 .. O - 1
  <2>1. PICK u \in Nat \ {0}, v \in Nat \ {0} : u = sw.h_passes /\ v = sw.vertical_oversample
    BY DEF PageFacts
  <2>2. sw.oversample = u * v  BY <2>1 DEF PageFacts
  <2>3. sw.oversample \in Nat \ {0}  BY <2>2
  <2>4. QED  BY <2>3 DEF Subpasses
<1>3. n \in Nat /\ n = O * C  BY <1>1, <1>2
<1>4. DOMAIN q = 1 .. n
      /\ \A k \in 1 .. n : q[k][1] = (k - 1) \div C /\ q[k][2] = ((k - 1) % C) + 1
  BY <1>1 DEF SubpassColours
<1> HIDE DEF q, n, A
<1>5. ASSUME NEW k \in 1 .. n PROVE q[k][1] \in Subpasses /\ q[k][2] \in Colours
  <2>1. PICK x \in Int, r \in 0 .. C - 1 :
           x = (k - 1) \div C /\ r = (k - 1) % C /\ k - 1 = C * x + r
    <3>1. k - 1 \in Int  BY <1>3
    <3>2. QED  BY <3>1, DivMod, Zenon
  <2>2. 0 <= k - 1 /\ k - 1 < O * C  BY <1>3
  <2>3. x >= 0
    <3>1. SUFFICES ASSUME x <= -1 PROVE FALSE  BY <2>1
    <3>2. C * x <= C * (-1)  BY <3>1, <2>1
    <3>3. QED  BY <3>2, <2>1, <2>2
  <2>4. x <= O - 1
    <3>1. SUFFICES ASSUME x >= O PROVE FALSE  BY <2>1
    <3>2. C * x >= C * O  BY <3>1, <2>1
    <3>3. QED  BY <3>2, <2>1, <2>2
  <2>5. x \in 0 .. O - 1 /\ r + 1 \in 1 .. C  BY <2>1, <2>3, <2>4
  <2>6. q[k][1] = x /\ q[k][2] = r + 1  BY <2>1, <1>4
  <2>7. QED  BY <2>5, <2>6, <1>1, <1>2, Zenon
<1>6. \A k \in 1 .. n : \A a \in A : initialize_subpass(row, a, q[k][1], q[k][2]) \in A
  BY <1>5, InitializeSubpassTidy, Zenon DEF A
<1>7. b \in A /\ q = SubpassColours  BY DEF A, q
<1>8. initialize_row(row, b) \in A
  BY <1>3, <1>4, <1>6, <1>7, InitializeRowTurns, Zenon
<1>9. QED  BY <1>8 DEF A

\* Line e is added to the buffer of colour c in slot s.
AddsLine(x, y, s, c, e) ==
    /\ y.sent = x.sent
    /\ x.bank[s].lines[c] \in Seq(Entries)
    /\ y.bank[s].lines[c] = Append(x.bank[s].lines[c], e)
    /\ \A t \in Slots, d \in Colours :
          (t = s /\ d = c) \/ y.bank[t].lines[d] = x.bank[t].lines[d]

\* A line that was not handed over before is added.
LEMMA AddedTidy ==
    ASSUME PageFacts, NEW x, NEW y, NEW s \in Slots, NEW c \in Colours, NEW e \in Entries,
           AddsLine(x, y, s, c, e), NEW K, NEW L, Tidy(x, K), K \subseteq L,
           e.ink => <<e.row, c, e.subpass>> \in L /\ <<e.row, c, e.subpass>> \notin K
    PROVE  Tidy(y, L)
<1> USE DEF AddsLine
<1> DEFINE old == x.bank[s].lines[c]
           key == <<e.row, c, e.subpass>>
           IsNew(h, d, k) == h = -s /\ d = c /\ k = Len(old) + 1
<1>1. Holders(y) = Holders(x)  BY DEF Holders
<1>2. sw.vmod \in Nat /\ s \in 0 .. sw.vmod - 1 /\ s = -(-s) /\ -s <= 0
  BY DEF PageFacts, Slots
<1>3. ASSUME NEW h \in Holders(y), NEW d \in Colours, ~(h = -s /\ d = c)
      PROVE  LinesIn(y, h, d) = LinesIn(x, h, d)
  <2>1. CASE h <= 0
    <3>1. -h \in Slots /\ (-h = s => h = -s)  BY <1>2, <2>1 DEF Holders, Slots
    <3>2. y.bank[-h].lines[d] = x.bank[-h].lines[d]  BY <3>1, <1>3, Zenon
    <3>3. QED  BY <2>1, <3>2, Zenon DEF LinesIn
  <2>2. CASE ~(h <= 0)  BY <2>2, Zenon DEF LinesIn
  <2>3. QED  BY <2>1, <2>2
<1>4. LinesIn(y, -s, c) = Append(old, e) /\ LinesIn(x, -s, c) = old
  <2>1. LinesIn(y, -s, c) = y.bank[s].lines[c] /\ LinesIn(x, -s, c) = x.bank[s].lines[c]
    BY <1>2 DEF LinesIn
  <2>2. QED  BY <2>1
<1>5. /\ \A k \in InkIn(Append(old, e)) : k # Len(old) + 1 =>
            /\ k \in InkIn(old)
            /\ Which(Append(old, e), c, k) = Which(old, c, k)
      /\ Len(old) + 1 \in InkIn(Append(old, e)) =>
            e.ink /\ Which(Append(old, e), c, Len(old) + 1) = key
  <2> HIDE DEF old
  <2>0. old \in Seq(Entries)  BY DEF old
  <2>1. /\ DOMAIN Append(old, e) = 1 .. Len(old) + 1 /\ DOMAIN old = 1 .. Len(old)
        /\ Len(old) \in Nat
        /\ Append(old, e)[Len(old) + 1] = e
        /\ \A k \in 1 .. Len(old) : Append(old, e)[k] = old[k]
    BY <2>0
  <2>2. \A k \in 1 .. Len(old) + 1 : k # Len(old) + 1 => k \in 1 .. Len(old)  BY <2>1
  <2>3. QED  BY <2>1, <2>2, Zenon DEF InkIn, Which
<1> HIDE DEF old, IsNew
<1>6. ASSUME NEW h \in Holders(y), NEW d \in Colours, NEW k \in InkIn(LinesIn(y, h, d)),
             ~IsNew(h, d, k)
      PROVE  /\ k \in InkIn(LinesIn(x, h, d))
             /\ Which(LinesIn(y, h, d), d, k) = Which(LinesIn(x, h, d), d, k)
  <2>1. CASE h = -s /\ d = c
    <3>1. k # Len(old) + 1  BY <2>1, <1>6 DEF IsNew
    <3>2. k \in InkIn(Append(old, e))  BY <2>1, <1>4
    <3>3. k \in InkIn(old) /\ Which(Append(old, e), c, k) = Which(old, c, k)
      BY <3>1, <3>2, <1>5, Zenon
    <3>4. QED  BY <3>3, <2>1, <1>4, Zenon
  <2>2. CASE ~(h = -s /\ d = c)  BY <2>2, <1>3, Zenon
  <2>3. QED  BY <2>1, <2>2
<1>7. ASSUME NEW h \in Holders(y), NEW d \in Colours, NEW k \in InkIn(LinesIn(y, h, d)),
             IsNew(h, d, k)
      PROVE  e.ink /\ d = c /\ Which(LinesIn(y, h, d), d, k) = key
  <2>1. h = -s /\ d = c /\ k = Len(old) + 1  BY <1>7 DEF IsNew
  <2>2. k \in InkIn(Append(old, e))  BY <2>1, <1>4
  <2>3. QED  BY <2>1, <2>2, <1>4, <1>5, Zenon
<1> HIDE DEF key
<1>8. e.ink => key \in L /\ key \notin K  BY DEF key
<1>9. SUFFICES ASSUME NEW h \in Holders(y), NEW d \in Colours, NEW k \in InkIn(LinesIn(y, h, d))
               PROVE  /\ Which(LinesIn(y, h, d), d, k) \in L
                      /\ \A i \in Holders(y) : \A n \in InkIn(LinesIn(y, i, d)) :
                            Which(LinesIn(y, h, d), d, k) = Which(LinesIn(y, i, d), d, n)
                               => h = i /\ k = n
  BY Zenon DEF Tidy
<1>10. \A i \in Holders(y) : \A n \in InkIn(LinesIn(y, i, d)) :
          ~IsNew(i, d, n) => Which(LinesIn(y, i, d), d, n) \in K
  <2>1. TAKE i \in Holders(y)
  <2>2. TAKE n \in InkIn(LinesIn(y, i, d))
  <2>3. HAVE ~IsNew(i, d, n)
  <2>4. /\ n \in InkIn(LinesIn(x, i, d)) /\ i \in Holders(x)
        /\ Which(LinesIn(y, i, d), d, n) = Which(LinesIn(x, i, d), d, n)
    BY <2>3, <1>1, <1>6, Zenon
  <2>5. Which(LinesIn(x, i, d), d, n) \in K  BY <2>4, Zenon DEF Tidy
  <2>6. QED  BY <2>4, <2>5
<1>11. Which(LinesIn(y, h, d), d, k) \in L
  <2>1. CASE IsNew(h, d, k)  BY <2>1, <1>7, <1>8, Zenon
  <2>2. CASE ~IsNew(h, d, k)  BY <2>2, <1>10
  <2>3. QED  BY <2>1, <2>2
<1>12. ASSUME NEW i \in Holders(y), NEW n \in InkIn(LinesIn(y, i, d)),
              Which(LinesIn(y, h, d), d, k) = Which(LinesIn(y, i, d), d, n)
       PROVE  h = i /\ k = n
  <2>1. CASE IsNew(h, d, k) /\ IsNew(i, d, n)  BY <2>1 DEF IsNew
  <2>2. CASE IsNew(h, d, k) /\ ~IsNew(i, d, n)  BY <2>2, <1>7, <1>8, <1>10, <1>12, Zenon
  <2>3. CASE ~IsNew(h, d, k) /\ IsNew(i, d, n)  BY <2>3, <1>7, <1>8, <1>10, <1>12, Zenon
  <2>4. CASE ~IsNew(h, d, k) /\ ~IsNew(i, d, n)
    <3>1. /\ k \in InkIn(LinesIn(x, h, d)) /\ h \in Holders(x)
          /\ Which(LinesIn(y, h, d), d, k) = Which(LinesIn(x, h, d), d, k)
      BY <2>4, <1>1, <1>6, Zenon
    <3>2. /\ n \in InkIn(LinesIn(x, i, d)) /\ i \in Holders(x)
          /\ Which(LinesIn(y, i, d), d, n) = Which(LinesIn(x, i, d), d, n)
      BY <2>4, <1>1, <1>6, Zenon
    <3>3. Which(LinesIn(x, h, d), d, k) = Which(LinesIn(x, i, d), d, n)
      BY <3>1, <3>2, <1>12
    <3>4. QED  BY <3>1, <3>2, <3>3, Zenon DEF Tidy
  <2>5. QED  BY <2>1, <2>2, <2>3, <2>4
<1>13. QED  BY <1>11, <1>12

\* A line is appended to its pass and colour, and the rest stays.
Appends(b, d, l) ==
    LET s == Slot(lineno, l.line.subpass, l.colour)
    IN  \/ d = <<>>
        \/ /\ b \in Banks /\ d \in Banks /\ s \in Slots
           /\ d[s].lines[l.colour] = Append(b[s].lines[l.colour], l.line)
           /\ \A t \in Slots, c \in Colours :
                 (t = s /\ c = l.colour) \/ d[t].lines[c] = b[t].lines[c]

\* add_to_row adds it or, when the buffer is full, ends the program.
LEMMA AddToRowBanks ==
    ASSUME PageFacts, lineno \in sw.firstline .. sw.lastline,
           NEW b \in Banks \cup {<<>>}, NEW l, l.colour \in Colours, l.line \in Entries,
           l.line.subpass \in Subpasses
    PROVE  Appends(b, add_to_row(b, l), l)
<1> DEFINE s == Slot(lineno, l.line.subpass, l.colour)
<1> SUFFICES \/ add_to_row(b, l) = <<>>
             \/ /\ b \in Banks /\ add_to_row(b, l) \in Banks /\ s \in Slots
                /\ add_to_row(b, l)[s].lines[l.colour] = Append(b[s].lines[l.colour], l.line)
                /\ \A t \in Slots, c \in Colours :
                      \/ t = s /\ c = l.colour
                      \/ add_to_row(b, l)[t].lines[c] = b[t].lines[c]
  BY Zenon DEF Appends
<1>1. PICK c \in Colours : c = l.colour  BY Zenon
<1>2. s \in Slots  BY <1>1, Zenon DEF PageFacts
<1> HIDE DEF s
<1>3. CASE b = <<>> \/ BufferFull(b, s, l.colour)
  <2>1. add_to_row(b, l) = <<>>  BY <1>3, Zenon DEF add_to_row, s
  <2>2. QED  BY <2>1, Zenon
<1>4. CASE ~(b = <<>> \/ BufferFull(b, s, l.colour))
  <2> DEFINE e == l.line
  <2>1. b \in Banks /\ b[s] \in SlotRecords /\ e \in Entries /\ e.ink \in BOOLEAN
    BY <1>2, <1>4 DEF Banks, Entries
  <2> HIDE DEF e
  <2> DEFINE old == b[s]
             grown == Append(old.lines[c], e)
             z == [old EXCEPT !.lines[c] = grown,
                              !.lineactive[c] = Active(@, e.ink)]
             d == [b EXCEPT ![s] = z]
  <2>2. grown \in Seq(Entries)
    <3>1. old.lines[c] \in Seq(Entries)  BY <2>1 DEF SlotRecords
    <3> HIDE DEF old
    <3>2. QED  BY <2>1, <3>1
  <2>3. Active(old.lineactive[c], e.ink) \in BOOLEAN
    <3>1. old.lineactive[c] \in BOOLEAN  BY <2>1 DEF SlotRecords
    <3> HIDE DEF old
    <3>2. QED  BY <2>1, <3>1, Zenon DEF Active
  <2>4. add_to_row(b, l) = d
    <3>1. add_to_row(b, l)
            = [b EXCEPT ![s].lines[c] = Append(@, e), ![s].lineactive[c] = Active(@, e.ink)]
      BY <1>4, <1>1, Zenon DEF add_to_row, s, e
    <3>2. [b EXCEPT ![s].lines[c] = Append(@, e), ![s].lineactive[c] = Active(@, e.ink)] = d
      BY <2>1, <1>2 DEF Banks
    <3>3. QED  BY <3>1, <3>2
  <2> DEFINE act == Active(old.lineactive[c], e.ink)
  <2>5. z \in SlotRecords /\ z.lines[c] = grown
        /\ \A i \in Colours : i = c \/ z.lines[i] = old.lines[i]
    <3>1. z = [old EXCEPT !.lines = [@ EXCEPT ![c] = grown], !.lineactive = [@ EXCEPT ![c] = act]]
      BY <2>1 DEF SlotRecords
    <3> HIDE DEF z, grown, act
    <3>2. QED  BY <3>1, <2>1, <2>2, <2>3 DEF SlotRecords, act
  <2> HIDE DEF z, grown
  <2>6. d \in Banks /\ d[s] = z /\ \A t \in Slots : t # s => d[t] = b[t]
    BY <2>1, <2>5, <1>2 DEF Banks
  <2> HIDE DEF d
  <2>7. d[s].lines[c] = Append(b[s].lines[c], e)  BY <2>5, <2>6 DEF grown
  <2>8. \A t \in Slots, i \in Colours : (t = s /\ i = c) \/ d[t].lines[i] = b[t].lines[i]
    BY <2>5, <2>6, Zenon
  <2>9. QED  BY <1>1, <1>2, <2>1, <2>4, <2>6, <2>7, <2>8, Zenon DEF s, e
<1>5. QED  BY <1>3, <1>4, Zenon
\* The lines handed over are those before the vertical subpass at hand.
HandedOver ==
    /\ inked \subseteq Int \X Colours \X Int /\ IsFiniteSet(inked)
    /\ lineno \in sw.firstline .. sw.lastline + 1
    /\ current_vertical_subpass \in 0 .. sw.vertical_oversample - 1
    /\ \A l \in inked :
          \/ l[1] < lineno
          \/ l[1] = lineno /\ l[3] < current_vertical_subpass * sw.h_passes

\* The lines of a row are lines of its colours, in the subpasses of the vertical
\* subpass, and no two of them are the same.
LEMMA RowOfLines ==
    ASSUME PageFacts, HandedOver, NEW ink, NEW q, q = LinesOf(ink)
    PROVE  \E n \in Nat :
              /\ DOMAIN q = 1 .. n
              /\ \A k \in 1 .. n :
                    /\ q[k].colour \in Colours /\ q[k].line \in Entries
                    /\ q[k].line.row = lineno /\ q[k].line.subpass \in Subpasses
                    /\ q[k].line.subpass >= current_vertical_subpass * sw.h_passes
                    /\ q[k].line.subpass < (current_vertical_subpass + 1) * sw.h_passes
              /\ \A k, i \in 1 .. n :
                    q[k].colour = q[i].colour /\ q[k].line.subpass = q[i].line.subpass => k = i
<1>1. PICK C \in Nat \ {0}, h \in Nat \ {0}, v \in Nat \ {0}, u \in Nat :
         /\ C = Len(sw.head_offset) /\ Colours = 1 .. C
         /\ h = sw.h_passes /\ v = sw.vertical_oversample /\ sw.oversample = h * v
         /\ u = current_vertical_subpass /\ u <= v - 1
  <2>1. current_vertical_subpass \in Nat
        /\ current_vertical_subpass <= sw.vertical_oversample - 1
    BY DEF PageFacts, HandedOver
  <2>2. QED  BY <2>1 DEF PageFacts
<1>2. PICK n \in Nat : n = C * h  OBVIOUS
<1> DEFINE c(k) == ((k - 1) \div h) + 1
           s(k) == u * h + ((k - 1) % h)
<1>3. /\ DOMAIN q = 1 .. n
      /\ \A k \in 1 .. n : /\ q[k].colour = c(k)
                           /\ q[k].line = Line(lineno, s(k), c(k) \in ink)
  <2>1. q = [k \in 1 .. Len(sw.head_offset) * sw.h_passes |->
               [colour |-> c(k), line |-> Line(lineno, s(k), c(k) \in ink)]]
    BY <1>1, Zenon DEF LinesOf
  <2>2. Len(sw.head_offset) * sw.h_passes = n  BY <1>1, <1>2
  <2> HIDE DEF c, s
  <2>3. QED  BY <2>1, <2>2
<1>4. lineno \in Int  BY DEF HandedOver, PageFacts
<1>5. PICK t \in Int : t = u * h  OBVIOUS
<1>6. t >= 0 /\ (u + 1) * h = t + h /\ t + h <= h * v
  <2>1. u >= 0 /\ u + 1 <= v  BY <1>1
  <2>2. (u + 1) * h = t + h  BY <1>5
  <2>3. u * h >= 0  OBVIOUS
  <2>4. (u + 1) * h <= v * h  BY <2>1
  <2>5. QED  BY <2>2, <2>3, <2>4, <1>5
<1>7. ASSUME NEW k \in 1 .. n
      PROVE  /\ c(k) \in 1 .. C /\ s(k) \in t .. t + h - 1
             /\ k - 1 = h * (c(k) - 1) + (s(k) - t)
  <2>1. PICK x \in Int, r \in 0 .. h - 1 :
           x = (k - 1) \div h /\ r = (k - 1) % h /\ k - 1 = h * x + r
    <3>1. k - 1 \in Int  BY <1>2
    <3>2. QED  BY <3>1, DivMod, Zenon
  <2>2. 0 <= k - 1 /\ k - 1 < C * h  BY <1>2
  <2>3. x >= 0
    <3>1. SUFFICES ASSUME x <= -1 PROVE FALSE  BY <2>1
    <3>2. h * x <= h * (-1)  BY <3>1, <2>1
    <3>3. QED  BY <3>2, <2>1, <2>2
  <2>4. x <= C - 1
    <3>1. SUFFICES ASSUME x >= C PROVE FALSE  BY <2>1
    <3>2. h * x >= h * C  BY <3>1, <2>1
    <3>3. QED  BY <3>2, <2>1, <2>2
  <2>5. c(k) = x + 1 /\ s(k) = t + r  BY <2>1, <1>5
  <2> HIDE DEF c, s
  <2>6. QED  BY <2>1, <2>3, <2>4, <2>5
<1> HIDE DEF c, s
<1>8. ASSUME NEW k \in 1 .. n
      PROVE  /\ q[k].colour \in Colours /\ q[k].line \in Entries
             /\ q[k].line.row = lineno /\ q[k].line.subpass \in Subpasses
             /\ q[k].line.subpass >= current_vertical_subpass * sw.h_passes
             /\ q[k].line.subpass < (current_vertical_subpass + 1) * sw.h_passes
             /\ q[k].colour = c(k) /\ q[k].line.subpass = s(k)
  <2>1. q[k].colour = c(k) /\ q[k].line = [row |-> lineno, subpass |-> s(k), ink |-> c(k) \in ink]
    BY <1>3, Zenon DEF Line
  <2>2. PICK x \in 1 .. C, z \in Int : x = c(k) /\ z = s(k) /\ t <= z /\ z < t + h  BY <1>7
  <2>3. q[k].line = [row |-> lineno, subpass |-> z, ink |-> x \in ink]  BY <2>1, <2>2
  <2>4. q[k].line \in Entries /\ q[k].line.row = lineno /\ q[k].line.subpass = z
    BY <2>3, <1>4 DEF Entries
  <2>5. z \in 0 .. h * v - 1  BY <2>2, <1>6
  <2>6. Subpasses = 0 .. h * v - 1  BY <1>1 DEF Subpasses
  <2>7. /\ z >= current_vertical_subpass * sw.h_passes
        /\ z < (current_vertical_subpass + 1) * sw.h_passes
    BY <2>2, <1>1, <1>5, <1>6
  <2>8. QED  BY <2>1, <2>2, <2>4, <2>5, <2>6, <2>7, <1>1
<1>9. ASSUME NEW k \in 1 .. n, NEW i \in 1 .. n, q[k].colour = q[i].colour,
             q[k].line.subpass = q[i].line.subpass
      PROVE  k = i
  <2>1. c(k) = c(i) /\ s(k) = s(i)  BY <1>8, <1>9
  <2>2. k - 1 = i - 1  BY <2>1, <1>7
  <2>3. QED  BY <2>2
<1>10. QED  BY <1>3, <1>8, <1>9, Zenon

\* The lines with ink of a row that stp_write_weave hands over.
NewLines(ink) ==
    {<<lineno, l.colour, l.line.subpass>> : l \in {x \in Range(LinesOf(ink)) : x.line.ink}}

\* After the loop of stp_write_weave the bank is tidy with the lines of the row.
LEMMA LinesTidy ==
    ASSUME PageFacts, HandedOver, lineno <= sw.lastline, NEW ink, NEW b \in TidyBanks(inked)
    PROVE  LET d == FoldLeft(add_to_row, b, LinesOf(ink))
           IN  d = <<>> \/ d \in TidyBanks(inked \cup NewLines(ink))
<1> DEFINE q == LinesOf(ink)
<1>1. PICK n \in Nat :
         /\ DOMAIN q = 1 .. n
         /\ \A k \in 1 .. n :
               /\ q[k].colour \in Colours /\ q[k].line \in Entries
               /\ q[k].line.row = lineno /\ q[k].line.subpass \in Subpasses
               /\ q[k].line.subpass >= current_vertical_subpass * sw.h_passes
               /\ q[k].line.subpass < (current_vertical_subpass + 1) * sw.h_passes
         /\ \A k, i \in 1 .. n :
               q[k].colour = q[i].colour /\ q[k].line.subpass = q[i].line.subpass => k = i
  BY RowOfLines
<1> HIDE DEF q
<1> DEFINE Key(i) == <<lineno, q[i].colour, q[i].line.subpass>>
           Keys(k) == {Key(i) : i \in {x \in 1 .. k : q[x].line.ink}}
           A == Banks \cup {<<>>}
           B == [k \in 0 .. n |-> {<<>>} \cup TidyBanks(inked \cup Keys(k))]
<1>2. lineno \in sw.firstline .. sw.lastline  BY DEF HandedOver, PageFacts
<1>3. \A k \in 1 .. n : \A a \in A : add_to_row(a, q[k]) \in A
  BY <1>1, <1>2, AddToRowBanks, Zenon DEF Appends
<1>4. b \in A /\ b \in B[0]
  <2>1. Keys(0) = {}  OBVIOUS
  <2>2. 0 \in 0 .. n  OBVIOUS
  <2> HIDE DEF Keys
  <2>3. QED  BY <2>1, <2>2 DEF TidyBanks
<1>5. ASSUME NEW k \in 1 .. n, NEW a \in B[k - 1]
      PROVE  add_to_row(a, q[k]) \in B[k]
  <2>0. PICK l, d : l = q[k] /\ d = add_to_row(a, l)  OBVIOUS
  <2> DEFINE K == inked \cup Keys(k - 1)
             L == inked \cup Keys(k)
             s == Slot(lineno, l.line.subpass, l.colour)
  <2>1. k - 1 \in 0 .. n /\ k \in 0 .. n /\ k \in Int  OBVIOUS
  <2>2. a \in {<<>>} \cup TidyBanks(K) /\ B[k] = {<<>>} \cup TidyBanks(L)
    <3> HIDE DEF Keys
    <3>1. QED  BY <2>1
  <2>3. /\ l.colour \in Colours /\ l.line \in Entries /\ l.line.row = lineno
        /\ l.line.subpass \in Subpasses
        /\ l.line.subpass >= current_vertical_subpass * sw.h_passes
    BY <1>1, <2>0
  <2>4. K \subseteq L
    <3>1. 1 .. k - 1 \subseteq 1 .. k  BY <2>1
    <3>2. Keys(k - 1) \subseteq Keys(k)
      <4> HIDE DEF Key
      <4>1. QED  BY <3>1
    <3>3. QED  BY <3>2
  <2>5. l.line.ink => Key(k) \in L
    <3> HIDE DEF Key
    <3>1. QED  BY <2>0, <2>1
  <2>6. Key(k) \notin Keys(k - 1)
    <3>1. ASSUME NEW i \in 1 .. k - 1 PROVE Key(k) # Key(i)
      <4>1. i \in 1 .. n /\ i # k  BY <2>1
      <4>2. ~(q[k].colour = q[i].colour /\ q[k].line.subpass = q[i].line.subpass)
        BY <4>1, <1>1
      <4>3. QED  BY <4>2
    <3> HIDE DEF Key
    <3>2. QED  BY <3>1
  <2>7. Key(k) \notin inked
    <3>1. SUFFICES ASSUME Key(k) \in inked PROVE FALSE  OBVIOUS
    <3>2. PICK z : z = Key(k)  OBVIOUS
    <3>3. z[1] = lineno /\ z[3] = l.line.subpass  BY <3>2, <2>0
    <3>4. z[1] < lineno \/ (z[1] = lineno /\ z[3] < current_vertical_subpass * sw.h_passes)
      BY <3>1, <3>2 DEF HandedOver
    <3>5. lineno \in Int  BY <1>2, PageFacts DEF PageFacts
    <3>6. z[3] < current_vertical_subpass * sw.h_passes  BY <3>3, <3>4, <3>5
    <3>7. PICK x \in Int : x = current_vertical_subpass * sw.h_passes
      BY DEF HandedOver, PageFacts
    <3>8. PICK y \in Int : y = l.line.subpass  BY <2>3 DEF Entries
    <3>9. QED  BY <3>3, <3>6, <3>7, <3>8, <2>3
  <2>8. CASE a = <<>>
    <3>1. d = <<>>  BY <2>0, <2>8 DEF add_to_row
    <3> HIDE DEF B
    <3>2. QED  BY <2>0, <3>1, <2>2
  <2>9. CASE a \in TidyBanks(K)
    <3>1. a \in Banks /\ Tidy(State(a), K)  BY <2>9 DEF TidyBanks
    <3>2. \/ d = <<>>
          \/ /\ d \in Banks /\ s \in Slots
             /\ d[s].lines[l.colour] = Append(a[s].lines[l.colour], l.line)
             /\ \A t \in Slots, c \in Colours :
                   (t = s /\ c = l.colour) \/ d[t].lines[c] = a[t].lines[c]
      <4>1. a \in Banks \cup {<<>>}  BY <3>1
      <4> HIDE DEF K, L, A, B
      <4>2. Appends(a, add_to_row(a, l), l)  BY <4>1, <1>2, <2>3, AddToRowBanks, Zenon
      <4>3. QED  BY <4>2, <2>0, Zenon DEF Appends
    <3> HIDE DEF s, B
    <3>3. CASE d = <<>>  BY <3>3, <2>0, <2>2
    <3>4. CASE ~(d = <<>>)
      <4> DEFINE x == State(a)
                 y == State(d)
      <4>1. x.bank = a /\ y.bank = d /\ y.sent = x.sent  BY DEF State
      <4> HIDE DEF x, y, K, L
      <4>2. Tidy(x, K)  BY <3>1 DEF x
      <4>3. Key(k) = <<l.line.row, l.colour, l.line.subpass>>  BY <2>0, <2>3
      <4>4. /\ l.line.ink => <<l.line.row, l.colour, l.line.subpass>> \in L
            /\ <<l.line.row, l.colour, l.line.subpass>> \notin K
        BY <4>3, <2>5, <2>6, <2>7 DEF K
      <4>5. x.bank[s].lines[l.colour] \in Seq(Entries)
        <5> HIDE DEF A, B, Key
        <5>1. a \in Banks /\ s \in Slots  BY <3>1, <3>2, <3>4
        <5>2. a[s] \in SlotRecords  BY <5>1, Zenon DEF Banks
        <5>3. a[s].lines[l.colour] \in Seq(Entries)  BY <5>2, <2>3 DEF SlotRecords
        <5>4. QED  BY <5>3, <4>1, Zenon
      <4>6. /\ y.bank[s].lines[l.colour] = Append(x.bank[s].lines[l.colour], l.line)
            /\ \A t \in Slots, c \in Colours :
                  (t = s /\ c = l.colour) \/ y.bank[t].lines[c] = x.bank[t].lines[c]
            /\ s \in Slots /\ d \in Banks
        BY <3>2, <3>4, <4>1, Zenon
      <4>7. Tidy(y, L)
        <5> HIDE DEF A, B, Key
        <5>1. l.colour \in Colours /\ l.line \in Entries  BY <2>3
        <5>2. PICK c, e : c = l.colour /\ e = l.line  OBVIOUS
        <5>3. c \in Colours /\ e \in Entries /\ s \in Slots  BY <4>6, <5>1, <5>2, Zenon
        <5>4. AddsLine(x, y, s, c, e)
          <6>1. /\ x.bank[s].lines[c] \in Seq(Entries)
                /\ y.bank[s].lines[c] = Append(x.bank[s].lines[c], e)
            BY <4>5, <4>6, <5>2, Zenon
          <6>2. \A t \in Slots, i \in Colours :
                   (t = s /\ i = c) \/ y.bank[t].lines[i] = x.bank[t].lines[i]
            BY <4>6, <5>2, Zenon
          <6>3. QED  BY <4>1, <6>1, <6>2, Zenon DEF AddsLine
        <5>5. e.ink => <<e.row, c, e.subpass>> \in L /\ <<e.row, c, e.subpass>> \notin K
          BY <4>4, <5>2, Zenon
        <5>6. QED  BY <4>2, <5>3, <5>4, <5>5, <2>4, AddedTidy, Zenon
      <4>8. d \in TidyBanks(L)
        <5>1. Tidy(State(d), L)  BY <4>7 DEF y
        <5>2. QED  BY <4>6, <5>1, Zenon DEF TidyBanks
      <4>9. QED  BY <4>8, <2>0, <2>2
    <3>5. QED  BY <3>3, <3>4
  <2>10. QED
    <3> HIDE DEF B, K
    <3>1. QED  BY <2>2, <2>8, <2>9
<1>6. FoldLeft(add_to_row, b, LinesOf(ink)) \in B[n]
  <2>1. q = LinesOf(ink) /\ DOMAIN q = 1 .. n  BY <1>1 DEF q
  <2> HIDE DEF A, B
  <2>2. QED  BY <1>3, <1>4, <1>5, <2>1, AddTurns, Zenon
<1>7. B[n] = {<<>>} \cup TidyBanks(inked \cup Keys(n))
  <2>1. n \in 0 .. n  OBVIOUS
  <2> HIDE DEF Keys
  <2>2. QED  BY <2>1
<1>8. Keys(n) = NewLines(ink)
  <2>1. Range(q) = {q[i] : i \in 1 .. n}  BY <1>1 DEF Range
  <2>2. NewLines(ink) = {<<lineno, l.colour, l.line.subpass>> : l \in {x \in Range(q) : x.line.ink}}
    BY DEF NewLines, q
  <2>3. QED  BY <2>1, <2>2
<1>9. QED
  <2> HIDE DEF B, Keys
  <2>1. QED  BY <1>6, <1>7, <1>8

\* The fields of a slot that change.
LEMMA SlotUpdate ==
    ASSUME NEW r \in SlotRecords, NEW lines, NEW counts
    PROVE  /\ [r EXCEPT !.linecount = counts]
                = [pass |-> r.pass, lines |-> r.lines, linecount |-> counts,
                   lineactive |-> r.lineactive]
           /\ [r EXCEPT !.lines = lines, !.linecount = counts]
                = [pass |-> r.pass, lines |-> lines, linecount |-> counts,
                   lineactive |-> r.lineactive]
<1>1. r = [pass |-> r.pass, lines |-> r.lines, linecount |-> r.linecount,
           lineactive |-> r.lineactive]
  BY DEF SlotRecords
<1>2. PICK a, b, c, d : r = [pass |-> a, lines |-> b, linecount |-> c, lineactive |-> d]
  BY <1>1, Zenon
<1> DEFINE x(p, q) == [pass |-> a, lines |-> p, linecount |-> q, lineactive |-> d]
<1>3. [x(b, c) EXCEPT !.linecount = counts] = x(b, counts)  OBVIOUS
<1>4. [x(b, c) EXCEPT !.lines = lines] = x(lines, c)  OBVIOUS
<1>5. [x(lines, c) EXCEPT !.linecount = counts] = x(lines, counts)  OBVIOUS
<1>6. r.pass = a /\ r.lines = b /\ r.lineactive = d  BY <1>2
<1>7. [r EXCEPT !.lines = lines, !.linecount = counts]
        = [[r EXCEPT !.lines = lines] EXCEPT !.linecount = counts]
  BY Zenon
<1>8. [r EXCEPT !.lines = lines, !.linecount = counts] = x(lines, counts)
  BY <1>2, <1>4, <1>5, <1>7, Zenon
<1>9. QED  BY <1>2, <1>3, <1>6, <1>8, Zenon

\* A count of a slot goes up.
LEMMA NestedUpdate ==
    ASSUME NEW S, NEW T, NEW b \in [S -> T], NEW s \in S, NEW c
    PROVE  [b EXCEPT ![s].linecount[c] = @ + 1]
             = [b EXCEPT ![s] = [b[s] EXCEPT !.linecount
                                    = [b[s].linecount EXCEPT ![c] = b[s].linecount[c] + 1]]]
<1>1. PICK v : v = b[s].linecount[c] + 1  OBVIOUS
<1>2. [b EXCEPT ![s].linecount[c] = @ + 1] = [b EXCEPT ![s].linecount[c] = v]  BY <1>1, Zenon
<1>3. [b EXCEPT ![s].linecount[c] = v]
        = [b EXCEPT ![s] = [b[s] EXCEPT !.linecount = [@ EXCEPT ![c] = v]]]
  BY Zenon
<1>4. [b[s] EXCEPT !.linecount = [@ EXCEPT ![c] = v]]
        = [b[s] EXCEPT !.linecount = [b[s].linecount EXCEPT ![c] = v]]
  BY Zenon
<1>5. QED  BY <1>1, <1>2, <1>3, <1>4, Zenon

\* A state with another bank.
LEMMA BankedTidy ==
    ASSUME PageFacts, NEW K, NEW st \in TidyStates(K), NEW y \in States, y.sent = st.sent,
           OnlyBlanks(st.bank, y.bank)
    PROVE  y \in TidyStates(K)
<1>1. Tidy(st, K)  BY DEF TidyStates
<1>2. \A s \in Slots, c \in Colours :
         y.bank[s].lines[c] = st.bank[s].lines[c] \/ InkIn(y.bank[s].lines[c]) = {}
  BY Zenon DEF OnlyBlanks
<1>3. Tidy(y, K)  BY <1>1, <1>2, BlankedTidy
<1>4. QED  BY <1>3, Zenon DEF TidyStates

\* The line counts say nothing of the lines.
LEMMA CountLineTidy ==
    ASSUME PageFacts, lineno \in sw.firstline .. sw.lastline, NEW K, NEW st \in TidyStates(K),
           NEW subpass \in Subpasses, NEW c \in Colours
    PROVE  CountLine(st, subpass, c) \in TidyStates(K)
<1>1. PICK s \in Slots : s = Slot(lineno, subpass, c)  BY Zenon DEF PageFacts
<1>2. st \in States  BY DEF TidyStates
<1>3. PICK b \in Banks : b = st.bank  BY <1>2 DEF States
<1>4. PICK r \in SlotRecords : r = b[s]  BY DEF Banks
<1> DEFINE counts == [r.linecount EXCEPT ![c] = r.linecount[c] + 1]
           z == [r EXCEPT !.linecount = counts]
           d == [b EXCEPT ![s] = z]
           y == [st EXCEPT !.bank = d]
<1>5. counts \in [Colours -> Int]
  <2>1. r.linecount \in [Colours -> Int]  BY DEF SlotRecords
  <2>2. QED  BY <2>1
<1> HIDE DEF counts
<1>6. z \in SlotRecords /\ z.lines = r.lines
  <2>1. z = [pass |-> r.pass, lines |-> r.lines, linecount |-> counts,
             lineactive |-> r.lineactive]
    BY SlotUpdate, Zenon
  <2> HIDE DEF z
  <2>2. QED  BY <2>1, <1>5 DEF SlotRecords
<1>7. CountLine(st, subpass, c) = y
  <2>1. CountLine(st, subpass, c) = [st EXCEPT !.bank[s].linecount[c] = @ + 1]
    BY <1>1, Zenon DEF CountLine
  <2>2. [b EXCEPT ![s].linecount[c] = @ + 1] = d
    BY <1>4, NestedUpdate DEF Banks, counts
  <2>3. st = [bank |-> b, last_pass |-> st.last_pass, last_pass_offset |-> st.last_pass_offset,
              sent |-> st.sent]
    BY <1>2, <1>3 DEF States
  <2> HIDE DEF d
  <2>4. [st EXCEPT !.bank[s].linecount[c] = @ + 1]
          = [st EXCEPT !.bank = [b EXCEPT ![s].linecount[c] = @ + 1]]
    BY <2>3, <1>3, Zenon
  <2>5. QED  BY <2>1, <2>2, <2>4
<1> HIDE DEF z
<1>8. d \in Banks /\ OnlyBlanks(b, d)
  <2>1. \A i \in Colours : z.lines[i] = b[s].lines[i] \/ InkIn(z.lines[i]) = {}
    BY <1>4, <1>6
  <2>2. QED  BY <1>6, <2>1, SlotChanged, Zenon
<1> HIDE DEF d
<1>9. y \in States /\ y.sent = st.sent /\ y.bank = d  BY <1>2, <1>8 DEF States
<1> HIDE DEF y
<1>10. y \in TidyStates(K)  BY <1>3, <1>8, <1>9, BankedTidy, Zenon
<1>11. QED  BY <1>7, <1>10

\* CountLines leaves a tidy state tidy.
LEMMA CountLinesTidy ==
    ASSUME PageFacts, lineno \in sw.firstline .. sw.lastline, NEW K, NEW st \in TidyStates(K),
           NEW subpass \in Subpasses
    PROVE  CountLines(st, subpass) \in TidyStates(K)
<1> DEFINE q == [c \in Colours |-> c]
           n == Len(sw.head_offset)
<1>1. n \in Nat /\ Colours = 1 .. n  BY DEF PageFacts
<1>2. DOMAIN q = 1 .. n /\ \A k \in 1 .. n : q[k] = k /\ k \in Colours  BY <1>1
<1>3. q = [c \in Colours |-> c]  OBVIOUS
<1> HIDE DEF q, n
<1>4. \A k \in 1 .. n : \A a \in TidyStates(K) : CountLine(a, subpass, q[k]) \in TidyStates(K)
  BY <1>2, CountLineTidy, Zenon
<1>5. QED  BY <1>1, <1>2, <1>3, <1>4, CountTurns, Zenon

\* What stpi_escp2_flush_pass and its caller make of a state: the lines of the
\* active colours move from the slot to the passes sent.
Flushed(st, s, y) ==
    LET slot   == st.bank[s]
        active == {c \in Colours : slot.lineactive[c]}
    IN  \E z \in SlotRecords, e \in SentPasses :
           /\ y.bank = [st.bank EXCEPT ![s] = z] /\ y.sent = Append(st.sent, e)
           /\ z.lines = [c \in Colours |-> <<>>]
           /\ e.lines = [c \in active |-> slot.lines[c]]

\* A turn of the loop of stpi_flush_passes stops at a pass that is not there or
\* not complete, or sends what one slot holds and empties it.
LEMMA FlushNextSends ==
    ASSUME PageFacts, NEW st \in States, NEW flushall
    PROVE  \/ FlushNext(st, flushall) = st
           \/ /\ FlushNext(st, flushall) \in States
              /\ \E s \in Slots : Flushed(st, s, FlushNext(st, flushall))
<1> DEFINE s == (st.last_pass + 1) % sw.vmod
           slot == st.bank[s]
           p == slot.pass
<1>1. CASE p.pass < 0 \/ (~flushall /\ p.physpassend >= lineno)
  <2>1. FlushNext(st, flushall) = st  BY <1>1, Zenon DEF FlushNext
  <2>2. QED  BY <2>1
<1>2. CASE ~(p.pass < 0 \/ (~flushall /\ p.physpassend >= lineno))
  <2>1. FlushNext(st, flushall)
          = [stpi_escp2_flush_pass(st, s) EXCEPT !.last_pass = p.pass, !.bank[s].pass.pass = -1]
    BY <1>2, Zenon DEF FlushNext
  <2>2. s \in Slots
    <3>1. st.last_pass + 1 \in Int  BY DEF States
    <3>2. sw.vmod \in Nat \ {0}  BY DEF PageFacts
    <3>3. QED  BY <3>1, <3>2, Quotient DEF Slots
  <2> HIDE DEF s
  <2>3. st.bank \in Banks /\ slot \in SlotRecords /\ p \in Headers
    <3>1. st.bank \in Banks  BY DEF States
    <3>2. slot \in SlotRecords  BY <3>1, <2>2 DEF Banks
    <3> HIDE DEF slot
    <3>3. QED  BY <3>1, <3>2 DEF SlotRecords
  <2> DEFINE active == {c \in Colours : slot.lineactive[c]}
             at == IF active = {} THEN st.last_pass_offset
                   ELSE set_vertical_position(st, slot.pass.logicalpassstart)
             blank == [c \in Colours |-> <<>>]
             zero == [c \in Colours |-> 0]
             z == [pass |-> [p EXCEPT !.pass = -1], lines |-> blank,
                   linecount |-> zero, lineactive |-> slot.lineactive]
             e == [pass |-> p.pass, subpass |-> p.subpass, at |-> at,
                   nlines |-> [c \in active |-> Announced(slot.linecount[c])],
                   empty |-> [c \in active |-> EmptyLines(slot.linecount[c])],
                   lines |-> [c \in active |-> slot.lines[c]]]
             y == [bank |-> [st.bank EXCEPT ![s] = z], last_pass |-> p.pass,
                   last_pass_offset |-> at, sent |-> Append(st.sent, e)]
  <2>4. at \in Int
    <3>1. st.last_pass_offset \in Int  BY DEF States
    <3>2. slot.pass.logicalpassstart \in Int  BY <2>3 DEF Headers
    <3> HIDE DEF slot, active
    <3>3. QED  BY <3>1, <3>2, Zenon DEF set_vertical_position
  <2>5. z \in SlotRecords
    <3>1. [p EXCEPT !.pass = -1] \in Headers  BY <2>3 DEF Headers
    <3>2. blank \in [Colours -> Seq(Entries)]
      <4>1. <<>> \in Seq(Entries)  OBVIOUS
      <4>2. QED  BY <4>1
    <3>3. zero \in [Colours -> Int]  OBVIOUS
    <3>4. slot.lineactive \in [Colours -> BOOLEAN]  BY <2>3 DEF SlotRecords
    <3> HIDE DEF slot, p, blank, zero
    <3>5. QED  BY <3>1, <3>2, <3>3, <3>4 DEF SlotRecords
  <2>6. e \in SentPasses /\ e.lines = [c \in active |-> slot.lines[c]]
    <3>1. slot.linecount \in [Colours -> Int] /\ slot.lines \in [Colours -> Seq(Entries)]
      BY <2>3 DEF SlotRecords
    <3>2. p.pass \in Int /\ p.subpass \in Int  BY <2>3 DEF Headers
    <3> HIDE DEF slot, p, at
    <3>3. active \in SUBSET Colours  OBVIOUS
    <3> HIDE DEF active
    <3>4. /\ [c \in active |-> Announced(slot.linecount[c])] \in [active -> Int]
          /\ [c \in active |-> EmptyLines(slot.linecount[c])] \in [active -> Int]
      <4>1. job.min_nozzles \in Int /\ job.nozzle_start \in Int  BY DEF PageFacts
      <4>2. \A n \in Int : Announced(n) \in Int /\ EmptyLines(n) \in Int
        BY <4>1 DEF Announced, EmptyLines
      <4>3. \A c \in active : slot.linecount[c] \in Int  BY <3>1, <3>3
      <4>4. QED  BY <4>2, <4>3
    <3>5. [c \in active |-> slot.lines[c]] \in [active -> Seq(Entries)]
      BY <3>1, <3>3
    <3> DEFINE u == [c \in active |-> Announced(slot.linecount[c])]
               g == [c \in active |-> EmptyLines(slot.linecount[c])]
               v == [c \in active |-> slot.lines[c]]
    <3>6. /\ u \in UNION {[cs -> Int] : cs \in SUBSET Colours}
          /\ g \in UNION {[cs -> Int] : cs \in SUBSET Colours}
          /\ v \in UNION {[cs -> Seq(Entries)] : cs \in SUBSET Colours}
      BY <3>3, <3>4, <3>5, Zenon
    <3>7. e = [pass |-> p.pass, subpass |-> p.subpass, at |-> at, nlines |-> u, empty |-> g,
               lines |-> v]
      OBVIOUS
    <3> HIDE DEF e, u, g, v
    <3>8. e \in SentPasses /\ e.lines = v
      <4> DEFINE U == UNION {[cs -> Int] : cs \in SUBSET Colours}
                 V == UNION {[cs -> Seq(Entries)] : cs \in SUBSET Colours}
      <4>1. SentPasses = [pass : Int, subpass : Int, at : Int, nlines : U, empty : U, lines : V]
        BY Zenon DEF SentPasses
      <4>2. u \in U /\ g \in U /\ v \in V /\ at \in Int  BY <3>6, <2>4
      <4> HIDE DEF U, V
      <4>3. QED  BY <4>1, <4>2, <3>2, <3>7
    <3>9. QED  BY <3>8 DEF v
  <2>7. FlushNext(st, flushall) = y
    <3> DEFINE cleared == [slot EXCEPT !.lines = blank, !.linecount = zero]
               w == [bank |-> [st.bank EXCEPT ![s] = cleared], last_pass |-> st.last_pass,
                     last_pass_offset |-> at, sent |-> Append(st.sent, e)]
    <3>1. Cleared(slot, active) = cleared  BY DEF Cleared
    <3>2. stpi_escp2_flush_pass(st, s)
            = [st EXCEPT !.last_pass_offset = at, !.sent = Append(@, e),
                         !.bank[s] = Cleared(@, active)]
      BY Zenon DEF stpi_escp2_flush_pass
    <3> HIDE DEF e, at, blank, zero, active
    <3>3. [st EXCEPT !.last_pass_offset = at, !.sent = Append(@, e),
                     !.bank[s] = Cleared(@, active)]
            = [st EXCEPT !.last_pass_offset = at, !.sent = Append(st.sent, e),
                         !.bank = [st.bank EXCEPT ![s] = cleared]]
      BY <3>1, <2>2, <2>3 DEF States, Banks
    <3>4. stpi_escp2_flush_pass(st, s) = w
      BY <3>2, <3>3 DEF States
    <3>5. [w EXCEPT !.last_pass = p.pass, !.bank[s].pass.pass = -1] = y
      <4>1. cleared = [pass |-> p, lines |-> blank, linecount |-> zero,
                       lineactive |-> slot.lineactive]
        <5> HIDE DEF slot, p, blank, zero
        <5>1. cleared = [pass |-> slot.pass, lines |-> blank, linecount |-> zero,
                         lineactive |-> slot.lineactive]
          <6>1. PICK r, u : r = slot /\ u = zero  OBVIOUS
          <6>2. r \in SlotRecords  BY <2>3, <6>1
          <6>3. [r EXCEPT !.lines = blank, !.linecount = u]
                  = [pass |-> r.pass, lines |-> blank, linecount |-> u,
                     lineactive |-> r.lineactive]
            BY <6>2, SlotUpdate, Zenon
          <6>4. QED  BY <6>1, <6>3
        <5>2. QED  BY <5>1 DEF p
      <4>2. [cleared EXCEPT !.pass.pass = -1] = z
        <5> HIDE DEF cleared, p, slot
        <5>1. QED  BY <4>1, <2>3 DEF Headers
      <4> DEFINE g == [st.bank EXCEPT ![s] = cleared]
                 h == [g EXCEPT ![s].pass.pass = -1]
      <4>3. h = [st.bank EXCEPT ![s] = z]
        <5> HIDE DEF cleared, z, slot, p
        <5>1. g[s] = cleared /\ g \in [Slots -> {g[t] : t \in Slots}]
          BY <2>2, <2>3 DEF Banks
        <5>2. h = [g EXCEPT ![s] = [cleared EXCEPT !.pass.pass = -1]]
          BY <5>1, <2>2
        <5>3. h = [g EXCEPT ![s] = z]  BY <5>2, <4>2
        <5>4. [g EXCEPT ![s] = z] = [st.bank EXCEPT ![s] = z]
          BY <2>2, <2>3 DEF Banks
        <5>5. QED  BY <5>3, <5>4
      <4>4. [w EXCEPT !.last_pass = p.pass, !.bank[s].pass.pass = -1]
              = [bank |-> h, last_pass |-> p.pass, last_pass_offset |-> at,
                 sent |-> Append(st.sent, e)]
        <5> HIDE DEF g, slot, p
        <5> DEFINE x == [bank |-> g, last_pass |-> st.last_pass,
                         last_pass_offset |-> at, sent |-> Append(st.sent, e)]
        <5>1. w = x  BY DEF g
        <5> HIDE DEF w
        <5>2. [x EXCEPT !.last_pass = p.pass, !.bank[s].pass.pass = -1]
                = [x EXCEPT !.last_pass = p.pass, !.bank = h]
          BY Zenon
        <5> HIDE DEF h
        <5>3. [x EXCEPT !.last_pass = p.pass, !.bank = h]
                = [bank |-> h, last_pass |-> p.pass, last_pass_offset |-> at,
                   sent |-> Append(st.sent, e)]
          <6>1. PICK a, b, c, d, u, i :
                   /\ a = g /\ b = st.last_pass /\ c = at /\ d = Append(st.sent, e)
                   /\ u = p.pass /\ i = h
            OBVIOUS
          <6> DEFINE r(f, l) == [bank |-> f, last_pass |-> l, last_pass_offset |-> c, sent |-> d]
          <6>2. [r(a, b) EXCEPT !.last_pass = u] = r(a, u)  OBVIOUS
          <6>3. [r(a, u) EXCEPT !.bank = i] = r(i, u)  OBVIOUS
          <6>4. [r(a, b) EXCEPT !.last_pass = u, !.bank = i]
                  = [[r(a, b) EXCEPT !.last_pass = u] EXCEPT !.bank = i]
            BY Zenon
          <6>5. [r(a, b) EXCEPT !.last_pass = u, !.bank = i] = r(i, u)
            BY <6>2, <6>3, <6>4, Zenon
          <6>6. QED  BY <6>1, <6>5
        <5>4. QED  BY <5>1, <5>2, <5>3
      <4> HIDE DEF h, z, p
      <4>5. QED  BY <4>3, <4>4
    <3> HIDE DEF w, y, cleared
    <3>6. QED  BY <2>1, <3>4, <3>5
  <2>8. y \in States
    <3>1. st.sent \in Seq(SentPasses) /\ p.pass \in Int  BY <2>3 DEF States, Headers
    <3> HIDE DEF e, z, at, slot, p
    <3>2. Append(st.sent, e) \in Seq(SentPasses)  BY <3>1, <2>6
    <3>3. [st.bank EXCEPT ![s] = z] \in Banks  BY <2>3, <2>5 DEF Banks
    <3>4. QED  BY <3>1, <3>2, <3>3, <2>4 DEF States
  <2>9. Flushed(st, s, y)
    <3>1. y.bank = [st.bank EXCEPT ![s] = z] /\ y.sent = Append(st.sent, e) /\ z.lines = blank
      OBVIOUS
    <3> HIDE DEF y, z, e
    <3>2. QED  BY <3>1, <2>5, <2>6, Zenon DEF Flushed
  <2> HIDE DEF y
  <2>10. QED  BY <2>2, <2>7, <2>8, <2>9
<1>3. QED  BY <1>1, <1>2

\* Sending a pass moves its lines from the slot to the passes sent.
LEMMA FlushedTidy ==
    ASSUME PageFacts, NEW K, NEW st \in TidyStates(K), NEW y \in States,
           NEW s \in Slots, Flushed(st, s, y)
    PROVE  y \in TidyStates(K)
<1>1. st \in States /\ Tidy(st, K)  BY DEF TidyStates
<1> DEFINE active == {c \in Colours : st.bank[s].lineactive[c]}
<1>2. PICK z \in SlotRecords, e \in SentPasses :
         /\ y.bank = [st.bank EXCEPT ![s] = z] /\ y.sent = Append(st.sent, e)
         /\ z.lines = [c \in Colours |-> <<>>]
         /\ e.lines = [c \in active |-> st.bank[s].lines[c]]
  BY DEF Flushed
<1>3. PICK n \in Nat : n = Len(st.sent)  BY <1>1 DEF States
<1>4. /\ Len(y.sent) = n + 1 /\ y.sent[n + 1] = e
      /\ \A i \in 1 .. n : y.sent[i] = st.sent[i]
  <2>1. PICK q \in Seq(SentPasses) : q = st.sent  BY <1>1 DEF States
  <2>2. Len(q) = n /\ y.sent = Append(q, e)  BY <2>1, <1>2, <1>3
  <2>3. QED  BY <2>1, <2>2
<1>5. /\ y.bank[s].lines = [c \in Colours |-> <<>>]
      /\ \A t \in Slots : t # s => y.bank[t] = st.bank[t]
  <2>1. st.bank \in Banks  BY <1>1 DEF States
  <2>2. y.bank[s] = z /\ \A t \in Slots : t # s => y.bank[t] = st.bank[t]
    BY <2>1, <1>2 DEF Banks
  <2>3. QED  BY <2>2, <1>2
<1>6. PICK v \in Nat \ {0} : v = sw.vmod /\ s \in 0 .. v - 1 /\ Slots = 0 .. v - 1
  BY DEF PageFacts, Slots
<1>7. Holders(st) = 1 - v .. n /\ Holders(y) = 1 - v .. n + 1
  BY <1>3, <1>4, <1>6 DEF Holders
<1> DEFINE m == [h \in Holders(y) |-> IF h = n + 1 THEN -s ELSE h]
<1>8. \A h \in Holders(y) : m[h] \in Holders(st)  BY <1>6, <1>7
<1>9. \A c \in Colours : InkIn(LinesIn(y, -s, c)) = {}
  <2>1. TAKE c \in Colours
  <2>2. -s <= 0 /\ -(-s) = s  BY <1>6
  <2>3. LinesIn(y, -s, c) = <<>>  BY <2>2, <1>5 DEF LinesIn
  <2>4. QED  BY <2>3 DEF InkIn
<1>10. ASSUME NEW h \in Holders(y), NEW c \in Colours
       PROVE  LinesIn(y, h, c) = LinesIn(st, m[h], c) \/ InkIn(LinesIn(y, h, c)) = {}
  <2>1. CASE h = n + 1
    <3>1. m[h] = -s  BY <2>1
    <3>2. LinesIn(st, -s, c) = st.bank[s].lines[c]
      <4>1. -s <= 0 /\ -(-s) = s  BY <1>6
      <4>2. QED  BY <4>1 DEF LinesIn
    <3>3. LinesIn(y, h, c) = IF c \in DOMAIN e.lines THEN e.lines[c] ELSE <<>>
      <4>1. ~(h <= 0)  BY <2>1
      <4>2. QED  BY <4>1, <2>1, <1>4, Zenon DEF LinesIn
    <3>4. CASE c \in active
      <4>1. LinesIn(y, h, c) = st.bank[s].lines[c]  BY <3>3, <3>4, <1>2
      <4>2. QED  BY <4>1, <3>1, <3>2
    <3>5. CASE c \notin active
      <4>1. LinesIn(y, h, c) = <<>>
        <5>1. DOMAIN e.lines = active  BY <1>2
        <5> HIDE DEF active
        <5>2. QED  BY <5>1, <3>3, <3>5, Zenon
      <4>2. QED  BY <4>1 DEF InkIn
    <3>6. QED  BY <3>4, <3>5
  <2>2. CASE h # n + 1 /\ h > 0
    <3>1. h \in 1 .. n /\ ~(h <= 0) /\ m[h] = h  BY <2>2, <1>7
    <3>2. y.sent[h] = st.sent[h]  BY <3>1, <1>4
    <3>3. LinesIn(y, h, c) = LinesIn(st, h, c)  BY <3>1, <3>2, Zenon DEF LinesIn
    <3>4. QED  BY <3>1, <3>3
  <2>3. CASE h # n + 1 /\ h <= 0 /\ h # -s
    <3>0. h \in 1 - v .. n + 1 /\ h <= 0 /\ h # -s /\ s \in 0 .. v - 1  BY <2>3, <1>6, <1>7
    <3>1. -h \in Slots /\ -h # s /\ m[h] = h
      <4>1. m[h] = h  BY <2>3
      <4>2. -h \in 0 .. v - 1 /\ -h # s  BY <3>0
      <4>3. QED  BY <4>1, <4>2, <1>6
    <3>2. y.bank[-h] = st.bank[-h]  BY <3>1, <1>5
    <3>3. LinesIn(y, h, c) = LinesIn(st, h, c)  BY <2>3, <3>2, Zenon DEF LinesIn
    <3>4. QED  BY <3>1, <3>3
  <2>4. CASE h = -s  BY <2>4, <1>9
  <2>5. h > 0 \/ h <= 0  BY <1>7
  <2>6. QED  BY <2>1, <2>2, <2>3, <2>4, <2>5
<1>11. ASSUME NEW h \in Holders(y), NEW i \in Holders(y), m[h] = m[i]
       PROVE  \/ h = i
              \/ \A c \in Colours : InkIn(LinesIn(y, h, c)) = {}
              \/ \A c \in Colours : InkIn(LinesIn(y, i, c)) = {}
  <2>1. h = i \/ h = -s \/ i = -s  BY <1>11, <1>6, <1>7
  <2>2. QED  BY <2>1, <1>9
<1> HIDE DEF m
<1>12. Tidy(y, K)  BY <1>1, <1>8, <1>10, <1>11, MovedTidy
<1>13. QED  BY <1>12, Zenon DEF TidyStates

\* Either way the state stays tidy: what is sent is no longer in a slot.
LEMMA FlushNextTidy ==
    ASSUME PageFacts, NEW K, NEW st \in TidyStates(K), NEW flushall
    PROVE  FlushNext(st, flushall) \in TidyStates(K)
<1>1. st \in States  BY DEF TidyStates
<1>2. \/ FlushNext(st, flushall) = st
      \/ /\ FlushNext(st, flushall) \in States
         /\ \E s \in Slots : Flushed(st, s, FlushNext(st, flushall))
  BY <1>1, FlushNextSends
<1>3. QED  BY <1>2, FlushedTidy, Zenon

\* The loop of stpi_flush_passes, whatever it is told to flush.
LEMMA FlushPassesTidy ==
    ASSUME PageFacts, NEW K, NEW st \in TidyStates(K), NEW flushall
    PROVE  stpi_flush_passes(st, flushall) \in TidyStates(K)
<1> DEFINE held == {s \in Slots : st.bank[s].pass.pass >= 0}
           n == Cardinality(held)
           q == [turn \in 1 .. n |-> turn]
<1>1. n \in Nat
  <2>1. IsFiniteSet(Slots)
    <3>1. 0 \in Int /\ sw.vmod - 1 \in Int  BY DEF PageFacts
    <3>2. QED  BY <3>1, FS_Interval DEF Slots
  <2>2. held \in SUBSET Slots  OBVIOUS
  <2>3. IsFiniteSet(held)  BY <2>1, <2>2, FS_Subset
  <2>4. QED  BY <2>3, FS_CardinalityType
<1>2. q = [turn \in 1 .. Cardinality({s \in Slots : st.bank[s].pass.pass >= 0}) |-> turn]
      /\ DOMAIN q = 1 .. n
  OBVIOUS
<1> HIDE DEF q, n, held
<1>3. \A k \in 1 .. n : \A a \in TidyStates(K) : FlushNext(a, flushall) \in TidyStates(K)
  BY FlushNextTidy
<1>4. QED  BY <1>1, <1>2, <1>3, FlushTurns, Zenon

\* finalize_row.
LEMMA FinalizeRowTidy ==
    ASSUME PageFacts, lineno \in sw.firstline .. sw.lastline, NEW K, NEW st \in TidyStates(K)
    PROVE  finalize_row(st) \in TidyStates(K)
<1> DEFINE n == sw.oversample
           q == [k \in 1 .. n |-> k - 1]
<1>1. n \in Nat
  <2>1. PICK u \in Nat \ {0}, v \in Nat \ {0} : u = sw.h_passes /\ v = sw.vertical_oversample
    BY DEF PageFacts
  <2>2. sw.oversample = u * v  BY <2>1 DEF PageFacts
  <2>3. QED  BY <2>2
<1>2. q = [k \in 1 .. sw.oversample |-> k - 1] /\ DOMAIN q = 1 .. n  OBVIOUS
<1>3. \A k \in 1 .. n : q[k] \in Subpasses  BY <1>1 DEF Subpasses
<1>4. ASSUME NEW s \in Subpasses, NEW a \in TidyStates(K)
      PROVE  finalize_subpass(a, s) \in TidyStates(K)
  <2>1. CountLines(a, s) \in TidyStates(K)  BY CountLinesTidy
  <2>2. stpi_flush_passes(CountLines(a, s), FALSE) \in TidyStates(K)  BY <2>1, FlushPassesTidy
  <2>3. QED  BY <2>1, <2>2, Zenon DEF finalize_subpass
<1> HIDE DEF q, n
<1>5. \A k \in 1 .. n : \A a \in TidyStates(K) : finalize_subpass(a, q[k]) \in TidyStates(K)
  BY <1>3, <1>4
<1>6. QED  BY <1>1, <1>2, <1>5, FinalizeTurns, Zenon

\* The invariant: what has been printed or waits in a slot is tidy.
EachLineKept ==
    /\ SwOfTheJob
    /\ job.strategy # "ascending_3x" => State(bank) \in TidyStates(inked) /\ HandedOver

\* At the start there are no lines.
LEMMA InitTidy ==
    ASSUME Init, job.strategy # "ascending_3x"
    PROVE  State(bank) \in TidyStates(inked) /\ HandedOver
<1>1. PageFacts
  <2>1. SwOfTheJob  BY DEF Init, SwOfTheJob
  <2>2. QED  BY <2>1, PageHasFacts
<1>2. HandedOver
  <2>1. inked = {} /\ lineno = sw.firstline /\ current_vertical_subpass = 0  BY DEF Init
  <2>2. IsFiniteSet({})  BY FS_EmptySet
  <2>3. sw.firstline \in sw.firstline .. sw.lastline + 1  BY <1>1 DEF PageFacts
  <2>4. 0 \in 0 .. sw.vertical_oversample - 1  BY <1>1 DEF PageFacts
  <2>5. QED  BY <2>1, <2>2, <2>3, <2>4 DEF HandedOver
<1> DEFINE blank == [c \in Colours |-> <<>>]
           zero == [c \in Colours |-> 0]
           no == [c \in Colours |-> FALSE]
           z == [pass |-> NoPass, lines |-> blank, linecount |-> zero, lineactive |-> no]
<1>3. bank = [s \in Slots |-> z] /\ sent = <<>> /\ last_pass = -1 /\ last_pass_offset = 0
  BY DEF Init, EmptySlot
<1>4. z \in SlotRecords
  <2>1. blank \in [Colours -> Seq(Entries)]
    <3>1. <<>> \in Seq(Entries)  OBVIOUS
    <3>2. QED  BY <3>1
  <2>2. zero \in [Colours -> Int] /\ no \in [Colours -> BOOLEAN]  OBVIOUS
  <2>3. NoPass \in Headers  BY DEF NoPass, Headers
  <2> HIDE DEF blank, zero, no
  <2>4. QED  BY <2>1, <2>2, <2>3 DEF SlotRecords
<1>5. bank \in Banks
  <2> HIDE DEF z
  <2>1. QED  BY <1>3, <1>4 DEF Banks
<1>6. State(bank) \in States
  <2>1. <<>> \in Seq(SentPasses)  OBVIOUS
  <2>2. QED  BY <2>1, <1>3, <1>5 DEF State, States
<1>7. ASSUME NEW h \in Holders(State(bank)), NEW c \in Colours
      PROVE  InkIn(LinesIn(State(bank), h, c)) = {}
  <2>1. State(bank).bank = bank /\ State(bank).sent = <<>>  BY <1>3 DEF State
  <2>2. h <= 0 /\ -h \in Slots
    <3>1. Len(<<>>) = 0 /\ sw.vmod \in Nat  BY <1>1 DEF PageFacts
    <3>2. h \in 1 - sw.vmod .. 0  BY <3>1, <2>1 DEF Holders
    <3>3. QED  BY <3>1, <3>2 DEF Slots
  <2>3. LinesIn(State(bank), h, c) = bank[-h].lines[c]  BY <2>1, <2>2, Zenon DEF LinesIn
  <2>4. bank[-h] = z
    <3> HIDE DEF z
    <3>1. QED  BY <2>2, <1>3
  <2>5. bank[-h].lines[c] = <<>>
    <3>1. z.lines = blank  OBVIOUS
    <3> HIDE DEF z
    <3>2. QED  BY <2>4, <3>1
  <2>6. QED  BY <2>3, <2>5 DEF InkIn
<1>8. Tidy(State(bank), inked)  BY <1>7, Zenon DEF Tidy
<1>9. QED  BY <1>2, <1>6, <1>8 DEF TidyStates

\* The sets of the next state are those of this one: sw does not change.
LEMMA TidyNext ==
    ASSUME sw' = sw, State(bank)' \in TidyStates(inked')
    PROVE  (State(bank) \in TidyStates(inked))'
<1>1. Colours' = Colours /\ Slots' = Slots  BY DEF Colours, Slots
<1>2. SlotRecords' = SlotRecords /\ SentPasses' = SentPasses
  BY <1>1 DEF SlotRecords, SentPasses
<1>3. States' = States  BY <1>1, <1>2 DEF States, Banks
<1>4. Holders(State(bank))' = Holders(State(bank)')  BY DEF Holders
<1>5. \A h, c : LinesIn(State(bank), h, c)' = LinesIn(State(bank)', h, c)  BY DEF LinesIn
<1>6. State(bank)' \in States /\ Tidy(State(bank)', inked')  BY DEF TidyStates
<1>7. Tidy(State(bank), inked)'  BY <1>1, <1>4, <1>5, <1>6 DEF Tidy
<1>8. QED  BY <1>3, <1>6, <1>7 DEF TidyStates

\* Keep takes over the state.
LEMMA KeepTidy ==
    ASSUME NEW st, NEW K, st \in TidyStates(K), Keep(st)
    PROVE  State(bank)' = st
<1>1. st \in States  BY DEF TidyStates
<1>2. st = [bank |-> st.bank, last_pass |-> st.last_pass,
            last_pass_offset |-> st.last_pass_offset, sent |-> st.sent]
  BY <1>1 DEF States
<1>3. State(bank)' = [bank |-> bank', last_pass |-> last_pass',
                      last_pass_offset |-> last_pass_offset', sent |-> sent']
  BY DEF State
<1>4. QED  BY <1>2, <1>3, Zenon DEF Keep

\* The lines handed over in a step are new and of the row at hand.
LEMMA NewLinesFacts ==
    ASSUME PageFacts, HandedOver, NEW ink
    PROVE  /\ NewLines(ink) \subseteq Int \X Colours \X Int /\ IsFiniteSet(NewLines(ink))
           /\ \A l \in NewLines(ink) :
                 /\ l[1] = lineno
                 /\ l[3] < (current_vertical_subpass + 1) * sw.h_passes
<1> DEFINE q == LinesOf(ink)
<1>1. PICK n \in Nat :
         /\ DOMAIN q = 1 .. n
         /\ \A k \in 1 .. n :
               /\ q[k].colour \in Colours /\ q[k].line \in Entries
               /\ q[k].line.row = lineno /\ q[k].line.subpass \in Subpasses
               /\ q[k].line.subpass >= current_vertical_subpass * sw.h_passes
               /\ q[k].line.subpass < (current_vertical_subpass + 1) * sw.h_passes
  BY RowOfLines
<1>2. Range(q) = {q[k] : k \in 1 .. n}  BY <1>1 DEF Range
<1> HIDE DEF q
<1>3. ASSUME NEW l \in NewLines(ink)
      PROVE  \E k \in 1 .. n : l = <<lineno, q[k].colour, q[k].line.subpass>>
  BY <1>2 DEF NewLines, q
<1>4. lineno \in Int  BY DEF HandedOver, PageFacts
<1>5. ASSUME NEW l \in NewLines(ink)
      PROVE  /\ l \in Int \X Colours \X Int /\ l[1] = lineno
             /\ l[3] < (current_vertical_subpass + 1) * sw.h_passes
  <2>1. PICK k \in 1 .. n : l = <<lineno, q[k].colour, q[k].line.subpass>>  BY <1>3
  <2>2. /\ q[k].colour \in Colours /\ q[k].line.subpass \in Int
        /\ q[k].line.subpass < (current_vertical_subpass + 1) * sw.h_passes
    BY <1>1 DEF Subpasses
  <2>3. QED  BY <2>1, <2>2, <1>4
<1>6. IsFiniteSet(NewLines(ink))
  <2> DEFINE T == {<<lineno, q[k].colour, q[k].line.subpass>> : k \in 1 .. n}
             f == [k \in 1 .. n |-> <<lineno, q[k].colour, q[k].line.subpass>>]
  <2>1. IsFiniteSet(1 .. n)
    <3>1. 1 \in Int /\ n \in Int  OBVIOUS
    <3>2. QED  BY <3>1, FS_Interval
  <2>2. f \in Surjection(1 .. n, T)  BY DEF Surjection
  <2>3. IsFiniteSet(T)
    <3> HIDE DEF f, T
    <3>1. QED  BY <2>1, <2>2, FS_Surjection, Zenon
  <2>4. NewLines(ink) \in SUBSET T  BY <1>3
  <2> HIDE DEF T
  <2>5. QED  BY <2>3, <2>4, FS_Subset
<1>7. QED  BY <1>5, <1>6

\* A step of stp_write_weave.
LEMMA WriteTidy ==
    ASSUME PageFacts, State(bank) \in TidyStates(inked), HandedOver,
           NEW ink \in SUBSET Colours, stp_write_weave(ink)
    PROVE  (State(bank) \in TidyStates(inked) /\ HandedOver)'
<1> DEFINE ready == IF current_vertical_subpass = 0 THEN initialize_row(lineno, bank) ELSE bank
           new == LinesOf(ink)
           b == FoldLeft(add_to_row, ready, new)
           L == inked \cup NewLines(ink)
<1>1. sw' = sw /\ lineno <= sw.lastline  BY DEF stp_write_weave
<1>2. lineno \in sw.firstline .. sw.lastline  BY <1>1 DEF HandedOver, PageFacts
<1>3. bank \in TidyBanks(inked)
  <2>1. State(bank) \in States /\ Tidy(State(bank), inked)  BY DEF TidyStates
  <2>2. bank \in Banks  BY <2>1 DEF States, State
  <2>3. QED  BY <2>1, <2>2 DEF TidyBanks
<1>4. ready \in TidyBanks(inked)
  <2>1. initialize_row(lineno, bank) \in TidyBanks(inked)  BY <1>2, <1>3, InitializeRowTidy
  <2>2. QED  BY <1>3, <2>1
<1> HIDE DEF ready
<1>5. b = <<>> \/ b \in TidyBanks(L)  BY <1>1, <1>4, LinesTidy, Zenon
<1>6. CASE b = <<>>
  <2>1. UNCHANGED <<lineno, current_vertical_subpass, bank, last_pass, last_pass_offset, sent, inked>>
    BY <1>6, Zenon DEF stp_write_weave, ready
  <2>2. State(bank)' = State(bank) /\ inked' = inked  BY <2>1 DEF State
  <2>3. State(bank)' \in TidyStates(inked')  BY <2>2
  <2>4. HandedOver'  BY <2>1, <1>1 DEF HandedOver, Colours
  <2>5. QED  BY <1>1, <2>3, <2>4, TidyNext
<1>7. CASE b # <<>>
  <2>1. /\ inked' = L
        /\ IF current_vertical_subpass + 1 >= sw.vertical_oversample
           THEN /\ Keep(finalize_row(State(b)))
                /\ lineno' = lineno + 1
                /\ current_vertical_subpass' = 0
           ELSE /\ Keep(State(b))
                /\ current_vertical_subpass' = current_vertical_subpass + 1
                /\ UNCHANGED lineno
    BY <1>7, Zenon DEF stp_write_weave, ready, NewLines
  <2>2. b \in TidyBanks(L)  BY <1>5, <1>7
  <2> HIDE DEF b
  <2>3. State(b) \in TidyStates(L)
    <3>1. b \in Banks /\ Tidy(State(b), L)  BY <2>2 DEF TidyBanks
    <3>2. State(bank) \in States  BY DEF TidyStates
    <3>3. State(b) \in States  BY <3>1, <3>2 DEF States, State
    <3>4. QED  BY <3>1, <3>3 DEF TidyStates
  <2> HIDE DEF L
  <2>4. finalize_row(State(b)) \in TidyStates(L)  BY <1>2, <2>3, FinalizeRowTidy
  <2>5. State(bank)' \in TidyStates(L)
    <3>1. PICK st \in TidyStates(L) : Keep(st)  BY <2>1, <2>3, <2>4
    <3>2. State(bank)' = st  BY <3>1, KeepTidy
    <3>3. QED  BY <3>2
  <2>6. (State(bank) \in TidyStates(inked))'  BY <1>1, <2>1, <2>5, TidyNext
  <2>7. /\ NewLines(ink) \subseteq Int \X Colours \X Int /\ IsFiniteSet(NewLines(ink))
        /\ \A l \in NewLines(ink) :
              l[1] = lineno /\ l[3] < (current_vertical_subpass + 1) * sw.h_passes
    BY NewLinesFacts
  <2>8. inked' \subseteq Int \X Colours \X Int /\ IsFiniteSet(inked')
    <3>1. IsFiniteSet(inked \cup NewLines(ink))  BY <2>7, FS_Union DEF HandedOver
    <3>2. QED  BY <2>1, <2>7, <3>1 DEF HandedOver, L
  <2>9. \A l \in inked' :
           l[1] \in Int /\ l[3] \in Int
           /\ (l[1] < lineno \/ (l[1] = lineno /\ l[3] < (current_vertical_subpass + 1) * sw.h_passes))
    <3>0. /\ \A y, z \in Int : (y + 1) * z = y * z + z /\ y * z \in Int
          /\ current_vertical_subpass \in Int /\ sw.h_passes \in Nat
      BY DEF HandedOver, PageFacts
    <3>1. PICK u \in Int, h \in Nat, x \in Int :
             /\ u = current_vertical_subpass /\ h = sw.h_passes /\ x = u * h
             /\ (u + 1) * h = x + h
      BY <3>0
    <3>2. (u + 1) * h = x + h  BY <3>1
    <3>3. TAKE l \in inked'
    <3>4. l[1] \in Int /\ l[3] \in Int  BY <2>8
    <3>5. CASE l \in inked
      <4>1. l[1] < lineno \/ (l[1] = lineno /\ l[3] < x)  BY <3>1, <3>5 DEF HandedOver
      <4>2. l[3] < x => l[3] < x + h  BY <3>4
      <4>3. QED  BY <3>1, <3>2, <3>4, <4>1, <4>2
    <3>6. CASE l \in NewLines(ink)  BY <2>7, <3>4, <3>6
    <3>7. QED  BY <2>1, <3>5, <3>6 DEF L
  <2>10. HandedOver'
    <3>1. CASE current_vertical_subpass + 1 >= sw.vertical_oversample
      <4>1. lineno' = lineno + 1 /\ current_vertical_subpass' = 0  BY <2>1, <3>1
      <4>2. lineno' \in sw.firstline .. sw.lastline + 1 /\ lineno \in Int
        <5>1. sw.firstline \in Int /\ sw.lastline \in Int  BY DEF PageFacts
        <5>2. QED  BY <1>2, <4>1, <5>1
      <4>3. 0 \in 0 .. sw.vertical_oversample - 1  BY DEF PageFacts
      <4>4. \A l \in inked' : l[1] < lineno'
        <5>1. \A l \in inked' : l[1] \in Int /\ (l[1] < lineno \/ l[1] = lineno)  BY <2>9
        <5>2. QED  BY <4>1, <4>2, <5>1
      <4>5. QED  BY <1>1, <2>8, <4>1, <4>2, <4>3, <4>4 DEF HandedOver, Colours
    <3>2. CASE ~(current_vertical_subpass + 1 >= sw.vertical_oversample)
      <4>1. lineno' = lineno /\ current_vertical_subpass' = current_vertical_subpass + 1
        BY <2>1, <3>2
      <4>2. current_vertical_subpass + 1 \in 0 .. sw.vertical_oversample - 1
        BY <3>2 DEF HandedOver, PageFacts
      <4>3. \A l \in inked' :
               \/ l[1] < lineno'
               \/ l[1] = lineno' /\ l[3] < current_vertical_subpass' * sw.h_passes
        BY <2>9, <4>1
      <4>4. lineno' \in sw.firstline .. sw.lastline + 1  BY <4>1 DEF HandedOver
      <4>5. QED  BY <1>1, <2>8, <4>1, <4>2, <4>3, <4>4 DEF HandedOver, Colours
    <3>3. QED  BY <3>1, <3>2
  <2>11. QED  BY <2>6, <2>10
<1>8. QED  BY <1>6, <1>7

\* The end of the page.
LEMMA FlushAllTidy ==
    ASSUME PageFacts, State(bank) \in TidyStates(inked), HandedOver, stp_flush_all
    PROVE  (State(bank) \in TidyStates(inked) /\ HandedOver)'
<1>1. /\ sw' = sw /\ inked' = inked /\ lineno' = lineno
      /\ current_vertical_subpass' = current_vertical_subpass
      /\ Keep(stpi_flush_passes(State(bank), TRUE))
  BY DEF stp_flush_all
<1>2. stpi_flush_passes(State(bank), TRUE) \in TidyStates(inked)  BY FlushPassesTidy
<1>3. State(bank)' \in TidyStates(inked)
  <2>1. State(bank)' = stpi_flush_passes(State(bank), TRUE)  BY <1>1, <1>2, KeepTidy, Zenon
  <2>2. QED  BY <1>2, <2>1
<1>4. (State(bank) \in TidyStates(inked))'  BY <1>1, <1>3, TidyNext
<1>5. HandedOver'  BY <1>1 DEF HandedOver, Colours
<1>6. QED  BY <1>4, <1>5

\* The invariant of the whole page, from which NoLineTwice follows.
LEMMA EachLineIsKept == Spec => []EachLineKept
<1>1. Init => EachLineKept
  <2>1. Init => SwOfTheJob  BY DEF Init, SwOfTheJob
  <2>2. QED  BY <2>1, InitTidy DEF EachLineKept
<1>2. EachLineKept /\ [Next]_vars => EachLineKept'
  <2>1. SUFFICES ASSUME EachLineKept, [Next]_vars PROVE EachLineKept'  OBVIOUS
  <2>2. SwOfTheJob' /\ job' = job /\ sw' = sw
    BY <2>1, Zenon DEF EachLineKept, SwOfTheJob, Next, vars, stp_write_weave, stp_flush_all
  <2>3. ASSUME job.strategy # "ascending_3x"
        PROVE  (State(bank) \in TidyStates(inked) /\ HandedOver)'
    <3>1. SwOfTheJob /\ State(bank) \in TidyStates(inked) /\ HandedOver
      BY <2>1, <2>3 DEF EachLineKept
    <3>2. PageFacts  BY <2>3, <3>1, PageHasFacts
    <3>3. CASE \E ink \in SUBSET Colours : stp_write_weave(ink)
      BY <3>1, <3>2, <3>3, WriteTidy
    <3>4. CASE stp_flush_all  BY <3>1, <3>2, <3>4, FlushAllTidy
    <3>5. CASE UNCHANGED vars
      <4>1. State(bank)' = State(bank) /\ inked' = inked  BY <3>5 DEF vars, State
      <4>2. (State(bank) \in TidyStates(inked))'  BY <2>2, <3>1, <4>1, TidyNext
      <4>3. HandedOver'  BY <3>1, <3>5 DEF vars, HandedOver, Colours
      <4>4. QED  BY <4>2, <4>3
    <3>6. QED  BY <2>1, <3>3, <3>4, <3>5 DEF Next
  <2>4. QED  BY <2>2, <2>3 DEF EachLineKept
<1>3. QED  BY <1>1, <1>2, PTL DEF Spec

\* In a tidy state every line with ink that was printed is another one.
LEMMA TidyPrintsOnce ==
    ASSUME PageFacts, State(bank) \in TidyStates(inked), IsFiniteSet(inked)
    PROVE  NoLineTwice
<1> DEFINE f == [i \in Inks |-> <<LineAt(i).row, i[2], LineAt(i).subpass>>]
           st == State(bank)
<1>1. st.sent = sent /\ Tidy(st, inked) /\ sent \in Seq(SentPasses)
  <2>1. st \in States /\ Tidy(st, inked)  BY DEF TidyStates
  <2>2. st.sent = sent  BY DEF State
  <2>3. QED  BY <2>1, <2>2 DEF States
<1> HIDE DEF st
<1>2. ASSUME NEW i \in Inks
      PROVE  \E n \in Holders(st), c \in Colours : \E k \in InkIn(LinesIn(st, n, c)) :
                i = <<n, c, k>> /\ f[i] = Which(LinesIn(st, n, c), c, k)
  <2>1. PICK n \in DOMAIN sent :
           \E c \in Colours \cap DOMAIN sent[n].lines :
              \E k \in InkIn(sent[n].lines[c]) : i = <<n, c, k>>
    <3>1. PICK n \in DOMAIN sent :
             i \in UNION {{<<n, c, k>> : k \in {x \in DOMAIN sent[n].lines[c] : sent[n].lines[c][x].ink}} :
                              c \in Colours \cap DOMAIN sent[n].lines}
      BY Zenon DEF Inks
    <3>2. PICK c \in Colours \cap DOMAIN sent[n].lines :
             i \in {<<n, c, k>> : k \in {x \in DOMAIN sent[n].lines[c] : sent[n].lines[c][x].ink}}
      BY <3>1, Zenon
    <3>3. QED  BY <3>2, Zenon DEF InkIn
  <2>c. PICK c \in Colours \cap DOMAIN sent[n].lines :
           \E k \in InkIn(sent[n].lines[c]) : i = <<n, c, k>>
    BY <2>1
  <2>2. PICK k \in InkIn(sent[n].lines[c]) : i = <<n, c, k>>  BY <2>c
  <2>3. n \in 1 .. Len(sent) /\ ~(n <= 0)  BY <1>1
  <2>4. n \in Holders(st)
    <3>1. sw.vmod \in Nat \ {0} /\ Len(sent) \in Nat  BY <1>1 DEF PageFacts
    <3>2. QED  BY <1>1, <2>3, <3>1 DEF Holders
  <2>5. LinesIn(st, n, c) = sent[n].lines[c]  BY <1>1, <2>c, <2>3, Zenon DEF LinesIn
  <2>6. i[1] = n /\ i[2] = c /\ i[3] = k  BY <2>2
  <2>7. f[i] = Which(LinesIn(st, n, c), c, k)
    <3>1. f[i] = <<LineAt(i).row, i[2], LineAt(i).subpass>>  OBVIOUS
    <3>2. LineAt(i) = sent[n].lines[c][k]  BY <2>6 DEF LineAt
    <3> HIDE DEF f
    <3>3. QED  BY <2>5, <2>6, <3>1, <3>2 DEF Which
  <2> HIDE DEF f
  <2>8. QED  BY <2>2, <2>4, <2>5, <2>7
<1>3. Printed = {f[i] : i \in Inks}  BY DEF Printed
<1>4. f \in [Inks -> Printed]  BY <1>3
<1> HIDE DEF f
<1>5. ASSUME NEW i \in Inks PROVE f[i] \in inked
  <2>1. PICK n \in Holders(st), c \in Colours : \E k \in InkIn(LinesIn(st, n, c)) :
           i = <<n, c, k>> /\ f[i] = Which(LinesIn(st, n, c), c, k)
    BY <1>2
  <2>2. PICK k \in InkIn(LinesIn(st, n, c)) : f[i] = Which(LinesIn(st, n, c), c, k)  BY <2>1
  <2>3. Which(LinesIn(st, n, c), c, k) \in inked  BY <2>1, <2>2, <1>1, Zenon DEF Tidy
  <2>4. QED  BY <2>2, <2>3
<1>6. ASSUME NEW i \in Inks, NEW j \in Inks, f[i] = f[j] PROVE i = j
  <2>1. PICK n \in Holders(st), c \in Colours : \E k \in InkIn(LinesIn(st, n, c)) :
           i = <<n, c, k>> /\ f[i] = Which(LinesIn(st, n, c), c, k)
    BY <1>2
  <2>2. PICK k \in InkIn(LinesIn(st, n, c)) :
           i = <<n, c, k>> /\ f[i] = Which(LinesIn(st, n, c), c, k)
    BY <2>1
  <2>3. PICK m \in Holders(st), d \in Colours : \E r \in InkIn(LinesIn(st, m, d)) :
           j = <<m, d, r>> /\ f[j] = Which(LinesIn(st, m, d), d, r)
    BY <1>2
  <2>4. PICK r \in InkIn(LinesIn(st, m, d)) :
           j = <<m, d, r>> /\ f[j] = Which(LinesIn(st, m, d), d, r)
    BY <2>3
  <2>5. c = d  BY <1>6, <2>2, <2>4 DEF Which
  <2>6. n = m /\ k = r
    <3>1. PlaceTidy(st, inked, n, c)  BY <1>1, TidyAt, Zenon
    <3>2. r \in InkIn(LinesIn(st, m, c))  BY <2>5
    <3>3. Which(LinesIn(st, n, c), c, k) = Which(LinesIn(st, m, c), c, r)
      BY <1>6, <2>2, <2>4, <2>5, Zenon
    <3>4. QED  BY <3>1, <3>2, <3>3, Zenon DEF PlaceTidy
  <2>7. QED  BY <2>2, <2>4, <2>5, <2>6
<1>7. Printed \subseteq inked  BY <1>3, <1>5
<1>8. f \in Bijection(Inks, Printed)
  BY <1>3, <1>4, <1>6 DEF Bijection, Injection, Surjection, IsInjective
<1>9. ExistsBijection(Printed, Inks)
  <2>1. ExistsBijection(Inks, Printed)  BY <1>8, Zenon DEF ExistsBijection
  <2>2. QED  BY <2>1, Fun_ExistsBijSymmetric, Zenon
<1>10. IsFiniteSet(Printed)  BY <1>7, FS_Subset
<1>11. Cardinality(Printed) = Cardinality(Inks)  BY <1>9, <1>10, FS_Bijection, Zenon
<1>12. QED  BY <1>7, <1>11 DEF NoLineTwice


-----------------------------------------------------------------------------
(* The theorems of the specification.                                      *)

\* For every head, page and way of oversampling, and every strategy but the
\* one that does not work, calculate_raw_row_parameters finds for each row and
\* subpass the pass that calculate_raw_pass_parameters puts there, and the
\* assertions of stpi_calculate_row_parameters hold.
THEOREM LookupsAreInverse ==
    Spec => [](job.strategy # "ascending_3x" => LookupsInverse)
<1>1. SwOfTheJob => (job.strategy # "ascending_3x" => LookupsInverse)  BY InverseOf
<1>2. QED  BY <1>1, PageIsConstant, PTL

\* Where the passes moved at the top and at the bottom of the page do not
\* overlap, moreover no two rows share a jet of a pass: RowAndPassAgree holds.
THEOREM RowsAndPassesAgree ==
    Spec => [](job.strategy # "ascending_3x" /\ EndsApart(job) => RowAndPassAgree)
<1>1. SwOfTheJob => (job.strategy # "ascending_3x" /\ EndsApart(job) => RowAndPassAgree)
  BY InverseOf, NotShared DEF RowAndPassAgree
<1>2. QED  BY <1>1, PageIsConstant, PTL

\* No line of the page is printed twice, and none is printed that was not handed
\* over with ink, after every row and at the end of the page: whatever the head,
\* the page and the blank lines are, also when passes steal each other's slots,
\* when two rows share a jet, when buffers overflow and when the page ends early.
THEOREM NoLineTwiceHolds ==
    Spec => [](job.strategy # "ascending_3x" => NoLineTwice)
<1>1. EachLineKept => (job.strategy # "ascending_3x" => NoLineTwice)
  <2>1. SUFFICES ASSUME EachLineKept, job.strategy # "ascending_3x" PROVE NoLineTwice
    OBVIOUS
  <2>2. SwOfTheJob /\ State(bank) \in TidyStates(inked) /\ HandedOver
    BY <2>1 DEF EachLineKept
  <2>3. PageFacts  BY <2>1, <2>2, PageHasFacts
  <2>4. IsFiniteSet(inked)  BY <2>2 DEF HandedOver
  <2>5. QED  BY <2>2, <2>3, <2>4, TidyPrintsOnce
<1>2. QED  BY <1>1, EachLineIsKept, PTL
================================================================================
