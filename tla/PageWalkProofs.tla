--------------------------- MODULE PageWalkProofs ---------------------------
(***************************************************************************)
(* Theorems of PageWalk, for any page size, page limit, wave and length of *)
(* the collection, and any number of changes and writes.                   *)
(*                                                                         *)
(* First come facts about numbers and sequences: FlattenSeq is defined by  *)
(* recursion, and what it yields is found with the least number principle, *)
(* applied to a set of counterexamples.  Then come three invariants, each  *)
(* with one lemma per step of the walk, and the theorems they give.        *)
(***************************************************************************)
EXTENDS PageWalk, SequenceTheorems, FiniteSetTheorems, WellFoundedInduction, TLAPS

(* A set of numbers has a least one.                                      *)
LEMMA LeastNumber ==
  ASSUME NEW T, T \subseteq Nat, T # {}
  PROVE  \E n \in T : \A m \in T : n <= m
<1>1. PICK n \in T : \A m \in T : <<m, n>> \notin OpToRel(<, Nat)
  BY NatLessThanWellFounded, WFMin, Zenon
<1>2. \A m \in T : ~(m < n)
  BY <1>1 DEF OpToRel
<1> QED BY <1>2

(* Induction over a set: one that has 0 and is closed under successor.    *)
LEMMA NatInductive ==
  ASSUME NEW G, 0 \in G, \A n \in Nat : n \in G => n + 1 \in G
  PROVE  Nat \subseteq G
<1> DEFINE T == Nat \ G
<1> SUFFICES ASSUME T # {} PROVE FALSE
  OBVIOUS
<1>1. PICK m \in T : \A k \in T : m <= k
  <2> HIDE DEF T
  <2>1. T \subseteq Nat BY DEF T
  <2> QED BY <2>1, LeastNumber, Zenon
<1>2. m \in Nat /\ m # 0 /\ m \notin G
  BY <1>1
<1>3. m - 1 \in Nat /\ ~(m <= m - 1)
  BY <1>2
<1>4. m - 1 \in G
  BY <1>1, <1>3
<1>5. (m - 1) + 1 \in G /\ (m - 1) + 1 = m
  BY <1>2, <1>3, <1>4
<1> QED BY <1>2, <1>5

(* The partial concatenations of n sequences: what FlattenSeq computes.   *)
Appends(f, s, n) == f = [i \in 1 .. n |-> IF i = 1 THEN s[i] ELSE f[i - 1] \o s[i]]

LEMMA AppendsAt ==
  ASSUME NEW f, NEW s, NEW n \in Nat, Appends(f, s, n), NEW i \in 1 .. n
  PROVE  f[i] = IF i = 1 THEN s[i] ELSE f[i - 1] \o s[i]
<1>1. [j \in 1 .. n |-> IF j = 1 THEN s[j] ELSE f[j - 1] \o s[j]][i]
        = IF i = 1 THEN s[i] ELSE f[i - 1] \o s[i]
  OBVIOUS
<1>2. f = [j \in 1 .. n |-> IF j = 1 THEN s[j] ELSE f[j - 1] \o s[j]]
  BY Zenon DEF Appends
<1> QED BY <1>1, <1>2, Zenon

LEMMA AppendsExists ==
  ASSUME NEW s, NEW n \in Nat
  PROVE  \E f : Appends(f, s, n)
<1> DEFINE T == {m \in Nat : ~\E f : Appends(f, s, m)}
<1> SUFFICES ASSUME T # {} PROVE FALSE
  OBVIOUS
<1>1. PICK m \in T : \A k \in T : m <= k
  <2> HIDE DEF T
  <2>1. T \subseteq Nat BY DEF T
  <2> QED BY <2>1, LeastNumber, Zenon
<1>2. m # 0
  <2>1. Appends([i \in 1 .. 0 |-> s[i]], s, 0)
    BY DEF Appends
  <2> QED BY <2>1, <1>1
<1>3. m - 1 \in Nat /\ m - 1 \notin T
  BY <1>1, <1>2
<1>4. PICK g : Appends(g, s, m - 1)
  BY <1>3
<1> DEFINE f == [i \in 1 .. m |-> IF i < m THEN g[i]
                                  ELSE IF i = 1 THEN s[i] ELSE g[i - 1] \o s[i]]
<1>5. Appends(f, s, m)
  <2>1. \A i \in 1 .. m : f[i] = IF i = 1 THEN s[i] ELSE f[i - 1] \o s[i]
    <3> TAKE i \in 1 .. m
    <3>1. CASE i < m
      <4>1. f[i] = g[i] /\ (i # 1 => f[i - 1] = g[i - 1])
        BY <3>1
      <4>2. g[i] = IF i = 1 THEN s[i] ELSE g[i - 1] \o s[i]
        BY <3>1, <1>1, <1>3, <1>4, AppendsAt, i \in 1 .. m - 1
      <4> QED BY <4>1, <4>2
    <3>2. CASE i = m
      <4>1. i \in Nat /\ i # 0 /\ ~(i < m)
        BY <1>1, <3>2
      <4>2. f[i] = IF i = 1 THEN s[i] ELSE g[i - 1] \o s[i]
        BY <4>1
      <4>3. i # 1 => f[i - 1] = g[i - 1]
        BY <4>1, <3>2
      <4> QED BY <4>2, <4>3
    <3> QED BY <3>1, <3>2, <1>1
  <2> HIDE DEF f
  <2>2. f = [i \in 1 .. m |-> f[i]]
    BY DEF f
  <2> QED BY <2>1, <2>2, Zenon DEF Appends
<1> QED BY <1>5, <1>1

(* FlattenSeq is the last of the partial concatenations.                  *)
LEMMA FlattenAppends ==
  ASSUME NEW s, Len(s) \in Nat \ {0}
  PROVE  \E f : Appends(f, s, Len(s)) /\ FlattenSeq(s) = f[Len(s)]
<1>1. PICK f : Appends(f, s, Len(s))
  BY AppendsExists
<1> DEFINE c == CHOOSE g : g = [i \in 1 .. Len(s) |-> IF i = 1 THEN s[i] ELSE g[i - 1] \o s[i]]
<1>2. Appends(c, s, Len(s))
  BY <1>1 DEF Appends
<1>3. FlattenSeq(s) = c[Len(s)]
  BY DEF FlattenSeq
<1> QED BY <1>2, <1>3

LEMMA AppendsSame ==
  ASSUME NEW f, NEW s, NEW g, NEW t, NEW n \in Nat,
         Appends(f, s, n), Appends(g, t, n + 1),
         \A i \in 1 .. n : s[i] = t[i]
  PROVE  \A i \in 1 .. n : f[i] = g[i]
<1> DEFINE T == {i \in 1 .. n : f[i] # g[i]}
<1> SUFFICES ASSUME T # {} PROVE FALSE
  OBVIOUS
<1>1. PICK i \in T : \A k \in T : i <= k
  <2> HIDE DEF T
  <2>1. T \subseteq Nat BY DEF T
  <2> QED BY <2>1, LeastNumber, Zenon
<1>2. /\ f[i] = IF i = 1 THEN s[i] ELSE f[i - 1] \o s[i]
      /\ g[i] = IF i = 1 THEN t[i] ELSE g[i - 1] \o t[i]
  <2>1. n + 1 \in Nat /\ i \in 1 .. n /\ i \in 1 .. n + 1
    BY <1>1
  <2> QED BY <2>1, AppendsAt
<1>3. i # 1 => f[i - 1] = g[i - 1]
  BY <1>1
<1>4. s[i] = t[i] /\ f[i] # g[i]
  BY <1>1
<1> QED BY <1>2, <1>3, <1>4

(* Sequences h[a], h[a + 1], ... and their concatenation.                 *)
Run(h, a, n) == [i \in 1 .. n |-> h[a + i - 1]]

LEMMA RunLength ==
  ASSUME NEW h, NEW a \in Nat, NEW n \in Nat
  PROVE  Len(Run(h, a, n)) = n /\ \A i \in 1 .. n : Run(h, a, n)[i] = h[a + i - 1]
BY DEF Run

(* One more sequence is appended at the end.                              *)
LEMMA FlattenStep ==
  ASSUME NEW h, NEW a \in Nat, NEW n \in Nat \ {0}
  PROVE  FlattenSeq(Run(h, a, n + 1)) = FlattenSeq(Run(h, a, n)) \o h[a + n]
<1> DEFINE short == Run(h, a, n)
           long == Run(h, a, n + 1)
<1>1. /\ Len(short) = n /\ Len(long) = n + 1 /\ long[n + 1] = h[a + n]
      /\ \A i \in 1 .. n : short[i] = long[i]
  <2>1. n \in Nat /\ n + 1 \in Nat
    OBVIOUS
  <2>2. /\ Len(short) = n /\ \A i \in 1 .. n : short[i] = h[a + i - 1]
        /\ Len(long) = n + 1 /\ \A i \in 1 .. n + 1 : long[i] = h[a + i - 1]
    BY <2>1, RunLength
  <2> HIDE DEF short, long
  <2>3. n + 1 \in 1 .. n + 1 /\ a + (n + 1) - 1 = a + n
    OBVIOUS
  <2> QED BY <2>2, <2>3
<1> HIDE DEF short, long
<1>2. PICK f : Appends(f, short, n) /\ FlattenSeq(short) = f[n]
  BY <1>1, FlattenAppends
<1>3. PICK g : Appends(g, long, n + 1) /\ FlattenSeq(long) = g[n + 1]
  BY <1>1, FlattenAppends
<1>4. f[n] = g[n]
  <2>1. \A i \in 1 .. n : f[i] = g[i]
    <3>1. Appends(f, short, n) /\ Appends(g, long, n + 1)
      BY <1>2, <1>3, Zenon
    <3>2. \A i \in 1 .. n : short[i] = long[i]
      BY <1>1, Zenon
    <3>3. n \in Nat
      OBVIOUS
    <3> QED BY <3>1, <3>2, <3>3, AppendsSame
  <2> QED BY <2>1
<1>5. g[n + 1] = g[n] \o long[n + 1]
  <2>1. PICK m \in Nat : m = n + 1
    OBVIOUS
  <2>2. m \in 1 .. m /\ m # 1 /\ m - 1 = n
    BY <2>1
  <2>3. Appends(g, long, m)
    BY <1>3, <2>1
  <2>4. m \in 1 .. m
    BY <2>2
  <2>5. g[m] = IF m = 1 THEN long[m] ELSE g[m - 1] \o long[m]
    BY <2>3, <2>4, AppendsAt
  <2> QED BY <2>1, <2>2, <2>5
<1> QED BY <1>1, <1>2, <1>3, <1>4, <1>5 DEF short, long

LEMMA FlattenOne ==
  ASSUME NEW h, NEW a \in Nat
  PROVE  /\ FlattenSeq(Run(h, a, 0)) = <<>>
         /\ FlattenSeq(Run(h, a, 1)) = h[a]
<1>1. Len(Run(h, a, 0)) = 0 /\ Run(h, a, 0) = <<>>
  BY RunLength DEF Run
<1>2. Len(Run(h, a, 1)) = 1 /\ Run(h, a, 1)[1] = h[a]
  <2>1. \A i \in 1 .. 1 : Run(h, a, 1)[i] = h[a + i - 1]
    BY RunLength, 1 \in Nat, Zenon
  <2>2. 1 \in 1 .. 1 /\ a + 1 - 1 = a
    OBVIOUS
  <2>3. Run(h, a, 1)[1] = h[a + 1 - 1]
    BY <2>1, <2>2, Zenon
  <2> QED BY <2>2, <2>3, RunLength, 1 \in Nat, Zenon
<1>3. PICK f : Appends(f, Run(h, a, 1), 1) /\ FlattenSeq(Run(h, a, 1)) = f[1]
  <2>1. 1 \in Nat \ {0}
    OBVIOUS
  <2> QED BY <2>1, <1>2, FlattenAppends, Zenon
<1>4. f[1] = Run(h, a, 1)[1]
  BY <1>3, AppendsAt, 1 \in Nat, 1 \in 1 .. 1
<1> QED BY <1>1, <1>2, <1>3, <1>4 DEF FlattenSeq

(* Pages of PageWalk, of any answers h.                                   *)
PagesOf(h, a, b) == FlattenSeq(Run(h, a, b - a + 1))

LEMMA PagesAre ==
  ASSUME NEW a, NEW b
  PROVE  Pages(a, b) = PagesOf(got, a, b) /\ Pages(a, b)' = PagesOf(got', a, b)
BY Zenon DEF Pages, PagesOf, Run

LEMMA NoPages ==
  ASSUME NEW h, NEW a \in Nat
  PROVE  PagesOf(h, a, a - 1) = <<>>
<1>1. (a - 1) - a + 1 = 0
  OBVIOUS
<1> QED BY <1>1, FlattenOne DEF PagesOf

LEMMA OnePage ==
  ASSUME NEW h, NEW a \in Nat
  PROVE  PagesOf(h, a, a) = h[a]
<1>1. a - a + 1 = 1
  OBVIOUS
<1> QED BY <1>1, FlattenOne DEF PagesOf

(* Appending page b + 1 to the pages from a to b.                         *)
LEMMA PageAppended ==
  ASSUME NEW h, NEW a \in Nat, NEW b \in Nat, a <= b
  PROVE  PagesOf(h, a, b + 1) = PagesOf(h, a, b) \o h[b + 1]
<1> DEFINE n == b - a + 1
<1>1. n \in Nat \ {0} /\ a + n = b + 1 /\ (b + 1) - a + 1 = n + 1
  OBVIOUS
<1> HIDE DEF n
<1>2. FlattenSeq(Run(h, a, n + 1)) = FlattenSeq(Run(h, a, n)) \o h[a + n]
  BY <1>1, FlattenStep
<1> QED BY <1>1, <1>2 DEF PagesOf, n

LEMMA NextPage ==
  ASSUME NEW S, NEW h, NEW a \in Nat, NEW b \in Nat, a <= b + 1, h[b + 1] \in Seq(S)
  PROVE  PagesOf(h, a, b + 1) = PagesOf(h, a, b) \o h[b + 1]
<1>1. CASE a = b + 1
  <2>1. PagesOf(h, a, b + 1) = h[b + 1]
    BY <1>1, OnePage
  <2>2. b = a - 1 /\ PagesOf(h, a, b) = <<>>
    BY <1>1, NoPages
  <2> QED BY <2>1, <2>2, ConcatEmptySeq
<1>2. CASE a <= b
  BY <1>2, PageAppended
<1> QED BY <1>1, <1>2

(* Only the pages from a to b matter.                                     *)
LEMMA PagesSame ==
  ASSUME NEW h, NEW g, NEW a \in Nat, NEW b \in Nat, \A q \in a .. b : h[q] = g[q]
  PROVE  PagesOf(h, a, b) = PagesOf(g, a, b)
<1>1. \A i \in 1 .. b - a + 1 : a + i - 1 \in a .. b
  OBVIOUS
<1>2. \A i \in 1 .. b - a + 1 : h[a + i - 1] = g[a + i - 1]
  BY <1>1
<1>3. Run(h, a, b - a + 1) = Run(g, a, b - a + 1)
  BY <1>2 DEF Run
<1> QED BY <1>3 DEF PagesOf

LEMMA PagesType ==
  ASSUME NEW S, NEW h, NEW a \in Nat, NEW b \in Nat, a <= b + 1,
         \A q \in a .. b : h[q] \in Seq(S)
  PROVE  PagesOf(h, a, b) \in Seq(S)
<1>0. CASE a = b + 1
  <2>1. b = a - 1 /\ PagesOf(h, a, b) = <<>>
    BY <1>0, NoPages
  <2> QED BY <2>1, EmptySeq
<1>1. CASE a <= b
  <2> DEFINE G == {k \in Nat : k <= b - a => PagesOf(h, a, a + k) \in Seq(S)}
  <2>1. 0 \in G
    <3>1. PagesOf(h, a, a) = h[a] /\ a \in a .. b /\ a + 0 = a
      BY <1>1, OnePage
    <3> QED BY <3>1
  <2>2. ASSUME NEW k \in Nat, k \in G PROVE k + 1 \in G
    <3> SUFFICES ASSUME k + 1 <= b - a PROVE PagesOf(h, a, a + (k + 1)) \in Seq(S)
      OBVIOUS
    <3> DEFINE m == a + k
    <3>1. m \in Nat /\ a <= m /\ a + (k + 1) = m + 1 /\ m + 1 \in a .. b
      OBVIOUS
    <3>2. PagesOf(h, a, m) \in Seq(S)
      BY <2>2
    <3> HIDE DEF m
    <3>3. h[m + 1] \in Seq(S)
      BY <3>1
    <3>4. PagesOf(h, a, m + 1) = PagesOf(h, a, m) \o h[m + 1]
      BY <3>1, PageAppended
    <3> QED BY <3>1, <3>2, <3>3, <3>4, ConcatProperties
  <2> HIDE DEF G
  <2>3. b - a \in G
    BY <1>1, <2>1, <2>2, NatInductive
  <2>4. b - a <= b - a /\ a + (b - a) = b
    OBVIOUS
  <2> QED BY <2>3, <2>4 DEF G
<1> QED BY <1>0, <1>1

(* The pages of a walk and of its next wave are the pages of both.        *)
LEMMA PagesConcat ==
  ASSUME NEW S, NEW h, NEW a \in Nat, NEW b \in Nat, NEW c \in Nat, a <= b + 1, b <= c,
         \A q \in a .. c : h[q] \in Seq(S)
  PROVE  PagesOf(h, a, b) \o PagesOf(h, b + 1, c) = PagesOf(h, a, c)
<1>1. PagesOf(h, a, b) \in Seq(S)
  <2>1. \A q \in a .. b : h[q] \in Seq(S)
    OBVIOUS
  <2> QED BY <2>1, PagesType
<1>2. \A d \in Nat, m \in Nat : a <= d /\ d <= m + 1 /\ m + 1 <= c =>
          PagesOf(h, d, m + 1) = PagesOf(h, d, m) \o h[m + 1]
  <2> SUFFICES ASSUME NEW d \in Nat, NEW m \in Nat, a <= d, d <= m + 1, m + 1 <= c
               PROVE  PagesOf(h, d, m + 1) = PagesOf(h, d, m) \o h[m + 1]
    OBVIOUS
  <2>1. m + 1 \in a .. c
    OBVIOUS
  <2>2. h[m + 1] \in Seq(S)
    BY <2>1
  <2> QED BY <2>2, NextPage
<1> DEFINE G == {k \in Nat : b + k <= c =>
                 PagesOf(h, a, b) \o PagesOf(h, b + 1, b + k) = PagesOf(h, a, b + k)}
<1>3. 0 \in G
  <2>1. b + 0 = b /\ b + 1 \in Nat /\ (b + 1) - 1 = b
    OBVIOUS
  <2>2. PagesOf(h, b + 1, b) = <<>>
    BY <2>1, NoPages
  <2>3. PagesOf(h, a, b) \o <<>> = PagesOf(h, a, b)
    BY <1>1, ConcatEmptySeq
  <2> QED BY <2>1, <2>2, <2>3
<1>4. ASSUME NEW k \in Nat, k \in G PROVE k + 1 \in G
  <2> SUFFICES ASSUME b + (k + 1) <= c
               PROVE  PagesOf(h, a, b) \o PagesOf(h, b + 1, b + (k + 1)) = PagesOf(h, a, b + (k + 1))
    OBVIOUS
  <2>1. PICK d \in Nat, m \in Nat, e \in Nat : d = b + 1 /\ m = b + k /\ e = b + (k + 1)
    OBVIOUS
  <2>2. /\ e = m + 1 /\ a <= d /\ d <= e /\ a <= e /\ e \in a .. c
        /\ \A q \in d .. m : q \in a .. c
    BY <2>1
  <2>3. PagesOf(h, a, b) \o PagesOf(h, d, m) = PagesOf(h, a, m)
    BY <1>4, <2>1
  <2>4. h[e] \in Seq(S)
    BY <2>2
  <2>5. PagesOf(h, d, m) \in Seq(S)
    <3>1. \A q \in d .. m : h[q] \in Seq(S)
      BY <2>2
    <3>2. d <= m + 1
      BY <2>2
    <3> QED BY <3>1, <3>2, PagesType
  <2>6. /\ PagesOf(h, a, e) = PagesOf(h, a, m) \o h[e]
        /\ PagesOf(h, d, e) = PagesOf(h, d, m) \o h[e]
    <3>1. a <= a /\ a <= d /\ a <= m + 1 /\ d <= m + 1 /\ m + 1 <= c
      BY <2>2
    <3>2. /\ PagesOf(h, a, m + 1) = PagesOf(h, a, m) \o h[m + 1]
          /\ PagesOf(h, d, m + 1) = PagesOf(h, d, m) \o h[m + 1]
      BY <1>2, <3>1
    <3> QED BY <2>2, <3>2
  <2>7. PICK x \in Seq(S), y \in Seq(S), z \in Seq(S) :
          x = PagesOf(h, a, b) /\ y = PagesOf(h, d, m) /\ z = h[e]
    BY <1>1, <2>4, <2>5
  <2>8. (x \o y) \o z = x \o (y \o z)
    BY ConcatAssociative
  <2>9. PagesOf(h, a, b) \o PagesOf(h, d, e) = PagesOf(h, a, e)
    BY <2>3, <2>6, <2>7, <2>8
  <2> QED BY <2>1, <2>9
<1> HIDE DEF G
<1>5. c - b \in G
  BY <1>3, <1>4, NatInductive
<1>6. b + (c - b) = c /\ c <= c
  OBVIOUS
<1> QED BY <1>5, <1>6 DEF G

(* X-Pages pages hold all items; they are at most one per item.          *)
LEMMA PageCount ==
  ASSUME NEW L \in Nat \ {0}, NEW P \in Nat \ {0}, NEW q, q = (L + P - 1) \div P
  PROVE  q \in 1 .. L /\ L <= q * P
<1>1. q \in Nat /\ q * P <= L + P - 1 /\ L + P - 1 < (q + 1) * P
  OBVIOUS
<1>2. (q + 1) * P = q * P + P
  BY <1>1
<1>3. L <= q * P
  BY <1>1, <1>2
<1>4. q # 0
  BY <1>3
<1>5. q <= L
  <2> SUFFICES ASSUME L + 1 <= q PROVE FALSE
    BY <1>1
  <2>1. (L + 1) * P <= q * P
    BY <1>1
  <2>2. (L + 1) * P = L * P + P
    OBVIOUS
  <2>3. L <= L * P
    OBVIOUS
  <2> QED BY <1>1, <2>1, <2>2, <2>3
<1> QED BY <1>1, <1>3, <1>4, <1>5

LEMMA LeastIs ==
  ASSUME NEW a \in Nat, NEW b \in Nat
  PROVE  Least(a, b) \in Nat /\ Least(a, b) <= a /\ Least(a, b) <= b
         /\ (a <= b => Least(a, b) = a) /\ (b <= a => Least(a, b) = b)
BY DEF Least

(* Two slices of a sequence that meet make one slice.                     *)
LEMMA Adjacent ==
  ASSUME NEW S, NEW s \in Seq(S), NEW m \in Nat, NEW n \in Nat, m <= n
  PROVE  SubSeq(s, 1, Least(m, Len(s))) \o SubSeq(s, m + 1, Least(n, Len(s)))
           = SubSeq(s, 1, Least(n, Len(s)))
<1>1. PICK L \in Nat : L = Len(s)
  BY LenProperties
<1>2. PICK i \in 0 .. L, j \in 0 .. L : i = Least(m, L) /\ j = Least(n, L)
  BY LeastIs
<1>3. (m <= L => i = m /\ m <= j) /\ (L < m => i = L /\ j = L)
  BY <1>2 DEF Least
<1> SUFFICES SubSeq(s, 1, i) \o SubSeq(s, m + 1, j) = SubSeq(s, 1, j)
  BY <1>1, <1>2
<1>4. CASE m <= L
  <2>1. /\ 1 \in 1 .. Len(s) + 1 /\ m \in 1 - 1 .. Len(s) /\ j \in m .. Len(s)
    BY <1>1, <1>3, <1>4
  <2>2. SubSeq(s, 1, m) \o SubSeq(s, m + 1, j) = SubSeq(s, 1, j)
    BY <2>1, ConcatAdjacentSubSeq
  <2> QED BY <1>3, <1>4, <2>2
<1>5. CASE L < m
  <2>1. SubSeq(s, m + 1, j) = <<>>
    BY <1>3, <1>5, SubSeqEmpty
  <2>2. SubSeq(s, 1, L) = s
    BY <1>1, SubSeqFull
  <2>3. s \o <<>> = s
    BY ConcatEmptySeq
  <2> QED BY <1>3, <1>5, <2>1, <2>2, <2>3
<1> QED BY <1>4, <1>5

(* The p-th page of a collection s.                                       *)
PageIn(s, p) == SubSeq(s, (p - 1) * PageSize + 1, Least(p * PageSize, Len(s)))

LEMMA PageInType ==
  ASSUME NEW S, NEW s \in Seq(S), NEW p \in Nat \ {0}
  PROVE  /\ PageIn(s, p) \in Seq(S)
         /\ \A j \in 1 .. Len(s) : (p - 1) * PageSize < j /\ j <= p * PageSize
              => s[j] \in ToSet(PageIn(s, p))
<1>1. PageSize \in Nat \ {0}
  BY ConstantsAssumption DEF ConstantsAssumption
<1>2. PICK m \in Nat, n \in Nat : m = (p - 1) * PageSize /\ n = p * PageSize
  BY <1>1
<1>3. PICK L \in Nat : L = Len(s)
  BY LenProperties
<1>4. PICK e \in Nat : e = Least(n, L) /\ e <= n /\ e <= L /\ (n <= L => e = n) /\ (L <= n => e = L)
  BY Least(n, L) \in Nat, LeastIs DEF Least
<1>5. \A i \in m + 1 .. e : s[i] \in S
  <2> TAKE i \in m + 1 .. e
  <2>1. i \in 1 .. Len(s)
    BY <1>3, <1>4
  <2> QED BY <2>1, ElementOfSeq
<1> DEFINE r == SubSeq(s, m + 1, e)
<1>6. /\ r \in Seq(S) /\ Len(r) = IF m + 1 <= e THEN e - (m + 1) + 1 ELSE 0
      /\ \A i \in 1 .. e - (m + 1) + 1 : r[i] = s[(m + 1) + i - 1]
  <2>1. m + 1 \in Int /\ e \in Int
    OBVIOUS
  <2> QED BY <1>5, <2>1, SubSeqProperties
<1>7. PageIn(s, p) = r
  BY <1>2, <1>3, <1>4 DEF PageIn
<1>8. ASSUME NEW j \in 1 .. Len(s), m < j, j <= n PROVE s[j] \in ToSet(r)
  <2>1. j <= e /\ j - m \in 1 .. e - (m + 1) + 1 /\ (m + 1) + (j - m) - 1 = j
    BY <1>3, <1>4, <1>8
  <2>2. DOMAIN r = 1 .. Len(r)
    BY <1>6, LenProperties
  <2> HIDE DEF r
  <2>3. j - m \in DOMAIN r /\ r[j - m] = s[j]
    BY <1>6, <2>1, <2>2
  <2> QED BY <2>3 DEF ToSet
<1> QED BY <1>2, <1>6, <1>7, <1>8

(* The first k pages of a collection are its first k * PageSize items.    *)
LEMMA PagesOfWhole ==
  ASSUME NEW S, NEW s \in Seq(S), NEW h, NEW k \in Nat, \A q \in 1 .. k : h[q] = PageIn(s, q)
  PROVE  PagesOf(h, 1, k) = SubSeq(s, 1, Least(k * PageSize, Len(s)))
<1>0. PageSize \in Nat \ {0} /\ Len(s) \in Nat
  BY ConstantsAssumption, LenProperties DEF ConstantsAssumption
<1> DEFINE G == {i \in Nat : i <= k => PagesOf(h, 1, i) = SubSeq(s, 1, Least(i * PageSize, Len(s)))}
<1>1. 0 \in G
  <2>1. PagesOf(h, 1, 0) = <<>>
    BY NoPages, 1 - 1 = 0, 1 \in Nat
  <2>2. Least(0 * PageSize, Len(s)) = 0
    BY <1>0, LeastIs
  <2>3. SubSeq(s, 1, 0) = <<>>
    BY SubSeqEmpty
  <2> QED BY <2>1, <2>2, <2>3
<1>2. ASSUME NEW i \in Nat, i \in G PROVE i + 1 \in G
  <2> SUFFICES ASSUME i + 1 <= k
               PROVE  PagesOf(h, 1, i + 1) = SubSeq(s, 1, Least((i + 1) * PageSize, Len(s)))
    OBVIOUS
  <2>1. PICK m \in Nat, n \in Nat : m = i * PageSize /\ n = (i + 1) * PageSize
    BY <1>0
  <2>2. m <= n /\ i + 1 \in Nat \ {0} /\ i + 1 \in 1 .. k /\ (i + 1) - 1 = i
    BY <1>0, <2>1
  <2>3. h[i + 1] = PageIn(s, i + 1)
    BY <2>2
  <2>4. h[i + 1] \in Seq(S)
    BY <2>2, <2>3, PageInType
  <2>5. PagesOf(h, 1, i + 1) = PagesOf(h, 1, i) \o h[i + 1]
    BY <2>4, NextPage, 1 \in Nat, 1 <= i + 1
  <2>6. PagesOf(h, 1, i) = SubSeq(s, 1, Least(m, Len(s)))
    BY <1>2, <2>1
  <2>7. h[i + 1] = SubSeq(s, m + 1, Least(n, Len(s)))
    BY <2>1, <2>2, <2>3 DEF PageIn
  <2>8. SubSeq(s, 1, Least(m, Len(s))) \o SubSeq(s, m + 1, Least(n, Len(s)))
          = SubSeq(s, 1, Least(n, Len(s)))
    BY <2>2, Adjacent
  <2> QED BY <2>1, <2>5, <2>6, <2>7, <2>8
<1> HIDE DEF G
<1>3. k \in G
  BY <1>1, <1>2, NatInductive
<1> QED BY <1>3 DEF G

LEMMA MinIs ==
  ASSUME NEW T, T \subseteq Nat, T # {}
  PROVE  Min(T) \in T /\ \A m \in T : Min(T) <= m
<1>1. PICK n \in T : \A m \in T : n <= m
  BY LeastNumber
<1> QED BY <1>1 DEF Min

LEMMA EndsAre ==
  ASSUME NEW a \in Nat, NEW b \in Nat, a <= b
  PROVE  Min(a .. b) = a /\ Max(a .. b) = b
<1>1. a \in a .. b /\ \A y \in a .. b : a <= y
  OBVIOUS
<1>2. Min(a .. b) \in a .. b /\ \A y \in a .. b : Min(a .. b) <= y
  BY <1>1 DEF Min
<1>3. b \in a .. b /\ \A y \in a .. b : b >= y
  OBVIOUS
<1>4. Max(a .. b) \in a .. b /\ \A y \in a .. b : Max(a .. b) >= y
  BY <1>3 DEF Max
<1> QED BY <1>1, <1>2, <1>3, <1>4

(* What is behind a removed element moves up by one.                      *)
LEMMA RemoveAtIs ==
  ASSUME NEW S, NEW s \in Seq(S), NEW i \in 1 .. Len(s)
  PROVE  /\ RemoveAt(s, i) \in Seq(S)
         /\ Len(RemoveAt(s, i)) = Len(s) - 1
         /\ \A j \in 1 .. Len(s) - 1 : RemoveAt(s, i)[j] = IF j < i THEN s[j] ELSE s[j + 1]
<1>1. PICK L \in Nat : L = Len(s)
  BY LenProperties
<1>2. i \in 1 .. L
  BY <1>1
<1>3. PICK x, y : x = SubSeq(s, 1, i - 1) /\ y = SubSeq(s, i + 1, L)
  OBVIOUS
<1>4. \A k \in 1 .. L : s[k] \in S
  BY <1>1, ElementOfSeq
<1>5. /\ x \in Seq(S) /\ Len(x) = i - 1
      /\ \A k \in 1 .. i - 1 : x[k] = s[k]
  <2>1. 1 \in Int /\ i - 1 \in Int /\ \A k \in 1 .. i - 1 : s[k] \in S
    BY <1>2, <1>4
  <2>2. /\ x \in Seq(S) /\ Len(x) = IF 1 <= i - 1 THEN (i - 1) - 1 + 1 ELSE 0
        /\ \A k \in 1 .. (i - 1) - 1 + 1 : x[k] = s[1 + k - 1]
    BY <1>3, <2>1, SubSeqProperties
  <2> QED BY <1>2, <2>2
<1>6. /\ y \in Seq(S) /\ Len(y) = L - i
      /\ \A k \in 1 .. L - i : y[k] = s[i + k]
  <2>1. i + 1 \in Int /\ L \in Int /\ \A k \in i + 1 .. L : s[k] \in S
    BY <1>2, <1>4
  <2>2. /\ y \in Seq(S) /\ Len(y) = IF i + 1 <= L THEN L - (i + 1) + 1 ELSE 0
        /\ \A k \in 1 .. L - (i + 1) + 1 : y[k] = s[(i + 1) + k - 1]
    BY <1>3, <2>1, SubSeqProperties
  <2> QED BY <1>2, <2>2
<1>7. /\ x \o y \in Seq(S) /\ Len(x \o y) = Len(x) + Len(y)
      /\ \A k \in 1 .. Len(x) + Len(y) : (x \o y)[k] = IF k <= Len(x) THEN x[k] ELSE y[k - Len(x)]
  BY <1>5, <1>6, ConcatProperties
<1>8. ASSUME NEW j \in 1 .. L - 1 PROVE (x \o y)[j] = IF j < i THEN s[j] ELSE s[j + 1]
  <2>0. Len(x) = i - 1 /\ j \in 1 .. Len(x) + Len(y)
    <3>1. Len(x) = i - 1 /\ Len(y) = L - i
      BY <1>5, <1>6
    <3> QED BY <1>2, <3>1
  <2>1. (x \o y)[j] = IF j <= i - 1 THEN x[j] ELSE y[j - (i - 1)]
    <3>1. (x \o y)[j] = IF j <= Len(x) THEN x[j] ELSE y[j - Len(x)]
      BY <1>7, <2>0
    <3> QED BY <2>0, <3>1
  <2>2. ASSUME j < i PROVE (x \o y)[j] = s[j]
    BY <1>2, <1>5, <2>1, <2>2
  <2>3. ASSUME ~(j < i) PROVE (x \o y)[j] = s[j + 1]
    <3>1. j - (i - 1) \in 1 .. L - i /\ i + (j - (i - 1)) = j + 1 /\ ~(j <= i - 1)
      BY <1>2, <2>3
    <3>2. y[j - (i - 1)] = s[i + (j - (i - 1))]
      BY <1>6, <3>1
    <3> QED BY <2>1, <3>1, <3>2
  <2> QED BY <2>2, <2>3
<1>9. RemoveAt(s, i) = x \o y
  BY <1>1, <1>3 DEF RemoveAt
<1>10. Len(x \o y) = L - 1
  <2>1. Len(x) = i - 1 /\ Len(y) = L - i /\ Len(x \o y) = Len(x) + Len(y)
    BY <1>5, <1>6, <1>7
  <2> QED BY <1>2, <2>1
<1>11. x \o y \in Seq(S)
  BY <1>7
<1>12. \A j \in 1 .. L - 1 : (x \o y)[j] = IF j < i THEN s[j] ELSE s[j + 1]
  BY <1>8
<1> QED BY <1>1, <1>9, <1>10, <1>11, <1>12, Zenon

-----------------------------------------------------------------------------

(* The type invariant; the collection keeps within its bound.              *)
Types == TypeOK /\ Len(items) <= MaxItem

LEMMA Constants ==
  /\ PageSize \in Nat \ {0} /\ MaxPages \in Nat \ {0} /\ Concurrency \in Nat \ {0}
  /\ MaxItem \in Nat \ {0} /\ MaxChange \in Nat /\ MaxWrite \in Nat /\ None # <<>>
BY ConstantsAssumption, NoneAssumption DEF ConstantsAssumption, NoneAssumption

Shrinks ==
  /\ Len(items') = Len(items) - 1
  /\ \E i \in 1 .. Len(items) : \A j \in 1 .. Len(items) - 1 :
       items'[j] = IF j < i THEN items[j] ELSE items[j + 1]

(* A change of the collection adds in front, or removes and shifts.       *)
LEMMA ChangeMoves ==
  ASSUME Types, Change
  PROVE  /\ items' \in Items /\ IsInjective(items') /\ Len(items') <= MaxItem
         /\ changes' \in 0 .. MaxChange /\ grown' \in BOOLEAN
         /\ (grown' = TRUE \/ (grown' = grown /\ Shrinks))
<1>1. items \in Seq(Item) /\ Len(items) \in Nat /\ IsInjective(items) /\ DOMAIN items = 1 .. Len(items)
  BY LenProperties DEF Types, TypeOK, Items
<1>2. changes' \in 0 .. MaxChange
  BY Constants DEF Types, TypeOK, Change
<1>3. CASE /\ grown' = TRUE
           /\ \E i \in Item : Fresh(i) /\ Len(items) < MaxItem /\ items' = <<i>> \o items
  <2>1. PICK i \in Item : Fresh(i) /\ Len(items) < MaxItem /\ items' = <<i>> \o items
    BY <1>3
  <2>2. <<i>> \in Seq(Item) /\ Len(<<i>>) = 1 /\ <<i>>[1] = i
    OBVIOUS
  <2>3. /\ items' \in Seq(Item) /\ Len(items') = 1 + Len(items)
        /\ \A j \in 1 .. 1 + Len(items) : items'[j] = IF j <= 1 THEN <<i>>[j] ELSE items[j - 1]
    BY <1>1, <2>1, <2>2, ConcatProperties
  <2>4. DOMAIN items' = 1 .. 1 + Len(items)
    BY <2>3, LenProperties
  <2>5. \A j \in 1 .. Len(items) : items[j] < i /\ items[j] # i
    <3>1. \A j \in 1 .. Len(items) : items[j] \in Nat /\ i \in Nat
      BY <1>1, ElementOfSeq, Constants DEF Item
    <3> QED BY <2>1, <3>1 DEF Fresh
  <2>6. IsInjective(items')
    <3> SUFFICES ASSUME NEW a \in 1 .. 1 + Len(items), NEW b \in 1 .. 1 + Len(items),
                        items'[a] = items'[b]
                 PROVE  a = b
      BY <2>4 DEF IsInjective
    <3>1. items'[a] = (IF a = 1 THEN i ELSE items[a - 1]) /\ items'[b] = (IF b = 1 THEN i ELSE items[b - 1])
      BY <1>1, <2>2, <2>3
    <3>2. (a # 1 => a - 1 \in 1 .. Len(items)) /\ (b # 1 => b - 1 \in 1 .. Len(items))
      BY <1>1
    <3>3. a # 1 /\ b # 1 => a - 1 = b - 1
      BY <1>1, <3>1, <3>2 DEF IsInjective
    <3>4. CASE a = 1 \/ b = 1
      BY <2>5, <3>1, <3>2, <3>4
    <3> QED BY <1>1, <3>3, <3>4
  <2>7. Len(items') <= MaxItem
    BY <1>1, <2>1, <2>3, Constants
  <2> QED BY <1>2, <1>3, <2>3, <2>6, <2>7 DEF Items
<1>4. CASE /\ items # <<>>
           /\ \E i \in 1 .. Len(items) : items' = RemoveAt(items, i)
           /\ UNCHANGED grown
  <2>1. PICK i \in 1 .. Len(items) : items' = RemoveAt(items, i)
    BY <1>4
  <2>2. /\ items' \in Seq(Item) /\ Len(items') = Len(items) - 1
        /\ \A j \in 1 .. Len(items) - 1 : items'[j] = IF j < i THEN items[j] ELSE items[j + 1]
    BY <1>1, <2>1, RemoveAtIs
  <2>3. DOMAIN items' = 1 .. Len(items) - 1
    BY <2>2, LenProperties
  <2>4. IsInjective(items')
    <3> SUFFICES ASSUME NEW a \in 1 .. Len(items) - 1, NEW b \in 1 .. Len(items) - 1,
                        items'[a] = items'[b]
                 PROVE  a = b
      BY <2>3 DEF IsInjective
    <3> DEFINE Old(j) == IF j < i THEN j ELSE j + 1
    <3>1. /\ Old(a) \in 1 .. Len(items) /\ Old(b) \in 1 .. Len(items)
          /\ items'[a] = items[Old(a)] /\ items'[b] = items[Old(b)]
          /\ (Old(a) = Old(b) => a = b)
      BY <1>1, <2>2
    <3> HIDE DEF Old
    <3> QED BY <1>1, <3>1 DEF IsInjective
  <2>5. Len(items') <= MaxItem
    BY <1>1, <2>2, Constants DEF Types
  <2>6. grown' = grown /\ grown \in BOOLEAN
    BY <1>4 DEF Types, TypeOK
  <2> QED BY <1>2, <2>2, <2>4, <2>5, <2>6 DEF Items, Shrinks
<1> QED BY <1>3, <1>4 DEF Change

(* A walk has collected the pages below a, and requested those from a to  *)
(* next - 1: one page, or a wave. It goes on after an empty page only in  *)
(* waves.                                                                 *)
Collected(a) ==
  /\ reading = a .. next - 1
  /\ how # "all" => next <= a + 1
  /\ \A q \in 2 .. a - 1 : got[q] # None
  /\ warned <=> \E q \in 2 .. a - 1 : got[q] = <<>>
  /\ warned => how = "all" /\ ~throwing
  /\ result = PagesOf(got, 1, a - 1)

(* Nothing is known of pages not yet requested.                           *)
Outside ==
  /\ next <= LastPage + 1
  /\ \A q \in Page : q >= next => got[q] = None
  /\ pc \in {"new", "first", "answered"} => next = 2 /\ ~warned /\ result = <<>>
  /\ pc \in {"answered", "walk"} => got[1] \in Items

Collecting == pc = "walk" => \E a \in 2 .. next : Collected(a)

(* A walk that resolved without a warning has every page.                 *)
Whole ==
  pc = "resolved" /\ ~warned =>
    /\ total <= MaxPages /\ next = total + 1
    /\ result = PagesOf(got, 1, total)
    /\ \A q \in 2 .. total : got[q] # None /\ got[q] # <<>>

(* PartialIsPrefix, of any answers.                                       *)
Prefix ==
  pc = "empty-page" =>
    \E p \in 2 .. LastPage : /\ got[p] = <<>> /\ result = PagesOf(got, 1, p - 1)
                            /\ \A q \in 2 .. p - 1 : got[q] # <<>>

(* The inductive invariant: what is collected is always the pages from    *)
(* the first one, in order, whichever answer came first.                  *)
Walked == Types /\ Outside /\ Collecting /\ Whole /\ ShortIsSaid /\ Prefix

LEMMA LastPageIs ==
  ASSUME NEW t \in Nat \ {0}
  PROVE  /\ Least(t, MaxPages) \in Nat
         /\ 1 <= Least(t, MaxPages) /\ Least(t, MaxPages) <= t /\ Least(t, MaxPages) <= MaxPages
         /\ t <= MaxPages => Least(t, MaxPages) = t
         /\ t > MaxPages => Least(t, MaxPages) = MaxPages
BY Constants DEF Least

LEMMA Typed ==
  ASSUME Types
  PROVE  /\ total \in Nat \ {0} /\ next \in Nat /\ next >= 2 /\ next <= MaxPages + 1
         /\ LastPage \in Nat /\ 1 <= LastPage /\ LastPage <= MaxPages
BY LastPageIs, Constants DEF Types, TypeOK, LastPage

LEMMA InitWalked ==
  ASSUME Init
  PROVE  Walked
<1>1. PICK n \in 0 .. MaxItem : items = [i \in 1 .. n |-> i]
  BY DEF Init
<1>2. items \in Seq(Item) /\ Len(items) = n /\ IsInjective(items)
  BY <1>1, Constants DEF Item, IsInjective
<1>3. TypeOK
  <2>1. written \in [applied : 0 .. MaxWrite, done : 0 .. MaxWrite] /\ written.done <= written.applied
    BY Constants DEF Init
  <2>2. got \in [Page -> Items \cup {None}] /\ result \in Seq(Item) /\ before \in Items
    BY DEF Init, Items
  <2>3. total \in 1 .. MaxItem /\ next \in 2 .. MaxPages + 1
    BY Constants DEF Init
  <2>4. changes \in 0 .. MaxChange /\ began \in 0 .. MaxWrite /\ seen \in 0 .. MaxWrite
    BY Constants DEF Init
  <2> QED BY <1>2, <2>1, <2>2, <2>3, <2>4 DEF Init, TypeOK, Items
<1>4. Types
  BY <1>2, <1>3, Constants DEF Types
<1>5. Outside
  BY <1>4, Typed DEF Init, Outside, Page
<1> QED BY <1>4, <1>5 DEF Init, Walked, Collecting, Whole, ShortIsSaid, Prefix

LEMMA WalkFrame ==
  ASSUME Walked, UNCHANGED <<pc, how, throwing, total, next, got, reading, result, warned>>
  PROVE  (Outside /\ Collecting /\ Whole /\ ShortIsSaid /\ Prefix)'
<1>1. LastPage' = LastPage
  BY DEF LastPage
<1>2. \A a : Collected(a)' <=> Collected(a)
  BY DEF Collected
<1> QED BY <1>1, <1>2 DEF Walked, Outside, Collecting, Whole, ShortIsSaid, Prefix

LEMMA WriteMoves ==
  ASSUME Types, ServerChanges \/ ServerWrites \/ WriteCompletes
  PROVE  /\ written' \in [applied : 0 .. MaxWrite, done : 0 .. MaxWrite]
         /\ written'.done <= written'.applied /\ written.done <= written'.done
<1>1. /\ written \in [applied : 0 .. MaxWrite, done : 0 .. MaxWrite]
      /\ written.done <= written.applied
  BY DEF Types, TypeOK
<1>2. written.applied \in 0 .. MaxWrite /\ written.done \in 0 .. MaxWrite
  BY <1>1
<1>3. CASE ServerChanges
  BY <1>1, <1>2, <1>3, Constants DEF ServerChanges
<1>4. CASE ServerWrites
  <2>1. /\ written.applied + 1 \in 0 .. MaxWrite
        /\ written' = [written EXCEPT !.applied = @ + 1]
    BY <1>2, <1>4, Constants DEF ServerWrites
  <2>2. written'.done = written.done /\ written'.applied = written.applied + 1
    BY <1>1, <2>1
  <2> QED BY <1>1, <1>2, <2>1, <2>2, Constants
<1>5. CASE WriteCompletes
  <2>1. /\ written.done + 1 \in 0 .. MaxWrite /\ written.done + 1 <= written.applied
        /\ written' = [written EXCEPT !.done = @ + 1]
    BY <1>1, <1>2, <1>5, Constants DEF WriteCompletes
  <2>2. written'.done = written.done + 1 /\ written'.applied = written.applied
    BY <1>1, <2>1
  <2> QED BY <1>1, <1>2, <2>1, <2>2, Constants
<1> QED BY <1>3, <1>4, <1>5

(* The server's steps do not touch the walk.                              *)
LEMMA ServerSteps ==
  ASSUME Walked, ServerChanges \/ ServerWrites \/ WriteCompletes
  PROVE  Walked'
<1>1. (Outside /\ Collecting /\ Whole /\ ShortIsSaid /\ Prefix)'
  BY WalkFrame DEF ServerChanges, ServerWrites, WriteCompletes, Walk, kind
<1>2. Types /\ UNCHANGED Walk
  BY DEF Walked, ServerChanges, ServerWrites, WriteCompletes
<1>3. CASE Change
  <2>1. /\ items' \in Items /\ IsInjective(items') /\ Len(items') <= MaxItem
        /\ changes' \in 0 .. MaxChange /\ grown' \in BOOLEAN
    BY <1>2, <1>3, ChangeMoves
  <2>2. /\ written' \in [applied : 0 .. MaxWrite, done : 0 .. MaxWrite]
        /\ written'.done <= written'.applied
    BY WriteMoves DEF Walked
  <2>3. entry' = None \/ entry' \in Entry
    BY <1>2 DEF Types, TypeOK, ServerChanges, ServerWrites, WriteCompletes
  <2> QED BY <1>1, <1>2, <2>1, <2>2, <2>3 DEF Walked, Types, TypeOK, Walk, kind
<1>4. CASE WriteCompletes
  <2>1. /\ written' \in [applied : 0 .. MaxWrite, done : 0 .. MaxWrite]
        /\ written'.done <= written'.applied
    BY WriteMoves DEF Walked
  <2> QED BY <1>1, <1>2, <1>4, <2>1 DEF Walked, Types, TypeOK, Walk, kind, WriteCompletes
<1> QED BY <1>3, <1>4 DEF ServerChanges, ServerWrites

LEMMA StartSteps ==
  ASSUME Walked, NEW h \in {"eager", "stream", "all"}, NEW t \in BOOLEAN, Start(h, t)
  PROVE  Walked'
<1>1. Types'
  BY Constants DEF Walked, Start, server, Types, TypeOK
<1>2. LastPage' = LastPage
  BY DEF Start, LastPage
<1>3. Outside'
  BY <1>2 DEF Walked, Start, Outside
<1> QED BY <1>1, <1>3 DEF Walked, Start, Collecting, Whole, ShortIsSaid, Prefix

LEMMA FirstAnswersSteps ==
  ASSUME Walked, FirstAnswers
  PROVE  Walked'
<1>1. items \in Seq(Item) /\ Len(items) \in Nat /\ Len(items) <= MaxItem
  BY LenProperties DEF Walked, Types, TypeOK, Items
<1>2. XPages \in 1 .. MaxItem
  <2>1. CASE items = <<>>
    BY <2>1, Constants DEF XPages
  <2>2. CASE items # <<>>
    <3>1. Len(items) \in Nat \ {0}
      BY <1>1, <2>2
    <3>2. XPages = (Len(items) + PageSize - 1) \div PageSize
      BY <2>2 DEF XPages
    <3>3. XPages \in 1 .. Len(items)
      BY <3>1, <3>2, Constants, PageCount
    <3> QED BY <1>1, <3>3, Constants
  <2> QED BY <2>1, <2>2
<1>3. PageOf(1) \in Items
  <2>1. PageIn(items, 1) \in Seq(Item)
    BY <1>1, PageInType, 1 \in Nat \ {0}
  <2> QED BY <2>1 DEF PageOf, PageIn, Items
<1>4. got' \in [Page -> Items \cup {None}] /\ got'[1] = PageOf(1)
      /\ \A q \in Page : q # 1 => got'[q] = got[q]
  BY <1>3, Constants DEF Walked, Types, TypeOK, FirstAnswers, Page
<1>5. Types'
  BY <1>2, <1>4 DEF Walked, FirstAnswers, kind, Types, TypeOK
<1>6. next' = 2 /\ ~warned' /\ result' = <<>>
  BY DEF Walked, Outside, FirstAnswers
<1>7. 2 <= LastPage' + 1
  <2>1. total' \in Nat \ {0}
    BY <1>2, Constants DEF FirstAnswers
  <2>2. PICK t \in Nat \ {0} : t = total'
    BY <2>1
  <2>3. 2 <= Least(t, MaxPages) + 1
    BY LastPageIs
  <2> QED BY <2>2, <2>3 DEF LastPage
<1>8. Outside'
  <2>1. \A q \in Page : q >= 2 => q # 1 /\ q >= next /\ got[q] = None
    BY <1>6, Constants DEF Walked, Outside, FirstAnswers, Page
  <2>2. \A q \in Page : q >= next' => got'[q] = None
    BY <1>4, <1>6, <2>1
  <2>3. next' <= LastPage' + 1
    BY <1>6, <1>7
  <2>4. got'[1] \in Items
    BY <1>3, <1>4
  <2> QED BY <1>6, <2>2, <2>3, <2>4 DEF Outside
<1> QED BY <1>5, <1>8 DEF Walked, FirstAnswers, Collecting, Whole, ShortIsSaid, Prefix

LEMMA BeginSteps ==
  ASSUME Walked, Begin
  PROVE  Walked'
<1>1. got[1] \in Items /\ next = 2 /\ ~warned /\ Types /\ reading = {}
  BY DEF Walked, Outside, Begin, Types, TypeOK
<1>2. Types'
  BY <1>1 DEF Begin, server, kind, Types, TypeOK, Items, Ended
<1>3. LastPage' = LastPage
  BY DEF Begin, LastPage
<1>4. Outside'
  BY <1>1, <1>3 DEF Walked, Outside, Begin
<1>5. Collecting'
  <2>1. PagesOf(got, 1, 1) = got[1]
    BY OnePage, 1 \in Nat
  <2>2. 2 - 1 = 1 /\ 2 \in 2 .. next /\ 2 .. next - 1 = {} /\ 2 .. 2 - 1 = {}
    BY <1>1
  <2>3. Collected(2)'
    BY <1>1, <2>1, <2>2 DEF Begin, Collected, server, kind
  <2> QED BY <1>1, <2>2, <2>3 DEF Begin, Collecting
<1> QED BY <1>2, <1>4, <1>5 DEF Walked, Begin, Whole, ShortIsSaid, Prefix

LEMMA RequestSteps ==
  ASSUME Walked, Request
  PROVE  Walked'
<1>1. /\ Types /\ next <= LastPage
      /\ next' = IF how = "all" THEN Least(next + Concurrency, LastPage + 1) ELSE next + 1
      /\ reading = {} /\ reading' = next .. next' - 1
      /\ UNCHANGED <<pc, how, throwing, total, got, result, warned>>
  BY DEF Walked, Request, server, kind
<1>2. next' \in Nat /\ next < next' /\ next' <= LastPage + 1
  BY <1>1, Typed, Constants DEF Least
<1>3. LastPage' = LastPage
  BY <1>1 DEF LastPage
<1>4. Types'
  <2>1. next' \in 2 .. MaxPages + 1 /\ reading' \subseteq Page
    BY <1>1, <1>2, Typed, Constants DEF Page
  <2> QED BY <1>1, <2>1 DEF Request, server, kind, Types, TypeOK
<1>5. Outside'
  BY <1>1, <1>2, <1>3, Typed, Constants DEF Walked, Outside, Request, Page
<1>6. PICK a \in 2 .. next : Collected(a)
  BY DEF Walked, Collecting, Request
<1>7. a = next
  BY <1>1, <1>6, Typed DEF Collected
<1>8. Collected(a)'
  <2>1. reading' = a .. next' - 1 /\ (how' # "all" => next' <= a + 1)
    BY <1>1, <1>2, <1>7, Typed
  <2> QED BY <1>1, <1>6, <2>1 DEF Collected
<1>9. Collecting'
  <2>1. a \in 2 .. next'
    BY <1>1, <1>2, <1>7, Typed
  <2> QED BY <1>8, <2>1 DEF Collecting
<1> QED BY <1>4, <1>5, <1>9 DEF Walked, Request, Whole, ShortIsSaid, Prefix

LEMMA PageAnswersSteps ==
  ASSUME Walked, NEW p \in Page, PageAnswers(p)
  PROVE  Walked'
<1>1. /\ Types /\ p \in reading /\ got[p] = None /\ got' = [got EXCEPT ![p] = PageOf(p)]
      /\ UNCHANGED <<pc, how, throwing, total, next, reading, result, warned>>
  BY DEF Walked, PageAnswers, kind
<1>2. pc = "walk" /\ items \in Seq(Item) /\ got \in [Page -> Items \cup {None}]
  BY <1>1 DEF Types, TypeOK, Items
<1>3. PICK a \in 2 .. next : Collected(a)
  BY <1>2 DEF Walked, Collecting
<1>4. p \in Nat \ {0} /\ a <= p /\ p < next /\ a \in Nat /\ 2 <= a
  BY <1>1, <1>3, Typed DEF Collected
<1>5. PageOf(p) \in Items
  <2>1. PageIn(items, p) \in Seq(Item)
    BY <1>2, <1>4, PageInType
  <2> QED BY <2>1 DEF PageOf, PageIn, Items
<1>6. got' \in [Page -> Items \cup {None}] /\ \A q : q # p => got'[q] = got[q]
  BY <1>1, <1>2, <1>5
<1>7. Types'
  BY <1>1, <1>6 DEF PageAnswers, server, kind, Types, TypeOK
<1>8. LastPage' = LastPage
  BY <1>1 DEF LastPage
<1>9. Outside'
  <2>1. \A q \in Page : q >= next' => got'[q] = None
    <3>1. \A q \in Page : q >= next => q # p
      BY <1>1, <1>4, Typed, Constants DEF Page
    <3> QED BY <1>1, <1>6, <3>1 DEF Walked, Outside
  <2>2. got'[1] \in Items
    BY <1>2, <1>4, <1>6 DEF Walked, Outside
  <2>3. next' <= LastPage' + 1
    BY <1>1, <1>8 DEF Walked, Outside
  <2> QED BY <1>1, <1>2, <2>1, <2>2, <2>3 DEF Outside
<1>10. Collected(a)'
  <2>1. a - 1 \in Nat /\ \A q \in 1 .. a - 1 : got'[q] = got[q]
    BY <1>4, <1>6
  <2>2. PagesOf(got', 1, a - 1) = PagesOf(got, 1, a - 1)
    BY <2>1, PagesSame, 1 \in Nat
  <2>3. \A q \in 2 .. a - 1 : got'[q] = got[q]
    BY <2>1
  <2> QED BY <1>1, <1>3, <2>2, <2>3 DEF Collected
<1>11. Collecting'
  BY <1>1, <1>3, <1>10 DEF Collecting
<1> QED BY <1>1, <1>2, <1>7, <1>9, <1>11 DEF Walked, Whole, ShortIsSaid, Prefix

LEMMA PageFailsSteps ==
  ASSUME Walked, PageFails
  PROVE  Walked'
<1>1. Types'
  BY DEF Walked, PageFails, server, kind, Types, TypeOK, Ended
<1>2. LastPage' = LastPage
  BY DEF PageFails, LastPage
<1>3. Outside'
  BY <1>2 DEF Walked, PageFails, Outside
<1> QED BY <1>1, <1>3 DEF Walked, PageFails, Collecting, Whole, ShortIsSaid, Prefix

(* The pages a walk has collected, and those of a wave that is in.         *)
LEMMA PagesIn ==
  ASSUME Walked, pc = "walk", NEW a \in 2 .. next, Collected(a),
         \A q \in reading : got[q] # None
  PROVE  /\ a \in Nat /\ a - 1 \in Nat /\ next \in Nat
         /\ \A q \in 1 .. next - 1 : got[q] \in Seq(Item)
         /\ \A q \in 2 .. next - 1 : got[q] # None
<1>1. a \in Nat /\ a >= 2 /\ next \in Nat /\ next <= MaxPages + 1
  BY Typed DEF Walked
<1>2. \A q \in 2 .. next - 1 : got[q] # None
  <2>1. \A q \in 2 .. next - 1 : q \in 2 .. a - 1 \/ q \in a .. next - 1
    BY <1>1
  <2> QED BY <2>1 DEF Collected
<1>3. \A q \in 1 .. next - 1 : q \in Page
  BY <1>1, Constants DEF Page
<1>4. got[1] \in Items /\ got \in [Page -> Items \cup {None}]
  BY DEF Walked, Outside, Types, TypeOK
<1>5. \A q \in 1 .. next - 1 : q = 1 \/ q \in 2 .. next - 1
  BY <1>1
<1>6. \A q \in 1 .. next - 1 : got[q] \in Items
  BY <1>2, <1>3, <1>4, <1>5
<1> QED BY <1>1, <1>2, <1>6 DEF Items

LEMMA ResolveTypes ==
  ASSUME Types, NEW short \in BOOLEAN, Resolve(short)
  PROVE  pc' = "resolved" /\ warned' = short /\ (entry' = None \/ entry' \in Entry)
BY DEF Types, TypeOK, Resolve, Entry

(* The walk ends: with all pages, or short because of the page limit.     *)
LEMMA FinishSteps ==
  ASSUME Walked, Finish
  PROVE  Walked'
<1>1. /\ Types /\ pc = "walk" /\ reading = {} /\ next > LastPage
      /\ UNCHANGED <<how, throwing, total, next, got, reading, result>>
  BY DEF Walked, Finish, AllPages, kind
<1>2. (warned \/ total > MaxPages) \in BOOLEAN /\ warned \in BOOLEAN
  BY <1>1 DEF Types, TypeOK
<1>3. pc' = "resolved" /\ warned' = (warned \/ total > MaxPages) /\ (entry' = None \/ entry' \in Entry)
  BY <1>1, <1>2, ResolveTypes DEF Finish
<1>4. Types'
  BY <1>1, <1>2, <1>3 DEF Finish, Types, TypeOK, Ended, kind
<1>5. LastPage' = LastPage
  BY <1>1 DEF LastPage
<1>6. Outside'
  BY <1>1, <1>3, <1>5 DEF Walked, Outside
<1>7. PICK a \in 2 .. next : Collected(a)
  BY <1>1 DEF Walked, Collecting
<1>8. next = LastPage + 1 /\ a = next /\ LastPage \in Nat
  BY <1>1, <1>7, Typed DEF Walked, Outside, Collected
<1>9. /\ \A q \in 2 .. LastPage : got[q] # None
      /\ warned <=> \E q \in 2 .. LastPage : got[q] = <<>>
      /\ result = PagesOf(got, 1, LastPage)
  <2>1. a - 1 = LastPage
    BY <1>8
  <2> QED BY <1>7, <2>1 DEF Collected
<1>10. /\ total <= MaxPages => LastPage = total
       /\ total > MaxPages => LastPage = MaxPages
       /\ total \in Nat /\ MaxPages \in Nat
  BY <1>1, Typed, LastPageIs, Constants DEF LastPage
<1>11. CASE total <= MaxPages
  <2>1. LastPage = total /\ warned' = warned /\ next = total + 1
    BY <1>2, <1>3, <1>8, <1>10, <1>11
  <2>2. /\ \A q \in 2 .. total : got[q] # None
        /\ warned <=> \E q \in 2 .. total : got[q] = <<>>
        /\ result = PagesOf(got, 1, total)
    BY <1>9, <2>1
  <2>3. \A p \in 2 .. total : ~(p > MaxPages)
    BY <1>10, <1>11
  <2>4. Whole'
    BY <1>1, <1>3, <1>11, <2>1, <2>2 DEF Whole
  <2>5. ShortIsSaid'
    BY <1>1, <1>3, <2>1, <2>2, <2>3 DEF ShortIsSaid
  <2> QED BY <1>3, <1>4, <1>6, <2>4, <2>5 DEF Walked, Collecting, Prefix
<1>12. CASE total > MaxPages
  <2>1. MaxPages + 1 \in 2 .. total /\ MaxPages + 1 > MaxPages
    BY <1>10, <1>12, Constants
  <2>2. Whole' /\ ShortIsSaid'
    BY <1>1, <1>3, <1>12, <2>1 DEF Whole, ShortIsSaid
  <2> QED BY <1>3, <1>4, <1>6, <2>2 DEF Walked, Collecting, Prefix
<1> QED BY <1>10, <1>11, <1>12

(* Page by page: an empty page ends the walk.                             *)
LEMMA CollectSteps ==
  ASSUME Walked, Collect
  PROVE  Walked'
<1>1. /\ Types /\ how # "all" /\ reading # {} /\ (\A q \in reading : got[q] # None) /\ reading' = {}
      /\ UNCHANGED <<how, throwing, total, next, got>>
  BY DEF Walked, Collect, AllIn, kind
<1>2. pc = "walk"
  BY <1>1 DEF Types, TypeOK
<1>3. PICK a \in 2 .. next : Collected(a)
  BY <1>2 DEF Walked, Collecting
<1>4. /\ a \in Nat /\ a - 1 \in Nat /\ next \in Nat
      /\ \A q \in 1 .. next - 1 : got[q] \in Seq(Item)
      /\ \A q \in 2 .. next - 1 : got[q] # None
  BY <1>1, <1>2, <1>3, PagesIn
<1>5. next = a + 1 /\ next - 1 = a /\ reading = {a} /\ ~warned /\ a >= 2
  BY <1>1, <1>3, <1>4 DEF Collected
<1>6. LastPage' = LastPage /\ a \in 2 .. LastPage /\ LastPage <= total
  BY <1>1, <1>4, <1>5, Typed, LastPageIs DEF LastPage, Walked, Outside
<1>7. Outside' \/ pc' # "walk"
  BY <1>1, <1>2, <1>6 DEF Walked, Outside
<1>8. \A q \in 2 .. a - 1 : got[q] # <<>>
  BY <1>3, <1>5 DEF Collected
<1>9. CASE Empty = {} /\ result' = result \o got[Min(reading)] /\ UNCHANGED <<pc, warned, entry>>
  <2>1. Min(reading) = a
    <3>1. a .. a = reading
      BY <1>4, <1>5
    <3> QED BY <1>4, <3>1, EndsAre, a <= a
  <2>2. got[a] # <<>> /\ got[a] # None /\ got[a] \in Seq(Item)
    BY <1>1, <1>4, <1>5, <1>9 DEF Empty
  <2>3. PagesOf(got, 1, a) = PagesOf(got, 1, a - 1) \o got[a]
    <3>1. PICK d \in Nat : d = a - 1 /\ d + 1 = a /\ 1 <= d
      BY <1>4, <1>5
    <3>2. PagesOf(got, 1, d + 1) = PagesOf(got, 1, d) \o got[d + 1]
      BY <3>1, PageAppended, 1 \in Nat
    <3> QED BY <3>1, <3>2
  <2>4. result' = PagesOf(got, 1, a)
    BY <1>3, <1>9, <2>1, <2>3 DEF Collected
  <2>5. result' \in Seq(Item)
    BY <1>4, <1>5, <2>4, PagesType, 1 \in Nat, 1 <= a + 1
  <2>6. Types'
    BY <1>1, <1>2, <1>9, <2>5 DEF Collect, Types, TypeOK, kind
  <2>7. PICK c \in 2 .. next : c = next /\ c = a + 1 /\ c - 1 = a
    BY <1>4, <1>5
  <2>8. \A q \in 2 .. a : got[q] # None /\ got[q] # <<>>
    <3>1. \A q \in 2 .. a : q = a \/ q \in 2 .. a - 1
      BY <1>4
    <3> QED BY <1>4, <1>5, <1>8, <2>2, <3>1
  <2>9. reading' = c .. next' - 1 /\ next' <= c + 1
    BY <1>1, <1>4, <2>7
  <2>10. Collected(c)'
    BY <1>1, <1>5, <1>9, <2>4, <2>7, <2>8, <2>9 DEF Collected
  <2>11. Collecting'
    BY <1>1, <2>10 DEF Collecting
  <2>12. Outside'
    BY <1>2, <1>7, <1>9
  <2> QED BY <1>2, <1>9, <2>6, <2>11, <2>12 DEF Walked, Whole, ShortIsSaid, Prefix
<1>10. CASE Empty # {} /\ UNCHANGED result /\ (IF throwing THEN Reject("empty-page") ELSE Resolve(TRUE))
  <2>1. got[a] = <<>>
    BY <1>5, <1>10 DEF Empty
  <2>2. entry' = None \/ entry' \in Entry
    BY <1>1, <1>10, ResolveTypes DEF Reject, Types, TypeOK
  <2>3. IF throwing THEN pc' = "empty-page" /\ warned' = FALSE ELSE pc' = "resolved" /\ warned' = TRUE
    BY <1>5, <1>10 DEF Reject, Resolve
  <2>4. Types'
    BY <1>1, <1>10, <2>2, <2>3 DEF Collect, Types, TypeOK, Ended, kind
  <2>5. Outside'
    BY <1>1, <2>3, <1>6 DEF Walked, Outside
  <2>6. Prefix'
    BY <1>1, <1>3, <1>6, <1>8, <1>10, <2>1, <2>3 DEF Prefix, Collected
  <2>7. ShortIsSaid'
    <3>1. a \in 2 .. total
      BY <1>1, <1>4, <1>6, Typed
    <3> QED BY <1>1, <2>1, <2>3, <3>1 DEF ShortIsSaid
  <2> QED BY <2>3, <2>4, <2>5, <2>6, <2>7 DEF Walked, Collecting, Whole
<1> QED BY <1>9, <1>10 DEF Collect

(* A wave: collected to its first empty page, or all of it.               *)
LEMMA CollectWaveSteps ==
  ASSUME Walked, CollectWave
  PROVE  Walked'
<1>1. /\ Types /\ how = "all" /\ reading # {} /\ (\A q \in reading : got[q] # None) /\ reading' = {}
      /\ UNCHANGED <<how, throwing, total, next, got, entry>>
  BY DEF Walked, CollectWave, AllIn, kind, Reject
<1>2. pc = "walk"
  BY <1>1 DEF Types, TypeOK
<1>3. PICK a \in 2 .. next : Collected(a)
  BY <1>2 DEF Walked, Collecting
<1>4. /\ a \in Nat /\ a - 1 \in Nat /\ next \in Nat
      /\ \A q \in 1 .. next - 1 : got[q] \in Seq(Item)
      /\ \A q \in 2 .. next - 1 : got[q] # None
  BY <1>1, <1>2, <1>3, PagesIn
<1>5. PICK b \in Nat : b = next - 1 /\ next = b + 1 /\ a <= b /\ reading = a .. b
  BY <1>1, <1>3, <1>4 DEF Collected
<1>6. Min(reading) = a /\ Max(reading) = b
  BY <1>4, <1>5, EndsAre
<1>7. LastPage' = LastPage /\ b <= LastPage /\ LastPage \in Nat
  BY <1>1, <1>5, Typed DEF LastPage, Walked, Outside
<1>8. result = PagesOf(got, 1, a - 1) /\ (a - 1) + 1 = a /\ 1 <= a
  BY <1>3, <1>4 DEF Collected
<1>9. ASSUME NEW c \in Nat, a - 1 <= c, c <= b
      PROVE  /\ result \o Pages(a, c) = PagesOf(got, 1, c)
             /\ PagesOf(got, 1, c) \in Seq(Item)
  <2>1. \A q \in 1 .. c : got[q] \in Seq(Item)
    BY <1>4, <1>5, <1>9
  <2>2. PICK d \in Nat : d = a - 1 /\ d + 1 = a /\ 1 <= d + 1 /\ d <= c
    BY <1>4, <1>9
  <2>3. PagesOf(got, 1, d) \o PagesOf(got, d + 1, c) = PagesOf(got, 1, c)
    BY <2>1, <2>2, PagesConcat, 1 \in Nat
  <2>4. Pages(a, c) = PagesOf(got, a, c)
    BY PagesAre
  <2>5. PagesOf(got, 1, c) \in Seq(Item)
    BY <2>1, PagesType, 1 \in Nat, 1 <= c + 1
  <2> QED BY <1>8, <2>2, <2>3, <2>4, <2>5
<1>10. CASE /\ Empty # {} /\ throwing /\ Reject("empty-page")
            /\ result' = result \o Pages(Min(reading), Min(Empty) - 1)
  <2>1. PICK m \in a .. b : m = Min(Empty) /\ got[m] = <<>> /\ \A q \in Empty : m <= q
    <3>1. Empty \subseteq Nat /\ Empty \subseteq a .. b
      <4>1. Empty \subseteq reading
        BY DEF Empty
      <4>2. reading \subseteq Nat
        BY <1>4, <1>5
      <4> QED BY <1>5, <4>1, <4>2
    <3>2. Min(Empty) \in Empty /\ \A q \in Empty : Min(Empty) <= q
      BY <1>10, <3>1, MinIs
    <3> QED BY <3>1, <3>2 DEF Empty
  <2>2. m - 1 \in Nat /\ a - 1 <= m - 1 /\ m - 1 <= b /\ m \in Nat
    BY <1>4, <1>8, <2>1
  <2>3. result' = PagesOf(got, 1, m - 1) /\ result' \in Seq(Item)
    BY <1>6, <1>9, <1>10, <2>1, <2>2
  <2>4. \A q \in 2 .. m - 1 : got[q] # <<>>
    <3>1. \A q \in 2 .. a - 1 : got[q] # <<>>
      BY <1>3, <1>10 DEF Collected
    <3>2. \A q \in a .. m - 1 : q \in reading /\ ~(m <= q)
      BY <1>4, <1>5, <2>1, <2>2
    <3>3. \A q \in a .. m - 1 : got[q] # <<>>
      BY <2>1, <3>2 DEF Empty
    <3>4. \A q \in 2 .. m - 1 : q \in 2 .. a - 1 \/ q \in a .. m - 1
      BY <1>4, <2>2
    <3> QED BY <3>1, <3>3, <3>4
  <2>5. m \in 2 .. LastPage
    BY <1>4, <1>5, <1>7, <2>1
  <2>6. pc' = "empty-page" /\ UNCHANGED <<warned, entry>>
    BY <1>10 DEF Reject
  <2>7. Types'
    BY <1>1, <2>3, <2>6 DEF CollectWave, Types, TypeOK, Ended, kind
  <2>8. Outside'
    BY <1>1, <1>7, <2>6 DEF Walked, Outside
  <2>9. Prefix'
    BY <1>1, <1>7, <2>1, <2>3, <2>4, <2>5 DEF Prefix
  <2> QED BY <2>6, <2>7, <2>8, <2>9 DEF Walked, Collecting, Whole, ShortIsSaid
<1>11. CASE /\ Empty = {} \/ ~throwing
            /\ result' = result \o Pages(Min(reading), Max(reading))
            /\ warned' = (warned \/ Empty # {})
            /\ UNCHANGED <<pc, entry>>
  <2>1. result' = PagesOf(got, 1, b) /\ result' \in Seq(Item)
    BY <1>4, <1>5, <1>6, <1>9, <1>11, a - 1 <= b, b <= b
  <2>2. warned' \in BOOLEAN
    BY <1>1, <1>11 DEF Types, TypeOK
  <2>3. Types'
    BY <1>1, <1>2, <1>11, <2>1, <2>2 DEF CollectWave, Types, TypeOK, kind
  <2>4. PICK c \in 2 .. next : c = next /\ c - 1 = b /\ c .. next - 1 = {}
    BY <1>4, <1>5
  <2>5. \A q \in 2 .. b : q \in 2 .. a - 1 \/ q \in reading
    BY <1>4, <1>5
  <2>6. \A q \in reading : q \in 2 .. b
    BY <1>4, <1>5
  <2>7. warned' <=> \E q \in 2 .. b : got[q] = <<>>
    <3>1. warned <=> \E q \in 2 .. a - 1 : got[q] = <<>>
      BY <1>3 DEF Collected
    <3>2. \A q \in 2 .. a - 1 : q \in 2 .. b
      BY <1>4, <1>5
    <3>3. Empty # {} <=> \E q \in reading : got[q] = <<>>
      BY DEF Empty
    <3> QED BY <1>11, <2>5, <2>6, <3>1, <3>2, <3>3
  <2>8. warned' => ~throwing
    BY <1>3, <1>11 DEF Collected
  <2>9. \A q \in 2 .. b : got[q] # None
    BY <1>4, <1>5
  <2>10. Collected(c)'
    BY <1>1, <2>1, <2>4, <2>7, <2>8, <2>9 DEF Collected
  <2>11. Collecting'
    BY <1>1, <2>10 DEF Collecting
  <2>12. Outside'
    BY <1>1, <1>2, <1>7, <1>11 DEF Walked, Outside
  <2> QED BY <1>2, <1>11, <2>3, <2>11, <2>12 DEF Walked, Whole, ShortIsSaid, Prefix
<1> QED BY <1>10, <1>11 DEF CollectWave

(* The result of a walk is the pages collected so far, in page order: in  *)
(* fetchRemainingPages, fetchPages and fetchAllPages alike.               *)
THEOREM WalkedHolds == Spec => []Walked
<1>1. Walked /\ [Next]_vars => Walked'
  <2> SUFFICES ASSUME Walked, [Next]_vars PROVE Walked'
    OBVIOUS
  <2>1. CASE UNCHANGED vars
    <3>1. (Outside /\ Collecting /\ Whole /\ ShortIsSaid /\ Prefix)'
      BY <2>1, WalkFrame DEF vars, kind
    <3> QED BY <2>1, <3>1 DEF vars, server, kind, Walked, Types, TypeOK
  <2>2. CASE ServerChanges \/ ServerWrites \/ WriteCompletes
    BY <2>2, ServerSteps
  <2>3. ASSUME NEW h \in {"eager", "stream", "all"}, NEW t \in BOOLEAN, Start(h, t) PROVE Walked'
    BY <2>3, StartSteps
  <2>4. CASE Proceed
    BY <2>4, FirstAnswersSteps, BeginSteps, RequestSteps, CollectSteps, CollectWaveSteps,
       FinishSteps, PageFailsSteps, PageAnswersSteps DEF Proceed
  <2> QED BY <2>1, <2>2, <2>3, <2>4 DEF Next
<1> QED BY <1>1, InitWalked, PTL DEF Spec

(* The variables have their types; in particular the items on the server  *)
(* stay distinct, and no page above the limit is requested.               *)
THEOREM TypeCorrect == Spec => []TypeOK
<1>1. Walked => TypeOK
  BY DEF Walked, Types
<1> QED BY <1>1, WalkedHolds, PTL

(* A walk resolves with a warning exactly if a page was empty or above    *)
(* the page limit (fetchAllPages and fetchRemainingPages).                *)
THEOREM ShortIsAlwaysSaid == Spec => []ShortIsSaid
<1>1. Walked => ShortIsSaid
  BY DEF Walked
<1> QED BY <1>1, WalkedHolds, PTL

(* A walk rejected for an empty page hands out the pages before it,       *)
(* although the pages of its wave arrived in any order.                   *)
THEOREM PartialIsAlwaysPrefix == Spec => []PartialIsPrefix
<1>1. Walked => PartialIsPrefix
  BY PagesAre DEF Walked, Prefix, PartialIsPrefix
<1> QED BY <1>1, WalkedHolds, PTL

-----------------------------------------------------------------------------

(* A walk counts the writes completed when it began (began); those        *)
(* applied when page 1 was answered (seen) are no fewer. The entry is     *)
(* made from seen only if began is still the count.                       *)
FollowsWrites ==
  /\ pc # "new" => began <= written.done
  /\ pc \in {"answered", "walk"} => began <= seen
  /\ EntryFollowsWrites

(* Every step keeps it; only Resolve makes an entry.                      *)
LEMMA FollowsWritesSteps ==
  ASSUME Types, FollowsWrites, [Next]_vars
  PROVE  FollowsWrites'
<1>1. /\ began \in Nat /\ seen \in Nat /\ written.done \in Nat /\ written.applied \in Nat
      /\ written.done <= written.applied
  BY Constants DEF Types, TypeOK
<1>2. CASE UNCHANGED vars
  BY <1>2 DEF FollowsWrites, EntryFollowsWrites, vars, server, kind
<1>3. CASE ServerChanges \/ ServerWrites \/ WriteCompletes
  <2>1. written'.done \in Nat /\ written.done <= written'.done
    BY <1>3, WriteMoves, Constants
  <2>2. UNCHANGED Walk
    BY <1>3 DEF ServerChanges, ServerWrites, WriteCompletes
  <2>3. entry' = None \/ (entry' = entry /\ written'.done = written.done)
    BY <1>3, <1>1 DEF ServerChanges, ServerWrites, WriteCompletes, Types, TypeOK
  <2> QED BY <1>1, <2>1, <2>2, <2>3 DEF FollowsWrites, EntryFollowsWrites, Walk, kind
<1>4. ASSUME NEW h \in {"eager", "stream", "all"}, NEW t \in BOOLEAN, Start(h, t)
      PROVE  FollowsWrites'
  BY <1>1, <1>4 DEF Start, server, FollowsWrites, EntryFollowsWrites
<1>5. CASE FirstAnswers
  BY <1>1, <1>5 DEF FirstAnswers, kind, FollowsWrites, EntryFollowsWrites
<1>6. ASSUME pc = "walk", NEW short, Resolve(short), UNCHANGED <<written, began, seen>>
      PROVE  FollowsWrites'
  <2>1. entry' = entry \/ (entry' = [items |-> result, writes |-> seen] /\ written.done = began)
    BY <1>6 DEF Resolve
  <2>2. entry' = entry \/ entry'.writes >= written'.done
    BY <1>1, <1>6, <2>1 DEF FollowsWrites
  <2> QED BY <1>6, <2>2 DEF Resolve, FollowsWrites, EntryFollowsWrites
<1>7. CASE Collect
  <2>1. pc = "walk" /\ UNCHANGED <<written, began, seen>>
    BY <1>7 DEF Collect, AllIn, Types, TypeOK, kind
  <2>2. CASE UNCHANGED <<pc, entry>> \/ Reject("empty-page")
    BY <2>1, <2>2 DEF FollowsWrites, EntryFollowsWrites, Reject
  <2> QED BY <1>6, <1>7, <2>1, <2>2 DEF Collect
<1>8. CASE Finish
  BY <1>6, <1>8 DEF Finish, AllPages, kind
<1>9. CASE Begin \/ Request \/ CollectWave \/ PageFails \/ \E p \in Page : PageAnswers(p)
  <2>1. UNCHANGED <<written, entry, began, seen>>
    BY <1>9 DEF Begin, Request, CollectWave, PageFails, PageAnswers, Reject, server, kind
  <2>2. pc # "new" /\ (pc' \in {"answered", "walk"} => pc \in {"answered", "walk"})
    BY <1>9 DEF Begin, Request, CollectWave, PageFails, PageAnswers, Reject, AllIn, Types, TypeOK
  <2> QED BY <2>1, <2>2 DEF FollowsWrites, EntryFollowsWrites
<1> QED BY <1>2, <1>3, <1>4, <1>5, <1>7, <1>8, <1>9 DEF Next, Proceed

(* What the eager walk caches contains every write of this client that    *)
(* has completed, however long its pages took.                            *)
THEOREM EntryAlwaysFollowsWrites == Spec => []EntryFollowsWrites
<1>1. Init => FollowsWrites
  BY DEF Init, FollowsWrites, EntryFollowsWrites
<1>2. Walked /\ FollowsWrites /\ [Next]_vars => FollowsWrites'
  BY FollowsWritesSteps DEF Walked
<1>3. FollowsWrites => EntryFollowsWrites
  BY DEF FollowsWrites
<1> QED BY <1>1, <1>2, <1>3, WalkedHolds, PTL DEF Spec

-----------------------------------------------------------------------------

(* Page 1 is in, and the walk has not failed.                             *)
FirstIn == pc \in {"answered", "walk", "resolved"}
CountOf(s) == IF s = <<>> THEN 1 ELSE (Len(s) + PageSize - 1) \div PageSize
Still == ~grown /\ Len(items) = Len(before)

(* As long as the collection did not change since page 1, every answer    *)
(* is a page of the collection of then; the page count is always that of  *)
(* then. Without an addition, equal length means no change.               *)
Sound ==
  FirstIn =>
    /\ total = CountOf(before)
    /\ ~grown => Len(items) <= Len(before)
    /\ Still => /\ items = before
                /\ got[1] = PageIn(before, 1)
                /\ \A q \in Page : q > 1 /\ got[q] # None => got[q] = PageIn(before, q)

LEMMA SoundSteps ==
  ASSUME Walked, Sound, [Next]_vars
  PROVE  Sound'
<1>1. Types /\ Len(items) \in Nat /\ Len(before) \in Nat /\ items \in Seq(Item)
  BY LenProperties DEF Walked, Types, TypeOK, Items
<1>2. ASSUME UNCHANGED <<items, before, grown, total, got>>, FirstIn' => FirstIn PROVE Sound'
  BY <1>2 DEF Sound, Still
<1>3. CASE UNCHANGED vars
  BY <1>2, <1>3 DEF vars, server, kind, FirstIn
<1>4. CASE ServerChanges \/ ServerWrites
  <2>1. UNCHANGED <<pc, before, total, got>> /\ Change
    BY <1>4 DEF ServerChanges, ServerWrites, Walk, kind
  <2>2. grown' = TRUE \/ (grown' = grown /\ Len(items') = Len(items) - 1)
    BY <1>1, <2>1, ChangeMoves DEF Shrinks
  <2> QED BY <1>1, <2>1, <2>2 DEF Sound, Still, FirstIn
<1>5. CASE WriteCompletes
  BY <1>2, <1>5 DEF WriteCompletes, Walk, kind, FirstIn
<1>6. ASSUME NEW h \in {"eager", "stream", "all"}, NEW t \in BOOLEAN, Start(h, t)
      PROVE  Sound'
  BY <1>6 DEF Start, Sound, FirstIn
<1>7. CASE FirstAnswers
  <2>1. before' = items /\ items' = items /\ total' = CountOf(items)
    BY <1>7 DEF FirstAnswers, XPages, CountOf
  <2>2. got' = [got EXCEPT ![1] = PageIn(items, 1)] /\ next = 2
    BY <1>7 DEF FirstAnswers, PageOf, PageIn, Walked, Outside
  <2>3. got'[1] = PageIn(items, 1) /\ \A q \in Page : q > 1 => got'[q] = got[q]
    BY <1>1, <2>2, Constants DEF Page, Types, TypeOK
  <2>4. \A q \in Page : q > 1 => got'[q] = None
    BY <2>2, <2>3, Constants DEF Page, Walked, Outside
  <2> QED BY <1>1, <2>1, <2>3, <2>4 DEF Sound, Still
<1>8. ASSUME NEW p \in Page, PageAnswers(p) PROVE Sound'
  <2>1. /\ pc = "walk" /\ got' = [got EXCEPT ![p] = PageIn(items, p)]
        /\ UNCHANGED <<pc, items, before, grown, total>>
    BY <1>1, <1>8 DEF PageAnswers, PageOf, PageIn, server, kind, Types, TypeOK
  <2>2. PICK a \in 2 .. next : Collected(a)
    BY <2>1 DEF Walked, Collecting
  <2>3. p # 1
    BY <1>1, <1>8, <2>2, Typed DEF PageAnswers, Collected
  <2>4. got'[1] = got[1] /\ got'[p] = PageIn(items, p) /\ \A q \in Page : q # p => got'[q] = got[q]
    BY <1>1, <2>1, <2>3, Constants DEF Types, TypeOK, Page
  <2> QED BY <2>1, <2>4 DEF Sound, Still, FirstIn
<1>9. CASE PageFails
  BY <1>9 DEF PageFails, Sound, FirstIn
<1>10. CASE Begin \/ Request \/ Collect \/ CollectWave \/ Finish
  <2>1. UNCHANGED <<items, before, grown, total, got>>
    BY <1>10 DEF Begin, Request, Collect, CollectWave, Finish, server, kind
  <2>2. FirstIn
    BY <1>1, <1>10 DEF Begin, Request, Collect, CollectWave, Finish, AllIn, AllPages, FirstIn, Types, TypeOK
  <2> QED BY <1>2, <2>1, <2>2
<1> QED BY <1>3, <1>4, <1>5, <1>6, <1>7, <1>8, <1>9, <1>10 DEF Next, Proceed

LEMMA CountHolds ==
  ASSUME NEW S, NEW s \in Seq(S)
  PROVE  CountOf(s) \in Nat \ {0} /\ Len(s) \in Nat /\ Len(s) <= CountOf(s) * PageSize
<1>1. CASE s = <<>>
  BY <1>1, Constants DEF CountOf
<1>2. CASE s # <<>>
  <2>1. Len(s) \in Nat \ {0}
    BY <1>2
  <2>2. CountOf(s) = (Len(s) + PageSize - 1) \div PageSize
    BY <1>2 DEF CountOf
  <2>3. PICK L \in Nat \ {0}, P \in Nat \ {0} : L = Len(s) /\ P = PageSize
    BY <2>1, Constants
  <2>4. CountOf(s) = (L + P - 1) \div P
    BY <2>2, <2>3
  <2>5. CountOf(s) \in 1 .. L /\ L <= CountOf(s) * P
    BY <2>4, PageCount
  <2> QED BY <2>3, <2>5
<1> QED BY <1>1, <1>2

LEMMA SoundHolds == Spec => []Sound
<1>1. Init => Sound
  BY DEF Init, Sound, FirstIn
<1>2. Walked /\ Sound /\ [Next]_vars => Sound'
  BY SoundSteps
<1> QED BY <1>1, <1>2, WalkedHolds, PTL DEF Spec

(* A collection that does not change during the walk is collected whole   *)
(* and in order, in whatever order its pages arrive.                      *)
THEOREM UnchangedIsAlwaysWhole == Spec => []UnchangedIsWhole
<1>1. Walked /\ Sound => UnchangedIsWhole
  <2> SUFFICES ASSUME Walked, Sound, pc = "resolved", ~warned, ~grown, Len(items) = Len(before)
               PROVE  result = before
    BY DEF UnchangedIsWhole
  <2>1. before \in Seq(Item)
    BY DEF Walked, Types, TypeOK, Items
  <2>2. /\ total \in Nat \ {0} /\ total <= MaxPages /\ result = PagesOf(got, 1, total)
        /\ \A q \in 2 .. total : got[q] # None
    BY Typed DEF Walked, Whole
  <2>3. /\ total = CountOf(before) /\ got[1] = PageIn(before, 1)
        /\ \A q \in Page : q > 1 /\ got[q] # None => got[q] = PageIn(before, q)
    BY DEF Sound, FirstIn, Still
  <2>4. \A q \in 1 .. total : got[q] = PageIn(before, q)
    <3>1. \A q \in 1 .. total : q = 1 \/ (q \in 2 .. total /\ q \in Page /\ q > 1)
      BY <2>2, Constants DEF Page
    <3> QED BY <2>2, <2>3, <3>1
  <2>5. result = SubSeq(before, 1, Least(total * PageSize, Len(before)))
    BY <2>1, <2>2, <2>4, PagesOfWhole
  <2>6. PICK m \in Nat, L \in Nat : m = total * PageSize /\ L = Len(before) /\ L <= m
    BY <2>1, <2>2, <2>3, CountHolds, Constants
  <2>7. Least(m, L) = L
    BY <2>6, LeastIs
  <2>8. SubSeq(before, 1, L) = before
    BY <2>1, <2>6, SubSeqFull
  <2> QED BY <2>5, <2>6, <2>7, <2>8
<1> QED BY <1>1, WalkedHolds, SoundHolds, PTL

-----------------------------------------------------------------------------

(* The last page that is in, for a walk page by page.                     *)
Through == IF reading = {} \/ got[next - 1] # None THEN next - 1 ELSE next - 2
(* The items that are collected, or in and about to be.                   *)
Covered ==
  ToSet(result) \cup (IF pc = "answered" THEN ToSet(got[1]) ELSE {})
    \cup (IF reading # {} /\ got[next - 1] # None THEN ToSet(got[next - 1]) ELSE {})
(* The items that lie among the first pages now, and are not covered: a   *)
(* removal has moved them up past the walk.                               *)
Lost == {items[j] : j \in {k \in 1 .. Len(items) : k <= Through * PageSize}} \ Covered

Counted == FirstIn /\ how # "all" /\ ~grown /\ (pc = "resolved" => ~warned)

(* One removal moves one item over a page's border, so that no more       *)
(* items are lost than were removed; and a last page that is not empty    *)
(* leaves room for fewer removals than a page holds.                      *)
LossIsSmall ==
  Counted =>
    /\ Cardinality(Lost) <= Len(before) - Len(items)
    /\ Through = total /\ (total = 1 \/ got[total] # <<>>) => Cardinality(Lost) < PageSize

LEMMA LostIsFinite ==
  ASSUME Types
  PROVE  IsFiniteSet(Lost) /\ Cardinality(Lost) \in Nat
<1>1. \A j \in 1 .. Len(items) : items[j] \in Item
  BY ElementOfSeq DEF Types, TypeOK, Items
<1>2. Lost \in SUBSET Item
  BY <1>1 DEF Lost
<1>3. IsFiniteSet(Item)
  BY FS_Interval, Constants DEF Item
<1> QED BY <1>2, <1>3, FS_Subset, FS_CardinalityType

LEMMA LostSubset ==
  ASSUME Types, Lost' \subseteq Lost
  PROVE  Cardinality(Lost') <= Cardinality(Lost)
BY LostIsFinite, FS_Subset

LEMMA LossFrame ==
  ASSUME Types, LossIsSmall, UNCHANGED <<items, before, grown, how, total, got>>,
         Counted' => Counted /\ Through' = Through /\ Covered \subseteq Covered'
  PROVE  LossIsSmall'
<1> SUFFICES ASSUME Counted' PROVE
      /\ Cardinality(Lost') <= Len(before') - Len(items')
      /\ Through' = total' /\ (total' = 1 \/ got'[total'] # <<>>) => Cardinality(Lost') < PageSize
  BY DEF LossIsSmall
<1>1. Lost' \subseteq Lost
  BY DEF Lost
<1>2. Cardinality(Lost') <= Cardinality(Lost) /\ Cardinality(Lost) \in Nat
  BY <1>1, LostSubset, LostIsFinite
<1>3. Cardinality(Lost') \in Nat
  BY <1>1, LostIsFinite, FS_Subset, FS_CardinalityType
<1>4. Len(items) \in Nat /\ Len(before) \in Nat
  BY LenProperties DEF Types, TypeOK, Items
<1> QED BY <1>2, <1>3, <1>4, Constants DEF LossIsSmall

LEMMA ToSetConcat ==
  ASSUME NEW S, NEW x \in Seq(S), NEW y \in Seq(S)
  PROVE  ToSet(x) \cup ToSet(y) \subseteq ToSet(x \o y)
<1>1. /\ x \o y \in Seq(S) /\ Len(x \o y) = Len(x) + Len(y) /\ Len(x) \in Nat /\ Len(y) \in Nat
      /\ \A i \in 1 .. Len(x) + Len(y) : (x \o y)[i] = IF i <= Len(x) THEN x[i] ELSE y[i - Len(x)]
  BY ConcatProperties, LenProperties
<1>2. DOMAIN x = 1 .. Len(x) /\ DOMAIN y = 1 .. Len(y) /\ DOMAIN (x \o y) = 1 .. Len(x) + Len(y)
  BY <1>1, LenProperties
<1>3. ASSUME NEW i \in 1 .. Len(x) PROVE x[i] \in ToSet(x \o y)
  <2>1. i \in DOMAIN (x \o y) /\ (x \o y)[i] = x[i]
    BY <1>1, <1>2
  <2> QED BY <2>1 DEF ToSet
<1>4. ASSUME NEW i \in 1 .. Len(y) PROVE y[i] \in ToSet(x \o y)
  <2>1. Len(x) + i \in DOMAIN (x \o y) /\ ~(Len(x) + i <= Len(x)) /\ (Len(x) + i) - Len(x) = i
    BY <1>1, <1>2
  <2>2. (x \o y)[Len(x) + i] = y[(Len(x) + i) - Len(x)]
    BY <1>1, <1>2, <2>1
  <2> QED BY <2>1, <2>2 DEF ToSet
<1> QED BY <1>2, <1>3, <1>4 DEF ToSet

LEMMA ThroughIs ==
  ASSUME Types
  PROVE  Through \in Nat /\ Through * PageSize \in Nat
<1>1. next - 1 \in Nat /\ next - 2 \in Nat
  BY Typed
<1>2. Through \in Nat
  BY <1>1 DEF Through
<1>3. PageSize \in Nat
  BY Constants
<1> QED BY <1>2, <1>3

(* A removal loses at most one item.                                      *)
LEMMA LossOnChange ==
  ASSUME Walked, Sound, LossIsSmall, ServerChanges \/ ServerWrites
  PROVE  LossIsSmall'
<1> SUFFICES ASSUME Counted' PROVE
      /\ Cardinality(Lost') <= Len(before') - Len(items')
      /\ Through' = total' /\ (total' = 1 \/ got'[total'] # <<>>) => Cardinality(Lost') < PageSize
  BY DEF LossIsSmall
<1>1. Types /\ Change /\ UNCHANGED <<pc, how, before, total, next, got, reading, result, warned>>
  BY DEF Walked, ServerChanges, ServerWrites, Walk, kind
<1>2. /\ items \in Seq(Item) /\ Len(items) \in Nat /\ Len(before) \in Nat /\ before \in Seq(Item)
  BY <1>1, LenProperties DEF Types, TypeOK, Items
<1>3. grown' = grown /\ Shrinks
  BY <1>1, ChangeMoves DEF Counted
<1>4. Counted
  BY <1>1, <1>3 DEF Counted, FirstIn
<1>5. Through' = Through /\ Covered' = Covered
  BY <1>1 DEF Through, Covered
<1>6. PICK M \in Nat : M = Through * PageSize
  BY <1>1, ThroughIs
<1>7. PICK i \in 1 .. Len(items) : \A j \in 1 .. Len(items) - 1 :
        items'[j] = IF j < i THEN items[j] ELSE items[j + 1]
  BY <1>3 DEF Shrinks
<1>8. Len(items') = Len(items) - 1
  BY <1>3 DEF Shrinks
<1>9. ASSUME NEW x \in Lost' PROVE x \in Lost \/ (M < Len(items) /\ x = items[M + 1])
  <2>1. PICK j \in 1 .. Len(items) - 1 : j <= M /\ x = items'[j] /\ x \notin Covered
    BY <1>5, <1>6, <1>8, <1>9 DEF Lost
  <2>2. PICK k \in 1 .. Len(items) : (k = j \/ k = j + 1) /\ x = items[k]
    BY <1>2, <1>7, <2>1
  <2>3. CASE k <= M
    BY <1>6, <2>1, <2>2, <2>3 DEF Lost
  <2>4. CASE k > M
    BY <1>2, <2>1, <2>2, <2>4
  <2> QED BY <2>3, <2>4, <2>2, <1>2
<1>10. IsFiniteSet(Lost) /\ Cardinality(Lost) \in Nat
  BY <1>1, LostIsFinite
<1>11. Cardinality(Lost') \in Nat /\ Cardinality(Lost') <= Cardinality(Lost) + 1
  <2> DEFINE Wide == Lost \cup {items[M + 1]}
  <2>1. IsFiniteSet(Wide) /\ Cardinality(Wide) \in Nat /\ Cardinality(Wide) <= Cardinality(Lost) + 1
    <3>1. IsFiniteSet(Wide) /\ Cardinality(Wide) = IF items[M + 1] \in Lost THEN Cardinality(Lost)
                                                   ELSE Cardinality(Lost) + 1
      BY <1>10, FS_AddElement
    <3> HIDE DEF Wide
    <3> QED BY <1>10, <3>1
  <2>2. Lost' \in SUBSET Wide
    BY <1>9
  <2> HIDE DEF Wide
  <2>3. IsFiniteSet(Lost') /\ Cardinality(Lost') <= Cardinality(Wide)
    BY <2>1, <2>2, FS_Subset
  <2>4. Cardinality(Lost') \in Nat
    BY <2>3, FS_CardinalityType
  <2> QED BY <1>10, <2>1, <2>3, <2>4
<1>12. Cardinality(Lost) <= Len(before) - Len(items)
  BY <1>4 DEF LossIsSmall
<1>13. Cardinality(Lost') <= Len(before') - Len(items')
  BY <1>1, <1>2, <1>8, <1>10, <1>11, <1>12
<1>14. ASSUME Through' = total', total' = 1 \/ got'[total'] # <<>> PROVE Cardinality(Lost') < PageSize
  <2>1. Cardinality(Lost) < PageSize
    BY <1>1, <1>4, <1>5, <1>14 DEF LossIsSmall
  <2>2. total = CountOf(before) /\ Len(items) <= Len(before)
    BY <1>4 DEF Sound, Counted
  <2>3. Len(before) <= total * PageSize
    BY <1>2, <2>2, CountHolds
  <2>4. Len(items) <= M
    BY <1>1, <1>2, <1>5, <1>6, <1>14, <2>2, <2>3
  <2>5. Lost' \subseteq Lost
    BY <1>2, <1>9, <2>4
  <2> QED BY <1>1, <1>10, <1>11, <2>1, <2>5, LostSubset, Constants
<1> QED BY <1>13, <1>14

(* Nothing is lost on page 1.                                             *)
LEMMA LossOnFirst ==
  ASSUME Walked, FirstAnswers
  PROVE  LossIsSmall'
<1>1. /\ Types /\ next = 2 /\ reading = {} /\ pc' = "answered" /\ before' = items
      /\ got' = [got EXCEPT ![1] = PageIn(items, 1)]
      /\ UNCHANGED <<items, next, reading>>
  BY DEF FirstAnswers, PageOf, PageIn, Walked, Outside, Types, TypeOK
<1>2. items \in Seq(Item) /\ Len(items) \in Nat
  BY <1>1, LenProperties DEF Types, TypeOK, Items
<1>3. got'[1] = PageIn(items, 1)
  BY <1>1, Constants DEF Page, Types, TypeOK
<1>4. Through' = 1 /\ 1 * PageSize = PageSize /\ (1 - 1) * PageSize = 0
  BY <1>1, Constants DEF Through
<1>5. \A j \in 1 .. Len(items) : j <= PageSize => items[j] \in ToSet(PageIn(items, 1))
  BY <1>2, <1>4, PageInType, 1 \in Nat \ {0}
<1>6. ToSet(PageIn(items, 1)) \subseteq Covered'
  BY <1>1, <1>3 DEF Covered
<1>7. Lost' = {}
  BY <1>1, <1>4, <1>5, <1>6 DEF Lost
<1>8. Cardinality(Lost') = 0
  BY <1>7, FS_EmptySet
<1>9. Len(before') - Len(items') = 0
  BY <1>1, <1>2
<1> QED BY <1>8, <1>9, Constants DEF LossIsSmall

(* A page covers what lies on it when it is answered.                     *)
LEMMA LossOnPage ==
  ASSUME Walked, Sound, LossIsSmall, NEW p \in Page, PageAnswers(p)
  PROVE  LossIsSmall'
<1> SUFFICES ASSUME Counted' PROVE
      /\ Cardinality(Lost') <= Len(before') - Len(items')
      /\ Through' = total' /\ (total' = 1 \/ got'[total'] # <<>>) => Cardinality(Lost') < PageSize
  BY DEF LossIsSmall
<1>1. /\ Types /\ p \in reading /\ got[p] = None /\ got' = [got EXCEPT ![p] = PageIn(items, p)]
      /\ UNCHANGED <<pc, how, items, before, grown, total, next, reading, result, warned>>
  BY DEF Walked, PageAnswers, PageOf, PageIn, server, kind
<1>2. pc = "walk" /\ got \in [Page -> Items \cup {None}]
  BY <1>1 DEF Types, TypeOK
<1>3. Counted /\ how # "all" /\ ~grown
  BY <1>1 DEF Counted, FirstIn
<1>4. PICK a \in 2 .. next : Collected(a)
  BY <1>2 DEF Walked, Collecting
<1>5. p \in Nat \ {0} /\ p >= 2 /\ p = next - 1 /\ next - 2 = p - 1 /\ p - 1 \in Nat
  BY <1>1, <1>3, <1>4, Typed DEF Collected
<1>6. got'[p] = PageIn(items, p)
  BY <1>1, <1>2
<1>7. /\ items \in Seq(Item) /\ Len(items) \in Nat /\ Len(before) \in Nat /\ before \in Seq(Item)
  BY <1>1, LenProperties DEF Types, TypeOK, Items
<1>8. Through = p - 1 /\ Covered = ToSet(result)
  BY <1>1, <1>2, <1>5 DEF Through, Covered
<1>9. PICK M \in Nat, N \in Nat : M = (p - 1) * PageSize /\ N = p * PageSize /\ N = M + PageSize
  <2>1. PICK k \in Nat : k = p - 1 /\ p = k + 1
    BY <1>5
  <2>2. k * PageSize \in Nat /\ (k + 1) * PageSize = k * PageSize + PageSize
    BY Constants
  <2>3. k * PageSize + PageSize \in Nat
    BY <2>2, Constants
  <2> QED BY <2>1, <2>2, <2>3
<1>10. CASE got'[p] = None
  <2>1. Through' = p - 1
    BY <1>1, <1>5, <1>10 DEF Through
  <2>2. Covered' = Covered
    BY <1>1, <1>2, <1>5, <1>8, <1>10 DEF Covered
  <2>3. got' = got
    BY <1>1, <1>2, <1>6, <1>10
  <2> QED BY <1>1, <1>3, <1>8, <2>1, <2>2, <2>3, LossFrame DEF LossIsSmall
<1>11. CASE got'[p] # None
  <2>1. Through' = p /\ Covered' = ToSet(result) \cup ToSet(PageIn(items, p))
    BY <1>1, <1>2, <1>5, <1>6, <1>11 DEF Through, Covered
  <2>2. ASSUME NEW x \in Lost' PROVE x \in Lost
    <3>1. PICK j \in 1 .. Len(items) : j <= N /\ x = items[j] /\ x \notin Covered'
      BY <1>1, <1>9, <2>1, <2>2 DEF Lost
    <3>2. CASE j <= M
      BY <1>8, <1>9, <2>1, <3>1, <3>2 DEF Lost
    <3>3. CASE j > M
      BY <1>5, <1>7, <1>9, <2>1, <3>1, <3>3, PageInType
    <3> QED BY <1>7, <3>1, <3>2, <3>3
  <2>3. Cardinality(Lost') <= Cardinality(Lost) /\ Cardinality(Lost) \in Nat /\ Cardinality(Lost') \in Nat
    <3>1. Lost' \in SUBSET Lost
      BY <2>2
    <3>2. IsFiniteSet(Lost')
      BY <1>1, <3>1, LostIsFinite, FS_Subset
    <3> QED BY <1>1, <3>1, <3>2, LostIsFinite, LostSubset, FS_CardinalityType
  <2>4. Cardinality(Lost) <= Len(before) - Len(items)
    BY <1>3 DEF LossIsSmall
  <2>5. Cardinality(Lost') <= Len(before') - Len(items')
    BY <1>1, <1>7, <2>3, <2>4
  <2>6. ASSUME Through' = total', total' = 1 \/ got'[total'] # <<>> PROVE Cardinality(Lost') < PageSize
    <3>1. total = p /\ PageIn(items, p) # <<>>
      BY <1>1, <1>5, <1>6, <2>1, <2>6
    <3>2. Len(before) <= N
      BY <1>3, <1>7, <1>9, <3>1, CountHolds DEF Sound, Counted
    <3>3. M < Len(items)
      <4> SUFFICES ASSUME Len(items) <= M PROVE FALSE
        BY <1>7
      <4>1. PICK e \in Nat : e = Least(N, Len(items)) /\ e <= M
        <5>1. PICK L \in Nat : L = Len(items) /\ L <= M
          BY <1>7
        <5>2. Least(N, L) \in Nat /\ Least(N, L) <= L
          BY LeastIs
        <5>3. Least(N, L) <= M
          BY <5>1, <5>2
        <5> QED BY <5>1, <5>2, <5>3
      <4>2. SubSeq(items, M + 1, e) = <<>>
        BY <4>1, SubSeqEmpty
      <4> QED BY <1>9, <3>1, <4>1, <4>2 DEF PageIn
    <3> QED BY <1>1, <1>7, <1>9, <2>3, <2>4, <3>2, <3>3, Constants
  <2> QED BY <2>5, <2>6
<1> QED BY <1>10, <1>11

LEMMA LossSteps ==
  ASSUME Walked, Sound, LossIsSmall, [Next]_vars
  PROVE  LossIsSmall'
<1>0. Types
  BY DEF Walked
<1>1. CASE UNCHANGED vars \/ WriteCompletes
  <2>1. UNCHANGED <<Walk, items, grown>>
    BY <1>1 DEF WriteCompletes, vars, server, Walk
  <2>2. (Counted' => Counted) /\ Through' = Through /\ Covered \subseteq Covered'
    BY <2>1 DEF Walk, kind, Counted, FirstIn, Through, Covered
  <2> QED BY <1>0, <2>1, <2>2, LossFrame DEF Walk, kind
<1>2. CASE ServerChanges \/ ServerWrites
  BY <1>2, LossOnChange
<1>3. ASSUME NEW h \in {"eager", "stream", "all"}, NEW t \in BOOLEAN, Start(h, t)
      PROVE  LossIsSmall'
  BY <1>3 DEF Start, LossIsSmall, Counted, FirstIn
<1>4. CASE FirstAnswers
  BY <1>4, LossOnFirst
<1>5. ASSUME NEW p \in Page, PageAnswers(p) PROVE LossIsSmall'
  BY <1>5, LossOnPage
<1>6. CASE PageFails
  BY <1>6 DEF PageFails, LossIsSmall, Counted, FirstIn
<1>7. CASE CollectWave
  BY <1>7 DEF CollectWave, kind, LossIsSmall, Counted
<1>8. CASE Begin
  <2>1. reading = {} /\ result = <<>>
    BY <1>8 DEF Begin, Walked, Outside, Types, TypeOK
  <2>2. /\ UNCHANGED <<items, before, grown, how, total, got, reading, next, warned>>
        /\ pc = "answered" /\ pc' # "answered" /\ pc' # "resolved" /\ result' = got[1]
    BY <1>8 DEF Begin, server, kind
  <2>3. ToSet(result) = {}
    BY <2>1 DEF ToSet
  <2>4. (Counted' => Counted) /\ Through' = Through /\ Covered \subseteq Covered'
    BY <2>1, <2>2, <2>3 DEF Counted, FirstIn, Through, Covered
  <2> QED BY <1>0, <2>2, <2>4, LossFrame
<1>9. CASE Request
  <2> SUFFICES ASSUME Counted' PROVE LossIsSmall'
    BY DEF LossIsSmall
  <2>1. /\ pc = "walk" /\ reading = {} /\ next <= LastPage /\ how # "all"
        /\ next' = next + 1 /\ reading' = next .. next' - 1
        /\ UNCHANGED <<items, before, grown, how, total, got, result, pc, warned>>
    BY <1>9 DEF Request, server, kind, Counted
  <2>2. next' - 1 = next /\ next' - 2 = next - 1 /\ next \in Page /\ reading' # {}
    BY <1>0, <2>1, Typed, Constants DEF Page
  <2>3. got[next] = None
    BY <1>0, <2>2, Typed DEF Walked, Outside
  <2>4. (Counted' => Counted) /\ Through' = Through /\ Covered \subseteq Covered'
    BY <2>1, <2>2, <2>3 DEF Counted, FirstIn, Through, Covered
  <2> QED BY <1>0, <2>1, <2>4, LossFrame
<1>10. CASE Collect
  <2> SUFFICES ASSUME Counted' PROVE LossIsSmall'
    BY DEF LossIsSmall
  <2>1. /\ how # "all" /\ reading # {} /\ (\A q \in reading : got[q] # None) /\ reading' = {}
        /\ UNCHANGED <<items, before, grown, how, total, got, next>>
    BY <1>10 DEF Collect, AllIn, kind
  <2>2. pc = "walk"
    BY <1>0, <2>1 DEF Types, TypeOK
  <2>3. PICK a \in 2 .. next : Collected(a)
    BY <2>2 DEF Walked, Collecting
  <2>4. a \in Nat /\ next - 1 = a /\ reading = a .. a
    BY <1>0, <2>1, <2>3, Typed DEF Collected
  <2>5. got[a] # None /\ got[a] \in Seq(Item)
    BY <1>0, <2>1, <2>4 DEF Types, TypeOK, Items
  <2>6. result' = result \o got[a] /\ pc' = "walk"
    <3>1. Min(reading) = a
      BY <2>4, EndsAre, a <= a
    <3>2. Empty = {} /\ result' = result \o got[Min(reading)] /\ UNCHANGED <<pc, warned, entry>>
      BY <1>10 DEF Collect, Reject, Resolve, Counted, FirstIn
    <3> QED BY <2>2, <3>1, <3>2
  <2>7. ToSet(result) \cup ToSet(got[a]) \subseteq ToSet(result')
    BY <1>0, <2>5, <2>6, ToSetConcat DEF Types, TypeOK
  <2>8. Counted /\ Through' = Through /\ Covered \subseteq Covered'
    BY <2>1, <2>2, <2>4, <2>5, <2>7 DEF Counted, FirstIn, Through, Covered
  <2> QED BY <1>0, <2>1, <2>8, LossFrame
<1>11. CASE Finish
  <2>1. /\ pc = "walk" /\ pc' = "resolved" /\ reading = {}
        /\ UNCHANGED <<items, before, grown, how, total, got, next, reading, result>>
    BY <1>11 DEF Finish, AllPages, Resolve, kind
  <2>2. (Counted' => Counted) /\ Through' = Through /\ Covered \subseteq Covered'
    BY <2>1 DEF Counted, FirstIn, Through, Covered
  <2> QED BY <1>0, <2>1, <2>2, LossFrame
<1> QED BY <1>1, <1>2, <1>3, <1>4, <1>5, <1>6, <1>7, <1>8, <1>9, <1>10, <1>11 DEF Next, Proceed

(* When nothing is added meanwhile, a walk page by page that resolves     *)
(* without a warning misses fewer items than a page holds, however many   *)
(* are removed.                                                           *)
THEOREM QuietLossIsAlwaysSmall == Spec => []QuietLossIsSmall
<1>1. Init => LossIsSmall
  BY DEF Init, LossIsSmall, Counted, FirstIn
<1>2. Walked /\ Sound /\ LossIsSmall /\ [Next]_vars => LossIsSmall'
  BY LossSteps
<1>3. Walked /\ Sound /\ LossIsSmall => QuietLossIsSmall
  <2> SUFFICES ASSUME Walked, Sound, LossIsSmall, pc = "resolved", how # "all", ~warned, ~grown
               PROVE  Cardinality(Missed) < PageSize
    BY DEF QuietLossIsSmall
  <2>1. /\ Types /\ reading = {} /\ items \in Seq(Item) /\ Len(items) \in Nat
        /\ before \in Seq(Item) /\ Len(before) \in Nat
    BY LenProperties DEF Walked, Types, TypeOK, Items
  <2>2. /\ total \in Nat \ {0} /\ next = total + 1
        /\ \A q \in 2 .. total : got[q] # <<>>
    BY <2>1, Typed DEF Walked, Whole
  <2>3. Through = total /\ Covered = ToSet(result)
    BY <2>1, <2>2 DEF Through, Covered
  <2>4. Cardinality(Lost) < PageSize
    <3>1. total = 1 \/ total \in 2 .. total
      BY <2>2
    <3> QED BY <2>2, <2>3, <3>1 DEF LossIsSmall, Counted, FirstIn
  <2>5. PICK N \in Nat : N = total * PageSize /\ Len(items) <= N
    BY <2>1, <2>2, CountHolds, Constants DEF Sound, FirstIn
  <2>6. DOMAIN items = 1 .. Len(items)
    BY <2>1, LenProperties
  <2>7. Missed \in SUBSET Lost
    BY <2>1, <2>3, <2>5, <2>6 DEF Missed, Lost, ToSet
  <2>8. IsFiniteSet(Missed) /\ Cardinality(Missed) <= Cardinality(Lost)
    BY <2>1, <2>7, LostIsFinite, FS_Subset
  <2> QED BY <2>1, <2>4, <2>8, LostIsFinite, FS_CardinalityType, Constants
<1> QED BY <1>1, <1>2, <1>3, WalkedHolds, SoundHolds, PTL DEF Spec
=============================================================================
