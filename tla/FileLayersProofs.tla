-------------------------- MODULE FileLayersProofs --------------------------
(***************************************************************************)
(* Whatever the sizes of the buffers and of the blobs, what is written     *)
(* through the layers of FileLayers is what is read through them.          *)
(*                                                                         *)
(* The proof follows the layers.  A file, of any kind, holds a sequence of *)
(* bytes (Holds): a pread gives a part of it that is not empty, and a      *)
(* pwrite changes it as it would change a plain file.  File_Buffer and     *)
(* filebuf are proved over any file that does.                             *)
(***************************************************************************)
EXTENDS FileLayers, TLAPS, WellFoundedInduction

-----------------------------------------------------------------------------
(***************************************************************************)
(* Induction.                                                              *)
(***************************************************************************)

(* A set of naturals that is not empty has a least element. *)
LEMMA LeastNat ==
  ASSUME NEW T \in SUBSET Nat, T # {}
  PROVE  \E x \in T : \A y \in T : x <= y
<1>1. PICK x \in T : \A y \in T : ~(<<y, x>> \in OpToRel(<, Nat))
  BY NatLessThanWellFounded, WFMin
<1>2. \A y \in T : ~(y < x)
  BY <1>1 DEF OpToRel
<1> QED
  BY <1>2

(* Induction from 0 to n *)
LEMMA InductionUpTo ==
  ASSUME NEW n \in Nat, NEW S, 0 \in S,
         \A i \in 0..(n - 1) : i \in S => i + 1 \in S
  PROVE  \A i \in 0..n : i \in S
<1> SUFFICES ASSUME ~\A i \in 0..n : i \in S
             PROVE  FALSE
  OBVIOUS
<1> DEFINE T == {i \in 0..n : i \notin S}
<1>1. T \in SUBSET Nat /\ T # {}
  OBVIOUS
<1>2. PICK x \in T : \A y \in T : x <= y
  BY <1>1, LeastNat
<1>3. x # 0 /\ x \in 0..n
  OBVIOUS
<1>4. x - 1 \in 0..(n - 1) /\ x - 1 \in S
  BY <1>2, <1>3
<1> QED
  BY <1>3, <1>4

(* n applications of a function, from a *)
HasIterates(n, A, a, step) ==
  \E g \in [0..n -> A] : g[0] = a /\ \A i \in 1..n : g[i] = step[g[i - 1]]

LEMMA Iterates ==
  ASSUME NEW n \in Nat, NEW A, NEW a \in A, NEW step \in [A -> A]
  PROVE  HasIterates(n, A, a, step)
<1> DEFINE Is(g, m) == /\ g \in [0..m -> A] /\ g[0] = a
                       /\ \A i \in 1..m : g[i] = step[g[i - 1]]
           S == {m \in 0..n : \E g : Is(g, m)}
<1>1. 0 \in S
  <2>1. Is([i \in 0..0 |-> a], 0)
    OBVIOUS
  <2>2. \E g : Is(g, 0)
    BY <2>1
  <2> HIDE DEF Is
  <2> QED
    BY <2>2
<1>2. ASSUME NEW m \in 0..(n - 1), m \in S
      PROVE  m + 1 \in S
  <2>1. PICK g : Is(g, m)
    BY <1>2
  <2> DEFINE h == [i \in 0..(m + 1) |-> IF i = m + 1 THEN step[g[m]] ELSE g[i]]
  <2>2. h \in [0..(m + 1) -> A]
    BY <2>1
  <2>3. ASSUME NEW i \in 1..(m + 1)
        PROVE  h[i] = step[h[i - 1]]
    <3>1. i - 1 \in 0..m /\ h[i - 1] = g[i - 1]
      OBVIOUS
    <3>2. CASE i = m + 1
      BY <3>1, <3>2
    <3>3. CASE i # m + 1
      <4>1. i \in 1..m /\ h[i] = g[i]
        BY <3>3
      <4> QED
        BY <2>1, <3>1, <4>1
    <3> QED
      BY <3>2, <3>3
  <2>4. h[0] = a
    BY <2>1
  <2>5. Is(h, m + 1)
    BY <2>2, <2>3, <2>4
  <2>6. m + 1 \in 0..n
    OBVIOUS
  <2> HIDE DEF h, Is
  <2> QED
    BY <2>5, <2>6
<1>3. n \in S
  <2> HIDE DEF S
  <2>1. \A m \in 0..n : m \in S
    BY <1>1, <1>2, InductionUpTo
  <2> QED
    BY <2>1
<1> QED
  BY <1>3 DEF HasIterates

-----------------------------------------------------------------------------
(***************************************************************************)
(* Bytes: parts of a sequence, and sequences that are written over others. *)
(***************************************************************************)
Bytes == Seq(Nat)

(* Two sequences of the same bytes *)
LEMMA SameBytes ==
  ASSUME NEW s \in Bytes, NEW t \in Bytes, Len(s) = Len(t),
         \A i \in 1..Len(s) : s[i] = t[i]
  PROVE  s = t
BY DEF Bytes

(* The length of a sequence of bytes *)
LEMMA LenIs == \A s \in Bytes : Len(s) \in Nat
BY DEF Bytes

(* t is the n bytes of s at o, or those that there are. *)
IsSlice(t, s, o, n) ==
  /\ t \in Bytes
  /\ Len(t) = IF o + n <= Len(s) THEN n ELSE IF o <= Len(s) THEN Len(s) - o ELSE 0
  /\ \A i \in 1..Len(t) : t[i] = s[o + i]

(* t is s after d was written at o. *)
IsPatched(t, s, d, o) ==
  /\ t \in Bytes
  /\ Len(t) = IF Len(s) < o + Len(d) THEN o + Len(d) ELSE Len(s)
  /\ \A i \in 1..Len(t) : t[i] = IF o < i /\ i <= o + Len(d) THEN d[i - o]
                                 ELSE IF i <= Len(s) THEN s[i] ELSE 0

(* t is d followed by e. *)
IsCat(t, d, e) ==
  /\ t \in Bytes
  /\ Len(t) = Len(d) + Len(e)
  /\ \A i \in 1..Len(t) : t[i] = IF i <= Len(d) THEN d[i] ELSE e[i - Len(d)]

(* c is a, then b. *)
Joined(a, b, c) == a \o b = c

(* What Slice returns *)
LEMMA SliceIs ==
  ASSUME NEW s \in Bytes, NEW o \in Nat, NEW n \in Nat
  PROVE  IsSlice(Slice(s, o, n), s, o, n)
<1> DEFINE m == IF o + n < Len(s) THEN o + n ELSE Len(s)
<1>1. Slice(s, o, n) = SubSeq(s, o + 1, m)
  BY DEF Slice, Smaller
<1>2. m \in Nat /\ m <= Len(s) /\ Len(s) \in Nat
  BY DEF Bytes
<1>3. \A i \in (o + 1)..m : s[i] \in Nat
  BY <1>2 DEF Bytes
<1>4. /\ SubSeq(s, o + 1, m) \in Bytes
      /\ Len(SubSeq(s, o + 1, m)) = IF o + 1 <= m THEN m - o ELSE 0
      /\ \A i \in 1..(m - o) : SubSeq(s, o + 1, m)[i] = s[o + i]
  BY <1>2, <1>3 DEF Bytes
<1>5. m - o = IF o + n <= Len(s) THEN n ELSE Len(s) - o
  BY <1>2
<1>6. o + 1 <= m <=> IF o + n <= Len(s) THEN n # 0 ELSE o < Len(s)
  BY <1>2
<1> DEFINE t == SubSeq(s, o + 1, m)
<1>7. Len(t) = IF o + n <= Len(s) THEN n ELSE IF o <= Len(s) THEN Len(s) - o ELSE 0
  BY <1>2, <1>4, <1>5, <1>6
<1>8. Len(t) = 0 \/ Len(t) = m - o
  BY <1>4
<1> HIDE DEF m
<1> QED
  BY <1>1, <1>2, <1>4, <1>7, <1>8 DEF IsSlice

(* What Patched returns *)
LEMMA PatchedIs ==
  ASSUME NEW s \in Bytes, NEW d \in Bytes, NEW o \in Nat
  PROVE  IsPatched(Patched(s, d, o), s, d, o)
<1> DEFINE m == IF Len(s) < o + Len(d) THEN o + Len(d) ELSE Len(s)
           v(i) == IF i - o \in 1..Len(d) THEN d[i - o] ELSE IF i <= Len(s) THEN s[i] ELSE 0
<1>1. m \in Nat /\ Len(s) \in Nat /\ Len(d) \in Nat
  BY DEF Bytes
<1>2. DOMAIN d = 1..Len(d)
  BY DEF Bytes
<1>3. Patched(s, d, o) = [i \in 1..m |-> v(i)]
  BY <1>2 DEF Patched, Larger
<1>4. \A i \in 1..m : v(i) \in Nat
  BY <1>1 DEF Bytes
<1>5. \A i \in 1..m : v(i) = IF o < i /\ i <= o + Len(d) THEN d[i - o]
                             ELSE IF i <= Len(s) THEN s[i] ELSE 0
  BY <1>1
<1> HIDE DEF m, v
<1>6. [i \in 1..m |-> v(i)] \in Bytes /\ Len([i \in 1..m |-> v(i)]) = m
  BY <1>1, <1>4 DEF Bytes
<1> QED
  BY <1>1, <1>3, <1>5, <1>6 DEF m, IsPatched

(* What concatenation returns *)
LEMMA CatIs ==
  ASSUME NEW d \in Bytes, NEW e \in Bytes
  PROVE  IsCat(d \o e, d, e)
BY DEF Bytes, IsCat

(* Writing nothing *)
LEMMA PatchedNothing ==
  ASSUME NEW s \in Bytes, NEW o \in 0..Len(s)
  PROVE  Patched(s, <<>>, o) = s
<1>1. <<>> \in Bytes /\ Len(<<>>) = 0 /\ Len(s) \in Nat /\ o \in Nat
  BY DEF Bytes
<1>2. IsPatched(Patched(s, <<>>, o), s, <<>>, o)
  BY <1>1, PatchedIs
<1> QED
  BY <1>1, <1>2, SameBytes DEF IsPatched

(* Two writes, one after the other *)
LEMMA PatchedTwice ==
  ASSUME NEW s \in Bytes, NEW o \in 0..Len(s), NEW d \in Bytes, NEW e \in Bytes
  PROVE  Patched(Patched(s, d, o), e, o + Len(d)) = Patched(s, d \o e, o)
<1> DEFINE p == Patched(s, d, o)
           q == Patched(p, e, o + Len(d))
           c == d \o e
           r == Patched(s, c, o)
<1>1. Len(s) \in Nat /\ Len(d) \in Nat /\ Len(e) \in Nat /\ o \in Nat
  BY LenIs
<1>2. IsCat(c, d, e)
  BY CatIs
<1>3. IsPatched(p, s, d, o)
  BY <1>1, PatchedIs
<1>4. IsPatched(q, p, e, o + Len(d))
  BY <1>1, <1>3, PatchedIs DEF IsPatched
<1>5. IsPatched(r, s, c, o)
  BY <1>1, <1>2, PatchedIs DEF IsCat
<1> HIDE DEF p, q, c, r
<1>6. Len(q) = Len(r)
  <2>1. /\ Len(p) = IF Len(s) < o + Len(d) THEN o + Len(d) ELSE Len(s)
        /\ Len(q) = IF Len(p) < o + Len(d) + Len(e) THEN o + Len(d) + Len(e) ELSE Len(p)
        /\ Len(r) = IF Len(s) < o + Len(c) THEN o + Len(c) ELSE Len(s)
        /\ Len(c) = Len(d) + Len(e)
    BY <1>2, <1>3, <1>4, <1>5 DEF IsPatched, IsCat
  <2> QED
    BY <1>1, <2>1
<1>7. ASSUME NEW i \in 1..Len(q)
      PROVE  q[i] = r[i]
  <2>0. i \in 1..Len(r) /\ Len(c) = Len(d) + Len(e) /\ i \in Nat /\ Len(p) \in Nat
    BY <1>2, <1>3, <1>6, LenIs DEF IsCat, IsPatched
  <2>1. r[i] = IF o < i /\ i <= o + Len(c) THEN c[i - o] ELSE IF i <= Len(s) THEN s[i] ELSE 0
    BY <1>5, <2>0 DEF IsPatched
  <2>2. q[i] = IF o + Len(d) < i /\ i <= o + Len(d) + Len(e) THEN e[i - (o + Len(d))]
               ELSE IF i <= Len(p) THEN p[i] ELSE 0
    BY <1>4 DEF IsPatched
  <2>3. CASE o + Len(d) < i /\ i <= o + Len(d) + Len(e)
    <3>1. i - o \in 1..Len(c) /\ ~(i - o <= Len(d)) /\ i - (o + Len(d)) = i - o - Len(d)
      BY <1>1, <2>0, <2>3
    <3>2. c[i - o] = e[i - o - Len(d)]
      BY <1>2, <3>1 DEF IsCat
    <3> QED
      BY <1>1, <2>0, <2>1, <2>2, <2>3, <3>1, <3>2
  <2>4. CASE ~(o + Len(d) < i /\ i <= o + Len(d) + Len(e))
    <3>1. CASE i <= Len(p)
      <4>1. p[i] = IF o < i /\ i <= o + Len(d) THEN d[i - o] ELSE IF i <= Len(s) THEN s[i] ELSE 0
        BY <1>3, <2>0, <3>1 DEF IsPatched
      <4>2. CASE o < i /\ i <= o + Len(d)
        <5>1. i - o \in 1..Len(c) /\ i - o <= Len(d)
          BY <1>1, <2>0, <4>2
        <5>2. c[i - o] = d[i - o]
          BY <1>2, <5>1 DEF IsCat
        <5> QED
          BY <1>1, <2>0, <2>1, <2>2, <2>4, <3>1, <4>1, <4>2, <5>2
      <4>3. CASE ~(o < i /\ i <= o + Len(d))
        BY <1>1, <2>0, <2>1, <2>2, <2>4, <3>1, <4>1, <4>3
      <4> QED
        BY <4>2, <4>3
    <3>2. CASE ~(i <= Len(p))
      <4>1. ~(i <= Len(s)) /\ ~(o < i /\ i <= o + Len(c))
        BY <1>1, <1>3, <2>0, <2>4, <3>2 DEF IsPatched
      <4> QED
        BY <2>1, <2>2, <2>4, <3>2, <4>1
    <3> QED
      BY <3>1, <3>2
  <2> QED
    BY <2>3, <2>4
<1>8. q = r
  BY <1>4, <1>5, <1>6, <1>7, SameBytes DEF IsPatched
<1> QED
  BY <1>8 DEF p, q, c, r

(* A write changes what it writes, and nothing else. *)
LEMMA SliceOfPatched ==
  ASSUME NEW s \in Bytes, NEW o \in 0..Len(s), NEW d \in Bytes
  PROVE  /\ Slice(Patched(s, d, o), o, Len(d)) = d
         /\ \A p, n \in Nat :
              p + n <= Len(s) /\ (p + n <= o \/ o + Len(d) <= p)
              => Slice(Patched(s, d, o), p, n) = Slice(s, p, n)
<1> DEFINE q == Patched(s, d, o)
<1>1. /\ o \in Nat /\ Len(s) \in Nat /\ Len(d) \in Nat
  BY LenIs
<1>2. IsPatched(q, s, d, o) /\ q \in Bytes /\ Len(q) \in Nat
  BY <1>1, PatchedIs, LenIs DEF IsPatched
<1> HIDE DEF q
<1>3. Slice(q, o, Len(d)) = d
  <2>1. IsSlice(Slice(q, o, Len(d)), q, o, Len(d))
    BY <1>1, <1>2, SliceIs
  <2>2. Len(Slice(q, o, Len(d))) = Len(d)
    BY <1>1, <1>2, <2>1 DEF IsSlice, IsPatched
  <2>3. ASSUME NEW i \in 1..Len(d)
        PROVE  q[o + i] = d[i]
    <3>1. o + i \in 1..Len(q) /\ o < o + i /\ o + i <= o + Len(d) /\ o + i - o = i
      BY <1>1, <1>2 DEF IsPatched
    <3> QED
      BY <1>2, <3>1 DEF IsPatched
  <2>4. \A i \in 1..Len(d) : Slice(q, o, Len(d))[i] = d[i]
    BY <2>1, <2>2, <2>3 DEF IsSlice
  <2> QED
    BY <2>1, <2>2, <2>4, SameBytes DEF IsSlice
<1>4. ASSUME NEW p \in Nat, NEW n \in Nat, p + n <= Len(s), p + n <= o \/ o + Len(d) <= p
      PROVE  Slice(q, p, n) = Slice(s, p, n)
  <2>1. IsSlice(Slice(q, p, n), q, p, n) /\ IsSlice(Slice(s, p, n), s, p, n)
    BY <1>2, SliceIs
  <2>2. Len(Slice(q, p, n)) = n /\ Len(Slice(s, p, n)) = n
    BY <1>1, <1>2, <1>4, <2>1 DEF IsSlice, IsPatched
  <2>3. ASSUME NEW i \in 1..n
        PROVE  q[p + i] = s[p + i]
    <3>1. p + i \in 1..Len(q) /\ p + i <= Len(s) /\ ~(o < p + i /\ p + i <= o + Len(d))
      BY <1>1, <1>2, <1>4 DEF IsPatched
    <3> QED
      BY <1>2, <3>1 DEF IsPatched
  <2>4. \A i \in 1..n : Slice(q, p, n)[i] = Slice(s, p, n)[i]
    BY <2>1, <2>2, <2>3 DEF IsSlice
  <2> QED
    BY <2>1, <2>2, <2>4, SameBytes DEF IsSlice
<1> QED
  BY <1>3, <1>4 DEF q

(* A part of a part *)
LEMMA SliceOfSlice ==
  ASSUME NEW s \in Bytes, NEW o \in Nat, NEW n \in Nat, NEW p \in Nat, NEW m \in Nat,
         p + m <= Len(Slice(s, o, n))
  PROVE  Slice(Slice(s, o, n), p, m) = Slice(s, o + p, m)
<1> DEFINE t == Slice(s, o, n)
<1>1. IsSlice(t, s, o, n) /\ Len(s) \in Nat /\ p + m <= Len(t)
  BY SliceIs, LenIs
<1> HIDE DEF t
<1>2. IsSlice(Slice(t, p, m), t, p, m)
  BY <1>1, SliceIs DEF IsSlice
<1>3. Len(t) \in Nat /\ Len(Slice(t, p, m)) = m
  BY <1>1, <1>2, LenIs DEF IsSlice
<1>4. IsSlice(Slice(s, o + p, m), s, o + p, m)
  <2>1. o + p \in Nat
    OBVIOUS
  <2> QED
    BY <2>1, SliceIs
<1>5. Len(Slice(s, o + p, m)) = m
  <2>1. m # 0 => o + p + m <= Len(s)
    BY <1>1, <1>3 DEF IsSlice
  <2> QED
    BY <1>1, <1>4, <2>1 DEF IsSlice
<1>6. ASSUME NEW i \in 1..m
      PROVE  Slice(t, p, m)[i] = Slice(s, o + p, m)[i]
  <2>1. p + i \in 1..Len(t) /\ o + (p + i) = o + p + i
    BY <1>1, <1>3
  <2>2. t[p + i] = s[o + p + i]
    BY <1>1, <2>1 DEF IsSlice
  <2> QED
    BY <1>2, <1>3, <1>4, <1>5, <2>2 DEF IsSlice
<1>7. Slice(t, p, m) = Slice(s, o + p, m)
  BY <1>2, <1>3, <1>4, <1>5, <1>6, SameBytes DEF IsSlice
<1> QED
  BY <1>7 DEF t

(* The rest of a part follows its beginning. *)
LEMMA SliceInTwo ==
  ASSUME NEW s \in Bytes, NEW o \in Nat, NEW k \in Nat, NEW n \in Nat, o + k <= Len(s),
         NEW p \in Nat, p = o + k, NEW m \in Nat, m = k + n
  PROVE  Joined(Slice(s, o, k), Slice(s, p, n), Slice(s, o, m))
<1> DEFINE a == Slice(s, o, k)
           b == Slice(s, p, n)
           c == Slice(s, o, m)
           d == a \o b
<1>1. p \in Nat /\ m \in Nat /\ Len(s) \in Nat
  BY LenIs
<1>2. IsSlice(a, s, o, k) /\ IsSlice(b, s, p, n) /\ IsSlice(c, s, o, m)
  BY <1>1, SliceIs
<1>3. IsCat(d, a, b)
  BY <1>2, CatIs DEF IsSlice
<1> HIDE DEF a, b, c, d
<1>4. Len(a) = k /\ Len(b) \in Nat /\ Len(d) = Len(c)
  BY <1>1, <1>2, <1>3, LenIs DEF IsSlice, IsCat
<1>5. ASSUME NEW i \in 1..Len(c)
      PROVE  d[i] = c[i]
  <2>1. i \in 1..Len(d) /\ c[i] = s[o + i] /\ Len(d) = k + Len(b) /\ i \in Nat
    BY <1>2, <1>3, <1>4 DEF IsSlice, IsCat
  <2>2. d[i] = IF i <= k THEN a[i] ELSE b[i - k]
    BY <1>3, <1>4, <2>1 DEF IsCat
  <2>3. CASE i <= k
    BY <1>2, <1>4, <2>1, <2>2, <2>3 DEF IsSlice
  <2>4. CASE ~(i <= k)
    <3>1. i - k \in 1..Len(b) /\ o + k + (i - k) = o + i
      BY <1>4, <2>1, <2>4
    <3>2. b[i - k] = s[o + i]
      BY <1>2, <3>1 DEF IsSlice
    <3> QED
      BY <2>1, <2>2, <2>4, <3>2
  <2> QED
    BY <2>3, <2>4
<1>6. d = c
  BY <1>2, <1>3, <1>4, <1>5, SameBytes DEF IsSlice, IsCat
<1> QED
  BY <1>6 DEF a, b, c, d, Joined

(* All of a sequence, and none of it *)
LEMMA SliceAll ==
  ASSUME NEW s \in Bytes
  PROVE  /\ \A n \in Nat : Len(s) <= n => Slice(s, 0, n) = s
         /\ \A o, n \in Nat : n = 0 \/ Len(s) <= o => Slice(s, o, n) = <<>>
<1>0. Len(s) \in Nat
  BY LenIs
<1>1. ASSUME NEW n \in Nat, Len(s) <= n PROVE Slice(s, 0, n) = s
  <2>1. IsSlice(Slice(s, 0, n), s, 0, n)
    BY SliceIs
  <2>2. Len(Slice(s, 0, n)) = Len(s)
    BY <1>0, <1>1, <2>1 DEF IsSlice
  <2>3. \A i \in 1..Len(s) : Slice(s, 0, n)[i] = s[i]
    <3>1. \A i \in 1..Len(s) : 0 + i = i
      BY <1>0
    <3> QED
      BY <2>1, <2>2, <3>1 DEF IsSlice
  <2> QED
    BY <2>1, <2>2, <2>3, SameBytes DEF IsSlice
<1>2. ASSUME NEW o \in Nat, NEW n \in Nat, n = 0 \/ Len(s) <= o PROVE Slice(s, o, n) = <<>>
  <2>1. IsSlice(Slice(s, o, n), s, o, n)
    BY SliceIs
  <2>2. Slice(s, o, n) \in Bytes /\ Len(Slice(s, o, n)) = 0
    BY <1>0, <1>2, <2>1 DEF IsSlice
  <2> QED
    BY <2>2 DEF Bytes
<1> QED
  BY <1>1, <1>2

-----------------------------------------------------------------------------
(***************************************************************************)
(* The blobs of an Encoded_File.  Each was written within, or at the end   *)
(* of, what the blobs before it hold: d[i] is what the first i blobs hold. *)
(***************************************************************************)
BlobT == [offset : Nat, data : Bytes]

Stages(blocks, d) ==
  /\ d \in [0..Len(blocks) -> Bytes]
  /\ d[0] = <<>>
  /\ \A i \in 1..Len(blocks) :
       /\ blocks[i].offset <= Len(d[i - 1])
       /\ d[i] = Patched(d[i - 1], blocks[i].data, blocks[i].offset)

Stores(blocks, b) == \E d : Stages(blocks, d) /\ d[Len(blocks)] = b

(* No blob holds nothing. *)
LEMMA StoresNothing == Stores(<<>>, <<>>)
<1>1. <<>> \in Bytes /\ Len(<<>>) = 0
  BY DEF Bytes
<1>2. Stages(<<>>, [i \in 0..0 |-> <<>>])
  BY <1>1 DEF Stages
<1> QED
  BY <1>1, <1>2 DEF Stores

(* What is stored is a sequence of bytes. *)
LEMMA StoresBytes ==
  ASSUME NEW blocks \in Seq(BlobT), NEW b, Stores(blocks, b)
  PROVE  b \in Bytes
<1>1. Len(blocks) \in 0..Len(blocks)
  OBVIOUS
<1> QED
  BY <1>1 DEF Stores, Stages

(* One more blob *)
LEMMA StoresAppend ==
  ASSUME NEW blocks \in Seq(BlobT), NEW b, Stores(blocks, b),
         NEW data \in Bytes, NEW o \in 0..Len(b)
  PROVE  /\ Append(blocks, [offset |-> o, data |-> data]) \in Seq(BlobT)
         /\ Stores(Append(blocks, [offset |-> o, data |-> data]), Patched(b, data, o))
<1> DEFINE m == Len(blocks)
           e == [offset |-> o, data |-> data]
           bs == Append(blocks, e)
           c == Patched(b, data, o)
<1>1. b \in Bytes /\ Len(b) \in Nat /\ m \in Nat /\ o \in Nat
  BY StoresBytes, LenIs
<1>2. c \in Bytes
  BY <1>1, PatchedIs DEF IsPatched
<1>3. PICK d : Stages(blocks, d) /\ d[m] = b
  BY DEF Stores
<1> DEFINE h == [i \in 0..(m + 1) |-> IF i = m + 1 THEN c ELSE d[i]]
<1>4. e \in BlobT
  BY <1>1 DEF BlobT
<1>5. bs \in Seq(BlobT) /\ Len(bs) = m + 1 /\ bs[m + 1] = e /\ \A i \in 1..m : bs[i] = blocks[i]
  BY <1>4
<1>6. h \in [0..(m + 1) -> Bytes]
  BY <1>2, <1>3 DEF Stages
<1>7. h[0] = <<>> /\ h[m + 1] = c
  BY <1>1, <1>3 DEF Stages
<1>8. ASSUME NEW i \in 1..(m + 1)
      PROVE  bs[i].offset <= Len(h[i - 1]) /\ h[i] = Patched(h[i - 1], bs[i].data, bs[i].offset)
  <2>1. i - 1 \in 0..m /\ h[i - 1] = d[i - 1]
    BY <1>1
  <2>2. CASE i = m + 1
    <3>1. h[i] = c /\ bs[i] = e /\ d[i - 1] = b
      BY <1>1, <1>3, <1>5, <1>7, <2>2
    <3>2. e.offset = o /\ e.data = data
      OBVIOUS
    <3> QED
      BY <2>1, <3>1, <3>2
  <2>3. CASE i # m + 1
    <3>1. i \in 1..m /\ h[i] = d[i] /\ bs[i] = blocks[i]
      BY <1>1, <1>5, <2>3
    <3> QED
      BY <1>3, <2>1, <3>1 DEF Stages
  <2> QED
    BY <2>2, <2>3
<1> HIDE DEF h, bs, c, e
<1>9. Stages(bs, h) /\ h[Len(bs)] = c
  BY <1>5, <1>6, <1>7, <1>8 DEF Stages
<1>10. bs \in Seq(BlobT) /\ Stores(bs, c)
  BY <1>5, <1>9 DEF Stores
<1> QED
  BY <1>10 DEF bs, c, e

(* The blobs of a write *)
Blobs(data, o, n) == [i \in 1..n |-> Blob(data, o, i - 1)]

LEMMA BlobsAre ==
  ASSUME NEW data \in Bytes, NEW o \in Nat, NEW n \in Nat
  PROVE  /\ Blobs(data, o, n) \in Seq(BlobT) /\ Len(Blobs(data, o, n)) = n
         /\ Blobs(data, o, 0) = <<>>
         /\ Blobs(data, o, n + 1) = Append(Blobs(data, o, n), Blob(data, o, n))
<1>1. Capacity \in Nat /\ \A i \in Nat : i * Capacity \in Nat
  BY SizeAssumption
<1>2. ASSUME NEW i \in Nat
      PROVE  Blob(data, o, i) \in BlobT
  <2>1. i * Capacity \in Nat /\ o + i * Capacity \in Nat
    BY <1>1
  <2>2. Slice(data, i * Capacity, Capacity) \in Bytes
    BY <1>1, <2>1, SliceIs DEF IsSlice
  <2> QED
    BY <2>1, <2>2 DEF Blob, BlobT
<1>3. ASSUME NEW k \in Nat
      PROVE  Blobs(data, o, k) \in Seq(BlobT) /\ Len(Blobs(data, o, k)) = k
  <2>1. \A i \in 1..k : Blob(data, o, i - 1) \in BlobT
    BY <1>2
  <2> QED
    BY <2>1 DEF Blobs
<1>4. Blobs(data, o, 0) = <<>>
  BY <1>3
<1>5. Blobs(data, o, n + 1) = Append(Blobs(data, o, n), Blob(data, o, n))
  <2> DEFINE s == Blobs(data, o, n + 1)
             t == Append(Blobs(data, o, n), Blob(data, o, n))
  <2>1. s \in Seq(BlobT) /\ Len(s) = n + 1
    BY <1>3
  <2>2. t \in Seq(BlobT) /\ Len(t) = n + 1
    BY <1>2, <1>3
  <2>3. ASSUME NEW i \in 1..(n + 1)
        PROVE  s[i] = t[i]
    <3>1. s[i] = Blob(data, o, i - 1)
      BY DEF Blobs
    <3>2. CASE i = n + 1
      <4>1. t[i] = Blob(data, o, n) /\ i - 1 = n
        BY <1>2, <1>3, <3>2
      <4> QED
        BY <3>1, <4>1
    <3>3. CASE i # n + 1
      <4>1. i \in 1..n
        BY <3>3
      <4>2. t[i] = Blobs(data, o, n)[i]
        BY <1>2, <1>3, <4>1
      <4>3. Blobs(data, o, n)[i] = Blob(data, o, i - 1)
        BY <4>1 DEF Blobs
      <4> QED
        BY <3>1, <4>2, <4>3
    <3> QED
      BY <3>2, <3>3
  <2> HIDE DEF s, t
  <2>4. s = t
    BY <2>1, <2>2, <2>3
  <2> QED
    BY <2>4 DEF s, t
<1> QED
  BY <1>3, <1>4, <1>5

(* Appending to the second of two sequences *)
LEMMA AppendCat ==
  ASSUME NEW T, NEW s \in Seq(T), NEW t \in Seq(T), NEW x \in T
  PROVE  s \o Append(t, x) = Append(s \o t, x)
<1> DEFINE u == s \o Append(t, x)
           v == Append(s \o t, x)
<1>1. /\ u \in Seq(T) /\ v \in Seq(T)
      /\ Len(u) = Len(s) + Len(t) + 1 /\ Len(v) = Len(s) + Len(t) + 1
  OBVIOUS
<1>2. ASSUME NEW i \in 1..(Len(s) + Len(t) + 1)
      PROVE  u[i] = v[i]
  <2>1. CASE i <= Len(s)
    BY <2>1
  <2>2. CASE Len(s) < i /\ i <= Len(s) + Len(t)
    BY <2>2
  <2>3. CASE i = Len(s) + Len(t) + 1
    BY <2>3
  <2> QED
    BY <2>1, <2>2, <2>3
<1> HIDE DEF u, v
<1>3. u = v
  BY <1>1, <1>2
<1> QED
  BY <1>3 DEF u, v

(* They store what they are the blobs of. *)
LEMMA StoresBlobs ==
  ASSUME NEW blocks \in Seq(BlobT), NEW b, Stores(blocks, b),
         NEW data \in Bytes, NEW o \in 0..Len(b),
         NEW n \in Nat, n * Capacity <= Len(data)
  PROVE  /\ blocks \o Blobs(data, o, n) \in Seq(BlobT)
         /\ Stores(blocks \o Blobs(data, o, n), Patched(b, Slice(data, 0, n * Capacity), o))
<1> DEFINE B(k) == blocks \o Blobs(data, o, k)
           C(k) == Patched(b, Slice(data, 0, k * Capacity), o)
           S == {k \in 0..n : B(k) \in Seq(BlobT) /\ Stores(B(k), C(k))}
<1>1. b \in Bytes /\ Len(b) \in Nat /\ o \in Nat /\ Len(data) \in Nat /\ Capacity \in Nat
  BY StoresBytes, LenIs, SizeAssumption
<1>2. 0 \in S
  <2>1. Blobs(data, o, 0) = <<>> /\ 0 * Capacity = 0
    BY <1>1, BlobsAre
  <2>2. B(0) = blocks
    BY <2>1
  <2>3. C(0) = b
    BY <1>1, <2>1, SliceAll, PatchedNothing
  <2> HIDE DEF B, C
  <2> QED
    BY <2>2, <2>3
<1>3. ASSUME NEW k \in 0..(n - 1), k \in S
      PROVE  k + 1 \in S
  <2>0. k \in Nat /\ k + 1 \in 0..n
    OBVIOUS
  <2>1. /\ k * Capacity \in Nat /\ (k + 1) * Capacity = k * Capacity + Capacity
        /\ (k + 1) * Capacity <= n * Capacity
    <3>1. k \in Nat /\ k + 1 <= n
      OBVIOUS
    <3> QED
      BY <1>1, <3>1
  <2>2. k * Capacity + Capacity <= Len(data)
    <3>1. n * Capacity \in Nat /\ (k + 1) * Capacity \in Nat
      BY <1>1
    <3> QED
      BY <1>1, <2>1, <3>1
  <2> DEFINE s == Slice(data, 0, k * Capacity)
             e == Slice(data, k * Capacity, Capacity)
             p == o + k * Capacity
  <2>3. s \in Bytes /\ Len(s) = k * Capacity /\ e \in Bytes
    <3>1. IsSlice(s, data, 0, k * Capacity) /\ IsSlice(e, data, k * Capacity, Capacity)
      BY <1>1, <2>1, SliceIs
    <3> QED
      BY <1>1, <2>1, <2>2, <3>1 DEF IsSlice
  <2>4. s \o e = Slice(data, 0, (k + 1) * Capacity)
    <3>1. k * Capacity <= Len(data) /\ (k + 1) * Capacity \in Nat
      BY <1>1, <2>1, <2>2
    <3>2. Joined(Slice(data, 0, k * Capacity), Slice(data, k * Capacity, Capacity),
                 Slice(data, 0, (k + 1) * Capacity))
      <4> DEFINE w == k * Capacity
                 m == (k + 1) * Capacity
      <4>1. w \in Nat /\ m \in Nat /\ w <= Len(data) /\ m = w + Capacity
        BY <2>1, <3>1
      <4> HIDE DEF w, m
      <4>2. Joined(Slice(data, 0, w), Slice(data, w, Capacity), Slice(data, 0, m))
        <5>1. 0 + w <= Len(data) /\ w = 0 + w
          BY <4>1
        <5> QED
          BY <1>1, <4>1, <5>1, SliceInTwo
      <4> QED
        BY <4>2 DEF w, m
    <3> QED
      BY <3>2 DEF Joined
  <2>5. B(k) \in Seq(BlobT) /\ Stores(B(k), C(k))
    BY <1>3
  <2>6. p \in 0..Len(C(k))
    <3>1. IsPatched(C(k), b, s, o)
      BY <1>1, <2>3, PatchedIs
    <3> QED
      BY <1>1, <2>1, <2>3, <3>1 DEF IsPatched
  <2>7. Blob(data, o, k) = [offset |-> p, data |-> e]
    BY DEF Blob
  <2>8. B(k + 1) = Append(B(k), Blob(data, o, k))
    <3>1. /\ Blobs(data, o, k) \in Seq(BlobT)
          /\ Blobs(data, o, k + 1) = Append(Blobs(data, o, k), Blob(data, o, k))
      BY <1>1, <2>0, BlobsAre
    <3>2. Blob(data, o, k) \in BlobT
      BY <1>1, <2>1, <2>3, <2>7 DEF BlobT
    <3>3. blocks \o Append(Blobs(data, o, k), Blob(data, o, k))
            = Append(blocks \o Blobs(data, o, k), Blob(data, o, k))
      <4> DEFINE q == Blob(data, o, k)
                 t == Blobs(data, o, k)
      <4>1. q \in BlobT /\ t \in Seq(BlobT)
        BY <3>1, <3>2
      <4> HIDE DEF q, t
      <4>2. blocks \o Append(t, q) = Append(blocks \o t, q)
        BY <4>1, AppendCat
      <4> QED
        BY <4>2 DEF q, t
    <3> QED
      BY <3>1, <3>3
  <2>9. Patched(C(k), e, p) = C(k + 1)
    <3>1. Patched(Patched(b, s, o), e, o + Len(s)) = Patched(b, s \o e, o)
      BY <1>1, <2>3, PatchedTwice
    <3> QED
      BY <2>3, <2>4, <3>1
  <2> HIDE DEF B, C, s, e, p
  <2>10. Append(B(k), [offset |-> p, data |-> e]) \in Seq(BlobT)
         /\ Stores(Append(B(k), [offset |-> p, data |-> e]), Patched(C(k), e, p))
    BY <2>3, <2>5, <2>6, StoresAppend
  <2>11. B(k + 1) \in Seq(BlobT) /\ Stores(B(k + 1), C(k + 1))
    BY <2>7, <2>8, <2>9, <2>10
  <2> QED
    BY <2>0, <2>11
<1>4. n \in S
  <2> HIDE DEF S
  <2>1. \A k \in 0..n : k \in S
    BY <1>2, <1>3, InductionUpTo
  <2> QED
    BY <2>1
<1> QED
  BY <1>4

-----------------------------------------------------------------------------
(***************************************************************************)
(* A write that may stop: what it has left, byte after byte.               *)
(***************************************************************************)

(* I has all that c becomes while d is written at o. *)
Keeps(I, c, d, o) == \A k \in 0..Len(d) : Patched(c, Slice(d, 0, k), o) \in I

(* The beginning of a write, and what follows it *)
LEMMA PatchedInTwo ==
  ASSUME NEW c \in Bytes, NEW d \in Bytes, NEW o \in 0..Len(c),
         NEW m \in 0..Len(d), NEW n \in Nat
  PROVE  Patched(Patched(c, Slice(d, 0, m), o), Slice(d, m, n), o + m)
           = Patched(c, Slice(d, 0, m + n), o)
<1> DEFINE s == Slice(d, 0, m)
           e == Slice(d, m, n)
<1>1. m \in Nat /\ m + n \in Nat /\ Len(d) \in Nat
  BY LenIs
<1>2. IsSlice(s, d, 0, m) /\ IsSlice(e, d, m, n)
  BY <1>1, SliceIs
<1>3. s \in Bytes /\ e \in Bytes /\ Len(s) = m
  BY <1>1, <1>2 DEF IsSlice
<1>4. Joined(s, e, Slice(d, 0, m + n))
  <2>1. 0 + m <= Len(d) /\ m = 0 + m
    BY <1>1
  <2> QED
    BY <1>1, <2>1, SliceInTwo
<1> HIDE DEF s, e
<1>5. Patched(Patched(c, s, o), e, o + Len(s)) = Patched(c, s \o e, o)
  <2>1. c \in Bytes /\ s \in Bytes /\ e \in Bytes /\ o \in 0..Len(c)
    BY <1>3
  <2> QED
    BY <2>1, PatchedTwice
<1>6. Patched(Patched(c, s, o), e, o + m) = Patched(c, Slice(d, 0, m + n), o)
  BY <1>3, <1>4, <1>5 DEF Joined
<1> QED
  BY <1>6 DEF s, e

(* A part that reaches the end *)
LEMMA SliceToEnd ==
  ASSUME NEW s \in Bytes, NEW o \in Nat, NEW m \in Nat, NEW n \in Nat,
         Len(s) <= o + m, Len(s) <= o + n
  PROVE  Slice(s, o, m) = Slice(s, o, n)
<1>1. IsSlice(Slice(s, o, m), s, o, m) /\ IsSlice(Slice(s, o, n), s, o, n) /\ Len(s) \in Nat
  BY SliceIs, LenIs
<1>2. Len(Slice(s, o, m)) = Len(Slice(s, o, n))
  BY <1>1 DEF IsSlice
<1>3. \A i \in 1..Len(Slice(s, o, m)) : Slice(s, o, m)[i] = Slice(s, o, n)[i]
  BY <1>1, <1>2 DEF IsSlice
<1> QED
  BY <1>1, <1>2, <1>3, SameBytes DEF IsSlice

(* What is left of a write after its beginning *)
LEMMA KeepsRest ==
  ASSUME NEW I, NEW c \in Bytes, NEW d \in Bytes, NEW o \in 0..Len(c), NEW m \in 0..Len(d),
         NEW n \in Nat, Len(d) <= m + n, Keeps(I, c, d, o)
  PROVE  /\ Keeps(I, Patched(c, Slice(d, 0, m), o), Slice(d, m, n), o + m)
         /\ Patched(Patched(c, Slice(d, 0, m), o), Slice(d, m, n), o + m) = Patched(c, d, o)
<1> DEFINE s == Slice(d, 0, m)
           e == Slice(d, m, n)
<1>1. m \in Nat /\ m + n \in Nat /\ Len(d) \in Nat
  BY LenIs
<1>2. IsSlice(e, d, m, n) /\ Len(e) = Len(d) - m
  <2>1. IsSlice(e, d, m, n)
    BY <1>1, SliceIs
  <2> QED
    BY <1>1, <2>1 DEF IsSlice
<1>3. ASSUME NEW k \in 0..Len(e)
      PROVE  Patched(Patched(c, s, o), Slice(e, 0, k), o + m) \in I
  <2>1. k \in Nat /\ 0 + k <= Len(e) /\ m + 0 = m
    BY <1>1, <1>2
  <2>2. Slice(e, 0, k) = Slice(d, m + 0, k)
    BY <1>1, <2>1, SliceOfSlice
  <2>3. Patched(Patched(c, s, o), Slice(d, m, k), o + m) = Patched(c, Slice(d, 0, m + k), o)
    BY <2>1, PatchedInTwo
  <2>4. m + k \in 0..Len(d)
    BY <1>1, <1>2
  <2>5. Patched(c, Slice(d, 0, m + k), o) \in I
    BY <2>4 DEF Keeps
  <2> QED
    BY <2>1, <2>2, <2>3, <2>5
<1>4. Patched(Patched(c, s, o), e, o + m) = Patched(c, d, o)
  <2>1. Slice(d, 0, m + n) = d
    BY <1>1, SliceAll
  <2> QED
    BY <2>1, PatchedInTwo
<1> QED
  BY <1>3, <1>4 DEF Keeps

(* A write, and then another one *)
LEMMA KeepsCat ==
  ASSUME NEW I, NEW c \in Bytes, NEW d \in Bytes, NEW e \in Bytes, NEW o \in 0..Len(c),
         Keeps(I, c, d, o), Keeps(I, Patched(c, d, o), e, o + Len(d))
  PROVE  Keeps(I, c, d \o e, o)
<1> DEFINE w == d \o e
<1>1. IsCat(w, d, e) /\ Len(d) \in Nat /\ Len(e) \in Nat
  BY CatIs, LenIs
<1> HIDE DEF w
<1>2. ASSUME NEW k \in 0..Len(w)
      PROVE  Patched(c, Slice(w, 0, k), o) \in I
  <2>0. k \in Nat /\ w \in Bytes /\ Len(w) = Len(d) + Len(e)
    BY <1>1 DEF IsCat
  <2>1. IsSlice(Slice(w, 0, k), w, 0, k)
    BY <2>0, SliceIs
  <2>2. CASE k <= Len(d)
    <3>1. IsSlice(Slice(d, 0, k), d, 0, k) /\ k \in 0..Len(d)
      BY <1>1, <2>0, <2>2, SliceIs
    <3>2. Len(Slice(w, 0, k)) = k /\ Len(Slice(d, 0, k)) = k
      BY <1>1, <2>0, <2>1, <2>2, <3>1 DEF IsSlice
    <3>3. ASSUME NEW i \in 1..k PROVE Slice(w, 0, k)[i] = Slice(d, 0, k)[i]
      <4>1. i \in 1..Len(w) /\ i <= Len(d) /\ 0 + i = i
        BY <1>1, <2>0, <2>2
      <4>2. w[i] = d[i]
        BY <1>1, <4>1 DEF IsCat
      <4> QED
        BY <2>1, <3>1, <3>2, <4>1, <4>2 DEF IsSlice
    <3>4. Slice(w, 0, k) = Slice(d, 0, k)
      BY <2>1, <3>1, <3>2, <3>3, SameBytes DEF IsSlice
    <3> QED
      BY <3>1, <3>4 DEF Keeps
  <2>3. CASE ~(k <= Len(d))
    <3> DEFINE j == k - Len(d)
    <3>1. j \in 0..Len(e) /\ j \in Nat
      BY <1>1, <2>0, <2>3
    <3>2. IsSlice(Slice(e, 0, j), e, 0, j) /\ Len(Slice(e, 0, j)) = j
      <4>1. IsSlice(Slice(e, 0, j), e, 0, j)
        BY <3>1, SliceIs
      <4> QED
        BY <1>1, <3>1, <4>1 DEF IsSlice
    <3>3. IsCat(d \o Slice(e, 0, j), d, Slice(e, 0, j))
      BY <3>2, CatIs DEF IsSlice
    <3> DEFINE t == d \o Slice(e, 0, j)
    <3>4. Len(t) = k /\ Len(Slice(w, 0, k)) = k
      BY <1>1, <2>0, <2>1, <3>2, <3>3 DEF IsSlice, IsCat
    <3>5. ASSUME NEW i \in 1..k PROVE Slice(w, 0, k)[i] = t[i]
      <4>1. i \in 1..Len(w) /\ Slice(w, 0, k)[i] = w[i] /\ i \in Nat
        <5>1. 0 + i = i
          OBVIOUS
        <5> QED
          BY <1>1, <2>0, <2>1, <3>4, <5>1 DEF IsSlice
      <4>2. t[i] = IF i <= Len(d) THEN d[i] ELSE Slice(e, 0, j)[i - Len(d)]
        BY <3>3, <3>4 DEF IsCat
      <4>3. w[i] = IF i <= Len(d) THEN d[i] ELSE e[i - Len(d)]
        BY <1>1, <4>1 DEF IsCat
      <4>4. ~(i <= Len(d)) => Slice(e, 0, j)[i - Len(d)] = e[i - Len(d)]
        <5>1. ~(i <= Len(d)) => i - Len(d) \in 1..j /\ 0 + (i - Len(d)) = i - Len(d)
          BY <1>1, <4>1
        <5> QED
          BY <3>2, <5>1 DEF IsSlice
      <4> QED
        BY <4>1, <4>2, <4>3, <4>4
    <3> HIDE DEF t
    <3>6. Slice(w, 0, k) = t
      BY <2>1, <3>3, <3>4, <3>5, SameBytes DEF IsSlice, IsCat, t
    <3>7. Patched(Patched(c, d, o), Slice(e, 0, j), o + Len(d)) = Patched(c, t, o)
      BY <3>2, PatchedTwice DEF IsSlice, t
    <3>8. Patched(Patched(c, d, o), Slice(e, 0, j), o + Len(d)) \in I
      BY <3>1 DEF Keeps
    <3> QED
      BY <3>6, <3>7, <3>8
  <2> QED
    BY <2>2, <2>3
<1> QED
  BY <1>2 DEF Keeps, w

(* The beginning of a write *)
LEMMA KeepsBeginning ==
  ASSUME NEW I, NEW c \in Bytes, NEW d \in Bytes, NEW o \in 0..Len(c), NEW m \in 0..Len(d),
         Keeps(I, c, d, o)
  PROVE  Keeps(I, c, Slice(d, 0, m), o)
<1>1. IsSlice(Slice(d, 0, m), d, 0, m) /\ Len(d) \in Nat /\ m \in Nat
  BY SliceIs, LenIs
<1>2. Len(Slice(d, 0, m)) = m
  BY <1>1 DEF IsSlice
<1>3. ASSUME NEW k \in 0..m
      PROVE  Patched(c, Slice(Slice(d, 0, m), 0, k), o) \in I
  <2>1. k \in Nat /\ 0 + k <= Len(Slice(d, 0, m)) /\ 0 + 0 = 0 /\ k \in 0..Len(d)
    BY <1>1, <1>2
  <2>2. Slice(Slice(d, 0, m), 0, k) = Slice(d, 0 + 0, k)
    BY <1>1, <2>1, SliceOfSlice
  <2> QED
    BY <2>1, <2>2 DEF Keeps
<1> QED
  BY <1>2, <1>3 DEF Keeps

(* All that was written *)
LEMMA KeepsAll ==
  ASSUME NEW I, NEW c \in Bytes, NEW d \in Bytes, NEW o \in Nat, Keeps(I, c, d, o)
  PROVE  Patched(c, d, o) \in I
<1>1. Len(d) \in 0..Len(d)
  BY LenIs
<1>2. Slice(d, 0, Len(d)) = d
  BY LenIs, SliceAll
<1> QED
  BY <1>1, <1>2 DEF Keeps

-----------------------------------------------------------------------------
(***************************************************************************)
(* Encoded_File.  HoldsEncoded: its blobs and its buffer hold c, and I has *)
(* every sequence that it may hold once the buffer is written.             *)
(***************************************************************************)
FileT == [data : Bytes, blocks : Seq(BlobT), pending : BlobT,
          head : Bytes, remote : Bytes, tail_offset : Nat]

HoldsEncoded(f, c, I) ==
  \E b : /\ Stores(f.blocks, b)
         /\ f.pending.offset <= Len(b)
         /\ Len(f.pending.data) <= Capacity
         /\ c = Patched(b, f.pending.data, f.pending.offset)
         /\ Keeps(I, b, f.pending.data, f.pending.offset)

(* Fields of a file *)
LEMMA FileFields ==
  ASSUME NEW f \in FileT
  PROVE  /\ f.data \in Bytes /\ f.blocks \in Seq(BlobT) /\ f.pending \in BlobT
         /\ f.head \in Bytes /\ f.remote \in Bytes /\ f.tail_offset \in Nat
         /\ f.pending.offset \in Nat /\ f.pending.data \in Bytes
BY DEF FileT, BlobT

(* What an encoded file holds *)
LEMMA EncodedBytes ==
  ASSUME NEW f \in FileT, NEW c, NEW I, HoldsEncoded(f, c, I)
  PROVE  c \in Bytes /\ c \in I
<1>1. PICK b : /\ Stores(f.blocks, b) /\ c = Patched(b, f.pending.data, f.pending.offset)
               /\ Keeps(I, b, f.pending.data, f.pending.offset)
  BY DEF HoldsEncoded
<1>2. b \in Bytes
  BY <1>1, FileFields, StoresBytes
<1>3. c \in Bytes
  BY <1>1, <1>2, FileFields, PatchedIs DEF IsPatched
<1> QED
  BY <1>1, <1>2, <1>3, FileFields, KeepsAll

(* A file whose buffer is written *)
LEMMA FlushIs ==
  ASSUME NEW f \in FileT, NEW c, NEW I, HoldsEncoded(f, c, I)
  PROVE  LET g == flush_write_buffer(f) IN
         /\ g \in FileT /\ HoldsEncoded(g, c, I)
         /\ g.pending.data = <<>> /\ Stores(g.blocks, c)
         /\ g.pending.offset <= Len(c)
         /\ g.data = f.data /\ g.head = f.head /\ g.remote = f.remote
         /\ g.tail_offset = f.tail_offset
<1> DEFINE g == flush_write_buffer(f)
           pd == f.pending.data
           po == f.pending.offset
<1>0. /\ f.blocks \in Seq(BlobT) /\ pd \in Bytes /\ po \in Nat /\ <<>> \in Bytes /\ Len(<<>>) = 0
      /\ Len(<<>>) <= Capacity
  BY FileFields, SizeAssumption DEF Bytes
<1>1. PICK b : /\ Stores(f.blocks, b) /\ po <= Len(b) /\ c = Patched(b, pd, po)
               /\ Keeps(I, b, pd, po)
  BY DEF HoldsEncoded
<1>2. b \in Bytes /\ c \in Bytes /\ c \in I /\ Len(b) \in Nat /\ po \in 0..Len(b)
  BY <1>0, <1>1, StoresBytes, EncodedBytes, LenIs
<1>3. Len(b) <= Len(c)
  <2>1. IsPatched(c, b, pd, po)
    BY <1>0, <1>1, <1>2, PatchedIs
  <2> QED
    BY <1>0, <1>2, <2>1, LenIs DEF IsPatched
<1>4. /\ g \in FileT /\ g.pending.data = <<>> /\ g.pending.offset = po /\ Stores(g.blocks, c)
      /\ g.data = f.data /\ g.head = f.head /\ g.remote = f.remote /\ g.tail_offset = f.tail_offset
  <2>1. CASE pd = <<>>
    <3>1. g = f
      BY <2>1 DEF flush_write_buffer
    <3>2. c = b
      BY <1>1, <1>2, <2>1, PatchedNothing
    <3> QED
      BY <1>1, <2>1, <3>1, <3>2
  <2>2. CASE pd # <<>>
    <3> DEFINE e == [offset |-> po, data |-> pd]
               bs == Append(f.blocks, e)
    <3>1. g = [[f EXCEPT !.blocks = bs] EXCEPT !.pending.data = <<>>]
      BY <2>2 DEF flush_write_buffer, write_blob
    <3>2. bs \in Seq(BlobT) /\ Stores(bs, c)
      BY <1>0, <1>1, <1>2, StoresAppend
    <3> HIDE DEF bs, e
    <3>3. [f EXCEPT !.blocks = bs] \in FileT /\ [f EXCEPT !.blocks = bs].pending = f.pending
      BY <3>2 DEF FileT
    <3> QED
      BY <1>0, <3>1, <3>2, <3>3 DEF FileT, BlobT
  <2> QED
    BY <2>1, <2>2
<1> HIDE DEF g
<1>5. HoldsEncoded(g, c, I)
  <2>1. Patched(c, <<>>, po) = c
    BY <1>0, <1>2, <1>3, PatchedNothing
  <2>2. Keeps(I, c, <<>>, po)
    <3>1. \A k \in 0..Len(<<>>) : k = 0 /\ Slice(<<>>, 0, k) = <<>>
      BY <1>0, SliceAll
    <3> QED
      BY <1>2, <2>1, <3>1 DEF Keeps
  <2> QED
    BY <1>0, <1>2, <1>3, <1>4, <2>1, <2>2 DEF HoldsEncoded
<1>6. po <= Len(c)
  BY <1>0, <1>1, <1>2, <1>3, LenIs
<1> QED
  BY <1>4, <1>5, <1>6 DEF g

(* The blobs of a write whose beginning is stored already *)
LEMMA WriteBlobsIs ==
  ASSUME NEW f \in FileT, NEW b, NEW I, Stores(f.blocks, b),
         f.pending.data = <<>>, f.pending.offset <= Len(b),
         NEW data \in Bytes, NEW o \in 0..Len(b), Keeps(I, b, data, o)
  PROVE  /\ WriteBlobs(f, data, o) \in FileT
         /\ HoldsEncoded(WriteBlobs(f, data, o), Patched(b, data, o), I)
<1> DEFINE n == Len(data) \div Capacity
           w == n * Capacity
           rest == Blob(data, o, n)
           bs == f.blocks \o Blobs(data, o, n)
           whole == [f EXCEPT !.blocks = bs]
           g == WriteBlobs(f, data, o)
           b2 == Patched(b, Slice(data, 0, w), o)
<1>1. /\ f.blocks \in Seq(BlobT) /\ f.pending.offset \in Nat
      /\ b \in Bytes /\ Len(b) \in Nat /\ o \in Nat /\ Len(data) \in Nat
      /\ Capacity \in Nat /\ Capacity > 0
  BY FileFields, StoresBytes, LenIs, SizeAssumption
<1>2. n \in Nat /\ w \in Nat /\ w <= Len(data) /\ Len(data) < w + Capacity
  BY <1>1
<1>3. bs \in Seq(BlobT) /\ Stores(bs, b2)
  BY <1>1, <1>2, StoresBlobs
<1>4. g = IF rest.data = <<>> THEN whole ELSE [whole EXCEPT !.pending = rest]
  BY DEF WriteBlobs, Blobs
<1>5. rest.offset = o + w /\ rest.data = Slice(data, w, Capacity)
  BY DEF Blob
<1> HIDE DEF n, bs, g
<1>6. IsSlice(Slice(data, w, Capacity), data, w, Capacity)
  BY <1>1, <1>2, SliceIs
<1>7. rest \in BlobT /\ Len(rest.data) <= Capacity
  <2>1. rest = [offset |-> o + w, data |-> Slice(data, w, Capacity)]
    BY DEF Blob
  <2>2. Slice(data, w, Capacity) \in Bytes /\ Len(Slice(data, w, Capacity)) <= Capacity
    BY <1>1, <1>2, <1>6 DEF IsSlice
  <2> HIDE DEF w, rest
  <2> QED
    BY <1>1, <1>2, <2>1, <2>2 DEF BlobT
<1>8. /\ Keeps(I, b2, rest.data, rest.offset)
      /\ Patched(b2, rest.data, rest.offset) = Patched(b, data, o)
  <2>1. w \in 0..Len(data) /\ Len(data) <= w + Capacity
    BY <1>1, <1>2
  <2> HIDE DEF w
  <2>2. /\ Keeps(I, b2, Slice(data, w, Capacity), o + w)
        /\ Patched(b2, Slice(data, w, Capacity), o + w) = Patched(b, data, o)
    BY <1>1, <2>1, KeepsRest
  <2> QED
    BY <1>5, <2>2
<1>9. b2 \in Bytes /\ Len(b2) \in Nat /\ rest.offset <= Len(b2) /\ Len(b) <= Len(b2)
  <2>1. IsSlice(Slice(data, 0, w), data, 0, w)
    BY <1>2, SliceIs
  <2>2. Len(Slice(data, 0, w)) = w /\ Slice(data, 0, w) \in Bytes
    BY <1>1, <1>2, <2>1 DEF IsSlice
  <2>3. IsPatched(b2, b, Slice(data, 0, w), o)
    BY <1>1, <2>2, PatchedIs
  <2> HIDE DEF w, b2, rest
  <2> QED
    BY <1>1, <1>2, <1>5, <2>2, <2>3, LenIs DEF IsPatched
<1> HIDE DEF w, b2, rest
<1>10. whole \in FileT /\ whole.pending = f.pending /\ whole.blocks = bs
  BY <1>3 DEF FileT
<1> HIDE DEF whole
<1>11. CASE rest.data = <<>>
  <2>1. g = whole /\ <<>> \in Bytes
    BY <1>4, <1>11 DEF Bytes
  <2>2. b2 = Patched(b, data, o)
    BY <1>8, <1>9, <1>7, <1>11, PatchedNothing DEF BlobT
  <2>3. Patched(b2, <<>>, f.pending.offset) = b2
    BY <1>1, <1>9, PatchedNothing
  <2>4. Keeps(I, b2, <<>>, f.pending.offset)
    <3>1. \A k \in 0..Len(<<>>) : k = 0 /\ Slice(<<>>, 0, k) = <<>>
      BY <2>1, SliceAll
    <3>2. 0 \in 0..Len(<<>>)
      OBVIOUS
    <3>3. b2 \in I
      BY <1>1, <1>8, <1>7, <1>9, <2>2, KeepsAll DEF BlobT
    <3> QED
      BY <2>3, <3>1, <3>3 DEF Keeps
  <2>5. Len(<<>>) <= Capacity
    BY <1>1
  <2> QED
    BY <1>1, <1>3, <1>9, <1>10, <2>1, <2>2, <2>3, <2>4, <2>5 DEF HoldsEncoded, g
<1>12. CASE rest.data # <<>>
  <2>1. g = [whole EXCEPT !.pending = rest]
    BY <1>4, <1>12
  <2>2. g \in FileT /\ g.pending = rest /\ g.blocks = bs
    BY <1>7, <1>10, <2>1 DEF FileT
  <2>3. HoldsEncoded(g, Patched(b, data, o), I)
    BY <1>3, <1>7, <1>8, <1>9, <2>2 DEF HoldsEncoded
  <2> QED
    BY <2>2, <2>3 DEF g
<1> QED
  BY <1>11, <1>12

(* The part of a sequence that there is *)
LEMMA SliceHere ==
  ASSUME NEW s \in Bytes, NEW o \in Nat, NEW n \in Nat
  PROVE  Slice(s, o, n) = Slice(s, o, Len(Slice(s, o, n)))
<1>1. IsSlice(Slice(s, o, n), s, o, n) /\ Len(s) \in Nat
  BY SliceIs, LenIs
<1> DEFINE m == Len(Slice(s, o, n))
<1>2. m \in Nat
  BY <1>1, LenIs DEF IsSlice
<1>3. CASE o + n <= Len(s)
  BY <1>1, <1>3 DEF IsSlice
<1>4. CASE ~(o + n <= Len(s))
  <2>1. Len(s) <= o + m /\ Len(s) <= o + n
    BY <1>1, <1>4 DEF IsSlice
  <2> QED
    BY <1>2, <2>1, SliceToEnd
<1> QED
  BY <1>3, <1>4

(* pwrite, whether or not the bytes follow those of the buffer *)
LEMMA EncodedPwriteIs ==
  ASSUME NEW f \in FileT, NEW c, NEW I, HoldsEncoded(f, c, I),
         NEW data \in Bytes, NEW o \in 0..Len(c), Keeps(I, c, data, o)
  PROVE  /\ EncodedPwrite(f, data, o) \in FileT
         /\ HoldsEncoded(EncodedPwrite(f, data, o), Patched(c, data, o), I)
<1> DEFINE pd == f.pending.data
           po == f.pending.offset
           contiguous == pd # <<>> /\ po + Len(pd) = o
           s == IF contiguous THEN Slice(data, 0, Capacity - Len(pd)) ELSE <<>>
           rest == Slice(data, Len(s), Len(data))
           filled == [f EXCEPT !.pending.data = @ \o s]
           g == EncodedPwrite(f, data, o)
           h == flush_write_buffer(filled)
           c1 == Patched(c, s, o)
<1>0. /\ f.blocks \in Seq(BlobT) /\ f.pending \in BlobT /\ pd \in Bytes /\ po \in Nat
      /\ c \in Bytes /\ c \in I /\ Len(c) \in Nat /\ o \in Nat
      /\ Len(data) \in Nat /\ Len(pd) \in Nat /\ Capacity \in Nat
      /\ <<>> \in Bytes /\ Len(<<>>) = 0
  BY FileFields, EncodedBytes, LenIs, SizeAssumption DEF Bytes
<1>1. PICK b : /\ Stores(f.blocks, b) /\ po <= Len(b) /\ Len(pd) <= Capacity
               /\ c = Patched(b, pd, po) /\ Keeps(I, b, pd, po)
  BY DEF HoldsEncoded
<1>2. b \in Bytes /\ Len(b) \in Nat /\ po \in 0..Len(b)
  BY <1>0, <1>1, StoresBytes, LenIs
<1>3. /\ s \in Bytes /\ Len(s) \in 0..Len(data) /\ s = Slice(data, 0, Len(s))
      /\ contiguous => Len(pd) + Len(s) <= Capacity
  <2>1. CASE contiguous
    <3> DEFINE k == Capacity - Len(pd)
    <3>1. k \in Nat
      <4>1. Len(pd) \in Nat /\ Capacity \in Nat
        BY <1>0
      <4>2. Len(pd) <= Capacity
        BY <1>1
      <4> QED
        BY <4>1, <4>2
    <3>2. IsSlice(Slice(data, 0, k), data, 0, k)
      BY <3>1, SliceIs
    <3>3. Slice(data, 0, k) = Slice(data, 0, Len(Slice(data, 0, k)))
      BY <3>1, SliceHere
    <3>4. Len(Slice(data, 0, k)) \in 0..Len(data) /\ Len(Slice(data, 0, k)) <= k
      <4> DEFINE u == Slice(data, 0, k)
      <4>1. IsSlice(u, data, 0, k)
        BY <3>2
      <4> HIDE DEF u, k
      <4>2. Len(u) \in 0..Len(data) /\ Len(u) <= k
        BY <1>0, <3>1, <4>1 DEF IsSlice
      <4> QED
        BY <4>2 DEF u
    <3>5. s = Slice(data, 0, k)
      BY <2>1
    <3> HIDE DEF s, contiguous
    <3>6. s \in Bytes /\ Len(s) \in 0..Len(data) /\ s = Slice(data, 0, Len(s))
      BY <3>2, <3>3, <3>4, <3>5 DEF IsSlice
    <3>7. Len(pd) + Len(s) <= Capacity
      <4>1. Len(s) \in Nat /\ Len(s) <= Capacity - Len(pd)
        BY <3>4, <3>5, <3>6
      <4> QED
        BY <1>0, <4>1
    <3> QED
      BY <3>6, <3>7
  <2>2. CASE ~contiguous
    <3>1. Slice(data, 0, 0) = <<>>
      BY SliceAll
    <3>2. s = <<>>
      BY <2>2
    <3> HIDE DEF s, contiguous
    <3> QED
      BY <1>0, <2>2, <3>1, <3>2
  <2> QED
    BY <2>1, <2>2
<1>4. g = IF rest = <<>> THEN filled ELSE WriteBlobs(h, rest, o + Len(s))
  BY DEF EncodedPwrite
<1> HIDE DEF s, g
<1>5. /\ filled \in FileT /\ filled.blocks = f.blocks /\ filled.pending.offset = po
      /\ filled.pending.data = pd \o s
  <2>1. pd \o s \in Bytes
    BY <1>0, <1>3, CatIs DEF IsCat
  <2> QED
    BY <1>0, <2>1 DEF FileT, BlobT
<1> HIDE DEF filled
<1>6. Keeps(I, c, s, o)
  BY <1>0, <1>3, KeepsBeginning
<1>7. HoldsEncoded(filled, c1, I)
  <2>1. CASE contiguous
    <3>1. Keeps(I, b, pd \o s, po)
      BY <1>0, <1>1, <1>2, <1>3, <1>6, <2>1, KeepsCat
    <3>2. Patched(b, pd \o s, po) = c1
      <4>1. pd \in Bytes /\ s \in Bytes /\ b \in Bytes /\ po \in 0..Len(b)
        BY <1>0, <1>2, <1>3
      <4> HIDE DEF pd, po
      <4>2. Patched(Patched(b, pd, po), s, po + Len(pd)) = Patched(b, pd \o s, po)
        BY <4>1, PatchedTwice
      <4> QED
        BY <1>1, <2>1, <4>2
    <3>3. Len(pd \o s) <= Capacity
      <4>1. IsCat(pd \o s, pd, s)
        BY <1>0, <1>3, CatIs
      <4> QED
        BY <1>3, <2>1, <4>1 DEF IsCat
    <3> HIDE DEF pd, po, c1
    <3> QED
      BY <1>1, <1>5, <3>1, <3>2, <3>3 DEF HoldsEncoded
  <2>2. CASE ~contiguous
    <3>1. s = <<>>
      BY <2>2 DEF s
    <3>2. c1 = c
      BY <1>0, <3>1, PatchedNothing
    <3>3. pd \o s = pd
      BY <1>0, <3>1 DEF Bytes
    <3> HIDE DEF pd, po, c1
    <3> QED
      BY <1>1, <1>5, <3>2, <3>3 DEF HoldsEncoded
  <2> QED
    BY <2>1, <2>2
<1>8. IsPatched(c1, c, s, o)
  BY <1>0, <1>3, PatchedIs
<1>9. rest \in Bytes /\ Len(rest) = Len(data) - Len(s)
  <2>1. Len(s) \in Nat
    BY <1>3
  <2>2. IsSlice(rest, data, Len(s), Len(data))
    BY <1>0, <2>1, SliceIs
  <2> QED
    BY <1>0, <1>3, <2>2 DEF IsSlice
<1>10. CASE rest = <<>>
  <2>1. Len(s) = Len(data)
    BY <1>0, <1>3, <1>9, <1>10
  <2>2. s = data
    BY <1>0, <1>3, <2>1, SliceAll
  <2>3. g = filled
    BY <1>4, <1>10
  <2> QED
    BY <1>5, <1>7, <2>2, <2>3 DEF g
<1>11. CASE rest # <<>>
  <2>1. g = WriteBlobs(h, rest, o + Len(s))
    BY <1>4, <1>11
  <2> HIDE DEF h
  <2>2. /\ h \in FileT /\ h.pending.data = <<>> /\ Stores(h.blocks, c1)
        /\ h.pending.offset <= Len(c1)
    BY <1>5, <1>7, FlushIs DEF h
  <2>3. Keeps(I, c1, rest, o + Len(s)) /\ Patched(c1, rest, o + Len(s)) = Patched(c, data, o)
    <3> DEFINE m == Len(s)
    <3>1. Len(data) <= m + Len(data) /\ m \in 0..Len(data)
      BY <1>0, <1>3
    <3>2. c1 = Patched(c, Slice(data, 0, m), o)
      BY <1>3
    <3> HIDE DEF m, c1
    <3>3. /\ Keeps(I, Patched(c, Slice(data, 0, m), o), Slice(data, m, Len(data)), o + m)
          /\ Patched(Patched(c, Slice(data, 0, m), o), Slice(data, m, Len(data)), o + m)
               = Patched(c, data, o)
      BY <1>0, <3>1, KeepsRest
    <3> QED
      BY <3>2, <3>3 DEF m
  <2>4. o + Len(s) \in 0..Len(c1)
    BY <1>0, <1>3, <1>8, LenIs DEF IsPatched
  <2> HIDE DEF c1, rest
  <2>5. /\ WriteBlobs(h, rest, o + Len(s)) \in FileT
        /\ HoldsEncoded(WriteBlobs(h, rest, o + Len(s)), Patched(c1, rest, o + Len(s)), I)
    BY <1>9, <2>2, <2>3, <2>4, WriteBlobsIs
  <2> QED
    BY <2>1, <2>3, <2>5 DEF g
<1> QED
  BY <1>10, <1>11

(* Reading one blob more *)
LEMMA ReadBlobIs ==
  ASSUME NEW c \in Bytes, NEW e \in BlobT, e.offset <= Len(c), NEW o \in Nat, NEW n \in Nat
  PROVE  ReadBlob(Slice(c, o, n), e, o, n) = Slice(Patched(c, e.data, e.offset), o, n)
<1> DEFINE D == e.data
           B == e.offset
           t == Slice(c, o, n)
           q == Patched(c, D, B)
           u == Slice(q, o, n)
           first == Larger(o, B)
           last == Smaller(o + n, B + Len(D))
           v == Slice(D, first - B, last - first)
           r == Patched(t, v, first - o)
<1>1. D \in Bytes /\ B \in Nat /\ Len(c) \in Nat /\ Len(D) \in Nat /\ B <= Len(c)
  BY LenIs DEF BlobT
<1> HIDE DEF D, B
<1>2. IsSlice(t, c, o, n)
  BY SliceIs
<1>3. IsPatched(q, c, D, B)
  BY <1>1, PatchedIs
<1>4. IsSlice(u, q, o, n)
  BY <1>3, SliceIs DEF IsPatched
<1>5. ReadBlob(t, e, o, n) = IF first < last /\ first <= o + Len(t) THEN r ELSE t
  BY DEF ReadBlob, D, B
<1>6. /\ first \in Nat /\ last \in Nat /\ o <= first /\ B <= first
      /\ first = o \/ first = B
      /\ last <= o + n /\ last <= B + Len(D)
      /\ last = o + n \/ last = B + Len(D)
  BY <1>1 DEF Larger, Smaller
<1>7. t \in Bytes /\ Len(t) \in Nat /\ u \in Bytes /\ Len(u) \in Nat
  BY <1>2, <1>4, LenIs DEF IsSlice
<1> HIDE DEF first, last, t, q, u
<1>8. /\ Len(t) = IF o + n <= Len(c) THEN n ELSE IF o <= Len(c) THEN Len(c) - o ELSE 0
      /\ Len(q) = IF Len(c) < B + Len(D) THEN B + Len(D) ELSE Len(c)
      /\ Len(u) = IF o + n <= Len(q) THEN n ELSE IF o <= Len(q) THEN Len(q) - o ELSE 0
  BY <1>2, <1>3, <1>4 DEF IsSlice, IsPatched
<1>9. ASSUME NEW i \in 1..Len(u)
      PROVE  u[i] = IF B < o + i /\ o + i <= B + Len(D) THEN D[o + i - B]
                    ELSE IF o + i <= Len(c) THEN c[o + i] ELSE 0
  <2>1. u[i] = q[o + i]
    BY <1>4 DEF IsSlice
  <2>2. o + i \in 1..Len(q)
    BY <1>1, <1>7, <1>8
  <2> DEFINE j == o + i
  <2> HIDE DEF j
  <2>3. j \in 1..Len(q)
    BY <2>2 DEF j
  <2>4. q[j] = IF B < j /\ j <= B + Len(D) THEN D[j - B] ELSE IF j <= Len(c) THEN c[j] ELSE 0
    BY <1>3, <2>3 DEF IsPatched
  <2> QED
    BY <1>1, <2>1, <2>4 DEF j
<1>10. CASE first < last /\ first <= o + Len(t)
  <2>1. /\ first - B \in Nat /\ last - first \in Nat /\ first - o \in Nat
        /\ first - B + (last - first) <= Len(D)
    BY <1>1, <1>6, <1>10
  <2>2. IsSlice(v, D, first - B, last - first)
    BY <1>1, <2>1, SliceIs
  <2>3. v \in Bytes /\ Len(v) = last - first
    BY <1>1, <2>1, <2>2 DEF IsSlice
  <2>4. IsPatched(r, t, v, first - o)
    BY <1>7, <2>1, <2>3, PatchedIs
  <2> HIDE DEF v, r
  <2>5. Len(r) = IF Len(t) < last - o THEN last - o ELSE Len(t)
    <3>1. first - o + Len(v) = last - o
      BY <1>6, <2>3
    <3> QED
      BY <2>4, <3>1 DEF IsPatched
  <2>6. Len(r) = Len(u)
    <3>1. CASE o + n <= Len(c)
      <4>1. Len(t) = n /\ last - o <= n
        BY <1>1, <1>6, <1>8, <3>1
      <4>2. Len(r) = n
        BY <1>1, <1>6, <2>5, <4>1
      <4>3. Len(u) = n
        BY <1>1, <1>8, <3>1
      <4> QED
        BY <4>2, <4>3
    <3>2. CASE o <= Len(c) /\ Len(c) < o + n
      <4>1. Len(t) = Len(c) - o
        BY <1>1, <1>8, <3>2
      <4>2. CASE Len(t) < last - o
        <5>1. Len(r) = last - o
          BY <2>5, <4>2
        <5>2. Len(c) < last
          BY <1>1, <1>6, <4>1, <4>2
        <5>3. Len(c) < B + Len(D)
          BY <1>1, <1>6, <5>2
        <5>4. Len(q) = B + Len(D)
          BY <1>1, <1>8, <5>3
        <5>5. Len(u) = IF o + n <= B + Len(D) THEN n ELSE B + Len(D) - o
          BY <1>1, <1>8, <3>2, <5>3, <5>4
        <5> QED
          BY <1>1, <1>6, <5>1, <5>5
      <4>3. CASE ~(Len(t) < last - o)
        <5>1. Len(r) = Len(c) - o
          BY <2>5, <4>1, <4>3
        <5>2. last <= Len(c)
          BY <1>1, <1>6, <4>1, <4>3
        <5>3. B + Len(D) <= Len(c)
          BY <1>1, <1>6, <3>2, <5>2
        <5>4. Len(q) = Len(c)
          BY <1>1, <1>8, <5>3
        <5> QED
          BY <1>1, <1>8, <3>2, <5>1, <5>4
      <4> QED
        BY <4>2, <4>3
    <3>3. CASE Len(c) < o
      BY <1>1, <1>6, <1>7, <1>8, <1>10, <2>5, <3>3
    <3> QED
      BY <3>1, <3>2, <3>3
  <2>7. ASSUME NEW i \in 1..Len(u)
        PROVE  r[i] = u[i]
    <3>1. r[i] = IF first - o < i /\ i <= first - o + Len(v) THEN v[i - (first - o)]
                 ELSE IF i <= Len(t) THEN t[i] ELSE 0
      BY <2>4, <2>6 DEF IsPatched
    <3>2. CASE first < o + i /\ o + i <= last
      <4>1. /\ first - o < i /\ i <= first - o + Len(v) /\ i - (first - o) \in 1..Len(v)
            /\ first - B + (i - (first - o)) = o + i - B
            /\ B < o + i /\ o + i <= B + Len(D)
        BY <1>1, <1>6, <1>7, <2>3, <3>2
      <4>2. v[i - (first - o)] = D[o + i - B]
        BY <2>2, <4>1 DEF IsSlice
      <4> QED
        BY <1>9, <3>1, <4>1, <4>2
    <3>3. CASE ~(first < o + i /\ o + i <= last)
      <4>1. /\ ~(first - o < i /\ i <= first - o + Len(v))
            /\ ~(B < o + i /\ o + i <= B + Len(D))
            /\ i \in 1..Len(t) /\ o + i <= Len(c)
        BY <1>1, <1>6, <1>7, <1>8, <1>10, <2>3, <2>5, <2>6, <3>3
      <4>2. t[i] = c[o + i]
        BY <1>2, <4>1 DEF IsSlice
      <4> QED
        BY <1>9, <3>1, <4>1, <4>2
    <3> QED
      BY <3>2, <3>3
  <2>8. r = u
    BY <1>7, <2>4, <2>6, <2>7, SameBytes DEF IsPatched
  <2> QED
    BY <1>5, <1>10, <2>8 DEF r, t, u, q, D, B
<1>11. CASE ~(first < last /\ first <= o + Len(t))
  <2>1. last <= first
    <3> SUFFICES ASSUME first < last, ~(first <= o + Len(t)) PROVE FALSE
      BY <1>6, <1>11
    <3>1. first = B /\ o + Len(t) < B /\ B < o + n
      BY <1>6, <1>7
    <3>2. CASE o + n <= Len(c)
      BY <1>1, <1>8, <3>1, <3>2
    <3>3. CASE o <= Len(c) /\ Len(c) < o + n
      BY <1>1, <1>8, <3>1, <3>3
    <3>4. CASE Len(c) < o
      BY <1>1, <1>7, <3>1, <3>4
    <3> QED
      BY <1>1, <3>2, <3>3, <3>4
  <2>2. Len(t) = Len(u)
    BY <1>1, <1>6, <1>7, <1>8, <2>1
  <2>3. ASSUME NEW i \in 1..Len(u)
        PROVE  t[i] = u[i]
    <3>1. ~(B < o + i /\ o + i <= B + Len(D)) /\ o + i <= Len(c) /\ t[i] = c[o + i]
      <4>1. ~(B < o + i /\ o + i <= B + Len(D)) /\ o + i <= Len(c)
        BY <1>1, <1>6, <1>7, <1>8, <2>1, <2>2
      <4> QED
        BY <1>2, <2>2, <4>1 DEF IsSlice
    <3> QED
      BY <1>9, <3>1
  <2>4. t = u
    BY <1>7, <2>2, <2>3, SameBytes
  <2> QED
    BY <1>5, <1>11, <2>4 DEF t, u, q, D, B
<1> QED
  BY <1>10, <1>11

(* Reading the blobs in the order of their writing gives what they store. *)
LEMMA EncodedReadIs ==
  ASSUME NEW blocks \in Seq(BlobT), NEW b, Stores(blocks, b), NEW o \in Nat, NEW n \in Nat
  PROVE  EncodedRead(blocks, o, n) = Slice(b, o, n)
<1> DEFINE m == Len(blocks)
           Is(g) == g = [i \in 0..m |->
                          IF i = 0 THEN <<>> ELSE ReadBlob(g[i - 1], blocks[i], o, n)]
<1>0. m \in Nat
  OBVIOUS
<1>1. PICK d : Stages(blocks, d) /\ d[m] = b
  BY DEF Stores
<1>2. EncodedRead(blocks, o, n) = (CHOOSE g : Is(g))[m]
  BY DEF EncodedRead
<1>3. ASSUME NEW i \in 1..m
      PROVE  ReadBlob(Slice(d[i - 1], o, n), blocks[i], o, n) = Slice(d[i], o, n)
  <2>1. /\ i - 1 \in 0..m /\ d[i - 1] \in Bytes /\ blocks[i] \in BlobT
        /\ blocks[i].offset <= Len(d[i - 1])
        /\ d[i] = Patched(d[i - 1], blocks[i].data, blocks[i].offset)
    BY <1>0, <1>1 DEF Stages
  <2> QED
    BY <2>1, ReadBlobIs
<1>4. Slice(d[0], o, n) = <<>>
  <2>1. <<>> \in Bytes /\ Len(<<>>) <= o /\ d[0] = <<>>
    BY <1>1 DEF Bytes, Stages
  <2> QED
    BY <2>1, SliceAll
<1>5. \E g : Is(g)
  <2> DEFINE g == [i \in 0..m |-> Slice(d[i], o, n)]
  <2>1. \A i \in 0..m : Slice(d[i], o, n)
             = IF i = 0 THEN <<>> ELSE ReadBlob(g[i - 1], blocks[i], o, n)
    <3> TAKE i \in 0..m
    <3>1. i # 0 => i \in 1..m /\ i - 1 \in 0..m
      BY <1>0
    <3> QED
      BY <1>3, <1>4, <3>1
  <2>2. Is(g)
    BY <2>1
  <2> QED
    BY <2>2
<1> DEFINE h == CHOOSE g : Is(g)
<1>6. Is(h)
  <2> HIDE DEF Is
  <2> QED
    BY <1>5
<1> HIDE DEF h
<1> DEFINE S == {i \in 0..m : h[i] = Slice(d[i], o, n)}
<1>7. 0 \in S
  BY <1>0, <1>4, <1>6
<1>8. ASSUME NEW i \in 0..(m - 1), i \in S
      PROVE  i + 1 \in S
  <2>1. i + 1 \in 1..m /\ i + 1 \in 0..m /\ i + 1 # 0 /\ i + 1 - 1 = i
    BY <1>0
  <2>2. h[i + 1] = ReadBlob(h[i], blocks[i + 1], o, n)
    BY <1>6, <2>1
  <2> QED
    BY <1>3, <1>8, <2>1, <2>2
<1>9. m \in S
  <2> HIDE DEF S, m
  <2>1. \A i \in 0..m : i \in S
    BY <1>0, <1>7, <1>8, InductionUpTo
  <2> QED
    BY <1>0, <2>1
<1> QED
  BY <1>1, <1>2, <1>9 DEF h

(* The length of what blobs store is the largest of their ends. *)
LEMMA StoresLength ==
  ASSUME NEW blocks \in Seq(BlobT), NEW b, Stores(blocks, b)
  PROVE  LET end(i) == blocks[i].offset + Len(blocks[i].data) IN
         /\ \A i \in 1..Len(blocks) : end(i) \in Nat /\ end(i) <= Len(b)
         /\ Len(b) = 0 \/ \E i \in 1..Len(blocks) : end(i) = Len(b)
<1> DEFINE m == Len(blocks)
           end(i) == blocks[i].offset + Len(blocks[i].data)
<1>0. m \in Nat
  OBVIOUS
<1>1. PICK d : Stages(blocks, d) /\ d[m] = b
  BY DEF Stores
<1>2. ASSUME NEW i \in 0..m
      PROVE  d[i] \in Bytes /\ Len(d[i]) \in Nat
  BY <1>1, LenIs DEF Stages
<1>3. ASSUME NEW i \in 1..m
      PROVE  /\ end(i) \in Nat
             /\ Len(d[i]) = IF Len(d[i - 1]) < end(i) THEN end(i) ELSE Len(d[i - 1])
  <2>1. /\ blocks[i].offset \in Nat /\ blocks[i].data \in Bytes
        /\ i - 1 \in 0..m /\ i \in 0..m
    <3>1. blocks[i] \in BlobT
      OBVIOUS
    <3> QED
      BY <1>0, <3>1 DEF BlobT
  <2>2. d[i] = Patched(d[i - 1], blocks[i].data, blocks[i].offset)
    BY <1>1 DEF Stages
  <2>3. IsPatched(d[i], d[i - 1], blocks[i].data, blocks[i].offset)
    BY <1>2, <2>1, <2>2, PatchedIs
  <2>4. Len(blocks[i].data) \in Nat
    BY <2>1, LenIs
  <2> QED
    BY <2>1, <2>3, <2>4 DEF IsPatched
<1> HIDE DEF end
<1> DEFINE S == {i \in 0..m : /\ \A j \in 1..i : end(j) <= Len(d[i])
                              /\ Len(d[i]) = 0 \/ \E j \in 1..i : end(j) = Len(d[i])}
<1>4. 0 \in S
  <2>1. Len(d[0]) = 0
    BY <1>1 DEF Stages
  <2> QED
    BY <1>0, <2>1
<1>5. ASSUME NEW i \in 0..(m - 1), i \in S
      PROVE  i + 1 \in S
  <2>1. i + 1 \in 1..m /\ i + 1 \in 0..m /\ i \in 0..m /\ i + 1 - 1 = i
    BY <1>0
  <2>2. Len(d[i]) \in Nat /\ Len(d[i + 1]) \in Nat /\ end(i + 1) \in Nat
    BY <1>2, <1>3, <2>1
  <2>3. Len(d[i + 1]) = IF Len(d[i]) < end(i + 1) THEN end(i + 1) ELSE Len(d[i])
    BY <1>3, <2>1
  <2>4. ASSUME NEW j \in 1..(i + 1) PROVE end(j) <= Len(d[i + 1])
    <3>1. CASE j = i + 1
      BY <2>2, <2>3, <3>1
    <3>2. CASE j # i + 1
      <4>1. j \in 1..i /\ j \in 1..m
        BY <2>1, <3>2
      <4>2. end(j) <= Len(d[i]) /\ end(j) \in Nat
        BY <1>3, <1>5, <4>1
      <4> QED
        BY <2>2, <2>3, <4>2
    <3> QED
      BY <3>1, <3>2
  <2>5. Len(d[i + 1]) = 0 \/ \E j \in 1..(i + 1) : end(j) = Len(d[i + 1])
    <3>1. i + 1 \in 1..(i + 1) /\ 1..i \subseteq 1..(i + 1)
      BY <2>1
    <3> QED
      BY <1>5, <2>3, <3>1
  <2> QED
    BY <2>1, <2>4, <2>5
<1>6. m \in S
  <2> HIDE DEF S, m
  <2>1. \A i \in 0..m : i \in S
    BY <1>0, <1>4, <1>5, InductionUpTo
  <2> QED
    BY <1>0, <2>1
<1>7. /\ \A i \in 1..m : end(i) \in Nat /\ end(i) <= Len(b)
      /\ Len(b) = 0 \/ \E i \in 1..m : end(i) = Len(b)
  BY <1>1, <1>3, <1>6
<1> QED
  BY <1>7 DEF end

LEMMA EncodedSizeIs ==
  ASSUME NEW f \in FileT, NEW c, NEW I, HoldsEncoded(f, c, I)
  PROVE  EncodedSize(f) = Len(c)
<1> DEFINE bs == Append(f.blocks, f.pending)
           end(b) == b.offset + Len(b.data)
           ends == {0} \union {end(b) : b \in ToSet(bs)}
           Is(e) == e \in ends /\ \A d \in ends : d <= e
<1>0. f.blocks \in Seq(BlobT) /\ f.pending \in BlobT /\ f.pending.data \in Bytes
      /\ f.pending.offset \in Nat /\ c \in Bytes /\ Len(c) \in Nat
  BY FileFields, EncodedBytes, LenIs
<1>1. bs \in Seq(BlobT) /\ Stores(bs, c)
  <2>1. PICK b : /\ Stores(f.blocks, b) /\ f.pending.offset <= Len(b)
                 /\ c = Patched(b, f.pending.data, f.pending.offset)
    BY DEF HoldsEncoded
  <2>2. b \in Bytes /\ f.pending.offset \in 0..Len(b)
    BY <1>0, <2>1, StoresBytes, LenIs
  <2>3. f.pending = [offset |-> f.pending.offset, data |-> f.pending.data]
    BY <1>0 DEF BlobT
  <2> DEFINE po == f.pending.offset
             pd == f.pending.data
             a == Append(f.blocks, [offset |-> po, data |-> pd])
  <2> HIDE DEF po, pd
  <2>4. a \in Seq(BlobT) /\ Stores(a, Patched(b, pd, po))
    BY <1>0, <2>1, <2>2, StoresAppend DEF po, pd
  <2> QED
    BY <2>1, <2>3, <2>4 DEF po, pd
<1>2. EncodedSize(f) = CHOOSE e \in ends : \A d \in ends : d <= e
  BY DEF EncodedSize
<1>3. ToSet(bs) = {bs[i] : i \in 1..Len(bs)}
  BY <1>1 DEF ToSet
<1> HIDE DEF bs
<1>4. /\ \A i \in 1..Len(bs) : end(bs[i]) \in Nat /\ end(bs[i]) <= Len(c)
      /\ Len(c) = 0 \/ \E i \in 1..Len(bs) : end(bs[i]) = Len(c)
  BY <1>1, StoresLength
<1> HIDE DEF end
<1>5. \A d \in ends : d \in Nat /\ d <= Len(c)
  BY <1>0, <1>3, <1>4
<1>6. Len(c) \in ends
  BY <1>3, <1>4
<1> HIDE DEF ends
<1> DEFINE e == CHOOSE x : Is(x)
<1>7. Is(Len(c))
  BY <1>5, <1>6
<1>8. Is(e)
  <2> HIDE DEF Is
  <2> QED
    BY <1>7
<1> HIDE DEF e
<1>9. e = Len(c)
  BY <1>0, <1>5, <1>6, <1>8
<1> QED
  BY <1>2, <1>9 DEF e

-----------------------------------------------------------------------------
(***************************************************************************)
(* A file of any kind holds a sequence of bytes.  For a Server_File, it is *)
(* the one that everybody will see once everything is pushed and pulled;   *)
(* the program sees the first VisibleSize bytes of it.                     *)
(***************************************************************************)
Kinds == {"memory", "encoded", "server"}

(* c is the head H, the rest of R, and D *)
IsServed(c, H, R, D) ==
  /\ Len(c) = Len(R) + Len(D)
  /\ \A i \in 1..Len(c) : c[i] = IF i <= HeadSize THEN H[i]
                                 ELSE IF i <= Len(R) THEN R[i] ELSE D[i - Len(R)]

HoldsServer(f, c) ==
  /\ Len(f.head) = HeadSize
  /\ HeadSize <= f.tail_offset /\ f.tail_offset <= Len(f.remote)
  /\ f.data # <<>> => f.tail_offset = Len(f.remote)
  /\ IsServed(c, f.head, f.remote, f.data)

Holds(kind, f, c, I) ==
  /\ f \in FileT /\ c \in Bytes
  /\ kind = "memory" => f.data = c
  /\ kind = "encoded" => HoldsEncoded(f, c, I)
  /\ kind = "server" => HoldsServer(f, c)

VisibleSize(kind, f, c) == IF kind = "server" THEN f.tail_offset + Len(f.data) ELSE Len(c)

(* t is a part of c from o on, of n bytes at most. *)
IsPart(t, c, o, n) ==
  /\ t \in Bytes /\ Len(t) <= n
  /\ Len(t) = 0 \/ o + Len(t) <= Len(c)
  /\ \A i \in 1..Len(t) : t[i] = c[o + i]

LEMMA SliceIsPart ==
  ASSUME NEW c \in Bytes, NEW o \in Nat, NEW n \in Nat
  PROVE  /\ IsPart(Slice(c, o, n), c, o, n)
         /\ Len(Slice(c, o, n)) = n \/ Len(c) <= o + Len(Slice(c, o, n))
<1>1. IsSlice(Slice(c, o, n), c, o, n) /\ Len(c) \in Nat
  BY SliceIs, LenIs
<1> HIDE DEF Slice
<1> QED
  BY <1>1 DEF IsSlice, IsPart

LEMMA PartIsSlice ==
  ASSUME NEW c \in Bytes, NEW o \in Nat, NEW n \in Nat, NEW t, IsPart(t, c, o, n),
         Len(t) = n \/ Len(c) <= o + Len(t)
  PROVE  t = Slice(c, o, n)
<1>1. IsSlice(Slice(c, o, n), c, o, n) /\ Len(c) \in Nat
  BY SliceIs, LenIs
<1>2. t \in Bytes /\ Len(t) \in Nat
  BY LenIs DEF IsPart
<1>3. Len(t) = Len(Slice(c, o, n))
  BY <1>1, <1>2 DEF IsSlice, IsPart
<1>4. \A i \in 1..Len(t) : t[i] = Slice(c, o, n)[i]
  BY <1>1, <1>3 DEF IsSlice, IsPart
<1> QED
  BY <1>1, <1>2, <1>3, <1>4, SameBytes DEF IsSlice

(* A part, and one that follows it *)
LEMMA PartsInTwo ==
  ASSUME NEW c \in Bytes, NEW o \in Nat, NEW n \in Nat, NEW t, IsPart(t, c, o, n),
         NEW u, IsPart(u, c, o + Len(t), n - Len(t))
  PROVE  /\ IsPart(t \o u, c, o, n)
         /\ Len(t \o u) = Len(t) + Len(u)
<1> DEFINE w == t \o u
<1>1. /\ t \in Bytes /\ u \in Bytes /\ Len(t) \in Nat /\ Len(u) \in Nat /\ Len(c) \in Nat
      /\ Len(t) <= n /\ Len(u) <= n - Len(t)
      /\ Len(t) = 0 \/ o + Len(t) <= Len(c)
      /\ Len(u) = 0 \/ o + Len(t) + Len(u) <= Len(c)
  BY LenIs DEF IsPart
<1>2. IsCat(w, t, u)
  BY <1>1, CatIs
<1> HIDE DEF w
<1>3. ASSUME NEW i \in 1..Len(w)
      PROVE  w[i] = c[o + i]
  <2>1. w[i] = (IF i <= Len(t) THEN t[i] ELSE u[i - Len(t)]) /\ i \in Nat
    BY <1>1, <1>2, LenIs DEF IsCat
  <2>2. CASE i <= Len(t)
    <3>1. i \in 1..Len(t)
      BY <2>1, <2>2, <1>1
    <3> QED
      BY <2>1, <2>2, <3>1 DEF IsPart
  <2>3. CASE ~(i <= Len(t))
    <3>1. i - Len(t) \in 1..Len(u) /\ o + Len(t) + (i - Len(t)) = o + i
      BY <1>1, <1>2, <2>1, <2>3 DEF IsCat
    <3>2. u[i - Len(t)] = c[o + Len(t) + (i - Len(t))]
      BY <3>1 DEF IsPart
    <3> QED
      BY <2>1, <2>3, <3>1, <3>2
  <2> QED
    BY <2>2, <2>3
<1>4. w \in Bytes /\ Len(w) = Len(t) + Len(u)
  BY <1>2 DEF IsCat
<1>5. Len(w) <= n /\ (Len(w) = 0 \/ o + Len(w) <= Len(c))
  BY <1>1, <1>4
<1>6. IsPart(w, c, o, n)
  BY <1>3, <1>4, <1>5 DEF IsPart
<1> QED
  BY <1>4, <1>6 DEF w

(* A part of a part *)
LEMMA PartOfPart ==
  ASSUME NEW c, NEW o \in Nat, NEW n \in Nat, NEW t, IsPart(t, c, o, n),
         NEW p \in Nat, NEW m \in Nat
  PROVE  IsPart(Slice(t, p, m), c, o + p, m)
<1>1. t \in Bytes /\ Len(t) \in Nat
  BY LenIs DEF IsPart
<1>2. IsSlice(Slice(t, p, m), t, p, m) /\ Len(Slice(t, p, m)) \in Nat
  BY <1>1, SliceIs, LenIs DEF IsSlice
<1>3. Len(Slice(t, p, m)) <= m /\ (Len(Slice(t, p, m)) = 0 \/ p + Len(Slice(t, p, m)) <= Len(t))
  BY <1>1, <1>2 DEF IsSlice
<1>4. ASSUME NEW i \in 1..Len(Slice(t, p, m))
      PROVE  Slice(t, p, m)[i] = c[o + p + i]
  <2>1. p + i \in 1..Len(t) /\ o + (p + i) = o + p + i
    BY <1>1, <1>2, <1>3
  <2> QED
    BY <1>2, <2>1 DEF IsSlice, IsPart
<1>5. Len(Slice(t, p, m)) = 0 \/ o + p + Len(Slice(t, p, m)) <= Len(c)
  <2>1. CASE Len(t) = 0
    BY <1>1, <1>2, <1>3, <2>1
  <2>2. CASE Len(t) # 0
    <3>1. o + Len(t) <= Len(c)
      BY <2>2 DEF IsPart
    <3>2. ASSUME Len(Slice(t, p, m)) # 0 PROVE o + p + Len(Slice(t, p, m)) <= o + Len(t)
      BY <1>1, <1>2, <1>3, <3>2
    <3> QED
      BY <1>1, <1>2, <3>1, <3>2
  <2> QED
    BY <2>1, <2>2
<1> QED
  BY <1>2, <1>3, <1>4, <1>5 DEF IsPart, IsSlice

LEMMA HoldsIs ==
  ASSUME NEW kind, NEW f, NEW c, NEW I, Holds(kind, f, c, I), kind \in Kinds
  PROVE  /\ f \in FileT /\ c \in Bytes /\ Len(c) \in Nat
         /\ f.data \in Bytes /\ Len(f.data) \in Nat /\ f.tail_offset \in Nat
         /\ VisibleSize(kind, f, c) \in Nat /\ VisibleSize(kind, f, c) <= Len(c)
<1>1. /\ f \in FileT /\ c \in Bytes /\ Len(c) \in Nat
      /\ f.data \in Bytes /\ Len(f.data) \in Nat /\ f.tail_offset \in Nat
      /\ f.remote \in Bytes /\ Len(f.remote) \in Nat
  BY FileFields, LenIs DEF Holds
<1>2. CASE kind = "server"
  <2>1. /\ f.tail_offset <= Len(f.remote) /\ Len(c) = Len(f.remote) + Len(f.data)
        /\ VisibleSize(kind, f, c) = f.tail_offset + Len(f.data)
    BY <1>2 DEF Holds, HoldsServer, IsServed, VisibleSize
  <2>2. f.tail_offset + Len(f.data) \in Nat /\ f.tail_offset + Len(f.data) <= Len(c)
    <3> DEFINE r == Len(f.remote)
               d == Len(f.data)
               l == Len(c)
               o == f.tail_offset
    <3>1. r \in Nat /\ d \in Nat /\ l \in Nat /\ o \in Nat /\ o <= r /\ l = r + d
      BY <1>1, <2>1
    <3> HIDE DEF r, d, l, o
    <3>2. o + d \in Nat /\ o + d <= l
      BY <3>1
    <3> QED
      BY <3>2 DEF o, d, l
  <2> HIDE DEF VisibleSize
  <2> QED
    BY <1>1, <2>1, <2>2
<1>3. CASE kind # "server"
  BY <1>1, <1>3 DEF VisibleSize
<1> QED
  BY <1>1, <1>2, <1>3

(* The three parts of a Server_File: H is its head, R what the server has, D  *)
(* the tail, which starts at T.                                              *)
IsServerRead(t, H, R, D, T, o, n) ==
  t = IF o < HeadSize THEN Slice(H, o, n)
      ELSE IF o < T THEN Slice(R, o, n) ELSE Slice(D, o - T, n)

LEMMA ServerReadIs ==
  ASSUME NEW H \in Bytes, NEW R \in Bytes, NEW D \in Bytes, NEW T \in Nat, NEW c \in Bytes,
         Len(H) = HeadSize, HeadSize <= T, T <= Len(R), Len(D) = 0 \/ T = Len(R),
         IsServed(c, H, R, D),
         NEW o \in Nat, NEW n \in Nat, NEW t,
         IsServerRead(t, H, R, D, T, o, n)
  PROVE  IsPart(t, c, o, n) /\ (n > 0 /\ o < T + Len(D) => Len(t) > 0)
<1>0. /\ Len(H) \in Nat /\ Len(R) \in Nat /\ Len(D) \in Nat /\ Len(c) \in Nat
      /\ HeadSize \in Nat
  BY LenIs, SizeAssumption
<1>4. Len(c) = Len(R) + Len(D)
  BY DEF IsServed
<1>5. \A i \in 1..Len(c) : c[i] = IF i <= HeadSize THEN H[i]
                                  ELSE IF i <= Len(R) THEN R[i] ELSE D[i - Len(R)]
  BY DEF IsServed
<1>6. t = IF o < HeadSize THEN Slice(H, o, n)
          ELSE IF o < T THEN Slice(R, o, n) ELSE Slice(D, o - T, n)
  BY DEF IsServerRead
<1>1. CASE o < HeadSize
  <2>1. IsPart(t, H, o, n) /\ (Len(t) = n \/ HeadSize <= o + Len(t))
    BY <1>1, <1>6, SliceIsPart
  <2>2. /\ t \in Bytes /\ Len(t) \in Nat /\ Len(t) <= n
        /\ Len(t) = 0 \/ o + Len(t) <= HeadSize
        /\ \A i \in 1..Len(t) : t[i] = H[o + i]
    BY <2>1, LenIs DEF IsPart
  <2>3. ASSUME NEW i \in 1..Len(t) PROVE t[i] = c[o + i]
    <3>1. o + i <= HeadSize /\ o + i \in 1..Len(c)
      BY <1>0, <1>4, <2>2
    <3> QED
      BY <1>5, <2>2, <3>1
  <2>4. Len(t) = 0 \/ o + Len(t) <= Len(c)
    BY <1>0, <1>4, <2>2
  <2>5. n > 0 => Len(t) > 0
    BY <1>0, <1>4, <1>1, <2>1, <2>2
  <2> QED
    BY <2>2, <2>3, <2>4, <2>5 DEF IsPart
<1>2. CASE HeadSize <= o /\ o < T
  <2>0. t = Slice(R, o, n)
    BY <1>6, <1>0, <1>4, <1>2
  <2>1. IsPart(t, R, o, n) /\ (Len(t) = n \/ Len(R) <= o + Len(t))
    BY <2>0, SliceIsPart
  <2>2. /\ t \in Bytes /\ Len(t) \in Nat /\ Len(t) <= n
        /\ Len(t) = 0 \/ o + Len(t) <= Len(R)
        /\ \A i \in 1..Len(t) : t[i] = R[o + i]
    BY <2>1, LenIs DEF IsPart
  <2>3. ASSUME NEW i \in 1..Len(t) PROVE t[i] = c[o + i]
    <3>1. ~(o + i <= HeadSize) /\ o + i <= Len(R) /\ o + i \in 1..Len(c)
      BY <1>0, <1>4, <1>2, <2>2
    <3> QED
      BY <1>5, <2>2, <3>1
  <2>4. Len(t) = 0 \/ o + Len(t) <= Len(c)
    BY <1>0, <1>4, <2>2
  <2>5. n > 0 => Len(t) > 0
    BY <1>0, <1>4, <1>2, <2>1, <2>2
  <2> QED
    BY <2>2, <2>3, <2>4, <2>5 DEF IsPart
<1>3. CASE T <= o
  <2> DEFINE p == o - T
  <2>0. t = Slice(D, p, n) /\ p \in Nat /\ o = T + p
    BY <1>6, <1>0, <1>4, <1>3
  <2> HIDE DEF p
  <2>1. IsPart(t, D, p, n) /\ (Len(t) = n \/ Len(D) <= p + Len(t))
    BY <2>0, SliceIsPart
  <2>2. /\ t \in Bytes /\ Len(t) \in Nat /\ Len(t) <= n
        /\ Len(t) = 0 \/ p + Len(t) <= Len(D)
        /\ \A i \in 1..Len(t) : t[i] = D[p + i]
    BY <2>1, LenIs DEF IsPart
  <2>3. ASSUME NEW i \in 1..Len(t) PROVE t[i] = c[o + i]
    <3>1. p + i <= Len(D) /\ T = Len(R)
      BY <1>0, <1>4, <2>0, <2>2
    <3>2. /\ ~(o + i <= HeadSize) /\ ~(o + i <= Len(R)) /\ o + i \in 1..Len(c)
          /\ o + i - Len(R) = p + i
      BY <1>0, <1>4, <2>0, <3>1
    <3>3. c[o + i] = D[o + i - Len(R)]
      BY <1>5, <3>2
    <3> QED
      BY <2>2, <3>2, <3>3
  <2>4. Len(t) = 0 \/ o + Len(t) <= Len(c)
    <3> DEFINE r == Len(R)
               d == Len(D)
               l == Len(c)
               k == Len(t)
    <3>1. /\ r \in Nat /\ d \in Nat /\ l \in Nat /\ k \in Nat /\ l = r + d
          /\ k = 0 \/ p + k <= d
          /\ d = 0 \/ T = r
      BY <1>0, <1>4, <2>2
    <3> HIDE DEF r, d, l, k
    <3>2. k = 0 \/ o + k <= l
      BY <2>0, <3>1
    <3> QED
      BY <3>2 DEF k, l
  <2>5. n > 0 /\ o < T + Len(D) => Len(t) > 0
    BY <1>0, <1>4, <2>0, <2>1, <2>2
  <2> QED
    BY <2>2, <2>3, <2>4, <2>5 DEF IsPart
<1> QED
  BY <1>0, <1>4, <1>1, <1>2, <1>3

(* A read gives a part of what the file holds, from where it asks, which is  *)
(* not empty before the end.                                                 *)
LEMMA PreadIs ==
  ASSUME NEW f, NEW c, NEW I, Kind \in Kinds, Holds(Kind, f, c, I), NEW o \in Nat, NEW n \in Nat
  PROVE  /\ IsPart(pread(f, o, n), c, o, n)
         /\ n > 0 /\ o < VisibleSize(Kind, f, c) => Len(pread(f, o, n)) > 0
         /\ Kind # "server" => pread(f, o, n) = Slice(c, o, n)
<1> DEFINE t == pread(f, o, n)
<1>0. /\ f \in FileT /\ c \in Bytes /\ Len(c) \in Nat
      /\ f.data \in Bytes /\ f.head \in Bytes /\ f.remote \in Bytes /\ f.tail_offset \in Nat
      /\ Len(f.data) \in Nat /\ Len(f.head) \in Nat /\ Len(f.remote) \in Nat
      /\ HeadSize \in Nat
  BY HoldsIs, FileFields, LenIs, SizeAssumption
<1>1. ASSUME t = Slice(c, o, n), Kind # "server"
      PROVE  /\ IsPart(t, c, o, n)
             /\ n > 0 /\ o < VisibleSize(Kind, f, c) => Len(t) > 0
  <2>1. IsPart(t, c, o, n) /\ (Len(t) = n \/ Len(c) <= o + Len(t))
    BY <1>0, <1>1, SliceIsPart
  <2>2. Len(t) \in Nat /\ VisibleSize(Kind, f, c) = Len(c)
    BY <1>1, <2>1, LenIs DEF IsPart, VisibleSize
  <2> QED
    BY <1>0, <2>1, <2>2
<1>2. CASE Kind = "memory"
  <2>1. t = Slice(c, o, n)
    BY <1>2 DEF pread, Holds
  <2> QED
    BY <1>1, <1>2, <2>1
<1>3. CASE Kind = "encoded"
  <2>1. /\ flush_write_buffer(f) \in FileT /\ Stores(flush_write_buffer(f).blocks, c)
    BY <1>0, <1>3, FlushIs DEF Holds
  <2>2. EncodedRead(flush_write_buffer(f).blocks, o, n) = Slice(c, o, n)
    BY <2>1, FileFields, EncodedReadIs
  <2>3. t = Slice(c, o, n)
    BY <1>3, <2>2 DEF pread
  <2> QED
    BY <1>1, <1>3, <2>3
<1>4. CASE Kind = "server"
  <2>0. /\ HoldsServer(f, c)
        /\ VisibleSize(Kind, f, c) = f.tail_offset + Len(f.data)
    BY <1>4 DEF Holds, VisibleSize
  <2>1. IsServerRead(t, f.head, f.remote, f.data, f.tail_offset, o, n)
    <3>1. t = ServerFileRead(f, o, n)
      BY <1>4 DEF pread
    <3> QED
      BY <1>0, <3>1 DEF ServerFileRead, IsServerRead
  <2>2. /\ Len(f.head) = HeadSize /\ HeadSize <= f.tail_offset
        /\ f.tail_offset <= Len(f.remote)
        /\ Len(f.data) = 0 \/ f.tail_offset = Len(f.remote)
        /\ IsServed(c, f.head, f.remote, f.data)
    <3>1. f.data = <<>> => Len(f.data) = 0
      OBVIOUS
    <3> QED
      BY <2>0, <3>1 DEF HoldsServer
  <2> HIDE DEF t
  <2>3. IsPart(t, c, o, n) /\ (n > 0 /\ o < f.tail_offset + Len(f.data) => Len(t) > 0)
    BY <1>0, <2>1, <2>2, ServerReadIs
  <2> QED
    BY <1>4, <2>0, <2>3 DEF t
<1> QED
  BY <1>2, <1>3, <1>4 DEF Kinds

(* Reading does not change what a file holds. *)
LEMMA AfterReadIs ==
  ASSUME NEW f, NEW c, NEW I, Kind \in Kinds, Holds(Kind, f, c, I)
  PROVE  /\ Holds(Kind, AfterRead(f), c, I)
         /\ VisibleSize(Kind, AfterRead(f), c) = VisibleSize(Kind, f, c)
         /\ AfterRead(AfterRead(f)) = AfterRead(f)
         /\ Kind # "encoded" => AfterRead(f) = f
<1>1. CASE Kind = "encoded"
  <2> DEFINE g == flush_write_buffer(f)
  <2>1. /\ g \in FileT /\ HoldsEncoded(g, c, I) /\ g.pending.data = <<>>
    BY <1>1, FlushIs DEF Holds
  <2>2. AfterRead(f) = g /\ AfterRead(g) = flush_write_buffer(g)
    BY <1>1 DEF AfterRead
  <2> HIDE DEF g
  <2>3. flush_write_buffer(g) = g
    BY <2>1 DEF flush_write_buffer
  <2> QED
    BY <1>1, <2>1, <2>2, <2>3 DEF Holds, VisibleSize
<1>2. CASE Kind # "encoded"
  BY <1>2 DEF AfterRead
<1> QED
  BY <1>1, <1>2

(* get_size *)
LEMMA SizeIs ==
  ASSUME NEW f, NEW c, NEW I, Kind \in Kinds, Holds(Kind, f, c, I)
  PROVE  get_size(f) = VisibleSize(Kind, f, c)
<1>1. Kind = "encoded" => EncodedSize(f) = Len(c)
  BY EncodedSizeIs DEF Holds
<1> QED
  BY <1>1 DEF Kinds, get_size, VisibleSize, Holds

(* full_pread gives all that there is. *)
LEMMA FullPreadIs ==
  ASSUME NEW f, NEW c, NEW I, Kind \in Kinds, Holds(Kind, f, c, I), NEW o \in Nat, NEW n \in Nat,
         o + n <= VisibleSize(Kind, f, c) \/ Kind # "server"
  PROVE  full_pread(f, o, n) = Slice(c, o, n)
<1> DEFINE V == VisibleSize(Kind, f, c)
           A == {d \in Bytes : IsPart(d, c, o, n)}
           step == [d \in A |-> ReadMore(f, o, n, d)]
           Is(g) == g = [i \in 0..n |-> IF i = 0 THEN <<>> ELSE ReadMore(f, o, n, g[i - 1])]
           h == CHOOSE g : Is(g)
<1>0. c \in Bytes /\ Len(c) \in Nat /\ V \in Nat /\ V <= Len(c)
  BY HoldsIs
<1>1. full_pread(f, o, n) = h[n]
  BY DEF full_pread
<1>2. <<>> \in A
  BY <1>0 DEF IsPart, Bytes
<1>3. ASSUME NEW d \in A
      PROVE  /\ ReadMore(f, o, n, d) \in A
             /\ Len(ReadMore(f, o, n, d)) \in Nat /\ Len(d) \in Nat /\ Len(d) <= n
             /\ Len(d) <= Len(ReadMore(f, o, n, d))
             /\ Len(d) < n /\ o + Len(d) < V => Len(d) + 1 <= Len(ReadMore(f, o, n, d))
  <2>1. Len(d) \in Nat /\ o + Len(d) \in Nat /\ n - Len(d) \in Nat /\ Len(d) <= n
    BY LenIs DEF IsPart
  <2> DEFINE t == pread(f, o + Len(d), n - Len(d))
  <2>2. /\ IsPart(t, c, o + Len(d), n - Len(d))
        /\ n - Len(d) > 0 /\ o + Len(d) < V => Len(t) > 0
    BY <2>1, PreadIs
  <2>3. ReadMore(f, o, n, d) = d \o t
    BY DEF ReadMore
  <2> HIDE DEF t, V
  <2>4. Len(t) \in Nat
    BY <2>2, LenIs DEF IsPart
  <2>5. IsPart(d \o t, c, o, n) /\ Len(d \o t) = Len(d) + Len(t)
    BY <1>0, <2>1, <2>2, PartsInTwo
  <2>6. d \o t \in Bytes
    BY <2>5 DEF IsPart
  <2>7. /\ Len(d) + Len(t) \in Nat /\ Len(d) <= Len(d) + Len(t)
        /\ Len(d) < n /\ o + Len(d) < V => Len(d) + 1 <= Len(d) + Len(t)
    BY <1>0, <2>1, <2>2, <2>4
  <2> QED
    BY <2>1, <2>3, <2>5, <2>6, <2>7
<1>4. step \in [A -> A]
  BY <1>3
<1>5. \E g : Is(g)
  <2> HIDE DEF A, step
  <2>1. PICK g \in [0..n -> A] : g[0] = <<>> /\ \A i \in 1..n : g[i] = step[g[i - 1]]
    <3>1. n \in Nat /\ <<>> \in A /\ step \in [A -> A]
      BY <1>2, <1>4
    <3>2. HasIterates(n, A, <<>>, step)
      BY <3>1, Iterates
    <3> QED
      BY <3>2 DEF HasIterates
  <2>2. \A i \in 0..n : g[i] = IF i = 0 THEN <<>> ELSE ReadMore(f, o, n, g[i - 1])
    <3> TAKE i \in 0..n
    <3>1. CASE i = 0
      BY <2>1, <3>1
    <3>2. CASE i # 0
      <4>1. i \in 1..n /\ i - 1 \in 0..n /\ g[i - 1] \in A
        BY <2>1, <3>2
      <4> QED
        BY <2>1, <3>2, <4>1 DEF step
    <3> QED
      BY <3>1, <3>2
  <2>3. Is(g)
    BY <2>1, <2>2
  <2> QED
    BY <2>3
<1>6. Is(h)
  <2> HIDE DEF Is
  <2> QED
    BY <1>5
<1> HIDE DEF h
<1> DEFINE S == {i \in 0..n : h[i] \in A /\ (i <= Len(h[i]) \/ V <= o + Len(h[i]))}
<1>7. 0 \in S
  <2>1. h[0] = <<>> /\ Len(<<>>) = 0
    BY <1>6
  <2> QED
    BY <1>2, <2>1
<1>8. ASSUME NEW i \in 0..(n - 1), i \in S
      PROVE  i + 1 \in S
  <2>1. i + 1 \in 0..n /\ i + 1 # 0 /\ i + 1 - 1 = i
    OBVIOUS
  <2>2. h[i + 1] = ReadMore(f, o, n, h[i])
    BY <1>6, <2>1
  <2>3. h[i] \in A /\ (i <= Len(h[i]) \/ V <= o + Len(h[i]))
    BY <1>8
  <2> HIDE DEF A, V
  <2>4. /\ h[i + 1] \in A
        /\ Len(h[i + 1]) \in Nat /\ Len(h[i]) \in Nat /\ Len(h[i]) <= n
        /\ Len(h[i]) <= Len(h[i + 1])
        /\ Len(h[i]) < n /\ o + Len(h[i]) < V => Len(h[i]) + 1 <= Len(h[i + 1])
    BY <1>3, <2>2, <2>3
  <2>5. i + 1 <= Len(h[i + 1]) \/ V <= o + Len(h[i + 1])
    <3> DEFINE a == Len(h[i])
               b == Len(h[i + 1])
    <3>1. a \in Nat /\ b \in Nat /\ a <= n /\ a <= b /\ (a < n /\ o + a < V => a + 1 <= b)
      BY <2>4
    <3>2. i \in Nat /\ i + 1 <= n /\ o \in Nat /\ V \in Nat /\ n \in Nat
      BY <1>0
    <3>3. i <= a \/ V <= o + a
      BY <2>3
    <3> HIDE DEF a, b
    <3>4. i + 1 <= b \/ V <= o + b
      BY <3>1, <3>2, <3>3
    <3> QED
      BY <3>4 DEF b
  <2> QED
    BY <2>1, <2>4, <2>5
<1>9. n \in S
  <2> HIDE DEF S
  <2>1. \A i \in 0..n : i \in S
    BY <1>7, <1>8, InductionUpTo
  <2> QED
    BY <2>1
<1>10. IsPart(h[n], c, o, n) /\ Len(h[n]) \in Nat /\ (n <= Len(h[n]) \/ V <= o + Len(h[n]))
  BY <1>9, LenIs
<1>11. Len(h[n]) = n \/ Len(c) <= o + Len(h[n])
  <2>1. Kind # "server" => V = Len(c)
    BY DEF VisibleSize
  <2> HIDE DEF V
  <2> QED
    BY <1>0, <1>10, <2>1 DEF IsPart, V
<1>12. h[n] = Slice(c, o, n)
  BY <1>0, <1>10, <1>11, PartIsSlice
<1> QED
  BY <1>1, <1>12

(* Writing at the end *)
LEMMA PatchedAtEnd ==
  ASSUME NEW s \in Bytes, NEW d \in Bytes
  PROVE  Joined(s, d, Patched(s, d, Len(s)))
<1> DEFINE t == Patched(s, d, Len(s))
           u == s \o d
<1>1. Len(s) \in Nat /\ Len(d) \in Nat
  BY LenIs
<1>2. IsPatched(t, s, d, Len(s)) /\ IsCat(u, s, d)
  BY <1>1, PatchedIs, CatIs
<1> HIDE DEF t, u
<1>3. t \in Bytes /\ u \in Bytes /\ Len(t) = Len(s) + Len(d) /\ Len(u) = Len(s) + Len(d)
  BY <1>1, <1>2 DEF IsPatched, IsCat
<1>4. ASSUME NEW i \in 1..Len(t)
      PROVE  t[i] = u[i]
  <2>1. i \in 1..Len(u) /\ i \in Nat
    BY <1>3
  <2>2. u[i] = IF i <= Len(s) THEN s[i] ELSE d[i - Len(s)]
    BY <1>2, <2>1 DEF IsCat
  <2>3. t[i] = IF Len(s) < i /\ i <= Len(s) + Len(d) THEN d[i - Len(s)]
               ELSE IF i <= Len(s) THEN s[i] ELSE 0
    BY <1>2 DEF IsPatched
  <2>4. i <= Len(s) + Len(d) /\ (Len(s) < i <=> ~(i <= Len(s)))
    BY <1>1, <1>3, <2>1
  <2> QED
    BY <2>2, <2>3, <2>4
<1>5. t = u
  BY <1>3, <1>4, SameBytes
<1> QED
  BY <1>5 DEF Joined, t, u

(* copy_to copies all that there is. *)
LEMMA CopyIs ==
  ASSUME NEW f, NEW c, NEW I, Kind \in Kinds, Holds(Kind, f, c, I),
         VisibleSize(Kind, f, c) = Len(c), NEW n \in Nat \ {0}
  PROVE  copy_to(f, n) = c
<1> DEFINE m == Len(c)
           A == {d \in Bytes : IsPart(d, c, 0, m)}
           step == [d \in A |-> CopyMore(f, n, d)]
           Is(g) == g = [i \in 0..m |-> IF i = 0 THEN <<>> ELSE CopyMore(f, n, g[i - 1])]
           h == CHOOSE g : Is(g)
<1>0. c \in Bytes /\ m \in Nat /\ VisibleSize(Kind, f, c) = m
  BY HoldsIs
<1>1. copy_to(f, n) = h[m]
  <2>1. get_size(f) = m
    BY SizeIs
  <2> HIDE DEF m
  <2> QED
    BY <2>1 DEF copy_to
<1> HIDE DEF m
<1>2. <<>> \in A
  BY <1>0 DEF IsPart, Bytes
<1>3. ASSUME NEW d \in A
      PROVE  /\ CopyMore(f, n, d) \in A
             /\ Len(CopyMore(f, n, d)) \in Nat /\ Len(d) \in Nat /\ Len(d) <= m
             /\ Len(d) <= Len(CopyMore(f, n, d))
             /\ Len(d) < m => Len(d) + 1 <= Len(CopyMore(f, n, d))
  <2>1. d \in Bytes /\ Len(d) \in Nat /\ 0 + Len(d) = Len(d) /\ m - Len(d) \in Nat /\ Len(d) <= m
    BY <1>0, LenIs DEF IsPart
  <2> DEFINE t == pread(f, Len(d), n)
  <2>2. IsPart(t, c, Len(d), n) /\ (Len(d) < m => Len(t) > 0)
    BY <1>0, <2>1, PreadIs
  <2>3. CopyMore(f, n, d) = Patched(d, t, Len(d))
    BY DEF CopyMore
  <2> HIDE DEF t
  <2>4. t \in Bytes /\ Len(t) \in Nat /\ (Len(t) = 0 \/ Len(d) + Len(t) <= m)
    BY <2>2, LenIs DEF IsPart, m
  <2>5. IsPart(t, c, 0 + Len(d), m - Len(d))
    <3>1. Len(t) <= m - Len(d)
      BY <1>0, <2>1, <2>4
    <3> QED
      BY <2>1, <2>2, <3>1 DEF IsPart
  <2>6. IsPart(d \o t, c, 0, m) /\ Len(d \o t) = Len(d) + Len(t)
    BY <1>0, <2>1, <2>5, PartsInTwo
  <2>7. CopyMore(f, n, d) = d \o t
    BY <2>1, <2>3, <2>4, PatchedAtEnd DEF Joined
  <2>8. d \o t \in Bytes
    BY <2>6 DEF IsPart
  <2>9. /\ Len(d) + Len(t) \in Nat /\ Len(d) <= Len(d) + Len(t)
        /\ Len(d) < m => Len(d) + 1 <= Len(d) + Len(t)
    BY <2>1, <2>2, <2>4
  <2> QED
    BY <2>1, <2>6, <2>7, <2>8, <2>9
<1>4. step \in [A -> A]
  BY <1>3
<1>5. \E g : Is(g)
  <2> HIDE DEF A, step
  <2>1. PICK g \in [0..m -> A] : g[0] = <<>> /\ \A i \in 1..m : g[i] = step[g[i - 1]]
    <3>1. m \in Nat /\ <<>> \in A /\ step \in [A -> A]
      BY <1>0, <1>2, <1>4
    <3>2. HasIterates(m, A, <<>>, step)
      BY <3>1, Iterates
    <3> QED
      BY <3>2 DEF HasIterates
  <2>2. \A i \in 0..m : g[i] = IF i = 0 THEN <<>> ELSE CopyMore(f, n, g[i - 1])
    <3> TAKE i \in 0..m
    <3>1. CASE i = 0
      BY <2>1, <3>1
    <3>2. CASE i # 0
      <4>1. i \in 1..m /\ i - 1 \in 0..m /\ g[i - 1] \in A
        BY <1>0, <2>1, <3>2
      <4> QED
        BY <2>1, <3>2, <4>1 DEF step
    <3> QED
      BY <3>1, <3>2
  <2>3. Is(g)
    BY <2>1, <2>2
  <2> QED
    BY <2>3
<1>6. Is(h)
  <2> HIDE DEF Is
  <2> QED
    BY <1>5
<1> HIDE DEF h
<1> DEFINE S == {i \in 0..m : h[i] \in A /\ i <= Len(h[i])}
<1>7. 0 \in S
  <2>1. h[0] = <<>> /\ Len(<<>>) = 0
    BY <1>0, <1>6
  <2> QED
    BY <1>0, <1>2, <2>1
<1>8. ASSUME NEW i \in 0..(m - 1), i \in S
      PROVE  i + 1 \in S
  <2>1. i + 1 \in 0..m /\ i + 1 # 0 /\ i + 1 - 1 = i
    BY <1>0
  <2>2. h[i + 1] = CopyMore(f, n, h[i])
    BY <1>0, <1>6, <2>1
  <2>3. h[i] \in A /\ i <= Len(h[i])
    BY <1>8
  <2> HIDE DEF A
  <2>4. /\ h[i + 1] \in A
        /\ Len(h[i + 1]) \in Nat /\ Len(h[i]) \in Nat /\ Len(h[i]) <= m
        /\ Len(h[i]) <= Len(h[i + 1])
        /\ Len(h[i]) < m => Len(h[i]) + 1 <= Len(h[i + 1])
    BY <1>3, <2>2, <2>3
  <2>5. i + 1 <= Len(h[i + 1])
    BY <1>0, <2>3, <2>4
  <2> QED
    BY <2>1, <2>4, <2>5
<1>9. m \in S
  <2> HIDE DEF S
  <2>1. \A i \in 0..m : i \in S
    BY <1>0, <1>7, <1>8, InductionUpTo
  <2> QED
    BY <1>0, <2>1
<1>10. IsPart(h[m], c, 0, m) /\ Len(h[m]) = m
  BY <1>0, <1>9, LenIs DEF IsPart
<1>11. h[m] = c
  <2>1. h[m] = Slice(c, 0, m)
    BY <1>0, <1>10, PartIsSlice
  <2> QED
    BY <1>0, <2>1, SliceAll DEF m
<1> QED
  BY <1>1, <1>11

(* A write to a file of any kind is that of its bytes.  To a Server_File, it  *)
(* is in its head, or at its end, when nothing is left to pull.              *)
MayPwrite(kind, f, c, data, o) ==
  kind = "server" =>
    \/ o < HeadSize /\ o + Len(data) <= HeadSize
    \/ f.tail_offset = Len(f.remote) /\ f.tail_offset <= o

(* The file after a write to its head: R and D are not changed. *)
LEMMA ServedHead ==
  ASSUME NEW H \in Bytes, NEW R \in Bytes, NEW D \in Bytes, NEW c \in Bytes,
         Len(H) = HeadSize, HeadSize <= Len(R), IsServed(c, H, R, D),
         NEW d \in Bytes, NEW o \in Nat, o + Len(d) <= HeadSize
  PROVE  /\ IsServed(Patched(c, d, o), Patched(H, d, o), R, D)
         /\ Patched(H, d, o) \in Bytes /\ Len(Patched(H, d, o)) = HeadSize
         /\ Len(Patched(c, d, o)) = Len(c)
<1> DEFINE e == Patched(c, d, o)
           G == Patched(H, d, o)
<1>0. /\ Len(R) \in Nat /\ Len(D) \in Nat /\ Len(c) \in Nat /\ Len(d) \in Nat /\ HeadSize \in Nat
  BY LenIs, SizeAssumption
<1>1. IsPatched(e, c, d, o) /\ IsPatched(G, H, d, o)
  BY PatchedIs
<1> HIDE DEF e, G
<1>2. Len(c) = Len(R) + Len(D)
  BY DEF IsServed
<1>3. Len(c) >= HeadSize
  BY <1>0, <1>2
<1>4. Len(e) = Len(c) /\ Len(G) = HeadSize /\ G \in Bytes
  BY <1>0, <1>1, <1>3 DEF IsPatched
<1>5. ASSUME NEW i \in 1..Len(e)
      PROVE  e[i] = IF i <= HeadSize THEN G[i] ELSE IF i <= Len(R) THEN R[i] ELSE D[i - Len(R)]
  <2>1. e[i] = IF o < i /\ i <= o + Len(d) THEN d[i - o] ELSE c[i]
    BY <1>1, <1>4 DEF IsPatched
  <2>2. c[i] = IF i <= HeadSize THEN H[i] ELSE IF i <= Len(R) THEN R[i] ELSE D[i - Len(R)]
    BY <1>4 DEF IsServed
  <2>3. CASE i <= HeadSize
    <3>1. i \in 1..Len(G)
      BY <1>0, <1>4, <2>3
    <3>2. G[i] = IF o < i /\ i <= o + Len(d) THEN d[i - o] ELSE H[i]
      BY <1>1, <1>4, <2>3, <3>1 DEF IsPatched
    <3> QED
      BY <2>1, <2>2, <2>3, <3>2
  <2>4. CASE ~(i <= HeadSize)
    <3>1. ~(o < i /\ i <= o + Len(d))
      BY <1>0, <1>4, <2>4
    <3> QED
      BY <2>1, <2>2, <2>4, <3>1
  <2> QED
    BY <2>3, <2>4
<1>6. IsServed(e, G, R, D)
  BY <1>2, <1>4, <1>5 DEF IsServed
<1> QED
  BY <1>4, <1>6 DEF e, G

(* The file after a write to its tail *)
LEMMA ServedTail ==
  ASSUME NEW H \in Bytes, NEW R \in Bytes, NEW D \in Bytes, NEW c \in Bytes,
         HeadSize <= Len(R), IsServed(c, H, R, D),
         NEW d \in Bytes, NEW o \in Nat, Len(R) <= o, o <= Len(c)
  PROVE  /\ IsServed(Patched(c, d, o), H, R, Patched(D, d, o - Len(R)))
         /\ Patched(D, d, o - Len(R)) \in Bytes
<1> DEFINE e == Patched(c, d, o)
           p == o - Len(R)
           E == Patched(D, d, p)
<1>0. /\ Len(R) \in Nat /\ Len(D) \in Nat /\ Len(c) \in Nat /\ Len(d) \in Nat /\ HeadSize \in Nat
  BY LenIs, SizeAssumption
<1>1. p \in Nat /\ o = Len(R) + p
  BY <1>0
<1> HIDE DEF p
<1>2. IsPatched(e, c, d, o) /\ IsPatched(E, D, d, p)
  BY <1>1, PatchedIs
<1> HIDE DEF e, E
<1>3. Len(c) = Len(R) + Len(D)
  BY DEF IsServed
<1>4. /\ Len(e) = IF Len(c) < o + Len(d) THEN o + Len(d) ELSE Len(c)
      /\ Len(E) = IF Len(D) < p + Len(d) THEN p + Len(d) ELSE Len(D)
      /\ E \in Bytes /\ Len(e) \in Nat /\ Len(E) \in Nat
  BY <1>2, LenIs DEF IsPatched
<1>5. Len(e) = Len(R) + Len(E)
  <2> DEFINE r == Len(R)
             l == Len(c)
             k == Len(d)
             j == Len(D)
  <2>1. /\ r \in Nat /\ l \in Nat /\ k \in Nat /\ j \in Nat /\ l = r + j /\ o = r + p
        /\ Len(e) = IF l < o + k THEN o + k ELSE l
        /\ Len(E) = IF j < p + k THEN p + k ELSE j
    BY <1>0, <1>1, <1>3, <1>4
  <2> HIDE DEF r, l, k, j
  <2>2. Len(e) = r + Len(E)
    BY <1>1, <2>1
  <2> QED
    BY <2>2 DEF r
<1>6. ASSUME NEW i \in 1..Len(e)
      PROVE  e[i] = IF i <= HeadSize THEN H[i] ELSE IF i <= Len(R) THEN R[i] ELSE E[i - Len(R)]
  <2>0. i \in Nat
    BY <1>4
  <2>1. e[i] = IF o < i /\ i <= o + Len(d) THEN d[i - o] ELSE IF i <= Len(c) THEN c[i] ELSE 0
    BY <1>2 DEF IsPatched
  <2>2. i <= Len(c) =>
          c[i] = IF i <= HeadSize THEN H[i] ELSE IF i <= Len(R) THEN R[i] ELSE D[i - Len(R)]
    BY <1>0, <1>4 DEF IsServed
  <2>3. CASE i <= Len(R)
    <3>1. ~(o < i) /\ i <= Len(c)
      BY <1>0, <1>1, <1>3, <2>0, <2>3
    <3> QED
      BY <2>1, <2>2, <2>3, <3>1
  <2>4. CASE ~(i <= Len(R))
    <3> DEFINE j == i - Len(R)
    <3>1. j \in 1..Len(E) /\ ~(i <= HeadSize)
      BY <1>0, <1>4, <1>5, <2>0, <2>4
    <3>2. E[j] = IF p < j /\ j <= p + Len(d) THEN d[j - p] ELSE IF j <= Len(D) THEN D[j] ELSE 0
      BY <1>2, <3>1 DEF IsPatched
    <3>3. /\ (o < i) <=> (p < j)
          /\ (i <= o + Len(d)) <=> (j <= p + Len(d))
          /\ i - o = j - p
          /\ (i <= Len(c)) <=> (j <= Len(D))
      BY <1>0, <1>1, <1>3, <2>0
    <3> HIDE DEF j
    <3>4. e[i] = E[j]
      <4>1. i <= Len(c) => c[i] = D[j]
        BY <2>2, <2>4, <3>1 DEF j
      <4> QED
        BY <2>1, <3>2, <3>3, <4>1
    <3> QED
      BY <2>4, <3>1, <3>4 DEF j
  <2> QED
    BY <2>3, <2>4
<1>7. IsServed(e, H, R, E)
  BY <1>5, <1>6 DEF IsServed
<1> QED
  BY <1>4, <1>7 DEF e, E, p

LEMMA PwriteIs ==
  ASSUME NEW f, NEW c, NEW I, Kind \in Kinds, Holds(Kind, f, c, I),
         NEW data \in Bytes, NEW o \in 0..Len(c),
         Kind = "encoded" => Keeps(I, c, data, o), MayPwrite(Kind, f, c, data, o)
  PROVE  LET g == pwrite(f, data, o) IN
         /\ Holds(Kind, g, Patched(c, data, o), I)
         /\ VisibleSize(Kind, g, Patched(c, data, o))
              = IF Kind = "server" /\ o < HeadSize THEN VisibleSize(Kind, f, c)
                ELSE Len(Patched(c, data, o))
         /\ Kind = "server" => g.tail_offset = f.tail_offset /\ g.remote = f.remote
         /\ Kind = "server" /\ o < HeadSize => g.data = f.data
<1> DEFINE g == pwrite(f, data, o)
           e == Patched(c, data, o)
           H == f.head
           R == f.remote
           D == f.data
           T == f.tail_offset
<1>0. /\ f \in FileT /\ c \in Bytes /\ Len(c) \in Nat /\ o \in Nat
      /\ H \in Bytes /\ R \in Bytes /\ D \in Bytes /\ T \in Nat
      /\ Len(H) \in Nat /\ Len(R) \in Nat /\ Len(D) \in Nat /\ HeadSize \in Nat
  <2>1. f \in FileT /\ c \in Bytes /\ Len(c) \in Nat
    BY HoldsIs
  <2>2. H \in Bytes /\ R \in Bytes /\ D \in Bytes /\ T \in Nat
    BY <2>1, FileFields
  <2> HIDE DEF H, R, D, T
  <2> QED
    BY <2>1, <2>2, LenIs, SizeAssumption
<1>1. e \in Bytes
  BY <1>0, PatchedIs DEF IsPatched
<1> HIDE DEF e
<1>2. CASE Kind = "memory"
  <2>1. g = [f EXCEPT !.data = e] /\ f.data = c
    BY <1>2 DEF pwrite, Holds, e
  <2> HIDE DEF g
  <2>2. g \in FileT /\ g.data = e
    BY <1>0, <1>1, <2>1 DEF FileT
  <2>3. Holds(Kind, g, e, I)
    BY <1>1, <1>2, <2>2 DEF Holds
  <2> QED
    BY <1>2, <2>3 DEF VisibleSize, g, e
<1>3. CASE Kind = "encoded"
  <2>1. g = EncodedPwrite(f, data, o)
    BY <1>3 DEF pwrite
  <2>2. HoldsEncoded(f, c, I)
    BY <1>3 DEF Holds
  <2>3. /\ EncodedPwrite(f, data, o) \in FileT
        /\ HoldsEncoded(EncodedPwrite(f, data, o), Patched(c, data, o), I)
    BY <1>0, <1>3, <2>2, EncodedPwriteIs
  <2> HIDE DEF g
  <2>4. Holds(Kind, g, e, I)
    BY <1>1, <1>3, <2>1, <2>3 DEF Holds, e
  <2> QED
    BY <1>3, <2>4 DEF VisibleSize, g, e
<1>4. CASE Kind = "server"
  <2>1. HoldsServer(f, c)
    BY <1>4 DEF Holds
  <2>2. /\ Len(H) = HeadSize /\ HeadSize <= T /\ T <= Len(R) /\ (D # <<>> => T = Len(R))
        /\ IsServed(c, H, R, D)
    BY <2>1 DEF HoldsServer
  <2>3. Len(c) = Len(R) + Len(D) /\ HeadSize <= Len(R)
    BY <1>0, <2>2 DEF IsServed
  <2>4. CASE o < HeadSize
    <3>1. o + Len(data) <= HeadSize
      BY <1>0, <1>4, <2>2, <2>4 DEF MayPwrite
    <3>2. g = [f EXCEPT !.head = Patched(H, data, o)]
      BY <1>0, <1>4, <2>4 DEF pwrite
    <3> DEFINE G == Patched(H, data, o)
    <3>3. IsServed(e, G, R, D) /\ G \in Bytes /\ Len(G) = HeadSize /\ Len(e) = Len(c)
      <4> HIDE DEF H, R, D, T
      <4>1. /\ IsServed(Patched(c, data, o), Patched(H, data, o), R, D)
            /\ Patched(H, data, o) \in Bytes /\ Len(Patched(H, data, o)) = HeadSize
            /\ Len(Patched(c, data, o)) = Len(c)
        BY <1>0, <2>2, <2>3, <3>1, ServedHead
      <4> QED
        BY <4>1 DEF e
    <3> HIDE DEF g, G
    <3>4. /\ g \in FileT /\ g.head = G /\ g.remote = R /\ g.data = D /\ g.tail_offset = T
      BY <1>0, <3>2, <3>3 DEF FileT, G
    <3>5. HoldsServer(g, e)
      BY <2>2, <3>3, <3>4 DEF HoldsServer
    <3>6. Holds(Kind, g, e, I)
      BY <1>1, <1>4, <3>4, <3>5 DEF Holds
    <3>7. VisibleSize(Kind, g, e) = VisibleSize(Kind, f, c)
      BY <1>4, <3>4 DEF VisibleSize
    <3> QED
      BY <1>4, <2>4, <3>4, <3>6, <3>7 DEF g, e
  <2>5. CASE HeadSize <= o
    <3>0. ~(o < HeadSize) /\ o >= HeadSize
      BY <1>0, <2>5
    <3>1. T = Len(R) /\ T <= o
      BY <1>4, <3>0 DEF MayPwrite
    <3>2. g = [f EXCEPT !.data = Patched(D, data, o - T)]
      BY <1>4, <3>0 DEF pwrite
    <3> DEFINE E == Patched(D, data, o - T)
    <3>3. IsServed(e, H, R, E) /\ E \in Bytes
      <4> HIDE DEF H, R, D, T
      <4>1. /\ IsServed(Patched(c, data, o), H, R, Patched(D, data, o - Len(R)))
            /\ Patched(D, data, o - Len(R)) \in Bytes
        <5>1. Len(R) <= o /\ o <= Len(c)
          BY <1>0, <3>1
        <5> QED
          BY <1>0, <2>2, <2>3, <5>1, ServedTail
      <4> QED
        BY <3>1, <4>1 DEF e
    <3> HIDE DEF g, E
    <3>4. /\ g \in FileT /\ g.head = H /\ g.remote = R /\ g.data = E /\ g.tail_offset = T
      BY <1>0, <3>2, <3>3 DEF FileT, E
    <3>5. HoldsServer(g, e)
      BY <2>2, <3>1, <3>3, <3>4 DEF HoldsServer
    <3>6. Holds(Kind, g, e, I)
      BY <1>1, <1>4, <3>4, <3>5 DEF Holds
    <3>7. VisibleSize(Kind, g, e) = Len(e)
      BY <1>4, <3>1, <3>3, <3>4 DEF VisibleSize, IsServed
    <3> QED
      BY <1>4, <3>0, <3>4, <3>6, <3>7 DEF g, e
  <2> QED
    BY <1>0, <2>4, <2>5
<1> QED
  BY <1>2, <1>3, <1>4 DEF Kinds

(* More sequences that it may hold are no less. *)
LEMMA HoldsMore ==
  ASSUME NEW kind, NEW f, NEW c, NEW I, NEW J, Holds(kind, f, c, I), I \subseteq J
  PROVE  Holds(kind, f, c, J)
<1>1. HoldsEncoded(f, c, I) => HoldsEncoded(f, c, J)
  BY DEF HoldsEncoded, Keeps
<1> QED
  BY <1>1 DEF Holds

-----------------------------------------------------------------------------
(***************************************************************************)
(* File_Buffer.  Buffered: the file holds c, and the program sees e, which *)
(* is c under what is in the buffer; Fetching: the buffer has bytes of the *)
(* file that come next; those after L, which the other process may have    *)
(* overwritten, are not looked at.  In both, p is the position.            *)
(***************************************************************************)
BufferT == [position : Nat, data : Bytes, index : Nat, reading : BOOLEAN, overrun : BOOLEAN]

Seen(f, c) == Slice(c, 0, VisibleSize(Kind, f, c))

UpToDateFile(f) == f.tail_offset = Len(f.remote)

Buffered(x, c, e, I, p) ==
  /\ Holds(Kind, x.f, c, I)
  /\ x.b \in BufferT /\ ~x.b.reading /\ ~x.b.overrun
  /\ x.b.index = Len(x.b.data)
  /\ p = x.b.position + x.b.index
  /\ x.b.position <= VisibleSize(Kind, x.f, c)
  /\ e = Patched(Seen(x.f, c), x.b.data, x.b.position)
  /\ Kind = "encoded" => Keeps(I, c, x.b.data, x.b.position)
  /\ Kind = "server" /\ x.b.data # <<>> =>
       UpToDateFile(x.f) /\ x.f.tail_offset <= x.b.position

Ahead(b, c, p, L) ==
  \A k \in 1..(Len(b.data) - b.index) :
    p + k <= Len(c) /\ (p + k <= L => b.data[b.index + k] = c[p + k])

Fetching(x, c, e, I, p, L) ==
  /\ Holds(Kind, x.f, c, I)
  /\ x.b \in BufferT /\ ~x.b.overrun
  /\ x.b.index <= Len(x.b.data) /\ (~x.b.reading => x.b.data = <<>>)
  /\ p \in Nat /\ p = get_position(x.b) /\ p <= VisibleSize(Kind, x.f, c)
  /\ e = Seen(x.f, c)
  /\ Ahead(x.b, c, p, L)

BufferInv(x, c, e, I, p, L) ==
  \/ Buffered(x, c, e, I, p) /\ x.b.index < BufferSize
  \/ Fetching(x, c, e, I, p, L) /\ x.b.reading

SameServer(f, g) == Kind = "server" => g.tail_offset = f.tail_offset /\ g.remote = f.remote

LEMMA BufferFields ==
  ASSUME NEW b \in BufferT
  PROVE  /\ b.position \in Nat /\ b.data \in Bytes /\ b.index \in Nat
         /\ b.reading \in BOOLEAN /\ b.overrun \in BOOLEAN /\ Len(b.data) \in Nat
<1>1. b.data \in Bytes
  BY DEF BufferT
<1> QED
  BY <1>1, LenIs DEF BufferT

LEMMA BothFields == \A b, f : Both(b, f).b = b /\ Both(b, f).f = f
BY DEF Both

(* What the program sees *)
LEMMA SeenIs ==
  ASSUME NEW f, NEW c, NEW I, Kind \in Kinds, Holds(Kind, f, c, I)
  PROVE  /\ Seen(f, c) \in Bytes
         /\ Len(Seen(f, c)) = VisibleSize(Kind, f, c)
         /\ \A i \in 1..VisibleSize(Kind, f, c) : Seen(f, c)[i] = c[i]
         /\ VisibleSize(Kind, f, c) = Len(c) => Seen(f, c) = c
         /\ Kind = "server" /\ UpToDateFile(f) => VisibleSize(Kind, f, c) = Len(c)
         /\ Kind # "server" => VisibleSize(Kind, f, c) = Len(c)
<1> DEFINE V == VisibleSize(Kind, f, c)
<1>1. c \in Bytes /\ Len(c) \in Nat /\ V \in Nat /\ V <= Len(c)
  BY HoldsIs
<1>2. Kind = "server" /\ UpToDateFile(f) => V = Len(c)
  BY DEF Holds, HoldsServer, IsServed, UpToDateFile, VisibleSize
<1>3. Kind # "server" => V = Len(c)
  BY DEF VisibleSize
<1> HIDE DEF V
<1>4. IsSlice(Slice(c, 0, V), c, 0, V)
  BY <1>1, SliceIs
<1>5. Seen(f, c) = Slice(c, 0, V)
  BY DEF Seen, V
<1>6. V = Len(c) => Slice(c, 0, V) = c
  BY <1>1, SliceAll
<1>7. Len(Slice(c, 0, V)) = V /\ Slice(c, 0, V) \in Bytes
  BY <1>1, <1>4 DEF IsSlice
<1>8. \A i \in 1..V : Slice(c, 0, V)[i] = c[i]
  <2>1. \A i \in 1..V : 0 + i = i
    BY <1>1
  <2> QED
    BY <1>4, <1>7, <2>1 DEF IsSlice
<1> QED
  BY <1>2, <1>3, <1>5, <1>6, <1>7, <1>8 DEF V

(* What the program sees of a file and of its buffer *)
LEMMA BufferedIs ==
  ASSUME NEW x, NEW c, NEW e, NEW I, NEW p, Kind \in Kinds, Buffered(x, c, e, I, p)
  PROVE  /\ e \in Bytes /\ Len(e) \in Nat /\ p \in 0..Len(e)
         /\ x.b.data = <<>> => e = Seen(x.f, c)
         /\ x.b.data # <<>> => Seen(x.f, c) = c /\ VisibleSize(Kind, x.f, c) = Len(c)
         /\ Len(e) >= VisibleSize(Kind, x.f, c)
<1> DEFINE s == Seen(x.f, c)
           V == VisibleSize(Kind, x.f, c)
           d == x.b.data
           o == x.b.position
<1>1. /\ Holds(Kind, x.f, c, I) /\ o \in Nat /\ d \in Bytes /\ Len(d) \in Nat
      /\ p = o + Len(d) /\ o <= V /\ e = Patched(s, d, o)
      /\ Kind = "server" /\ d # <<>> => UpToDateFile(x.f)
  BY BufferFields DEF Buffered
<1>2. /\ s \in Bytes /\ Len(s) = V /\ V \in Nat
      /\ V = Len(c) => s = c
      /\ Kind = "server" /\ UpToDateFile(x.f) => V = Len(c)
      /\ Kind # "server" => V = Len(c)
  BY <1>1, SeenIs, HoldsIs
<1> HIDE DEF s, V, d, o
<1>3. IsPatched(e, s, d, o)
  BY <1>1, <1>2, PatchedIs
<1>4. e \in Bytes /\ Len(e) \in Nat /\ p \in 0..Len(e) /\ V <= Len(e)
  BY <1>1, <1>2, <1>3, LenIs DEF IsPatched
<1>5. d = <<>> => e = s
  BY <1>1, <1>2, PatchedNothing
<1>6. d # <<>> => s = c /\ V = Len(c)
  BY <1>1, <1>2
<1> QED
  BY <1>4, <1>5, <1>6 DEF s, V, d, o

(* write_buffer *)
LEMMA WriteBufferIs ==
  ASSUME NEW x, NEW c, NEW e, NEW I, NEW p, Kind \in Kinds, Buffered(x, c, e, I, p),
         x.b.data # <<>>
  PROVE  LET y == write_buffer(x) IN
         /\ Buffered(y, e, e, I, p) /\ y.b.index = 0 /\ y.b.data = <<>>
         /\ y.b.position = p /\ SameServer(x.f, y.f)
<1> DEFINE d == x.b.data
           o == x.b.position
           y == write_buffer(x)
           g == pwrite(x.f, d, o)
<1>1. /\ Holds(Kind, x.f, c, I) /\ x.b \in BufferT /\ ~x.b.reading /\ ~x.b.overrun
      /\ o \in Nat /\ d \in Bytes /\ Len(d) \in Nat
      /\ p = o + Len(d) /\ o <= VisibleSize(Kind, x.f, c)
      /\ e = Patched(Seen(x.f, c), d, o)
      /\ Kind = "encoded" => Keeps(I, c, d, o)
      /\ Kind = "server" => UpToDateFile(x.f) /\ x.f.tail_offset <= o
  BY BufferFields DEF Buffered
<1>2. /\ c \in Bytes /\ Len(c) \in Nat /\ VisibleSize(Kind, x.f, c) = Len(c)
      /\ Seen(x.f, c) = c /\ e \in Bytes /\ Len(e) \in Nat /\ p \in 0..Len(e)
  BY <1>1, BufferedIs, HoldsIs
<1>3. o \in 0..Len(c) /\ MayPwrite(Kind, x.f, c, d, o)
  BY <1>1, <1>2 DEF MayPwrite, UpToDateFile
<1>4. Kind = "server" => ~(o < HeadSize)
  <2>1. Kind = "server" => HeadSize <= x.f.tail_offset
    BY <1>1 DEF Holds, HoldsServer
  <2>2. x.f.tail_offset \in Nat /\ HeadSize \in Nat
    BY <1>1, HoldsIs, SizeAssumption
  <2> QED
    BY <1>1, <2>1, <2>2
<1>5. /\ y.b = [x.b EXCEPT !.position = @ + Len(d), !.data = <<>>, !.index = 0]
      /\ y.f = g
  BY DEF write_buffer, Both
<1> HIDE DEF d, o, y, g
<1>6. /\ Holds(Kind, g, e, I)
      /\ VisibleSize(Kind, g, e) = Len(e)
      /\ SameServer(x.f, g)
  <2>1. e = Patched(c, d, o)
    BY <1>1, <1>2
  <2>2. /\ Holds(Kind, g, Patched(c, d, o), I)
        /\ VisibleSize(Kind, g, Patched(c, d, o))
             = IF Kind = "server" /\ o < HeadSize THEN VisibleSize(Kind, x.f, c)
               ELSE Len(Patched(c, d, o))
        /\ Kind = "server" => g.tail_offset = x.f.tail_offset /\ g.remote = x.f.remote
    BY <1>1, <1>3, PwriteIs DEF g
  <2> QED
    BY <1>4, <2>1, <2>2 DEF SameServer
<1>7. /\ y.b \in BufferT /\ ~y.b.reading /\ ~y.b.overrun
      /\ y.b.index = 0 /\ y.b.data = <<>> /\ y.b.position = p
  <2>1. <<>> \in Bytes /\ p \in Nat
    BY <1>1 DEF Bytes
  <2>2. y.b = [x.b EXCEPT !.position = p, !.data = <<>>, !.index = 0]
    BY <1>1, <1>5 DEF o
  <2>3. y.b \in BufferT
    <3> DEFINE a == x.b
               b == y.b
    <3>1. a \in BufferT /\ b = [a EXCEPT !.position = p, !.data = <<>>, !.index = 0]
      BY <1>1, <2>2
    <3> HIDE DEF a, b
    <3>2. b \in BufferT
      BY <2>1, <3>1 DEF BufferT
    <3> QED
      BY <3>2 DEF b
  <2>4. y.b.index = 0 /\ y.b.data = <<>> /\ y.b.position = p
    BY <1>1, <2>1, <2>2 DEF BufferT
  <2>5. y.b.reading = x.b.reading /\ y.b.overrun = x.b.overrun
    BY <1>1, <2>1, <2>2 DEF BufferT
  <2> QED
    BY <1>1, <2>3, <2>4, <2>5
<1>8. Seen(g, e) = e
  BY <1>6, SeenIs
<1>9. Patched(e, <<>>, p) = e
  BY <1>2, PatchedNothing
<1>10. Kind = "encoded" => Keeps(I, e, <<>>, p)
  <2>1. Kind = "encoded" => e \in I
    BY <1>6, EncodedBytes DEF Holds
  <2>2. <<>> \in Bytes /\ Len(<<>>) = 0
    BY DEF Bytes
  <2>3. \A k \in 0..Len(<<>>) : Slice(<<>>, 0, k) = <<>>
    BY <2>2, SliceAll
  <2> QED
    BY <1>9, <2>1, <2>3 DEF Keeps
<1>11. Buffered(y, e, e, I, p)
  <2>1. Len(<<>>) = 0 /\ p = p + 0 /\ p <= Len(e)
    BY <1>2
  <2> QED
    BY <1>5, <1>6, <1>7, <1>8, <1>9, <1>10, <2>1 DEF Buffered
<1> QED
  BY <1>5, <1>6, <1>7, <1>11 DEF y

(* Nothing in the buffer, at p *)
Clean(x, e, I, p) ==
  /\ \E c : Buffered(x, c, e, I, p)
  /\ x.b.data = <<>> /\ x.b.index = 0 /\ x.b.position = p

(* Nothing in the buffer *)
LEMMA CleanIs ==
  ASSUME NEW b \in BufferT, NEW f, NEW c, NEW I, NEW p \in Nat, Kind \in Kinds,
         Holds(Kind, f, c, I), p <= VisibleSize(Kind, f, c),
         ~b.reading, ~b.overrun, b.data = <<>>, b.index = 0, b.position = p
  PROVE  Buffered(Both(b, f), c, Seen(f, c), I, p) /\ Clean(Both(b, f), Seen(f, c), I, p)
<1> DEFINE x == Both(b, f)
           e == Seen(f, c)
<1>1. x.b = b /\ x.f = f
  BY BothFields
<1> HIDE DEF x
<1>2. /\ e \in Bytes /\ Len(e) = VisibleSize(Kind, f, c) /\ Len(e) \in Nat
      /\ <<>> \in Bytes /\ Len(<<>>) = 0
  BY SeenIs, HoldsIs DEF Bytes
<1>3. Patched(e, <<>>, p) = e
  BY <1>2, PatchedNothing
<1>4. Kind = "encoded" => Keeps(I, c, <<>>, p)
  <2>1. Kind = "encoded" => c \in I /\ c \in Bytes /\ Len(c) \in Nat /\ p <= Len(c)
    BY EncodedBytes, HoldsIs DEF Holds, VisibleSize
  <2>2. Kind = "encoded" => Patched(c, <<>>, p) = c
    BY <2>1, PatchedNothing
  <2>3. \A k \in 0..Len(<<>>) : Slice(<<>>, 0, k) = <<>>
    BY <1>2, SliceAll
  <2> QED
    BY <2>1, <2>2, <2>3 DEF Keeps
<1>5. Buffered(x, c, e, I, p)
  <2>1. p = p + 0
    OBVIOUS
  <2> QED
    BY <1>1, <1>2, <1>3, <1>4, <2>1 DEF Buffered
<1> QED
  BY <1>1, <1>5 DEF Clean, x

(* check_write_buffer *)
LEMMA CheckWriteBufferIs ==
  ASSUME NEW x, NEW c, NEW e, NEW I, NEW p, NEW L, Kind \in Kinds, Buffered(x, c, e, I, p)
  PROVE  LET y == check_write_buffer(x) IN
         (\E d : BufferInv(y, d, e, I, p, L)) /\ SameServer(x.f, y.f)
<1>0. /\ BufferSize \in Nat /\ BufferSize > 0 /\ x.b.index = Len(x.b.data) /\ x.b.index \in Nat
      /\ Len(<<>>) = 0
  BY SizeAssumption, BufferFields DEF Buffered
<1>1. CASE x.b.index >= BufferSize
  <2>1. check_write_buffer(x) = write_buffer(x)
    BY <1>1 DEF check_write_buffer
  <2>2. x.b.data # <<>>
    BY <1>0, <1>1
  <2>3. LET y == write_buffer(x) IN
        Buffered(y, e, e, I, p) /\ y.b.index = 0 /\ SameServer(x.f, y.f)
    BY <2>2, WriteBufferIs
  <2> QED
    BY <1>0, <2>1, <2>3 DEF BufferInv
<1>2. CASE ~(x.b.index >= BufferSize)
  <2>1. check_write_buffer(x) = x /\ x.b.index < BufferSize
    BY <1>0, <1>2 DEF check_write_buffer
  <2> QED
    BY <2>1 DEF BufferInv, SameServer
<1> QED
  BY <1>1, <1>2

(* flush *)
LEMMA FlushedIs ==
  ASSUME NEW x, NEW c, NEW e, NEW I, NEW p, NEW L, Kind \in Kinds, BufferInv(x, c, e, I, p, L)
  PROVE  LET y == flush(x) IN
         /\ Clean(y, e, I, p) /\ SameServer(x.f, y.f)
         /\ ~HasWriteData(x.b) => y.f = x.f
<1> DEFINE y == flush(x)
           b == x.b
           a == [b EXCEPT !.position = get_position(b), !.data = <<>>, !.index = 0,
                          !.reading = FALSE]
<1>0. b \in BufferT /\ Len(b.data) \in Nat /\ b.index \in Nat /\ <<>> \in Bytes
  BY BufferFields DEF BufferInv, Buffered, Fetching, Bytes
<1>1. CASE HasWriteData(b)
  <2>1. y = write_buffer(x)
    BY <1>1 DEF flush
  <2>2. Buffered(x, c, e, I, p) /\ b.data # <<>>
    BY <1>1 DEF BufferInv, Buffered, HasWriteData
  <2>3. LET z == write_buffer(x) IN
        /\ Buffered(z, e, e, I, p) /\ z.b.index = 0 /\ z.b.data = <<>>
        /\ z.b.position = p /\ SameServer(x.f, z.f)
    BY <2>2, WriteBufferIs
  <2> HIDE DEF y
  <2> QED
    BY <1>1, <2>1, <2>3 DEF Clean, y
<1>2. CASE ~HasWriteData(b)
  <2>1. y = Both(a, x.f)
    BY <1>2 DEF flush
  <2>2. /\ Holds(Kind, x.f, c, I) /\ p \in Nat /\ p = get_position(b)
        /\ p <= VisibleSize(Kind, x.f, c) /\ e = Seen(x.f, c) /\ ~b.overrun
    <3>1. CASE Buffered(x, c, e, I, p)
      <4>1. b.data = <<>> /\ b.index = 0 /\ ~b.reading
        BY <1>0, <1>2, <3>1 DEF Buffered, HasWriteData
      <4>2. e = Seen(x.f, c) /\ p \in Nat
        BY <3>1, <4>1, BufferedIs
      <4>3. /\ Holds(Kind, x.f, c, I) /\ p = b.position + b.index /\ ~b.overrun
            /\ b.position <= VisibleSize(Kind, x.f, c)
        BY <3>1 DEF Buffered
      <4>4. get_position(b) = b.position + b.index
        BY <1>0, <4>1, BufferFields DEF get_position
      <4> QED
        BY <1>0, <4>1, <4>2, <4>3, <4>4, BufferFields
    <3>2. CASE Fetching(x, c, e, I, p, L)
      BY <3>2 DEF Fetching
    <3> QED
      BY <3>1, <3>2 DEF BufferInv
  <2> HIDE DEF b
  <2>3. a \in BufferT /\ ~a.reading /\ a.data = <<>> /\ a.index = 0 /\ a.position = p
        /\ a.overrun = b.overrun
    <3>1. a = [b EXCEPT !.position = p, !.data = <<>>, !.index = 0, !.reading = FALSE]
      BY <2>2
    <3> HIDE DEF a
    <3> QED
      BY <1>0, <2>2, <3>1 DEF BufferT
  <2> HIDE DEF a
  <2>4. Clean(Both(a, x.f), e, I, p)
    BY <2>2, <2>3, CleanIs
  <2> QED
    BY <2>1, <2>4, BothFields DEF SameServer, b
<1> QED
  BY <1>1, <1>2

(* Appended: e is written over as the buffer grows. *)
LEMMA AppendedIs ==
  ASSUME NEW x, NEW c, NEW e, NEW I, NEW p, Kind \in Kinds, Buffered(x, c, e, I, p),
         NEW data \in Bytes, data # <<>>,
         Kind = "encoded" => Keeps(I, e, data, p),
         Kind = "server" => UpToDateFile(x.f) /\ x.f.tail_offset <= p,
         x.b.index + Len(data) <= BufferSize + ExtraSize
  PROVE  LET y == Appended(x, data) IN
         Buffered(y, c, Patched(e, data, p), I, p + Len(data)) /\ y.f = x.f
<1> DEFINE b == x.b
           W == b.data
           o == b.position
           s == Seen(x.f, c)
           y == Appended(x, data)
<1>1. /\ Holds(Kind, x.f, c, I) /\ b \in BufferT /\ ~b.reading /\ ~b.overrun
      /\ o \in Nat /\ W \in Bytes /\ Len(W) \in Nat /\ b.index = Len(W)
      /\ p = o + Len(W) /\ o <= VisibleSize(Kind, x.f, c)
      /\ e = Patched(s, W, o)
      /\ Kind = "encoded" => Keeps(I, c, W, o)
      /\ Kind = "server" /\ W # <<>> => UpToDateFile(x.f) /\ x.f.tail_offset <= o
  BY BufferFields DEF Buffered
<1>2. /\ s \in Bytes /\ Len(s) = VisibleSize(Kind, x.f, c) /\ Len(s) \in Nat /\ o \in 0..Len(s)
      /\ c \in Bytes /\ Len(data) \in Nat /\ BufferSize \in Nat /\ ExtraSize \in Nat
      /\ Kind = "encoded" => s = c
  BY <1>1, SeenIs, HoldsIs, LenIs, SizeAssumption
<1>3. /\ y.b = [b EXCEPT !.data = W \o data, !.index = b.index + Len(data),
                         !.overrun = @ \/ b.index + Len(data) > BufferSize + ExtraSize]
      /\ y.f = x.f
  BY DEF Appended, Both
<1>4. IsCat(W \o data, W, data)
  BY <1>1, CatIs
<1>5. W \o data \in Bytes /\ Len(W \o data) = Len(W) + Len(data)
  BY <1>4 DEF IsCat
<1>6. Patched(Patched(s, W, o), data, o + Len(W)) = Patched(s, W \o data, o)
  <2>1. s \in Bytes /\ W \in Bytes /\ data \in Bytes /\ o \in 0..Len(s)
    BY <1>1, <1>2
  <2> HIDE DEF s, W, o, b
  <2> QED
    BY <2>1, PatchedTwice
<1>7. Kind = "encoded" => Keeps(I, c, W \o data, o)
  BY <1>1, <1>2, KeepsCat
<1>8. ~(b.index + Len(data) > BufferSize + ExtraSize)
  BY <1>1, <1>2
<1>9. /\ y.b \in BufferT /\ ~y.b.reading /\ ~y.b.overrun
      /\ y.b.data = W \o data /\ y.b.index = Len(W) + Len(data) /\ y.b.position = o
  <2> DEFINE a == y.b
             w == W \o data
             i == Len(W) + Len(data)
  <2>1. a = [b EXCEPT !.data = w, !.index = i, !.overrun = FALSE] /\ o = b.position
    BY <1>1, <1>3, <1>8
  <2>2. w \in Bytes /\ i \in Nat /\ b \in BufferT /\ ~b.reading
    BY <1>1, <1>2, <1>5
  <2> HIDE DEF a, w, i, b, o
  <2>3. a \in BufferT /\ ~a.reading /\ ~a.overrun /\ a.data = w /\ a.index = i /\ a.position = o
    BY <2>1, <2>2 DEF BufferT
  <2> QED
    BY <2>3 DEF a, w, i
<1> HIDE DEF b, W, o, s, y
<1>10. p + Len(data) = o + (Len(W) + Len(data))
  BY <1>1, <1>2
<1>11. Kind = "server" /\ W \o data # <<>> => UpToDateFile(x.f) /\ x.f.tail_offset <= o
  <2>1. CASE W = <<>>
    <3>1. Len(W) = 0
      BY <2>1
    <3> QED
      BY <1>1, <3>1
  <2>2. CASE W # <<>>
    BY <1>1, <2>2
  <2> QED
    BY <2>1, <2>2
<1>12. Buffered(y, c, Patched(e, data, p), I, p + Len(data))
  BY <1>1, <1>3, <1>5, <1>6, <1>7, <1>9, <1>10, <1>11 DEF Buffered, s
<1> QED
  BY <1>3, <1>12 DEF y

(* File_Iterator::write, when nothing is in the buffer *)
LEMMA WriteDirectlyIs ==
  ASSUME NEW x, NEW e, NEW I, NEW p, Kind \in Kinds, Clean(x, e, I, p),
         NEW data \in Bytes,
         Kind = "encoded" => Keeps(I, e, data, p),
         Kind = "server" => UpToDateFile(x.f) /\ x.f.tail_offset <= p
  PROVE  LET y == WriteDirectly(x, data) IN
         Clean(y, Patched(e, data, p), I, p + Len(data)) /\ SameServer(x.f, y.f)
<1> DEFINE b == x.b
           y == WriteDirectly(x, data)
           g == pwrite(x.f, data, p)
           e2 == Patched(e, data, p)
           a == [b EXCEPT !.position = p + Len(data)]
<1>1. PICK c : Buffered(x, c, e, I, p)
  BY DEF Clean
<1>2. /\ Holds(Kind, x.f, c, I) /\ b \in BufferT /\ ~b.reading /\ ~b.overrun
      /\ b.data = <<>> /\ b.index = 0 /\ b.position = p
      /\ p \in Nat /\ p <= VisibleSize(Kind, x.f, c)
      /\ e = Seen(x.f, c) /\ Len(data) \in Nat /\ HeadSize \in Nat
  <2>1. Len(data) \in Nat /\ HeadSize \in Nat
    BY LenIs, SizeAssumption
  <2> QED
    BY <1>1, <2>1, BufferFields, BufferedIs DEF Clean, Buffered
<1>3. /\ e = c /\ c \in Bytes /\ Len(c) \in Nat /\ p \in 0..Len(c)
  BY <1>2, SeenIs, HoldsIs
<1>4. MayPwrite(Kind, x.f, c, data, p)
  BY DEF MayPwrite, UpToDateFile
<1>5. Kind = "server" => ~(p < HeadSize)
  <2>1. Kind = "server" => HeadSize <= x.f.tail_offset
    BY <1>2 DEF Holds, HoldsServer
  <2>2. x.f.tail_offset \in Nat
    BY <1>2, HoldsIs
  <2> QED
    BY <1>2, <2>1, <2>2
<1>6. y = Both(a, g)
  BY <1>2 DEF WriteDirectly
<1>7. /\ Holds(Kind, g, e2, I)
      /\ VisibleSize(Kind, g, e2) = Len(e2)
      /\ SameServer(x.f, g)
  <2> HIDE DEF g
  <2>1. /\ Holds(Kind, g, Patched(c, data, p), I)
        /\ VisibleSize(Kind, g, Patched(c, data, p))
             = IF Kind = "server" /\ p < HeadSize THEN VisibleSize(Kind, x.f, c)
               ELSE Len(Patched(c, data, p))
        /\ Kind = "server" => g.tail_offset = x.f.tail_offset /\ g.remote = x.f.remote
    BY <1>2, <1>3, <1>4, PwriteIs DEF g
  <2> QED
    BY <1>3, <1>5, <2>1 DEF SameServer
<1>8. Seen(g, e2) = e2 /\ e2 \in Bytes /\ p + Len(data) <= Len(e2) /\ p + Len(data) \in Nat
  <2>1. IsPatched(e2, e, data, p)
    BY <1>2, <1>3, PatchedIs
  <2> QED
    BY <1>2, <1>3, <1>7, <2>1, SeenIs, LenIs DEF IsPatched
<1> HIDE DEF b, g, e2, y
<1>9. /\ a \in BufferT /\ ~a.reading /\ ~a.overrun /\ a.data = <<>> /\ a.index = 0
      /\ a.position = p + Len(data)
  BY <1>2, <1>8 DEF BufferT
<1> HIDE DEF a
<1>10. Clean(Both(a, g), e2, I, p + Len(data))
  BY <1>7, <1>8, <1>9, CleanIs
<1> QED
  BY <1>6, <1>7, <1>10, BothFields DEF y, e2

(* A buffer that is empty may read or write next. *)
LEMMA CleanIsInv ==
  ASSUME NEW x, NEW e, NEW I, NEW p, NEW L, Clean(x, e, I, p)
  PROVE  \E c : BufferInv(x, c, e, I, p, L)
<1>1. 0 < BufferSize
  BY SizeAssumption
<1> QED
  BY <1>1 DEF Clean, BufferInv

(* write_data and compact_write *)
LEMMA WriteSmallIs ==
  ASSUME NEW x, NEW c, NEW e, NEW I, NEW p, NEW L, Kind \in Kinds, Buffered(x, c, e, I, p),
         NEW data \in Bytes, data # <<>>,
         Kind = "encoded" => Keeps(I, e, data, p),
         Kind = "server" => UpToDateFile(x.f) /\ x.f.tail_offset <= p,
         x.b.index + Len(data) <= BufferSize + ExtraSize
  PROVE  LET y == check_write_buffer(Appended(x, data)) IN
         /\ \E d : BufferInv(y, d, Patched(e, data, p), I, p + Len(data), L)
         /\ SameServer(x.f, y.f)
<1> DEFINE z == Appended(x, data)
<1>1. Buffered(z, c, Patched(e, data, p), I, p + Len(data)) /\ z.f = x.f
  BY AppendedIs
<1> HIDE DEF z
<1>2. LET y == check_write_buffer(z) IN
      /\ \E d : BufferInv(y, d, Patched(e, data, p), I, p + Len(data), L)
      /\ SameServer(z.f, y.f)
  BY <1>1, CheckWriteBufferIs
<1> QED
  BY <1>1, <1>2 DEF z

LEMMA WriteDataIs ==
  ASSUME NEW x, NEW c, NEW e, NEW I, NEW p, NEW L, Kind \in Kinds, BufferInv(x, c, e, I, p, L),
         ~x.b.reading, NEW data \in Bytes, data # <<>>,
         Kind = "encoded" => Keeps(I, e, data, p),
         Kind = "server" => UpToDateFile(x.f) /\ x.f.tail_offset <= p
  PROVE  LET y == write_data(x, data) IN
         /\ \E d : BufferInv(y, d, Patched(e, data, p), I, p + Len(data), L)
         /\ SameServer(x.f, y.f)
<1>0. /\ Buffered(x, c, e, I, p) /\ x.b.index < BufferSize /\ x.b.index \in Nat
      /\ Len(data) \in Nat /\ BufferSize \in Nat /\ ExtraSize \in Nat
  BY BufferFields, LenIs, SizeAssumption DEF BufferInv, Buffered
<1>1. CASE Len(data) <= ExtraSize \/ Len(data) < BufferSize + ExtraSize - x.b.index
  <2>1. x.b.index + Len(data) <= BufferSize + ExtraSize
    BY <1>0, <1>1
  <2>2. write_data(x, data) = check_write_buffer(Appended(x, data))
    BY <1>1 DEF write_data
  <2>3. LET y == check_write_buffer(Appended(x, data)) IN
        /\ \E d : BufferInv(y, d, Patched(e, data, p), I, p + Len(data), L)
        /\ SameServer(x.f, y.f)
    BY <1>0, <2>1, WriteSmallIs
  <2> QED
    BY <2>2, <2>3
<1>2. CASE ~(Len(data) <= ExtraSize \/ Len(data) < BufferSize + ExtraSize - x.b.index)
  <2> DEFINE z == flush(x)
             y == WriteDirectly(z, data)
  <2>1. write_data(x, data) = y
    BY <1>2 DEF write_data
  <2>2. Clean(z, e, I, p) /\ SameServer(x.f, z.f)
    BY FlushedIs
  <2> HIDE DEF z
  <2>3. Kind = "server" => UpToDateFile(z.f) /\ z.f.tail_offset <= p
    BY <2>2 DEF SameServer, UpToDateFile
  <2>4. Clean(y, Patched(e, data, p), I, p + Len(data)) /\ SameServer(z.f, y.f)
    BY <2>2, <2>3, WriteDirectlyIs
  <2> HIDE DEF y
  <2>5. \E d : BufferInv(y, d, Patched(e, data, p), I, p + Len(data), L)
    BY <2>4, CleanIsInv
  <2> QED
    BY <2>1, <2>2, <2>4, <2>5 DEF SameServer
<1> QED
  BY <1>1, <1>2

(* Nothing in the buffer, over c *)
LEMMA CleanFields ==
  ASSUME NEW x, NEW e, NEW I, NEW p, Kind \in Kinds, Clean(x, e, I, p)
  PROVE  \E c :
           /\ Holds(Kind, x.f, c, I) /\ e = Seen(x.f, c)
           /\ p \in Nat /\ p <= VisibleSize(Kind, x.f, c)
           /\ x.b \in BufferT /\ ~x.b.reading /\ ~x.b.overrun
           /\ x.b.data = <<>> /\ x.b.index = 0 /\ x.b.position = p
<1>1. PICK c : Buffered(x, c, e, I, p)
  BY DEF Clean
<1>2. x.b.data = <<>> /\ x.b.index = 0 /\ x.b.position = p
  BY DEF Clean
<1>3. x.b \in BufferT /\ Holds(Kind, x.f, c, I) /\ ~x.b.reading /\ ~x.b.overrun
      /\ x.b.position <= VisibleSize(Kind, x.f, c)
  BY <1>1 DEF Buffered
<1>4. e = Seen(x.f, c)
  BY <1>1, <1>2, BufferedIs
<1>5. p \in Nat
  BY <1>2, <1>3, BufferFields
<1> QED
  BY <1>2, <1>3, <1>4, <1>5

(* soft_checkpoint_at: a word of the head, once the buffer is empty *)
LEMMA WriteWordIs ==
  ASSUME NEW x, NEW e, NEW I, NEW p, Kind \in Kinds, Clean(x, e, I, p),
         NEW data \in Bytes, Len(data) <= HeadSize,
         Kind = "encoded" => Keeps(I, e, data, 0)
  PROVE  LET y == WriteWord(x, data) IN
         /\ Clean(y, Patched(e, data, 0), I, p)
         /\ SameServer(x.f, y.f) /\ (Kind = "server" => y.f.data = x.f.data)
<1>1. PICK c : /\ Holds(Kind, x.f, c, I) /\ e = Seen(x.f, c)
               /\ p \in Nat /\ p <= VisibleSize(Kind, x.f, c)
               /\ x.b \in BufferT /\ ~x.b.reading /\ ~x.b.overrun
               /\ x.b.data = <<>> /\ x.b.index = 0 /\ x.b.position = p
  BY CleanFields
<1> DEFINE b == x.b
           V == VisibleSize(Kind, x.f, c)
           g == pwrite(x.f, data, 0)
           c2 == Patched(c, data, 0)
           e2 == Patched(e, data, 0)
<1>2. /\ Holds(Kind, x.f, c, I) /\ b \in BufferT /\ ~b.reading /\ ~b.overrun
      /\ b.data = <<>> /\ b.index = 0 /\ b.position = p /\ p \in Nat /\ p <= V
      /\ e = Seen(x.f, c) /\ Len(data) \in Nat /\ HeadSize \in Nat /\ 0 < HeadSize
  BY <1>1, LenIs, SizeAssumption
<1>3. /\ c \in Bytes /\ Len(c) \in Nat /\ 0 \in 0..Len(c) /\ V \in Nat /\ V <= Len(c)
      /\ e \in Bytes /\ Len(e) = V /\ (\A i \in 1..V : e[i] = c[i])
      /\ (Kind # "server" => V = Len(c) /\ e = c)
  BY <1>2, HoldsIs, SeenIs
<1>4. MayPwrite(Kind, x.f, c, data, 0)
  BY <1>2 DEF MayPwrite
<1>5. Kind = "encoded" => Keeps(I, c, data, 0)
  BY <1>3
<1>6. /\ Holds(Kind, g, c2, I)
      /\ VisibleSize(Kind, g, c2) = IF Kind = "server" THEN V ELSE Len(c2)
      /\ Kind = "server" => g.tail_offset = x.f.tail_offset /\ g.remote = x.f.remote
                            /\ g.data = x.f.data
  <2> HIDE DEF g, c2, V, b
  <2>1. LET h == pwrite(x.f, data, 0) IN
        /\ Holds(Kind, h, Patched(c, data, 0), I)
        /\ VisibleSize(Kind, h, Patched(c, data, 0))
             = IF Kind = "server" /\ 0 < HeadSize THEN VisibleSize(Kind, x.f, c)
               ELSE Len(Patched(c, data, 0))
        /\ Kind = "server" => h.tail_offset = x.f.tail_offset /\ h.remote = x.f.remote
        /\ Kind = "server" /\ 0 < HeadSize => h.data = x.f.data
    BY <1>2, <1>3, <1>4, <1>5, PwriteIs
  <2> QED
    BY <1>2, <2>1 DEF g, c2, V
<1>7. IsPatched(c2, c, data, 0) /\ IsPatched(e2, e, data, 0)
  BY <1>3, PatchedIs
<1>8. Kind = "server" => HeadSize <= V
  <2>1. Kind = "server" => HeadSize <= x.f.tail_offset /\ V = x.f.tail_offset + Len(x.f.data)
    BY <1>2 DEF Holds, HoldsServer, VisibleSize
  <2>2. x.f.tail_offset \in Nat /\ Len(x.f.data) \in Nat
    BY <1>2, HoldsIs
  <2> HIDE DEF V, b
  <2> QED
    BY <1>2, <2>1, <2>2
<1> HIDE DEF g, c2, e2, V, b
<1>9. Len(c2) \in Nat /\ Len(c2) >= Len(c)
  BY <1>2, <1>3, <1>7 DEF IsPatched
<1>10. Seen(g, c2) = e2
  <2>1. CASE Kind = "server"
    <3>1. /\ Seen(g, c2) \in Bytes /\ Len(Seen(g, c2)) = V
          /\ \A i \in 1..V : Seen(g, c2)[i] = c2[i]
      BY <1>6, <2>1, SeenIs
    <3>2. e2 \in Bytes /\ Len(e2) = V
      BY <1>2, <1>3, <1>7, <1>8, <2>1 DEF IsPatched
    <3>3. \A i \in 1..V : c2[i] = e2[i]
      <4> TAKE i \in 1..V
      <4>1. i \in 1..Len(c2) /\ i \in 1..Len(e2)
        BY <1>3, <1>9, <3>2
      <4> QED
        BY <1>3, <1>7, <4>1 DEF IsPatched
    <3> QED
      BY <3>1, <3>2, <3>3, SameBytes
  <2>2. CASE Kind # "server"
    <3>1. Seen(g, c2) = c2
      BY <1>6, <2>2, SeenIs
    <3> QED
      BY <1>3, <2>2, <3>1 DEF c2, e2
  <2> QED
    BY <2>1, <2>2
<1>11. p <= VisibleSize(Kind, g, c2)
  BY <1>2, <1>3, <1>6, <1>9
<1>12. Clean(Both(b, g), Seen(g, c2), I, p)
  BY <1>2, <1>6, <1>11, CleanIs
<1>13. WriteWord(x, data) = Both(b, g)
  BY DEF WriteWord, b, g
<1> QED
  BY <1>6, <1>10, <1>12, <1>13, BothFields DEF SameServer, e2

(* set_position, once the buffer is empty *)
LEMMA MovedIs ==
  ASSUME NEW x, NEW e, NEW I, NEW p, Kind \in Kinds, Clean(x, e, I, p),
         NEW q \in 0..Len(e)
  PROVE  Clean(Moved(x, q), e, I, q) /\ Moved(x, q).f = x.f
<1>1. PICK c : /\ Holds(Kind, x.f, c, I) /\ e = Seen(x.f, c)
               /\ p \in Nat /\ p <= VisibleSize(Kind, x.f, c)
               /\ x.b \in BufferT /\ ~x.b.reading /\ ~x.b.overrun
               /\ x.b.data = <<>> /\ x.b.index = 0 /\ x.b.position = p
  BY CleanFields
<1> DEFINE b == x.b
           a == [b EXCEPT !.position = q]
<1>2. /\ Holds(Kind, x.f, c, I) /\ b \in BufferT /\ ~b.reading /\ ~b.overrun
      /\ b.data = <<>> /\ b.index = 0 /\ e = Seen(x.f, c)
  BY <1>1
<1>3. q \in Nat /\ q <= VisibleSize(Kind, x.f, c)
  BY <1>2, SeenIs, HoldsIs
<1>4. Moved(x, q) = Both(a, x.f)
  BY DEF Moved
<1> HIDE DEF b
<1>5. a \in BufferT /\ ~a.reading /\ ~a.overrun /\ a.data = <<>> /\ a.index = 0 /\ a.position = q
  BY <1>2, <1>3 DEF BufferT
<1> HIDE DEF a
<1>6. Clean(Both(a, x.f), Seen(x.f, c), I, q)
  BY <1>2, <1>3, <1>5, CleanIs
<1> QED
  BY <1>2, <1>4, <1>6, BothFields

-----------------------------------------------------------------------------
(***************************************************************************)
(* Reading.  Fetched: the m bytes at p were read, and the buffer has what  *)
(* follows; only an Encoded_File is changed by that, which it flushes.     *)
(***************************************************************************)
Fetched(r, f, c, e, I, p, m, L) ==
  /\ Fetching(r.x, c, e, I, p + m, L)
  /\ r.read = Slice(c, p, m)
  /\ Kind # "encoded" => r.x.f = f

LEMMA ReadingFields == \A s, x : Reading(s, x).read = s /\ Reading(s, x).x = x
BY DEF Reading

LEMMA FetchingIs ==
  ASSUME NEW x, NEW c, NEW e, NEW I, NEW p, NEW L, Kind \in Kinds, Fetching(x, c, e, I, p, L)
  PROVE  /\ Holds(Kind, x.f, c, I) /\ c \in Bytes /\ Len(c) \in Nat
         /\ x.b \in BufferT /\ x.b.data \in Bytes /\ Len(x.b.data) \in Nat
         /\ x.b.index \in Nat /\ x.b.position \in Nat
         /\ p \in Nat /\ p <= Len(c) /\ p + 0 = p
         /\ x.b.index = Len(x.b.data) => x.b.position = p
<1>1. /\ x.b \in BufferT /\ Holds(Kind, x.f, c, I) /\ p \in Nat /\ p = get_position(x.b)
      /\ p <= VisibleSize(Kind, x.f, c) /\ (~x.b.reading => x.b.data = <<>>)
  BY DEF Fetching
<1>2. /\ x.b.data \in Bytes /\ Len(x.b.data) \in Nat /\ x.b.index \in Nat
      /\ x.b.position \in Nat /\ x.b.reading \in BOOLEAN /\ Len(<<>>) = 0
  BY <1>1, BufferFields
<1>3. /\ c \in Bytes /\ Len(c) \in Nat /\ VisibleSize(Kind, x.f, c) \in Nat
      /\ VisibleSize(Kind, x.f, c) <= Len(c)
  BY <1>1, HoldsIs
<1>4. x.b.index = Len(x.b.data) => x.b.position = p
  <2> DEFINE i == x.b.index
             o == x.b.position
             l == Len(x.b.data)
  <2>1. p = o + i - (IF x.b.reading THEN l ELSE 0)
    BY <1>1 DEF get_position
  <2>2. ~x.b.reading => l = 0
    BY <1>1, <1>2
  <2> HIDE DEF i, o, l
  <2>3. o \in Nat /\ i \in Nat
    BY <1>2 DEF o, i
  <2>4. i = l => o = p
    BY <2>1, <2>2, <2>3
  <2> QED
    BY <2>4 DEF i, o, l
<1>5. p <= Len(c)
  BY <1>1, <1>3
<1> QED
  BY <1>1, <1>2, <1>3, <1>4, <1>5

(* From the buffer *)
LEMMA TakeBufferedIs ==
  ASSUME NEW r, NEW f, NEW c, NEW e, NEW I, NEW p \in Nat, NEW m \in Nat, NEW L, Kind \in Kinds,
         Fetched(r, f, c, e, I, p, m, L), L \in Nat,
         NEW n \in Nat, m <= n, p + n <= VisibleSize(Kind, r.x.f, c), p + n <= L
  PROVE  \E j \in m..n :
           /\ Fetched(TakeBuffered(r, n), f, c, e, I, p, j, L)
           /\ j < n => TakeBuffered(r, n).x.b.index = Len(TakeBuffered(r, n).x.b.data)
           /\ TakeBuffered(r, n).x.f = r.x.f
           /\ j = n <=> r.x.b.index + (n - m) <= Len(r.x.b.data)
<1> DEFINE b == r.x.b
           D == b.data
           i == b.index
           l == Len(D)
           V == VisibleSize(Kind, r.x.f, c)
           k == Smaller(n - Len(r.read), l - i)
           a == [b EXCEPT !.index = i + k]
           s == Slice(D, i, k)
           y == TakeBuffered(r, n)
<1>1. /\ Fetching(r.x, c, e, I, p + m, L) /\ r.read = Slice(c, p, m)
      /\ Kind # "encoded" => r.x.f = f
  BY DEF Fetched
<1>2. /\ Holds(Kind, r.x.f, c, I) /\ c \in Bytes /\ Len(c) \in Nat
      /\ b \in BufferT /\ D \in Bytes /\ l \in Nat /\ i \in Nat /\ b.position \in Nat
      /\ p + m \in Nat /\ p + m <= Len(c)
  BY <1>1, FetchingIs
<1>3. /\ ~b.overrun /\ i <= l /\ (~b.reading => D = <<>>) /\ b.reading \in BOOLEAN
      /\ p + m = get_position(b) /\ p + m <= V /\ e = Seen(r.x.f, c)
      /\ V \in Nat /\ V <= Len(c) /\ Len(<<>>) = 0
      /\ \A q \in 1..(l - i) :
           (p + m) + q <= Len(c) /\ ((p + m) + q <= L => D[i + q] = c[(p + m) + q])
  BY <1>1, <1>2, HoldsIs, BufferFields DEF Fetching, Ahead
<1>4. y.read = r.read \o s /\ y.x.b = a /\ y.x.f = r.x.f
  <2>1. y = Reading(r.read \o s, Both(a, r.x.f))
    BY DEF TakeBuffered
  <2> DEFINE w == r.read \o s
             z == Both(a, r.x.f)
  <2>2. z.b = a /\ z.f = r.x.f
    BY BothFields
  <2> HIDE DEF y, w, z
  <2>3. Reading(w, z).read = w /\ Reading(w, z).x = z
    BY ReadingFields
  <2> QED
    BY <2>1, <2>2, <2>3 DEF w, z
<1>5. Len(r.read) = m
  BY <1>1, <1>2, SliceIs DEF IsSlice
<1>6. /\ k \in Nat /\ k <= n - m /\ k <= l - i /\ (k < n - m => k = l - i)
      /\ (i + (n - m) <= l <=> k = n - m)
  <2> HIDE DEF D, i, l, b, V
  <2> QED
    BY <1>2, <1>3, <1>5 DEF Smaller
<1>7. IsSlice(s, D, i, k) /\ IsSlice(Slice(c, p + m, k), c, p + m, k) /\ p + n <= V
  BY <1>2, <1>6, SliceIs
<1> HIDE DEF s, D, i, l, b, k, V, y
<1>8. (p + m) + k <= Len(c) /\ (p + m) + k <= L /\ i + k <= l /\ (p + m) + k <= V
  BY <1>2, <1>3, <1>6, <1>7
<1>9. s = Slice(c, p + m, k)
  <2>1. Len(s) = k /\ s \in Bytes /\ Len(Slice(c, p + m, k)) = k /\ Slice(c, p + m, k) \in Bytes
    BY <1>2, <1>6, <1>7, <1>8 DEF IsSlice, l
  <2>2. \A q \in 1..k : s[q] = D[i + q] /\ Slice(c, p + m, k)[q] = c[(p + m) + q]
    BY <1>7, <2>1 DEF IsSlice
  <2>3. \A q \in 1..k : q \in 1..(l - i) /\ (p + m) + q <= L
    BY <1>2, <1>6, <1>8
  <2>4. \A q \in 1..k : s[q] = Slice(c, p + m, k)[q]
    BY <1>3, <2>2, <2>3
  <2> QED
    BY <2>1, <2>4, SameBytes
<1>10. r.read \o s = Slice(c, p, m + k)
  <2>1. Joined(Slice(c, p, m), Slice(c, p + m, k), Slice(c, p, m + k))
    BY <1>2, <1>6, SliceInTwo
  <2> QED
    BY <1>1, <1>9, <2>1 DEF Joined
<1>11. /\ a \in BufferT /\ ~a.overrun /\ a.index = i + k /\ a.data = D
       /\ a.reading = b.reading /\ a.position = b.position
  <2>1. i + k \in Nat
    BY <1>2, <1>6
  <2> QED
    BY <1>2, <1>3, <2>1 DEF BufferT, D
<1> HIDE DEF a
<1>12. p + (m + k) = get_position(a)
  <2> DEFINE v == IF b.reading THEN l ELSE 0
             w == b.position
  <2>1. get_position(b) = w + i - v
    BY DEF get_position, i, l, D
  <2>2. get_position(a) = w + (i + k) - v
    BY <1>11 DEF get_position, l
  <2>3. p + m = get_position(b) /\ w \in Nat /\ v \in Nat
    BY <1>2, <1>3
  <2> HIDE DEF v, w
  <2> QED
    BY <1>2, <1>6, <2>1, <2>2, <2>3
<1>13. Ahead(a, c, p + (m + k), L)
  <2> SUFFICES ASSUME NEW q \in 1..(l - (i + k))
               PROVE  /\ (p + (m + k)) + q <= Len(c)
                      /\ (p + (m + k)) + q <= L => D[(i + k) + q] = c[(p + (m + k)) + q]
    BY <1>11 DEF Ahead, l
  <2>1. k + q \in 1..(l - i) /\ (i + k) + q = i + (k + q)
        /\ (p + (m + k)) + q = (p + m) + (k + q)
    BY <1>2, <1>6
  <2> QED
    BY <1>3, <2>1
<1>14. Fetching(y.x, c, e, I, p + (m + k), L)
  <2>1. p + (m + k) \in Nat /\ p + (m + k) <= V
    BY <1>6, <1>8
  <2>2. a.index <= Len(a.data) /\ (~a.reading => a.data = <<>>)
    BY <1>3, <1>8, <1>11 DEF l
  <2> QED
    BY <1>2, <1>3, <1>4, <1>11, <1>12, <1>13, <2>1, <2>2 DEF Fetching, V
<1>15. Fetched(y, f, c, e, I, p, m + k, L)
  BY <1>1, <1>4, <1>10, <1>14 DEF Fetched
<1>16. m + k \in m..n /\ (m + k < n => a.index = Len(a.data)) /\ (m + k = n <=> i + (n - m) <= l)
  <2>1. (m + k < n => i + k = l)
    BY <1>2, <1>6
  <2> QED
    BY <1>2, <1>6, <1>11, <2>1 DEF l
<1> QED
  BY <1>4, <1>15, <1>16 DEF y, i, l, D, b

(* read_buffer, when all of the buffer was read *)
LEMMA ReadBufferIs ==
  ASSUME NEW r, NEW f, NEW c, NEW e, NEW I, NEW p \in Nat, NEW m \in Nat, NEW L, Kind \in Kinds,
         Fetched(r, f, c, e, I, p, m, L), r.x.b.index = Len(r.x.b.data)
  PROVE  LET s == Reading(r.read, read_buffer(r.x)) IN
         /\ Fetched(s, f, c, e, I, p, m, L)
         /\ VisibleSize(Kind, s.x.f, c) = VisibleSize(Kind, r.x.f, c)
<1> DEFINE b == r.x.b
           o == b.position
           D == pread(r.x.f, o, BufferSize)
           a == [b EXCEPT !.data = D, !.index = 0, !.reading = D # <<>>, !.position = o + Len(D)]
           g == AfterRead(r.x.f)
           y == read_buffer(r.x)
           V == VisibleSize(Kind, r.x.f, c)
<1>1. /\ Fetching(r.x, c, e, I, p + m, L) /\ r.read = Slice(c, p, m)
      /\ Kind # "encoded" => r.x.f = f
  BY DEF Fetched
<1>2. /\ Holds(Kind, r.x.f, c, I) /\ c \in Bytes /\ Len(c) \in Nat
      /\ b \in BufferT /\ o \in Nat /\ p + m \in Nat /\ o = p + m /\ p + m <= Len(c)
  BY <1>1, FetchingIs
<1>3. ~b.overrun /\ p + m <= V /\ e = Seen(r.x.f, c)
  BY <1>1 DEF Fetching
<1>4. y = Both(a, g)
  BY DEF read_buffer, Filled
<1>5. /\ IsPart(D, c, o, BufferSize) /\ D \in Bytes /\ Len(D) \in Nat
  <2>1. BufferSize \in Nat
    BY SizeAssumption
  <2> HIDE DEF o
  <2>2. IsPart(D, c, o, BufferSize)
    BY <1>2, <2>1, PreadIs
  <2> HIDE DEF D
  <2> QED
    BY <2>2, LenIs DEF IsPart
<1>6. /\ Holds(Kind, g, c, I) /\ VisibleSize(Kind, g, c) = V
      /\ (Kind # "encoded" => g = r.x.f)
  BY <1>2, AfterReadIs
<1> HIDE DEF D, g, y, V, b, o
<1>7. /\ a \in BufferT /\ ~a.overrun /\ a.data = D /\ a.index = 0 /\ a.position = o + Len(D)
      /\ (~a.reading => D = <<>>) /\ (a.reading => D # <<>>) /\ a.reading \in BOOLEAN
  <2>1. o + Len(D) \in Nat /\ (D # <<>>) \in BOOLEAN
    BY <1>2, <1>5
  <2> QED
    BY <1>2, <1>3, <1>5, <2>1 DEF BufferT
<1> HIDE DEF a
<1>8. p + m = get_position(a)
  <2> DEFINE l == Len(D)
  <2>1. get_position(a) = o + l + 0 - (IF a.reading THEN l ELSE 0)
    BY <1>7 DEF get_position
  <2>2. (~a.reading => l = 0) /\ l \in Nat
    BY <1>5, <1>7
  <2> HIDE DEF l
  <2> QED
    BY <1>2, <2>1, <2>2
<1>9. Ahead(a, c, p + m, L)
  <2> SUFFICES ASSUME NEW q \in 1..(Len(D) - 0)
               PROVE  (p + m) + q <= Len(c) /\ D[0 + q] = c[(p + m) + q]
    BY <1>7 DEF Ahead
  <2>1. q \in 1..Len(D) /\ 0 + q = q
    BY <1>5
  <2>2. o + Len(D) <= Len(c) /\ D[q] = c[o + q]
    BY <1>5, <2>1 DEF IsPart
  <2> QED
    BY <1>2, <1>5, <2>1, <2>2
<1>10. Fetching(Both(a, g), c, e, I, p + m, L)
  <2>1. Both(a, g).b = a /\ Both(a, g).f = g
    BY BothFields
  <2>2. a.index <= Len(a.data) /\ (~a.reading => a.data = <<>>)
    BY <1>5, <1>7
  <2>3. Seen(g, c) = Seen(r.x.f, c)
    BY <1>6 DEF Seen, V
  <2> HIDE DEF Seen
  <2> QED
    BY <1>2, <1>3, <1>6, <1>7, <1>8, <1>9, <2>1, <2>2, <2>3 DEF Fetching
<1> QED
  BY <1>1, <1>4, <1>6, <1>10, BothFields, ReadingFields DEF Fetched, y, V

(* A read of nothing *)
LEMMA FullPreadNothing == \A f, o : full_pread(f, o, 0) = <<>>
<1> TAKE f, o
<1> DEFINE Is(g) == g = [i \in 0..0 |-> IF i = 0 THEN <<>> ELSE ReadMore(f, o, 0, g[i - 1])]
           h == CHOOSE g : Is(g)
<1>1. full_pread(f, o, 0) = h[0]
  BY DEF full_pread
<1>2. Is([i \in 0..0 |-> <<>>])
  OBVIOUS
<1>3. \E g : Is(g)
  BY <1>2
<1>4. Is(h)
  <2> HIDE DEF Is
  <2> QED
    BY <1>3
<1> HIDE DEF h
<1> QED
  BY <1>1, <1>4

(* Directly from the file, when all of the buffer was read *)
LEMMA TakeFromFileIs ==
  ASSUME NEW r, NEW f, NEW c, NEW e, NEW I, NEW p \in Nat, NEW m \in Nat, NEW L, Kind \in Kinds,
         Fetched(r, f, c, e, I, p, m, L),
         NEW n \in Nat, m <= n, p + n <= VisibleSize(Kind, r.x.f, c),
         m < n => r.x.b.index = Len(r.x.b.data)
  PROVE  Fetched(TakeFromFile(r, n), f, c, e, I, p, n, L)
<1> DEFINE b == r.x.b
           o == b.position
           D == full_pread(r.x.f, o, n - Len(r.read))
           a == [b EXCEPT !.position = o + Len(D)]
           g == AfterRead(r.x.f)
           V == VisibleSize(Kind, r.x.f, c)
<1>1. /\ Fetching(r.x, c, e, I, p + m, L) /\ r.read = Slice(c, p, m)
      /\ Kind # "encoded" => r.x.f = f
  BY DEF Fetched
<1>2. /\ Holds(Kind, r.x.f, c, I) /\ c \in Bytes /\ Len(c) \in Nat
      /\ b \in BufferT /\ o \in Nat /\ p + m \in Nat /\ p + m <= Len(c)
      /\ (m < n => o = p + m) /\ V \in Nat /\ V <= Len(c)
      /\ b.data \in Bytes /\ Len(b.data) \in Nat /\ b.index \in Nat
  <2>1. /\ Holds(Kind, r.x.f, c, I) /\ c \in Bytes /\ Len(c) \in Nat
        /\ V \in Nat /\ V <= Len(c)
    BY <1>1, HoldsIs DEF Fetching
  <2> QED
    <3>1. /\ b \in BufferT /\ o \in Nat /\ p + m \in Nat /\ p + m <= Len(c)
          /\ b.data \in Bytes /\ Len(b.data) \in Nat /\ b.index \in Nat
      BY <1>1, FetchingIs
    <3>2. m < n => o = p + m
      BY <1>1, <3>1, FetchingIs
    <3> QED
      BY <2>1, <3>1, <3>2
<1>3. ~b.overrun /\ p + m <= V /\ e = Seen(r.x.f, c) /\ (~b.reading => b.data = <<>>)
      /\ b.reading \in BOOLEAN
  BY <1>1, BufferFields DEF Fetching
<1>4. Len(r.read) = m
  BY <1>1, <1>2, SliceIs DEF IsSlice
<1>5. TakeFromFile(r, n) = TakeRest(r, D)
  BY DEF TakeFromFile
<1>6. CASE m = n
  <2>1. n - Len(r.read) = 0
    BY <1>4, <1>6
  <2>2. D = <<>>
    BY <2>1, FullPreadNothing
  <2>3. TakeRest(r, D) = r
    BY <2>2 DEF TakeRest
  <2> QED
    BY <1>5, <1>6, <2>3
<1>7. CASE m # n
  <2> DEFINE k == n - m
  <2>0. m < n /\ o = p + m /\ b.index = Len(b.data) /\ p + n <= V
    BY <1>2, <1>7
  <2>1. k \in Nat /\ k > 0 /\ n - Len(r.read) = k /\ o = p + m /\ b.index = Len(b.data)
        /\ o + k <= V /\ m + k = n
    <3> HIDE DEF b, o, V
    <3> QED
      BY <1>2, <1>4, <2>0
  <2> HIDE DEF k, b, o, V
  <2>2. D = Slice(c, o, k)
    <3>1. full_pread(r.x.f, o, k) = Slice(c, o, k)
      BY <1>2, <2>1, FullPreadIs DEF V
    <3> QED
      BY <2>1, <3>1
  <2> HIDE DEF D
  <2>3. Len(D) = k /\ D \in Bytes /\ D # <<>>
    <3>1. IsSlice(D, c, o, k)
      BY <1>2, <2>1, <2>2, SliceIs
    <3> QED
      BY <1>2, <2>1, <3>1 DEF IsSlice
  <2>4. TakeRest(r, D) = Reading(r.read \o D, Both(a, g))
    BY <2>3 DEF TakeRest, a, b, o, g
  <2>5. r.read \o D = Slice(c, p, n)
    <3>1. p + m = p + m /\ p + m <= Len(c) /\ n = m + k
      BY <1>2, <2>1
    <3>2. Joined(Slice(c, p, m), Slice(c, p + m, k), Slice(c, p, n))
      BY <1>2, <2>1, <3>1, SliceInTwo
    <3> QED
      BY <1>1, <2>1, <2>2, <3>2 DEF Joined
  <2>6. /\ Holds(Kind, g, c, I) /\ VisibleSize(Kind, g, c) = V
        /\ (Kind # "encoded" => g = r.x.f)
    BY <1>2, AfterReadIs DEF V
  <2> HIDE DEF g
  <2>7. /\ a \in BufferT /\ ~a.overrun /\ a.data = b.data /\ a.index = b.index
        /\ a.position = o + k /\ a.reading = b.reading
    <3>1. o + k \in Nat
      BY <1>2, <2>1
    <3> QED
      BY <1>2, <1>3, <2>3, <3>1 DEF BufferT
  <2> HIDE DEF a
  <2>8. p + n = get_position(a)
    <3> DEFINE l == Len(b.data)
    <3>1. get_position(a) = o + k + l - (IF b.reading THEN l ELSE 0)
      BY <2>1, <2>7 DEF get_position
    <3>2. ~b.reading => l = 0
      BY <1>3
    <3> HIDE DEF l
    <3>3. l \in Nat
      BY <1>2 DEF l
    <3> QED
      BY <1>2, <2>1, <3>1, <3>2, <3>3
  <2>9. Ahead(a, c, p + n, L)
    <3>1. Len(a.data) - a.index = 0
      BY <1>2, <2>1, <2>7
    <3> QED
      BY <3>1 DEF Ahead
  <2>10. Fetching(Both(a, g), c, e, I, p + n, L)
    <3>1. Both(a, g).b = a /\ Both(a, g).f = g
      BY BothFields
    <3>2. a.index <= Len(a.data) /\ (~a.reading => a.data = <<>>)
      BY <1>2, <1>3, <2>1, <2>7
    <3>3. Seen(g, c) = Seen(r.x.f, c)
      BY <2>6 DEF Seen, V
    <3>4. p + n \in Nat /\ p + n <= V
      BY <1>2, <2>1
    <3> HIDE DEF Seen
    <3> QED
      BY <1>3, <2>6, <2>7, <2>8, <2>9, <3>1, <3>2, <3>3, <3>4 DEF Fetching
  <2> DEFINE s == r.read \o D
             z == Both(a, g)
  <2>11. z.f = g
    BY BothFields
  <2> HIDE DEF s, z
  <2>12. Reading(s, z).read = s /\ Reading(s, z).x = z
    BY ReadingFields
  <2>13. Fetched(Reading(s, z), f, c, e, I, p, n, L)
    BY <1>1, <2>5, <2>6, <2>10, <2>11, <2>12 DEF Fetched, s, z
  <2> QED
    BY <1>5, <2>4, <2>13 DEF s, z
<1> QED
  BY <1>6, <1>7

(* read_data gives the bytes that it is asked for. *)
LEMMA ReadDataIs ==
  ASSUME NEW x, NEW c, NEW e, NEW I, NEW p \in Nat, NEW L \in Nat, Kind \in Kinds,
         Fetching(x, c, e, I, p, L),
         NEW n \in Nat, p + n <= VisibleSize(Kind, x.f, c), p + n <= L
  PROVE  Fetched(read_data(x, n), x.f, c, e, I, p, n, L)
<1> DEFINE r0 == Reading(<<>>, x)
           f == x.f
           V == VisibleSize(Kind, f, c)
           r1 == TakeBuffered(r0, n)
<1>1. /\ c \in Bytes /\ x.b.index \in Nat /\ Len(x.b.data) \in Nat /\ p + 0 = p
      /\ Holds(Kind, x.f, c, I)
  BY FetchingIs
<1>2. r0.read = <<>> /\ r0.x = x
  BY ReadingFields
<1>3. Slice(c, p, 0) = <<>>
  BY <1>1, SliceAll
<1> HIDE DEF r0
<1>4. Fetched(r0, f, c, e, I, p, 0, L)
  BY <1>1, <1>2, <1>3 DEF Fetched
<1> HIDE DEF r1
<1>5. PICK j \in 0..n :
        /\ Fetched(r1, f, c, e, I, p, j, L)
        /\ j < n => r1.x.b.index = Len(r1.x.b.data)
        /\ r1.x.f = f
        /\ j = n <=> x.b.index + (n - 0) <= Len(x.b.data)
  <2>1. 0 <= n /\ p + n <= VisibleSize(Kind, r0.x.f, c)
    BY <1>2
  <2>2. \E j \in 0..n :
          /\ Fetched(TakeBuffered(r0, n), f, c, e, I, p, j, L)
          /\ j < n => TakeBuffered(r0, n).x.b.index = Len(TakeBuffered(r0, n).x.b.data)
          /\ TakeBuffered(r0, n).x.f = r0.x.f
          /\ j = n <=> r0.x.b.index + (n - 0) <= Len(r0.x.b.data)
    <3> HIDE DEF f
    <3> QED
      BY <1>4, <2>1, TakeBufferedIs
  <2> QED
    BY <1>2, <2>2 DEF r1
<1>6. CASE x.b.index + n <= Len(x.b.data)
  <2>1. read_data(x, n) = r1
    BY <1>6 DEF read_data, r1, r0
  <2>2. j = n
    BY <1>1, <1>5, <1>6
  <2> QED
    BY <1>5, <2>1, <2>2
<1>7. CASE ~(x.b.index + n <= Len(x.b.data)) /\ ~(n <= BufferSize)
  <2>1. read_data(x, n) = TakeFromFile(r1, n)
    BY <1>7 DEF read_data, r1, r0
  <2>2. j \in Nat /\ j <= n /\ p + n <= VisibleSize(Kind, r1.x.f, c)
    BY <1>5
  <2> HIDE DEF f
  <2>3. Fetched(TakeFromFile(r1, n), f, c, e, I, p, n, L)
    BY <1>5, <2>2, TakeFromFileIs
  <2> QED
    BY <2>1, <2>3 DEF f
<1>8. CASE ~(x.b.index + n <= Len(x.b.data)) /\ n <= BufferSize
  <2> DEFINE s == Reading(r1.read, read_buffer(r1.x))
             r2 == TakeBuffered(s, n)
  <2>1. read_data(x, n) = TakeFromFile(r2, n) /\ r2 = TakeNewBuffer(r1, n)
    BY <1>8 DEF read_data, r1, r0, TakeNewBuffer
  <2>2. CASE j < n
    <3>1. j \in Nat /\ r1.x.b.index = Len(r1.x.b.data) /\ j <= n
      BY <1>5, <2>2
    <3> HIDE DEF f
    <3>2. Fetched(s, f, c, e, I, p, j, L) /\ VisibleSize(Kind, s.x.f, c) = VisibleSize(Kind, r1.x.f, c)
      BY <1>5, <3>1, ReadBufferIs
    <3>3. p + n <= VisibleSize(Kind, s.x.f, c)
      BY <1>5, <3>2 DEF f
    <3> HIDE DEF s
    <3>4. PICK k \in j..n :
            /\ Fetched(r2, f, c, e, I, p, k, L)
            /\ k < n => r2.x.b.index = Len(r2.x.b.data)
            /\ r2.x.f = s.x.f
      <4>1. \E k \in j..n :
              /\ Fetched(TakeBuffered(s, n), f, c, e, I, p, k, L)
              /\ k < n => TakeBuffered(s, n).x.b.index = Len(TakeBuffered(s, n).x.b.data)
              /\ TakeBuffered(s, n).x.f = s.x.f
              /\ k = n <=> s.x.b.index + (n - j) <= Len(s.x.b.data)
        BY <3>1, <3>2, <3>3, TakeBufferedIs
      <4> QED
        BY <4>1
    <3> HIDE DEF r2
    <3>5. k \in Nat /\ k <= n /\ p + n <= VisibleSize(Kind, r2.x.f, c)
      BY <3>1, <3>3, <3>4
    <3>6. Fetched(TakeFromFile(r2, n), f, c, e, I, p, n, L)
      BY <3>4, <3>5, TakeFromFileIs
    <3> QED
      BY <2>1, <3>6 DEF f
  <2>3. j < n
    BY <1>1, <1>5, <1>8
  <2> QED
    BY <2>2, <2>3
<1> QED
  BY <1>6, <1>7, <1>8

(* Reading does not change the size of what is seen. *)
LEMMA FetchedSize ==
  ASSUME NEW r, NEW f, NEW c, NEW e, NEW I, NEW p, NEW m, NEW L,
         Fetched(r, f, c, e, I, p, m, L)
  PROVE  VisibleSize(Kind, r.x.f, c) = VisibleSize(Kind, f, c)
BY DEF Fetched, VisibleSize

(* One byte more *)
LEMMA ReadByteIs ==
  ASSUME NEW r, NEW f, NEW c, NEW e, NEW I, NEW p \in Nat, NEW m \in Nat, NEW L \in Nat,
         Kind \in Kinds, Fetched(r, f, c, e, I, p, m, L),
         p + (m + 1) <= VisibleSize(Kind, f, c), p + (m + 1) <= L
  PROVE  Fetched(ReadByte(r), f, c, e, I, p, m + 1, L)
<1> DEFINE s == read_data(r.x, 1)
<1>1. /\ Fetching(r.x, c, e, I, p + m, L) /\ r.read = Slice(c, p, m)
      /\ (Kind # "encoded" => r.x.f = f)
  BY DEF Fetched
<1>2. c \in Bytes /\ Len(c) \in Nat /\ p + m \in Nat /\ VisibleSize(Kind, r.x.f, c) = VisibleSize(Kind, f, c)
      /\ VisibleSize(Kind, r.x.f, c) <= Len(c) /\ VisibleSize(Kind, r.x.f, c) \in Nat
  BY <1>1, FetchingIs, FetchedSize, HoldsIs
<1>3. (p + m) + 1 <= VisibleSize(Kind, r.x.f, c) /\ (p + m) + 1 <= L /\ 1 \in Nat
  BY <1>2
<1>4. Fetched(s, r.x.f, c, e, I, p + m, 1, L)
  BY <1>1, <1>2, <1>3, ReadDataIs
<1> HIDE DEF s
<1>5. /\ Fetching(s.x, c, e, I, (p + m) + 1, L) /\ s.read = Slice(c, p + m, 1)
      /\ (Kind # "encoded" => s.x.f = r.x.f)
  BY <1>4 DEF Fetched
<1>6. Joined(Slice(c, p, m), Slice(c, p + m, 1), Slice(c, p, m + 1))
  <2>1. p + m <= Len(c)
    BY <1>2, <1>3
  <2> QED
    BY <1>2, <2>1, SliceInTwo
<1>7. (p + m) + 1 = p + (m + 1)
  OBVIOUS
<1>8. ReadByte(r).read = r.read \o s.read /\ ReadByte(r).x = s.x
  BY ReadingFields DEF ReadByte, ThenReading, s
<1> QED
  BY <1>1, <1>5, <1>6, <1>7, <1>8 DEF Fetched, Joined

IsReads(g, r, n) == g = [k \in 0..n |-> IF k = 0 THEN r ELSE ReadByte(g[k - 1])]

LEMMA ReadsExist ==
  ASSUME NEW r, NEW n \in Nat
  PROVE  \E g : IsReads(g, r, n)
<1> DEFINE S == {m \in 0..n : \E g : IsReads(g, r, m)}
<1>1. 0 \in S
  <2>1. IsReads([k \in 0..0 |-> r], r, 0)
    BY DEF IsReads
  <2> QED
    BY <2>1
<1>2. ASSUME NEW m \in 0..(n - 1), m \in S
      PROVE  m + 1 \in S
  <2>1. PICK g : IsReads(g, r, m)
    BY <1>2
  <2> DEFINE h == [k \in 0..(m + 1) |-> IF k = m + 1 THEN ReadByte(g[m]) ELSE g[k]]
  <2>2. \A k \in 0..(m + 1) : h[k] = IF k = 0 THEN r ELSE ReadByte(h[k - 1])
    <3> TAKE k \in 0..(m + 1)
    <3>1. CASE k = 0
      BY <2>1, <3>1 DEF IsReads
    <3>2. CASE k = m + 1
      <4>1. k # 0 /\ k - 1 = m /\ m \in 0..(m + 1) /\ m # m + 1
        BY <3>2
      <4>2. h[k] = ReadByte(g[m]) /\ h[m] = g[m]
        BY <3>2, <4>1
      <4> QED
        BY <4>1, <4>2
    <3>3. CASE k \in 1..m
      <4>1. k # 0 /\ k - 1 \in 0..(m + 1) /\ k - 1 # m + 1 /\ k # m + 1 /\ k \in 0..m
        BY <3>3
      <4>2. h[k] = g[k] /\ h[k - 1] = g[k - 1]
        BY <4>1
      <4>3. g[k] = ReadByte(g[k - 1])
        BY <2>1, <4>1 DEF IsReads
      <4> QED
        BY <4>1, <4>2, <4>3
    <3> QED
      BY <3>1, <3>2, <3>3
  <2>3. h = [k \in 0..(m + 1) |-> h[k]]
    OBVIOUS
  <2> HIDE DEF h
  <2>4. IsReads(h, r, m + 1)
    BY <2>2, <2>3 DEF IsReads
  <2>5. m + 1 \in 0..n
    OBVIOUS
  <2> QED
    BY <2>4, <2>5
<1>3. \A m \in 0..n : m \in S
  <2> HIDE DEF S
  <2> QED
    BY <1>1, <1>2, InductionUpTo
<1> QED
  BY <1>3

(* The bytes that follow the first one of an integer *)
LEMMA ReadFollowingIs ==
  ASSUME NEW r, NEW f, NEW c, NEW e, NEW I, NEW p \in Nat, NEW L \in Nat,
         Kind \in Kinds, Fetched(r, f, c, e, I, p, 1, L),
         NEW n \in Nat, n = CompactLength(r.read[1]) - 1,
         p + (n + 1) <= VisibleSize(Kind, f, c), p + (n + 1) <= L,
         VisibleSize(Kind, f, c) \in Nat
  PROVE  Fetched(ReadFollowing(r), f, c, e, I, p, n + 1, L)
<1> DEFINE h == CHOOSE g : IsReads(g, r, n)
           S == {k \in 0..n : Fetched(h[k], f, c, e, I, p, k + 1, L)}
<1>1. ReadFollowing(r) = h[n]
  BY DEF ReadFollowing, IsReads
<1>2. IsReads(h, r, n)
  BY ReadsExist
<1> HIDE DEF h
<1>3. 0 \in S
  <2>1. h[0] = r /\ 0 + 1 = 1
    BY <1>2 DEF IsReads
  <2> QED
    BY <2>1
<1>4. ASSUME NEW k \in 0..(n - 1), k \in S
      PROVE  k + 1 \in S
  <2>1. k + 1 \in 0..n /\ k + 1 # 0 /\ (k + 1) - 1 = k /\ k + 1 \in Nat
    OBVIOUS
  <2>2. h[k + 1] = ReadByte(h[k])
    BY <1>2, <2>1 DEF IsReads
  <2>3. Fetched(h[k], f, c, e, I, p, k + 1, L)
    BY <1>4
  <2>4. p + ((k + 1) + 1) <= VisibleSize(Kind, f, c) /\ p + ((k + 1) + 1) <= L
    <3> DEFINE V == VisibleSize(Kind, f, c)
    <3>1. V \in Nat /\ p + (n + 1) <= V
      OBVIOUS
    <3> HIDE DEF V
    <3>2. p + ((k + 1) + 1) <= V /\ p + ((k + 1) + 1) <= L
      BY <3>1
    <3> QED
      BY <3>2 DEF V
  <2>5. Fetched(ReadByte(h[k]), f, c, e, I, p, (k + 1) + 1, L)
    BY <2>1, <2>3, <2>4, ReadByteIs
  <2> QED
    BY <2>1, <2>2, <2>5
<1>5. \A k \in 0..n : k \in S
  <2> HIDE DEF S
  <2> QED
    BY <1>3, <1>4, InductionUpTo
<1>6. n \in 0..n
  OBVIOUS
<1> QED
  BY <1>1, <1>5, <1>6

(* A part of what is seen *)
LEMMA SeenSlice ==
  ASSUME NEW f, NEW c, NEW I, Kind \in Kinds, Holds(Kind, f, c, I),
         NEW p \in Nat, NEW n \in Nat, p + n <= VisibleSize(Kind, f, c)
  PROVE  Slice(Seen(f, c), p, n) = Slice(c, p, n)
<1> DEFINE V == VisibleSize(Kind, f, c)
<1>1. V \in Nat /\ V <= Len(c) /\ c \in Bytes /\ Len(Slice(c, 0, V)) = V
  BY HoldsIs, SeenIs DEF Seen
<1>2. p + n <= Len(Slice(c, 0, V)) /\ 0 + p = p
  BY <1>1
<1> HIDE DEF V
<1>3. Slice(Slice(c, 0, V), p, n) = Slice(c, 0 + p, n)
  BY <1>1, <1>2, SliceOfSlice
<1> QED
  BY <1>2, <1>3 DEF Seen, V

(* A buffer that has nothing to write may be read from. *)
LEMMA InvIsFetching ==
  ASSUME NEW x, NEW c, NEW e, NEW I, NEW p, NEW L, Kind \in Kinds, BufferInv(x, c, e, I, p, L),
         ~HasWriteData(x.b)
  PROVE  Fetching(x, c, e, I, p, L)
<1>1. CASE Buffered(x, c, e, I, p)
  <2>1. /\ Holds(Kind, x.f, c, I) /\ x.b \in BufferT /\ ~x.b.reading /\ ~x.b.overrun
        /\ x.b.index = Len(x.b.data) /\ p = x.b.position + x.b.index
        /\ x.b.position <= VisibleSize(Kind, x.f, c)
    BY <1>1 DEF Buffered
  <2>2. x.b.index \in Nat /\ x.b.data \in Bytes /\ Len(x.b.data) \in Nat /\ x.b.position \in Nat
    BY <2>1, BufferFields
  <2>3. x.b.index = 0 /\ x.b.data = <<>> /\ p = x.b.position
    BY <2>1, <2>2 DEF HasWriteData, Bytes
  <2>4. e = Seen(x.f, c)
    BY <1>1, <2>3, BufferedIs
  <2>5. get_position(x.b) = p
    BY <2>1, <2>2, <2>3 DEF get_position
  <2>6. Ahead(x.b, c, p, L)
    BY <2>1, <2>2, <2>3 DEF Ahead
  <2> QED
    BY <2>1, <2>2, <2>3, <2>4, <2>5, <2>6 DEF Fetching
<1>2. CASE Fetching(x, c, e, I, p, L)
  BY <1>2
<1> QED
  BY <1>1, <1>2 DEF BufferInv

(* Once it was read from, it may be read from or, if it has nothing left, *)
(* written to.                                                            *)
LEMMA FetchingIsInv ==
  ASSUME NEW x, NEW c, NEW e, NEW I, NEW p, NEW L, Kind \in Kinds, Fetching(x, c, e, I, p, L)
  PROVE  BufferInv(x, c, e, I, p, L) /\ ~HasWriteData(x.b)
<1>1. /\ Holds(Kind, x.f, c, I) /\ x.b \in BufferT /\ ~x.b.overrun /\ x.b.index <= Len(x.b.data)
      /\ (~x.b.reading => x.b.data = <<>>) /\ p \in Nat /\ p <= VisibleSize(Kind, x.f, c)
      /\ e = Seen(x.f, c) /\ x.b.index \in Nat
  BY BufferFields DEF Fetching
<1>2. CASE x.b.reading
  BY <1>1, <1>2 DEF BufferInv, HasWriteData
<1>3. CASE ~x.b.reading
  <2>1. x.b.data = <<>> /\ x.b.index = 0
    BY <1>1, <1>3
  <2>2. x.b.position = p
    BY <2>1, FetchingIs
  <2>3. Buffered(Both(x.b, x.f), c, e, I, p)
    BY <1>1, <1>3, <2>1, <2>2, CleanIs
  <2>4. Buffered(x, c, e, I, p)
    BY <2>3, BothFields DEF Buffered
  <2>5. 0 < BufferSize
    BY SizeAssumption
  <2> QED
    BY <2>1, <2>4, <2>5 DEF BufferInv, HasWriteData
<1> QED
  BY <1>2, <1>3

(* set_position *)
LEMMA SetPositionIs ==
  ASSUME NEW x, NEW c, NEW e, NEW I, NEW p, NEW L, Kind \in Kinds, BufferInv(x, c, e, I, p, L),
         NEW q \in 0..Len(e)
  PROVE  LET y == set_position(x, q) IN
         /\ Clean(y, e, I, q) /\ SameServer(x.f, y.f)
         /\ ~HasWriteData(x.b) => y.f = x.f
<1> DEFINE z == flush(x)
<1>1. Clean(z, e, I, p) /\ SameServer(x.f, z.f) /\ (~HasWriteData(x.b) => z.f = x.f)
  BY FlushedIs
<1> HIDE DEF z
<1>2. Clean(Moved(z, q), e, I, q) /\ Moved(z, q).f = z.f
  BY <1>1, MovedIs
<1>3. set_position(x, q) = Moved(z, q)
  BY DEF set_position, z
<1> QED
  BY <1>1, <1>2, <1>3 DEF SameServer

(* ignore *)
LEMMA IgnoreIs ==
  ASSUME NEW x, NEW c, NEW e, NEW I, NEW p, NEW L, Kind \in Kinds, Fetching(x, c, e, I, p, L),
         NEW n \in Nat, p + n <= Len(e)
  PROVE  LET y == ignore(x, n) IN
         /\ \E d : BufferInv(y, d, e, I, p + n, L)
         /\ y.f = x.f /\ ~HasWriteData(y.b)
<1> DEFINE b == x.b
           i == b.index
           o == b.position
           D == b.data
           l == Len(D)
           a == [b EXCEPT !.index = i + n]
           V == VisibleSize(Kind, x.f, c)
<1>1. /\ Holds(Kind, x.f, c, I) /\ b \in BufferT /\ ~b.overrun /\ b.reading \in BOOLEAN
      /\ i <= l /\ i \in Nat /\ l \in Nat /\ D \in Bytes /\ o \in Nat
      /\ (~b.reading => D = <<>>) /\ p \in Nat /\ p = get_position(b)
      /\ e = Seen(x.f, c) /\ V \in Nat /\ V <= Len(c) /\ Len(c) \in Nat /\ Len(<<>>) = 0
      /\ \A q \in 1..(l - i) : p + q <= Len(c) /\ (p + q <= L => D[i + q] = c[p + q])
  BY BufferFields, HoldsIs DEF Fetching, Ahead
<1>2. Len(e) = V
  BY <1>1, SeenIs
<1>3. CASE i + n <= (IF b.reading THEN l ELSE 0)
  <2>1. ignore(x, n) = Both(a, x.f)
    BY <1>3 DEF ignore
  <2>2. get_position(b) = o + i - (IF b.reading THEN l ELSE 0)
    BY DEF get_position
  <2> HIDE DEF b, D, i, o, l, V
  <2>3. /\ a \in BufferT /\ ~a.overrun /\ a.index = i + n /\ a.data = D
        /\ a.reading = b.reading /\ a.position = o
    <3>1. i + n \in Nat
      BY <1>1
    <3> QED
      BY <1>1, <3>1 DEF BufferT, D, o
  <2> HIDE DEF a
  <2>4. i + n <= l
    BY <1>1, <1>3
  <2>5. p + n = get_position(a)
    <3>1. get_position(a) = o + (i + n) - (IF b.reading THEN l ELSE 0)
      BY <2>3 DEF get_position, l
    <3> QED
      BY <1>1, <2>2, <3>1
  <2>6. Ahead(a, c, p + n, L)
    <3> SUFFICES ASSUME NEW q \in 1..(l - (i + n))
                 PROVE  /\ (p + n) + q <= Len(c)
                        /\ (p + n) + q <= L => D[(i + n) + q] = c[(p + n) + q]
      BY <2>3 DEF Ahead, l
    <3>1. n + q \in 1..(l - i) /\ (i + n) + q = i + (n + q) /\ (p + n) + q = p + (n + q)
      BY <1>1
    <3> QED
      BY <1>1, <3>1
  <2>7. Both(a, x.f).b = a /\ Both(a, x.f).f = x.f
    BY BothFields
  <2>8. a.index <= Len(a.data) /\ (~a.reading => a.data = <<>>) /\ p + n \in Nat /\ p + n <= V
    BY <1>1, <1>2, <2>3, <2>4 DEF l
  <2>9. Fetching(Both(a, x.f), c, e, I, p + n, L)
    BY <1>1, <2>3, <2>5, <2>6, <2>7, <2>8 DEF Fetching, V
  <2>10. BufferInv(Both(a, x.f), c, e, I, p + n, L) /\ ~HasWriteData(a)
    BY <2>7, <2>9, FetchingIsInv
  <2> QED
    BY <2>1, <2>7, <2>10
<1>4. CASE ~(i + n <= (IF b.reading THEN l ELSE 0))
  <2>1. ignore(x, n) = set_position(x, p + n)
    BY <1>1, <1>4 DEF ignore
  <2>2. p + n \in 0..Len(e)
    BY <1>1, <1>2
  <2>3. BufferInv(x, c, e, I, p, L) /\ ~HasWriteData(x.b)
    BY FetchingIsInv
  <2> DEFINE y == set_position(x, p + n)
  <2>4. Clean(y, e, I, p + n) /\ y.f = x.f
    BY <2>2, <2>3, SetPositionIs
  <2> HIDE DEF y
  <2>5. \E d : BufferInv(y, d, e, I, p + n, L)
    BY <2>4, CleanIsInv
  <2>6. y.b.index = 0
    BY <2>4 DEF Clean
  <2>7. ~HasWriteData(y.b)
    BY <2>6 DEF HasWriteData
  <2> QED
    BY <2>1, <2>4, <2>5, <2>7 DEF y
<1> QED
  BY <1>3, <1>4

-----------------------------------------------------------------------------
(***************************************************************************)
(* Compact integers: what is written is read.                              *)
(***************************************************************************)
LEMMA ByteIs ==
  /\ Payload \in Nat \ {0} /\ Byte \in Nat \ {0} /\ Payload <= Byte /\ Byte = 8 * Payload
BY SizeAssumption DEF Byte

LEMMA Products == \A a, b \in Nat \ {0} : a * b \in Nat \ {0}
OBVIOUS

LEMMA PowerIs ==
  /\ Power[0] = 1
  /\ \A k \in 1..7 : Power[k] = Byte * Power[k - 1]
  /\ \A k \in 0..7 : Power[k] \in Nat \ {0}
<1> DEFINE Is(g) == g = [e \in 0..7 |-> IF e = 0 THEN 1 ELSE Byte * g[e - 1]]
           p1 == Byte * 1
           p2 == Byte * p1
           p3 == Byte * p2
           p4 == Byte * p3
           p5 == Byte * p4
           p6 == Byte * p5
           p7 == Byte * p6
           w == [e \in 0..7 |-> IF e = 0 THEN 1 ELSE IF e = 1 THEN p1 ELSE IF e = 2 THEN p2
                  ELSE IF e = 3 THEN p3 ELSE IF e = 4 THEN p4 ELSE IF e = 5 THEN p5
                  ELSE IF e = 6 THEN p6 ELSE p7]
<1>1. Power = CHOOSE g : Is(g)
  BY DEF Power
<1>2. Is(w)
  <2>1. \A e \in 0..7 : w[e] = IF e = 0 THEN 1 ELSE Byte * w[e - 1]
    <3> TAKE e \in 0..7
    <3>1. e = 0 \/ e = 1 \/ e = 2 \/ e = 3 \/ e = 4 \/ e = 5 \/ e = 6 \/ e = 7
      OBVIOUS
    <3>2. /\ w[0] = 1 /\ w[1] = Byte * w[0] /\ w[2] = Byte * w[1] /\ w[3] = Byte * w[2]
          /\ w[4] = Byte * w[3] /\ w[5] = Byte * w[4] /\ w[6] = Byte * w[5]
          /\ w[7] = Byte * w[6]
      <4>1. /\ w[0] = 1 /\ w[1] = p1 /\ w[2] = p2 /\ w[3] = p3
            /\ w[4] = p4 /\ w[5] = p5 /\ w[6] = p6 /\ w[7] = p7
        <5> HIDE DEF p1, p2, p3, p4, p5, p6, p7
        <5> QED
          OBVIOUS
      <4> HIDE DEF w
      <4> QED
        BY <4>1
    <3> HIDE DEF w
    <3> QED
      BY <3>1, <3>2
  <2>2. w = [e \in 0..7 |-> w[e]]
    <3> HIDE DEF p1, p2, p3, p4, p5, p6, p7
    <3> QED
      OBVIOUS
  <2> HIDE DEF w
  <2> QED
    BY <2>1, <2>2
<1>3. Is(Power)
  <2>1. \E g : Is(g)
    BY <1>2
  <2> HIDE DEF Is
  <2> QED
    BY <1>1, <2>1
<1>4. Power[0] = 1
  BY <1>3
<1>5. \A k \in 1..7 : Power[k] = Byte * Power[k - 1]
  BY <1>3
<1> DEFINE S == {k \in 0..7 : Power[k] \in Nat \ {0}}
<1>6. \A k \in 0..6 : k \in S => k + 1 \in S
  <2> SUFFICES ASSUME NEW k \in 0..6, Power[k] \in Nat \ {0}
               PROVE  k + 1 \in 0..7 /\ Power[k + 1] \in Nat \ {0}
    OBVIOUS
  <2>1. k + 1 \in 1..7 /\ (k + 1) - 1 = k
    OBVIOUS
  <2>2. Power[k + 1] = Byte * Power[k]
    BY <1>5, <2>1
  <2> QED
    BY <2>1, <2>2, ByteIs, Products
<1>7. \A k \in 0..7 : k \in S
  <2>1. 0 \in S /\ 7 \in Nat /\ 7 - 1 = 6
    BY <1>4
  <2> HIDE DEF S
  <2> QED
    BY <1>6, <2>1, InductionUpTo
<1> QED
  BY <1>4, <1>5, <1>7

(* Division *)
LEMMA DivisionIs ==
  ASSUME NEW n \in Nat, NEW d \in Nat \ {0}
  PROVE  /\ n \div d \in Nat /\ n % d \in 0..(d - 1)
         /\ n = (n \div d) * d + (n % d)
OBVIOUS

LEMMA Monotone ==
  ASSUME NEW a \in Nat, NEW b \in Nat, NEW d \in Nat, a <= b
  PROVE  a * d <= b * d
<1>1. (b - a) \in Nat /\ (b - a) * d \in Nat
  OBVIOUS
<1>2. (b - a) * d = b * d - a * d
  OBVIOUS
<1> QED
  BY <1>1, <1>2

LEMMA DivisionUnique ==
  ASSUME NEW n \in Nat, NEW d \in Nat \ {0}, NEW q \in Nat, NEW r \in 0..(d - 1), n = q * d + r
  PROVE  n \div d = q /\ n % d = r
<1> DEFINE s == n \div d
           t == n % d
<1>1. s \in Nat /\ t \in 0..(d - 1) /\ n = s * d + t
  BY DivisionIs
<1> HIDE DEF s, t
<1>2. ~(s < q)
  <2> SUFFICES ASSUME s < q PROVE FALSE
    OBVIOUS
  <2>1. (s + 1) * d <= q * d
    BY <1>1, Monotone
  <2>2. (s + 1) * d = s * d + d /\ s * d \in Nat /\ q * d \in Nat
    BY <1>1
  <2> QED
    BY <1>1, <2>1, <2>2
<1>3. ~(q < s)
  <2> SUFFICES ASSUME q < s PROVE FALSE
    OBVIOUS
  <2>1. (q + 1) * d <= s * d
    BY <1>1, Monotone
  <2>2. (q + 1) * d = q * d + d /\ s * d \in Nat /\ q * d \in Nat
    BY <1>1
  <2> QED
    BY <1>1, <2>1, <2>2
<1>4. s = q
  BY <1>1, <1>2, <1>3
<1>5. t = r
  <2>1. s * d = q * d /\ q * d \in Nat
    BY <1>4
  <2> QED
    BY <1>1, <2>1
<1> QED
  BY <1>4, <1>5 DEF s, t

LEMMA DivisionTwice ==
  ASSUME NEW n \in Nat, NEW C \in Nat \ {0}, NEW B \in Nat \ {0}
  PROVE  (n \div C) \div B = n \div (B * C)
<1> DEFINE q == n \div C
           r == n % C
           s == q \div B
           t == q % B
           D == B * C
<1>1. q \in Nat /\ r \in 0..(C - 1) /\ n = q * C + r
  BY DivisionIs
<1>2. s \in Nat /\ t \in 0..(B - 1) /\ q = s * B + t
  BY <1>1, DivisionIs
<1> HIDE DEF q, r, s, t
<1>3. n = s * (B * C) + (t * C + r)
  <2>1. q * C = (s * B + t) * C
    BY <1>2
  <2>2. (s * B + t) * C = (s * B) * C + t * C
    BY <1>2
  <2>3. (s * B) * C = s * (B * C)
    BY <1>2
  <2>4. (s * (B * C)) \in Nat /\ t * C \in Nat /\ r \in Nat
    BY <1>1, <1>2
  <2> QED
    BY <1>1, <2>1, <2>2, <2>3, <2>4
<1>4. t * C + r \in 0..(B * C - 1)
  <2>1. t + 1 \in Nat /\ t + 1 <= B
    BY <1>2
  <2>2. (t + 1) * C <= B * C
    BY <2>1, Monotone
  <2>3. (t + 1) * C = t * C + C /\ t * C \in Nat /\ B * C \in Nat
    BY <1>2
  <2> QED
    BY <1>1, <2>2, <2>3
<1>5. D \in Nat \ {0}
  BY Products
<1>6. n = s * D + (t * C + r) /\ t * C + r \in 0..(D - 1)
  BY <1>3, <1>4
<1> DEFINE v == t * C + r
<1> HIDE DEF D, v
<1>7. n = s * D + v /\ v \in 0..(D - 1)
  BY <1>6 DEF v
<1>8. n \div D = s
  BY <1>2, <1>5, <1>7, DivisionUnique
<1> QED
  BY <1>8 DEF D, s, q

(* The number of the bytes after the first one *)
LEMMA ExtraBytesIs ==
  ASSUME NEW x \in 0..(Payload * Power[7] - 1)
  PROVE  ExtraBytes(x) \in 0..7 /\ x < Payload * Power[ExtraBytes(x)]
<1> DEFINE T == {e \in 0..7 : e = 7 \/ x < Payload * Power[e]}
           Is(e) == /\ e \in 0..7 /\ (e = 7 \/ x < Payload * Power[e])
                    /\ \A d \in 0..(e - 1) : x >= Payload * Power[d]
<1>1. \A d \in 0..7 : Payload * Power[d] \in Nat
  BY PowerIs, ByteIs
<1>2. PICK e \in T : \A d \in T : e <= d
  <2>1. T \in SUBSET Nat /\ T # {}
    <3>1. 7 \in T
      OBVIOUS
    <3> QED
      BY <3>1
  <2> HIDE DEF T
  <2> QED
    BY <2>1, LeastNat
<1>3. Is(e)
  <2>1. ASSUME NEW d \in 0..(e - 1)
        PROVE  x >= Payload * Power[d]
    <3>1. d \in 0..7 /\ ~(e <= d)
      BY <1>2
    <3>2. ~(x < Payload * Power[d])
      BY <1>2, <3>1
    <3> QED
      BY <1>1, <3>1, <3>2
  <2> QED
    BY <1>2, <2>1
<1>4. ExtraBytes(x) = CHOOSE d \in 0..7 : Is(d)
  BY DEF ExtraBytes
<1>5. Is(ExtraBytes(x))
  <2>1. \E d \in 0..7 : Is(d)
    BY <1>3
  <2> HIDE DEF Is
  <2> QED
    BY <1>4, <2>1
<1> DEFINE k == ExtraBytes(x)
<1>6. k \in 0..7 /\ (k = 7 \/ x < Payload * Power[k])
  BY <1>5
<1> HIDE DEF k
<1>7. x < Payload * Power[7]
  BY <1>1
<1>8. x < Payload * Power[k]
  BY <1>6, <1>7
<1> QED
  BY <1>6, <1>8 DEF k

(* compact_read gives what compact_write was given, and the first byte tells *)
(* how many there are.                                                       *)
LEMMA CompactIs ==
  ASSUME NEW x \in 0..(Payload * Power[7] - 1)
  PROVE  LET w == compact_write(x) IN
         /\ w \in Bytes /\ Len(w) \in Nat \ {0} /\ Len(w) = CompactLength(w[1])
         /\ compact_read(w) = x
<1> DEFINE e == ExtraBytes(x)
           hi == x \div Power[e]
           a == e * Payload + hi
           b == [i \in 1..e |-> (x \div Power[e - i]) % Byte]
           w == compact_write(x)
<1>1. e \in 0..7 /\ x < Payload * Power[e] /\ x \in Nat
  BY ExtraBytesIs, PowerIs, ByteIs
<1>2. w = <<a>> \o b
  <2>1. ~(x < 0)
    BY <1>1
  <2> QED
    BY <2>1 DEF compact_write
<1> HIDE DEF e, w
<1>3. hi \in Nat /\ hi < Payload
  <2> DEFINE P == Power[e]
             r == x % P
  <2>1. P \in Nat \ {0}
    BY <1>1, PowerIs
  <2>2. hi \in Nat /\ r \in Nat /\ x = hi * P + r
    <3> HIDE DEF P
    <3>1. x \div P \in Nat /\ x % P \in 0..(P - 1) /\ x = (x \div P) * P + (x % P)
      BY <1>1, <2>1, DivisionIs
    <3> QED
      BY <2>1, <3>1 DEF P
  <2>3. x < Payload * P
    BY <1>1
  <2> HIDE DEF P, r, hi
  <2>4. ~(Payload <= hi)
    <3> SUFFICES ASSUME Payload <= hi PROVE FALSE
      OBVIOUS
    <3>1. Payload * P <= hi * P
      BY <2>1, <2>2, ByteIs, Monotone
    <3>2. hi * P \in Nat /\ Payload * P \in Nat
      BY <2>1, <2>2, ByteIs
    <3> QED
      BY <1>1, <2>2, <2>3, <3>1, <3>2
  <2> QED
    BY <2>2, <2>4, ByteIs
<1>4. a \in Nat
  <2>1. e * Payload \in Nat
    BY <1>1, ByteIs
  <2> QED
    BY <1>3, <2>1
<1>5. a \div Payload = e /\ a % Payload = hi
  <2> HIDE DEF a
  <2>1. a = e * Payload + hi
    BY DEF a
  <2> HIDE DEF hi
  <2>2. hi \in 0..(Payload - 1) /\ e \in Nat
    BY <1>1, <1>3, ByteIs
  <2> QED
    BY <1>4, <2>1, <2>2, ByteIs, DivisionUnique
<1>6. \A k \in 0..7 : x \div Power[k] \in Nat
  <2> TAKE k \in 0..7
  <2>1. Power[k] \in Nat \ {0}
    BY PowerIs
  <2> QED
    BY <1>1, <2>1, DivisionIs
<1>7. \A i \in 1..e : b[i] \in Nat /\ b[i] = (x \div Power[e - i]) % Byte
  <2> SUFFICES ASSUME NEW i \in 1..e PROVE (x \div Power[e - i]) % Byte \in Nat
    OBVIOUS
  <2>1. e - i \in 0..7
    BY <1>1
  <2> DEFINE n == x \div Power[e - i]
  <2>2. n \in Nat
    BY <1>6, <2>1
  <2> HIDE DEF n
  <2>3. n % Byte \in 0..(Byte - 1) /\ Byte \in Nat
    BY <2>2, ByteIs, DivisionIs
  <2>4. n % Byte \in Nat
    BY <2>3
  <2> QED
    BY <2>4 DEF n
<1>8. b \in Bytes /\ Len(b) = e
  <2>1. b \in [1..e -> Nat] /\ e \in Nat
    BY <1>1, <1>7
  <2> HIDE DEF b
  <2> QED
    BY <2>1 DEF Bytes
<1> HIDE DEF hi, a, b
<1>9. <<a>> \in Bytes /\ Len(<<a>>) = 1 /\ <<a>>[1] = a
  BY <1>4 DEF Bytes
<1>10. IsCat(w, <<a>>, b)
  BY <1>2, <1>8, <1>9, CatIs
<1>11. /\ w \in Bytes /\ Len(w) = 1 + e /\ w[1] = a
       /\ \A i \in 1..e : w[i + 1] = b[i]
  <2>1. w \in Bytes /\ Len(w) = 1 + e
    BY <1>8, <1>9, <1>10 DEF IsCat
  <2>2. 1 \in 1..Len(w)
    BY <1>1, <2>1
  <2>3. w[1] = a
    BY <1>9, <1>10, <2>2 DEF IsCat
  <2>4. \A i \in 1..e : w[i + 1] = b[i]
    <3> TAKE i \in 1..e
    <3>1. i + 1 \in 1..Len(w) /\ ~(i + 1 <= 1) /\ (i + 1) - 1 = i
      BY <1>1, <2>1
    <3> QED
      BY <1>9, <1>10, <3>1 DEF IsCat
  <2> QED
    BY <2>1, <2>3, <2>4
<1>12. Len(w) = CompactLength(w[1]) /\ Len(w) \in Nat \ {0}
  BY <1>1, <1>5, <1>11 DEF CompactLength
<1> DEFINE Is(g) == g = [i \in 1..Len(w) |->
                          IF i = 1 THEN w[1] % Payload ELSE g[i - 1] * Byte + w[i]]
           h == CHOOSE g : Is(g)
<1>13. compact_read(w) = h[Len(w)]
  BY DEF compact_read
<1>14. ASSUME NEW k \in 0..(e - 1)
       PROVE  x \div Power[k] = (x \div Power[k + 1]) * Byte + b[e - k]
  <2> DEFINE n == x \div Power[k]
  <2>1. k \in 0..7 /\ k + 1 \in 1..7 /\ (k + 1) - 1 = k /\ e - k \in 1..e /\ e - (e - k) = k
    BY <1>1
  <2>2. Power[k] \in Nat \ {0} /\ Power[k + 1] = Byte * Power[k]
    BY <2>1, PowerIs
  <2>3. (x \div Power[k]) \div Byte = x \div (Byte * Power[k])
    BY <1>1, <2>2, ByteIs, DivisionTwice
  <2>4. b[e - k] = n % Byte
    BY <1>7, <2>1
  <2>5. n \in Nat /\ n \div Byte = x \div Power[k + 1]
    BY <1>6, <2>1, <2>2, <2>3
  <2> HIDE DEF n
  <2>6. n = (n \div Byte) * Byte + (n % Byte)
    <3>1. Byte \in Nat \ {0}
      BY ByteIs
    <3> QED
      BY <2>5, <3>1, DivisionIs
  <2>7. n = (x \div Power[k + 1]) * Byte + b[e - k]
    BY <2>4, <2>5, <2>6
  <2> QED
    BY <2>7 DEF n
<1>15. \E g : Is(g)
  <2> DEFINE g == [i \in 1..Len(w) |-> x \div Power[e + 1 - i]]
  <2>1. \A i \in 1..Len(w) : g[i] = IF i = 1 THEN w[1] % Payload ELSE g[i - 1] * Byte + w[i]
    <3> TAKE i \in 1..Len(w)
    <3>1. CASE i = 1
      <4>1. e + 1 - i = e
        BY <1>1, <3>1
      <4> QED
        BY <1>5, <1>11, <3>1, <4>1 DEF hi
    <3>2. CASE i # 1
      <4> DEFINE k == e + 1 - i
      <4>1. /\ k \in 0..(e - 1) /\ i - 1 \in 1..Len(w) /\ e + 1 - (i - 1) = k + 1
            /\ e - k = i - 1 /\ i - 1 \in 1..e /\ (i - 1) + 1 = i
        BY <1>1, <1>11, <3>2
      <4>2. g[i] = x \div Power[k] /\ g[i - 1] = x \div Power[k + 1]
        BY <4>1
      <4> HIDE DEF k, g
      <4>3. x \div Power[k] = (x \div Power[k + 1]) * Byte + b[e - k]
        BY <1>14, <4>1
      <4>4. b[e - k] = w[i]
        BY <1>11, <4>1
      <4> QED
        BY <3>2, <4>2, <4>3, <4>4
    <3> QED
      BY <3>1, <3>2
  <2>2. g = [i \in 1..Len(w) |-> g[i]]
    OBVIOUS
  <2> HIDE DEF g
  <2>3. Is(g)
    BY <2>1, <2>2
  <2> QED
    BY <2>3
<1>16. Is(h)
  <2> HIDE DEF Is
  <2> QED
    BY <1>15
<1> HIDE DEF h
<1> DEFINE S == {k \in 0..e : h[k + 1] = x \div Power[e - k]}
<1>17. 0 \in S
  <2>1. 0 + 1 = 1 /\ 1 \in 1..Len(w) /\ e - 0 = e /\ 0 \in 0..e
    BY <1>1, <1>11
  <2>2. h[1] = w[1] % Payload
    BY <1>16, <2>1
  <2> QED
    BY <1>5, <1>11, <2>1, <2>2 DEF hi
<1>18. ASSUME NEW k \in 0..(e - 1), k \in S
       PROVE  k + 1 \in S
  <2>1. /\ (k + 1) + 1 \in 1..Len(w) /\ (k + 1) + 1 # 1 /\ ((k + 1) + 1) - 1 = k + 1
        /\ k + 1 \in 0..e /\ k + 1 \in 1..e /\ e - (k + 1) \in 0..(e - 1)
        /\ e - (e - (k + 1)) = k + 1 /\ (e - (k + 1)) + 1 = e - k
    BY <1>1, <1>11
  <2>2. h[(k + 1) + 1] = h[k + 1] * Byte + w[(k + 1) + 1]
    BY <1>16, <2>1
  <2>3. w[(k + 1) + 1] = b[k + 1]
    BY <1>11, <2>1
  <2>4. x \div Power[e - (k + 1)] = (x \div Power[e - k]) * Byte + b[k + 1]
    BY <1>14, <2>1
  <2>5. h[k + 1] = x \div Power[e - k]
    BY <1>18
  <2> QED
    BY <2>1, <2>2, <2>3, <2>4, <2>5
<1>19. e \in S
  <2>1. e \in Nat /\ e \in 0..e
    BY <1>1
  <2> HIDE DEF S
  <2>2. \A k \in 0..e : k \in S
    BY <1>17, <1>18, <2>1, InductionUpTo
  <2> QED
    BY <2>1, <2>2
<1>20. compact_read(w) = x
  <2>1. h[e + 1] = x \div Power[e - e]
    BY <1>19
  <2>2. e - e = 0 /\ e + 1 = Len(w) /\ Power[0] = 1
    BY <1>1, <1>11, PowerIs
  <2>3. x \div 1 = x
    <3>1. x = x * 1 + 0 /\ 0 \in 0..(1 - 1) /\ 1 \in Nat \ {0}
      BY <1>1
    <3> QED
      BY <1>1, <3>1, DivisionUnique
  <2> QED
    BY <1>13, <2>1, <2>2, <2>3
<1> QED
  BY <1>11, <1>12, <1>20 DEF w

(* compact_read gives back every integer that compact_write can encode, and    *)
(* takes as many bytes as compact_write wrote; so do the references, which are *)
(* shifted by one, from the null one on.                                       *)
THEOREM ReferencesRoundTrip ==
  \A x \in 0..(Payload * Power[7] - 1) :
    /\ compact_read(compact_write(x)) = x
    /\ CompactLength(compact_write(x)[1]) = Len(compact_write(x))
    /\ read_reference(write_reference(x - 1)) = x - 1
<1> TAKE x \in 0..(Payload * Power[7] - 1)
<1>1. compact_read(compact_write(x)) = x /\ Len(compact_write(x)) = CompactLength(compact_write(x)[1])
  BY CompactIs
<1>2. (x - 1) + 1 = x
  BY PowerIs, ByteIs
<1> QED
  BY <1>1, <1>2 DEF read_reference, write_reference

-----------------------------------------------------------------------------
(***************************************************************************)
(* filebuf, over a Memory_File.  e is what the file would hold without the *)
(* buffer, i the position of the reads and o that of the writes.           *)
(***************************************************************************)
StreamT == [in_pos : Nat, out_pos : Nat, get : Bytes, gptr : Nat, put : Bytes]

StreamInv(x, e, i, o) ==
  /\ x.f \in FileT /\ x.b \in StreamT
  /\ i = x.b.in_pos + x.b.gptr /\ o = x.b.out_pos + Len(x.b.put)
  /\ x.b.gptr <= Len(x.b.get)
  /\ x.b.out_pos <= Len(x.f.data)
  /\ e = Patched(x.f.data, x.b.put, x.b.out_pos)
  /\ i <= Len(e)
  /\ x.b.get # <<>> => x.b.put = <<>> /\ IsPart(x.b.get, x.f.data, x.b.in_pos, Len(x.b.get))

LEMMA StreamFields ==
  ASSUME NEW x, NEW e, NEW i, NEW o, StreamInv(x, e, i, o)
  PROVE  /\ x.b.in_pos \in Nat /\ x.b.out_pos \in Nat /\ x.b.get \in Bytes /\ x.b.gptr \in Nat
         /\ x.b.put \in Bytes /\ Len(x.b.get) \in Nat /\ Len(x.b.put) \in Nat
         /\ x.f.data \in Bytes /\ Len(x.f.data) \in Nat
         /\ e \in Bytes /\ Len(e) \in Nat /\ Len(x.f.data) <= Len(e)
         /\ i \in 0..Len(e) /\ o \in 0..Len(e)
         /\ x.b.put = <<>> => e = x.f.data
         /\ x.b.get = <<>> => x.b.gptr = 0
<1>1. /\ x.b.in_pos \in Nat /\ x.b.out_pos \in Nat /\ x.b.get \in Bytes /\ x.b.gptr \in Nat
      /\ x.b.put \in Bytes /\ x.f.data \in Bytes
      /\ i = x.b.in_pos + x.b.gptr /\ o = x.b.out_pos + Len(x.b.put)
      /\ x.b.gptr <= Len(x.b.get) /\ x.b.out_pos <= Len(x.f.data) /\ i <= Len(e)
      /\ e = Patched(x.f.data, x.b.put, x.b.out_pos)
  BY FileFields DEF StreamInv, StreamT
<1> DEFINE d == x.f.data
           put == x.b.put
           op == x.b.out_pos
<1>2. Len(x.b.get) \in Nat /\ Len(put) \in Nat /\ Len(d) \in Nat /\ Len(<<>>) = 0
  BY <1>1, LenIs
<1>3. IsPatched(e, d, put, op)
  BY <1>1, PatchedIs
<1>4. put = <<>> => e = d
  BY <1>1, <1>2, PatchedNothing
<1> HIDE DEF d, put, op
<1>5. e \in Bytes /\ Len(e) \in Nat /\ Len(d) <= Len(e) /\ op + Len(put) <= Len(e)
  BY <1>1, <1>2, <1>3, LenIs DEF IsPatched, op
<1>6. i \in 0..Len(e) /\ o \in 0..Len(e)
  <2> DEFINE a == x.b.in_pos
             k == x.b.gptr
  <2>1. i = a + k /\ a \in Nat /\ k \in Nat /\ o = op + Len(put) /\ op \in Nat
    BY <1>1 DEF op, put
  <2> HIDE DEF a, k
  <2> QED
    <3>1. Len(e) \in Nat /\ op + Len(put) <= Len(e) /\ Len(put) \in Nat
      BY <1>2, <1>5
    <3>2. i <= Len(e)
      BY <1>1
    <3> QED
      BY <2>1, <3>1, <3>2
<1>7. x.b.get = <<>> => x.b.gptr = 0
  BY <1>1, <1>2
<1> QED
  BY <1>1, <1>2, <1>4, <1>5, <1>6, <1>7 DEF d, put, op

(* What a file in memory holds is what was written. *)
LEMMA MemoryIs ==
  ASSUME NEW f \in FileT, Kind = "memory"
  PROVE  /\ Holds(Kind, f, f.data, {}) /\ Kind \in Kinds /\ AfterRead(f) = f
         /\ get_size(f) = Len(f.data)
         /\ \A a, n : pread(f, a, n) = Slice(f.data, a, n)
         /\ \A a, n \in Nat : full_pread(f, a, n) = Slice(f.data, a, n)
         /\ \A data \in Bytes, a \in Nat :
              /\ pwrite(f, data, a) \in FileT
              /\ pwrite(f, data, a).data = Patched(f.data, data, a)
<1>1. Holds(Kind, f, f.data, {}) /\ Kind \in Kinds
  BY FileFields DEF Holds, Kinds
<1>2. \A a, n \in Nat : full_pread(f, a, n) = Slice(f.data, a, n)
  <2> TAKE a \in Nat, n \in Nat
  <2> DEFINE c == f.data
             I == {}
  <2>1. Holds(Kind, f, c, I) /\ Kind # "server"
    BY <1>1
  <2> HIDE DEF c, I
  <2>2. full_pread(f, a, n) = Slice(c, a, n)
    BY <1>1, <2>1, FullPreadIs
  <2> QED
    BY <2>2 DEF c
<1>3. \A a, n : pread(f, a, n) = Slice(f.data, a, n)
  BY DEF pread
<1>4. ASSUME NEW data \in Bytes, NEW a \in Nat
      PROVE  pwrite(f, data, a) \in FileT /\ pwrite(f, data, a).data = Patched(f.data, data, a)
  <2> DEFINE q == Patched(f.data, data, a)
             g == [f EXCEPT !.data = q]
  <2>1. pwrite(f, data, a) = g
    BY DEF pwrite
  <2>2. q \in Bytes
    BY FileFields, PatchedIs DEF IsPatched
  <2> HIDE DEF q
  <2>3. g \in FileT /\ g.data = q
    BY <2>2 DEF FileT
  <2> QED
    BY <2>1, <2>3 DEF q
<1> QED
  BY <1>1, <1>2, <1>3, <1>4 DEF AfterRead, get_size

(* syncg: the get area is given up. *)
LEMMA SyncgIs ==
  ASSUME NEW x, NEW e, NEW i, NEW o, StreamInv(x, e, i, o)
  PROVE  LET y == syncg(x) IN
         /\ StreamInv(y, e, i, o) /\ y.f = x.f
         /\ y.b.get = <<>> /\ y.b.gptr = 0 /\ y.b.in_pos = i
         /\ y.b.put = x.b.put /\ y.b.out_pos = x.b.out_pos
<1> DEFINE b == x.b
           a == [b EXCEPT !.in_pos = b.in_pos + b.gptr, !.get = <<>>, !.gptr = 0]
<1>1. syncg(x) = Both(a, x.f)
  BY DEF syncg
<1>2. /\ b \in StreamT /\ b.in_pos \in Nat /\ b.gptr \in Nat /\ i \in Nat /\ i + 0 = i
      /\ i = b.in_pos + b.gptr /\ <<>> \in Bytes /\ Len(<<>>) = 0
  BY StreamFields DEF StreamInv, Bytes
<1> HIDE DEF b
<1>3. /\ a \in StreamT /\ a.in_pos = i /\ a.get = <<>> /\ a.gptr = 0
      /\ a.put = b.put /\ a.out_pos = b.out_pos
  BY <1>2 DEF StreamT
<1> HIDE DEF a
<1>4. Both(a, x.f).b = a /\ Both(a, x.f).f = x.f
  BY BothFields
<1>5. StreamInv(Both(a, x.f), e, i, o)
  BY <1>2, <1>3, <1>4 DEF StreamInv, b
<1> QED
  BY <1>1, <1>3, <1>4, <1>5 DEF b

(* syncp: the put area is written. *)
LEMMA SyncpIs ==
  ASSUME NEW x, NEW e, NEW i, NEW o, StreamInv(x, e, i, o), Kind = "memory"
  PROVE  LET y == syncp(x) IN
         /\ StreamInv(y, e, i, o) /\ y.f.data = e
         /\ y.b.put = <<>> /\ y.b.out_pos = o
         /\ y.b.get = x.b.get /\ y.b.gptr = x.b.gptr /\ y.b.in_pos = x.b.in_pos
<1> DEFINE b == x.b
           a == [b EXCEPT !.out_pos = b.out_pos + Len(b.put), !.put = <<>>]
           g == pwrite(x.f, b.put, b.out_pos)
<1>1. /\ b \in StreamT /\ b.put \in Bytes /\ Len(b.put) \in Nat /\ b.out_pos \in Nat
      /\ o = b.out_pos + Len(b.put) /\ <<>> \in Bytes /\ Len(<<>>) = 0
      /\ e = Patched(x.f.data, b.put, b.out_pos) /\ x.f \in FileT
      /\ o \in 0..Len(e) /\ Len(e) \in Nat /\ e \in Bytes /\ i = b.in_pos + b.gptr
      /\ b.gptr <= Len(b.get) /\ i <= Len(e) /\ (b.put = <<>> => e = x.f.data)
      /\ (b.get # <<>> => b.put = <<>>) /\ b.in_pos \in Nat
  BY StreamFields DEF StreamInv, Bytes
<1>2. CASE b.put = <<>>
  <2>1. syncp(x) = x
    BY <1>2 DEF syncp
  <2>2. o = b.out_pos
    BY <1>1, <1>2
  <2> QED
    BY <1>1, <1>2, <2>1, <2>2
<1>3. CASE b.put # <<>>
  <2>1. syncp(x) = Both(a, g)
    BY <1>3 DEF syncp
  <2>2. g \in FileT /\ g.data = e
    BY <1>1, MemoryIs
  <2> HIDE DEF b, g
  <2>3. /\ a \in StreamT /\ a.in_pos = b.in_pos /\ a.get = b.get /\ a.gptr = b.gptr
        /\ a.put = <<>> /\ a.out_pos = o
    <3>1. a = [b EXCEPT !.out_pos = o, !.put = <<>>] /\ o \in Nat
      BY <1>1
    <3> HIDE DEF a
    <3> QED
      BY <1>1, <3>1 DEF StreamT
  <2> HIDE DEF a
  <2>4. Both(a, g).b = a /\ Both(a, g).f = g
    BY BothFields
  <2>5. e = Patched(e, <<>>, o)
    BY <1>1, PatchedNothing
  <2>6. o = o + 0 /\ o <= Len(e)
    BY <1>1
  <2>7. a.get = <<>>
    BY <1>1, <1>3, <2>3
  <2>8. StreamInv(Both(a, g), e, i, o)
    BY <1>1, <2>2, <2>3, <2>4, <2>5, <2>6, <2>7 DEF StreamInv
  <2> QED
    BY <2>1, <2>2, <2>3, <2>4, <2>8 DEF b
<1> QED
  BY <1>2, <1>3

(* sync *)
LEMMA SyncIs ==
  ASSUME NEW x, NEW e, NEW i, NEW o, StreamInv(x, e, i, o), Kind = "memory"
  PROVE  LET y == sync(x) IN
         /\ StreamInv(y, e, i, o) /\ y.f.data = e
         /\ y.b.put = <<>> /\ y.b.out_pos = o
         /\ y.b.get = <<>> /\ y.b.gptr = 0 /\ y.b.in_pos = i
<1> DEFINE z == syncg(x)
<1>1. StreamInv(z, e, i, o) /\ z.b.get = <<>> /\ z.b.gptr = 0 /\ z.b.in_pos = i
  BY SyncgIs
<1> HIDE DEF z
<1> DEFINE y == syncp(z)
<1>2. /\ StreamInv(y, e, i, o) /\ y.f.data = e
      /\ y.b.put = <<>> /\ y.b.out_pos = o
      /\ y.b.get = z.b.get /\ y.b.gptr = z.b.gptr /\ y.b.in_pos = z.b.in_pos
  <2>1. StreamInv(z, e, i, o)
    BY <1>1
  <2> QED
    BY <2>1, SyncpIs
<1> HIDE DEF y
<1>3. sync(x) = y
  BY DEF sync, y, z
<1> QED
  BY <1>1, <1>2, <1>3

(* seekpos and seekoff *)
LEMMA SeekposIs ==
  ASSUME NEW x, NEW e, NEW i, NEW o, StreamInv(x, e, i, o), Kind = "memory",
         NEW p \in 0..Len(e), NEW which
  PROVE  StreamInv(seekpos(x, p, which), e, IF "in" \in which THEN p ELSE i,
                   IF "out" \in which THEN p ELSE o)
<1> DEFINE y == sync(x)
           b == y.b
           i2 == IF "in" \in which THEN p ELSE i
           o2 == IF "out" \in which THEN p ELSE o
           a == [b EXCEPT !.in_pos = i2, !.out_pos = o2]
<1>2. /\ StreamInv(y, e, i, o) /\ y.f.data = e /\ b.put = <<>> /\ b.out_pos = o
      /\ b.get = <<>> /\ b.gptr = 0 /\ b.in_pos = i
  BY SyncIs
<1>3. seekpos(x, p, which) = Both(a, y.f)
  BY <1>2 DEF seekpos
<1> HIDE DEF y
<1>4. e \in Bytes /\ i \in 0..Len(e) /\ o \in 0..Len(e) /\ Len(e) \in Nat
  BY <1>2, StreamFields
<1>5. i2 \in 0..Len(e) /\ o2 \in 0..Len(e) /\ i2 \in Nat /\ o2 \in Nat
  BY <1>4
<1>6. b \in StreamT /\ y.f \in FileT
  BY <1>2 DEF StreamInv
<1> HIDE DEF b, i2, o2
<1>7. /\ a \in StreamT /\ a.in_pos = i2 /\ a.out_pos = o2
      /\ a.get = <<>> /\ a.gptr = 0 /\ a.put = <<>>
  BY <1>2, <1>5, <1>6 DEF StreamT
<1> HIDE DEF a
<1>8. Patched(e, <<>>, o2) = e /\ Len(<<>>) = 0 /\ i2 + 0 = i2 /\ o2 + 0 = o2 /\ i2 <= Len(e) /\ o2 <= Len(e)
  BY <1>4, <1>5, PatchedNothing
<1>9. Both(a, y.f).b = a /\ Both(a, y.f).f = y.f
  BY BothFields
<1> DEFINE w == Both(a, y.f)
<1>10. w.b = a /\ w.f = y.f
  BY <1>9
<1> HIDE DEF w
<1>11. StreamInv(w, e, i2, o2)
  <2>1. w.b.gptr <= Len(w.b.get) /\ w.b.out_pos <= Len(w.f.data) /\ w.b.get = <<>>
    BY <1>2, <1>7, <1>8, <1>10
  <2>2. i2 = w.b.in_pos + w.b.gptr /\ o2 = w.b.out_pos + Len(w.b.put) /\ i2 <= Len(e)
    BY <1>7, <1>8, <1>10
  <2>3. e = Patched(w.f.data, w.b.put, w.b.out_pos)
    BY <1>2, <1>7, <1>8, <1>10
  <2> QED
    BY <1>6, <1>7, <1>10, <2>1, <2>2, <2>3 DEF StreamInv
<1> QED
  BY <1>3, <1>11 DEF i2, o2, w

LEMMA SeekoffIs ==
  ASSUME NEW x, NEW e, NEW i, NEW o, StreamInv(x, e, i, o), Kind = "memory",
         NEW dir \in {"beg", "cur", "end"}, NEW which, NEW off \in Int,
         NEW p \in 0..Len(e),
         p = off + CASE dir = "beg" -> 0
                     [] dir = "end" -> Len(e)
                     [] dir = "cur" /\ "in" \in which -> i
                     [] dir = "cur" /\ "in" \notin which -> o
  PROVE  StreamInv(seekoff(x, off, dir, which), e, IF "in" \in which THEN p ELSE i,
                   IF "out" \in which THEN p ELSE o)
<1> DEFINE y == IF dir = "end" THEN syncp(x) ELSE x
           base == CASE dir = "beg" -> 0
                     [] dir = "cur" /\ "in" \in which -> x.b.in_pos + x.b.gptr
                     [] dir = "cur" /\ "in" \notin which -> x.b.out_pos + Len(x.b.put)
                     [] dir = "end" -> get_size(y.f)
<1>1. seekoff(x, off, dir, which) = seekpos(y, base + off, which)
  BY DEF seekoff
<1>2. StreamInv(y, e, i, o) /\ (dir = "end" => y.f.data = e)
  BY SyncpIs
<1>3. dir = "end" => get_size(y.f) = Len(e)
  <2>1. y.f \in FileT
    BY <1>2 DEF StreamInv
  <2> HIDE DEF y
  <2> QED
    BY <1>2, <2>1, MemoryIs
<1>4. i = x.b.in_pos + x.b.gptr /\ o = x.b.out_pos + Len(x.b.put) /\ Len(e) \in Nat
      /\ i \in Nat /\ o \in Nat
  BY StreamFields DEF StreamInv
<1>5. base + off = p
  <2>1. base = CASE dir = "beg" -> 0
                 [] dir = "end" -> Len(e)
                 [] dir = "cur" /\ "in" \in which -> i
                 [] dir = "cur" /\ "in" \notin which -> o
    BY <1>3, <1>4
  <2>2. base \in Nat
    BY <1>4, <2>1
  <2> HIDE DEF base
  <2> QED
    BY <2>1, <2>2
<1> HIDE DEF y, base
<1>6. StreamInv(seekpos(y, p, which), e, IF "in" \in which THEN p ELSE i,
                IF "out" \in which THEN p ELSE o)
  BY <1>2, SeekposIs
<1> QED
  BY <1>1, <1>5, <1>6

(* underflow: the get area has something to read, but at the end. *)
LEMMA UnderflowIs ==
  ASSUME NEW x, NEW e, NEW i, NEW o, StreamInv(x, e, i, o), Kind = "memory", x.b.put = <<>>
  PROVE  LET y == underflow(x) IN
         /\ StreamInv(y, e, i, o) /\ y.b.put = <<>> /\ y.f = x.f
         /\ y.b.gptr < Len(y.b.get) \/ (i = Len(e) /\ y.b.get = <<>>)
<1>1. /\ x.b \in StreamT /\ x.f \in FileT /\ i = x.b.in_pos + x.b.gptr
      /\ o = x.b.out_pos + Len(<<>>) /\ x.b.out_pos <= Len(x.f.data)
      /\ e = x.f.data /\ e \in Bytes /\ Len(e) \in Nat /\ i \in 0..Len(e) /\ o \in 0..Len(e)
      /\ Len(<<>>) = 0
  BY StreamFields DEF StreamInv
<1>2. CASE x.b.gptr < Len(x.b.get)
  BY <1>2 DEF underflow
<1>3. CASE ~(x.b.gptr < Len(x.b.get))
  <2> DEFINE b == x.b
             D == pread(x.f, i, StreamSize)
             a == [b EXCEPT !.in_pos = i, !.get = D, !.gptr = 0]
  <2>1. underflow(x) = Both(a, x.f)
    <3>1. AfterRead(x.f) = x.f
      BY <1>1, MemoryIs
    <3> QED
      BY <1>1, <1>3, <3>1 DEF underflow
  <2>2. D = Slice(e, i, StreamSize) /\ StreamSize \in Nat /\ StreamSize > 0 /\ i \in Nat
    <3>1. D = Slice(x.f.data, i, StreamSize)
      <4> HIDE DEF Slice
      <4> QED
        BY <1>1, MemoryIs
    <3>2. StreamSize \in Nat /\ StreamSize > 0 /\ i \in Nat
      BY <1>1, SizeAssumption
    <3> QED
      BY <1>1, <3>1, <3>2
  <2> HIDE DEF b, D
  <2>3. IsSlice(D, e, i, StreamSize)
    BY <1>1, <2>2, SliceIs
  <2>4. D \in Bytes /\ Len(D) \in Nat /\ i + Len(D) <= Len(e) /\ (Len(D) > 0 \/ i = Len(e))
    <3>1. D \in Bytes /\ Len(D) \in Nat
      BY <2>3, LenIs DEF IsSlice
    <3>2. Len(D) = IF i + StreamSize <= Len(e) THEN StreamSize ELSE IF i <= Len(e) THEN Len(e) - i ELSE 0
      BY <2>3 DEF IsSlice
    <3>3. Len(e) \in Nat /\ i <= Len(e)
      BY <1>1
    <3> QED
      BY <2>2, <3>1, <3>2, <3>3
  <2>5. IsPart(D, e, i, Len(D))
    BY <1>1, <2>3, <2>4 DEF IsSlice, IsPart
  <2>6. /\ a \in StreamT /\ a.in_pos = i /\ a.get = D /\ a.gptr = 0
        /\ a.put = <<>> /\ a.out_pos = b.out_pos
    BY <1>1, <2>2, <2>4 DEF StreamT, b
  <2> HIDE DEF a
  <2>7. Both(a, x.f).b = a /\ Both(a, x.f).f = x.f
    BY BothFields
  <2>8. i = i + 0 /\ i <= Len(e) /\ 0 <= Len(D) /\ e = Patched(e, <<>>, b.out_pos)
    <3>1. b.out_pos \in 0..Len(e)
      BY <1>1, StreamFields DEF b
    <3> QED
      BY <1>1, <2>4, <3>1, PatchedNothing
  <2>9. StreamInv(Both(a, x.f), e, i, o)
    BY <1>1, <2>5, <2>6, <2>7, <2>8 DEF StreamInv, b
  <2>10. Len(D) = 0 => D = <<>>
    BY <2>4 DEF Bytes
  <2>11. 0 < Len(D) \/ (i = Len(e) /\ D = <<>>)
    BY <2>4, <2>10
  <2> QED
    BY <2>1, <2>6, <2>7, <2>9, <2>11
<1> QED
  BY <1>2, <1>3

(* Reading k bytes of the get area *)
LEMMA FromGetArea ==
  ASSUME NEW x, NEW e, NEW i, NEW o, StreamInv(x, e, i, o), x.b.put = <<>>,
         NEW k \in 0..(Len(x.b.get) - x.b.gptr)
  PROVE  LET y == Both([x.b EXCEPT !.gptr = x.b.gptr + k], x.f) IN
         /\ StreamInv(y, e, i + k, o) /\ y.b.put = <<>>
         /\ Slice(x.b.get, x.b.gptr, k) = Slice(e, i, k)
         /\ i + k <= Len(e)
<1> DEFINE b == x.b
           G == b.get
           j == b.gptr
           a == [b EXCEPT !.gptr = j + k]
<1>1. /\ b \in StreamT /\ x.f \in FileT /\ i = b.in_pos + j /\ j <= Len(G)
      /\ G \in Bytes /\ Len(G) \in Nat /\ j \in Nat /\ b.in_pos \in Nat
      /\ o = b.out_pos + Len(b.put) /\ b.out_pos <= Len(x.f.data)
      /\ e = Patched(x.f.data, b.put, b.out_pos)
      /\ e = x.f.data /\ e \in Bytes /\ Len(e) \in Nat /\ i \in Nat /\ i <= Len(e)
      /\ (G # <<>> => IsPart(G, e, b.in_pos, Len(G)))
      /\ b.put = <<>> /\ (G = <<>> => j = 0)
  BY StreamFields DEF StreamInv
<1>2. k \in Nat /\ j + k <= Len(G) /\ j + k \in Nat
  BY <1>1
<1> HIDE DEF b, G, j
<1>3. i + k <= Len(e) /\ \A q \in 1..k : G[j + q] = e[i + q]
  <2>1. CASE G = <<>>
    <3>1. Len(G) = 0 /\ k = 0
      BY <1>1, <1>2, <2>1
    <3> QED
      BY <1>1, <3>1
  <2>2. CASE G # <<>>
    <3> DEFINE ip == b.in_pos
    <3>1. /\ (Len(G) = 0 \/ ip + Len(G) <= Len(e)) /\ ip \in Nat /\ i = ip + j
          /\ \A q \in 1..Len(G) : G[q] = e[ip + q]
      BY <1>1, <2>2 DEF IsPart
    <3> HIDE DEF ip
    <3>2. i + k <= Len(e)
      <4>1. CASE Len(G) = 0
        BY <1>1, <1>2, <4>1
      <4>2. CASE ip + Len(G) <= Len(e)
        <5>1. i = ip + j /\ ip \in Nat /\ j \in Nat /\ Len(G) \in Nat /\ Len(e) \in Nat
          BY <1>1, <3>1
        <5>2. j + k <= Len(G) /\ k \in Nat
          BY <1>2
        <5> QED
          BY <4>2, <5>1, <5>2
      <4> QED
        BY <3>1, <4>1, <4>2
    <3>3. ASSUME NEW q \in 1..k
          PROVE  G[j + q] = e[i + q]
      <4>1. j + q \in 1..Len(G) /\ ip + (j + q) = i + q
        BY <1>1, <1>2, <3>1
      <4> QED
        BY <3>1, <4>1
    <3> QED
      BY <3>2, <3>3
  <2> QED
    BY <2>1, <2>2
<1>4. Slice(G, j, k) = Slice(e, i, k)
  <2>1. IsSlice(Slice(G, j, k), G, j, k) /\ IsSlice(Slice(e, i, k), e, i, k)
    BY <1>1, <1>2, SliceIs
  <2>2. Len(Slice(G, j, k)) = k /\ Len(Slice(e, i, k)) = k
    BY <1>1, <1>2, <1>3, <2>1 DEF IsSlice
  <2>3. \A q \in 1..k : Slice(G, j, k)[q] = Slice(e, i, k)[q]
    BY <1>3, <2>1, <2>2 DEF IsSlice
  <2> QED
    BY <2>1, <2>2, <2>3, SameBytes DEF IsSlice
<1>5. /\ a \in StreamT /\ a.in_pos = b.in_pos /\ a.get = G /\ a.gptr = j + k
      /\ a.put = <<>> /\ a.out_pos = b.out_pos
  BY <1>1, <1>2 DEF StreamT, G
<1> HIDE DEF a
<1>6. Both(a, x.f).b = a /\ Both(a, x.f).f = x.f
  BY BothFields
<1>7. i + k = b.in_pos + (j + k)
  BY <1>1, <1>2
<1>8. StreamInv(Both(a, x.f), e, i + k, o)
  BY <1>1, <1>2, <1>3, <1>5, <1>6, <1>7 DEF StreamInv
<1> QED
  BY <1>3, <1>4, <1>5, <1>6, <1>8 DEF a, b, G, j

(* sbumpc and sgetc: one byte, or none at the end *)
LEMMA SbumpcIs ==
  ASSUME NEW x, NEW e, NEW i, NEW o, StreamInv(x, e, i, o), Kind = "memory", x.b.put = <<>>
  PROVE  LET r == sbumpc(x) IN
         /\ StreamInv(r.x, e, Smaller(i + 1, Len(e)), o)
         /\ r.read = Slice(e, i, 1)
<1> DEFINE y == underflow(x)
           b == y.b
           k == Smaller(1, Len(b.get) - b.gptr)
           z == Both([b EXCEPT !.gptr = b.gptr + k], y.f)
<1>1. /\ StreamInv(y, e, i, o) /\ b.put = <<>>
      /\ (b.gptr < Len(b.get) \/ (i = Len(e) /\ b.get = <<>>))
  BY UnderflowIs
<1> HIDE DEF y
<1>2. /\ b.gptr \in Nat /\ Len(b.get) \in Nat /\ i \in 0..Len(e) /\ Len(e) \in Nat /\ e \in Bytes
      /\ (b.get = <<>> => b.gptr = 0) /\ Len(<<>>) = 0 /\ b.gptr <= Len(b.get)
  BY <1>1, StreamFields DEF StreamInv
<1>3. sbumpc(x) = Reading(Slice(b.get, b.gptr, k), z)
  BY DEF sbumpc, NextByte, y
<1>4. k \in 0..(Len(b.get) - b.gptr) /\ k \in 0..1
      /\ (k = 1 \/ (k = 0 /\ i = Len(e)))
  <2> DEFINE l == Len(b.get)
             j == b.gptr
  <2>1. l \in Nat /\ j \in Nat /\ j <= l /\ (j < l \/ (i = Len(e) /\ l = 0))
    BY <1>1, <1>2
  <2> HIDE DEF l, j
  <2>2. LET q == Smaller(1, l - j) IN
        q \in 0..(l - j) /\ q \in 0..1 /\ (q = 1 \/ (q = 0 /\ i = Len(e)))
    BY <2>1 DEF Smaller
  <2> QED
    BY <2>2 DEF l, j
<1> HIDE DEF k
<1>5. /\ StreamInv(z, e, i + k, o)
      /\ Slice(b.get, b.gptr, k) = Slice(e, i, k)
      /\ i + k <= Len(e)
  BY <1>1, <1>4, FromGetArea
<1> HIDE DEF z, b
<1>6. Slice(e, i, k) = Slice(e, i, 1) /\ i + k = Smaller(i + 1, Len(e))
  <2>1. CASE k = 1
    BY <1>2, <1>5, <2>1 DEF Smaller
  <2>2. CASE k = 0 /\ i = Len(e)
    <3>1. Slice(e, i, 0) = <<>> /\ Slice(e, i, 1) = <<>>
      BY <1>2, <2>2, SliceAll
    <3>2. i + 0 = Smaller(i + 1, Len(e))
      BY <1>2, <2>2 DEF Smaller
    <3> QED
      BY <2>2, <3>1, <3>2
  <2> QED
    BY <1>4, <2>1, <2>2
<1>7. Reading(Slice(b.get, b.gptr, k), z).read = Slice(b.get, b.gptr, k)
      /\ Reading(Slice(b.get, b.gptr, k), z).x = z
  BY ReadingFields
<1> QED
  BY <1>3, <1>5, <1>6, <1>7

(* xsgetn: n bytes, or those that there are *)
LEMMA XsgetnIs ==
  ASSUME NEW x, NEW e, NEW i, NEW o, StreamInv(x, e, i, o), Kind = "memory", x.b.put = <<>>,
         NEW n \in Nat
  PROVE  LET r == xsgetn(x, n) IN
         /\ StreamInv(r.x, e, Smaller(i + n, Len(e)), o)
         /\ r.read = Slice(e, i, n)
<1> DEFINE b == x.b
           k == Smaller(n, Len(b.get) - b.gptr)
           s == Slice(b.get, b.gptr, k)
           y == Both([b EXCEPT !.gptr = b.gptr + k], x.f)
<1>1. /\ b.gptr \in Nat /\ Len(b.get) \in Nat /\ i \in 0..Len(e) /\ Len(e) \in Nat /\ e \in Bytes
      /\ b.gptr <= Len(b.get)
  BY StreamFields DEF StreamInv
<1>2. k \in 0..(Len(b.get) - b.gptr) /\ k \in 0..n
  <2> DEFINE l == Len(b.get)
             j == b.gptr
  <2>1. l \in Nat /\ j \in Nat /\ j <= l
    BY <1>1
  <2> HIDE DEF l, j
  <2>2. LET q == Smaller(n, l - j) IN q \in 0..(l - j) /\ q \in 0..n
    BY <2>1 DEF Smaller
  <2> QED
    BY <2>2 DEF l, j
<1> HIDE DEF k
<1>3. StreamInv(y, e, i + k, o) /\ y.b.put = <<>> /\ s = Slice(e, i, k) /\ i + k <= Len(e)
  BY <1>2, FromGetArea
<1>4. xsgetn(x, n) = IF n = k THEN Reading(s, y) ELSE GetFromFile(Reading(s, syncg(y)), n - k)
  BY DEF xsgetn, k
<1> HIDE DEF b, s, y
<1>5. CASE n = k
  <2>1. Reading(s, y).read = s /\ Reading(s, y).x = y
    BY ReadingFields
  <2>2. i + n = Smaller(i + n, Len(e))
    BY <1>1, <1>3, <1>5 DEF Smaller
  <2> QED
    BY <1>3, <1>4, <1>5, <2>1, <2>2
<1>6. CASE n # k
  <2> DEFINE z == syncg(y)
             p == i + k
             m == n - k
             D == full_pread(z.f, p, m)
             a == [z.b EXCEPT !.in_pos = p + Len(D)]
             w == Both(a, AfterRead(z.f))
  <2>1. /\ StreamInv(z, e, p, o) /\ z.b.get = <<>> /\ z.b.gptr = 0 /\ z.b.in_pos = p
        /\ z.b.put = <<>>
    <3> HIDE DEF p
    <3>1. StreamInv(y, e, p, o) /\ y.b.put = <<>>
      BY <1>3 DEF p
    <3> QED
      BY <3>1, SyncgIs
  <2>2. GetFromFile(Reading(s, z), m) = Reading(s \o D, w)
    <3>1. Reading(s, z).read = s /\ Reading(s, z).x = z
      BY ReadingFields
    <3> HIDE DEF z
    <3> QED
      BY <2>1, <3>1 DEF GetFromFile, GetRest
  <2>3. xsgetn(x, n) = Reading(s \o D, w)
    BY <1>4, <1>6, <2>2
  <2> HIDE DEF z
  <2>4. p \in Nat /\ m \in Nat /\ p <= Len(e) /\ p + m = i + n /\ k \in Nat /\ i \in Nat /\ n = k + m
    BY <1>1, <1>2, <1>3
  <2>5. /\ z.b \in StreamT /\ z.f \in FileT /\ z.f.data = e /\ o = z.b.out_pos + Len(<<>>)
        /\ z.b.out_pos <= Len(e) /\ e = Patched(e, <<>>, z.b.out_pos) /\ Len(<<>>) = 0
    BY <2>1, StreamFields DEF StreamInv
  <2> HIDE DEF p, m
  <2>6. D = Slice(e, p, m) /\ AfterRead(z.f) = z.f
    BY <2>4, <2>5, MemoryIs
  <2>7. s \o D = Slice(e, i, n)
    <3>1. Joined(Slice(e, i, k), Slice(e, p, m), Slice(e, i, n))
      BY <1>1, <1>3, <2>4, SliceInTwo DEF p
    <3> QED
      BY <1>3, <2>6, <3>1 DEF Joined
  <2>8. Len(D) \in Nat /\ p + Len(D) = Smaller(i + n, Len(e))
    <3>1. IsSlice(D, e, p, m)
      BY <1>1, <2>4, <2>6, SliceIs
    <3>2. D \in Bytes /\ Len(D) \in Nat
      BY <3>1, LenIs DEF IsSlice
    <3> HIDE DEF D
    <3> QED
      BY <1>1, <2>4, <3>1, <3>2 DEF IsSlice, Smaller
  <2> HIDE DEF D
  <2> DEFINE q == Smaller(i + n, Len(e))
  <2>9. q \in Nat /\ q <= Len(e) /\ q + 0 = q
    BY <1>1, <2>4 DEF Smaller
  <2>10. a = [z.b EXCEPT !.in_pos = q]
    BY <2>8
  <2> HIDE DEF q, a
  <2>11. /\ a \in StreamT /\ a.in_pos = q /\ a.get = <<>> /\ a.gptr = 0
         /\ a.put = <<>> /\ a.out_pos = z.b.out_pos
    BY <2>1, <2>5, <2>9, <2>10 DEF StreamT
  <2>12. w.b = a /\ w.f = z.f
    BY <2>6, BothFields
  <2> HIDE DEF w
  <2>13. StreamInv(w, e, q, o)
    <3>1. w.b.gptr <= Len(w.b.get) /\ w.b.out_pos <= Len(w.f.data) /\ w.b.get = <<>>
      BY <2>5, <2>11, <2>12
    <3>2. q = w.b.in_pos + w.b.gptr /\ o = w.b.out_pos + Len(w.b.put) /\ q <= Len(e)
      BY <2>5, <2>9, <2>11, <2>12
    <3> QED
      BY <2>5, <2>11, <2>12, <3>1, <3>2 DEF StreamInv
  <2>14. Reading(s \o D, w).read = s \o D /\ Reading(s \o D, w).x = w
    BY ReadingFields
  <2> QED
    BY <2>3, <2>7, <2>13, <2>14 DEF q
<1> QED
  BY <1>5, <1>6

(* What is put in the put area *)
LEMMA PutIs ==
  ASSUME NEW x, NEW e, NEW i, NEW o, StreamInv(x, e, i, o), x.b.get = <<>>,
         NEW data \in Bytes
  PROVE  LET y == Both([x.b EXCEPT !.put = x.b.put \o data], x.f) IN
         StreamInv(y, Patched(e, data, o), i, o + Len(data)) /\ y.b.get = <<>>
<1> DEFINE b == x.b
           W == b.put
           op == b.out_pos
           d == x.f.data
           w == W \o data
           a == [b EXCEPT !.put = w]
           y == Both(a, x.f)
           e2 == Patched(e, data, o)
<1>1. /\ b \in StreamT /\ x.f \in FileT /\ W \in Bytes /\ op \in Nat /\ d \in Bytes
      /\ Len(W) \in Nat /\ Len(d) \in Nat /\ i = b.in_pos + b.gptr /\ o = op + Len(W)
      /\ op \in 0..Len(d) /\ e = Patched(d, W, op) /\ e \in Bytes /\ Len(e) \in Nat
      /\ i \in 0..Len(e) /\ o \in Nat /\ b.gptr <= Len(b.get) /\ b.get = <<>>
      /\ Len(data) \in Nat
  BY StreamFields, LenIs DEF StreamInv
<1>2. IsCat(w, W, data)
  BY <1>1, CatIs
<1> HIDE DEF b, W, op, d, w
<1>3. w \in Bytes /\ Len(w) = Len(W) + Len(data)
  BY <1>2 DEF IsCat
<1>4. e2 = Patched(d, w, op)
  <2>1. Patched(Patched(d, W, op), data, op + Len(W)) = Patched(d, W \o data, op)
    BY <1>1, PatchedTwice
  <2> QED
    BY <1>1, <2>1 DEF w
<1>5. IsPatched(e2, e, data, o)
  BY <1>1, PatchedIs
<1> HIDE DEF e2
<1>6. i <= Len(e2)
  BY <1>1, <1>5 DEF IsPatched
<1>7. /\ a \in StreamT /\ a.in_pos = b.in_pos /\ a.out_pos = op
      /\ a.get = b.get /\ a.gptr = b.gptr /\ a.put = w
  BY <1>1, <1>3 DEF StreamT, op
<1> HIDE DEF a
<1>8. y.b = a /\ y.f = x.f
  BY BothFields
<1>9. o + Len(data) = op + Len(w) /\ op <= Len(d)
  BY <1>1, <1>3
<1> HIDE DEF y
<1>10. StreamInv(y, e2, i, o + Len(data))
  BY <1>1, <1>4, <1>6, <1>7, <1>8, <1>9 DEF StreamInv, d
<1>11. y.b.get = <<>>
  BY <1>1, <1>7, <1>8
<1> QED
  BY <1>10, <1>11 DEF y, e2, a, w, W, b

(* overflow: one byte, once the put area has room for it *)
LEMMA OverflowIs ==
  ASSUME NEW x, NEW e, NEW i, NEW o, StreamInv(x, e, i, o), Kind = "memory", x.b.get = <<>>,
         NEW v \in Nat
  PROVE  StreamInv(overflow(x, v), Patched(e, <<v>>, o), i, o + Len(<<v>>))
<1> DEFINE y == IF Len(x.b.put) >= StreamSize THEN syncp(x) ELSE x
           data == <<v>>
<1>1. StreamInv(y, e, i, o) /\ y.b.get = <<>>
  BY SyncpIs
<1> HIDE DEF y
<1>2. data \in Bytes
  BY DEF Bytes
<1>3. Append(y.b.put, v) = y.b.put \o data
  <2>1. y.b.put \in Seq(Nat)
    BY <1>1, StreamFields DEF Bytes
  <2> DEFINE W == y.b.put
  <2>2. W \in Seq(Nat)
    BY <2>1
  <2> HIDE DEF W
  <2>3. Append(W, v) = W \o <<v>>
    BY <2>2
  <2> QED
    BY <2>3 DEF W
<1> DEFINE z == Both([y.b EXCEPT !.put = y.b.put \o data], y.f)
<1>4. overflow(x, v) = z
  BY <1>3 DEF overflow, PutByte, y
<1> HIDE DEF data
<1>5. StreamInv(z, Patched(e, data, o), i, o + Len(data))
  BY <1>1, <1>2, PutIs
<1> QED
  BY <1>4, <1>5 DEF data

(* xsputn: to the put area if it fits, else directly to the file *)
LEMMA XsputnIs ==
  ASSUME NEW x, NEW e, NEW i, NEW o, StreamInv(x, e, i, o), Kind = "memory", x.b.get = <<>>,
         NEW data \in Bytes
  PROVE  StreamInv(xsputn(x, data), Patched(e, data, o), i, o + Len(data))
<1>1. CASE StreamSize - Len(x.b.put) >= Len(data)
  <2> DEFINE z == Both([x.b EXCEPT !.put = x.b.put \o data], x.f)
  <2>1. xsputn(x, data) = z
    BY <1>1 DEF xsputn
  <2>2. StreamInv(z, Patched(e, data, o), i, o + Len(data))
    BY PutIs
  <2> QED
    BY <2>1, <2>2
<1>2. CASE ~(StreamSize - Len(x.b.put) >= Len(data))
  <2> DEFINE y == syncp(x)
             b == y.b
             a == [b EXCEPT !.out_pos = o + Len(data)]
             g == pwrite(y.f, data, o)
             e2 == Patched(e, data, o)
             z == Both(a, g)
  <2>1. /\ StreamInv(y, e, i, o) /\ y.f.data = e /\ b.put = <<>> /\ b.out_pos = o /\ b.get = <<>>
    BY SyncpIs
  <2> HIDE DEF y
  <2>2. xsputn(x, data) = z
    BY <1>2, <2>1 DEF xsputn, PutDirectly, y
  <2>3. /\ b \in StreamT /\ y.f \in FileT /\ i = b.in_pos + b.gptr /\ b.gptr <= Len(b.get)
        /\ e \in Bytes /\ Len(e) \in Nat /\ o \in Nat /\ o <= Len(e) /\ i \in 0..Len(e)
        /\ Len(data) \in Nat /\ Len(<<>>) = 0
    BY <2>1, StreamFields, LenIs DEF StreamInv
  <2>4. IsPatched(e2, e, data, o)
    BY <2>3, PatchedIs
  <2>5. g \in FileT /\ g.data = e2
    <3> HIDE DEF y
    <3> QED
      BY <2>1, <2>3, MemoryIs
  <2> HIDE DEF b, e2, g
  <2>6. /\ e2 \in Bytes /\ Len(e2) \in Nat /\ i <= Len(e2) /\ o + Len(data) <= Len(e2)
        /\ o + Len(data) \in 0..Len(e2) /\ o + Len(data) \in Nat
    BY <2>3, <2>4, LenIs DEF IsPatched
  <2>7. /\ a \in StreamT /\ a.in_pos = b.in_pos /\ a.get = <<>> /\ a.gptr = b.gptr
        /\ a.put = <<>> /\ a.out_pos = o + Len(data)
    BY <2>1, <2>3, <2>6 DEF StreamT
  <2> HIDE DEF a
  <2>8. z.b = a /\ z.f = g
    BY BothFields
  <2> HIDE DEF z
  <2>9. e2 = Patched(e2, <<>>, o + Len(data))
    BY <2>6, PatchedNothing
  <2>10. (o + Len(data)) + Len(<<>>) = o + Len(data) /\ a.gptr <= Len(a.get)
    BY <2>1, <2>3, <2>7
  <2>11. StreamInv(z, e2, i, o + Len(data))
    BY <2>3, <2>5, <2>6, <2>7, <2>8, <2>9, <2>10 DEF StreamInv
  <2> QED
    BY <2>2, <2>11 DEF e2
<1> QED
  BY <1>1, <1>2

(* pbackfail: the byte before the pointer is in the get area... *)
LEMMA GetPreviousIs ==
  ASSUME NEW x, NEW e, NEW i, NEW o, StreamInv(x, e, i, o), Kind = "memory", x.b.put = <<>>,
         i > 0
  PROVE  LET y == GetPrevious(x, pread(x.f, x.b.in_pos - 1, 1)) IN
         /\ StreamInv(y, e, i, o) /\ y.b.put = <<>> /\ y.b.gptr > 0
<1> DEFINE b == x.b
           D == pread(x.f, b.in_pos - 1, 1)
<1>1. /\ b \in StreamT /\ x.f \in FileT /\ i = b.in_pos + b.gptr /\ b.in_pos \in Nat /\ b.gptr \in Nat
      /\ Len(<<>>) = 0 /\ o = b.out_pos + Len(<<>>) /\ b.out_pos <= Len(x.f.data) /\ b.out_pos \in Nat
      /\ e = x.f.data /\ e \in Bytes /\ Len(e) \in Nat /\ i \in 0..Len(e)
      /\ e = Patched(e, <<>>, b.out_pos) /\ b.put = <<>>
  BY StreamFields DEF StreamInv
<1>2. CASE b.gptr # 0
  <2>1. GetPrevious(x, D) = x
    BY <1>2 DEF GetPrevious
  <2> QED
    BY <1>1, <1>2, <2>1
<1>3. CASE b.gptr = 0
  <2> DEFINE a == [b EXCEPT !.in_pos = b.in_pos - 1, !.get = D, !.gptr = 1]
             y == Both(a, AfterRead(x.f))
             j == i - 1
  <2>1. j \in Nat /\ b.in_pos = i /\ b.in_pos - 1 = j /\ j + 1 = i /\ b.in_pos > 0 /\ j + 1 <= Len(e)
    BY <1>1, <1>3
  <2>2. D = Slice(e, j, 1) /\ AfterRead(x.f) = x.f
    <3>1. D = Slice(x.f.data, b.in_pos - 1, 1)
      <4> HIDE DEF Slice
      <4> QED
        BY <1>1, MemoryIs
    <3> QED
      BY <1>1, <2>1, <3>1, MemoryIs
  <2>3. IsSlice(D, e, j, 1)
    BY <1>1, <2>1, <2>2, SliceIs
  <2> HIDE DEF D, j
  <2>4. D \in Bytes /\ Len(D) = 1 /\ D # <<>> /\ IsPart(D, e, j, Len(D))
    <3>1. D \in Bytes /\ Len(D) = 1
      BY <1>1, <2>1, <2>3 DEF IsSlice
    <3>2. \A q \in 1..Len(D) : D[q] = e[j + q]
      BY <2>3 DEF IsSlice
    <3>3. j + Len(D) <= Len(e) /\ Len(D) <= Len(D)
      BY <2>1, <3>1
    <3>4. D # <<>>
      <4>1. D = <<>> => Len(D) = 0
        BY <1>1
      <4> QED
        BY <3>1, <4>1
    <3> QED
      BY <3>1, <3>2, <3>3, <3>4 DEF IsPart
  <2>5. GetPrevious(x, D) = y
    BY <1>3, <2>1, <2>4 DEF GetPrevious, b
  <2>6. a = [b EXCEPT !.in_pos = j, !.get = D, !.gptr = 1]
    BY <2>1
  <2> HIDE DEF a, b
  <2>7. /\ a \in StreamT /\ a.in_pos = j /\ a.get = D /\ a.gptr = 1
        /\ a.put = <<>> /\ a.out_pos = b.out_pos
    BY <1>1, <2>1, <2>4, <2>6 DEF StreamT
  <2>8. y.b = a /\ y.f = x.f
    BY <2>2, BothFields
  <2> HIDE DEF y
  <2>9. y.b.gptr <= Len(y.b.get) /\ i = y.b.in_pos + y.b.gptr /\ i <= Len(e) /\ y.b.gptr > 0
    BY <1>1, <2>1, <2>4, <2>7, <2>8
  <2>10. StreamInv(y, e, i, o)
    BY <1>1, <2>4, <2>7, <2>8, <2>9 DEF StreamInv
  <2> QED
    BY <2>5, <2>7, <2>8, <2>9, <2>10 DEF D, b
<1> QED
  BY <1>2, <1>3 DEF D, b

(* ... and it becomes v, in the file too. *)
LEMMA PutBackByteIs ==
  ASSUME NEW x, NEW e, NEW i, NEW o, StreamInv(x, e, i, o), Kind = "memory", x.b.put = <<>>,
         x.b.gptr > 0, NEW v \in Nat
  PROVE  StreamInv(PutBackByte(x, v), Patched(e, <<v>>, i - 1), i - 1, o)
<1> DEFINE b == x.b
           G == b.get
           k == b.gptr
           ip == b.in_pos
           op == b.out_pos
           p == k - 1
           H == [G EXCEPT ![k] = v]
           a == [b EXCEPT !.get = H, !.gptr = p]
           g == IF G[k] = v THEN x.f ELSE pwrite(x.f, <<v>>, i - 1)
           y == Both(a, g)
           e2 == Patched(e, <<v>>, i - 1)
<1>1. /\ b \in StreamT /\ x.f \in FileT /\ i = ip + k /\ ip \in Nat /\ k \in Nat /\ k > 0
      /\ k <= Len(G) /\ G \in Bytes /\ Len(G) \in Nat /\ op \in Nat
      /\ o = op + Len(<<>>) /\ op <= Len(x.f.data) /\ Len(<<>>) = 0
      /\ e = x.f.data /\ e \in Bytes /\ Len(e) \in Nat /\ i \in 0..Len(e)
      /\ b.put = <<>> /\ (G # <<>> => IsPart(G, e, ip, Len(G)))
  BY StreamFields DEF StreamInv
<1>2. PutBackByte(x, v) = y
  <2>1. p + 1 = k /\ ip + p = i - 1
    BY <1>1
  <2>2. PutBackByte(x, v) = Both([b EXCEPT !.get[p + 1] = v, !.gptr = p],
                                 IF G[p + 1] = v THEN x.f ELSE pwrite(x.f, <<v>>, ip + p))
    <3>1. b.gptr # 0
      BY <1>1
    <3> QED
      BY <3>1 DEF PutBackByte
  <2> HIDE DEF p
  <2>3. [b EXCEPT !.get[p + 1] = v, !.gptr = p] = a
    BY <2>1
  <2> HIDE DEF a, b, G, k, ip
  <2> QED
    BY <2>1, <2>2, <2>3
<1> HIDE DEF b, G, k, ip, op
<1>3. G # <<>> /\ ip + Len(G) <= Len(e) /\ \A q \in 1..Len(G) : G[q] = e[ip + q]
  <2>1. G # <<>>
    BY <1>1
  <2> QED
    BY <1>1, <2>1 DEF IsPart
<1>4. i - 1 \in Nat /\ <<v>> \in Bytes /\ Len(<<v>>) = 1 /\ <<v>>[1] = v /\ p \in Nat /\ i \in 1..Len(e)
  BY <1>1 DEF Bytes
<1> DEFINE w == <<v>>
           j == i - 1
<1>5. w \in Bytes /\ Len(w) = 1 /\ w[1] = v /\ j \in Nat /\ j + 1 = i /\ e2 = Patched(e, w, j)
  BY <1>4
<1>6. g = IF G[k] = v THEN x.f ELSE pwrite(x.f, w, j)
  OBVIOUS
<1> HIDE DEF w, j, e2, g
<1>7. IsPatched(e2, e, w, j)
  BY <1>1, <1>5, PatchedIs
<1>8. e2 \in Bytes /\ Len(e2) = Len(e) /\ \A q \in 1..Len(e) : e2[q] = IF q = i THEN v ELSE e[q]
  <2>1. e2 \in Bytes /\ Len(e2) = Len(e)
    BY <1>1, <1>4, <1>5, <1>7 DEF IsPatched
  <2>2. ASSUME NEW q \in 1..Len(e)
        PROVE  e2[q] = IF q = i THEN v ELSE e[q]
    <3>1. e2[q] = IF j < q /\ q <= j + 1 THEN w[q - j] ELSE e[q]
      BY <1>1, <1>5, <1>7, <2>1 DEF IsPatched
    <3>2. CASE q = i
      <4>1. j < q /\ q <= j + 1 /\ q - j = 1
        BY <1>4, <1>5, <3>2
      <4> QED
        BY <1>5, <3>1, <3>2, <4>1
    <3>3. CASE q # i
      <4>1. ~(j < q /\ q <= j + 1)
        BY <1>1, <1>4, <1>5, <3>3
      <4> QED
        BY <3>1, <3>3, <4>1
    <3> QED
      BY <3>2, <3>3
  <2> QED
    BY <2>1, <2>2
<1>9. g \in FileT /\ g.data = e2
  <2>1. CASE G[k] = v
    <3>1. G[k] = e[i] /\ k \in 1..Len(G)
      BY <1>1, <1>3
    <3>2. \A q \in 1..Len(e) : e2[q] = e[q]
      BY <1>8, <2>1, <3>1
    <3>3. e2 = e
      BY <1>1, <1>8, <3>2, SameBytes
    <3> QED
      BY <1>1, <1>6, <2>1, <3>3
  <2>2. CASE G[k] # v
    <3>1. pwrite(x.f, w, j) \in FileT /\ pwrite(x.f, w, j).data = Patched(x.f.data, w, j)
      BY <1>1, <1>5, MemoryIs
    <3> QED
      BY <1>1, <1>5, <1>6, <2>2, <3>1
  <2> QED
    BY <2>1, <2>2
<1>10. H \in Bytes /\ Len(H) = Len(G) /\ \A q \in 1..Len(G) : H[q] = IF q = k THEN v ELSE G[q]
  <2>1. DOMAIN G = 1..Len(G) /\ G \in [1..Len(G) -> Nat] /\ G \in Seq(Nat)
    <3>1. G \in Seq(Nat)
      BY <1>1 DEF Bytes
    <3> QED
      BY <3>1
  <2>2. H \in [1..Len(G) -> Nat]
    BY <2>1
  <2>3. H \in Seq(Nat) /\ Len(H) = Len(G)
    <3> DEFINE n == Len(G)
    <3>1. H \in [1..n -> Nat] /\ n \in Nat
      BY <1>1, <2>2
    <3> HIDE DEF n, H
    <3>2. H \in Seq(Nat) /\ Len(H) = n
      BY <3>1
    <3> QED
      BY <3>2 DEF n
  <2>4. \A q \in 1..Len(G) : H[q] = IF q = k THEN v ELSE G[q]
    BY <2>1
  <2> QED
    BY <2>3, <2>4 DEF Bytes
<1> HIDE DEF H
<1>11. IsPart(H, e2, ip, Len(H))
  <2>1. ASSUME NEW q \in 1..Len(H)
        PROVE  H[q] = e2[ip + q]
    <3>1. q \in 1..Len(G) /\ ip + q \in 1..Len(e) /\ (ip + q = i <=> q = k)
      BY <1>1, <1>3, <1>10
    <3> QED
      BY <1>3, <1>8, <1>10, <3>1
  <2>2. ip + Len(H) <= Len(e2) /\ Len(H) <= Len(H)
    BY <1>1, <1>3, <1>8, <1>10
  <2> QED
    BY <1>10, <2>1, <2>2 DEF IsPart
<1> HIDE DEF p
<1>12. p \in Nat /\ p <= Len(H) /\ j = ip + p
  BY <1>1, <1>10 DEF p, j
<1>13. /\ a \in StreamT /\ a.in_pos = ip /\ a.get = H /\ a.gptr = p /\ a.put = <<>> /\ a.out_pos = op
  BY <1>1, <1>10, <1>12 DEF StreamT, ip, op
<1> HIDE DEF a
<1>14. y.b = a /\ y.f = g
  BY BothFields
<1> HIDE DEF y
<1>15. e2 = Patched(e2, <<>>, op)
  <2>1. op \in 0..Len(e2)
    BY <1>1, <1>8
  <2> QED
    BY <1>8, <2>1, PatchedNothing
<1>16. j <= Len(e2) /\ op <= Len(e2)
  BY <1>1, <1>4, <1>5, <1>8
<1>17. StreamInv(y, e2, j, o)
  BY <1>1, <1>9, <1>11, <1>12, <1>13, <1>14, <1>15, <1>16 DEF StreamInv
<1> QED
  BY <1>2, <1>17 DEF e2, j

LEMMA PbackfailIs ==
  ASSUME NEW x, NEW e, NEW i, NEW o, StreamInv(x, e, i, o), Kind = "memory", x.b.put = <<>>,
         i > 0, NEW v \in Nat
  PROVE  StreamInv(pbackfail(x, v), Patched(e, <<v>>, i - 1), i - 1, o)
<1> DEFINE y == GetPrevious(x, pread(x.f, x.b.in_pos - 1, 1))
<1>1. StreamInv(y, e, i, o) /\ y.b.put = <<>> /\ y.b.gptr > 0
  BY GetPreviousIs
<1>2. pbackfail(x, v) = PutBackByte(y, v)
  BY DEF pbackfail
<1> HIDE DEF y
<1> QED
  BY <1>1, <1>2, PutBackByteIs

-----------------------------------------------------------------------------
(***************************************************************************)
(* The inductive invariant.  There is a sequence c that the file holds,    *)
(* under what is in the buffers, and expected is what the program sees.    *)
(***************************************************************************)
Shape ==
  /\ setup \in Setups /\ open \in BOOLEAN /\ count \in Nat
  /\ expected \in Bytes /\ Len(expected) <= MaxSize
  /\ cursor \in [in : Nat, out : Nat]
  /\ (Kind = "server" \/ User = "player") => open
  /\ User # "stream" => HeadSize <= Len(expected)

(* z is a position and an integer that e holds there, after the head. *)
IntegerAt(z, e) ==
  /\ z[2] \in Integers_ /\ z[1] \in Nat /\ HeadSize <= z[1]
  /\ Slice(e, z[1], Len(compact_write(z[2]))) = compact_write(z[2])

IntegersHeld == \A z \in ints : IntegerAt(z, expected)

(* The head is never lost. *)
ImagesHaveHead == Kind = "encoded" => \A s \in images : s \in Bytes /\ HeadSize <= Len(s)

(* A player does not read beyond the checkpoint that it pulled, where its *)
(* buffer is empty.                                                       *)
Played ==
  User = "player" =>
    /\ checkpoint \in [published : Nat, pulled : Nat]
    /\ cursor.in <= checkpoint.pulled /\ checkpoint.pulled <= checkpoint.published
    /\ checkpoint.published <= Len(expected)
    /\ ~HasWriteData(buf) /\ (cursor.in = checkpoint.pulled => ~buf.reading)

Limit == IF User = "player" THEN checkpoint.pulled ELSE MaxSize

JournalLayers ==
  User # "stream" =>
    /\ \E c : BufferInv(Layers, c, expected, images, cursor.in, Limit)
    /\ open => HeadSize <= cursor.in
    /\ HasWriteData(buf) => HeadSize <= buf.position
    /\ Kind = "server" => Len(file.remote) <= MaxSize
    /\ stream = NewStream

StreamLayers ==
  User = "stream" =>
    /\ StreamInv(Streams, expected, cursor.in, cursor.out)
    /\ ~buf.overrun /\ ~HasWriteData(buf)

(* Nothing is left in memory when the file is closed. *)
Closed ==
  ~open =>
    /\ buf = NewBuffer /\ stream = NewStream /\ cursor = [in |-> 0, out |-> 0]
    /\ Kind = "encoded" => file.pending.data = <<>>

LayersInv ==
  /\ Shape /\ IntegersHeld /\ ImagesHaveHead /\ Played
  /\ JournalLayers /\ StreamLayers /\ Closed
  /\ seen.got = seen.want

(* The sizes *)
LEMMA SizesAre ==
  /\ BufferSize \in Nat \ {0} /\ ExtraSize \in Nat \ {0} /\ HeadSize \in Nat \ {0}
  /\ Capacity \in Nat \ {0} /\ StreamSize \in Nat \ {0}
  /\ MaxSize \in Nat /\ HeadSize <= MaxSize /\ Lengths \subseteq Nat \ {0}
BY SizeAssumption

(* Users and files *)
LEMMA SetupIs ==
  ASSUME setup \in Setups
  PROVE  /\ Kind \in Kinds /\ User \in {"journal", "player", "stream"}
         /\ User = "stream" => Kind = "memory"
         /\ User = "player" => Kind = "memory"
BY SetupAssumption DEF Kind, User, Kinds

(* Both sides of a step *)
LEMMA SameUser ==
  ASSUME setup' = setup
  PROVE  Kind' = Kind /\ User' = User
BY DEF Kind, User

LEMMA BufferInvNext ==
  ASSUME setup' = setup, NEW c, NEW L,
         BufferInv(Both(buf', file'), c, expected', images', cursor'.in, L), Limit' = L
  PROVE  BufferInv(Layers, c, expected, images, cursor.in, Limit)'
<1>1. Kind' = Kind
  BY DEF Kind
<1>2. Both(buf', file').b = buf' /\ Both(buf', file').f = file'
  BY BothFields
<1>. QED  BY <1>1, <1>2 DEF BufferInv, Buffered, Fetching, Seen, Layers

LEMMA StreamInvNext ==
  StreamInv(Streams, expected, cursor.in, cursor.out)'
    <=> StreamInv(Both(stream', file'), expected', cursor'.in, cursor'.out)
BY DEF StreamInv, Streams

(* What the program sees, and where it is *)
LEMMA BufferInvIs ==
  ASSUME NEW x, NEW c, NEW e, NEW I, NEW p, NEW L, Kind \in Kinds, BufferInv(x, c, e, I, p, L)
  PROVE  /\ Holds(Kind, x.f, c, I) /\ x.b \in BufferT /\ ~x.b.overrun
         /\ e \in Bytes /\ Len(e) \in Nat /\ p \in 0..Len(e)
         /\ Kind = "encoded" => e \in I
         /\ Len(e) >= VisibleSize(Kind, x.f, c)
<1>h. Holds(Kind, x.f, c, I) /\ x.b \in BufferT /\ ~x.b.overrun
  BY DEF BufferInv, Buffered, Fetching
<1>s. /\ Seen(x.f, c) \in Bytes /\ Len(Seen(x.f, c)) = VisibleSize(Kind, x.f, c)
      /\ Kind # "server" => Seen(x.f, c) = c
  BY <1>h, SeenIs
<1>b. c \in Bytes /\ x.b.position \in Nat /\ x.b.data \in Bytes
  BY <1>h, BufferFields DEF Holds
<1>1. CASE Buffered(x, c, e, I, p)
  <2>1. e \in Bytes /\ Len(e) \in Nat /\ p \in 0..Len(e) /\ Len(e) >= VisibleSize(Kind, x.f, c)
    BY <1>1, BufferedIs
  <2>2. ASSUME Kind = "encoded" PROVE e \in I
    <3>1. Keeps(I, c, x.b.data, x.b.position) /\ e = Patched(c, x.b.data, x.b.position)
      BY <1>1, <1>s, <2>2 DEF Buffered
    <3>. QED  BY <3>1, <1>b, KeepsAll
  <2>. QED  BY <1>h, <2>1, <2>2
<1>2. CASE Fetching(x, c, e, I, p, L)
  <2>1. e = Seen(x.f, c) /\ p \in Nat /\ p <= VisibleSize(Kind, x.f, c)
    BY <1>2 DEF Fetching
  <2>2. e \in Bytes /\ Len(e) \in Nat /\ p \in 0..Len(e) /\ Len(e) = VisibleSize(Kind, x.f, c)
    BY <2>1, <1>s, LenIs
  <2>3. ASSUME Kind = "encoded" PROVE e \in I
    <3>1. e = c /\ HoldsEncoded(x.f, c, I) /\ x.f \in FileT
      BY <2>1, <1>s, <1>h, <2>3 DEF Holds
    <3>. QED  BY <3>1, EncodedBytes
  <2>4. Len(e) >= VisibleSize(Kind, x.f, c)
    BY <2>2
  <2>. QED  BY <1>h, <2>2, <2>3, <2>4
<1>. QED  BY <1>1, <1>2 DEF BufferInv

(* More sequences that it may hold are no less. *)
LEMMA KeepsMore ==
  ASSUME NEW I, NEW J, NEW c, NEW d, NEW o, Keeps(I, c, d, o), I \subseteq J
  PROVE  Keeps(J, c, d, o)
BY DEF Keeps

LEMMA BufferInvMore ==
  ASSUME NEW x, NEW c, NEW e, NEW I, NEW J, NEW p, NEW L, BufferInv(x, c, e, I, p, L),
         I \subseteq J
  PROVE  BufferInv(x, c, e, J, p, L)
<1>1. Holds(Kind, x.f, c, J)
  <2>1. Holds(Kind, x.f, c, I)
    BY DEF BufferInv, Buffered, Fetching
  <2>. QED  BY <2>1, HoldsMore
<1>2. ASSUME Buffered(x, c, e, I, p) PROVE Buffered(x, c, e, J, p)
  <2>1. Kind = "encoded" => Keeps(J, c, x.b.data, x.b.position)
    BY <1>2, KeepsMore DEF Buffered
  <2>. QED  BY <1>1, <1>2, <2>1 DEF Buffered
<1>3. ASSUME Fetching(x, c, e, I, p, L) PROVE Fetching(x, c, e, J, p, L)
  BY <1>1, <1>3 DEF Fetching
<1>. QED  BY <1>2, <1>3 DEF BufferInv

(* The limit of what is read ahead says nothing of a buffer without read data. *)
LEMMA BufferInvLimit ==
  ASSUME NEW x, NEW c, NEW e, NEW I, NEW p, NEW L, NEW M, BufferInv(x, c, e, I, p, L),
         ~x.b.reading
  PROVE  BufferInv(x, c, e, I, p, M)
BY DEF BufferInv

(* A read of an Encoded_File flushes it, whatever the buffer above has. *)
LEMMA AfterReadInv ==
  ASSUME NEW x, NEW c, NEW e, NEW I, NEW p, NEW L, Kind \in Kinds, BufferInv(x, c, e, I, p, L)
  PROVE  BufferInv(Both(x.b, AfterRead(x.f)), c, e, I, p, L)
<1>. DEFINE g == AfterRead(x.f)
            y == Both(x.b, g)
<1>1. Holds(Kind, x.f, c, I)
  BY DEF BufferInv, Buffered, Fetching
<1>2. /\ Holds(Kind, g, c, I) /\ VisibleSize(Kind, g, c) = VisibleSize(Kind, x.f, c)
      /\ Kind # "encoded" => g = x.f
  BY <1>1, AfterReadIs
<1>3. y.b = x.b /\ y.f = g
  BY BothFields
<1>4. Seen(g, c) = Seen(x.f, c)
  BY <1>2 DEF Seen
<1>. HIDE DEF y, g
<1>5. ASSUME Buffered(x, c, e, I, p) PROVE Buffered(y, c, e, I, p)
  BY <1>2, <1>3, <1>4, <1>5 DEF Buffered
<1>6. ASSUME Fetching(x, c, e, I, p, L) PROVE Fetching(y, c, e, I, p, L)
  BY <1>2, <1>3, <1>4, <1>6 DEF Fetching
<1>7. BufferInv(y, c, e, I, p, L)
  BY <1>3, <1>5, <1>6 DEF BufferInv
<1>. QED  BY <1>7 DEF y, g

(* The state of the layers, for a journal or a player *)
LEMMA LayersAre ==
  ASSUME LayersInv, User # "stream"
  PROVE  /\ Kind \in Kinds
         /\ \E c : BufferInv(Layers, c, expected, images, cursor.in, Limit)
         /\ Layers.b = buf /\ Layers.f = file
         /\ buf \in BufferT /\ file \in FileT
         /\ expected \in Bytes /\ Len(expected) \in Nat /\ cursor.in \in 0..Len(expected)
         /\ HeadSize \in 0..Len(expected)
         /\ Len(expected) <= MaxSize
         /\ Kind = "encoded" => expected \in images
         /\ HasWriteData(buf) => HeadSize <= buf.position
         /\ open => HeadSize <= cursor.in
<1>k. Kind \in Kinds
  BY SetupIs DEF LayersInv, Shape
<1>1. PICK c : BufferInv(Layers, c, expected, images, cursor.in, Limit)
  BY DEF LayersInv, JournalLayers
<1>2. Layers.b = buf /\ Layers.f = file
  BY BothFields DEF Layers
<1>3. /\ Holds(Kind, file, c, images) /\ buf \in BufferT
      /\ expected \in Bytes /\ Len(expected) \in Nat /\ cursor.in \in 0..Len(expected)
      /\ Kind = "encoded" => expected \in images
  BY <1>k, <1>1, <1>2, BufferInvIs
<1>4. file \in FileT
  BY <1>3 DEF Holds
<1>5. HeadSize \in 0..Len(expected) /\ Len(expected) <= MaxSize
  BY <1>3, SizesAre DEF LayersInv, Shape
<1>. QED  BY <1>k, <1>1, <1>2, <1>3, <1>4, <1>5 DEF LayersInv, JournalLayers

(* Writes, for any user *)
LEMMA WroteIs ==
  ASSUME LayersInv, setup' = setup, NEW data \in Bytes, data # <<>>, NEW o \in 0..Len(expected),
         o + Len(data) <= MaxSize, Kind = "encoded" => expected \in images,
         NEW new, \A z \in new : IntegerAt(z, Patched(expected, data, o)),
         Wrote(data, o, new)
  PROVE  /\ expected' = Patched(expected, data, o) /\ expected' \in Bytes
         /\ Len(expected) <= Len(expected') /\ Len(expected') <= MaxSize
         /\ Len(expected') \in Nat
         /\ IntegersHeld' /\ ImagesHaveHead'
         /\ images \subseteq images'
         /\ Kind = "encoded" => Keeps(images', expected, data, o)
         /\ seen'.got = seen'.want /\ count' \in Nat
<1>1. /\ expected \in Bytes /\ Len(expected) \in Nat /\ Len(data) \in Nat
      /\ Len(expected) <= MaxSize /\ count \in Nat
  BY LenIs DEF LayersInv, Shape
<1>2. expected' = Patched(expected, data, o) /\ count' \in Nat /\ seen'.got = seen'.want
  BY <1>1 DEF Wrote, NoRead
<1>3. IsPatched(expected', expected, data, o)
  BY <1>1, <1>2, PatchedIs
<1>4. /\ expected' \in Bytes /\ Len(expected) <= Len(expected') /\ Len(expected') <= MaxSize
      /\ Len(expected') \in Nat
  BY <1>1, <1>3, LenIs, SizesAre DEF IsPatched
<1>5. ASSUME NEW z \in ints' PROVE IntegerAt(z, expected')
  <2>1. CASE z \in new
    BY <1>2, <2>1
  <2>2. CASE /\ z \in ints
             /\ z[1] + Len(compact_write(z[2])) <= o \/ z[1] >= o + Len(data)
    <3>. DEFINE w == compact_write(z[2])
    <3>1. /\ z[2] \in Integers_ /\ z[1] \in Nat /\ HeadSize <= z[1]
          /\ Slice(expected, z[1], Len(w)) = w
      BY <2>2 DEF LayersInv, IntegersHeld, IntegerAt
    <3>2. Len(w) \in Nat \ {0} /\ w \in Bytes
      BY <3>1, CompactIs, IntegerAssumption
    <3>. HIDE DEF w
    <3>3. z[1] + Len(w) <= Len(expected)
      <4>1. IsSlice(Slice(expected, z[1], Len(w)), expected, z[1], Len(w))
        BY <1>1, <3>1, <3>2, SliceIs
      <4>. QED  BY <1>1, <3>1, <3>2, <4>1 DEF IsSlice
    <3>4. z[1] + Len(w) <= o \/ o + Len(data) <= z[1]
      BY <2>2, <1>1, <3>1, <3>2 DEF w
    <3>5. Slice(expected', z[1], Len(w)) = Slice(expected, z[1], Len(w))
      BY <1>1, <1>2, <3>1, <3>2, <3>3, <3>4, SliceOfPatched
    <3>6. Slice(expected', z[1], Len(w)) = w
      BY <3>1, <3>5
    <3>. QED  BY <3>1, <3>6 DEF IntegerAt, w
  <2>. QED  BY <2>1, <2>2 DEF Wrote
<1>6. IntegersHeld'
  BY <1>5 DEF IntegersHeld, IntegerAt
<1>7. images \subseteq images'
  BY DEF Wrote
<1>8. ASSUME Kind = "encoded" PROVE Keeps(images', expected, data, o)
  <2>1. images' = images \union {Patched(expected, Slice(data, 0, k), o) : k \in 1..Len(data)}
    BY <1>8 DEF Wrote
  <2>2. Slice(data, 0, 0) = <<>> /\ Patched(expected, <<>>, o) = expected
    BY <1>1, SliceAll, PatchedNothing
  <2>3. ASSUME NEW k \in 0..Len(data) PROVE Patched(expected, Slice(data, 0, k), o) \in images'
    <3>1. CASE k = 0
      BY <2>1, <2>2, <1>8, <3>1
    <3>2. CASE k # 0
      <4>1. k \in 1..Len(data)
        BY <1>1, <3>2
      <4>. QED  BY <4>1, <2>1
    <3>. QED  BY <3>1, <3>2
  <2>. QED  BY <2>3 DEF Keeps
<1>9. ImagesHaveHead'
  <2>1. ASSUME Kind = "encoded", NEW s \in images' PROVE s \in Bytes /\ HeadSize <= Len(s)
    <3>1. CASE s \in images
      BY <2>1, <3>1 DEF LayersInv, ImagesHaveHead
    <3>2. CASE \E k \in 1..Len(data) : s = Patched(expected, Slice(data, 0, k), o)
      <4>1. PICK k \in 1..Len(data) : s = Patched(expected, Slice(data, 0, k), o)
        BY <3>2
      <4>2. k \in Nat /\ Slice(data, 0, k) \in Bytes
        BY <1>1, <4>1, SliceIs DEF IsSlice
      <4>3. IsPatched(s, expected, Slice(data, 0, k), o)
        BY <1>1, <4>1, <4>2, PatchedIs
      <4>4. HeadSize <= Len(expected) /\ HeadSize \in Nat
        BY <2>1, SizesAre DEF LayersInv, ImagesHaveHead
      <4>. QED  BY <1>1, <4>2, <4>3, <4>4, LenIs DEF IsPatched
    <3>. QED  BY <2>1, <3>1, <3>2 DEF Wrote
  <2>2. Kind' = Kind
    BY SameUser
  <2>. QED  BY <2>1, <2>2 DEF ImagesHaveHead
<1>. QED  BY <1>2, <1>4, <1>6, <1>7, <1>8, <1>9

LEMMA BufferInvBoth ==
  ASSUME NEW x, NEW c, NEW e, NEW I, NEW p, NEW L, BufferInv(x, c, e, I, p, L)
  PROVE  BufferInv(Both(x.b, x.f), c, e, I, p, L)
<1>1. Both(x.b, x.f).b = x.b /\ Both(x.b, x.f).f = x.f
  BY BothFields
<1>. QED  BY <1>1 DEF BufferInv, Buffered, Fetching

(* A step of a journal, from what it does to the layers *)
JournalNext(x) ==
  /\ setup' = setup /\ stream' = stream /\ open' = open
  /\ User = "journal" /\ open
  /\ buf' = x.b /\ file' = x.f
  /\ \E d : BufferInv(x, d, expected', images', cursor'.in, MaxSize)
  /\ HasWriteData(x.b) => HeadSize <= x.b.position
  /\ Kind = "server" => x.f.remote = file.remote \/ Len(x.f.remote) <= MaxSize
  /\ cursor' \in [in : Nat, out : Nat] /\ HeadSize <= cursor'.in
  /\ expected' \in Bytes /\ HeadSize <= Len(expected') /\ Len(expected') <= MaxSize
  /\ IntegersHeld' /\ ImagesHaveHead' /\ count' \in Nat
  /\ seen'.got = seen'.want

LEMMA JournalStep ==
  ASSUME LayersInv, NEW x, JournalNext(x)
  PROVE  LayersInv'
<1>u. Kind' = Kind /\ User' = User /\ User = "journal" /\ User' = "journal"
  BY SameUser DEF JournalNext
<1>1. Shape'
  BY <1>u DEF JournalNext, LayersInv, Shape
<1>2. Played'
  BY <1>u DEF Played
<1>3. JournalLayers'
  <2>1. PICK d : BufferInv(x, d, expected', images', cursor'.in, MaxSize)
    BY DEF JournalNext
  <2>2. BufferInv(Both(buf', file'), d, expected', images', cursor'.in, MaxSize)
    BY <2>1, BufferInvBoth DEF JournalNext
  <2>3. Limit' = MaxSize
    BY <1>u DEF Limit
  <2>4. BufferInv(Layers, d, expected, images, cursor.in, Limit)'
    BY <2>2, <2>3, BufferInvNext DEF JournalNext
  <2>5. \E c : BufferInv(Layers, c, expected, images, cursor.in, Limit)'
    BY <2>4
  <2>6. (\E c : BufferInv(Layers, c, expected, images, cursor.in, Limit))'
    BY <2>5
  <2>7. HasWriteData(buf') => HeadSize <= buf'.position
    BY DEF JournalNext
  <2>8. Kind = "server" => Len(file'.remote) <= MaxSize
    BY <1>u DEF JournalNext, LayersInv, JournalLayers
  <2>9. stream' = NewStream
    BY <1>u DEF JournalNext, LayersInv, JournalLayers
  <2>. QED  BY <1>u, <2>6, <2>7, <2>8, <2>9 DEF JournalNext, JournalLayers, HasWriteData
<1>4. StreamLayers'
  BY <1>u DEF StreamLayers
<1>5. Closed'
  BY DEF JournalNext, Closed
<1>. QED  BY <1>1, <1>2, <1>3, <1>4, <1>5 DEF JournalNext, LayersInv

(* The limit of a journal *)
LEMMA JournalLimit ==
  ASSUME User = "journal"
  PROVE  Limit = MaxSize
BY DEF Limit

(* What a journal keeps when it does not write *)
LEMMA UnwrittenIs ==
  ASSUME LayersInv, setup' = setup, Unwritten
  PROVE  /\ expected' = expected /\ images' = images
         /\ expected' \in Bytes /\ Len(expected') <= MaxSize
         /\ User # "stream" => HeadSize <= Len(expected')
         /\ IntegersHeld' /\ ImagesHaveHead' /\ count' \in Nat
BY SameUser DEF LayersInv, Shape, Unwritten, IntegersHeld, IntegerAt, ImagesHaveHead

(* The bytes of a write *)
LEMMA DataIs ==
  ASSUME count \in Nat, NEW n \in Nat \ {0}
  PROVE  Data(n) \in Bytes /\ Len(Data(n)) = n /\ Data(n) # <<>>
<1>1. Data(n) \in Bytes /\ Len(Data(n)) = n
  BY DEF Data, Bytes
<1>2. Data(n) = <<>> => Len(Data(n)) = 0
  OBVIOUS
<1>. QED  BY <1>1, <1>2

LEMMA CompactData ==
  ASSUME NEW i \in Integers_
  PROVE  /\ compact_write(i) \in Bytes /\ Len(compact_write(i)) \in Nat \ {0}
         /\ compact_write(i) # <<>> /\ Len(compact_write(i)) <= ExtraSize
         /\ compact_read(compact_write(i)) = i
         /\ Len(compact_write(i)) = CompactLength(compact_write(i)[1])
<1>1. i \in 0..(Payload * Power[7] - 1) /\ Len(compact_write(i)) <= ExtraSize
  BY IntegerAssumption
<1>2. /\ compact_write(i) \in Bytes /\ Len(compact_write(i)) \in Nat \ {0}
      /\ compact_read(compact_write(i)) = i
      /\ Len(compact_write(i)) = CompactLength(compact_write(i)[1])
  BY <1>1, CompactIs
<1>3. compact_write(i) = <<>> => Len(compact_write(i)) = 0
  OBVIOUS
<1>. QED  BY <1>1, <1>2, <1>3

(* The buffer that write_data leaves is where it was, unless it is empty. *)
LEMMA WritePosition ==
  ASSUME NEW x, NEW data, x.b \in BufferT, data \in Bytes, data # <<>>
  PROVE  /\ HasWriteData(check_write_buffer(Appended(x, data)).b)
              => check_write_buffer(Appended(x, data)).b.position = x.b.position
         /\ HasWriteData(write_data(x, data).b) => write_data(x, data).b.position = x.b.position
<1>. DEFINE y == Appended(x, data)
            b == x.b
<1>b. b \in BufferT
  OBVIOUS
<1>f. \A d, i, o : /\ [b EXCEPT !.data = d, !.index = i, !.overrun = o].position = b.position
                   /\ DOMAIN [b EXCEPT !.data = d, !.index = i, !.overrun = o] = DOMAIN b
  BY <1>b DEF BufferT
<1>1. y.b.position = b.position /\ DOMAIN y.b = DOMAIN b
  <2>. DEFINE d == b.data \o data
              i == b.index + Len(data)
              o == b.overrun \/ b.index + Len(data) > BufferSize + ExtraSize
  <2>1. y.b = [b EXCEPT !.data = d, !.index = i, !.overrun = o]
    BY BothFields DEF Appended
  <2>. HIDE DEF d, i, o, y, b
  <2>. QED  BY <1>f, <2>1
<1>2. write_buffer(y).b.index = 0
  <2>. HIDE DEF y
  <2>1. write_buffer(y).b = [y.b EXCEPT !.position = y.b.position + Len(y.b.data),
                                        !.data = <<>>, !.index = 0]
    BY BothFields DEF write_buffer
  <2>2. "index" \in DOMAIN y.b
    BY <1>1, <1>b DEF BufferT
  <2>. QED  BY <2>1, <2>2
<1>. HIDE DEF y
<1>3. HasWriteData(check_write_buffer(y).b) => check_write_buffer(y).b.position = x.b.position
  BY <1>1, <1>2 DEF check_write_buffer, HasWriteData
<1>4. ~HasWriteData(WriteDirectly(flush(x), data).b)
  <2>. DEFINE z == flush(x)
              w == WriteDirectly(z, data)
  <2>0. \A p, d, i, r :
          /\ [b EXCEPT !.position = p, !.data = d, !.index = 0].index = 0
          /\ "index" \in DOMAIN [b EXCEPT !.position = p, !.data = d, !.index = 0]
          /\ [b EXCEPT !.position = p, !.data = d, !.index = 0, !.reading = r].index = 0
          /\ "index" \in DOMAIN [b EXCEPT !.position = p, !.data = d, !.index = 0, !.reading = r]
    BY <1>b DEF BufferT
  <2>1. z.b.index = 0 /\ "index" \in DOMAIN z.b
    <3>1. CASE HasWriteData(b)
      <4>. DEFINE p == b.position + Len(b.data)
      <4>1. z.b = [b EXCEPT !.position = p, !.data = <<>>, !.index = 0]
        BY <3>1, BothFields DEF flush, write_buffer
      <4>. HIDE DEF p, z, b
      <4>. QED  BY <4>1, <2>0
    <3>2. CASE ~HasWriteData(b)
      <4>. DEFINE p == get_position(b)
      <4>1. z.b = [b EXCEPT !.position = p, !.data = <<>>, !.index = 0, !.reading = FALSE]
        BY <3>2, BothFields DEF flush
      <4>. HIDE DEF p, z, b
      <4>. QED  BY <4>1, <2>0
    <3>. QED  BY <3>1, <3>2
  <2>. HIDE DEF z
  <2>2. w.b = [z.b EXCEPT !.position = z.b.position + Len(data)]
    BY BothFields DEF WriteDirectly
  <2>3. w.b.index = 0
    BY <2>1, <2>2
  <2>. QED  BY <2>3 DEF HasWriteData, w, z
<1>. QED  BY <1>3, <1>4 DEF write_data, y

(* What may be written *)
LEMMA MayWriteIs ==
  ASSUME LayersInv, User = "journal", NEW n \in Nat, MayWrite(n)
  PROVE  /\ ~buf.reading /\ cursor.in + n <= MaxSize
         /\ Kind = "server" => UpToDateFile(file) /\ file.tail_offset <= cursor.in
BY DEF MayWrite, UpToDate, UpToDateFile

LEMMA CursorIs ==
  ASSUME NEW i \in Nat, NEW o \in Nat, At(i, o)
  PROVE  cursor' \in [in : Nat, out : Nat] /\ cursor'.in = i
BY DEF At

(* A write of a journal, with write_data or with compact_write *)
LEMMA JournalWrites ==
  ASSUME LayersInv, NEW data \in Bytes, data # <<>>, NEW x, Journal(x),
         \/ x = write_data(Layers, data)
         \/ x = check_write_buffer(Appended(Layers, data)) /\ Len(data) <= ExtraSize,
         MayWrite(Len(data)), NEW new, Wrote(data, cursor.in, new),
         \A z \in new : IntegerAt(z, Patched(expected, data, cursor.in)),
         At(cursor.in + Len(data), cursor.in + Len(data))
  PROVE  LayersInv'
<1>u. User = "journal" /\ open /\ setup' = setup
  BY DEF Journal
<1>. DEFINE n == Len(data)
<1>n. n \in Nat \ {0} /\ count \in Nat
  <2>1. Len(data) = 0 => data = <<>>
    BY SameBytes, LenIs DEF Bytes
  <2>. QED  BY <2>1, LenIs DEF LayersInv, Shape
<1>1. data \in Bytes /\ Len(data) = n /\ data # <<>>
  OBVIOUS
<1>2. /\ Kind \in Kinds /\ Layers.b = buf /\ Layers.f = file
      /\ buf \in BufferT /\ file \in FileT
      /\ expected \in Bytes /\ Len(expected) \in Nat /\ cursor.in \in 0..Len(expected)
      /\ HeadSize \in 0..Len(expected) /\ (Kind = "encoded" => expected \in images)
      /\ HasWriteData(buf) => HeadSize <= buf.position
      /\ HeadSize <= cursor.in
  BY <1>u, LayersAre
<1>3. /\ ~buf.reading /\ cursor.in + n <= MaxSize
      /\ Kind = "server" => UpToDateFile(file) /\ file.tail_offset <= cursor.in
  BY <1>u, <1>n, MayWriteIs
<1>. HIDE DEF n
<1>4. /\ expected' = Patched(expected, data, cursor.in) /\ expected' \in Bytes
      /\ Len(expected) <= Len(expected') /\ Len(expected') <= MaxSize /\ Len(expected') \in Nat
      /\ IntegersHeld' /\ ImagesHaveHead' /\ images \subseteq images'
      /\ Kind = "encoded" => Keeps(images', expected, data, cursor.in)
      /\ seen'.got = seen'.want /\ count' \in Nat
  <2>2. Kind = "encoded" => expected \in images
    BY <1>2
  <2>3. cursor.in + Len(data) <= MaxSize
    BY <1>1, <1>3
  <2>. DEFINE o == cursor.in
  <2>4. /\ o \in 0..Len(expected) /\ o + Len(data) <= MaxSize /\ Wrote(data, o, new)
        /\ \A z \in new : IntegerAt(z, Patched(expected, data, o))
    BY <1>2, <2>3
  <2>. HIDE DEF o
  <2>5. /\ expected' = Patched(expected, data, o) /\ expected' \in Bytes
        /\ Len(expected) <= Len(expected') /\ Len(expected') <= MaxSize
        /\ Len(expected') \in Nat
        /\ IntegersHeld' /\ ImagesHaveHead' /\ images \subseteq images'
        /\ Kind = "encoded" => Keeps(images', expected, data, o)
        /\ seen'.got = seen'.want /\ count' \in Nat
    BY <1>1, <1>u, <2>2, <2>4, WroteIs
  <2>. QED  BY <2>5 DEF o
<1>5. PICK c : BufferInv(Layers, c, expected, images, cursor.in, MaxSize)
  BY <1>u, LayersAre, JournalLimit
<1>6. BufferInv(Layers, c, expected, images', cursor.in, MaxSize)
  BY <1>4, <1>5, BufferInvMore
<1>7. (\E d : BufferInv(x, d, expected', images', cursor.in + n, MaxSize)) /\ SameServer(file, x.f)
  <2>1. ~Layers.b.reading
    BY <1>2, <1>3
  <2>2. Kind = "server" => UpToDateFile(Layers.f) /\ Layers.f.tail_offset <= cursor.in
    BY <1>2, <1>3
  <2>3. CASE x = write_data(Layers, data)
    <3>1. LET y == write_data(Layers, data) IN
          /\ \E d : BufferInv(y, d, Patched(expected, data, cursor.in), images',
                              cursor.in + Len(data), MaxSize)
          /\ SameServer(Layers.f, y.f)
      BY <1>1, <1>2, <1>4, <1>6, <2>1, <2>2, WriteDataIs
    <3>. QED  BY <1>1, <1>2, <1>4, <2>3, <3>1
  <2>4. CASE x = check_write_buffer(Appended(Layers, data)) /\ Len(data) <= ExtraSize
    <3>1. /\ Buffered(Layers, c, expected, images', cursor.in)
          /\ Layers.b.index + Len(data) <= BufferSize + ExtraSize
      <4>1. Buffered(Layers, c, expected, images', cursor.in) /\ Layers.b.index < BufferSize
        BY <1>6, <2>1 DEF BufferInv
      <4>2. Layers.b.index \in Nat
        BY <1>2 DEF BufferT
      <4>. QED  BY <4>1, <4>2, <1>1, <1>n, <2>4, SizesAre
    <3>2. LET y == check_write_buffer(Appended(Layers, data)) IN
          /\ \E d : BufferInv(y, d, Patched(expected, data, cursor.in), images',
                              cursor.in + Len(data), MaxSize)
          /\ SameServer(Layers.f, y.f)
      BY <1>1, <1>2, <1>4, <3>1, <2>2, WriteSmallIs
    <3>. QED  BY <1>1, <1>2, <1>4, <2>4, <3>2
  <2>. QED  BY <2>3, <2>4
<1>8. HasWriteData(x.b) => HeadSize <= x.b.position
  <2>1. HasWriteData(x.b) => x.b.position = buf.position
    BY <1>1, <1>2, WritePosition
  <2>2. ~HasWriteData(buf) => buf.position = cursor.in
    <3>1. CASE Buffered(Layers, c, expected, images, cursor.in)
      BY <1>2, <1>3, <3>1 DEF Buffered, HasWriteData, BufferT
    <3>. QED  BY <1>2, <1>3, <1>5, <3>1 DEF BufferInv
  <2>. QED  BY <1>2, <2>1, <2>2
<1>9. Journal(x) /\ At(cursor.in + n, cursor.in + n)
  BY <1>1
<1>10. cursor' \in [in : Nat, out : Nat] /\ cursor'.in = cursor.in + n
  <2>1. cursor.in + n \in Nat
    BY <1>2, <1>n
  <2>. QED  BY <1>9, <2>1, CursorIs
<1>11. HeadSize <= cursor'.in /\ HeadSize <= Len(expected')
  <2>1. cursor.in \in Nat /\ HeadSize \in Nat /\ HeadSize <= Len(expected)
    BY <1>2
  <2>2. HeadSize <= Len(expected')
    BY <1>2, <1>4, <2>1
  <2>3. HeadSize <= cursor.in + n
    BY <1>2, <1>n, <2>1
  <2>. QED  BY <1>10, <2>2, <2>3
<1>12. JournalNext(x)
  <2>1. \E d : BufferInv(x, d, expected', images', cursor'.in, MaxSize)
    BY <1>7, <1>10
  <2>2. Kind = "server" => x.f.remote = file.remote
    BY <1>7 DEF SameServer
  <2>. QED  BY <1>u, <1>4, <1>8, <1>9, <1>10, <1>11, <2>1, <2>2 DEF JournalNext, Journal
<1>. QED  BY <1>12, JournalStep

LEMMA WriteDataStep ==
  ASSUME LayersInv, NEW n \in Lengths, WriteData(n)
  PROVE  LayersInv'
<1>1. Data(n) \in Bytes /\ Len(Data(n)) = n /\ Data(n) # <<>>
  BY DataIs, SizesAre DEF LayersInv, Shape
<1>2. \A z \in {} : IntegerAt(z, Patched(expected, Data(n), cursor.in))
  OBVIOUS
<1>. DEFINE data == Data(n)
            x == write_data(Layers, data)
            none == {}
<1>3. /\ Journal(x) /\ MayWrite(Len(data)) /\ Wrote(data, cursor.in, none)
      /\ At(cursor.in + Len(data), cursor.in + Len(data))
      /\ data \in Bytes /\ data # <<>>
      /\ \A z \in none : IntegerAt(z, Patched(expected, data, cursor.in))
      /\ x = write_data(Layers, data)
  BY <1>1, <1>2 DEF WriteData
<1>. HIDE DEF data, x, none
<1>. QED  BY <1>3, JournalWrites

LEMMA WriteIntegerStep ==
  ASSUME LayersInv, NEW i \in Integers_, WriteInteger(i)
  PROVE  LayersInv'
<1>. DEFINE data == compact_write(i)
            x == check_write_buffer(Appended(Layers, data))
            new == {<<cursor.in, i>>}
<1>1. /\ Journal(x) /\ MayWrite(Len(data)) /\ Wrote(data, cursor.in, new)
      /\ At(cursor.in + Len(data), cursor.in + Len(data))
      /\ x = check_write_buffer(Appended(Layers, data)) /\ Len(data) <= ExtraSize
      /\ data \in Bytes /\ data # <<>>
  BY CompactData DEF WriteInteger
<1>u. User = "journal" /\ open
  BY <1>1 DEF Journal
<1>2. \A z \in new : IntegerAt(z, Patched(expected, data, cursor.in))
  <2>1. expected \in Bytes /\ cursor.in \in 0..Len(expected) /\ HeadSize <= cursor.in
    BY <1>u, LayersAre
  <2>2. Slice(Patched(expected, data, cursor.in), cursor.in, Len(data)) = data
    BY <1>1, <2>1, SliceOfPatched
  <2>. QED  BY <2>1, <2>2, LenIs DEF IntegerAt
<1>. HIDE DEF data, x, new
<1>. QED  BY <1>1, <1>2, JournalWrites

(* What an empty buffer leaves to prove of a step *)
LEMMA CleanStep ==
  ASSUME LayersInv, NEW x, Journal(x), Clean(x, expected', images', cursor'.in),
         SameServer(file, x.f),
         cursor' \in [in : Nat, out : Nat], HeadSize <= cursor'.in,
         expected' \in Bytes, HeadSize <= Len(expected'), Len(expected') <= MaxSize,
         IntegersHeld', ImagesHaveHead', count' \in Nat, seen'.got = seen'.want
  PROVE  LayersInv'
<1>1. \E d : BufferInv(x, d, expected', images', cursor'.in, MaxSize)
  BY CleanIsInv
<1>2. ~HasWriteData(x.b)
  BY DEF Clean, HasWriteData
<1>3. JournalNext(x)
  BY <1>1, <1>2 DEF JournalNext, Journal, SameServer
<1>. QED  BY <1>3, JournalStep

(* The cursor of a journal *)
LEMMA CursorType ==
  ASSUME LayersInv
  PROVE  cursor \in [in : Nat, out : Nat] /\ cursor.in \in Nat /\ cursor.out \in Nat
BY DEF LayersInv, Shape

LEMMA WriteCheckpointStep ==
  ASSUME LayersInv, WriteCheckpoint
  PROVE  LayersInv'
<1>. DEFINE data == Data(1)
            y == flush(Layers)
            x == WriteWord(y, data)
            none == {}
            o == 0
<1>1. /\ Journal(x) /\ Wrote(data, o, none) /\ cursor' = cursor
      /\ User = "journal" /\ open /\ setup' = setup
  BY DEF WriteCheckpoint, Journal
<1>2. data \in Bytes /\ Len(data) = 1 /\ data # <<>>
  <2>1. count \in Nat /\ 1 \in Nat \ {0}
    BY DEF LayersInv, Shape
  <2>. QED  BY <2>1, DataIs
<1>3. /\ Kind \in Kinds /\ Layers.f = file
      /\ expected \in Bytes /\ Len(expected) \in Nat /\ cursor.in \in 0..Len(expected)
      /\ HeadSize \in 0..Len(expected) /\ (Kind = "encoded" => expected \in images)
      /\ HeadSize <= cursor.in
      /\ \E c : BufferInv(Layers, c, expected, images, cursor.in, Limit)
  BY <1>1, LayersAre
<1>4. \A z \in none : IntegerAt(z, Patched(expected, data, o))
  OBVIOUS
<1>. HIDE DEF data, none
<1>5. o \in 0..Len(expected) /\ o + Len(data) <= MaxSize
  BY <1>2, <1>3, SizesAre
<1>6. /\ expected' = Patched(expected, data, o) /\ expected' \in Bytes
      /\ Len(expected) <= Len(expected') /\ Len(expected') <= MaxSize /\ Len(expected') \in Nat
      /\ IntegersHeld' /\ ImagesHaveHead' /\ images \subseteq images'
      /\ Kind = "encoded" => Keeps(images', expected, data, o)
      /\ seen'.got = seen'.want /\ count' \in Nat
  <2>. HIDE DEF o
  <2>1. Kind = "encoded" => expected \in images
    BY <1>3
  <2>. QED  BY <1>1, <1>2, <1>4, <1>5, <2>1, WroteIs
<1>7. PICK c : BufferInv(Layers, c, expected, images', cursor.in, Limit)
  BY <1>3, <1>6, BufferInvMore
<1>8. Clean(y, expected, images', cursor.in) /\ SameServer(Layers.f, y.f)
  BY <1>3, <1>7, FlushedIs
<1>. HIDE DEF y
<1>9. Clean(x, Patched(expected, data, 0), images', cursor.in) /\ SameServer(y.f, x.f)
  <2>1. Kind = "encoded" => Keeps(images', expected, data, 0)
    BY <1>6
  <2>2. Len(data) <= HeadSize
    BY <1>2, SizesAre
  <2>. QED  BY <1>2, <1>3, <1>8, <2>1, <2>2, WriteWordIs
<1>. HIDE DEF x
<1>10. SameServer(file, x.f)
  BY <1>3, <1>8, <1>9 DEF SameServer
<1>11. Clean(x, expected', images', cursor'.in)
  BY <1>1, <1>6, <1>9
<1>12. /\ cursor' \in [in : Nat, out : Nat] /\ HeadSize <= cursor'.in
       /\ HeadSize <= Len(expected')
  BY <1>1, <1>3, <1>6, CursorType
<1>. QED  BY <1>1, <1>6, <1>10, <1>11, <1>12, CleanStep

(* Flush, and Seek *)
LEMMA FlushStep ==
  ASSUME LayersInv, Flush
  PROVE  LayersInv'
<1>. DEFINE x == flush(Layers)
<1>1. /\ Journal(x) /\ Unwritten /\ cursor' = cursor /\ seen'.got = seen'.want
      /\ User = "journal" /\ open /\ setup' = setup
  BY DEF Flush, Journal, NoRead
<1>2. /\ Kind \in Kinds /\ Layers.f = file /\ HeadSize <= cursor.in
      /\ \E c : BufferInv(Layers, c, expected, images, cursor.in, Limit)
  BY <1>1, LayersAre
<1>3. Clean(x, expected, images, cursor.in) /\ SameServer(file, x.f)
  BY <1>2, FlushedIs
<1>. HIDE DEF x
<1>4. /\ expected' = expected /\ images' = images
      /\ expected' \in Bytes /\ Len(expected') <= MaxSize
      /\ HeadSize <= Len(expected')
      /\ IntegersHeld' /\ ImagesHaveHead' /\ count' \in Nat
  BY <1>1, UnwrittenIs
<1>5. /\ Clean(x, expected', images', cursor'.in)
      /\ cursor' \in [in : Nat, out : Nat] /\ HeadSize <= cursor'.in
  BY <1>1, <1>2, <1>3, <1>4, CursorType
<1>. QED  BY <1>1, <1>3, <1>4, <1>5, CleanStep

LEMMA SeekStep ==
  ASSUME LayersInv, NEW p, Seek(p)
  PROVE  LayersInv'
<1>. DEFINE x == set_position(Layers, p)
<1>1. /\ Journal(x) /\ Unwritten /\ At(p, p) /\ seen'.got = seen'.want
      /\ User = "journal" /\ open /\ setup' = setup
      /\ p \in HeadSize..Len(expected)
  BY DEF Seek, Journal, NoRead
<1>2. /\ Kind \in Kinds /\ Layers.f = file
      /\ HeadSize \in 0..Len(expected) /\ Len(expected) \in Nat
      /\ \E c : BufferInv(Layers, c, expected, images, cursor.in, Limit)
  BY <1>1, LayersAre
<1>3. p \in 0..Len(expected) /\ p \in Nat /\ HeadSize <= p
  BY <1>1, <1>2
<1>4. Clean(x, expected, images, p) /\ SameServer(file, x.f)
  <2>1. PICK c : BufferInv(Layers, c, expected, images, cursor.in, Limit)
    BY <1>2
  <2>2. LET y == set_position(Layers, p) IN
        Clean(y, expected, images, p) /\ SameServer(Layers.f, y.f)
    BY <1>2, <1>3, <2>1, SetPositionIs
  <2>. QED  BY <1>2, <2>2
<1>. HIDE DEF x
<1>5. /\ expected' = expected /\ images' = images
      /\ expected' \in Bytes /\ Len(expected') <= MaxSize
      /\ HeadSize <= Len(expected')
      /\ IntegersHeld' /\ ImagesHaveHead' /\ count' \in Nat
  BY <1>1, UnwrittenIs
<1>6. cursor' \in [in : Nat, out : Nat] /\ cursor'.in = p
  BY <1>1, <1>3, CursorIs
<1>7. Clean(x, expected', images', cursor'.in) /\ HeadSize <= cursor'.in
  BY <1>3, <1>4, <1>5, <1>6
<1>. QED  BY <1>1, <1>4, <1>5, <1>6, <1>7, CleanStep

(* A journal reads when it has nothing to write. *)
LEMMA MayRead ==
  ASSUME LayersInv, User # "stream", ~HasWriteData(buf)
  PROVE  \E c :
           /\ Fetching(Layers, c, expected, images, cursor.in, Limit)
           /\ Len(expected) = VisibleSize(Kind, file, c)
           /\ \A p, n \in Nat : p + n <= Len(expected) => Slice(expected, p, n) = Slice(c, p, n)
<1>1. PICK c : BufferInv(Layers, c, expected, images, cursor.in, Limit)
  BY LayersAre
<1>2. Kind \in Kinds /\ Layers.b = buf /\ Layers.f = file
  BY LayersAre
<1>3. Fetching(Layers, c, expected, images, cursor.in, Limit)
  BY <1>1, <1>2, InvIsFetching
<1>4. Holds(Kind, file, c, images) /\ expected = Seen(file, c)
  BY <1>2, <1>3 DEF Fetching
<1>5. Len(expected) = VisibleSize(Kind, file, c)
  BY <1>2, <1>4, SeenIs
<1>6. ASSUME NEW p \in Nat, NEW n \in Nat, p + n <= Len(expected)
      PROVE  Slice(expected, p, n) = Slice(c, p, n)
  <2>1. p + n <= VisibleSize(Kind, file, c)
    BY <1>5, <1>6
  <2>. QED  BY <1>2, <1>4, <2>1, SeenSlice
<1>. QED  BY <1>3, <1>5, <1>6

(* What reading leaves to prove of a step *)
LEMMA FetchedStep ==
  ASSUME LayersInv, NEW x, Journal(x), Unwritten, NEW m \in Nat,
         At(cursor.in + m, cursor.in + m),
         \E c : BufferInv(x, c, expected, images, cursor.in + m, MaxSize),
         ~HasWriteData(x.b), Kind = "server" => x.f = file, seen'.got = seen'.want
  PROVE  LayersInv'
<1>1. User = "journal" /\ open /\ setup' = setup
  BY DEF Journal
<1>2. HeadSize <= cursor.in /\ cursor.in \in Nat /\ HeadSize \in Nat
  BY <1>1, LayersAre, CursorType, SizesAre
<1>3. /\ expected' = expected /\ images' = images
      /\ expected' \in Bytes /\ Len(expected') <= MaxSize
      /\ HeadSize <= Len(expected')
      /\ IntegersHeld' /\ ImagesHaveHead' /\ count' \in Nat
  BY <1>1, UnwrittenIs
<1>4. cursor' \in [in : Nat, out : Nat] /\ cursor'.in = cursor.in + m
  <2>1. cursor.in + m \in Nat
    BY <1>2
  <2>. QED  BY <2>1, CursorIs
<1>5. HeadSize <= cursor'.in
  BY <1>2, <1>4
<1>6. \E d : BufferInv(x, d, expected', images', cursor'.in, MaxSize)
  BY <1>3, <1>4
<1>7. JournalNext(x)
  BY <1>1, <1>3, <1>4, <1>5, <1>6 DEF JournalNext, Journal
<1>. QED  BY <1>7, JournalStep

LEMMA ReadDataStep ==
  ASSUME LayersInv, NEW n \in Lengths, ReadData(n)
  PROVE  LayersInv'
<1>. DEFINE r == read_data(Layers, n)
            p == cursor.in
<1>1. /\ Journal(r.x) /\ Unwritten /\ At(p + n, p + n)
      /\ seen' = [got |-> r.read, want |-> Slice(expected, p, n)]
      /\ ~HasWriteData(buf) /\ p + n <= Len(expected)
      /\ User = "journal" /\ open /\ setup' = setup
  BY DEF ReadData, Journal
<1>2. /\ Kind \in Kinds /\ Layers.f = file /\ p \in Nat /\ n \in Nat
      /\ Len(expected) <= MaxSize /\ MaxSize \in Nat /\ Len(expected) \in Nat
  BY <1>1, LayersAre, SizesAre, CursorType
<1>3. PICK c :
        /\ Fetching(Layers, c, expected, images, p, MaxSize)
        /\ Len(expected) = VisibleSize(Kind, file, c)
        /\ Slice(expected, p, n) = Slice(c, p, n)
  BY <1>1, <1>2, MayRead, JournalLimit
<1>. HIDE DEF p
<1>4. Fetched(r, file, c, expected, images, p, n, MaxSize)
  <2>1. p + n <= VisibleSize(Kind, Layers.f, c) /\ p + n <= MaxSize
    BY <1>1, <1>2, <1>3
  <2>2. Fetched(read_data(Layers, n), Layers.f, c, expected, images, p, n, MaxSize)
    BY <1>2, <1>3, <2>1, ReadDataIs
  <2>. QED  BY <1>2, <2>2
<1>. HIDE DEF r
<1>5. BufferInv(r.x, c, expected, images, p + n, MaxSize) /\ ~HasWriteData(r.x.b)
  BY <1>2, <1>4, FetchingIsInv DEF Fetched
<1>6. Kind = "server" => r.x.f = file
  BY <1>4 DEF Fetched
<1>7. seen'.got = seen'.want
  BY <1>1, <1>3, <1>4 DEF Fetched
<1>. QED  BY <1>1, <1>2, <1>5, <1>6, <1>7, FetchedStep DEF p

LEMMA ReadIntegerStep ==
  ASSUME LayersInv, NEW i \in Integers_, ReadInteger(i)
  PROVE  LayersInv'
<1>. DEFINE q == read_data(Layers, 1)
            r == ReadFollowing(q)
            p == cursor.in
            w == compact_write(i)
            m == Len(w)
            n == m - 1
<1>1. /\ Journal(r.x) /\ Unwritten /\ At(p + Len(r.read), p + Len(r.read))
      /\ seen' = [got |-> <<compact_read(r.read)>>, want |-> <<i>>]
      /\ ~HasWriteData(buf) /\ <<p, i>> \in ints
      /\ User = "journal" /\ open /\ setup' = setup
  BY DEF ReadInteger, Journal
<1>2. /\ Kind \in Kinds /\ Layers.f = file /\ p \in Nat
      /\ Len(expected) <= MaxSize /\ MaxSize \in Nat /\ Len(expected) \in Nat
      /\ expected \in Bytes
  BY <1>1, LayersAre, SizesAre, CursorType
<1>3. w \in Bytes /\ m \in Nat \ {0} /\ compact_read(w) = i /\ m = CompactLength(w[1])
  BY CompactData
<1>4. Slice(expected, p, m) = w
  <2>1. IntegerAt(<<p, i>>, expected)
    BY <1>1 DEF LayersInv, IntegersHeld
  <2>. QED  BY <2>1 DEF IntegerAt
<1>. HIDE DEF p, w
<1>5. n \in Nat /\ n + 1 = m
  BY <1>3
<1>. HIDE DEF m, n
<1>6. p + m <= Len(expected)
  <2>1. IsSlice(w, expected, p, m)
    BY <1>2, <1>3, <1>4, SliceIs
  <2>2. Len(w) = m
    BY DEF m
  <2>. QED  BY <1>2, <1>3, <2>1, <2>2 DEF IsSlice
<1>7. PICK c :
        /\ Fetching(Layers, c, expected, images, p, MaxSize)
        /\ Len(expected) = VisibleSize(Kind, file, c)
        /\ \A a, b \in Nat : a + b <= Len(expected) => Slice(expected, a, b) = Slice(c, a, b)
  BY <1>1, MayRead, JournalLimit DEF p
<1>8. Fetched(q, file, c, expected, images, p, 1, MaxSize)
  <2>1. p + 1 <= VisibleSize(Kind, Layers.f, c) /\ p + 1 <= MaxSize
    BY <1>2, <1>3, <1>6, <1>7
  <2>2. Fetched(read_data(Layers, 1), Layers.f, c, expected, images, p, 1, MaxSize)
    BY <1>2, <1>7, <2>1, ReadDataIs
  <2>. QED  BY <1>2, <2>2
<1>. HIDE DEF q
<1>9. q.read[1] = w[1]
  <2>1. q.read = Slice(expected, p, 1)
    <3>1. p + 1 <= Len(expected)
      BY <1>2, <1>3, <1>6
    <3>. QED  BY <1>2, <1>7, <1>8, <3>1 DEF Fetched
  <2>2. IsSlice(q.read, expected, p, 1) /\ IsSlice(w, expected, p, m)
    BY <1>2, <1>3, <1>4, <2>1, SliceIs
  <2>3. Len(q.read) = 1 /\ Len(w) = m /\ m >= 1
    BY <1>2, <1>3, <1>6, <2>2 DEF IsSlice, m
  <2>4. 1 \in 1..Len(q.read) /\ 1 \in 1..Len(w)
    BY <1>3, <2>3
  <2>. QED  BY <2>2, <2>4 DEF IsSlice
<1>10. Fetched(r, file, c, expected, images, p, m, MaxSize)
  <2>1. n = CompactLength(q.read[1]) - 1
    BY <1>3, <1>5, <1>9 DEF n
  <2>2. p + (n + 1) <= VisibleSize(Kind, file, c) /\ p + (n + 1) <= MaxSize
    BY <1>2, <1>3, <1>5, <1>6, <1>7
  <2>3. VisibleSize(Kind, file, c) \in Nat
    BY <1>2, <1>7
  <2>4. Fetched(ReadFollowing(q), file, c, expected, images, p, n + 1, MaxSize)
    BY <1>2, <1>5, <1>8, <2>1, <2>2, <2>3, ReadFollowingIs
  <2>. QED  BY <1>5, <2>4
<1>. HIDE DEF r
<1>11. r.read = w
  BY <1>2, <1>3, <1>4, <1>6, <1>7, <1>10 DEF Fetched
<1>12. BufferInv(r.x, c, expected, images, p + m, MaxSize) /\ ~HasWriteData(r.x.b)
  BY <1>2, <1>10, FetchingIsInv DEF Fetched
<1>13. Kind = "server" => r.x.f = file
  BY <1>10 DEF Fetched
<1>14. seen'.got = seen'.want /\ At(p + m, p + m)
  BY <1>1, <1>3, <1>11 DEF m
<1>. QED  BY <1>1, <1>3, <1>12, <1>13, <1>14, FetchedStep DEF p

LEMMA IgnoreStep ==
  ASSUME LayersInv, NEW n \in Lengths, Ignore(n)
  PROVE  LayersInv'
<1>. DEFINE x == ignore(Layers, n)
            p == cursor.in
<1>1. /\ Journal(x) /\ Unwritten /\ At(p + n, p + n) /\ seen'.got = seen'.want
      /\ ~HasWriteData(buf) /\ p + n <= Len(expected)
      /\ User = "journal" /\ open /\ setup' = setup
  BY DEF Ignore, Journal, NoRead
<1>2. Kind \in Kinds /\ Layers.f = file /\ n \in Nat
  BY <1>1, LayersAre, SizesAre
<1>3. PICK c : Fetching(Layers, c, expected, images, p, MaxSize)
  BY <1>1, MayRead, JournalLimit
<1>4. /\ \E d : BufferInv(x, d, expected, images, p + n, MaxSize)
      /\ x.f = file /\ ~HasWriteData(x.b)
  <2>. HIDE DEF p
  <2>1. LET y == ignore(Layers, n) IN
        /\ \E d : BufferInv(y, d, expected, images, p + n, MaxSize)
        /\ y.f = Layers.f /\ ~HasWriteData(y.b)
    BY <1>1, <1>2, <1>3, IgnoreIs
  <2>. QED  BY <1>2, <2>1
<1>. HIDE DEF x
<1>. QED  BY <1>1, <1>2, <1>4, FetchedStep

(* Sync, and reading the head: the Encoded_File is flushed under the buffer. *)
LEMMA FileReadStep ==
  ASSUME LayersInv, Journal(Both(buf, AfterRead(file))), Unwritten, cursor' = cursor,
         seen'.got = seen'.want
  PROVE  LayersInv'
<1>. DEFINE x == Both(buf, AfterRead(file))
<1>1. User = "journal" /\ open /\ setup' = setup
  BY DEF Journal
<1>2. /\ Kind \in Kinds /\ Layers.b = buf /\ Layers.f = file
      /\ HasWriteData(buf) => HeadSize <= buf.position
      /\ HeadSize <= cursor.in
  BY <1>1, LayersAre
<1>3. PICK c : BufferInv(Layers, c, expected, images, cursor.in, MaxSize)
  BY <1>1, LayersAre, JournalLimit
<1>4. BufferInv(x, c, expected, images, cursor.in, MaxSize)
  BY <1>2, <1>3, AfterReadInv
<1>5. x.b = buf /\ x.f = AfterRead(file)
  BY BothFields
<1>6. Kind = "server" => x.f = file
  BY <1>5 DEF AfterRead
<1>7. /\ expected' = expected /\ images' = images
      /\ expected' \in Bytes /\ Len(expected') <= MaxSize
      /\ HeadSize <= Len(expected')
      /\ IntegersHeld' /\ ImagesHaveHead' /\ count' \in Nat
  BY <1>1, UnwrittenIs
<1>8. Journal(x)
  OBVIOUS
<1>. HIDE DEF x
<1>9. \E d : BufferInv(x, d, expected', images', cursor'.in, MaxSize)
  BY <1>4, <1>7
<1>10. JournalNext(x)
  BY <1>1, <1>2, <1>5, <1>6, <1>7, <1>8, <1>9, CursorType DEF JournalNext, Journal
<1>. QED  BY <1>10, JournalStep

LEMMA SyncStep ==
  ASSUME LayersInv, Sync
  PROVE  LayersInv'
<1>1. Journal(Both(buf, AfterRead(file)))
  BY DEF Sync, AfterRead
<1>2. Unwritten /\ cursor' = cursor /\ seen'.got = seen'.want
  BY DEF Sync, NoRead
<1>. QED  BY <1>1, <1>2, FileReadStep

(* The head is not in the buffer. *)
LEMMA ReadHeadStep ==
  ASSUME LayersInv, ReadHead
  PROVE  LayersInv'
<1>. DEFINE n == HeadSize
            got == full_pread(file, 0, n)
<1>1. /\ Journal(Both(buf, AfterRead(file))) /\ Unwritten /\ cursor' = cursor
      /\ seen' = [got |-> got, want |-> Slice(expected, 0, Len(got))]
      /\ User = "journal"
  BY DEF ReadHead, ReadGives, Journal
<1>2. /\ Kind \in Kinds /\ Layers.b = buf /\ Layers.f = file
      /\ HasWriteData(buf) => HeadSize <= buf.position
      /\ HeadSize \in 0..Len(expected) /\ Len(expected) \in Nat /\ expected \in Bytes
  BY <1>1, LayersAre
<1>3. PICK c : BufferInv(Layers, c, expected, images, cursor.in, Limit)
  BY <1>1, LayersAre
<1>4. Holds(Kind, file, c, images) /\ buf \in BufferT
  BY <1>2, <1>3, BufferInvIs
<1>s. /\ Seen(file, c) \in Bytes /\ Len(Seen(file, c)) = VisibleSize(Kind, file, c)
      /\ \A a, b \in Nat : a + b <= VisibleSize(Kind, file, c) =>
           Slice(Seen(file, c), a, b) = Slice(c, a, b)
  BY <1>2, <1>4, SeenIs, SeenSlice
<1>5. n <= VisibleSize(Kind, file, c) /\ Slice(expected, 0, n) = Slice(Seen(file, c), 0, n)
  <2>1. CASE HasWriteData(buf)
    <3>1. Buffered(Layers, c, expected, images, cursor.in)
      BY <1>2, <1>3, <2>1 DEF BufferInv, HasWriteData
    <3>. DEFINE s == Seen(file, c)
                d == buf.data
                o == buf.position
    <3>2. expected = Patched(s, d, o) /\ o <= VisibleSize(Kind, file, c)
      BY <1>2, <3>1 DEF Buffered
    <3>3. d \in Bytes /\ o \in Nat /\ s \in Bytes /\ HeadSize <= o /\ HeadSize \in Nat
      BY <1>2, <1>4, <1>s, <2>1, BufferFields
    <3>4. o \in 0..Len(s) /\ Len(s) \in Nat /\ VisibleSize(Kind, file, c) = Len(s)
      BY <1>s, <3>2, <3>3, LenIs
    <3>. HIDE DEF s, d, o
    <3>5. 0 + n <= o /\ 0 + n <= Len(s) /\ 0 \in Nat /\ n \in Nat
      BY <3>3, <3>4
    <3>6. Slice(Patched(s, d, o), 0, n) = Slice(s, 0, n)
      BY <3>3, <3>4, <3>5, SliceOfPatched
    <3>. QED  BY <3>2, <3>4, <3>5, <3>6 DEF s
  <2>2. CASE ~HasWriteData(buf)
    <3>1. Fetching(Layers, c, expected, images, cursor.in, Limit)
      BY <1>2, <1>3, <2>2, InvIsFetching
    <3>. QED  BY <1>2, <1>s, <3>1 DEF Fetching
  <2>. QED  BY <2>1, <2>2
<1>6. got = Slice(expected, 0, n)
  <2>1. n \in Nat /\ 0 \in Nat /\ 0 + n <= VisibleSize(Kind, file, c)
    BY <1>5, SizesAre
  <2>2. got = Slice(c, 0, n)
    BY <1>2, <1>4, <2>1, FullPreadIs
  <2>. QED  BY <1>s, <1>5, <2>1, <2>2
<1>7. Len(got) = n
  <2>1. IsSlice(got, expected, 0, n)
    BY <1>2, <1>6, SliceIs, SizesAre
  <2>. QED  BY <1>2, <2>1 DEF IsSlice
<1>. HIDE DEF got
<1>8. seen'.got = seen'.want
  BY <1>1, <1>6, <1>7
<1>. QED  BY <1>1, <1>8, FileReadStep

(* What is read from changes, but not where the buffer was filled from, up to *)
(* the limit.                                                                 *)
LEMMA FetchingOther ==
  ASSUME NEW x, NEW c, NEW e, NEW I, NEW p, NEW L \in Nat, Kind \in Kinds,
         Fetching(x, c, e, I, p, L),
         NEW g, NEW d, Holds(Kind, g, d, I),
         VisibleSize(Kind, x.f, c) <= VisibleSize(Kind, g, d),
         Len(c) <= Len(d), \A i \in 1..Len(c) : p < i /\ i <= L => d[i] = c[i]
  PROVE  Fetching(Both(x.b, g), d, Seen(g, d), I, p, L)
<1>1. /\ Holds(Kind, x.f, c, I) /\ x.b \in BufferT /\ ~x.b.overrun
      /\ x.b.index <= Len(x.b.data) /\ (~x.b.reading => x.b.data = <<>>)
      /\ p \in Nat /\ p = get_position(x.b) /\ p <= VisibleSize(Kind, x.f, c)
      /\ Ahead(x.b, c, p, L)
  BY DEF Fetching
<1>2. VisibleSize(Kind, x.f, c) \in Nat /\ VisibleSize(Kind, g, d) \in Nat
  BY <1>1, HoldsIs
<1>3. p <= VisibleSize(Kind, g, d)
  BY <1>1, <1>2
<1>4. Len(c) \in Nat /\ Len(d) \in Nat
  BY <1>1, HoldsIs
<1>5. Ahead(x.b, d, p, L)
  <2>1. ASSUME NEW k \in 1..(Len(x.b.data) - x.b.index)
        PROVE  p + k <= Len(d) /\ (p + k <= L => x.b.data[x.b.index + k] = d[p + k])
    <3>0. Len(x.b.data) \in Nat /\ x.b.index \in Nat
      BY <1>1, BufferFields
    <3>1. p + k <= Len(c) /\ (p + k <= L => x.b.data[x.b.index + k] = c[p + k])
      BY <1>1, <2>1 DEF Ahead
    <3>2. p + k \in 1..Len(c) /\ p < p + k
      BY <1>1, <1>4, <3>0, <3>1
    <3>. QED  BY <1>4, <3>1, <3>2
  <2>. QED  BY <2>1 DEF Ahead
<1>6. Both(x.b, g).b = x.b /\ Both(x.b, g).f = g
  BY BothFields
<1>. QED  BY <1>1, <1>3, <1>5, <1>6 DEF Fetching

(* The integers are after the head. *)
LEMMA IntegersKept ==
  ASSUME LayersInv, ints' = ints, expected' \in Bytes, Len(expected) <= Len(expected'),
         \A i \in 1..Len(expected) : HeadSize < i => expected'[i] = expected[i]
  PROVE  IntegersHeld'
<1>1. ASSUME NEW z \in ints PROVE IntegerAt(z, expected')
  <2>. DEFINE w == compact_write(z[2])
              o == z[1]
              t == Slice(expected', o, Len(w))
  <2>1. /\ z[2] \in Integers_ /\ o \in Nat /\ HeadSize <= o
        /\ Slice(expected, o, Len(w)) = w
    BY <1>1 DEF LayersInv, IntegersHeld, IntegerAt
  <2>2. Len(w) \in Nat \ {0} /\ w \in Bytes
    BY <2>1, CompactData
  <2>. HIDE DEF w, o
  <2>3. /\ expected \in Bytes /\ Len(expected) \in Nat /\ Len(expected') \in Nat
        /\ HeadSize \in Nat
    BY LenIs, SizesAre DEF LayersInv, Shape
  <2>4. IsSlice(w, expected, o, Len(w)) /\ IsSlice(t, expected', o, Len(w))
    BY <2>1, <2>2, <2>3, SliceIs
  <2>. HIDE DEF t
  <2>5. o + Len(w) <= Len(expected)
    BY <2>1, <2>2, <2>3, <2>4 DEF IsSlice
  <2>6. t \in Bytes /\ Len(t) = Len(w)
    BY <2>1, <2>2, <2>3, <2>4, <2>5 DEF IsSlice
  <2>7. ASSUME NEW k \in 1..Len(t) PROVE t[k] = w[k]
    <3>1. o + k \in 1..Len(expected) /\ HeadSize < o + k /\ k \in 1..Len(w)
      BY <2>1, <2>2, <2>3, <2>5, <2>6
    <3>2. t[k] = expected'[o + k] /\ w[k] = expected[o + k]
      BY <2>4, <2>7, <3>1 DEF IsSlice
    <3>. QED  BY <3>1, <3>2
  <2>8. t = w
    BY <2>2, <2>6, <2>7, SameBytes
  <2>. QED  BY <2>1, <2>8 DEF IntegerAt, w, o, t
<1>. QED  BY <1>1 DEF IntegersHeld, IntegerAt

(* The server: what another client appends, and what this one pushes *)
LEMMA ServedRemote ==
  ASSUME NEW H \in Bytes, NEW R \in Bytes, NEW c \in Bytes,
         HeadSize <= Len(R), IsServed(c, H, R, <<>>), NEW d \in Bytes
  PROVE  /\ IsServed(c \o d, H, R \o d, <<>>)
         /\ c \o d \in Bytes /\ R \o d \in Bytes
         /\ Len(c \o d) = Len(c) + Len(d) /\ Len(R \o d) = Len(R) + Len(d)
         /\ \A i \in 1..Len(c) : (c \o d)[i] = c[i]
<1>. DEFINE cd == c \o d
            Rd == R \o d
<1>1. IsCat(cd, c, d) /\ IsCat(Rd, R, d)
  BY CatIs
<1>2. Len(c) \in Nat /\ Len(R) \in Nat /\ Len(d) \in Nat /\ HeadSize \in Nat /\ Len(<<>>) = 0
  BY LenIs, SizesAre
<1>. HIDE DEF cd, Rd
<1>3. Len(c) = Len(R)
  BY <1>2 DEF IsServed
<1>4. cd \in Bytes /\ Rd \in Bytes /\ Len(cd) = Len(c) + Len(d) /\ Len(Rd) = Len(R) + Len(d)
  BY <1>1 DEF IsCat
<1>5. ASSUME NEW i \in 1..Len(cd)
      PROVE  cd[i] = IF i <= HeadSize THEN H[i] ELSE Rd[i]
  <2>1. cd[i] = IF i <= Len(c) THEN c[i] ELSE d[i - Len(c)]
    BY <1>1 DEF IsCat
  <2>2. Rd[i] = IF i <= Len(R) THEN R[i] ELSE d[i - Len(R)]
    <3>1. i \in 1..Len(Rd)
      BY <1>2, <1>3, <1>4
    <3>. QED  BY <1>1, <3>1 DEF IsCat
  <2>3. i <= Len(c) => c[i] = IF i <= HeadSize THEN H[i] ELSE R[i]
    <3>1. ASSUME i <= Len(c) PROVE i \in 1..Len(c) /\ i <= Len(R)
      BY <1>2, <1>3, <1>4, <3>1
    <3>. QED  BY <3>1 DEF IsServed
  <2>4. i <= HeadSize => i <= Len(c)
    BY <1>2, <1>3, <1>4
  <2>. QED  BY <1>2, <1>3, <1>4, <2>1, <2>2, <2>3, <2>4
<1>6. IsServed(cd, H, Rd, <<>>)
  BY <1>2, <1>3, <1>4, <1>5 DEF IsServed
<1>7. ASSUME NEW i \in 1..Len(c) PROVE cd[i] = c[i]
  <2>1. i \in 1..Len(cd)
    BY <1>2, <1>4
  <2>. QED  BY <1>1, <1>7, <2>1 DEF IsCat
<1>. QED  BY <1>4, <1>6, <1>7 DEF cd, Rd

LEMMA ServedPush ==
  ASSUME NEW H \in Bytes, NEW R \in Bytes, NEW D \in Bytes, NEW c \in Bytes,
         IsServed(c, H, R, D)
  PROVE  IsServed(c, H, R \o D, <<>>) /\ R \o D \in Bytes /\ Len(R \o D) = Len(R) + Len(D)
<1>. DEFINE RD == R \o D
<1>1. IsCat(RD, R, D)
  BY CatIs
<1>2. Len(c) \in Nat /\ Len(R) \in Nat /\ Len(D) \in Nat /\ Len(<<>>) = 0
  BY LenIs
<1>. HIDE DEF RD
<1>3. Len(c) = Len(R) + Len(D) /\ RD \in Bytes /\ Len(RD) = Len(R) + Len(D)
  BY <1>1 DEF IsServed, IsCat
<1>4. ASSUME NEW i \in 1..Len(c)
      PROVE  c[i] = IF i <= HeadSize THEN H[i] ELSE RD[i]
  <2>1. c[i] = IF i <= HeadSize THEN H[i] ELSE IF i <= Len(R) THEN R[i] ELSE D[i - Len(R)]
    BY DEF IsServed
  <2>2. RD[i] = IF i <= Len(R) THEN R[i] ELSE D[i - Len(R)]
    BY <1>1, <1>3 DEF IsCat
  <2>. QED  BY <2>1, <2>2
<1>5. IsServed(c, H, RD, <<>>)
  BY <1>2, <1>3, <1>4 DEF IsServed
<1>. QED  BY <1>3, <1>5 DEF RD

(* A Server_File that has nothing to push: what it holds and what is seen of it *)
LEMMA ServerIs ==
  ASSUME LayersInv, Kind = "server", ~HasWriteData(buf)
  PROVE  /\ User = "journal" /\ open
         /\ \E c :
              /\ Fetching(Layers, c, expected, images, cursor.in, MaxSize)
              /\ Layers.b = buf /\ Layers.f = file
              /\ Holds(Kind, file, c, images) /\ HoldsServer(file, c) /\ c \in Bytes
              /\ file \in FileT /\ file.head \in Bytes /\ file.remote \in Bytes
              /\ file.data \in Bytes /\ file.tail_offset \in Nat
              /\ Len(expected) = file.tail_offset + Len(file.data)
              /\ Len(file.remote) <= MaxSize
              /\ \A i \in 1..Len(expected) : expected[i] = c[i]
              /\ Len(c) = Len(file.remote) + Len(file.data)
              /\ Len(expected) <= Len(c)
<1>u. User = "journal" /\ open /\ Kind \in Kinds /\ User # "stream"
  BY SetupIs, SetupAssumption DEF LayersInv, Shape, Kind, User
<1>1. PICK c : /\ Fetching(Layers, c, expected, images, cursor.in, Limit)
               /\ Len(expected) = VisibleSize(Kind, file, c)
  BY <1>u, MayRead
<1>2. Layers.b = buf /\ Layers.f = file /\ Len(file.remote) <= MaxSize
  BY <1>u, LayersAre DEF LayersInv, JournalLayers
<1>3. Holds(Kind, file, c, images) /\ expected = Seen(file, c)
  BY <1>1, <1>2 DEF Fetching
<1>4. HoldsServer(file, c) /\ c \in Bytes /\ file \in FileT
  BY <1>3 DEF Holds
<1>5. Len(expected) = file.tail_offset + Len(file.data)
  BY <1>1 DEF VisibleSize
<1>6. \A i \in 1..Len(expected) : expected[i] = c[i]
  BY <1>1, <1>3, <1>u, SeenIs
<1>7. Len(c) = Len(file.remote) + Len(file.data)
  BY <1>4 DEF HoldsServer, IsServed
<1>8. Len(expected) <= Len(c)
  BY <1>1, <1>3, <1>u, HoldsIs
<1>9. Limit = MaxSize
  BY <1>u, JournalLimit
<1>. QED  BY <1>u, <1>1, <1>2, <1>3, <1>4, <1>5, <1>6, <1>7, <1>8, <1>9, FileFields

(* A step of the server, or of this client with the server *)
LEMMA ServerStep ==
  ASSUME LayersInv, Kind = "server", ~HasWriteData(buf),
         setup' = setup /\ buf' = buf /\ stream' = stream /\ open' = open /\ cursor' = cursor,
         ints' = ints /\ images' = images, count' \in Nat, seen'.got = seen'.want,
         NEW c, Fetching(Layers, c, expected, images, cursor.in, MaxSize),
         NEW d, Holds(Kind, file', d, images), Len(c) <= Len(d),
         \A i \in 1..Len(c) : HeadSize < i => d[i] = c[i],
         expected' = Seen(file', d), Len(expected) <= VisibleSize(Kind, file', d),
         Len(expected) = VisibleSize(Kind, file, c),
         VisibleSize(Kind, file', d) <= MaxSize, Len(file'.remote) <= MaxSize
  PROVE  LayersInv'
<1>u. User = "journal" /\ open /\ Kind \in Kinds /\ User # "stream"
  BY SetupIs, SetupAssumption DEF LayersInv, Shape, Kind, User
<1>. DEFINE x == Both(buf, file')
<1>1. /\ Layers.b = buf /\ Layers.f = file /\ HeadSize <= cursor.in
      /\ Len(expected) \in Nat /\ HeadSize \in 0..Len(expected) /\ MaxSize \in Nat
  BY <1>u, LayersAre, SizesAre
<1>2. cursor.in \in Nat /\ cursor \in [in : Nat, out : Nat]
  BY CursorType
<1>c. /\ Holds(Kind, file, c, images) /\ expected = Seen(file, c)
      /\ Len(c) \in Nat /\ Len(d) \in Nat
      /\ VisibleSize(Kind, file, c) <= Len(c)
      /\ VisibleSize(Kind, file', d) \in Nat
      /\ VisibleSize(Kind, file', d) <= Len(d)
  BY <1>u, <1>1, HoldsIs DEF Fetching
<1>3. Fetching(x, d, expected', images, cursor.in, MaxSize)
  <2>1. VisibleSize(Kind, Layers.f, c) <= VisibleSize(Kind, file', d)
    BY <1>1
  <2>2. \A i \in 1..Len(c) : cursor.in < i /\ i <= MaxSize => d[i] = c[i]
    <3>1. ASSUME NEW i \in 1..Len(c), cursor.in < i PROVE HeadSize < i
      BY <1>1, <1>2, <1>c, <3>1
    <3>. QED  BY <3>1
  <2>3. Fetching(Both(Layers.b, file'), d, Seen(file', d), images, cursor.in, MaxSize)
    BY <1>u, <1>1, <2>1, <2>2, FetchingOther
  <2>. QED  BY <1>1, <2>3
<1>4. BufferInv(x, d, expected', images, cursor.in, MaxSize)
  BY <1>u, <1>3, FetchingIsInv
<1>5. /\ expected' \in Bytes /\ Len(expected') = VisibleSize(Kind, file', d)
      /\ \A i \in 1..VisibleSize(Kind, file', d) : expected'[i] = d[i]
      /\ \A i \in 1..Len(expected) : expected[i] = c[i]
  <2>1. /\ expected' \in Bytes /\ Len(expected') = VisibleSize(Kind, file', d)
        /\ \A i \in 1..VisibleSize(Kind, file', d) : expected'[i] = d[i]
    BY <1>u, SeenIs
  <2>2. \A i \in 1..VisibleSize(Kind, file, c) : expected[i] = c[i]
    BY <1>u, <1>c, SeenIs
  <2>. QED  BY <2>1, <2>2
<1>6. IntegersHeld'
  <2>1. ASSUME NEW i \in 1..Len(expected), HeadSize < i PROVE expected'[i] = expected[i]
    <3>1. i \in 1..Len(c) /\ i \in 1..VisibleSize(Kind, file', d)
      BY <1>1, <1>c
    <3>. QED  BY <1>5, <2>1, <3>1
  <2>. QED  BY <1>5, <2>1, IntegersKept
<1>7. ImagesHaveHead'
  BY SameUser DEF LayersInv, ImagesHaveHead
<1>8. x.b = buf /\ x.f = file'
  BY BothFields
<1>. HIDE DEF x
<1>9. HeadSize <= Len(expected') /\ Len(expected') <= MaxSize
  BY <1>1, <1>5
<1>10. \E e : BufferInv(x, e, expected', images', cursor'.in, MaxSize)
  BY <1>4
<1>11. JournalNext(x)
  BY <1>u, <1>1, <1>2, <1>5, <1>6, <1>7, <1>8, <1>9, <1>10 DEF JournalNext
<1>. QED  BY <1>11, JournalStep

LEMMA RemoteAppendStep ==
  ASSUME LayersInv, NEW n \in Lengths, RemoteAppend(n)
  PROVE  LayersInv'
<1>. DEFINE data == Data(n)
            R == file.remote \o data
<1>1. /\ Kind = "server" /\ file.data = <<>> /\ ~HasWriteData(buf)
      /\ Len(file.remote) + n <= MaxSize /\ file' = [file EXCEPT !.remote = R]
      /\ count' = count + 1 /\ seen'.got = seen'.want
      /\ setup' = setup /\ buf' = buf /\ stream' = stream /\ open' = open /\ cursor' = cursor
      /\ expected' = expected /\ ints' = ints /\ images' = images
  BY DEF RemoteAppend, NoRead
<1>2. data \in Bytes /\ Len(data) = n /\ n \in Nat /\ count' \in Nat
  BY <1>1, DataIs, SizesAre DEF LayersInv, Shape
<1>3. PICK c :
        /\ Fetching(Layers, c, expected, images, cursor.in, MaxSize)
        /\ Layers.f = file
        /\ Holds(Kind, file, c, images) /\ HoldsServer(file, c) /\ c \in Bytes
        /\ file \in FileT /\ file.head \in Bytes /\ file.remote \in Bytes
        /\ file.tail_offset \in Nat
        /\ Len(expected) = file.tail_offset + Len(file.data)
        /\ \A i \in 1..Len(expected) : expected[i] = c[i]
        /\ Len(expected) <= Len(c)
  BY <1>1, ServerIs
<1>. DEFINE d == c \o data
<1>h. HeadSize <= Len(file.remote) /\ IsServed(c, file.head, file.remote, <<>>)
  BY <1>1, <1>3, SizesAre, LenIs DEF HoldsServer
<1>4. /\ IsServed(d, file.head, R, <<>>) /\ d \in Bytes /\ R \in Bytes
      /\ Len(d) = Len(c) + n /\ Len(R) = Len(file.remote) + n
      /\ \A i \in 1..Len(c) : d[i] = c[i]
  <2>. HIDE DEF data
  <2>1. /\ IsServed(c \o data, file.head, file.remote \o data, <<>>)
        /\ c \o data \in Bytes /\ file.remote \o data \in Bytes
        /\ Len(c \o data) = Len(c) + Len(data)
        /\ Len(file.remote \o data) = Len(file.remote) + Len(data)
        /\ \A i \in 1..Len(c) : (c \o data)[i] = c[i]
    BY <1>2, <1>3, <1>h, ServedRemote
  <2>. QED  BY <1>2, <2>1
<1>5. Len(c) \in Nat /\ Len(file.remote) \in Nat /\ Len(<<>>) = 0
  BY <1>3, LenIs
<1>. HIDE DEF data, R, d
<1>6. /\ file' \in FileT /\ file'.head = file.head /\ file'.remote = R
      /\ file'.data = <<>> /\ file'.tail_offset = file.tail_offset
  BY <1>1, <1>3, <1>4 DEF FileT
<1>7. HoldsServer(file', d)
  BY <1>2, <1>3, <1>4, <1>5, <1>6 DEF HoldsServer
<1>8. Holds(Kind, file', d, images)
  BY <1>1, <1>4, <1>6, <1>7 DEF Holds
<1>9. /\ VisibleSize(Kind, file', d) = file.tail_offset
      /\ VisibleSize(Kind, file, c) = file.tail_offset
      /\ Len(expected) = file.tail_offset
  BY <1>1, <1>3, <1>5, <1>6 DEF VisibleSize
<1>10. expected' = Seen(file', d)
  <2>. DEFINE t == Seen(file', d)
  <2>1. /\ t \in Bytes /\ Len(t) = file.tail_offset
        /\ \A i \in 1..file.tail_offset : t[i] = d[i]
    BY <1>1, <1>8, <1>9, SeenIs DEF Kinds
  <2>. HIDE DEF t
  <2>2. \A i \in 1..Len(expected) : expected[i] = t[i]
    BY <1>3, <1>4, <1>5, <1>9, <2>1
  <2>3. expected \in Bytes
    BY DEF LayersInv, Shape
  <2>4. expected = t
    BY <1>9, <2>1, <2>2, <2>3, SameBytes
  <2>. QED  BY <1>1, <2>4 DEF t
<1>11. /\ Len(c) <= Len(d) /\ VisibleSize(Kind, file', d) <= MaxSize
       /\ Len(file'.remote) <= MaxSize
  <2>1. file.tail_offset <= Len(file.remote)
    BY <1>3 DEF HoldsServer
  <2>2. Len(c) <= Len(d)
    BY <1>2, <1>4, <1>5
  <2>3. Len(file'.remote) <= MaxSize
    BY <1>1, <1>4, <1>6
  <2>4. file.tail_offset <= MaxSize
    BY <1>1, <1>2, <1>3, <1>5, <2>1, SizesAre
  <2>. QED  BY <1>9, <2>2, <2>3, <2>4
<1>12. Len(expected) <= VisibleSize(Kind, file', d) /\ Len(expected) = VisibleSize(Kind, file, c)
  BY <1>3, <1>9
<1>. QED  BY <1>1, <1>2, <1>3, <1>4, <1>8, <1>10, <1>11, <1>12, ServerStep

LEMMA PushStep ==
  ASSUME LayersInv, Push
  PROVE  LayersInv'
<1>. DEFINE R == file.remote \o file.data
            T == get_size(file)
<1>1. /\ Kind = "server" /\ file.data # <<>> /\ ~HasWriteData(buf)
      /\ file' = [file EXCEPT !.remote = R, !.data = <<>>, !.tail_offset = T]
      /\ count' = count /\ seen'.got = seen'.want
      /\ setup' = setup /\ buf' = buf /\ stream' = stream /\ open' = open /\ cursor' = cursor
      /\ expected' = expected /\ ints' = ints /\ images' = images
  BY DEF Push, NoRead
<1>2. PICK c :
        /\ Fetching(Layers, c, expected, images, cursor.in, MaxSize)
        /\ Layers.f = file
        /\ Holds(Kind, file, c, images) /\ HoldsServer(file, c) /\ c \in Bytes
        /\ file \in FileT /\ file.head \in Bytes /\ file.remote \in Bytes
        /\ file.data \in Bytes /\ file.tail_offset \in Nat
        /\ Len(expected) = file.tail_offset + Len(file.data)
        /\ \A i \in 1..Len(expected) : expected[i] = c[i]
        /\ Len(c) = Len(file.remote) + Len(file.data)
  BY <1>1, ServerIs
<1>3. /\ Len(file.head) = HeadSize /\ HeadSize <= file.tail_offset
      /\ file.tail_offset = Len(file.remote)
      /\ IsServed(c, file.head, file.remote, file.data)
  BY <1>1, <1>2 DEF HoldsServer
<1>4. T = file.tail_offset + Len(file.data)
  BY <1>1 DEF get_size
<1>5. IsServed(c, file.head, R, <<>>) /\ R \in Bytes /\ Len(R) = Len(file.remote) + Len(file.data)
  BY <1>2, <1>3, ServedPush
<1>6. /\ Len(file.data) \in Nat /\ Len(file.remote) \in Nat /\ Len(<<>>) = 0
      /\ HeadSize \in Nat /\ Len(c) \in Nat
  BY <1>2, LenIs, SizesAre
<1>. HIDE DEF R, T
<1>7. /\ file' \in FileT /\ file'.head = file.head /\ file'.remote = R
      /\ file'.data = <<>> /\ file'.tail_offset = T
  <2>1. T \in Nat /\ <<>> \in Bytes
    BY <1>2, <1>4, <1>6 DEF Bytes
  <2>. QED  BY <1>1, <1>2, <1>5, <2>1 DEF FileT
<1>8. HoldsServer(file', c)
  <2>0. /\ file.tail_offset \in Nat /\ HeadSize <= file.tail_offset
        /\ file.tail_offset = Len(file.remote)
    BY <1>2, <1>3
  <2>1. HeadSize <= T /\ T = Len(R)
    <3>1. /\ Len(R) = Len(file.remote) + Len(file.data)
          /\ Len(file.data) \in Nat /\ HeadSize \in Nat
      BY <1>5, <1>6
    <3>. DEFINE m == Len(file.data)
                k == Len(file.remote)
                o == file.tail_offset
    <3>2. m \in Nat /\ k = o /\ o \in Nat /\ HeadSize <= o /\ T = o + m /\ Len(R) = k + m
      BY <1>4, <2>0, <3>1
    <3>. HIDE DEF m, k, o
    <3>3. T = Len(R)
      BY <3>2
    <3>4. HeadSize <= o + m
      BY <3>1, <3>2
    <3>. QED  BY <3>2, <3>3, <3>4
  <2>2. T <= Len(R)
    BY <1>2, <1>4, <1>6, <2>1
  <2>3. /\ Len(file'.head) = HeadSize /\ HeadSize <= file'.tail_offset
        /\ file'.tail_offset <= Len(file'.remote)
        /\ IsServed(c, file'.head, file'.remote, file'.data)
    BY <1>3, <1>5, <1>7, <2>1, <2>2
  <2>. QED  BY <1>7, <2>1, <2>3 DEF HoldsServer
<1>9. Holds(Kind, file', c, images)
  BY <1>1, <1>2, <1>7, <1>8 DEF Holds
<1>10. /\ VisibleSize(Kind, file', c) = T /\ VisibleSize(Kind, file, c) = T
       /\ Len(expected) = T /\ Len(c) = T /\ Len(R) = T
  BY <1>1, <1>2, <1>3, <1>4, <1>5, <1>6, <1>7 DEF VisibleSize
<1>11. Seen(file', c) = c /\ Seen(file, c) = c
  BY <1>1, <1>2, <1>9, <1>10, SeenIs DEF Kinds
<1>12. expected' = Seen(file', c)
  BY <1>1, <1>2, <1>11 DEF Fetching
<1>13. Len(expected) <= MaxSize /\ T \in Nat
  BY <1>2, <1>4, <1>6 DEF LayersInv, Shape
<1>14. /\ Len(c) <= Len(c) /\ Len(expected) <= VisibleSize(Kind, file', c)
       /\ VisibleSize(Kind, file', c) <= MaxSize /\ Len(file'.remote) <= MaxSize
       /\ count' \in Nat
  BY <1>1, <1>6, <1>7, <1>10, <1>13 DEF LayersInv, Shape
<1>. QED  BY <1>1, <1>2, <1>9, <1>10, <1>12, <1>14, ServerStep

LEMMA PullStep ==
  ASSUME LayersInv, Pull
  PROVE  LayersInv'
<1>. DEFINE T == Len(file.remote)
            H == Patched(file.head, <<T>>, 0)
            tail == SubSeq(file.remote, HeadSize + 1, T)
<1>1. /\ Kind = "server" /\ file.data = <<>> /\ ~HasWriteData(buf)
      /\ T > file.tail_offset
      /\ file' = [file EXCEPT !.head = H, !.tail_offset = T]
      /\ expected' = H \o tail
      /\ count' = count /\ seen'.got = seen'.want
      /\ setup' = setup /\ buf' = buf /\ stream' = stream /\ open' = open /\ cursor' = cursor
      /\ ints' = ints /\ images' = images
  BY DEF Pull, NoRead
<1>2. PICK c :
        /\ Fetching(Layers, c, expected, images, cursor.in, MaxSize)
        /\ Layers.f = file
        /\ Holds(Kind, file, c, images) /\ HoldsServer(file, c) /\ c \in Bytes
        /\ file \in FileT /\ file.head \in Bytes /\ file.remote \in Bytes
        /\ file.tail_offset \in Nat /\ T <= MaxSize
        /\ Len(expected) = file.tail_offset + Len(file.data)
        /\ Len(c) = T + Len(file.data)
  BY <1>1, ServerIs
<1>3. /\ T \in Nat /\ Len(<<>>) = 0 /\ HeadSize \in Nat \ {0}
      /\ <<T>> \in Bytes /\ Len(<<T>>) = 1
  BY <1>2, LenIs, SizesAre DEF Bytes
<1>4. /\ Len(file.head) = HeadSize /\ HeadSize <= file.tail_offset
      /\ IsServed(c, file.head, file.remote, <<>>)
  BY <1>1, <1>2 DEF HoldsServer
<1>. DEFINE d == Patched(c, <<T>>, 0)
<1>5. /\ IsServed(d, H, file.remote, <<>>) /\ H \in Bytes /\ Len(H) = HeadSize
      /\ Len(d) = Len(c) /\ d \in Bytes
  <2>. DEFINE e == <<T>>
              R == file.remote
              D == <<>>
  <2>1. /\ e \in Bytes /\ Len(e) = 1 /\ R \in Bytes /\ D \in Bytes /\ file.head \in Bytes
        /\ HeadSize <= Len(R) /\ IsServed(c, file.head, R, D) /\ c \in Bytes
        /\ Len(file.head) = HeadSize
    BY <1>1, <1>2, <1>3, <1>4 DEF Bytes
  <2>2. IsPatched(Patched(c, e, 0), c, e, 0)
    BY <2>1, PatchedIs
  <2>. DEFINE o == 0
              K == file.head
  <2>. HIDE DEF e, R, D
  <2>3. o + Len(e) <= HeadSize /\ o \in Nat
    BY <1>3, <2>1
  <2>k. /\ K \in Bytes /\ Len(K) = HeadSize /\ IsServed(c, K, R, D)
        /\ e \in Bytes /\ R \in Bytes /\ D \in Bytes /\ c \in Bytes /\ HeadSize <= Len(R)
    BY <2>1
  <2>. HIDE DEF o, K
  <2>4. /\ IsServed(Patched(c, e, o), Patched(K, e, o), R, D)
        /\ Patched(K, e, o) \in Bytes /\ Len(Patched(K, e, o)) = HeadSize
        /\ Len(Patched(c, e, o)) = Len(c)
    BY <2>3, <2>k, ServedHead
  <2>. QED  BY <2>2, <2>4 DEF IsPatched, e, R, D, o, K
<1>6. \A i \in 1..Len(c) : HeadSize < i => d[i] = c[i]
  <2>1. IsPatched(d, c, <<T>>, 0)
    BY <1>2, <1>3, PatchedIs
  <2>2. Len(c) \in Nat
    BY <1>2, LenIs
  <2>. HIDE DEF d
  <2>3. ASSUME NEW i \in 1..Len(c), HeadSize < i PROVE d[i] = c[i]
    <3>1. i \in 1..Len(d) /\ ~(0 < i /\ i <= 0 + Len(<<T>>))
      BY <1>3, <1>5, <2>3
    <3>. QED  BY <2>1, <2>2, <2>3, <3>1 DEF IsPatched
  <2>. QED  BY <2>3
<1>. HIDE DEF H, d
<1>7. /\ file' \in FileT /\ file'.head = H /\ file'.remote = file.remote
      /\ file'.data = <<>> /\ file'.tail_offset = T
  BY <1>1, <1>2, <1>3, <1>5 DEF FileT
<1>8. Len(c) = T
  BY <1>1, <1>2, <1>3
<1>. HIDE DEF T
<1>9. HoldsServer(file', d)
  BY <1>1, <1>2, <1>3, <1>4, <1>5, <1>7 DEF HoldsServer, T
<1>10. Holds(Kind, file', d, images)
  BY <1>1, <1>5, <1>7, <1>9 DEF Holds
<1>11. VisibleSize(Kind, file', d) = T /\ Len(d) = T
  BY <1>1, <1>3, <1>5, <1>7, <1>8 DEF VisibleSize
<1>12. Seen(file', d) = d
  BY <1>1, <1>10, <1>11, SeenIs DEF Kinds
<1>13. expected' = d
  <2>1. /\ tail \in Bytes /\ Len(tail) = T - HeadSize
        /\ \A i \in 1..Len(tail) : tail[i] = file.remote[HeadSize + i]
    <3>1. HeadSize <= T
      BY <1>1, <1>2, <1>3, <1>4
    <3>2. T \in Nat /\ HeadSize \in Nat /\ file.remote \in Seq(Nat)
      BY <1>2, <1>3 DEF Bytes, T
    <3>3. T = Len(file.remote)
      BY <1>2, <1>3 DEF T
    <3>. HIDE DEF T
    <3>. QED  BY <3>1, <3>2, <3>3 DEF Bytes
  <2>. HIDE DEF tail
  <2>2. IsCat(expected', H, tail)
    BY <1>1, <1>5, <2>1, CatIs
  <2>3. HeadSize <= T
    BY <1>1, <1>2, <1>3, <1>4
  <2>4. expected' \in Bytes /\ Len(expected') = T
    BY <1>3, <1>5, <2>1, <2>2, <2>3 DEF IsCat
  <2>5. ASSUME NEW i \in 1..Len(expected') PROVE expected'[i] = d[i]
    <3>1. expected'[i] = IF i <= HeadSize THEN H[i] ELSE tail[i - HeadSize]
      BY <1>5, <2>2 DEF IsCat
    <3>2. d[i] = IF i <= HeadSize THEN H[i] ELSE file.remote[i]
      <4>1. i \in 1..Len(d) /\ i <= Len(file.remote)
        BY <1>3, <1>11, <2>4 DEF T
      <4>. QED  BY <1>5, <4>1 DEF IsServed
    <3>3. ASSUME ~(i <= HeadSize) PROVE tail[i - HeadSize] = file.remote[i]
      <4>1. i - HeadSize \in 1..Len(tail) /\ HeadSize + (i - HeadSize) = i
        BY <1>3, <2>1, <2>3, <2>4, <3>3
      <4>. QED  BY <2>1, <4>1
    <3>. QED  BY <3>1, <3>2, <3>3
  <2>. QED  BY <1>5, <1>11, <2>4, <2>5, SameBytes
<1>14. expected' = Seen(file', d)
  BY <1>12, <1>13
<1>15. /\ Len(expected) = file.tail_offset /\ VisibleSize(Kind, file, c) = file.tail_offset
  BY <1>1, <1>2, <1>3 DEF VisibleSize
<1>16. /\ Len(c) <= Len(d) /\ Len(expected) <= VisibleSize(Kind, file', d)
       /\ VisibleSize(Kind, file', d) <= MaxSize /\ Len(file'.remote) <= MaxSize
       /\ count' \in Nat /\ Len(expected) = VisibleSize(Kind, file, c)
  BY <1>1, <1>2, <1>3, <1>5, <1>7, <1>8, <1>11, <1>15 DEF LayersInv, Shape, T
<1>. QED  BY <1>1, <1>2, <1>6, <1>10, <1>14, <1>16, ServerStep

(* A step of a player, or of the process whose journal it reads *)
LEMMA PlayerStep ==
  ASSUME LayersInv, User = "player", setup' = setup, stream' = stream, open' = open,
         NEW d, BufferInv(Both(buf', file'), d, expected', images', cursor'.in, checkpoint'.pulled),
         ~HasWriteData(buf'), cursor'.in = checkpoint'.pulled => ~buf'.reading,
         cursor'.in <= checkpoint'.pulled, checkpoint'.pulled <= checkpoint'.published,
         checkpoint'.published <= Len(expected'),
         checkpoint' \in [published : Nat, pulled : Nat],
         cursor' \in [in : Nat, out : Nat], HeadSize <= cursor'.in,
         expected' \in Bytes, HeadSize <= Len(expected'), Len(expected') <= MaxSize,
         IntegersHeld', ImagesHaveHead', count' \in Nat, seen'.got = seen'.want
  PROVE  LayersInv'
<1>u. /\ Kind' = Kind /\ User' = User /\ User' = "player" /\ Kind = "memory" /\ Kind' = "memory"
      /\ open /\ open'
  BY SameUser, SetupIs DEF LayersInv, Shape
<1>1. Shape'
  BY <1>u DEF LayersInv, Shape
<1>2. Played'
  BY <1>u DEF Played, HasWriteData
<1>3. JournalLayers'
  <2>1. Limit' = checkpoint'.pulled
    BY <1>u DEF Limit
  <2>2. BufferInv(Layers, d, expected, images, cursor.in, Limit)'
    BY <2>1, BufferInvNext
  <2>3. \E c : BufferInv(Layers, c, expected, images, cursor.in, Limit)'
    BY <2>2
  <2>4. (\E c : BufferInv(Layers, c, expected, images, cursor.in, Limit))'
    BY <2>3
  <2>5. stream' = NewStream
    BY <1>u DEF LayersInv, JournalLayers
  <2>. QED  BY <1>u, <2>4, <2>5 DEF JournalLayers, HasWriteData
<1>4. StreamLayers'
  BY <1>u DEF StreamLayers
<1>5. Closed'
  BY <1>u DEF Closed
<1>. QED  BY <1>1, <1>2, <1>3, <1>4, <1>5 DEF LayersInv

(* What a player may read *)
LEMMA PlayerIs ==
  ASSUME LayersInv, User = "player"
  PROVE  /\ Kind = "memory" /\ Kind \in Kinds /\ open /\ setup \in Setups
         /\ Layers.b = buf /\ Layers.f = file /\ ~HasWriteData(buf) /\ buf \in BufferT
         /\ checkpoint.pulled \in Nat /\ checkpoint.published \in Nat /\ Limit = checkpoint.pulled
         /\ checkpoint = [published |-> checkpoint.published, pulled |-> checkpoint.pulled]
         /\ cursor.in \in Nat /\ cursor \in [in : Nat, out : Nat]
         /\ HeadSize \in Nat /\ HeadSize <= cursor.in
         /\ cursor.in <= checkpoint.pulled /\ checkpoint.pulled <= checkpoint.published
         /\ checkpoint.published <= Len(expected) /\ Len(expected) \in Nat
         /\ HeadSize <= Len(expected) /\ Len(expected) <= MaxSize /\ expected \in Bytes
         /\ (cursor.in = checkpoint.pulled => ~buf.reading)
<1>1. Kind = "memory" /\ Kind \in Kinds /\ open /\ setup \in Setups
  BY SetupIs DEF LayersInv, Shape
<1>2. /\ Layers.b = buf /\ Layers.f = file /\ buf \in BufferT /\ HeadSize <= cursor.in
      /\ Len(expected) \in Nat /\ HeadSize <= Len(expected) /\ Len(expected) <= MaxSize
      /\ expected \in Bytes
  BY <1>1, LayersAre
<1>3. Limit = checkpoint.pulled
  BY DEF Limit
<1>. QED  BY <1>1, <1>2, <1>3, CursorType, SizesAre DEF LayersInv, Played

LEMMA ExternalWriteStep ==
  ASSUME LayersInv, NEW o, NEW n \in Lengths, ExternalWrite(o, n)
  PROVE  LayersInv'
<1>. DEFINE data == Data(n)
            none == {}
            L == checkpoint.pulled
            p == cursor.in
<1>1. /\ User = "player" /\ o \in checkpoint.published..Len(expected) /\ o + n <= MaxSize
      /\ file' = pwrite(file, data, o) /\ Wrote(data, o, none)
      /\ setup' = setup /\ buf' = buf /\ stream' = stream /\ open' = open /\ cursor' = cursor
      /\ checkpoint' = checkpoint
  BY DEF ExternalWrite
<1>2. data \in Bytes /\ Len(data) = n /\ data # <<>> /\ n \in Nat
  BY DataIs, SizesAre DEF LayersInv, Shape
<1>3. /\ Kind = "memory" /\ Kind \in Kinds
      /\ Layers.b = buf /\ Layers.f = file /\ ~HasWriteData(buf)
      /\ L \in Nat /\ checkpoint.published \in Nat /\ Limit = L
      /\ p \in Nat /\ HeadSize <= p /\ HeadSize \in Nat
      /\ p <= L /\ L <= checkpoint.published
      /\ checkpoint.published <= Len(expected) /\ Len(expected) \in Nat
      /\ HeadSize <= Len(expected)
      /\ (p = L => ~buf.reading)
  BY <1>1, PlayerIs
<1>4. PICK c :
        /\ Fetching(Layers, c, expected, images, p, L)
        /\ Len(expected) = VisibleSize(Kind, file, c)
  BY <1>1, <1>3, MayRead
<1>. HIDE DEF data, none, L, p
<1>5. o \in 0..Len(expected) /\ o \in Nat /\ L <= o /\ o + Len(data) <= MaxSize
  BY <1>1, <1>2, <1>3
<1>6. /\ expected' = Patched(expected, data, o) /\ expected' \in Bytes
      /\ Len(expected) <= Len(expected') /\ Len(expected') <= MaxSize /\ Len(expected') \in Nat
      /\ IntegersHeld' /\ ImagesHaveHead'
      /\ seen'.got = seen'.want /\ count' \in Nat
  <2>1. \A z \in none : IntegerAt(z, Patched(expected, data, o))
    BY DEF none
  <2>2. Kind = "encoded" => expected \in images
    BY <1>3
  <2>. QED  BY <1>1, <1>2, <1>5, <2>1, <2>2, WroteIs
<1>7. images' = images
  BY <1>1, <1>3 DEF Wrote
<1>8. Holds(Kind, file, c, images) /\ expected = Seen(file, c)
  BY <1>3, <1>4 DEF Fetching
<1>9. expected = c
  BY <1>3, <1>8, SeenIs
<1>. DEFINE d == Patched(c, data, o)
<1>10. Holds(Kind, file', d, images) /\ VisibleSize(Kind, file', d) = Len(d)
  <2>1. o \in 0..Len(c) /\ MayPwrite(Kind, file, c, data, o)
    BY <1>3, <1>5, <1>9 DEF MayPwrite
  <2>2. Kind = "encoded" => Keeps(images, c, data, o)
    BY <1>3
  <2>3. LET g == pwrite(file, data, o) IN
        /\ Holds(Kind, g, Patched(c, data, o), images)
        /\ VisibleSize(Kind, g, Patched(c, data, o))
             = IF Kind = "server" /\ o < HeadSize THEN VisibleSize(Kind, file, c)
               ELSE Len(Patched(c, data, o))
    BY <1>2, <1>3, <1>8, <2>1, <2>2, PwriteIs
  <2>. QED  BY <1>1, <1>3, <2>3
<1>11. expected' = d /\ Seen(file', d) = d
  BY <1>3, <1>6, <1>9, <1>10, SeenIs
<1>12. \A i \in 1..Len(c) : p < i /\ i <= L => d[i] = c[i]
  <2>1. IsPatched(d, c, data, o)
    BY <1>2, <1>5, <1>6, <1>9, PatchedIs DEF LayersInv, Shape
  <2>. HIDE DEF d
  <2>2. ASSUME NEW i \in 1..Len(c), i <= L PROVE d[i] = c[i]
    <3>1. i \in 1..Len(d) /\ ~(o < i)
      BY <1>3, <1>5, <1>6, <1>9, <1>11, <2>2
    <3>. QED  BY <2>1, <2>2, <3>1 DEF IsPatched
  <2>. QED  BY <2>2
<1>. HIDE DEF d
<1>13. Fetching(Both(buf, file'), d, expected', images, p, L)
  <2>1. VisibleSize(Kind, Layers.f, c) <= VisibleSize(Kind, file', d) /\ Len(c) <= Len(d)
    BY <1>3, <1>4, <1>6, <1>9, <1>10, <1>11
  <2>2. Fetching(Both(Layers.b, file'), d, Seen(file', d), images, p, L)
    BY <1>3, <1>4, <1>10, <1>12, <2>1, FetchingOther
  <2>. QED  BY <1>3, <1>11, <2>2
<1>14. BufferInv(Both(buf, file'), d, expected', images, p, L)
  BY <1>3, <1>13, FetchingIsInv
<1>15. BufferInv(Both(buf', file'), d, expected', images', cursor'.in, checkpoint'.pulled)
  BY <1>1, <1>7, <1>14 DEF p, L
<1>17. ~HasWriteData(buf')
  BY <1>1, <1>3
<1>18. /\ cursor'.in <= checkpoint'.pulled /\ checkpoint'.pulled <= checkpoint'.published
       /\ checkpoint'.published <= Len(expected')
       /\ checkpoint' \in [published : Nat, pulled : Nat]
       /\ cursor' \in [in : Nat, out : Nat] /\ HeadSize <= cursor'.in
       /\ HeadSize <= Len(expected')
  <2>1. checkpoint \in [published : Nat, pulled : Nat] /\ cursor \in [in : Nat, out : Nat]
    BY <1>1 DEF LayersInv, Played, Shape
  <2>2. checkpoint.published <= Len(expected') /\ HeadSize <= Len(expected')
    BY <1>3, <1>6
  <2>. QED  BY <1>1, <1>3, <2>1, <2>2 DEF p, L
<1>19. cursor'.in = checkpoint'.pulled => ~buf'.reading
  BY <1>1, <1>3 DEF p, L
<1>. QED  BY <1>1, <1>6, <1>15, <1>17, <1>18, <1>19, PlayerStep

LEMMA PublishSteps ==
  ASSUME LayersInv, ExternalPublish \/ PlayPull
  PROVE  LayersInv'
<1>1. /\ User = "player" /\ Unwritten /\ seen'.got = seen'.want
      /\ setup' = setup /\ file' = file /\ buf' = buf /\ stream' = stream /\ open' = open
      /\ cursor' = cursor
  BY DEF ExternalPublish, PlayPull, NoRead
<1>2. /\ Kind = "memory" /\ Kind \in Kinds
      /\ Layers.b = buf /\ Layers.f = file /\ ~HasWriteData(buf)
      /\ checkpoint.pulled \in Nat /\ checkpoint.published \in Nat /\ Limit = checkpoint.pulled
      /\ checkpoint = [published |-> checkpoint.published, pulled |-> checkpoint.pulled]
      /\ cursor.in \in Nat /\ cursor \in [in : Nat, out : Nat]
      /\ HeadSize \in Nat /\ HeadSize <= cursor.in
      /\ cursor.in <= checkpoint.pulled /\ checkpoint.pulled <= checkpoint.published
      /\ checkpoint.published <= Len(expected) /\ Len(expected) \in Nat
      /\ (cursor.in = checkpoint.pulled => ~buf.reading)
  BY <1>1, PlayerIs
<1>3. /\ expected' = expected /\ images' = images
      /\ expected' \in Bytes /\ Len(expected') <= MaxSize
      /\ HeadSize <= Len(expected')
      /\ IntegersHeld' /\ ImagesHaveHead' /\ count' \in Nat
  BY <1>1, UnwrittenIs
<1>4. PICK c : BufferInv(Layers, c, expected, images, cursor.in, checkpoint.pulled)
  BY <1>1, <1>2, LayersAre
<1>5. CASE ExternalPublish
  <2>1. checkpoint' = [checkpoint EXCEPT !.published = Len(expected)]
    BY <1>5 DEF ExternalPublish
  <2>2. /\ checkpoint' \in [published : Nat, pulled : Nat]
        /\ checkpoint'.published = Len(expected) /\ checkpoint'.pulled = checkpoint.pulled
    BY <1>2, <2>1
  <2>3. BufferInv(Both(buf', file'), c, expected', images', cursor'.in, checkpoint'.pulled)
    BY <1>1, <1>3, <1>4, <2>2 DEF Layers
  <2>4. ~HasWriteData(buf') /\ HeadSize <= cursor'.in /\ cursor' \in [in : Nat, out : Nat]
    BY <1>1, <1>2
  <2>5. cursor'.in = checkpoint'.pulled => ~buf'.reading
    BY <1>1, <1>2, <2>2
  <2>6. /\ cursor'.in <= checkpoint'.pulled /\ checkpoint'.pulled <= checkpoint'.published
        /\ checkpoint'.published <= Len(expected')
    BY <1>1, <1>2, <1>3, <2>2
  <2>. QED  BY <1>1, <1>3, <2>2, <2>3, <2>4, <2>5, <2>6, PlayerStep
<1>6. CASE PlayPull
  <2>1. /\ checkpoint' = [checkpoint EXCEPT !.pulled = checkpoint.published]
        /\ cursor.in = checkpoint.pulled /\ checkpoint.pulled < checkpoint.published
    BY <1>6 DEF PlayPull
  <2>2. /\ checkpoint' \in [published : Nat, pulled : Nat]
        /\ checkpoint'.pulled = checkpoint.published
        /\ checkpoint'.published = checkpoint.published
    BY <1>2, <2>1
  <2>3. ~buf.reading
    BY <1>2, <2>1
  <2>4. BufferInv(Layers, c, expected, images, cursor.in, checkpoint.published)
    BY <1>2, <1>4, <2>3, BufferInvLimit
  <2>5. BufferInv(Both(buf', file'), c, expected', images', cursor'.in, checkpoint'.pulled)
    BY <1>1, <1>3, <2>2, <2>4 DEF Layers
  <2>6. /\ ~HasWriteData(buf') /\ HeadSize <= cursor'.in /\ cursor' \in [in : Nat, out : Nat]
        /\ ~buf'.reading
    BY <1>1, <1>2, <2>3
  <2>7. /\ cursor'.in <= checkpoint'.pulled /\ checkpoint'.pulled <= checkpoint'.published
        /\ checkpoint'.published <= Len(expected')
    BY <1>1, <1>2, <1>3, <2>2
  <2>. QED  BY <1>1, <1>3, <2>2, <2>5, <2>6, <2>7, PlayerStep
<1>. QED  BY <1>5, <1>6

LEMMA PlayReadStep ==
  ASSUME LayersInv, NEW n \in Lengths, PlayRead(n)
  PROVE  LayersInv'
<1>. DEFINE r == read_data(Layers, n)
            p == cursor.in
            L == checkpoint.pulled
            x == AfterPlay(r.x, p + n = L)
<1>1. /\ User = "player" /\ p + n <= L /\ buf' = x.b /\ file' = x.f
      /\ seen' = [got |-> r.read, want |-> Slice(expected, p, Len(r.read))]
      /\ Unwritten /\ At(p + n, p + n)
      /\ setup' = setup /\ stream' = stream /\ open' = open /\ checkpoint' = checkpoint
  BY DEF PlayRead, ReadGives
<1>2. /\ Kind = "memory" /\ Kind \in Kinds
      /\ Layers.b = buf /\ Layers.f = file /\ ~HasWriteData(buf)
      /\ L \in Nat /\ checkpoint.published \in Nat /\ Limit = L
      /\ p \in Nat /\ HeadSize <= p /\ HeadSize \in Nat
      /\ L <= checkpoint.published
      /\ checkpoint.published <= Len(expected) /\ Len(expected) \in Nat
      /\ expected \in Bytes
  BY <1>1, PlayerIs
<1>3. n \in Nat \ {0}
  BY SizesAre
<1>4. PICK c :
        /\ Fetching(Layers, c, expected, images, p, L)
        /\ Len(expected) = VisibleSize(Kind, file, c)
        /\ \A a, m \in Nat : a + m <= Len(expected) => Slice(expected, a, m) = Slice(c, a, m)
  BY <1>1, <1>2, MayRead
<1>. HIDE DEF p, L
<1>5. p + n <= Len(expected)
  BY <1>1, <1>2, <1>3
<1>6. Fetched(r, file, c, expected, images, p, n, L)
  <2>1. p + n <= VisibleSize(Kind, Layers.f, c) /\ p + n <= L
    BY <1>1, <1>2, <1>4, <1>5
  <2>2. Fetched(read_data(Layers, n), Layers.f, c, expected, images, p, n, L)
    BY <1>2, <1>3, <1>4, <2>1, ReadDataIs
  <2>. QED  BY <1>2, <2>2
<1>. HIDE DEF r
<1>7. seen'.got = seen'.want
  <2>1. r.read = Slice(expected, p, n)
    BY <1>2, <1>3, <1>4, <1>5, <1>6 DEF Fetched
  <2>2. IsSlice(r.read, expected, p, n)
    BY <1>2, <1>3, <2>1, SliceIs
  <2>3. Len(r.read) = n
    BY <1>5, <2>2 DEF IsSlice
  <2>. QED  BY <1>1, <2>1, <2>3
<1>8. BufferInv(r.x, c, expected, images, p + n, L) /\ ~HasWriteData(r.x.b)
  BY <1>2, <1>6, FetchingIsInv DEF Fetched
<1>9. /\ \E d : BufferInv(x, d, expected, images, p + n, L)
      /\ ~HasWriteData(x.b) /\ (p + n = L => ~x.b.reading)
  <2>1. CASE p + n = L
    <3>1. x = flush(r.x)
      BY <2>1 DEF AfterPlay
    <3>2. Clean(flush(r.x), expected, images, p + n)
      BY <1>2, <1>8, FlushedIs
    <3>3. Clean(x, expected, images, p + n)
      BY <3>1, <3>2
    <3>. HIDE DEF x
    <3>4. \E d : BufferInv(x, d, expected, images, p + n, L)
      BY <3>3, CleanIsInv
    <3>5. ~HasWriteData(x.b) /\ ~x.b.reading
      BY <3>3 DEF Clean, HasWriteData, Buffered
    <3>. QED  BY <3>4, <3>5
  <2>2. CASE p + n # L
    <3>1. x = r.x
      BY <2>2 DEF AfterPlay
    <3>. QED  BY <1>8, <2>2, <3>1
  <2>. QED  BY <2>1, <2>2
<1>. HIDE DEF x
<1>10. /\ expected' = expected /\ images' = images
      /\ expected' \in Bytes /\ Len(expected') <= MaxSize
      /\ HeadSize <= Len(expected')
      /\ IntegersHeld' /\ ImagesHaveHead' /\ count' \in Nat
  BY <1>1, UnwrittenIs
<1>11. cursor' \in [in : Nat, out : Nat] /\ cursor'.in = p + n /\ HeadSize <= cursor'.in
  <2>1. p + n \in Nat /\ HeadSize <= p + n
    BY <1>2, <1>3
  <2>. QED  BY <1>1, <2>1, CursorIs
<1>12. PICK d : BufferInv(Both(buf', file'), d, expected', images', cursor'.in, checkpoint'.pulled)
  <2>1. PICK d : BufferInv(x, d, expected, images, p + n, L)
    BY <1>9
  <2>2. BufferInv(Both(x.b, x.f), d, expected, images, p + n, L)
    BY <2>1, BufferInvBoth
  <2>. QED  BY <1>1, <1>10, <1>11, <2>2 DEF L
<1>13. /\ ~HasWriteData(buf') /\ (cursor'.in = checkpoint'.pulled => ~buf'.reading)
  BY <1>1, <1>9, <1>11 DEF L
<1>14. /\ cursor'.in <= checkpoint'.pulled /\ checkpoint'.pulled <= checkpoint'.published
       /\ checkpoint'.published <= Len(expected')
       /\ checkpoint' \in [published : Nat, pulled : Nat]
  BY <1>1, <1>2, <1>10, <1>11 DEF L, LayersInv, Played
<1>. QED  BY <1>1, <1>7, <1>10, <1>11, <1>12, <1>13, <1>14, PlayerStep

(* A step of a stream *)
LEMMA StreamStep ==
  ASSUME LayersInv, NEW x, Stream(x), StreamInv(x, expected', cursor'.in, cursor'.out),
         cursor' \in [in : Nat, out : Nat],
         expected' \in Bytes, Len(expected') <= MaxSize,
         IntegersHeld', ImagesHaveHead', count' \in Nat, seen'.got = seen'.want
  PROVE  LayersInv'
<1>u. /\ setup' = setup /\ buf' = buf /\ open /\ open' = open
      /\ stream' = x.b /\ file' = x.f /\ User = "stream"
      /\ Kind' = Kind /\ User' = User /\ User' = "stream" /\ Kind = "memory" /\ Kind' = "memory"
  BY SameUser, SetupIs DEF Stream, LayersInv, Shape
<1>1. Shape'
  BY <1>u DEF LayersInv, Shape
<1>2. Played' /\ JournalLayers'
  BY <1>u DEF Played, JournalLayers
<1>3. StreamLayers'
  <2>1. StreamInv(Both(x.b, x.f), expected', cursor'.in, cursor'.out)
    <3>1. Both(x.b, x.f).b = x.b /\ Both(x.b, x.f).f = x.f
      BY BothFields
    <3>. QED  BY <3>1 DEF StreamInv
  <2>2. StreamInv(Streams, expected, cursor.in, cursor.out)'
    BY <1>u, <2>1, StreamInvNext
  <2>3. ~buf.overrun /\ ~HasWriteData(buf)
    BY <1>u DEF LayersInv, StreamLayers
  <2>4. ~buf'.overrun /\ ~HasWriteData(buf')
    BY <1>u, <2>3
  <2>. QED  BY <2>2, <2>4 DEF StreamLayers, HasWriteData
<1>4. Closed'
  BY <1>u DEF Closed
<1>. QED  BY <1>1, <1>2, <1>3, <1>4 DEF LayersInv

(* What a stream sees *)
LEMMA StreamIs ==
  ASSUME LayersInv, User = "stream"
  PROVE  /\ Kind = "memory" /\ Streams.b = stream /\ Streams.f = file
         /\ StreamInv(Streams, expected, cursor.in, cursor.out)
         /\ expected \in Bytes /\ Len(expected) \in Nat /\ Len(expected) <= MaxSize
         /\ cursor.in \in 0..Len(expected) /\ cursor.out \in 0..Len(expected)
<1>1. Kind = "memory" /\ Len(expected) <= MaxSize
  BY SetupIs DEF LayersInv, Shape
<1>2. Streams.b = stream /\ Streams.f = file
  BY BothFields DEF Streams
<1>3. StreamInv(Streams, expected, cursor.in, cursor.out)
  BY DEF LayersInv, StreamLayers
<1>. QED  BY <1>1, <1>2, <1>3, StreamFields

(* The two positions of a stream *)
LEMMA PositionsAre ==
  ASSUME NEW i \in Nat, NEW o \in Nat, At(i, o)
  PROVE  cursor' \in [in : Nat, out : Nat] /\ cursor'.in = i /\ cursor'.out = o
BY DEF At

(* Steps that do not write *)
LEMMA StreamUnwritten ==
  ASSUME LayersInv, NEW x, Stream(x), Unwritten, NEW i \in Nat, NEW o \in Nat, At(i, o),
         StreamInv(x, expected, i, o), seen'.got = seen'.want
  PROVE  LayersInv'
<1>1. setup' = setup /\ User = "stream"
  BY DEF Stream
<1>2. /\ expected' = expected /\ images' = images
      /\ expected' \in Bytes /\ Len(expected') <= MaxSize
      /\ IntegersHeld' /\ ImagesHaveHead' /\ count' \in Nat
  BY <1>1, UnwrittenIs
<1>3. cursor' \in [in : Nat, out : Nat] /\ cursor'.in = i /\ cursor'.out = o
  BY PositionsAre
<1>4. StreamInv(x, expected', cursor'.in, cursor'.out)
  BY <1>2, <1>3
<1>. QED  BY <1>2, <1>3, <1>4, StreamStep

LEMMA GetStep ==
  ASSUME LayersInv, NEW r, NEW n \in Nat, Get(r, n),
         (r = sbumpc(Streams) /\ n = 1) \/ r = xsgetn(Streams, n)
  PROVE  LayersInv'
<1>. DEFINE e == expected
            i == cursor.in
            o == cursor.out
            j == Smaller(i + n, Len(e))
<1>1. /\ stream.put = <<>> /\ Stream(r.x) /\ Unwritten /\ At(j, o)
      /\ seen' = [got |-> r.read, want |-> Slice(e, i, n)]
      /\ User = "stream"
  BY DEF Get, Stream
<1>2. /\ Kind = "memory" /\ Streams.b.put = <<>>
      /\ StreamInv(Streams, e, i, o)
      /\ Len(e) \in Nat /\ i \in 0..Len(e) /\ o \in 0..Len(e)
  BY <1>1, StreamIs
<1>. HIDE DEF e, i, o
<1>3. StreamInv(r.x, e, j, o) /\ r.read = Slice(e, i, n)
  <2>1. CASE r = sbumpc(Streams) /\ n = 1
    <3>1. LET s == sbumpc(Streams) IN
          StreamInv(s.x, e, Smaller(i + 1, Len(e)), o) /\ s.read = Slice(e, i, 1)
      BY <1>2, SbumpcIs
    <3>. QED  BY <2>1, <3>1
  <2>2. CASE r = xsgetn(Streams, n)
    <3>1. LET s == xsgetn(Streams, n) IN
          StreamInv(s.x, e, Smaller(i + n, Len(e)), o) /\ s.read = Slice(e, i, n)
      BY <1>2, XsgetnIs
    <3>. QED  BY <2>2, <3>1
  <2>. QED  BY <2>1, <2>2
<1>4. j \in Nat /\ o \in Nat
  BY <1>2 DEF Smaller
<1>. HIDE DEF j
<1>5. seen'.got = seen'.want
  BY <1>1, <1>3
<1>6. StreamInv(r.x, expected, j, o)
  BY <1>3 DEF e
<1>. QED  BY <1>1, <1>4, <1>5, <1>6, StreamUnwritten

(* Steps that write *)
LEMMA StreamWrites ==
  ASSUME LayersInv, NEW x, Stream(x), NEW data \in Bytes, data # <<>>,
         NEW o \in 0..Len(expected), o + Len(data) <= MaxSize, Wrote(data, o, {}),
         NEW a \in Nat, NEW b \in Nat, At(a, b),
         StreamInv(x, Patched(expected, data, o), a, b)
  PROVE  LayersInv'
<1>1. setup' = setup /\ User = "stream"
  BY DEF Stream
<1>2. Kind = "encoded" => expected \in images
  BY <1>1, StreamIs
<1>. DEFINE none == {}
<1>3. Wrote(data, o, none) /\ \A z \in none : IntegerAt(z, Patched(expected, data, o))
  OBVIOUS
<1>. HIDE DEF none
<1>4. /\ expected' = Patched(expected, data, o) /\ expected' \in Bytes
      /\ Len(expected') <= MaxSize
      /\ IntegersHeld' /\ ImagesHaveHead'
      /\ seen'.got = seen'.want /\ count' \in Nat
  BY <1>1, <1>2, <1>3, WroteIs
<1>5. cursor' \in [in : Nat, out : Nat] /\ cursor'.in = a /\ cursor'.out = b
  BY PositionsAre
<1>6. StreamInv(x, expected', cursor'.in, cursor'.out)
  BY <1>4, <1>5
<1>. QED  BY <1>4, <1>5, <1>6, StreamStep

LEMMA PutStep ==
  ASSUME LayersInv, NEW x, NEW data \in Bytes, data # <<>>, Put(x, data),
         x = xsputn(Streams, data) \/ \E v \in Nat : data = <<v>> /\ x = overflow(Streams, v)
  PROVE  LayersInv'
<1>. DEFINE e == expected
            i == cursor.in
            o == cursor.out
            j == o + Len(data)
            f == Patched(e, data, o)
            none == {}
<1>1. /\ stream.get = <<>> /\ Stream(x) /\ At(i, j) /\ Wrote(data, o, none)
      /\ o + Len(data) <= MaxSize /\ User = "stream"
  BY DEF Put, Stream
<1>2. /\ Kind = "memory" /\ Streams.b.get = <<>>
      /\ StreamInv(Streams, e, i, o)
      /\ Len(e) \in Nat /\ i \in 0..Len(e) /\ o \in 0..Len(e)
  BY <1>1, StreamIs
<1>. HIDE DEF e, i, o
<1>3. StreamInv(x, f, i, j)
  <2>1. CASE x = xsputn(Streams, data)
    <3>1. StreamInv(xsputn(Streams, data), Patched(e, data, o), i, o + Len(data))
      BY <1>2, XsputnIs
    <3>. QED  BY <2>1, <3>1
  <2>2. ASSUME NEW v \in Nat, data = <<v>>, x = overflow(Streams, v) PROVE StreamInv(x, f, i, j)
    <3>1. StreamInv(overflow(Streams, v), Patched(e, <<v>>, o), i, o + Len(<<v>>))
      BY <1>2, OverflowIs
    <3>. QED  BY <2>2, <3>1
  <2>. QED  BY <2>1, <2>2
<1>4. i \in Nat /\ j \in Nat
  BY <1>2, LenIs
<1>. HIDE DEF j, f
<1>5. StreamInv(x, Patched(expected, data, o), i, j) /\ o \in 0..Len(expected)
  BY <1>2, <1>3 DEF e, f
<1>. QED  BY <1>1, <1>4, <1>5, StreamWrites

LEMMA PutOneStep ==
  ASSUME LayersInv, PutOne
  PROVE  LayersInv'
<1>. DEFINE data == Data(1)
            v == data[1]
            x == overflow(Streams, v)
<1>1. data \in Bytes /\ Len(data) = 1 /\ data # <<>>
  <2>1. count \in Nat /\ 1 \in Nat \ {0}
    BY DEF LayersInv, Shape
  <2>. QED  BY <2>1, DataIs
<1>2. v \in Nat /\ data = <<v>>
  <2>. HIDE DEF data
  <2>1. v \in Nat
    BY <1>1 DEF Bytes
  <2>2. <<v>> \in Bytes /\ Len(<<v>>) = 1 /\ <<v>>[1] = v
    BY <2>1 DEF Bytes
  <2>3. \A k \in 1..Len(data) : data[k] = <<v>>[k]
    BY <1>1, <2>2
  <2>. QED  BY <1>1, <2>1, <2>2, <2>3, SameBytes
<1>3. Put(x, data)
  BY DEF PutOne
<1>. HIDE DEF x, v, data
<1>4. \E w \in Nat : data = <<w>> /\ x = overflow(Streams, w)
  BY <1>2 DEF x
<1>. QED  BY <1>1, <1>3, <1>4, PutStep

LEMMA PutManyStep ==
  ASSUME LayersInv, NEW n \in Lengths, PutMany(n)
  PROVE  LayersInv'
<1>. DEFINE data == Data(n)
            x == xsputn(Streams, data)
<1>1. data \in Bytes /\ data # <<>>
  BY DataIs, SizesAre DEF LayersInv, Shape
<1>2. Put(x, data)
  BY DEF PutMany
<1>. HIDE DEF data
<1>. QED  BY <1>1, <1>2, PutStep

LEMMA PutBackStep ==
  ASSUME LayersInv, NEW same \in BOOLEAN, PutBack(same)
  PROVE  LayersInv'
<1>. DEFINE i == cursor.in
            o == cursor.out
            v == IF same THEN expected[i] ELSE Data(1)[1]
            data == <<v>>
            x == pbackfail(Streams, v)
            p == i - 1
            none == {}
<1>1. /\ stream.put = <<>> /\ i > 0 /\ Stream(x) /\ Wrote(data, p, none) /\ At(p, o)
      /\ User = "stream"
  BY DEF PutBack, Stream
<1>2. /\ Kind = "memory" /\ Streams.b.put = <<>>
      /\ StreamInv(Streams, expected, i, o)
      /\ expected \in Bytes /\ Len(expected) \in Nat /\ Len(expected) <= MaxSize
      /\ i \in 0..Len(expected) /\ o \in 0..Len(expected)
  BY <1>1, StreamIs
<1>3. v \in Nat
  <2>1. expected[i] \in Nat
    <3>1. i \in 1..Len(expected)
      BY <1>1, <1>2
    <3>. QED  BY <1>2, <3>1 DEF Bytes
  <2>2. Data(1)[1] \in Nat
    <3>1. count \in Nat /\ 1 \in Nat \ {0}
      BY DEF LayersInv, Shape
    <3>2. Data(1) \in Bytes /\ Len(Data(1)) = 1
      BY <3>1, DataIs
    <3>. HIDE DEF i
    <3>. QED  BY <3>2 DEF Bytes
  <2>. QED  BY <2>1, <2>2
<1>. HIDE DEF i, o, v
<1>4. StreamInv(x, Patched(expected, data, p), p, o)
  BY <1>1, <1>2, <1>3, PbackfailIs
<1>5. data \in Bytes /\ Len(data) = 1 /\ data # <<>>
  BY <1>3 DEF Bytes
<1>6. p \in 0..Len(expected) /\ p \in Nat /\ o \in Nat /\ p + Len(data) <= MaxSize
  BY <1>1, <1>2, <1>5, SizesAre
<1>. HIDE DEF p, x, data
<1>. QED  BY <1>1, <1>4, <1>5, <1>6, StreamWrites

LEMMA StreamSeekStep ==
  ASSUME LayersInv, NEW dir \in {"beg", "cur", "end"}, NEW off \in Int, NEW which,
         StreamSeek(dir, off, which)
  PROVE  LayersInv'
<1>. DEFINE i == cursor.in
            o == cursor.out
            base == CASE dir = "beg" -> 0
                      [] dir = "end" -> Len(expected)
                      [] dir = "cur" /\ "in" \in which -> i
                      [] dir = "cur" /\ "in" \notin which -> o
            p == base + off
            a == IF "in" \in which THEN p ELSE i
            b == IF "out" \in which THEN p ELSE o
            x == seekoff(Streams, off, dir, which)
<1>1. /\ p \in 0..Len(expected) /\ Stream(x) /\ Unwritten /\ seen'.got = seen'.want
      /\ At(a, b) /\ User = "stream"
  BY DEF StreamSeek, Stream, NoRead
<1>2. /\ Kind = "memory"
      /\ StreamInv(Streams, expected, i, o) /\ Len(expected) \in Nat
      /\ i \in 0..Len(expected) /\ o \in 0..Len(expected)
  BY <1>1, StreamIs
<1>3. base \in Int
  BY <1>2
<1>. HIDE DEF i, o
<1>4. p = off + CASE dir = "beg" -> 0
                  [] dir = "end" -> Len(expected)
                  [] dir = "cur" /\ "in" \in which -> i
                  [] dir = "cur" /\ "in" \notin which -> o
  <2>1. p = off + base
    <3>. HIDE DEF base
    <3>. QED  BY <1>3
  <2>. QED  BY <2>1
<1>. HIDE DEF p
<1>5. StreamInv(x, expected, a, b)
  BY <1>1, <1>2, <1>4, SeekoffIs
<1>6. a \in Nat /\ b \in Nat
  BY <1>1, <1>2
<1>. HIDE DEF a, b, x
<1>. QED  BY <1>1, <1>5, <1>6, StreamUnwritten

LEMMA StreamSyncStep ==
  ASSUME LayersInv, StreamSync
  PROVE  LayersInv'
<1>. DEFINE x == sync(Streams)
<1>1. /\ Stream(x) /\ Unwritten /\ seen'.got = seen'.want /\ cursor' = cursor
      /\ User = "stream"
  BY DEF StreamSync, Stream, NoRead
<1>2. /\ Kind = "memory" /\ StreamInv(Streams, expected, cursor.in, cursor.out)
      /\ expected \in Bytes /\ Len(expected) <= MaxSize
  BY <1>1, StreamIs
<1>3. StreamInv(x, expected, cursor.in, cursor.out)
  BY <1>2, SyncIs
<1>. HIDE DEF x
<1>4. setup' = setup
  BY <1>1 DEF Stream
<1>5. /\ expected' = expected /\ expected' \in Bytes /\ Len(expected') <= MaxSize
      /\ IntegersHeld' /\ ImagesHaveHead' /\ count' \in Nat
  BY <1>1, <1>4, UnwrittenIs
<1>. QED  BY <1>1, <1>3, <1>5, CursorType, StreamStep

(* The layers of a journal after a step that opens or closes its file *)
LEMMA JournalAssembled ==
  ASSUME setup' = setup, setup \in Setups, User = "journal",
         NEW d, BufferInv(Both(buf', file'), d, expected', images', cursor'.in, MaxSize),
         stream' = NewStream, open' \in BOOLEAN, Kind # "server",
         open' => HeadSize <= cursor'.in, ~HasWriteData(buf'),
         ~open' => /\ buf' = NewBuffer /\ cursor' = [in |-> 0, out |-> 0]
                   /\ Kind = "encoded" => file'.pending.data = <<>>,
         cursor' \in [in : Nat, out : Nat],
         expected' \in Bytes, HeadSize <= Len(expected'), Len(expected') <= MaxSize,
         IntegersHeld', ImagesHaveHead', count' \in Nat, seen'.got = seen'.want
  PROVE  LayersInv'
<1>u. Kind' = Kind /\ User' = User /\ User' = "journal"
  BY SameUser
<1>1. Shape'
  BY <1>u DEF Shape
<1>2. Played' /\ StreamLayers'
  BY <1>u DEF Played, StreamLayers
<1>3. JournalLayers'
  <2>1. Limit' = MaxSize
    BY <1>u DEF Limit
  <2>2. BufferInv(Layers, d, expected, images, cursor.in, Limit)'
    BY <2>1, BufferInvNext
  <2>3. \E c : BufferInv(Layers, c, expected, images, cursor.in, Limit)'
    BY <2>2
  <2>4. (\E c : BufferInv(Layers, c, expected, images, cursor.in, Limit))'
    BY <2>3
  <2>. QED  BY <1>u, <2>4 DEF JournalLayers, HasWriteData
<1>4. Closed'
  BY <1>u DEF Closed
<1>. QED  BY <1>1, <1>2, <1>3, <1>4 DEF LayersInv

LEMMA NewBufferT ==
  ASSUME NEW p \in Nat
  PROVE  LET b == [NewBuffer EXCEPT !.position = p] IN
         /\ b \in BufferT /\ ~b.reading /\ ~b.overrun
         /\ b.data = <<>> /\ b.index = 0 /\ b.position = p
<1>1. \A q \in Nat, d \in Bytes :
        [position |-> q, data |-> d, index |-> 0, reading |-> FALSE, overrun |-> FALSE]
          \in BufferT
  BY DEF BufferT
<1>2. <<>> \in Bytes
  BY DEF Bytes
<1>3. [position |-> p, data |-> <<>>, index |-> 0, reading |-> FALSE, overrun |-> FALSE]
        \in BufferT
  BY <1>1, <1>2
<1>4. [NewBuffer EXCEPT !.position = p]
        = [position |-> p, data |-> <<>>, index |-> 0, reading |-> FALSE, overrun |-> FALSE]
  <2>. DEFINE none == <<>>
              no == FALSE
              b == [position |-> 0, data |-> none, index |-> 0, reading |-> no, overrun |-> no]
  <2>1. NewBuffer = b
    BY DEF NewBuffer
  <2>. HIDE DEF none, no
  <2>2. [b EXCEPT !.position = p]
          = [position |-> p, data |-> none, index |-> 0, reading |-> no, overrun |-> no]
    OBVIOUS
  <2>. HIDE DEF b
  <2>. QED  BY <2>1, <2>2 DEF none, no
<1>. QED  BY <1>3, <1>4

(* A buffer that was just made, at p *)
LEMMA NewBufferIs ==
  ASSUME Kind \in Kinds, NEW f, NEW c, NEW I, Holds(Kind, f, c, I),
         NEW p \in Nat, p <= VisibleSize(Kind, f, c), NEW L,
         NEW b, b = [NewBuffer EXCEPT !.position = p]
  PROVE  /\ \E d : BufferInv(Both(b, f), d, Seen(f, c), I, p, L)
         /\ ~HasWriteData(b)
<1>1. /\ b \in BufferT /\ ~b.reading /\ ~b.overrun
      /\ b.data = <<>> /\ b.index = 0 /\ b.position = p
  BY NewBufferT
<1>2. Clean(Both(b, f), Seen(f, c), I, p)
  BY <1>1, CleanIs
<1>3. ~HasWriteData(b)
  BY <1>1 DEF HasWriteData
<1>. QED  BY <1>2, <1>3, CleanIsInv

(* An Encoded_File whose blobs are all that it has *)
LEMMA HoldsStored ==
  ASSUME NEW f \in FileT, NEW b \in Bytes, Stores(f.blocks, b), f.pending.data = <<>>,
         f.pending.offset <= Len(b)
  PROVE  HoldsEncoded(f, b, {b})
<1>1. f.pending.offset \in 0..Len(b) /\ Len(f.pending.data) = 0
  BY FileFields, LenIs
<1>2. Patched(b, f.pending.data, f.pending.offset) = b
  BY <1>1, PatchedNothing
<1>3. Slice(<<>>, 0, 0) = <<>>
  <2>1. <<>> \in Bytes
    BY DEF Bytes
  <2>. QED  BY <2>1, SliceAll
<1>4. Keeps({b}, b, f.pending.data, f.pending.offset)
  <2>1. \A k \in 0..0 : Patched(b, Slice(<<>>, 0, k), f.pending.offset) \in {b}
    BY <1>2, <1>3
  <2>2. 0..Len(f.pending.data) = 0..0
    BY <1>1
  <2>. QED  BY <2>1, <2>2 DEF Keeps
<1>5. Len(f.pending.data) <= Capacity
  BY <1>1, SizesAre
<1>. QED  BY <1>2, <1>4, <1>5 DEF HoldsEncoded

(* What is stored in an Encoded_File *)
LEMMA StoredIs ==
  ASSUME LayersInv, Kind = "encoded"
  PROVE  /\ User = "journal" /\ Kind \in Kinds /\ file \in FileT
         /\ Stored \in Bytes /\ Stores(file.blocks, Stored) /\ Stored \in images
         /\ HeadSize <= Len(Stored) /\ Len(Stored) <= MaxSize
<1>u. User = "journal" /\ Kind \in Kinds /\ User # "stream"
  BY SetupIs, SetupAssumption DEF LayersInv, Shape, Kind, User
<1>1. PICK c : BufferInv(Layers, c, expected, images, cursor.in, Limit)
  BY <1>u, LayersAre
<1>2. /\ Layers.f = file /\ file \in FileT /\ Len(expected) <= MaxSize
      /\ Len(expected) \in Nat
  BY <1>u, LayersAre
<1>3. /\ Holds(Kind, file, c, images) /\ Len(expected) >= VisibleSize(Kind, file, c)
  BY <1>u, <1>1, <1>2, BufferInvIs
<1>4. VisibleSize(Kind, file, c) = Len(c) /\ HoldsEncoded(file, c, images)
  BY <1>3 DEF VisibleSize, Holds
<1>. DEFINE d == file.pending.data
            o == file.pending.offset
<1>5. PICK b : /\ Stores(file.blocks, b) /\ o <= Len(b)
               /\ c = Patched(b, d, o) /\ Keeps(images, b, d, o)
  BY <1>4 DEF HoldsEncoded
<1>6. b \in Bytes /\ d \in Bytes /\ o \in Nat /\ file.blocks \in Seq(BlobT)
  BY <1>2, <1>5, FileFields, StoresBytes
<1>7. Len(b) <= Len(c) /\ Len(b) \in Nat /\ Len(c) \in Nat /\ Len(d) \in Nat
  <2>1. IsPatched(c, b, d, o)
    BY <1>5, <1>6, PatchedIs
  <2>. QED  BY <1>6, <2>1, LenIs DEF IsPatched
<1>8. Len(b) <= MaxSize /\ MaxSize \in Nat
  BY <1>2, <1>3, <1>4, <1>7, SizesAre
<1>9. b \in images
  <2>1. Slice(d, 0, 0) = <<>>
    BY <1>6, SliceAll
  <2>2. Patched(b, <<>>, o) = b
    BY <1>5, <1>6, <1>7, PatchedNothing
  <2>3. 0 \in 0..Len(d)
    BY <1>7
  <2>. HIDE DEF d, o
  <2>. QED  BY <1>5, <2>1, <2>2, <2>3 DEF Keeps
<1>10. Stored = b
  <2>1. EncodedRead(file.blocks, 0, MaxSize) = Slice(b, 0, MaxSize)
    BY <1>5, <1>6, <1>8, EncodedReadIs
  <2>2. Slice(b, 0, MaxSize) = b
    BY <1>6, <1>8, SliceAll
  <2>. QED  BY <2>1, <2>2 DEF Stored
<1>11. HeadSize <= Len(b)
  BY <1>9 DEF LayersInv, ImagesHaveHead
<1>. QED  BY <1>u, <1>2, <1>5, <1>6, <1>8, <1>9, <1>10, <1>11

LEMMA CrashStep ==
  ASSUME LayersInv, Crash
  PROVE  LayersInv'
<1>. DEFINE b == Stored
<1>1. /\ Kind = "encoded" /\ open' = FALSE /\ file' = [file EXCEPT !.pending = NoBlock]
      /\ expected' = b /\ images' = {b}
      /\ ints' = {i \in ints : Slice(b, i[1], Len(compact_write(i[2]))) = compact_write(i[2])}
      /\ buf' = NewBuffer /\ stream' = NewStream /\ At(0, 0) /\ seen'.got = seen'.want
      /\ setup' = setup /\ count' = count
  BY DEF Crash, NoRead
<1>2. /\ User = "journal" /\ Kind \in Kinds /\ file \in FileT
      /\ b \in Bytes /\ Stores(file.blocks, b)
      /\ HeadSize <= Len(b) /\ Len(b) <= MaxSize
  BY <1>1, StoredIs
<1>. HIDE DEF b
<1>3. /\ file' \in FileT /\ file'.blocks = file.blocks
      /\ file'.pending.data = <<>> /\ file'.pending.offset = 0
  <2>1. NoBlock \in BlobT /\ NoBlock.data = <<>> /\ NoBlock.offset = 0
    <3>1. <<>> \in Bytes
      BY DEF Bytes
    <3>. QED  BY <3>1 DEF NoBlock, BlobT
  <2>. QED  BY <1>1, <1>2, <2>1 DEF FileT
<1>4. Holds(Kind, file', b, {b})
  <2>1. HoldsEncoded(file', b, {b})
    BY <1>2, <1>3, HoldsStored, LenIs
  <2>. QED  BY <1>1, <1>2, <1>3, <2>1 DEF Holds
<1>5. Seen(file', b) = b /\ VisibleSize(Kind, file', b) = Len(b) /\ Len(b) \in Nat
  BY <1>1, <1>2, <1>4, SeenIs, LenIs
<1>6. buf' = [NewBuffer EXCEPT !.position = 0]
  BY <1>1 DEF NewBuffer
<1>7. /\ \E d : BufferInv(Both(buf', file'), d, b, {b}, 0, MaxSize)
      /\ ~HasWriteData(buf')
  <2>1. 0 \in Nat /\ 0 <= VisibleSize(Kind, file', b)
    BY <1>5
  <2>2. /\ \E d : BufferInv(Both(buf', file'), d, Seen(file', b), {b}, 0, MaxSize)
        /\ ~HasWriteData(buf')
    BY <1>2, <1>4, <1>6, <2>1, NewBufferIs
  <2>. QED  BY <1>5, <2>2
<1>8. cursor' = [in |-> 0, out |-> 0]
  BY <1>1 DEF At
<1>9. IntegersHeld'
  BY <1>1 DEF LayersInv, IntegersHeld, IntegerAt
<1>10. ImagesHaveHead'
  BY <1>1, <1>2 DEF ImagesHaveHead
<1>11. PICK d : BufferInv(Both(buf', file'), d, expected', images', cursor'.in, MaxSize)
  BY <1>1, <1>7, <1>8
<1>12. /\ cursor' \in [in : Nat, out : Nat] /\ count' \in Nat /\ setup \in Setups
  BY <1>1, <1>8 DEF LayersInv, Shape
<1>. QED  BY <1>1, <1>2, <1>3, <1>7, <1>8, <1>9, <1>10, <1>11, <1>12, JournalAssembled

LEMMA CloseStep ==
  ASSUME LayersInv, Close
  PROVE  LayersInv'
<1>1. /\ open /\ User # "player" /\ Kind # "server" /\ open' = FALSE
      /\ buf' = NewBuffer /\ stream' = NewStream /\ At(0, 0) /\ seen'.got = seen'.want
      /\ Unwritten /\ setup' = setup
  BY DEF Close, NoRead
<1>2. cursor' = [in |-> 0, out |-> 0] /\ cursor' \in [in : Nat, out : Nat]
  BY <1>1 DEF At
<1>3. /\ expected' = expected /\ images' = images
      /\ expected' \in Bytes /\ Len(expected') <= MaxSize
      /\ User # "stream" => HeadSize <= Len(expected')
      /\ IntegersHeld' /\ ImagesHaveHead' /\ count' \in Nat
  BY <1>1, UnwrittenIs
<1>4. Kind \in Kinds /\ User \in {"journal", "stream"} /\ setup \in Setups
  BY <1>1, SetupIs DEF LayersInv, Shape
<1>5. CASE User = "journal"
  <2>. DEFINE f == flush(Layers).f
  <2>1. PICK c : BufferInv(Layers, c, expected, images, cursor.in, Limit)
    BY <1>5, LayersAre
  <2>2. Clean(flush(Layers), expected, images, cursor.in)
    BY <1>4, <2>1, FlushedIs
  <2>3. PICK d : Holds(Kind, f, d, images) /\ expected = Seen(f, d)
    BY <1>4, <2>2, CleanFields
  <2>4. f = IF HasWriteData(buf) THEN write_buffer(Layers).f ELSE file
    BY <1>5, LayersAre, BothFields DEF flush
  <2>5. file' = AfterRead(f)
    BY <1>5, <2>4 DEF Close, ClosedFile, AfterRead
  <2>. HIDE DEF f
  <2>6. Holds(Kind, file', d, images) /\ VisibleSize(Kind, file', d) = VisibleSize(Kind, f, d)
    BY <1>4, <2>3, <2>5, AfterReadIs
  <2>7. Seen(file', d) = expected
    BY <2>3, <2>6 DEF Seen
  <2>8. Kind = "encoded" => file'.pending.data = <<>>
    <3>1. ASSUME Kind = "encoded" PROVE file'.pending.data = <<>>
      <4>1. f \in FileT /\ HoldsEncoded(f, d, images) /\ file' = flush_write_buffer(f)
        BY <2>3, <2>5, <3>1 DEF Holds, AfterRead
      <4>. QED  BY <4>1, FlushIs
    <3>. QED  BY <3>1
  <2>9. /\ \E g : BufferInv(Both(buf', file'), g, expected, images, 0, MaxSize)
        /\ ~HasWriteData(buf')
    <3>1. buf' = [NewBuffer EXCEPT !.position = 0]
      BY <1>1 DEF NewBuffer
    <3>2. 0 \in Nat /\ 0 <= VisibleSize(Kind, file', d)
      BY <1>4, <2>6, HoldsIs
    <3>3. /\ \E g : BufferInv(Both(buf', file'), g, Seen(file', d), images, 0, MaxSize)
          /\ ~HasWriteData(buf')
      BY <1>4, <2>6, <3>1, <3>2, NewBufferIs
    <3>. QED  BY <2>7, <3>3
  <2>10. PICK g : BufferInv(Both(buf', file'), g, expected', images', cursor'.in, MaxSize)
    BY <1>2, <1>3, <2>9
  <2>. QED  BY <1>1, <1>2, <1>3, <1>4, <1>5, <2>8, <2>9, <2>10, JournalAssembled
<1>6. CASE User = "stream"
  <2>1. /\ Kind = "memory" /\ StreamInv(Streams, expected, cursor.in, cursor.out)
    BY <1>6, StreamIs
  <2>2. file' = syncp(Streams).f
    BY <1>6, <2>1 DEF Close, ClosedFile
  <2>3. file' \in FileT /\ file'.data = expected
    BY <2>1, <2>2, SyncpIs DEF StreamInv
  <2>4. expected \in Bytes /\ Len(expected) \in Nat /\ <<>> \in Bytes /\ Len(<<>>) = 0
    BY <1>3, LenIs DEF Bytes
  <2>5. StreamInv(Both(stream', file'), expected', cursor'.in, cursor'.out)
    <3>1. Patched(expected, <<>>, 0) = expected
      BY <2>4, PatchedNothing
    <3>2. Both(stream', file').b = NewStream /\ Both(stream', file').f = file'
      BY <1>1, BothFields
    <3>3. /\ NewStream \in StreamT /\ NewStream.get = <<>> /\ NewStream.put = <<>>
          /\ NewStream.in_pos = 0 /\ NewStream.out_pos = 0 /\ NewStream.gptr = 0
      BY <2>4 DEF NewStream, StreamT
    <3>. QED  BY <1>2, <1>3, <2>3, <2>4, <3>1, <3>2, <3>3 DEF StreamInv
  <2>6. StreamInv(Streams, expected, cursor.in, cursor.out)'
    BY <2>5, StreamInvNext
  <2>7. Kind' = Kind /\ User' = User
    BY <1>1, SameUser
  <2>8. ~HasWriteData(buf') /\ ~buf'.overrun
    BY <1>1 DEF NewBuffer, HasWriteData
  <2>9. Shape'
    BY <1>1, <1>2, <1>3, <1>4, <1>6, <2>1, <2>7 DEF Shape
  <2>10. Closed'
    BY <1>1, <1>2, <2>1, <2>7 DEF Closed
  <2>11. Played' /\ JournalLayers'
    BY <1>6, <2>7 DEF Played, JournalLayers
  <2>12. StreamLayers'
    BY <2>6, <2>8 DEF StreamLayers, HasWriteData
  <2>. QED  BY <1>1, <1>3, <2>9, <2>10, <2>11, <2>12 DEF LayersInv
<1>. QED  BY <1>4, <1>5, <1>6

LEMMA ReopenStep ==
  ASSUME LayersInv, Reopen
  PROVE  LayersInv'
<1>. DEFINE p == IF User = "stream" THEN 0 ELSE Smaller(HeadSize, Len(expected))
<1>1. /\ ~open /\ open' = TRUE /\ buf' = [NewBuffer EXCEPT !.position = p] /\ At(p, p)
      /\ seen'.got = seen'.want /\ Unwritten
      /\ setup' = setup /\ file' = file /\ stream' = stream
  BY DEF Reopen, NoRead
<1>2. /\ buf = NewBuffer /\ stream = NewStream /\ cursor = [in |-> 0, out |-> 0]
      /\ User # "player" /\ Kind # "server" /\ setup \in Setups
  BY <1>1 DEF LayersInv, Closed, Shape
<1>3. /\ expected' = expected /\ images' = images
      /\ expected' \in Bytes /\ Len(expected') <= MaxSize
      /\ User # "stream" => HeadSize <= Len(expected')
      /\ IntegersHeld' /\ ImagesHaveHead' /\ count' \in Nat
  BY <1>1, UnwrittenIs
<1>4. Kind \in Kinds /\ User \in {"journal", "stream"}
  BY <1>2, SetupIs
<1>5. CASE User = "journal"
  <2>1. p = HeadSize /\ HeadSize \in Nat /\ HeadSize <= Len(expected)
    BY <1>3, <1>5, SizesAre, LenIs DEF Smaller
  <2>2. PICK c : /\ Fetching(Layers, c, expected, images, cursor.in, Limit)
                 /\ Len(expected) = VisibleSize(Kind, file, c)
    <3>1. ~HasWriteData(buf)
      BY <1>2 DEF NewBuffer, HasWriteData
    <3>. QED  BY <1>5, <3>1, MayRead
  <2>3. Holds(Kind, file, c, images) /\ expected = Seen(file, c)
    BY <1>5, <2>2, LayersAre DEF Fetching
  <2>. HIDE DEF p
  <2>4. /\ \E g : BufferInv(Both(buf', file'), g, expected, images, p, MaxSize)
        /\ ~HasWriteData(buf')
    <3>1. p \in Nat /\ p <= VisibleSize(Kind, file, c)
      BY <2>1, <2>2
    <3>2. /\ \E g : BufferInv(Both(buf', file), g, Seen(file, c), images, p, MaxSize)
          /\ ~HasWriteData(buf')
      BY <1>1, <1>4, <2>3, <3>1, NewBufferIs
    <3>. QED  BY <1>1, <2>3, <3>2
  <2>5. cursor' \in [in : Nat, out : Nat] /\ cursor'.in = p
    BY <1>1, <2>1, CursorIs
  <2>6. PICK g : BufferInv(Both(buf', file'), g, expected', images', cursor'.in, MaxSize)
    BY <1>3, <2>4, <2>5
  <2>7. HeadSize <= cursor'.in
    BY <2>1, <2>5
  <2>8. stream' = NewStream /\ open' \in BOOLEAN /\ open' /\ HeadSize <= Len(expected')
    BY <1>1, <1>2, <1>3, <1>5
  <2>. QED  BY <1>1, <1>2, <1>3, <1>5, <2>4, <2>5, <2>6, <2>7, <2>8, JournalAssembled
<1>6. CASE User = "stream"
  <2>1. /\ Kind = "memory" /\ StreamInv(Streams, expected, cursor.in, cursor.out)
    BY <1>6, StreamIs
  <2>2. p = 0
    BY <1>6
  <2>3. cursor' = [in |-> 0, out |-> 0] /\ cursor' \in [in : Nat, out : Nat]
    BY <1>1, <2>2 DEF At
  <2>4. Streams = Both(stream', file')
    BY <1>1 DEF Streams
  <2>5. StreamInv(Both(stream', file'), expected', cursor'.in, cursor'.out)
    BY <1>2, <1>3, <2>1, <2>3, <2>4
  <2>6. StreamInv(Streams, expected, cursor.in, cursor.out)'
    BY <2>5, StreamInvNext
  <2>7. Kind' = Kind /\ User' = User
    BY <1>1, SameUser
  <2>8. ~HasWriteData(buf') /\ ~buf'.overrun
    BY <1>1 DEF NewBuffer, HasWriteData
  <2>9. Shape'
    BY <1>1, <1>2, <1>3, <1>6, <2>1, <2>3, <2>7 DEF Shape
  <2>10. Closed'
    BY <1>1 DEF Closed
  <2>11. Played' /\ JournalLayers'
    BY <1>6, <2>7 DEF Played, JournalLayers
  <2>12. StreamLayers'
    BY <2>6, <2>8 DEF StreamLayers, HasWriteData
  <2>. QED  BY <1>1, <1>3, <2>9, <2>10, <2>11, <2>12 DEF LayersInv
<1>. QED  BY <1>4, <1>5, <1>6

(* Init: the bytes of the head, in a file that was just made *)
LEMMA HeadIs ==
  ASSUME NEW n \in Nat, NEW content, content = [i \in 1..n |-> 0]
  PROVE  content \in Bytes /\ Len(content) = n
BY DEF Bytes

LEMMA NewFileIs ==
  ASSUME NEW content \in Bytes
  PROVE  /\ NewFile(content) \in FileT /\ NewFile(content).data = content
         /\ NewFile(content).blocks = <<>> /\ NewFile(content).pending.data = <<>>
         /\ NewFile(content).pending.offset = 0
<1>1. <<>> \in Bytes /\ <<>> \in Seq(BlobT)
  BY DEF Bytes
<1>2. NoBlock \in BlobT /\ NoBlock.data = <<>> /\ NoBlock.offset = 0
  BY <1>1 DEF NoBlock, BlobT
<1>. QED  BY <1>1, <1>2 DEF NewFile, FileT

LEMMA NewEncodedIs ==
  ASSUME NEW content \in Bytes
  PROVE  LET f == flush_write_buffer(WriteBlobs(NewFile(<<>>), content, 0)) IN
         f \in FileT /\ HoldsEncoded(f, content, {content})
<1>. DEFINE f == NewFile(<<>>)
            g == WriteBlobs(f, content, 0)
            h == flush_write_buffer(g)
            none == <<>>
<1>1. none \in Bytes /\ Len(none) = 0 /\ Len(content) \in Nat
  BY LenIs DEF Bytes
<1>2. /\ f \in FileT /\ f.blocks = <<>> /\ f.pending.data = <<>> /\ f.pending.offset = 0
  BY <1>1, NewFileIs
<1>3. Stores(f.blocks, none)
  BY <1>2, StoresNothing
<1>. HIDE DEF f, none
<1>4. Keeps(Bytes, none, content, 0)
  <2>1. ASSUME NEW k \in 0..Len(content)
        PROVE  Patched(none, Slice(content, 0, k), 0) \in Bytes
    <3>1. Slice(content, 0, k) \in Bytes
      BY <1>1, SliceIs DEF IsSlice
    <3>. QED  BY <1>1, <3>1, PatchedIs DEF IsPatched
  <2>. QED  BY <2>1 DEF Keeps
<1>5. g \in FileT /\ HoldsEncoded(g, Patched(none, content, 0), Bytes)
  <2>1. 0 \in 0..Len(none) /\ f.pending.offset <= Len(none)
    BY <1>1, <1>2
  <2>. QED  BY <1>2, <1>3, <1>4, <2>1, WriteBlobsIs
<1>6. Patched(none, content, 0) = content
  <2>1. IsPatched(Patched(none, content, 0), none, content, 0)
    BY <1>1, PatchedIs
  <2>. DEFINE t == Patched(none, content, 0)
  <2>. HIDE DEF t
  <2>2. t \in Bytes /\ Len(t) = Len(content)
    BY <1>1, <2>1 DEF IsPatched, t
  <2>3. \A i \in 1..Len(t) : t[i] = content[i]
    <3>1. \A i \in 1..Len(t) : 0 < i /\ i <= 0 + Len(content) /\ i - 0 = i
      BY <1>1, <2>2
    <3>. QED  BY <2>1, <3>1 DEF IsPatched, t
  <2>. QED  BY <2>2, <2>3, SameBytes DEF t
<1>. HIDE DEF g
<1>7. /\ h \in FileT /\ h.pending.data = <<>> /\ Stores(h.blocks, content)
      /\ h.pending.offset <= Len(content)
  BY <1>5, <1>6, FlushIs
<1>. HIDE DEF h
<1>8. HoldsEncoded(h, content, {content})
  BY <1>7, HoldsStored
<1>. QED  BY <1>7, <1>8 DEF h, g, f

LEMMA NewServerFileIs ==
  ASSUME NEW content \in Bytes, Len(content) = HeadSize
  PROVE  /\ NewServerFile(content) \in FileT /\ HoldsServer(NewServerFile(content), content)
         /\ NewServerFile(content).tail_offset = HeadSize
         /\ NewServerFile(content).data = <<>> /\ NewServerFile(content).remote = content
<1>. DEFINE f == NewServerFile(content)
            none == <<>>
            H == Slice(content, 0, HeadSize)
<1>1. none \in Bytes /\ Len(none) = 0 /\ HeadSize \in Nat
  BY SizesAre DEF Bytes
<1>2. H = content
  BY <1>1, SliceAll
<1>3. NewFile(none) \in FileT /\ NewFile(none).data = none
  BY <1>1, NewFileIs
<1>4. f = [NewFile(none) EXCEPT !.head = content, !.remote = content, !.tail_offset = HeadSize]
  BY <1>2 DEF NewServerFile
<1>. HIDE DEF none, H, f
<1>5. /\ f \in FileT /\ f.head = content /\ f.remote = content /\ f.tail_offset = HeadSize
      /\ f.data = none
  BY <1>1, <1>3, <1>4 DEF FileT
<1>6. IsServed(content, content, content, none)
  BY <1>1 DEF IsServed
<1>7. HoldsServer(f, content)
  BY <1>1, <1>5, <1>6 DEF HoldsServer, none
<1>. QED  BY <1>5, <1>7 DEF f, none

LEMMA InitLayers ==
  ASSUME Init
  PROVE  LayersInv
<1>. DEFINE n == IF User = "stream" THEN 0 ELSE HeadSize
            content == [i \in 1..n |-> 0]
<1>1. /\ setup \in Setups
      /\ file = CASE Kind = "memory" -> NewFile(content)
                  [] Kind = "encoded" ->
                       flush_write_buffer(WriteBlobs(NewFile(<<>>), content, 0))
                  [] Kind = "server" -> NewServerFile(content)
      /\ cursor = [in |-> Len(content), out |-> Len(content)]
      /\ expected = content /\ images = {content}
      /\ buf = [NewBuffer EXCEPT !.position = Len(content)]
      /\ checkpoint = [published |-> Len(content), pulled |-> Len(content)]
      /\ stream = NewStream /\ open = TRUE /\ ints = {} /\ seen = NoRead /\ count = 0
  BY DEF Init, Starts
<1>2. /\ n \in Nat /\ n <= MaxSize /\ MaxSize \in Nat /\ HeadSize \in Nat
      /\ (User # "stream" => n = HeadSize) /\ (User = "stream" => n = 0)
  BY SizesAre
<1>. HIDE DEF n
<1>3. content \in Bytes /\ Len(content) = n
  BY <1>2, HeadIs
<1>. HIDE DEF content
<1>4. /\ Kind \in Kinds /\ User \in {"journal", "player", "stream"}
      /\ User = "stream" => Kind = "memory"
      /\ User = "player" => Kind = "memory"
  BY <1>1, SetupIs
<1>5. /\ buf \in BufferT /\ ~HasWriteData(buf) /\ ~buf.overrun /\ ~buf.reading
  BY <1>1, <1>2, <1>3, NewBufferT DEF HasWriteData
<1>6. Holds(Kind, file, content, images) /\ VisibleSize(Kind, file, content) = n
  <2>1. CASE Kind = "memory"
    <3>1. file = NewFile(content)
      BY <1>1, <2>1
    <3>. QED  BY <1>3, <2>1, <3>1, NewFileIs DEF Holds, VisibleSize
  <2>2. CASE Kind = "encoded"
    <3>1. file = flush_write_buffer(WriteBlobs(NewFile(<<>>), content, 0))
      BY <1>1, <2>2
    <3>2. file \in FileT /\ HoldsEncoded(file, content, {content})
      BY <1>3, <3>1, NewEncodedIs
    <3>. QED  BY <1>1, <1>3, <2>2, <3>2 DEF Holds, VisibleSize
  <2>3. CASE Kind = "server" /\ User # "stream"
    <3>1. file = NewServerFile(content)
      BY <1>1, <2>3
    <3>2. /\ file \in FileT /\ HoldsServer(file, content) /\ file.tail_offset = HeadSize
          /\ file.data = <<>>
      BY <1>2, <1>3, <2>3, <3>1, NewServerFileIs
    <3>3. VisibleSize(Kind, file, content) = n
      BY <1>2, <2>3, <3>2 DEF VisibleSize
    <3>. QED  BY <1>3, <2>3, <3>2, <3>3 DEF Holds
  <2>. QED  BY <1>4, <2>1, <2>2, <2>3 DEF Kinds
<1>7. Seen(file, content) = content
  BY <1>3, <1>4, <1>6, SeenIs
<1>8. Shape
  <2>1. cursor \in [in : Nat, out : Nat]
    BY <1>1, <1>2, <1>3
  <2>. QED  BY <1>1, <1>2, <1>3, <2>1 DEF Shape
<1>9. IntegersHeld
  BY <1>1 DEF IntegersHeld
<1>10. ImagesHaveHead
  BY <1>1, <1>2, <1>3, <1>4 DEF ImagesHaveHead
<1>11. Played
  BY <1>1, <1>2, <1>3, <1>5 DEF Played
<1>12. JournalLayers
  <2>1. ASSUME User # "stream" PROVE \E c : BufferInv(Layers, c, expected, images, cursor.in, Limit)
    <3>1. buf = [NewBuffer EXCEPT !.position = n] /\ n <= VisibleSize(Kind, file, content)
      <4>1. buf = [NewBuffer EXCEPT !.position = n]
        BY <1>1, <1>3
      <4>2. n <= VisibleSize(Kind, file, content)
        BY <1>2, <1>6
      <4>. QED  BY <4>1, <4>2
    <3>2. \E c : BufferInv(Both(buf, file), c, Seen(file, content), images, n, Limit)
      BY <1>2, <1>4, <1>6, <3>1, NewBufferIs
    <3>. QED  BY <1>1, <1>3, <1>7, <3>2 DEF Layers
  <2>2. ASSUME Kind = "server", User # "stream" PROVE Len(file.remote) <= MaxSize
    <3>1. file.remote = content
      BY <1>1, <1>2, <1>3, <2>2, NewServerFileIs
    <3>. QED  BY <1>2, <1>3, <3>1
  <2>3. User # "stream" => HeadSize <= cursor.in
    BY <1>1, <1>2, <1>3
  <2>. QED  BY <1>1, <1>5, <2>1, <2>2, <2>3 DEF JournalLayers
<1>13. StreamLayers
  <2>1. ASSUME User = "stream" PROVE StreamInv(Streams, expected, cursor.in, cursor.out)
    <3>1. file \in FileT /\ file.data = content /\ n = 0
      BY <1>2, <1>4, <1>6, <2>1 DEF Holds
    <3>2. Streams.b = NewStream /\ Streams.f = file
      BY <1>1, BothFields DEF Streams
    <3>3. <<>> \in Bytes /\ Len(<<>>) = 0
      BY DEF Bytes
    <3>4. /\ NewStream \in StreamT /\ NewStream.get = <<>> /\ NewStream.put = <<>>
          /\ NewStream.in_pos = 0 /\ NewStream.out_pos = 0 /\ NewStream.gptr = 0
      BY <3>3 DEF NewStream, StreamT
    <3>5. Patched(content, <<>>, 0) = content
      BY <1>2, <1>3, PatchedNothing
    <3>6. expected = content /\ cursor.in = 0 /\ cursor.out = 0 /\ Len(content) = 0
      <4>1. cursor.in = Len(content) /\ cursor.out = Len(content) /\ expected = content
        BY <1>1
      <4>. QED  BY <1>3, <3>1, <4>1
    <3>. QED  BY <1>3, <3>1, <3>2, <3>3, <3>4, <3>5, <3>6 DEF StreamInv
  <2>. QED  BY <1>5, <2>1 DEF StreamLayers
<1>14. Closed
  BY <1>1 DEF Closed
<1>15. seen.got = seen.want
  BY <1>1 DEF NoRead
<1>. QED  BY <1>8, <1>9, <1>10, <1>11, <1>12, <1>13, <1>14, <1>15 DEF LayersInv

(* Nothing changes *)
LEMMA StutterLayers ==
  ASSUME LayersInv, UNCHANGED vars
  PROVE  LayersInv'
<1>1. /\ setup' = setup /\ file' = file /\ buf' = buf /\ stream' = stream /\ open' = open
      /\ cursor' = cursor /\ expected' = expected /\ ints' = ints /\ images' = images
      /\ checkpoint' = checkpoint /\ seen' = seen /\ count' = count
  BY DEF vars
<1>2. /\ Shape' /\ IntegersHeld' /\ ImagesHaveHead' /\ Played' /\ Closed' /\ seen'.got = seen'.want
  BY <1>1 DEF LayersInv, Shape, IntegersHeld, IntegerAt, ImagesHaveHead, Played, Closed,
              HasWriteData, Kind, User
<1>3. StreamLayers'
  BY <1>1 DEF LayersInv, StreamLayers, StreamInv, Streams, HasWriteData, User
<1>4. JournalLayers'
  <2>1. User' = User /\ Kind' = Kind /\ Limit' = Limit
    BY <1>1 DEF User, Kind, Limit
  <2>2. ASSUME User # "stream"
        PROVE  (\E c : BufferInv(Layers, c, expected, images, cursor.in, Limit))'
    <3>1. PICK c : BufferInv(Layers, c, expected, images, cursor.in, Limit)
      BY <2>2 DEF LayersInv, JournalLayers
    <3>2. BufferInv(Both(buf', file'), c, expected', images', cursor'.in, Limit)
      BY <1>1, <3>1 DEF Layers
    <3>3. BufferInv(Layers, c, expected, images, cursor.in, Limit)'
      BY <1>1, <2>1, <3>2, BufferInvNext
    <3>. QED  BY <3>3
  <2>. QED  BY <1>1, <2>1, <2>2 DEF LayersInv, JournalLayers, HasWriteData
<1>. QED  BY <1>2, <1>3, <1>4 DEF LayersInv

LEMMA NextLayers ==
  ASSUME LayersInv, Next
  PROVE  LayersInv'
<1>1. ASSUME NEW n \in Lengths, \/ WriteData(n) \/ ReadData(n) \/ Ignore(n)
                                \/ RemoteAppend(n) \/ PlayRead(n) \/ GetMany(n) \/ PutMany(n)
      PROVE  LayersInv'
  <2>1. CASE GetMany(n)
    <3>1. n \in Nat
      BY SizesAre
    <3>. DEFINE r == xsgetn(Streams, n)
    <3>2. Get(r, n)
      BY <2>1 DEF GetMany
    <3>. HIDE DEF r
    <3>3. r = xsgetn(Streams, n)
      BY DEF r
    <3>. QED  BY <3>1, <3>2, <3>3, GetStep
  <2>. QED  BY <1>1, <2>1, WriteDataStep, ReadDataStep, IgnoreStep, RemoteAppendStep,
               PlayReadStep, PutManyStep
<1>2. ASSUME NEW i \in Integers_, WriteInteger(i) \/ ReadInteger(i)
      PROVE  LayersInv'
  BY <1>2, WriteIntegerStep, ReadIntegerStep
<1>3. ASSUME NEW p \in 0..MaxSize, Seek(p) \/ \E n \in Lengths : ExternalWrite(p, n)
      PROVE  LayersInv'
  BY <1>3, SeekStep, ExternalWriteStep
<1>4. CASE WriteCheckpoint \/ ReadHead \/ Flush \/ Sync
  BY <1>4, WriteCheckpointStep, ReadHeadStep, FlushStep, SyncStep
<1>5. CASE Pull \/ Push \/ ExternalPublish \/ PlayPull
  BY <1>5, PullStep, PushStep, PublishSteps
<1>6. CASE GetOne
  <2>. DEFINE r == sbumpc(Streams)
  <2>1. Get(r, 1) /\ 1 \in Nat
    BY <1>6 DEF GetOne
  <2>2. r = sbumpc(Streams)
    OBVIOUS
  <2>. HIDE DEF r
  <2>. QED  BY <2>1, <2>2, GetStep
<1>7. CASE PutOne \/ StreamSync \/ \E same \in BOOLEAN : PutBack(same)
  BY <1>7, PutOneStep, StreamSyncStep, PutBackStep
<1>8. ASSUME NEW dir \in {"beg", "cur", "end"}, NEW off \in -1..0,
             NEW which \in {{"in"}, {"out"}, {"in", "out"}}, StreamSeek(dir, off, which)
      PROVE  LayersInv'
  <2>1. off \in Int
    BY <1>8
  <2>. QED  BY <1>8, <2>1, StreamSeekStep
<1>9. CASE Close \/ Crash \/ Reopen
  BY <1>9, CloseStep, CrashStep, ReopenStep
<1>. QED  BY <1>1, <1>2, <1>3, <1>4, <1>5, <1>6, <1>7, <1>8, <1>9 DEF Next

-----------------------------------------------------------------------------
(***************************************************************************)
(* The theorems, for every size of the buffers, of the blobs and of the    *)
(* head.                                                                   *)
(***************************************************************************)

(* In every reachable state, the file and the buffers over it hold together   *)
(* what the calls of the program have written, and a crash would leave one of *)
(* the images that Encoded_File may have stored.                              *)
THEOREM LayersHold == Spec => []LayersInv
<1>1. Init => LayersInv
  BY InitLayers
<1>2. LayersInv /\ [Next]_vars => LayersInv'
  BY NextLayers, StutterLayers
<1>. QED  BY <1>1, <1>2, PTL DEF Spec

(* The array of a File_Buffer is never written past its end, by write_data nor *)
(* by compact_write, which tests for room after it has written.                *)
THEOREM BuffersNeverOverrun == Spec => []NoOverrun
<1>1. LayersInv => NoOverrun
  <2>1. SUFFICES ASSUME LayersInv PROVE ~buf.overrun
    BY DEF NoOverrun
  <2>2. CASE User = "stream"
    BY <2>1, <2>2 DEF LayersInv, StreamLayers
  <2>3. CASE User # "stream"
    <3>1. PICK c : BufferInv(Layers, c, expected, images, cursor.in, Limit)
      BY <2>1, <2>3, LayersAre
    <3>2. Kind \in Kinds /\ Layers.b = buf
      BY <2>1, <2>3, LayersAre
    <3>. QED  BY <3>1, <3>2, BufferInvIs
  <2>. QED  BY <2>2, <2>3
<1>. QED  BY <1>1, LayersHold, PTL

(* Every read, through File_Buffer, filebuf, the head of a Server_File or the  *)
(* blobs of an Encoded_File, gives what was last written at that position.     *)
THEOREM WhatIsReadWasWritten == Spec => []ReadsSeeWrites
<1>1. LayersInv => ReadsSeeWrites
  BY DEF LayersInv, ReadsSeeWrites
<1>. QED  BY <1>1, LayersHold, PTL

(* What an Encoded_File has stored, if the program stops, is what the file held *)
(* at some moment.                                                              *)
THEOREM BlobsKeepTheOrder == Spec => []OrderKept
<1>1. LayersInv => OrderKept
  BY StoredIs DEF OrderKept
<1>. QED  BY <1>1, LayersHold, PTL

(* Once the destructors have run, the file has all that was written: nothing is *)
(* left in a File_Buffer, a filebuf or the write buffer of an Encoded_File.     *)
THEOREM ClosedFilesAreWhole == Spec => []CloseKeepsAll
<1>1. ASSUME LayersInv, ~open PROVE Stored = expected
  <2>1. /\ buf = NewBuffer /\ stream = NewStream
        /\ Kind = "encoded" => file.pending.data = <<>>
        /\ Kind # "server" /\ Kind \in Kinds
    BY <1>1, SetupIs DEF LayersInv, Closed, Shape
  <2>2. CASE User = "stream"
    <3>1. Kind = "memory" /\ StreamInv(Streams, expected, cursor.in, cursor.out)
      BY <1>1, <2>2, StreamIs
    <3>2. Streams.b.put = <<>> /\ Streams.f = file
      BY <1>1, <2>1, <2>2, StreamIs DEF NewStream
    <3>3. expected = file.data
      BY <3>1, <3>2, StreamFields
    <3>. QED  BY <3>1, <3>3 DEF Stored
  <2>3. CASE User # "stream"
    <3>1. ~HasWriteData(buf)
      BY <2>1 DEF NewBuffer, HasWriteData
    <3>2. PICK c : /\ Fetching(Layers, c, expected, images, cursor.in, Limit)
                   /\ Len(expected) = VisibleSize(Kind, file, c)
      BY <1>1, <2>3, <3>1, MayRead
    <3>3. Holds(Kind, file, c, images) /\ expected = Seen(file, c)
      BY <1>1, <2>3, <3>2, LayersAre DEF Fetching
    <3>4. expected = c
      BY <2>1, <3>3, SeenIs
    <3>5. CASE Kind = "memory"
      BY <3>3, <3>4, <3>5 DEF Holds, Stored
    <3>6. CASE Kind = "encoded"
      <4>1. HoldsEncoded(file, c, images) /\ file \in FileT /\ c \in Bytes
        BY <3>3, <3>6 DEF Holds
      <4>2. Stores(flush_write_buffer(file).blocks, c)
        BY <4>1, FlushIs
      <4>3. flush_write_buffer(file) = file
        BY <2>1, <3>6 DEF flush_write_buffer
      <4>4. file.blocks \in Seq(BlobT) /\ Stores(file.blocks, c)
        BY <4>1, <4>2, <4>3, FileFields
      <4>5. Len(c) <= MaxSize /\ MaxSize \in Nat
        BY <1>1, <2>3, <3>4, LayersAre, SizesAre
      <4>6. EncodedRead(file.blocks, 0, MaxSize) = Slice(c, 0, MaxSize)
        BY <4>4, <4>5, EncodedReadIs
      <4>7. Slice(c, 0, MaxSize) = c
        BY <4>1, <4>5, SliceAll
      <4>. QED  BY <3>4, <3>6, <4>6, <4>7 DEF Stored
    <3>. QED  BY <2>1, <3>5, <3>6 DEF Kinds
  <2>. QED  BY <2>2, <2>3
<1>2. LayersInv => CloseKeepsAll
  BY <1>1 DEF CloseKeepsAll
<1>. QED  BY <1>2, LayersHold, PTL

(* Abstract_File::copy_to, by chunks that may be short, copies all of the file. *)
THEOREM CopiesAreWhole == Spec => []CopyFaithful
<1>1. ASSUME LayersInv, ~HasWriteData(buf), stream.put = <<>>, Kind = "server" => UpToDate
      PROVE  copy_to(file, BufferSize) = expected
  <2>1. BufferSize \in Nat \ {0}
    BY SizesAre
  <2>2. CASE User = "stream"
    <3>1. Kind = "memory" /\ StreamInv(Streams, expected, cursor.in, cursor.out)
      BY <1>1, <2>2, StreamIs
    <3>2. Streams.b.put = <<>> /\ Streams.f = file
      BY <1>1, <2>2, StreamIs
    <3>3. expected = file.data /\ file \in FileT
      BY <3>1, <3>2, StreamFields DEF StreamInv
    <3>4. Holds(Kind, file, file.data, {}) /\ Kind \in Kinds
      BY <3>1, <3>3, MemoryIs
    <3>5. VisibleSize(Kind, file, file.data) = Len(file.data)
      BY <3>1 DEF VisibleSize
    <3>. QED  BY <2>1, <3>3, <3>4, <3>5, CopyIs
  <2>3. CASE User # "stream"
    <3>1. PICK c : /\ Fetching(Layers, c, expected, images, cursor.in, Limit)
                   /\ Len(expected) = VisibleSize(Kind, file, c)
      BY <1>1, <2>3, MayRead
    <3>2. Holds(Kind, file, c, images) /\ expected = Seen(file, c) /\ Kind \in Kinds
      BY <1>1, <2>3, <3>1, LayersAre DEF Fetching
    <3>3. VisibleSize(Kind, file, c) = Len(c)
      BY <1>1, <3>2, SeenIs DEF UpToDate, UpToDateFile
    <3>4. expected = c
      BY <3>2, <3>3, SeenIs
    <3>. QED  BY <2>1, <3>2, <3>3, <3>4, CopyIs
  <2>. QED  BY <2>2, <2>3
<1>2. LayersInv => CopyFaithful
  BY <1>1 DEF CopyFaithful
<1>. QED  BY <1>2, LayersHold, PTL
=============================================================================
