------------------------ MODULE FreedomKeeperProofs ------------------------
(***************************************************************************)
(* Every operation of Freedom_Keeper.h keeps its two lists sound, for any  *)
(* number of records.                                                      *)
(*                                                                         *)
(* KeeperIsSound speaks of walks along the links.  The invariant           *)
(* KeeperInv names the walk instead: a Chain is the sequence of the        *)
(* records that a list goes through, from its head back to its head.  An   *)
(* operation changes a chain by taking a record out of it or by putting    *)
(* one at an end, and Lemma WalkIsChain says that the walk is the chain.   *)
(***************************************************************************)
EXTENDS FreedomKeeper, TLAPS, WellFoundedInduction

(***************************************************************************)
(* Induction.  A set of naturals has a least element; so a set that has    *)
(* the initial number, and the next one of each of its members, has all.   *)
(***************************************************************************)

(* A set of naturals that is not empty has a least element. *)
LEMMA LeastNat ==
  ASSUME NEW T \in SUBSET Nat, T # {}
  PROVE  \E x \in T : \A y \in T : x <= y
<1>1. PICK x \in T : \A y \in T : ~(<<y, x>> \in OpToRel(<, Nat))
  BY NatLessThanWellFounded, WFMin
<1>2. \A y \in T : ~(y < x)
  BY <1>1 DEF OpToRel
<1> QED
  BY <1>2

(* Induction from 0 to n *)
LEMMA InductionUpTo ==
  ASSUME NEW n \in Nat, NEW S, 0 \in S,
         \A i \in 0..(n - 1) : i \in S => i + 1 \in S
  PROVE  \A i \in 0..n : i \in S
<1> SUFFICES ASSUME ~\A i \in 0..n : i \in S
             PROVE  FALSE
  OBVIOUS
<1> DEFINE T == {i \in 0..n : i \notin S}
<1>1. T \in SUBSET Nat /\ T # {}
  OBVIOUS
<1>2. PICK x \in T : \A y \in T : x <= y
  BY <1>1, LeastNat
<1>3. x # 0 /\ x \in 0..n
  OBVIOUS
<1>4. x - 1 \in 0..(n - 1) /\ x - 1 \in S
  BY <1>2, <1>3
<1> QED
  BY <1>3, <1>4

-----------------------------------------------------------------------------
(***************************************************************************)
(* Chains.                                                                 *)
(***************************************************************************)

(* The indices of the arrays of a list of this size *)
Places(size) == used_list..(size - 1)

(* w is the tour of the list of head h, which has n records. *)
Chain(size, next, previous, h, n, w) ==
  /\ n \in Nat
  /\ w \in [0..(n + 1) -> Places(size)]
  /\ w[0] = h /\ w[n + 1] = h
  /\ \A i, j \in 0..n : w[i] = w[j] => i = j
  /\ \A i \in 0..n : next[w[i]] = w[i + 1] /\ previous[w[i + 1]] = w[i]

(* Taking the record at place p of the tour out of the list *)
IsCut(size, h, n, w, next, previous, p, next2, previous2, v) ==
  /\ size \in Nat /\ n \in Nat /\ p \in 1..n
  /\ Chain(size, next, previous, h, n, w)
  /\ next2[w[p - 1]] = w[p + 1]
  /\ \A y \in Places(size) : y # w[p - 1] => next2[y] = next[y]
  /\ previous2[w[p + 1]] = w[p - 1]
  /\ \A y \in Places(size) : y # w[p + 1] => previous2[y] = previous[y]
  /\ v \in [0..n -> Places(size)]
  /\ \A i \in 0..n : v[i] = IF i < p THEN w[i] ELSE w[i + 1]

(* Without the record at position p, a tour is still a tour. *)
LEMMA ChainCut ==
  ASSUME NEW size, NEW h, NEW n, NEW w, NEW next, NEW previous, NEW p,
         NEW next2, NEW previous2, NEW v,
         IsCut(size, h, n, w, next, previous, p, next2, previous2, v)
  PROVE  Chain(size, next2, previous2, h, n - 1, v)
<1> USE DEF Chain, IsCut
<1>1. /\ \A j \in 0..(n + 1) : w[j] \in Places(size)
      /\ \A j \in 0..n : next[w[j]] = w[j + 1] /\ previous[w[j + 1]] = w[j]
  OBVIOUS
<1>2. n - 1 \in Nat /\ v \in [0..n -> Places(size)] /\ v[0] = h /\ v[n] = h
  OBVIOUS
<1>3. \A i, j \in 0..(n - 1) : v[i] = v[j] => i = j
  OBVIOUS
<1>4. ASSUME NEW i \in 0..(n - 1)
      PROVE  next2[v[i]] = v[i + 1] /\ previous2[v[i + 1]] = v[i]
  <2>1. CASE i = p - 1
    <3>1. v[i] = w[p - 1] /\ v[i + 1] = w[p + 1]
      BY <2>1
    <3> QED
      BY <3>1
  <2>2. CASE i < p - 1
    <3>0. i \in 0..n /\ i + 1 \in 0..n /\ p - 1 \in 0..n /\ i < p /\ i + 1 < p
      BY <2>2
    <3>1. v[i] = w[i] /\ v[i + 1] = w[i + 1] /\ w[i] # w[p - 1]
      BY <2>2, <3>0
    <3>2. w[i + 1] # w[p + 1]
      <4>1. CASE p < n
        BY <2>2, <4>1
      <4>2. CASE p = n
        <5>1. w[p + 1] = w[0]
          BY <4>2
        <5> QED
          BY <2>2, <5>1
      <4> QED
        BY <4>1, <4>2
    <3>3. w[i] \in Places(size) /\ w[i + 1] \in Places(size)
      BY <1>1, <3>0
    <3>4. next[w[i]] = w[i + 1] /\ previous[w[i + 1]] = w[i]
      BY <1>1, <3>0
    <3> QED
      BY <3>1, <3>2, <3>3, <3>4
  <2>3. CASE i > p - 1
    <3>0. i \in 0..n /\ i + 1 \in 0..n /\ p - 1 \in 0..n /\ ~(i < p) /\ ~(i + 1 < p)
      BY <2>3
    <3>1. v[i] = w[i + 1] /\ v[i + 1] = w[i + 2] /\ w[i + 1] # w[p - 1]
      BY <2>3, <3>0
    <3>2. w[i + 2] # w[p + 1]
      <4>1. CASE i + 2 <= n
        <5>1. p + 1 \in 0..n /\ i + 2 \in 0..n /\ i + 2 # p + 1
          BY <2>3, <4>1
        <5> QED
          BY <5>1
      <4>2. CASE i + 2 = n + 1
        <5>1. w[i + 2] = w[0]
          BY <4>2
        <5> QED
          BY <2>3, <4>2, <5>1
      <4> QED
        BY <4>1, <4>2
    <3>3. w[i + 1] \in Places(size) /\ w[i + 2] \in Places(size)
      <4>1. i + 1 \in 0..(n + 1) /\ i + 2 \in 0..(n + 1)
        BY <3>0
      <4> QED
        BY <1>1, <4>1
    <3>4. next[w[i + 1]] = w[i + 2] /\ previous[w[i + 2]] = w[i + 1]
      <4>1. i + 1 + 1 = i + 2
        OBVIOUS
      <4> QED
        BY <1>1, <3>0, <4>1
    <3> QED
      BY <3>1, <3>2, <3>3, <3>4
  <2> QED
    BY <2>1, <2>2, <2>3
<1>5. n - 1 + 1 = n
  OBVIOUS
<1>6. v \in [0..(n - 1 + 1) -> Places(size)] /\ v[0] = h /\ v[n - 1 + 1] = h
  BY <1>2, <1>5
<1> QED
  BY <1>2, <1>3, <1>4, <1>6

(* Links that are changed elsewhere, in arrays that may have grown *)
SameLinks(n, w, next, previous, next2, previous2) ==
  \A i \in 0..n : next2[w[i]] = next[w[i]] /\ previous2[w[i]] = previous[w[i]]

(* A tour does not see a change that is made elsewhere. *)
LEMMA ChainApart ==
  ASSUME NEW size \in Nat, NEW size2 \in Nat, size <= size2, NEW h, NEW n, NEW w,
         NEW next, NEW previous, NEW next2, NEW previous2,
         Chain(size, next, previous, h, n, w),
         SameLinks(n, w, next, previous, next2, previous2)
  PROVE  Chain(size2, next2, previous2, h, n, w)
<1> USE DEF Chain, SameLinks
<1>1. ASSUME NEW i \in 0..n
      PROVE  next2[w[i]] = w[i + 1] /\ previous2[w[i + 1]] = w[i]
  <2>1. CASE i < n
    BY <2>1
  <2>2. CASE i = n
    <3>1. w[i + 1] = w[0]
      BY <2>2
    <3> QED
      BY <2>2, <3>1
  <2> QED
    BY <2>1, <2>2
<1>2. Places(size) \subseteq Places(size2)
  BY DEF Places, used_list
<1>3. w \in [0..(n + 1) -> Places(size2)]
  BY <1>2
<1> QED
  BY <1>1, <1>3

(* Putting x at the end of the tour *)
IsAppended(size, h, n, w, next, previous, x, next2, previous2, v) ==
  /\ size \in Nat /\ n \in Nat /\ h \in Places(size) /\ x \in Places(size)
  /\ Chain(size, next, previous, h, n, w)
  /\ \A i \in 0..n : w[i] # x
  /\ next2[x] = h /\ next2[previous[h]] = x
  /\ \A y \in Places(size) : y # x /\ y # previous[h] => next2[y] = next[y]
  /\ previous2[x] = previous[h] /\ previous2[h] = x
  /\ \A y \in Places(size) : y # x /\ y # h => previous2[y] = previous[y]
  /\ v \in [0..(n + 2) -> Places(size)]
  /\ \A i \in 0..(n + 2) : v[i] = IF i <= n THEN w[i] ELSE IF i = n + 1 THEN x ELSE h

(* A tour with a new last record is a tour. *)
LEMMA ChainAppend ==
  ASSUME NEW size, NEW h, NEW n, NEW w, NEW next, NEW previous, NEW x,
         NEW next2, NEW previous2, NEW v,
         IsAppended(size, h, n, w, next, previous, x, next2, previous2, v)
  PROVE  Chain(size, next2, previous2, h, n + 1, v)
<1> DEFINE last == previous[h]
<1> USE DEF Chain, IsAppended
<1>1. last = w[n] /\ h = w[0] /\ last # x /\ h # x
  OBVIOUS
<1>2. n + 1 \in Nat /\ v \in [0..(n + 2) -> Places(size)] /\ v[0] = h /\ v[n + 2] = h
  OBVIOUS
<1>3. \A i, j \in 0..(n + 1) : v[i] = v[j] => i = j
  OBVIOUS
<1>4. ASSUME NEW i \in 0..(n + 1)
      PROVE  next2[v[i]] = v[i + 1] /\ previous2[v[i + 1]] = v[i]
  <2>1. CASE i < n
    <3>1. v[i] = w[i] /\ v[i + 1] = w[i + 1] /\ w[i] # last /\ w[i + 1] # h
      BY <1>1, <2>1
    <3>2. w[i] # x /\ w[i + 1] # x /\ w[i] \in Places(size) /\ w[i + 1] \in Places(size)
      BY <2>1
    <3>3. next[w[i]] = w[i + 1] /\ previous[w[i + 1]] = w[i]
      BY <2>1
    <3>4. next2[w[i]] = next[w[i]]
      BY <3>1, <3>2
    <3>5. previous2[w[i + 1]] = previous[w[i + 1]]
      BY <3>1, <3>2
    <3> QED
      BY <3>1, <3>3, <3>4, <3>5
  <2>2. CASE i = n
    <3>1. v[i] = last /\ v[i + 1] = x
      BY <1>1, <2>2
    <3> QED
      BY <1>1, <3>1
  <2>3. CASE i = n + 1
    <3>1. v[i] = x /\ v[i + 1] = h
      BY <2>3
    <3> QED
      BY <1>1, <3>1
  <2> QED
    BY <2>1, <2>2, <2>3
<1>5. n + 1 + 1 = n + 2
  OBVIOUS
<1>6. v \in [0..(n + 1 + 1) -> Places(size)] /\ v[0] = h /\ v[n + 1 + 1] = h
  BY <1>2, <1>5
<1> QED
  BY <1>2, <1>3, <1>4, <1>6

(* Putting x at the start of the tour *)
IsPushed(size, h, n, w, next, previous, x, next2, previous2, v) ==
  /\ size \in Nat /\ n \in Nat /\ h \in Places(size) /\ x \in Places(size)
  /\ Chain(size, next, previous, h, n, w)
  /\ \A i \in 0..n : w[i] # x
  /\ next2[x] = next[h] /\ next2[h] = x
  /\ \A y \in Places(size) : y # x /\ y # h => next2[y] = next[y]
  /\ previous2[x] = h /\ previous2[next[h]] = x
  /\ \A y \in Places(size) : y # x /\ y # next[h] => previous2[y] = previous[y]
  /\ v \in [0..(n + 2) -> Places(size)]
  /\ \A i \in 0..(n + 2) : v[i] = IF i = 0 THEN h ELSE IF i = 1 THEN x ELSE w[i - 1]

(* A tour with a new first record is a tour. *)
LEMMA ChainPush ==
  ASSUME NEW size, NEW h, NEW n, NEW w, NEW next, NEW previous, NEW x,
         NEW next2, NEW previous2, NEW v,
         IsPushed(size, h, n, w, next, previous, x, next2, previous2, v)
  PROVE  Chain(size, next2, previous2, h, n + 1, v)
<1> DEFINE first == next[h]
<1> USE DEF Chain, IsPushed
<1>1. first = w[1] /\ h = w[0] /\ h # x
  OBVIOUS
<1>2. first # x
  <2>1. CASE n = 0
    BY <1>1, <2>1
  <2>2. CASE n > 0
    BY <1>1, <2>2
  <2> QED
    BY <2>1, <2>2
<1>3. n + 1 \in Nat /\ v \in [0..(n + 2) -> Places(size)] /\ v[0] = h /\ v[n + 2] = h
  OBVIOUS
<1>4. \A i, j \in 0..(n + 1) : v[i] = v[j] => i = j
  <2> SUFFICES ASSUME NEW i \in 0..(n + 1), NEW j \in 0..(n + 1), v[i] = v[j], i < j
               PROVE  FALSE
    OBVIOUS
  <2>1. CASE i = 0
    BY <1>1, <2>1
  <2>2. CASE i = 1
    BY <2>2
  <2>3. CASE i > 1
    BY <2>3
  <2> QED
    BY <2>1, <2>2, <2>3
<1>5. ASSUME NEW i \in 0..(n + 1)
      PROVE  next2[v[i]] = v[i + 1] /\ previous2[v[i + 1]] = v[i]
  <2>1. CASE i = 0
    <3>1. v[i] = h /\ v[i + 1] = x
      BY <2>1
    <3> QED
      BY <1>1, <1>2, <3>1
  <2>2. CASE i = 1
    <3>1. v[i] = x /\ v[i + 1] = first
      BY <1>1, <2>2
    <3> QED
      BY <1>1, <1>2, <3>1
  <2>3. CASE i > 1
    <3>0. i \in 0..(n + 2) /\ i + 1 \in 0..(n + 2) /\ i # 0 /\ i # 1 /\ i + 1 # 0 /\ i + 1 # 1
      BY <2>3
    <3>1. v[i] = w[i - 1] /\ v[i + 1] = w[i] /\ i - 1 \in 1..n
      <4>1. v[i] = w[i - 1]
        BY <3>0
      <4>2. v[i + 1] = w[i + 1 - 1] /\ i + 1 - 1 = i
        BY <3>0
      <4> QED
        BY <2>3, <4>1, <4>2
    <3>2. w[i - 1] # h /\ w[i - 1] # x
      BY <1>1, <3>1
    <3>3. w[i] # first /\ w[i] # x
      <4>1. CASE i <= n
        BY <1>1, <2>3, <4>1
      <4>2. CASE i = n + 1
        <5>1. w[i] = w[0] /\ 1 \in 0..n
          BY <2>3, <4>2
        <5> QED
          BY <1>1, <5>1
      <4> QED
        BY <4>1, <4>2
    <3>4. w[i - 1] \in Places(size) /\ w[i] \in Places(size)
      BY <2>3
    <3>5. next[w[i - 1]] = w[i] /\ previous[w[i]] = w[i - 1]
      <4>1. i - 1 \in 0..n /\ i - 1 + 1 = i
        BY <2>3
      <4> QED
        BY <4>1
    <3> QED
      BY <3>1, <3>2, <3>3, <3>4, <3>5
  <2> QED
    BY <2>1, <2>2, <2>3
<1> QED
  BY <1>3, <1>4, <1>5

(* The tours after a change *)
Shorter(w, n, p) == [i \in 0..n |-> IF i < p THEN w[i] ELSE w[i + 1]]

WithLast(v, m, x, g) == [i \in 0..(m + 2) |-> IF i <= m THEN v[i] ELSE IF i = m + 1 THEN x ELSE g]

WithFirst(v, m, x, g) == [i \in 0..(m + 2) |-> IF i = 0 THEN g ELSE IF i = 1 THEN x ELSE v[i - 1]]

(* Two chains that share no place *)
TwoChains(size, next, previous, h, n, w, g, m, v) ==
  /\ size \in Nat /\ n \in Nat /\ m \in Nat
  /\ next \in [Places(size) -> Places(size)] /\ previous \in [Places(size) -> Places(size)]
  /\ Chain(size, next, previous, h, n, w)
  /\ Chain(size, next, previous, g, m, v)
  /\ \A i \in 0..n, j \in 0..m : w[i] # v[j]

(* Unlinking a record from the first chain *)
LEMMA UnlinkFirst ==
  ASSUME NEW size, NEW next, NEW previous, NEW h, NEW n, NEW w, NEW g, NEW m, NEW v,
         TwoChains(size, next, previous, h, n, w, g, m, v),
         NEW p \in 1..n,
         NEW next2, next2 = [next EXCEPT ![previous[w[p]]] = next[w[p]]],
         NEW previous2, previous2 = [previous EXCEPT ![next[w[p]]] = previous[w[p]]]
  PROVE  TwoChains(size, next2, previous2, h, n - 1, Shorter(w, n, p), g, m, v)
<1> DEFINE w2 == Shorter(w, n, p)
<1>1. /\ size \in Nat /\ n \in Nat /\ m \in Nat /\ n - 1 \in Nat
      /\ next \in [Places(size) -> Places(size)] /\ previous \in [Places(size) -> Places(size)]
      /\ Chain(size, next, previous, h, n, w) /\ Chain(size, next, previous, g, m, v)
      /\ \A i \in 0..n, j \in 0..m : w[i] # v[j]
  BY DEF TwoChains
<1>2. /\ \A i \in 0..(n + 1) : w[i] \in Places(size)
      /\ \A i \in 0..n : next[w[i]] = w[i + 1] /\ previous[w[i + 1]] = w[i]
      /\ w[0] = w[n + 1]
  BY <1>1 DEF Chain
<1>3. /\ previous[w[p]] = w[p - 1] /\ next[w[p]] = w[p + 1]
      /\ w[p - 1] \in Places(size) /\ w[p + 1] \in Places(size)
  <2>1. p \in 0..n /\ p - 1 \in 0..n /\ p - 1 + 1 = p /\ p + 1 \in 0..(n + 1)
    BY <1>1
  <2>2. p - 1 \in 0..(n + 1)
    BY <1>1
  <2> QED
    BY <1>2, <2>1, <2>2
<1>4. /\ next2 \in [Places(size) -> Places(size)] /\ previous2 \in [Places(size) -> Places(size)]
      /\ next2[w[p - 1]] = w[p + 1] /\ previous2[w[p + 1]] = w[p - 1]
      /\ \A y \in Places(size) : y # w[p - 1] => next2[y] = next[y]
      /\ \A y \in Places(size) : y # w[p + 1] => previous2[y] = previous[y]
  BY <1>1, <1>3
<1>5. w2 \in [0..n -> Places(size)] /\ \A i \in 0..n : w2[i] = IF i < p THEN w[i] ELSE w[i + 1]
  BY <1>1, <1>2 DEF Shorter
<1> HIDE DEF w2
<1>6. IsCut(size, h, n, w, next, previous, p, next2, previous2, w2)
  BY <1>1, <1>4, <1>5 DEF IsCut
<1>7. Chain(size, next2, previous2, h, n - 1, w2)
  BY <1>6, ChainCut
<1>8. \A j \in 0..m : v[j] \in Places(size) /\ v[j] # w[p - 1] /\ v[j] # w[p + 1]
  <2>1. p - 1 \in 0..n /\ (p + 1 \in 0..n \/ w[p + 1] = w[0]) /\ 0 \in 0..n
    BY <1>1, <1>2
  <2>2. \A j \in 0..m : v[j] \in Places(size)
    BY <1>1 DEF Chain
  <2> QED
    BY <1>1, <2>1, <2>2
<1>9. Chain(size, next2, previous2, g, m, v)
  <2>1. SameLinks(m, v, next, previous, next2, previous2)
    BY <1>4, <1>8 DEF SameLinks
  <2>2. size <= size
    BY <1>1
  <2> QED
    BY <1>1, <2>1, <2>2, ChainApart
<1>10. ASSUME NEW i \in 0..(n - 1), NEW j \in 0..m
       PROVE  w2[i] # v[j]
  <2>1. \E q \in 0..n : w2[i] = w[q]
    <3>1. i \in 0..n /\ (i < p \/ i + 1 \in 0..n)
      BY <1>1
    <3> QED
      BY <1>5, <3>1
  <2> QED
    BY <1>1, <2>1
<1>11. TwoChains(size, next2, previous2, h, n - 1, w2, g, m, v)
  BY <1>1, <1>4, <1>7, <1>9, <1>10 DEF TwoChains
<1> QED
  BY <1>11 DEF w2

(* The second chain gets one more record, at its end. *)
LEMMA AppendToSecond ==
  ASSUME NEW size, NEW next, NEW previous, NEW h, NEW n, NEW w, NEW g, NEW m, NEW v,
         TwoChains(size, next, previous, h, n, w, g, m, v),
         NEW x \in Places(size), \A i \in 0..n : w[i] # x, \A j \in 0..m : v[j] # x,
         NEW next2, next2 = [next EXCEPT ![x] = g, ![previous[g]] = x],
         NEW previous2, previous2 = [previous EXCEPT ![x] = previous[g], ![g] = x]
  PROVE  TwoChains(size, next2, previous2, h, n, w, g, m + 1, WithLast(v, m, x, g))
<1> DEFINE v2 == WithLast(v, m, x, g)
<1>1. /\ size \in Nat /\ n \in Nat /\ m \in Nat /\ m + 1 \in Nat
      /\ next \in [Places(size) -> Places(size)] /\ previous \in [Places(size) -> Places(size)]
      /\ Chain(size, next, previous, h, n, w) /\ Chain(size, next, previous, g, m, v)
      /\ \A i \in 0..n, j \in 0..m : w[i] # v[j]
  BY DEF TwoChains
<1>2. /\ \A i \in 0..(m + 1) : v[i] \in Places(size)
      /\ v[0] = g /\ previous[g] = v[m]
      /\ 0 \in 0..m /\ m \in 0..m
  BY <1>1 DEF Chain
<1>3. g \in Places(size) /\ v[m] \in Places(size) /\ g # x /\ v[m] # x
  BY <1>1, <1>2
<1>4. /\ next2 \in [Places(size) -> Places(size)] /\ previous2 \in [Places(size) -> Places(size)]
      /\ next2[x] = g /\ next2[previous[g]] = x
      /\ previous2[x] = previous[g] /\ previous2[g] = x
      /\ \A y \in Places(size) : y # x /\ y # previous[g] => next2[y] = next[y]
      /\ \A y \in Places(size) : y # x /\ y # g => previous2[y] = previous[y]
  BY <1>1, <1>2, <1>3
<1>5. /\ v2 \in [0..(m + 2) -> Places(size)]
      /\ \A i \in 0..(m + 2) : v2[i] = IF i <= m THEN v[i] ELSE IF i = m + 1 THEN x ELSE g
  BY <1>1, <1>2, <1>3 DEF WithLast
<1> HIDE DEF v2
<1>6. IsAppended(size, g, m, v, next, previous, x, next2, previous2, v2)
  BY <1>1, <1>3, <1>4, <1>5 DEF IsAppended
<1>7. Chain(size, next2, previous2, g, m + 1, v2)
  BY <1>6, ChainAppend
<1>8. \A i \in 0..n : w[i] \in Places(size) /\ w[i] # x /\ w[i] # previous[g] /\ w[i] # g
  <2>1. \A i \in 0..n : w[i] \in Places(size)
    BY <1>1 DEF Chain
  <2> QED
    BY <1>1, <1>2, <2>1
<1>9. Chain(size, next2, previous2, h, n, w)
  <2>1. SameLinks(n, w, next, previous, next2, previous2)
    BY <1>4, <1>8 DEF SameLinks
  <2>2. size <= size
    BY <1>1
  <2> QED
    BY <1>1, <2>1, <2>2, ChainApart
<1>10. ASSUME NEW i \in 0..n, NEW j \in 0..(m + 1)
       PROVE  w[i] # v2[j]
  <2>1. CASE j <= m
    BY <1>1, <1>5, <2>1
  <2>2. CASE j = m + 1
    BY <1>1, <1>5, <2>2
  <2> QED
    BY <1>1, <2>1, <2>2
<1>11. TwoChains(size, next2, previous2, h, n, w, g, m + 1, v2)
  BY <1>1, <1>4, <1>7, <1>9, <1>10 DEF TwoChains
<1> QED
  BY <1>11 DEF v2

(* The second chain gets one more record, at its start. *)
LEMMA PushToSecond ==
  ASSUME NEW size, NEW next, NEW previous, NEW h, NEW n, NEW w, NEW g, NEW m, NEW v,
         TwoChains(size, next, previous, h, n, w, g, m, v),
         NEW x \in Places(size), \A i \in 0..n : w[i] # x, \A j \in 0..m : v[j] # x,
         NEW next2, next2 = [next EXCEPT ![x] = next[g], ![g] = x],
         NEW previous2, previous2 = [previous EXCEPT ![x] = g, ![next[g]] = x]
  PROVE  TwoChains(size, next2, previous2, h, n, w, g, m + 1, WithFirst(v, m, x, g))
<1> DEFINE v2 == WithFirst(v, m, x, g)
<1>1. /\ size \in Nat /\ n \in Nat /\ m \in Nat /\ m + 1 \in Nat
      /\ next \in [Places(size) -> Places(size)] /\ previous \in [Places(size) -> Places(size)]
      /\ Chain(size, next, previous, h, n, w) /\ Chain(size, next, previous, g, m, v)
      /\ \A i \in 0..n, j \in 0..m : w[i] # v[j]
  BY DEF TwoChains
<1>2. /\ \A i \in 0..(m + 1) : v[i] \in Places(size)
      /\ v[0] = g /\ v[m + 1] = g /\ next[g] = v[1]
      /\ 0 \in 0..m /\ 1 \in 0..(m + 1)
  <2>1. 0 \in 0..m /\ 1 \in 0..(m + 1) /\ 0 + 1 = 1
    BY <1>1
  <2> QED
    BY <1>1, <2>1 DEF Chain
<1>3. g \in Places(size) /\ v[1] \in Places(size) /\ g # x /\ v[1] # x
  <2>1. CASE m = 0
    BY <1>1, <1>2, <2>1
  <2>2. CASE m > 0
    <3>1. 1 \in 0..m
      BY <1>1, <2>2
    <3> QED
      BY <1>1, <1>2, <3>1
  <2> QED
    BY <1>1, <2>1, <2>2
<1>4. /\ next2 \in [Places(size) -> Places(size)] /\ previous2 \in [Places(size) -> Places(size)]
      /\ next2[x] = next[g] /\ next2[g] = x
      /\ previous2[x] = g /\ previous2[next[g]] = x
      /\ \A y \in Places(size) : y # x /\ y # g => next2[y] = next[y]
      /\ \A y \in Places(size) : y # x /\ y # next[g] => previous2[y] = previous[y]
  BY <1>1, <1>2, <1>3
<1>5. /\ v2 \in [0..(m + 2) -> Places(size)]
      /\ \A i \in 0..(m + 2) : v2[i] = IF i = 0 THEN g ELSE IF i = 1 THEN x ELSE v[i - 1]
  <2>1. \A i \in 0..(m + 2) : i = 0 \/ i = 1 \/ i - 1 \in 0..(m + 1)
    BY <1>1
  <2> QED
    BY <1>1, <1>2, <1>3, <2>1 DEF WithFirst
<1> HIDE DEF v2
<1>6. IsPushed(size, g, m, v, next, previous, x, next2, previous2, v2)
  BY <1>1, <1>3, <1>4, <1>5 DEF IsPushed
<1>7. Chain(size, next2, previous2, g, m + 1, v2)
  BY <1>6, ChainPush
<1>8. \A i \in 0..n : w[i] \in Places(size) /\ w[i] # x /\ w[i] # next[g] /\ w[i] # g
  <2>1. \A i \in 0..n : w[i] \in Places(size)
    BY <1>1 DEF Chain
  <2>2. 1 \in 0..m \/ v[1] = v[0]
    BY <1>1, <1>2
  <2> QED
    BY <1>1, <1>2, <2>1, <2>2
<1>9. Chain(size, next2, previous2, h, n, w)
  <2>1. SameLinks(n, w, next, previous, next2, previous2)
    BY <1>4, <1>8 DEF SameLinks
  <2>2. size <= size
    BY <1>1
  <2> QED
    BY <1>1, <2>1, <2>2, ChainApart
<1>10. ASSUME NEW i \in 0..n, NEW j \in 0..(m + 1)
       PROVE  w[i] # v2[j]
  <2>1. CASE j = 0
    BY <1>1, <1>2, <1>5, <2>1
  <2>2. CASE j = 1
    BY <1>1, <1>5, <2>2
  <2>3. CASE j > 1
    <3>1. j - 1 \in 0..m /\ v2[j] = v[j - 1]
      BY <1>1, <1>5, <2>3
    <3> QED
      BY <1>1, <3>1
  <2> QED
    BY <1>1, <2>1, <2>2, <2>3
<1>11. TwoChains(size, next2, previous2, h, n, w, g, m + 1, v2)
  BY <1>1, <1>4, <1>7, <1>9, <1>10 DEF TwoChains
<1> QED
  BY <1>11 DEF v2

-----------------------------------------------------------------------------
(***************************************************************************)
(* List_Freedom_Keeper.                                                    *)
(***************************************************************************)

(* The places that are free, and those that are not, are those of the chain. *)
CoversFree(k, n, w) == \A x \in Places(k.size) : k.is_free[x] <=> \E i \in 0..n : w[i] = x

CoversUsed(k, n, w) == \A x \in Places(k.size) : ~k.is_free[x] <=> \E i \in 0..n : w[i] = x

ListShape(k) ==
  k \in [dense : {FALSE}, size : Nat, used_count : Nat,
         is_free : [Places(k.size) -> BOOLEAN],
         next : [Places(k.size) -> Places(k.size)],
         previous : [Places(k.size) -> Places(k.size)]]

(* The tours of the used records and of the free ones *)
ListHas(k, u, f) ==
  /\ TwoChains(k.size, k.next, k.previous,
               used_list, k.used_count, u, free_list, k.size - k.used_count, f)
  /\ CoversUsed(k, k.used_count, u)
  /\ CoversFree(k, k.size - k.used_count, f)

ListInv(k) ==
  /\ ListShape(k)
  /\ k.used_count <= k.size
  /\ \E u, f : ListHas(k, u, f)

DenseInv(k) ==
  /\ k \in [dense : {TRUE}, used_size : Nat, free_size : Nat]
  /\ k.used_size <= k.free_size

(* The invariant of a Freedom_Keeper *)
KeeperInv(k) == DenseInv(k) \/ ListInv(k)

(* The lists of an empty keeper are sound. *)
LEMMA NewListInv == ListInv(NewList) /\ NewList.size = 0 /\ NewList.used_count = 0
<1> DEFINE u == [i \in 0..1 |-> used_list]
           f == [i \in 0..1 |-> free_list]
<1> USE DEF NewList, used_list, free_list
<1>1. ListShape(NewList)
  BY DEF ListShape, Places
<1>2. Chain(0, NewList.next, NewList.previous, used_list, 0, u)
  BY DEF Chain, Places
<1>3. Chain(0, NewList.next, NewList.previous, free_list, 0, f)
  BY DEF Chain, Places
<1>4. CoversUsed(NewList, 0, u) /\ CoversFree(NewList, 0, f)
  <2>1. Places(NewList.size) = {used_list, free_list}
    BY DEF Places
  <2>2. NewList.is_free = [i \in Places(NewList.size) |-> i = free_list]
    BY DEF Places
  <2>3. 0 \in 0..0 /\ u[0] = used_list /\ f[0] = free_list /\ \A i \in 0..0 : i = 0
    OBVIOUS
  <2>4. ~NewList.is_free[used_list] /\ NewList.is_free[free_list]
    <3>1. used_list \in used_list..free_list /\ free_list \in used_list..free_list
          /\ used_list # free_list
      OBVIOUS
    <3> HIDE DEF used_list, free_list
    <3> QED
      BY <3>1
  <2> HIDE DEF u, f, NewList
  <2> QED
    BY <2>1, <2>3, <2>4 DEF CoversUsed, CoversFree
<1>6. \A i, j \in 0..0 : u[i] # f[j]
  OBVIOUS
<1>5. ListHas(NewList, u, f)
  BY <1>1, <1>2, <1>3, <1>4, <1>6 DEF ListHas, TwoChains, ListShape
<1> QED
  BY <1>1, <1>5 DEF ListInv

(* The heads, and the other places *)
LEMMA PlacesOf ==
  ASSUME NEW k, ListInv(k)
  PROVE  /\ k.size \in Nat
         /\ used_list \in Places(k.size) /\ free_list \in Places(k.size)
         /\ ~k.is_free[used_list] /\ k.is_free[free_list]
         /\ \A x : x \in Places(k.size) <=> x = used_list \/ x = free_list \/ x \in 0..(k.size - 1)
<1>1. k.size \in Nat /\ k.is_free \in [Places(k.size) -> BOOLEAN]
  BY DEF ListInv, ListShape
<1>2. \A x : x \in Places(k.size) <=> x = used_list \/ x = free_list \/ x \in 0..(k.size - 1)
  BY <1>1 DEF Places, used_list, free_list
<1>3. PICK u, f : ListHas(k, u, f)
  BY DEF ListInv
<1>4. u[0] = used_list /\ f[0] = free_list /\ 0 \in 0..k.used_count /\ 0 \in 0..(k.size - k.used_count)
  BY <1>3 DEF ListHas, TwoChains, Chain
<1> QED
  BY <1>1, <1>2, <1>3, <1>4 DEF ListHas, CoversUsed, CoversFree

(* The two lists play the same role. *)
LEMMA TwoChainsSwap ==
  ASSUME NEW size, NEW next, NEW previous, NEW h, NEW n, NEW w, NEW g, NEW m, NEW v,
         TwoChains(size, next, previous, h, n, w, g, m, v)
  PROVE  TwoChains(size, next, previous, g, m, v, h, n, w)
BY DEF TwoChains

(* What an operation of the lists has to show *)
LEMMA ListInvFrom ==
  ASSUME NEW l, NEW u, NEW f, NEW size, NEW count, NEW free, NEW next, NEW previous,
         l = [dense |-> FALSE, size |-> size, used_count |-> count,
              is_free |-> free, next |-> next, previous |-> previous],
         count <= size, free \in [Places(size) -> BOOLEAN], ListHas(l, u, f)
  PROVE  ListInv(l)
<1>1. /\ size \in Nat /\ count \in Nat
      /\ next \in [Places(size) -> Places(size)]
      /\ previous \in [Places(size) -> Places(size)]
  BY DEF ListHas, TwoChains
<1>2. ListShape(l)
  BY <1>1 DEF ListShape
<1> QED
  BY <1>2 DEF ListInv

(* The types of the fields of a list keeper *)
LEMMA ListFields ==
  ASSUME NEW k, ListInv(k)
  PROVE  /\ k.size \in Nat /\ k.used_count \in Nat /\ k.used_count <= k.size
         /\ k.size - k.used_count \in Nat /\ k.dense = FALSE
         /\ k.is_free \in [Places(k.size) -> BOOLEAN]
         /\ k.next \in [Places(k.size) -> Places(k.size)]
         /\ k.previous \in [Places(k.size) -> Places(k.size)]
<1>1. k.size \in Nat /\ k.used_count \in Nat /\ k.used_count <= k.size
  BY DEF ListInv, ListShape
<1>2. k.size - k.used_count \in Nat
  BY <1>1
<1> QED
  BY <1>1, <1>2 DEF ListInv, ListShape

(* The tours of a list, and the records that are in them *)
LEMMA ListTours ==
  ASSUME NEW k, ListInv(k)
  PROVE  \E u, f :
           /\ TwoChains(k.size, k.next, k.previous,
                        used_list, k.used_count, u, free_list, k.size - k.used_count, f)
           /\ \A y \in Places(k.size) : ~k.is_free[y] <=> \E i \in 0..k.used_count : u[i] = y
           /\ \A y \in Places(k.size) :
                k.is_free[y] <=> \E i \in 0..(k.size - k.used_count) : f[i] = y
           /\ \A i \in 0..k.used_count : u[i] \in Places(k.size)
           /\ \A i \in 0..(k.size - k.used_count) : f[i] \in Places(k.size)
           /\ u[0] = used_list /\ f[0] = free_list
<1>1. PICK u, f : ListHas(k, u, f)
  BY DEF ListInv
<1>2. /\ TwoChains(k.size, k.next, k.previous,
                    used_list, k.used_count, u, free_list, k.size - k.used_count, f)
      /\ \A y \in Places(k.size) : ~k.is_free[y] <=> \E i \in 0..k.used_count : u[i] = y
      /\ \A y \in Places(k.size) :
           k.is_free[y] <=> \E i \in 0..(k.size - k.used_count) : f[i] = y
  BY <1>1 DEF ListHas, CoversUsed, CoversFree
<1>3. /\ Chain(k.size, k.next, k.previous, used_list, k.used_count, u)
      /\ Chain(k.size, k.next, k.previous, free_list, k.size - k.used_count, f)
      /\ k.used_count \in Nat /\ k.size - k.used_count \in Nat
  BY <1>2 DEF TwoChains
<1>4. u[0] = used_list /\ \A i \in 0..k.used_count : u[i] \in Places(k.size)
  <2>1. u[0] = used_list /\ u \in [0..(k.used_count + 1) -> Places(k.size)]
    BY <1>3 DEF Chain
  <2>2. \A i \in 0..k.used_count : i \in 0..(k.used_count + 1)
    BY <1>3
  <2> QED
    BY <2>1, <2>2
<1>5. f[0] = free_list /\ \A i \in 0..(k.size - k.used_count) : f[i] \in Places(k.size)
  <2> DEFINE n == k.size - k.used_count
  <2>1. n \in Nat /\ Chain(k.size, k.next, k.previous, free_list, n, f)
    BY <1>3
  <2> HIDE DEF n
  <2>2. f[0] = free_list /\ f \in [0..(n + 1) -> Places(k.size)]
    BY <2>1 DEF Chain
  <2>3. \A i \in 0..n : i \in 0..(n + 1)
    BY <2>1
  <2>4. f[0] = free_list /\ \A i \in 0..n : f[i] \in Places(k.size)
    BY <2>2, <2>3
  <2> QED
    BY <2>4 DEF n
<1> QED
  BY <1>2, <1>4, <1>5

(* push_back adds one free record. *)
LEMMA ListPushBackInv ==
  ASSUME NEW k, ListInv(k), NEW l, l = ListPushBack(k)
  PROVE  /\ ListInv(l) /\ l.size = k.size + 1 /\ l.used_count = k.used_count
         /\ l.is_free = [i \in Places(k.size + 1) |-> IF i = k.size THEN TRUE ELSE k.is_free[i]]
<1> DEFINE x     == k.size
           c     == k.used_count
           n     == k.size - k.used_count
           first == k.next[free_list]
           nextG == [i \in Places(x + 1) |-> IF i = x THEN first ELSE k.next[i]]
           prevG == [i \in Places(x + 1) |-> IF i = x THEN free_list ELSE k.previous[i]]
           next2 == [nextG EXCEPT ![free_list] = x]
           prev2 == [prevG EXCEPT ![first] = x]
           free2 == [i \in Places(x + 1) |-> IF i = x THEN TRUE ELSE k.is_free[i]]
<1>1. /\ x \in Nat /\ c \in Nat /\ c <= x /\ n \in Nat /\ k.dense = FALSE
      /\ k.is_free \in [Places(x) -> BOOLEAN]
      /\ k.next \in [Places(x) -> Places(x)] /\ k.previous \in [Places(x) -> Places(x)]
  BY ListFields
<1>2. /\ x + 1 \in Nat /\ x <= x + 1 /\ x \in Places(x + 1) /\ x \notin Places(x)
      /\ Places(x + 1) = Places(x) \union {x}
      /\ used_list..x = Places(x + 1)
  <2>1. x + 1 - 1 = x
    BY <1>1
  <2>2. Places(x + 1) = used_list..x
    BY <1>1, <2>1 DEF Places
  <2> QED
    BY <1>1, <2>2 DEF Places, used_list
<1>3. l = [dense |-> FALSE, size |-> x + 1, used_count |-> c,
           is_free |-> free2, next |-> next2, previous |-> prev2]
  BY <1>1, <1>2 DEF ListPushBack, ListInv, ListShape
<1>4. /\ used_list \in Places(x) /\ free_list \in Places(x) /\ first \in Places(x)
      /\ free_list # x /\ first # x
  BY <1>1, <1>2, PlacesOf
<1>5. nextG \in [Places(x + 1) -> Places(x + 1)] /\ prevG \in [Places(x + 1) -> Places(x + 1)]
  BY <1>1, <1>2, <1>4
<1>6. PICK u, f :
        /\ TwoChains(x, k.next, k.previous, used_list, c, u, free_list, n, f)
        /\ \A y \in Places(x) : ~k.is_free[y] <=> \E i \in 0..c : u[i] = y
        /\ \A y \in Places(x) : k.is_free[y] <=> \E i \in 0..n : f[i] = y
        /\ \A i \in 0..c : u[i] \in Places(x)
        /\ \A i \in 0..n : f[i] \in Places(x)
        /\ u[0] = used_list /\ f[0] = free_list
  BY ListTours
<1>7. /\ TwoChains(x, k.next, k.previous, used_list, c, u, free_list, n, f)
      /\ \A y \in Places(x) : ~k.is_free[y] <=> \E i \in 0..c : u[i] = y
      /\ \A y \in Places(x) : k.is_free[y] <=> \E i \in 0..n : f[i] = y
  BY <1>6
<1>8. /\ \A i \in 0..c : u[i] \in Places(x)
      /\ \A i \in 0..n : f[i] \in Places(x)
      /\ f[0] = free_list /\ 0 \in 0..n
  BY <1>1, <1>6
<1>9. TwoChains(x + 1, nextG, prevG, used_list, c, u, free_list, n, f)
  <2>1. SameLinks(c, u, k.next, k.previous, nextG, prevG)
    BY <1>2, <1>8 DEF SameLinks
  <2>2. SameLinks(n, f, k.next, k.previous, nextG, prevG)
    BY <1>2, <1>8 DEF SameLinks
  <2>3. /\ Chain(x, k.next, k.previous, used_list, c, u)
        /\ Chain(x, k.next, k.previous, free_list, n, f)
        /\ \A i \in 0..c, j \in 0..n : u[i] # f[j]
    BY <1>7 DEF TwoChains
  <2> HIDE DEF nextG, prevG, x, n, c
  <2>4. Chain(x + 1, nextG, prevG, used_list, c, u)
    BY <1>1, <1>2, <2>1, <2>3, ChainApart
  <2>5. Chain(x + 1, nextG, prevG, free_list, n, f)
    BY <1>1, <1>2, <2>2, <2>3, ChainApart
  <2> QED
    BY <1>1, <1>2, <1>5, <2>3, <2>4, <2>5 DEF TwoChains
<1> DEFINE f2 == WithFirst(f, n, x, free_list)
<1>10. TwoChains(x + 1, next2, prev2, used_list, c, u, free_list, n + 1, f2)
  <2>1. next2 = [nextG EXCEPT ![x] = nextG[free_list], ![free_list] = x]
    <3>1. nextG[free_list] = first /\ nextG[x] = first
      BY <1>2, <1>4
    <3> QED
      BY <1>2, <1>4, <1>5, <3>1
  <2>2. prev2 = [prevG EXCEPT ![x] = free_list, ![nextG[free_list]] = x]
    <3>1. nextG[free_list] = first /\ prevG[x] = free_list
      BY <1>2, <1>4
    <3> QED
      BY <1>2, <1>4, <1>5, <3>1
  <2>3. (\A i \in 0..c : u[i] # x) /\ (\A i \in 0..n : f[i] # x)
    BY <1>2, <1>8
  <2>4. used_list # x /\ x \in Places(x + 1)
    BY <1>2, <1>4
  <2> HIDE DEF nextG, prevG, next2, prev2, x, n, c
  <2> QED
    BY <2>4, <1>9, <2>1, <2>2, <2>3, PushToSecond
<1>f. \A i \in 0..(n + 2) : f2[i] = IF i = 0 THEN free_list ELSE IF i = 1 THEN x ELSE f[i - 1]
  BY DEF WithFirst
<1> HIDE DEF f2
<1>11. ASSUME NEW y \in Places(x + 1)
       PROVE  free2[y] <=> \E i \in 0..(n + 1) : f2[i] = y
  <2>1. CASE y = x
    <3>1. 1 \in 0..(n + 1) /\ f2[1] = x
      BY <1>1, <1>f
    <3> QED
      BY <1>2, <2>1, <3>1
  <2>2. CASE y # x
    <3>1. free2[y] <=> \E i \in 0..n : f[i] = y
      BY <1>2, <1>7, <2>2
    <3>2. \A i \in 0..n : i > 0 => i + 1 \in 0..(n + 1) /\ f2[i + 1] = f[i]
      BY <1>1, <1>f
    <3>3. f2[0] = f[0] /\ 0 \in 0..(n + 1)
      BY <1>1, <1>8, <1>f
    <3>4. \A i \in 0..(n + 1) : i > 1 => i - 1 \in 0..n /\ f2[i] = f[i - 1]
      BY <1>1, <1>f
    <3>5. f2[1] = x
      BY <1>1, <1>f
    <3>6. ASSUME NEW i \in 0..n, f[i] = y
          PROVE  \E j \in 0..(n + 1) : f2[j] = y
      BY <1>1, <3>2, <3>3, <3>6
    <3>7. ASSUME NEW i \in 0..(n + 1), f2[i] = y
          PROVE  \E j \in 0..n : f[j] = y
      <4>1. i = 0 \/ i = 1 \/ i > 1
        BY <1>1
      <4> QED
        BY <1>8, <2>2, <3>3, <3>4, <3>5, <3>7, <4>1
    <3> QED
      BY <3>1, <3>6, <3>7
  <2> QED
    BY <2>1, <2>2
<1>12. \A y \in Places(x + 1) : ~free2[y] <=> \E i \in 0..c : u[i] = y
  BY <1>2, <1>7, <1>8
<1>13. ListInv(l)
  <2>1. n + 1 = x + 1 - c
    BY <1>1
  <2>2. free2 \in [Places(x + 1) -> BOOLEAN]
    BY <1>1, <1>2
  <2>4. c <= x + 1
    BY <1>1
  <2>3. l.size = x + 1 /\ l.used_count = c /\ l.is_free = free2 /\ l.next = next2 /\ l.previous = prev2
    BY <1>3
  <2> HIDE DEF next2, prev2, free2, x, n, c
  <2>6. l.size - l.used_count = n + 1
    BY <1>1, <1>2, <2>1, <2>3
  <2>5. ListHas(l, u, f2)
    BY <1>10, <1>11, <1>12, <2>3, <2>6 DEF ListHas, CoversUsed, CoversFree
  <2> QED
    BY <1>3, <2>2, <2>3, <2>4, <2>5, ListInvFrom
<1> QED
  BY <1>3, <1>13

(* use: a free record goes to the end of the used ones. *)
LEMMA ListUseInv ==
  ASSUME NEW k, ListInv(k), NEW index \in 0..(k.size - 1), k.is_free[index],
         NEW l, l = ListUse(k, index)
  PROVE  /\ ListInv(l) /\ l.size = k.size /\ l.used_count = k.used_count + 1
         /\ l.is_free = [k.is_free EXCEPT ![index] = FALSE]
<1> DEFINE s     == k.size
           c     == k.used_count
           n     == k.size - k.used_count
           next1 == [k.next EXCEPT ![k.previous[index]] = k.next[index]]
           prev1 == [k.previous EXCEPT ![k.next[index]] = k.previous[index]]
           last  == prev1[used_list]
           next2 == [next1 EXCEPT ![index] = used_list, ![last] = index]
           prev2 == [prev1 EXCEPT ![index] = last, ![used_list] = index]
           free2 == [k.is_free EXCEPT ![index] = FALSE]
<1>1. /\ s \in Nat /\ c \in Nat /\ c <= s /\ n \in Nat /\ k.dense = FALSE
      /\ k.is_free \in [Places(s) -> BOOLEAN]
      /\ k.next \in [Places(s) -> Places(s)] /\ k.previous \in [Places(s) -> Places(s)]
  BY ListFields
<1>2. /\ index \in Places(s) /\ index # used_list /\ index # free_list
      /\ used_list \in Places(s) /\ free_list \in Places(s)
      /\ ~k.is_free[used_list] /\ k.is_free[free_list]
  <2>1. index # used_list /\ index # free_list
    BY DEF used_list, free_list
  <2> QED
    BY <1>1, <2>1, PlacesOf
<1>3. l = [dense |-> FALSE, size |-> s, used_count |-> c + 1,
           is_free |-> free2, next |-> next2, previous |-> prev2]
  BY <1>1 DEF ListUse, Unlinked, ListInv, ListShape
<1>4. PICK u, f :
        /\ TwoChains(s, k.next, k.previous, used_list, c, u, free_list, n, f)
        /\ \A y \in Places(s) : ~k.is_free[y] <=> \E i \in 0..c : u[i] = y
        /\ \A y \in Places(s) : k.is_free[y] <=> \E i \in 0..n : f[i] = y
        /\ \A i \in 0..c : u[i] \in Places(s)
        /\ \A i \in 0..n : f[i] \in Places(s)
        /\ u[0] = used_list /\ f[0] = free_list
  BY ListTours
<1>5. PICK p \in 1..n : f[p] = index
  <2>1. PICK p \in 0..n : f[p] = index
    BY <1>2, <1>4
  <2>2. p # 0
    BY <1>2, <1>4, <2>1
  <2>3. p \in 1..n
    BY <1>1, <2>1, <2>2
  <2> QED
    BY <2>1, <2>3
<1>6. n - 1 \in Nat /\ c + 1 \in Nat /\ c + 1 <= s /\ n - 1 = s - (c + 1)
  BY <1>1, <1>5
<1> DEFINE f1 == Shorter(f, n, p)
           u1 == WithLast(u, c, index, used_list)
<1>7. TwoChains(s, next1, prev1, free_list, n - 1, f1, used_list, c, u)
  <2>1. TwoChains(s, k.next, k.previous, free_list, n, f, used_list, c, u)
    BY <1>4, TwoChainsSwap
  <2>2. /\ next1 = [k.next EXCEPT ![k.previous[f[p]]] = k.next[f[p]]]
        /\ prev1 = [k.previous EXCEPT ![k.next[f[p]]] = k.previous[f[p]]]
    BY <1>5
  <2> HIDE DEF s, c, n, next1, prev1
  <2> QED
    BY <2>1, <2>2, UnlinkFirst
<1>8. \A i \in 0..n : i # p => f[i] # index
  <2>1. Chain(s, k.next, k.previous, free_list, n, f)
    BY <1>4 DEF TwoChains
  <2>2. \A i, j \in 0..n : f[i] = f[j] => i = j
    BY <2>1 DEF Chain
  <2>3. p \in 0..n
    BY <1>1, <1>5
  <2> QED
    BY <1>5, <2>2, <2>3
<1>9. \A i \in 0..(n - 1) : f1[i] = IF i < p THEN f[i] ELSE f[i + 1]
  BY <1>1 DEF Shorter
<1>10. \A i \in 0..(n - 1) : f1[i] # index
  <2>1. ASSUME NEW i \in 0..(n - 1)
        PROVE  f1[i] # index
    <3>1. i \in 0..n /\ i + 1 \in 0..n /\ (i < p => i # p) /\ (~(i < p) => i + 1 # p)
      BY <1>1, <1>5
    <3> QED
      BY <1>8, <1>9, <3>1
  <2> QED
    BY <2>1
<1>11. \A i \in 0..c : u[i] # index
  BY <1>2, <1>4
<1>12. TwoChains(s, next2, prev2, free_list, n - 1, f1, used_list, c + 1, u1)
  <2>1. /\ next2 = [next1 EXCEPT ![index] = used_list, ![prev1[used_list]] = index]
        /\ prev2 = [prev1 EXCEPT ![index] = prev1[used_list], ![used_list] = index]
    OBVIOUS
  <2> DEFINE m == n - 1
  <2>2. \A i \in 0..m : f1[i] # index
    BY <1>10
  <2>3. TwoChains(s, next1, prev1, free_list, m, f1, used_list, c, u)
    BY <1>7
  <2> HIDE DEF s, c, n, m, next1, prev1, next2, prev2, last, f1
  <2>4. TwoChains(s, next2, prev2, free_list, m, f1, used_list, c + 1, u1)
    BY <1>2, <1>11, <2>1, <2>2, <2>3, AppendToSecond
  <2> QED
    BY <2>4 DEF m
<1>13. \A i \in 0..(c + 1) : u1[i] = IF i <= c THEN u[i] ELSE index
  BY <1>1 DEF WithLast
<1> HIDE DEF f1, u1
<1>14. ASSUME NEW y \in Places(s)
       PROVE  ~free2[y] <=> \E i \in 0..(c + 1) : u1[i] = y
  <2>1. CASE y = index
    <3>1. c + 1 \in 0..(c + 1) /\ u1[c + 1] = index
      BY <1>1, <1>13
    <3> QED
      BY <1>1, <1>2, <2>1, <3>1
  <2>2. CASE y # index
    <3>1. ~free2[y] <=> \E i \in 0..c : u[i] = y
      BY <1>1, <1>4, <2>2
    <3>2. \A i \in 0..c : i \in 0..(c + 1) /\ u1[i] = u[i]
      BY <1>1, <1>13
    <3>3. \A i \in 0..(c + 1) : u1[i] = index \/ (i \in 0..c /\ u1[i] = u[i])
      BY <1>1, <1>13
    <3> QED
      BY <2>2, <3>1, <3>2, <3>3
  <2> QED
    BY <2>1, <2>2
<1>15. ASSUME NEW y \in Places(s)
       PROVE  free2[y] <=> \E i \in 0..(n - 1) : f1[i] = y
  <2>1. CASE y = index
    BY <1>1, <1>2, <1>10, <2>1
  <2>2. CASE y # index
    <3>1. free2[y] <=> \E i \in 0..n : f[i] = y
      BY <1>1, <1>4, <2>2
    <3>2. ASSUME NEW i \in 0..n, f[i] = y
          PROVE  \E j \in 0..(n - 1) : f1[j] = y
      <4>1. i # p
        BY <1>5, <2>2, <3>2
      <4>2. CASE i < p
        <5>1. i \in 0..(n - 1)
          BY <1>1, <1>5, <4>2
        <5> QED
          BY <1>9, <3>2, <4>2, <5>1
      <4>3. CASE i > p
        <5>1. i - 1 \in 0..(n - 1) /\ ~(i - 1 < p) /\ i - 1 + 1 = i
          BY <1>1, <1>5, <4>3
        <5>2. f1[i - 1] = f[i]
          BY <1>9, <5>1
        <5> QED
          BY <3>2, <5>1, <5>2
      <4> QED
        BY <1>1, <4>1, <4>2, <4>3
    <3>3. ASSUME NEW i \in 0..(n - 1), f1[i] = y
          PROVE  \E j \in 0..n : f[j] = y
      <4>1. i \in 0..n /\ i + 1 \in 0..n
        BY <1>1
      <4> QED
        BY <1>9, <3>3, <4>1
    <3> QED
      BY <3>1, <3>2, <3>3
  <2> QED
    BY <2>1, <2>2
<1>16. ListInv(l)
  <2>1. free2 \in [Places(s) -> BOOLEAN]
    BY <1>1
  <2>2. l.size = s /\ l.used_count = c + 1 /\ l.is_free = free2 /\ l.next = next2 /\ l.previous = prev2
    BY <1>3
  <2>3. l.size - l.used_count = n - 1
    BY <1>6, <2>2
  <2> HIDE DEF next2, prev2, free2, s, n, c
  <2>4. TwoChains(s, next2, prev2, used_list, c + 1, u1, free_list, n - 1, f1)
    BY <1>12, TwoChainsSwap
  <2>5. ListHas(l, u1, f1)
    BY <1>14, <1>15, <2>2, <2>3, <2>4 DEF ListHas, CoversUsed, CoversFree
  <2> QED
    BY <1>3, <1>6, <2>1, <2>5, ListInvFrom
<1> QED
  BY <1>3, <1>16

(* free: a used record goes to the start of the free ones. *)
LEMMA ListFreeInv ==
  ASSUME NEW k, ListInv(k), NEW index \in 0..(k.size - 1), ~k.is_free[index],
         NEW l, l = ListFree(k, index)
  PROVE  /\ ListInv(l) /\ l.size = k.size /\ l.used_count = k.used_count - 1
         /\ l.is_free = [k.is_free EXCEPT ![index] = TRUE]
<1> DEFINE s     == k.size
           c     == k.used_count
           n     == k.size - k.used_count
           next1 == [k.next EXCEPT ![k.previous[index]] = k.next[index]]
           prev1 == [k.previous EXCEPT ![k.next[index]] = k.previous[index]]
           first == next1[free_list]
           next2 == [next1 EXCEPT ![index] = first, ![free_list] = index]
           prev2 == [prev1 EXCEPT ![index] = free_list, ![first] = index]
           free2 == [k.is_free EXCEPT ![index] = TRUE]
<1>1. /\ s \in Nat /\ c \in Nat /\ c <= s /\ n \in Nat /\ k.dense = FALSE
      /\ k.is_free \in [Places(s) -> BOOLEAN]
      /\ k.next \in [Places(s) -> Places(s)] /\ k.previous \in [Places(s) -> Places(s)]
  BY ListFields
<1>2. /\ index \in Places(s) /\ index # used_list /\ index # free_list
      /\ used_list \in Places(s) /\ free_list \in Places(s)
      /\ ~k.is_free[used_list] /\ k.is_free[free_list]
  <2>1. index # used_list /\ index # free_list
    BY DEF used_list, free_list
  <2> QED
    BY <1>1, <2>1, PlacesOf
<1>3. l = [dense |-> FALSE, size |-> s, used_count |-> c - 1,
           is_free |-> free2, next |-> next2, previous |-> prev2]
  BY <1>1 DEF ListFree, Unlinked, ListInv, ListShape
<1>4. PICK u, f :
        /\ TwoChains(s, k.next, k.previous, used_list, c, u, free_list, n, f)
        /\ \A y \in Places(s) : ~k.is_free[y] <=> \E i \in 0..c : u[i] = y
        /\ \A y \in Places(s) : k.is_free[y] <=> \E i \in 0..n : f[i] = y
        /\ \A i \in 0..c : u[i] \in Places(s)
        /\ \A i \in 0..n : f[i] \in Places(s)
        /\ u[0] = used_list /\ f[0] = free_list
  BY ListTours
<1>5. PICK p \in 1..c : u[p] = index
  <2>1. PICK p \in 0..c : u[p] = index
    BY <1>2, <1>4
  <2>2. p # 0
    BY <1>2, <1>4, <2>1
  <2>3. p \in 1..c
    BY <1>1, <2>1, <2>2
  <2> QED
    BY <2>1, <2>3
<1>6. c - 1 \in Nat /\ n + 1 \in Nat /\ c - 1 <= s /\ n + 1 = s - (c - 1)
  BY <1>1, <1>5
<1> DEFINE u1 == Shorter(u, c, p)
           f1 == WithFirst(f, n, index, free_list)
<1>7. TwoChains(s, next1, prev1, used_list, c - 1, u1, free_list, n, f)
  <2>1. TwoChains(s, k.next, k.previous, used_list, c, u, free_list, n, f)
    BY <1>4
  <2>2. /\ next1 = [k.next EXCEPT ![k.previous[u[p]]] = k.next[u[p]]]
        /\ prev1 = [k.previous EXCEPT ![k.next[u[p]]] = k.previous[u[p]]]
    BY <1>5
  <2> HIDE DEF s, c, n, next1, prev1
  <2> QED
    BY <2>1, <2>2, UnlinkFirst
<1>8. \A i \in 0..c : i # p => u[i] # index
  <2>1. Chain(s, k.next, k.previous, used_list, c, u)
    BY <1>4 DEF TwoChains
  <2>2. \A i, j \in 0..c : u[i] = u[j] => i = j
    BY <2>1 DEF Chain
  <2>3. p \in 0..c
    BY <1>1, <1>5
  <2> QED
    BY <1>5, <2>2, <2>3
<1>9. \A i \in 0..(c - 1) : u1[i] = IF i < p THEN u[i] ELSE u[i + 1]
  BY <1>1 DEF Shorter
<1>10. \A i \in 0..(c - 1) : u1[i] # index
  <2>1. ASSUME NEW i \in 0..(c - 1)
        PROVE  u1[i] # index
    <3>1. i \in 0..c /\ i + 1 \in 0..c /\ (i < p => i # p) /\ (~(i < p) => i + 1 # p)
      BY <1>1, <1>5
    <3> QED
      BY <1>8, <1>9, <3>1
  <2> QED
    BY <2>1
<1>11. \A i \in 0..n : f[i] # index
  BY <1>2, <1>4
<1>12. TwoChains(s, next2, prev2, used_list, c - 1, u1, free_list, n + 1, f1)
  <2>1. /\ next2 = [next1 EXCEPT ![index] = next1[free_list], ![free_list] = index]
        /\ prev2 = [prev1 EXCEPT ![index] = free_list, ![next1[free_list]] = index]
    OBVIOUS
  <2> DEFINE m == c - 1
  <2>2. \A i \in 0..m : u1[i] # index
    BY <1>10
  <2>3. TwoChains(s, next1, prev1, used_list, m, u1, free_list, n, f)
    BY <1>7
  <2> HIDE DEF s, c, n, m, next1, prev1, next2, prev2, first, u1
  <2>4. TwoChains(s, next2, prev2, used_list, m, u1, free_list, n + 1, f1)
    BY <1>2, <1>11, <2>1, <2>2, <2>3, PushToSecond
  <2> QED
    BY <2>4 DEF m
<1>13. \A i \in 0..(n + 1) : f1[i] = IF i = 0 THEN free_list ELSE IF i = 1 THEN index ELSE f[i - 1]
  BY <1>1 DEF WithFirst
<1> HIDE DEF f1, u1
<1>14. ASSUME NEW y \in Places(s)
       PROVE  free2[y] <=> \E i \in 0..(n + 1) : f1[i] = y
  <2>1. CASE y = index
    <3>1. 1 \in 0..(n + 1) /\ f1[1] = index
      BY <1>1, <1>13
    <3> QED
      BY <1>1, <1>2, <2>1, <3>1
  <2>2. CASE y # index
    <3>1. free2[y] <=> \E i \in 0..n : f[i] = y
      BY <1>1, <1>4, <2>2
    <3>2. ASSUME NEW i \in 0..n, f[i] = y
          PROVE  \E j \in 0..(n + 1) : f1[j] = y
      <4>1. CASE i = 0
        <5>1. 0 \in 0..(n + 1) /\ f1[0] = y
          BY <1>1, <1>4, <1>13, <3>2, <4>1
        <5> QED
          BY <5>1
      <4>2. CASE i > 0
        <5>1. i + 1 \in 0..(n + 1) /\ i + 1 # 0 /\ i + 1 # 1 /\ i + 1 - 1 = i
          BY <1>1, <4>2
        <5> QED
          BY <1>13, <3>2, <5>1
      <4> QED
        BY <1>1, <4>1, <4>2
    <3>3. ASSUME NEW i \in 0..(n + 1), f1[i] = y
          PROVE  \E j \in 0..n : f[j] = y
      <4>1. CASE i = 0
        <5>1. 0 \in 0..n /\ f[0] = y
          BY <1>1, <1>4, <1>13, <3>3, <4>1
        <5> QED
          BY <5>1
      <4>2. CASE i > 0
        <5>1. i # 1
          BY <1>13, <2>2, <3>3, <4>2
        <5>2. i - 1 \in 0..n /\ f[i - 1] = y
          BY <1>1, <1>13, <3>3, <4>2, <5>1
        <5> QED
          BY <5>2
      <4> QED
        BY <1>1, <4>1, <4>2
    <3> QED
      BY <3>1, <3>2, <3>3
  <2> QED
    BY <2>1, <2>2
<1>15. ASSUME NEW y \in Places(s)
       PROVE  ~free2[y] <=> \E i \in 0..(c - 1) : u1[i] = y
  <2>1. CASE y = index
    BY <1>1, <1>2, <1>10, <2>1
  <2>2. CASE y # index
    <3>1. ~free2[y] <=> \E i \in 0..c : u[i] = y
      BY <1>1, <1>4, <2>2
    <3>2. ASSUME NEW i \in 0..c, u[i] = y
          PROVE  \E j \in 0..(c - 1) : u1[j] = y
      <4>1. i # p
        BY <1>5, <2>2, <3>2
      <4>2. CASE i < p
        <5>1. i \in 0..(c - 1)
          BY <1>1, <1>5, <4>2
        <5> QED
          BY <1>9, <3>2, <4>2, <5>1
      <4>3. CASE i > p
        <5>1. i - 1 \in 0..(c - 1) /\ ~(i - 1 < p) /\ i - 1 + 1 = i
          BY <1>1, <1>5, <4>3
        <5>2. u1[i - 1] = u[i]
          BY <1>9, <5>1
        <5> QED
          BY <3>2, <5>1, <5>2
      <4> QED
        BY <1>1, <4>1, <4>2, <4>3
    <3>3. ASSUME NEW i \in 0..(c - 1), u1[i] = y
          PROVE  \E j \in 0..c : u[j] = y
      <4>1. i \in 0..c /\ i + 1 \in 0..c
        BY <1>1
      <4> QED
        BY <1>9, <3>3, <4>1
    <3> QED
      BY <3>1, <3>2, <3>3
  <2> QED
    BY <2>1, <2>2
<1>16. ListInv(l)
  <2>1. free2 \in [Places(s) -> BOOLEAN]
    BY <1>1
  <2>2. l.size = s /\ l.used_count = c - 1 /\ l.is_free = free2 /\ l.next = next2 /\ l.previous = prev2
    BY <1>3
  <2>3. l.size - l.used_count = n + 1
    BY <1>6, <2>2
  <2> HIDE DEF next2, prev2, free2, s, n, c
  <2>4. ListHas(l, u1, f1)
    BY <1>12, <1>14, <1>15, <2>2, <2>3 DEF ListHas, CoversUsed, CoversFree
  <2> QED
    BY <1>3, <1>6, <2>1, <2>4, ListInvFrom
<1> QED
  BY <1>3, <1>16

-----------------------------------------------------------------------------
(***************************************************************************)
(* The loops of the vector operations.                                     *)
(***************************************************************************)

(* The keepers that the loop of use_vector goes through *)
LEMMA UseTimes ==
  ASSUME NEW k, NEW first \in Int, NEW n \in Nat
  PROVE  \E g : /\ g[0] = k /\ g[n] = ListUseVector(k, first, n)
                /\ \A i \in 0..(n - 1) : g[i + 1] = ListUse(g[i], first + i)
<1> DEFINE Is(g, m) == g = [i \in 0..m |-> IF i = 0 THEN k ELSE ListUse(g[i - 1], first + i - 1)]
           S == {m \in 0..n : \E g : Is(g, m)}
<1>1. 0 \in S
  <2>1. Is([i \in 0..0 |-> k], 0)
    OBVIOUS
  <2>2. \E g : Is(g, 0)
    BY <2>1
  <2> HIDE DEF Is
  <2> QED
    BY <2>2
<1>2. ASSUME NEW m \in 0..(n - 1), m \in S
      PROVE  m + 1 \in S
  <2>1. PICK g : Is(g, m)
    BY <1>2
  <2> DEFINE h == [i \in 0..(m + 1) |-> IF i = m + 1 THEN ListUse(g[m], first + m) ELSE g[i]]
  <2>2. \A i \in 0..m : g[i] = IF i = 0 THEN k ELSE ListUse(g[i - 1], first + i - 1)
    BY <2>1
  <2>3. ASSUME NEW i \in 0..(m + 1)
        PROVE  h[i] = IF i = 0 THEN k ELSE ListUse(h[i - 1], first + i - 1)
    <3>1. CASE i = m + 1
      <4>1. h[i - 1] = g[m] /\ first + i - 1 = first + m /\ i # 0
        BY <3>1
      <4> QED
        BY <3>1, <4>1
    <3>2. CASE i # m + 1
      <4>1. i \in 0..m /\ h[i] = g[i] /\ (i # 0 => h[i - 1] = g[i - 1])
        BY <3>2
      <4> QED
        BY <2>2, <4>1
    <3> QED
      BY <3>1, <3>2
  <2>4. h = [i \in 0..(m + 1) |-> h[i]]
    OBVIOUS
  <2> HIDE DEF h
  <2>5. Is(h, m + 1)
    BY <2>3, <2>4
  <2> QED
    BY <2>5
<1> HIDE DEF S
<1>3. n \in S
  <2>1. \A m \in 0..n : m \in S
    BY <1>1, <1>2, InductionUpTo
  <2> QED
    BY <2>1
<1>4. \E g : Is(g, n)
  BY <1>3 DEF S
<1> DEFINE c == CHOOSE g : Is(g, n)
<1>5. Is(c, n)
  BY <1>4
<1>6. c[n] = ListUseVector(k, first, n)
  BY DEF ListUseVector, Iterate
<1> HIDE DEF c
<1>7. c[0] = k /\ \A i \in 0..(n - 1) : c[i + 1] = ListUse(c[i], first + i)
  <2>1. ASSUME NEW i \in 0..n
        PROVE  c[i] = IF i = 0 THEN k ELSE ListUse(c[i - 1], first + i - 1)
    BY <1>5
  <2>2. ASSUME NEW i \in 0..(n - 1)
        PROVE  c[i + 1] = ListUse(c[i], first + i)
    <3>1. i + 1 \in 0..n /\ i + 1 # 0 /\ i + 1 - 1 = i /\ first + (i + 1) - 1 = first + i
      OBVIOUS
    <3> QED
      BY <2>1, <3>1
  <2>3. 0 \in 0..n
    OBVIOUS
  <2> QED
    BY <2>1, <2>2, <2>3
<1> QED
  BY <1>6, <1>7

(* The keepers that the loop of free_vector goes through *)
LEMMA FreeTimes ==
  ASSUME NEW k, NEW first \in Int, NEW n \in Nat
  PROVE  \E g : /\ g[0] = k /\ g[n] = ListFreeVector(k, first, n)
                /\ \A i \in 0..(n - 1) : g[i + 1] = ListFree(g[i], first + i)
<1> DEFINE Is(g, m) == g = [i \in 0..m |-> IF i = 0 THEN k ELSE ListFree(g[i - 1], first + i - 1)]
           S == {m \in 0..n : \E g : Is(g, m)}
<1>1. 0 \in S
  <2>1. Is([i \in 0..0 |-> k], 0)
    OBVIOUS
  <2>2. \E g : Is(g, 0)
    BY <2>1
  <2> HIDE DEF Is
  <2> QED
    BY <2>2
<1>2. ASSUME NEW m \in 0..(n - 1), m \in S
      PROVE  m + 1 \in S
  <2>1. PICK g : Is(g, m)
    BY <1>2
  <2> DEFINE h == [i \in 0..(m + 1) |-> IF i = m + 1 THEN ListFree(g[m], first + m) ELSE g[i]]
  <2>2. \A i \in 0..m : g[i] = IF i = 0 THEN k ELSE ListFree(g[i - 1], first + i - 1)
    BY <2>1
  <2>3. ASSUME NEW i \in 0..(m + 1)
        PROVE  h[i] = IF i = 0 THEN k ELSE ListFree(h[i - 1], first + i - 1)
    <3>1. CASE i = m + 1
      <4>1. h[i - 1] = g[m] /\ first + i - 1 = first + m /\ i # 0
        BY <3>1
      <4> QED
        BY <3>1, <4>1
    <3>2. CASE i # m + 1
      <4>1. i \in 0..m /\ h[i] = g[i] /\ (i # 0 => h[i - 1] = g[i - 1])
        BY <3>2
      <4> QED
        BY <2>2, <4>1
    <3> QED
      BY <3>1, <3>2
  <2>4. h = [i \in 0..(m + 1) |-> h[i]]
    OBVIOUS
  <2> HIDE DEF h
  <2>5. Is(h, m + 1)
    BY <2>3, <2>4
  <2> QED
    BY <2>5
<1> HIDE DEF S
<1>3. n \in S
  <2>1. \A m \in 0..n : m \in S
    BY <1>1, <1>2, InductionUpTo
  <2> QED
    BY <2>1
<1>4. \E g : Is(g, n)
  BY <1>3 DEF S
<1> DEFINE c == CHOOSE g : Is(g, n)
<1>5. Is(c, n)
  BY <1>4
<1>6. c[n] = ListFreeVector(k, first, n)
  BY DEF ListFreeVector, Iterate
<1> HIDE DEF c
<1>7. c[0] = k /\ \A i \in 0..(n - 1) : c[i + 1] = ListFree(c[i], first + i)
  <2>1. ASSUME NEW i \in 0..n
        PROVE  c[i] = IF i = 0 THEN k ELSE ListFree(c[i - 1], first + i - 1)
    BY <1>5
  <2>2. ASSUME NEW i \in 0..(n - 1)
        PROVE  c[i + 1] = ListFree(c[i], first + i)
    <3>1. i + 1 \in 0..n /\ i + 1 # 0 /\ i + 1 - 1 = i /\ first + (i + 1) - 1 = first + i
      OBVIOUS
    <3> QED
      BY <2>1, <3>1
  <2>3. 0 \in 0..n
    OBVIOUS
  <2> QED
    BY <2>1, <2>2, <2>3
<1> QED
  BY <1>6, <1>7

PushedBack(k, first, n) == Iterate(LAMBDA l, i : ListPushBack(l), k, first, n)

(* The keepers that the loop of resize goes through *)
LEMMA PushTimes ==
  ASSUME NEW k, NEW first \in Int, NEW n \in Nat
  PROVE  \E g : /\ g[0] = k /\ g[n] = PushedBack(k, first, n)
                /\ \A i \in 0..(n - 1) : g[i + 1] = ListPushBack(g[i])
<1> DEFINE Is(g, m) == g = [i \in 0..m |-> IF i = 0 THEN k ELSE ListPushBack(g[i - 1])]
           S == {m \in 0..n : \E g : Is(g, m)}
<1>1. 0 \in S
  <2>1. Is([i \in 0..0 |-> k], 0)
    OBVIOUS
  <2>2. \E g : Is(g, 0)
    BY <2>1
  <2> HIDE DEF Is
  <2> QED
    BY <2>2
<1>2. ASSUME NEW m \in 0..(n - 1), m \in S
      PROVE  m + 1 \in S
  <2>1. PICK g : Is(g, m)
    BY <1>2
  <2> DEFINE h == [i \in 0..(m + 1) |-> IF i = m + 1 THEN ListPushBack(g[m]) ELSE g[i]]
  <2>2. \A i \in 0..m : g[i] = IF i = 0 THEN k ELSE ListPushBack(g[i - 1])
    BY <2>1
  <2>3. ASSUME NEW i \in 0..(m + 1)
        PROVE  h[i] = IF i = 0 THEN k ELSE ListPushBack(h[i - 1])
    <3>1. CASE i = m + 1
      <4>1. h[i - 1] = g[m] /\ first + i - 1 = first + m /\ i # 0
        BY <3>1
      <4> QED
        BY <3>1, <4>1
    <3>2. CASE i # m + 1
      <4>1. i \in 0..m /\ h[i] = g[i] /\ (i # 0 => h[i - 1] = g[i - 1])
        BY <3>2
      <4> QED
        BY <2>2, <4>1
    <3> QED
      BY <3>1, <3>2
  <2>4. h = [i \in 0..(m + 1) |-> h[i]]
    OBVIOUS
  <2> HIDE DEF h
  <2>5. Is(h, m + 1)
    BY <2>3, <2>4
  <2> QED
    BY <2>5
<1> HIDE DEF S
<1>3. n \in S
  <2>1. \A m \in 0..n : m \in S
    BY <1>1, <1>2, InductionUpTo
  <2> QED
    BY <2>1
<1>4. \E g : Is(g, n)
  BY <1>3 DEF S
<1> DEFINE c == CHOOSE g : Is(g, n)
<1>5. Is(c, n)
  BY <1>4
<1>6. c[n] = PushedBack(k, first, n)
  BY DEF PushedBack, Iterate
<1> HIDE DEF c
<1>7. c[0] = k /\ \A i \in 0..(n - 1) : c[i + 1] = ListPushBack(c[i])
  <2>1. ASSUME NEW i \in 0..n
        PROVE  c[i] = IF i = 0 THEN k ELSE ListPushBack(c[i - 1])
    BY <1>5
  <2>2. ASSUME NEW i \in 0..(n - 1)
        PROVE  c[i + 1] = ListPushBack(c[i])
    <3>1. i + 1 \in 0..n /\ i + 1 # 0 /\ i + 1 - 1 = i /\ first + (i + 1) - 1 = first + i
      OBVIOUS
    <3> QED
      BY <2>1, <3>1
  <2>3. 0 \in 0..n
    OBVIOUS
  <2> QED
    BY <2>1, <2>2, <2>3
<1> QED
  BY <1>6, <1>7

(* The places of a vector *)
In(x, index, n) == index <= x /\ x < index + n

(* use_vector of free records uses them all. *)
LEMMA ListUseVectorInv ==
  ASSUME NEW k, ListInv(k), NEW index \in Nat, NEW n \in Nat, index + n <= k.size,
         \A i \in index..(index + n - 1) : k.is_free[i],
         NEW l, l = ListUseVector(k, index, n)
  PROVE  /\ ListInv(l) /\ l.size = k.size /\ l.used_count = k.used_count + n
         /\ \A x \in Places(k.size) : l.is_free[x] <=> k.is_free[x] /\ ~In(x, index, n)
<1>0. /\ k.size \in Nat /\ k.used_count \in Nat /\ k.is_free \in [Places(k.size) -> BOOLEAN]
      /\ index \in Int /\ \A x \in Places(k.size) : x \in Int
  <2>1. k.size \in Nat /\ k.used_count \in Nat /\ k.is_free \in [Places(k.size) -> BOOLEAN]
    BY ListFields
  <2>2. \A x \in Places(k.size) : x \in Int
    BY DEF Places
  <2> QED
    BY <2>1, <2>2
<1>1. PICK g : /\ g[0] = k /\ g[n] = ListUseVector(k, index, n)
               /\ \A i \in 0..(n - 1) : g[i + 1] = ListUse(g[i], index + i)
  BY <1>0, UseTimes
<1> DEFINE Good(m) ==
             /\ ListInv(g[m]) /\ g[m].size = k.size /\ g[m].used_count = k.used_count + m
             /\ \A x \in Places(k.size) : g[m].is_free[x] <=> k.is_free[x] /\ ~In(x, index, m)
           S == {m \in 0..n : Good(m)}
<1>2. 0 \in S
  <2>1. \A x \in Places(k.size) : ~In(x, index, 0)
    BY <1>0 DEF In
  <2>2. ListInv(g[0]) /\ g[0].size = k.size /\ g[0].used_count = k.used_count + 0
    BY <1>0, <1>1
  <2>3. Good(0)
    BY <1>1, <2>1, <2>2
  <2> QED
    BY <2>3
<1>3. ASSUME NEW m \in 0..(n - 1), m \in S
      PROVE  m + 1 \in S
  <2>1. Good(m)
    BY <1>3
  <2>2. index + m \in 0..(k.size - 1) /\ index + m \in Places(k.size)
    BY <1>0 DEF Places, used_list
  <2>3. g[m].is_free[index + m]
    <3>1. index + m \in index..(index + n - 1)
      OBVIOUS
    <3> QED
      BY <2>1, <2>2, <3>1 DEF In
  <2>4. g[m + 1] = ListUse(g[m], index + m)
    BY <1>1
  <2>5. /\ ListInv(g[m + 1]) /\ g[m + 1].size = g[m].size
        /\ g[m + 1].used_count = g[m].used_count + 1
        /\ g[m + 1].is_free = [g[m].is_free EXCEPT ![index + m] = FALSE]
    <3> DEFINE l1 == g[m]
               l2 == g[m + 1]
    <3>1. ListInv(l1) /\ index + m \in 0..(l1.size - 1) /\ l1.is_free[index + m]
      BY <2>1, <2>2, <2>3
    <3>2. l2 = ListUse(l1, index + m)
      BY <2>4
    <3> HIDE DEF l1, l2
    <3>3. /\ ListInv(l2) /\ l2.size = l1.size /\ l2.used_count = l1.used_count + 1
          /\ l2.is_free = [l1.is_free EXCEPT ![index + m] = FALSE]
      BY <3>1, <3>2, ListUseInv
    <3> QED
      BY <3>3 DEF l1, l2
  <2>6. g[m].is_free \in [Places(k.size) -> BOOLEAN]
    <3>1. ListInv(g[m]) /\ g[m].size = k.size
      BY <2>1
    <3> HIDE DEF Good
    <3> QED
      BY <3>1, ListFields
  <2>7. ASSUME NEW x \in Places(k.size)
        PROVE  g[m + 1].is_free[x] <=> k.is_free[x] /\ ~In(x, index, (m + 1))
    <3>1. x \in Int
      BY <1>0 DEF Places, used_list
    <3>2. CASE x = index + m
      BY <2>1, <2>5, <2>6, <3>1, <3>2 DEF In
    <3>3. CASE x # index + m
      <4>1. g[m + 1].is_free[x] <=> g[m].is_free[x]
        BY <2>5, <2>6, <3>3
      <4>2. In(x, index, m + 1) <=> In(x, index, m)
        BY <3>1, <3>3 DEF In
      <4> QED
        BY <2>1, <4>1, <4>2
    <3> QED
      BY <3>2, <3>3
  <2>8. g[m + 1].used_count = k.used_count + (m + 1)
    BY <1>0, <2>1, <2>5
  <2>9. Good(m + 1)
    BY <2>1, <2>5, <2>7, <2>8
  <2>10. m + 1 \in 0..n
    OBVIOUS
  <2> HIDE DEF Good
  <2> QED
    BY <2>9, <2>10
<1>4. n \in S
  <2> HIDE DEF S
  <2>1. \A m \in 0..n : m \in S
    BY <1>2, <1>3, InductionUpTo
  <2> QED
    BY <2>1
<1> QED
  BY <1>1, <1>4

(* free_vector of used records frees them all. *)
LEMMA ListFreeVectorInv ==
  ASSUME NEW k, ListInv(k), NEW index \in Nat, NEW n \in Nat, index + n <= k.size,
         \A i \in index..(index + n - 1) : ~k.is_free[i],
         NEW l, l = ListFreeVector(k, index, n)
  PROVE  /\ ListInv(l) /\ l.size = k.size /\ l.used_count = k.used_count - n
         /\ \A x \in Places(k.size) : l.is_free[x] <=> k.is_free[x] \/ In(x, index, n)
<1>0. /\ k.size \in Nat /\ k.used_count \in Nat /\ k.is_free \in [Places(k.size) -> BOOLEAN]
      /\ index \in Int /\ \A x \in Places(k.size) : x \in Int
  <2>1. k.size \in Nat /\ k.used_count \in Nat /\ k.is_free \in [Places(k.size) -> BOOLEAN]
    BY ListFields
  <2>2. \A x \in Places(k.size) : x \in Int
    BY DEF Places
  <2> QED
    BY <2>1, <2>2
<1>1. PICK g : /\ g[0] = k /\ g[n] = ListFreeVector(k, index, n)
               /\ \A i \in 0..(n - 1) : g[i + 1] = ListFree(g[i], index + i)
  BY <1>0, FreeTimes
<1> DEFINE Good(m) ==
             /\ ListInv(g[m]) /\ g[m].size = k.size /\ g[m].used_count = k.used_count - m
             /\ \A x \in Places(k.size) : g[m].is_free[x] <=> k.is_free[x] \/ In(x, index, m)
           S == {m \in 0..n : Good(m)}
<1>2. 0 \in S
  <2>1. \A x \in Places(k.size) : ~In(x, index, 0)
    BY <1>0 DEF In
  <2>2. ListInv(g[0]) /\ g[0].size = k.size /\ g[0].used_count = k.used_count - 0
    BY <1>0, <1>1
  <2>3. Good(0)
    BY <1>1, <2>1, <2>2
  <2> QED
    BY <2>3
<1>3. ASSUME NEW m \in 0..(n - 1), m \in S
      PROVE  m + 1 \in S
  <2>1. Good(m)
    BY <1>3
  <2>2. index + m \in 0..(k.size - 1) /\ index + m \in Places(k.size)
    BY <1>0 DEF Places, used_list
  <2>3. ~g[m].is_free[index + m]
    <3>1. index + m \in index..(index + n - 1)
      OBVIOUS
    <3> QED
      BY <2>1, <2>2, <3>1 DEF In
  <2>4. g[m + 1] = ListFree(g[m], index + m)
    BY <1>1
  <2>5. /\ ListInv(g[m + 1]) /\ g[m + 1].size = g[m].size
        /\ g[m + 1].used_count = g[m].used_count - 1
        /\ g[m + 1].is_free = [g[m].is_free EXCEPT ![index + m] = TRUE]
    <3> DEFINE l1 == g[m]
               l2 == g[m + 1]
    <3>1. ListInv(l1) /\ index + m \in 0..(l1.size - 1) /\ ~l1.is_free[index + m]
      BY <2>1, <2>2, <2>3
    <3>2. l2 = ListFree(l1, index + m)
      BY <2>4
    <3> HIDE DEF l1, l2
    <3>3. /\ ListInv(l2) /\ l2.size = l1.size /\ l2.used_count = l1.used_count - 1
          /\ l2.is_free = [l1.is_free EXCEPT ![index + m] = TRUE]
      BY <3>1, <3>2, ListFreeInv
    <3> QED
      BY <3>3 DEF l1, l2
  <2>6. g[m].is_free \in [Places(k.size) -> BOOLEAN]
    <3>1. ListInv(g[m]) /\ g[m].size = k.size
      BY <2>1
    <3> HIDE DEF Good
    <3> QED
      BY <3>1, ListFields
  <2>7. ASSUME NEW x \in Places(k.size)
        PROVE  g[m + 1].is_free[x] <=> k.is_free[x] \/ In(x, index, (m + 1))
    <3>1. x \in Int
      BY <1>0 DEF Places, used_list
    <3>2. CASE x = index + m
      BY <2>1, <2>5, <2>6, <3>1, <3>2 DEF In
    <3>3. CASE x # index + m
      <4>1. g[m + 1].is_free[x] <=> g[m].is_free[x]
        BY <2>5, <2>6, <3>3
      <4>2. In(x, index, m + 1) <=> In(x, index, m)
        BY <3>1, <3>3 DEF In
      <4> QED
        BY <2>1, <4>1, <4>2
    <3> QED
      BY <3>2, <3>3
  <2>8. g[m + 1].used_count = k.used_count - (m + 1)
    BY <1>0, <2>1, <2>5
  <2>9. Good(m + 1)
    BY <2>1, <2>5, <2>7, <2>8
  <2>10. m + 1 \in 0..n
    OBVIOUS
  <2> HIDE DEF Good
  <2> QED
    BY <2>9, <2>10
<1>4. n \in S
  <2> HIDE DEF S
  <2>1. \A m \in 0..n : m \in S
    BY <1>2, <1>3, InductionUpTo
  <2> QED
    BY <2>1
<1> QED
  BY <1>1, <1>4

(* The loop of resize *)
LEMMA PushedBackInv ==
  ASSUME NEW k, ListInv(k), NEW first \in Int, NEW n \in Nat,
         NEW l, l = PushedBack(k, first, n)
  PROVE  /\ ListInv(l) /\ l.size = k.size + n /\ l.used_count = k.used_count
         /\ \A x \in 0..(l.size - 1) : l.is_free[x] <=> (x < k.size => k.is_free[x])
<1>0. k.size \in Nat /\ k.used_count \in Nat /\ k.is_free \in [Places(k.size) -> BOOLEAN]
  BY ListFields
<1>1. PICK g : /\ g[0] = k /\ g[n] = PushedBack(k, first, n)
               /\ \A i \in 0..(n - 1) : g[i + 1] = ListPushBack(g[i])
  BY PushTimes
<1> DEFINE Good(m) ==
             /\ ListInv(g[m]) /\ g[m].size = k.size + m /\ g[m].used_count = k.used_count
             /\ \A x \in 0..(k.size + m - 1) : g[m].is_free[x] <=> (x < k.size => k.is_free[x])
           S == {m \in 0..n : Good(m)}
<1>2. 0 \in S
  <2>1. Good(0)
    BY <1>0, <1>1
  <2> QED
    BY <2>1
<1>3. ASSUME NEW m \in 0..(n - 1), m \in S
      PROVE  m + 1 \in S
  <2>1. Good(m)
    BY <1>3
  <2>2. g[m + 1] = ListPushBack(g[m])
    BY <1>1
  <2> DEFINE l1 == g[m]
             l2 == g[m + 1]
  <2>3. ListInv(l1) /\ l2 = ListPushBack(l1)
    BY <2>1, <2>2
  <2> HIDE DEF l1, l2
  <2>4. /\ ListInv(l2) /\ l2.size = l1.size + 1 /\ l2.used_count = l1.used_count
        /\ l2.is_free = [i \in Places(l1.size + 1) |-> IF i = l1.size THEN TRUE ELSE l1.is_free[i]]
    BY <2>3, ListPushBackInv
  <2>5. l1.size = k.size + m /\ l1.used_count = k.used_count
        /\ \A x \in 0..(k.size + m - 1) : l1.is_free[x] <=> (x < k.size => k.is_free[x])
    BY <2>1 DEF l1
  <2>6. \A x \in 0..(k.size + m) : l2.is_free[x] <=> (x < k.size => k.is_free[x])
    <3> SUFFICES ASSUME NEW x \in 0..(k.size + m)
                 PROVE  l2.is_free[x] <=> (x < k.size => k.is_free[x])
      OBVIOUS
    <3>1. x \in Places(l1.size + 1)
      BY <1>0, <2>5 DEF Places, used_list
    <3>2. CASE x = l1.size
      BY <1>0, <2>4, <2>5, <3>1, <3>2
    <3>3. CASE x # l1.size
      <4>1. l2.is_free[x] = l1.is_free[x]
        BY <2>4, <3>1, <3>3
      <4>2. x \in 0..(k.size + m - 1)
        BY <1>0, <2>5, <3>3
      <4> QED
        BY <2>5, <4>1, <4>2
    <3> QED
      BY <3>2, <3>3
  <2>7. Good(m + 1)
    <3>1. k.size + (m + 1) - 1 = k.size + m /\ k.size + m + 1 = k.size + (m + 1)
      BY <1>0
    <3> QED
      BY <2>4, <2>5, <2>6, <3>1 DEF l2
  <2> HIDE DEF Good
  <2> QED
    BY <2>7
<1>4. n \in S
  <2> HIDE DEF S
  <2>1. \A m \in 0..n : m \in S
    BY <1>2, <1>3, InductionUpTo
  <2> QED
    BY <2>1
<1>5. Good(n)
  BY <1>4
<1>6. l = g[n]
  BY <1>1
<1>7. /\ ListInv(l) /\ l.size = k.size + n /\ l.used_count = k.used_count
      /\ \A x \in 0..(k.size + n - 1) : l.is_free[x] <=> (x < k.size => k.is_free[x])
  BY <1>5, <1>6
<1> QED
  BY <1>0, <1>7

-----------------------------------------------------------------------------
(***************************************************************************)
(* Freedom_Keeper.                                                         *)
(***************************************************************************)

(* Counts of a keeper, and where its used records are *)
LEMMA KeeperTypes ==
  ASSUME NEW k, KeeperInv(k)
  PROVE  /\ KeeperSize(k) \in Nat /\ UsedCount(k) \in Nat /\ UsedCount(k) <= KeeperSize(k)
         /\ \A i \in Int : IsUsed(k, i) => i \in 0..(KeeperSize(k) - 1)
<1>1. CASE DenseInv(k)
  <2>1. /\ k.dense = TRUE /\ k.used_size \in Nat /\ k.free_size \in Nat
        /\ k.used_size <= k.free_size
    BY <1>1 DEF DenseInv
  <2> QED
    BY <2>1 DEF KeeperSize, UsedCount, IsUsed
<1>2. CASE ListInv(k)
  <2>1. k.size \in Nat /\ k.used_count \in Nat /\ k.used_count <= k.size /\ k.dense = FALSE
    BY <1>2, ListFields
  <2> QED
    BY <2>1 DEF KeeperSize, UsedCount, IsUsed, ListIsUsed
<1> QED
  BY <1>1, <1>2 DEF KeeperInv

(* The counters of a dense keeper *)
Dense(used_size, free_size) == [dense |-> TRUE, used_size |-> used_size, free_size |-> free_size]

(* A compact keeper is its two counters. *)
LEMMA DenseIs ==
  ASSUME NEW k, DenseInv(k)
  PROVE  /\ k.used_size \in Nat /\ k.free_size \in Nat /\ k.used_size <= k.free_size
         /\ k = Dense(k.used_size, k.free_size) /\ k.dense = TRUE
BY DEF DenseInv, Dense

(* Two counters in order make a keeper. *)
LEMMA DenseIsKeeper ==
  ASSUME NEW u \in Nat, NEW f \in Nat, u <= f, NEW l, l = Dense(u, f)
  PROVE  /\ KeeperInv(l) /\ KeeperSize(l) = f /\ UsedCount(l) = u
         /\ \A i \in Nat : IsUsed(l, i) <=> i < u
<1>1. DenseInv(l) /\ l.dense = TRUE /\ l.used_size = u /\ l.free_size = f
  BY DEF DenseInv, Dense
<1> QED
  BY <1>1 DEF KeeperInv, KeeperSize, UsedCount, IsUsed

(* A list, seen as a keeper *)
LEMMA ListIsKeeper ==
  ASSUME NEW k, ListInv(k)
  PROVE  /\ KeeperInv(k) /\ KeeperSize(k) = k.size /\ UsedCount(k) = k.used_count
         /\ \A i \in Nat : IsUsed(k, i) <=> i < k.size /\ ~k.is_free[i]
         /\ k.dense = FALSE /\ k.size \in Nat /\ k.used_count \in Nat
<1>1. k.size \in Nat /\ k.used_count \in Nat /\ k.dense = FALSE
  BY ListFields
<1> QED
  BY <1>1 DEF KeeperInv, KeeperSize, UsedCount, IsUsed, ListIsUsed

(* lose_compactness changes the representation only. *)
LEMMA AsListKeeps ==
  ASSUME NEW k, KeeperInv(k), NEW l, l = AsList(k)
  PROVE  /\ ListInv(l) /\ KeeperSize(l) = KeeperSize(k) /\ UsedCount(l) = UsedCount(k)
         /\ \A i \in Nat : IsUsed(l, i) <=> IsUsed(k, i)
<1>1. CASE ListInv(k)
  <2>1. k.dense = FALSE
    BY <1>1, ListFields
  <2> QED
    BY <1>1, <2>1 DEF AsList
<1>2. CASE DenseInv(k)
  <2>1. /\ k.dense = TRUE /\ k.used_size \in Nat /\ k.free_size \in Nat
        /\ k.used_size <= k.free_size
    BY <1>2 DEF DenseInv
  <2> DEFINE m == PushedBack(NewList, 0, k.free_size)
  <2>2. l = ListUseVector(m, 0, k.used_size)
    BY <2>1 DEF AsList, LoseCompactness, PushedBack, ListUseVector
  <2>3. /\ ListInv(m) /\ m.size = k.free_size /\ m.used_count = 0
        /\ \A x \in 0..(m.size - 1) : m.is_free[x]
    <3>1. /\ ListInv(m) /\ m.size = NewList.size + k.free_size
          /\ m.used_count = NewList.used_count
          /\ \A x \in 0..(m.size - 1) : m.is_free[x] <=> (x < NewList.size => NewList.is_free[x])
      <4>1. ListInv(NewList) /\ 0 \in Int
        BY NewListInv
      <4> HIDE DEF m
      <4> QED
        BY <2>1, <4>1, PushedBackInv DEF m
    <3>2. NewList.size = 0 /\ NewList.used_count = 0
      BY NewListInv
    <3> HIDE DEF m
    <3> QED
      BY <2>1, <3>1, <3>2
  <2> HIDE DEF m
  <2>4. /\ ListInv(l) /\ l.size = m.size /\ l.used_count = m.used_count + k.used_size
        /\ \A x \in Places(m.size) : l.is_free[x] <=> m.is_free[x] /\ ~In(x, 0, k.used_size)
    <3>1. 0 + k.used_size <= m.size /\ 0 \in Nat
      BY <2>1, <2>3
    <3>2. \A i \in 0..(0 + k.used_size - 1) : m.is_free[i]
      BY <2>1, <2>3
    <3> QED
      BY <2>1, <2>2, <2>3, <3>1, <3>2, ListUseVectorInv
  <2>5. ASSUME NEW i \in Nat
        PROVE  IsUsed(l, i) <=> IsUsed(k, i)
    <3>1. IsUsed(l, i) <=> i < l.size /\ ~l.is_free[i]
      BY <2>4, ListIsKeeper
    <3>2. IsUsed(k, i) <=> i < k.used_size
      BY <2>1 DEF IsUsed
    <3>3. In(i, 0, k.used_size) <=> i < k.used_size
      BY <2>1 DEF In
    <3>4. CASE i < k.free_size
      <4>1. i \in Places(m.size) /\ i \in 0..(m.size - 1)
        BY <2>1, <2>3, <3>4 DEF Places, used_list
      <4> QED
        BY <2>3, <2>4, <3>1, <3>2, <3>3, <3>4, <4>1
    <3>5. CASE ~(i < k.free_size)
      BY <2>1, <2>3, <2>4, <3>1, <3>2, <3>5
    <3> QED
      BY <3>4, <3>5
  <2>6. KeeperSize(l) = l.size /\ UsedCount(l) = l.used_count
    BY <2>4, ListIsKeeper
  <2> QED
    BY <2>1, <2>3, <2>4, <2>5, <2>6 DEF KeeperSize, UsedCount
<1> QED
  BY <1>1, <1>2 DEF KeeperInv

(* What an operation of a keeper does to what its user sees *)
Keeps(k, l, size, count) ==
  KeeperInv(l) /\ KeeperSize(l) = size /\ UsedCount(l) = count

(* push_back adds one free record, whatever the kind of keeper. *)
LEMMA PushBackKeeps ==
  ASSUME NEW k, KeeperInv(k), NEW l, l = PushBack(k)
  PROVE  /\ Keeps(k, l, KeeperSize(k) + 1, UsedCount(k))
         /\ \A i \in Nat : IsUsed(l, i) <=> IsUsed(k, i)
<1>1. CASE DenseInv(k)
  <2> DEFINE u == k.used_size
             f == k.free_size
  <2>1. u \in Nat /\ f \in Nat /\ u <= f /\ k = Dense(u, f) /\ k.dense = TRUE
    BY <1>1, DenseIs
  <2>2. l = Dense(u, f + 1)
    BY <2>1 DEF PushBack, Dense
  <2>3. f + 1 \in Nat /\ u <= f + 1
    BY <2>1
  <2> HIDE DEF u, f
  <2> QED
    BY <2>1, <2>2, <2>3, DenseIsKeeper DEF Keeps
<1>2. CASE ListInv(k)
  <2>1. k.dense = FALSE /\ k.size \in Nat /\ k.is_free \in [Places(k.size) -> BOOLEAN]
    BY <1>2, ListFields
  <2>2. l = ListPushBack(k)
    BY <2>1 DEF PushBack
  <2>3. /\ ListInv(l) /\ l.size = k.size + 1 /\ l.used_count = k.used_count
        /\ l.is_free = [i \in Places(k.size + 1) |-> IF i = k.size THEN TRUE ELSE k.is_free[i]]
    BY <1>2, <2>2, ListPushBackInv
  <2>4. ASSUME NEW i \in Nat
        PROVE  IsUsed(l, i) <=> IsUsed(k, i)
    <3>1. i < l.size => i \in Places(k.size + 1)
      BY <2>1, <2>3 DEF Places, used_list
    <3>2. IsUsed(l, i) <=> i < l.size /\ ~l.is_free[i]
      BY <2>3, ListIsKeeper
    <3>3. IsUsed(k, i) <=> i < k.size /\ ~k.is_free[i]
      BY <1>2, ListIsKeeper
    <3> QED
      BY <2>1, <2>3, <3>1, <3>2, <3>3
  <2>5. KeeperInv(l) /\ KeeperSize(l) = l.size /\ UsedCount(l) = l.used_count
    BY <2>3, ListIsKeeper
  <2>6. KeeperSize(k) = k.size /\ UsedCount(k) = k.used_count
    BY <1>2, ListIsKeeper
  <2> QED
    BY <2>3, <2>4, <2>5, <2>6 DEF Keeps
<1> QED
  BY <1>1, <1>2 DEF KeeperInv

(* resize adds free records, and removes none. *)
LEMMA ResizeKeeps ==
  ASSUME NEW k, KeeperInv(k), NEW size \in Nat, NEW l, l = Resize(k, size)
  PROVE  /\ Keeps(k, l, IF KeeperSize(k) < size THEN size ELSE KeeperSize(k), UsedCount(k))
         /\ \A i \in Nat : IsUsed(l, i) <=> IsUsed(k, i)
<1>1. CASE DenseInv(k)
  <2> DEFINE u == k.used_size
             f == k.free_size
  <2>1. u \in Nat /\ f \in Nat /\ u <= f /\ k = Dense(u, f) /\ k.dense = TRUE
    BY <1>1, DenseIs
  <2>2. l = Dense(u, IF f < size THEN size ELSE f)
    BY <2>1 DEF Resize, Dense
  <2> HIDE DEF u, f
  <2> QED
    BY <2>1, <2>2, DenseIsKeeper DEF Keeps
<1>2. CASE ListInv(k)
  <2>1. k.dense = FALSE /\ k.size \in Nat /\ k.is_free \in [Places(k.size) -> BOOLEAN]
    BY <1>2, ListFields
  <2>2. KeeperInv(k) /\ KeeperSize(k) = k.size /\ UsedCount(k) = k.used_count
    BY <1>2, ListIsKeeper
  <2>3. CASE ~(k.size < size)
    <3>1. l = k
      BY <2>1, <2>3 DEF Resize
    <3> QED
      BY <2>2, <2>3, <3>1 DEF Keeps
  <2>4. CASE k.size < size
    <3>0. l = PushedBack(k, 0, size - k.size)
      BY <2>1, <2>4 DEF Resize, PushedBack
    <3>1. l = PushedBack(k, 0, size - k.size) /\ size - k.size \in Nat /\ 0 \in Int
      BY <2>1, <2>4, <3>0
    <3>2. /\ ListInv(l) /\ l.size = k.size + (size - k.size) /\ l.used_count = k.used_count
          /\ \A x \in 0..(l.size - 1) : l.is_free[x] <=> (x < k.size => k.is_free[x])
      BY <1>2, <3>1, PushedBackInv
    <3>3. l.size = size
      BY <2>1, <3>2
    <3>4. ASSUME NEW i \in Nat
          PROVE  IsUsed(l, i) <=> IsUsed(k, i)
      <4>1. IsUsed(l, i) <=> i < l.size /\ ~l.is_free[i]
        BY <3>2, ListIsKeeper
      <4>2. IsUsed(k, i) <=> i < k.size /\ ~k.is_free[i]
        BY <1>2, ListIsKeeper
      <4>3. CASE i < size
        <5>1. i \in 0..(l.size - 1)
          BY <3>3, <4>3
        <5> QED
          BY <3>2, <3>3, <4>1, <4>2, <4>3, <5>1
      <4>4. CASE ~(i < size)
        BY <2>1, <2>4, <3>3, <4>1, <4>2, <4>4
      <4> QED
        BY <4>3, <4>4
    <3>5. KeeperInv(l) /\ KeeperSize(l) = l.size /\ UsedCount(l) = l.used_count
      BY <3>2, ListIsKeeper
    <3> QED
      BY <2>2, <2>4, <3>2, <3>3, <3>4, <3>5 DEF Keeps
  <2> QED
    BY <2>3, <2>4
<1> QED
  BY <1>1, <1>2 DEF KeeperInv

(* use_vector (Freedom_Keeper.h), applied to free records that the keeper has, *)
(* uses them and touches no other record, also when it has to turn a compact   *)
(* keeper into lists first; the keeper stays sound.                            *)
THEOREM UseVectorKeeps ==
  ASSUME NEW k, KeeperInv(k), NEW index \in Nat, NEW n \in Nat, index + n <= KeeperSize(k),
         \A i \in index..(index + n - 1) : ~IsUsed(k, i),
         NEW l, l = UseVector(k, index, n)
  PROVE  /\ Keeps(k, l, KeeperSize(k), UsedCount(k) + n)
         /\ \A i \in Nat : IsUsed(l, i) <=> IsUsed(k, i) \/ In(i, index, n)
<1>1. CASE k.dense /\ DenseCanUse(k, index, n)
  <2>1. DenseInv(k)
    BY <1>1, ListIsKeeper DEF KeeperInv
  <2> DEFINE u == k.used_size
             f == k.free_size
  <2>2. u \in Nat /\ f \in Nat /\ u <= f /\ k = Dense(u, f)
    BY <2>1, DenseIs
  <2>3. index = u /\ u + n <= f
    BY <1>1 DEF DenseCanUse
  <2>4. l = Dense(u + n, f)
    BY <1>1, <2>2, <2>3 DEF UseVector, Dense
  <2> HIDE DEF u, f
  <2>5. u + n \in Nat /\ u + n <= f
    BY <2>2, <2>3
  <2>6. /\ KeeperSize(k) = f /\ UsedCount(k) = u
        /\ \A i \in Nat : IsUsed(k, i) <=> i < u
    BY <2>2, DenseIsKeeper
  <2>7. /\ KeeperInv(l) /\ KeeperSize(l) = f /\ UsedCount(l) = u + n
        /\ \A i \in Nat : IsUsed(l, i) <=> i < u + n
    BY <2>2, <2>4, <2>5, DenseIsKeeper
  <2> QED
    BY <2>2, <2>3, <2>6, <2>7 DEF Keeps, In
<1>2. CASE ~(k.dense /\ DenseCanUse(k, index, n))
  <2> DEFINE a == AsList(k)
  <2>1. l = ListUseVector(a, index, n)
    BY <1>2 DEF UseVector
  <2>2. /\ ListInv(a) /\ KeeperSize(a) = KeeperSize(k) /\ UsedCount(a) = UsedCount(k)
        /\ \A i \in Nat : IsUsed(a, i) <=> IsUsed(k, i)
    <3> HIDE DEF a
    <3> QED
      BY AsListKeeps DEF a
  <2> HIDE DEF a
  <2>3. /\ KeeperSize(a) = a.size /\ UsedCount(a) = a.used_count
        /\ \A i \in Nat : IsUsed(a, i) <=> i < a.size /\ ~a.is_free[i]
        /\ a.size \in Nat
    BY <2>2, ListIsKeeper
  <2>4. \A i \in index..(index + n - 1) : a.is_free[i]
    <3> SUFFICES ASSUME NEW i \in index..(index + n - 1)
                 PROVE  a.is_free[i]
      OBVIOUS
    <3>1. i \in Nat /\ i < a.size
      BY <2>2, <2>3
    <3> QED
      BY <2>2, <2>3, <3>1
  <2>5. /\ ListInv(l) /\ l.size = a.size /\ l.used_count = a.used_count + n
        /\ \A x \in Places(a.size) : l.is_free[x] <=> a.is_free[x] /\ ~In(x, index, n)
    <3>1. index + n <= a.size
      BY <2>2, <2>3
    <3> QED
      BY <2>1, <2>2, <2>4, <3>1, ListUseVectorInv
  <2>6. /\ KeeperInv(l) /\ KeeperSize(l) = l.size /\ UsedCount(l) = l.used_count
        /\ \A i \in Nat : IsUsed(l, i) <=> i < l.size /\ ~l.is_free[i]
    BY <2>5, ListIsKeeper
  <2>7. ASSUME NEW i \in Nat
        PROVE  IsUsed(l, i) <=> IsUsed(k, i) \/ In(i, index, n)
    <3>1. In(i, index, n) => i < a.size
      BY <2>2, <2>3 DEF In
    <3>2. i < a.size => i \in Places(a.size)
      BY <2>3 DEF Places, used_list
    <3> QED
      BY <2>2, <2>3, <2>5, <2>6, <3>1, <3>2
  <2> QED
    BY <2>2, <2>3, <2>5, <2>6, <2>7 DEF Keeps
<1> QED
  BY <1>1, <1>2

(* free_vector (Freedom_Keeper.h), applied to used records, frees them and     *)
(* touches no other record; the keeper stays sound.                            *)
THEOREM FreeVectorKeeps ==
  ASSUME NEW k, KeeperInv(k), NEW index \in Nat, NEW n \in Nat, index + n <= KeeperSize(k),
         \A i \in index..(index + n - 1) : IsUsed(k, i),
         NEW l, l = FreeVector(k, index, n)
  PROVE  /\ Keeps(k, l, KeeperSize(k), UsedCount(k) - n)
         /\ \A i \in Nat : IsUsed(l, i) <=> IsUsed(k, i) /\ ~In(i, index, n)
<1>1. CASE k.dense /\ DenseCanFree(k, index, n)
  <2>1. DenseInv(k)
    BY <1>1, ListIsKeeper DEF KeeperInv
  <2> DEFINE u == k.used_size
             f == k.free_size
  <2>2. u \in Nat /\ f \in Nat /\ u <= f /\ k = Dense(u, f)
    BY <2>1, DenseIs
  <2>3. index + n = u
    BY <1>1 DEF DenseCanFree
  <2>4. l = Dense(index, f)
    <3>1. l = Dense(u - n, f)
      BY <1>1, <2>2 DEF FreeVector, Dense
    <3> QED
      BY <2>2, <2>3, <3>1
  <2> HIDE DEF u, f
  <2>5. index \in Nat /\ index <= f
    BY <2>2, <2>3
  <2>6. /\ KeeperSize(k) = f /\ UsedCount(k) = u
        /\ \A i \in Nat : IsUsed(k, i) <=> i < u
    BY <2>2, DenseIsKeeper
  <2>7. /\ KeeperInv(l) /\ KeeperSize(l) = f /\ UsedCount(l) = index
        /\ \A i \in Nat : IsUsed(l, i) <=> i < index
    BY <2>2, <2>4, <2>5, DenseIsKeeper
  <2> QED
    BY <2>2, <2>3, <2>6, <2>7 DEF Keeps, In
<1>2. CASE ~(k.dense /\ DenseCanFree(k, index, n))
  <2> DEFINE a == AsList(k)
  <2>1. l = ListFreeVector(a, index, n)
    BY <1>2 DEF FreeVector
  <2>2. /\ ListInv(a) /\ KeeperSize(a) = KeeperSize(k) /\ UsedCount(a) = UsedCount(k)
        /\ \A i \in Nat : IsUsed(a, i) <=> IsUsed(k, i)
    <3> HIDE DEF a
    <3> QED
      BY AsListKeeps DEF a
  <2> HIDE DEF a
  <2>3. /\ KeeperSize(a) = a.size /\ UsedCount(a) = a.used_count
        /\ \A i \in Nat : IsUsed(a, i) <=> i < a.size /\ ~a.is_free[i]
        /\ a.size \in Nat
    BY <2>2, ListIsKeeper
  <2>4. \A i \in index..(index + n - 1) : ~a.is_free[i]
    <3> SUFFICES ASSUME NEW i \in index..(index + n - 1)
                 PROVE  ~a.is_free[i]
      OBVIOUS
    <3>1. i \in Nat
      OBVIOUS
    <3> QED
      BY <2>2, <2>3, <3>1
  <2>5. /\ ListInv(l) /\ l.size = a.size /\ l.used_count = a.used_count - n
        /\ \A x \in Places(a.size) : l.is_free[x] <=> a.is_free[x] \/ In(x, index, n)
    <3>1. index + n <= a.size
      BY <2>2, <2>3
    <3> QED
      BY <2>1, <2>2, <2>4, <3>1, ListFreeVectorInv
  <2>6. /\ KeeperInv(l) /\ KeeperSize(l) = l.size /\ UsedCount(l) = l.used_count
        /\ \A i \in Nat : IsUsed(l, i) <=> i < l.size /\ ~l.is_free[i]
    BY <2>5, ListIsKeeper
  <2>7. ASSUME NEW i \in Nat
        PROVE  IsUsed(l, i) <=> IsUsed(k, i) /\ ~In(i, index, n)
    <3>1. i < a.size => i \in Places(a.size)
      BY <2>3 DEF Places, used_list
    <3> QED
      BY <2>2, <2>3, <2>5, <2>6, <3>1
  <2> QED
    BY <2>2, <2>3, <2>5, <2>6, <2>7 DEF Keeps
<1> QED
  BY <1>1, <1>2

-----------------------------------------------------------------------------
(***************************************************************************)
(* The walks.                                                              *)
(***************************************************************************)

Forward(k, head, n) == Walk(k, GetNext, head, n)

Backward(k, head, n) == Walk(k, GetPrevious, head, n)

(* A sequence that follows the links is the walk. *)
LEMMA ForwardIs ==
  ASSUME NEW k, NEW head, NEW n \in Nat, NEW c, c[0] = head,
         \A i \in 0..(n - 1) : c[i + 1] = GetNext(k, c[i])
  PROVE  \A i \in 1..n : Forward(k, head, n)[i] = c[i]
<1> DEFINE Is(w) == w = [i \in 0..n |-> IF i = 0 THEN head ELSE GetNext(k, w[i - 1])]
           d == [i \in 0..n |-> c[i]]
           w == CHOOSE x : Is(x)
<1>1. \A i \in 0..n : d[i] = IF i = 0 THEN head ELSE GetNext(k, d[i - 1])
  <2> SUFFICES ASSUME NEW i \in 0..n
               PROVE  d[i] = IF i = 0 THEN head ELSE GetNext(k, d[i - 1])
    OBVIOUS
  <2>1. CASE i = 0
    BY <2>1
  <2>2. CASE i # 0
    <3>1. i - 1 \in 0..(n - 1) /\ i - 1 + 1 = i /\ d[i - 1] = c[i - 1] /\ d[i] = c[i]
      BY <2>2
    <3>2. c[i] = GetNext(k, c[i - 1])
      BY <3>1
    <3> QED
      BY <2>2, <3>1, <3>2
  <2> QED
    BY <2>1, <2>2
<1>2. d = [i \in 0..n |-> d[i]]
  OBVIOUS
<1> HIDE DEF d
<1>3. Is(d)
  BY <1>1, <1>2
<1>4. Is(w)
  BY <1>3
<1>5. Forward(k, head, n) = [i \in 1..n |-> w[i]]
  BY DEF Forward, Walk
<1> HIDE DEF w
<1> DEFINE S == {i \in 0..n : w[i] = d[i]}
<1>6. \A i \in 0..n : w[i] = IF i = 0 THEN head ELSE GetNext(k, w[i - 1])
  BY <1>4
<1>7. 0 \in S
  <2>1. 0 \in 0..n
    OBVIOUS
  <2> QED
    BY <1>1, <1>6, <2>1
<1>8. ASSUME NEW i \in 0..(n - 1), i \in S
      PROVE  i + 1 \in S
  <2>1. i + 1 \in 0..n /\ i + 1 # 0 /\ i + 1 - 1 = i
    OBVIOUS
  <2>2. w[i] = d[i]
    BY <1>8
  <2>3. w[i + 1] = GetNext(k, w[i])
    BY <1>6, <2>1
  <2>4. d[i + 1] = GetNext(k, d[i])
    BY <1>1, <2>1
  <2> QED
    BY <2>1, <2>2, <2>3, <2>4
<1> HIDE DEF S
<1>9. \A i \in 0..n : i \in S
  BY <1>7, <1>8, InductionUpTo
<1>10. \A i \in 1..n : i \in 0..n /\ w[i] = d[i] /\ d[i] = c[i]
  BY <1>9 DEF S, d
<1> QED
  BY <1>5, <1>10

(* Walking backward from the head follows the tour in reverse order. *)
LEMMA BackwardIs ==
  ASSUME NEW k, NEW head, NEW n \in Nat, NEW c, c[0] = head,
         \A i \in 0..(n - 1) : c[i + 1] = GetPrevious(k, c[i])
  PROVE  \A i \in 1..n : Backward(k, head, n)[i] = c[i]
<1> DEFINE Is(w) == w = [i \in 0..n |-> IF i = 0 THEN head ELSE GetPrevious(k, w[i - 1])]
           d == [i \in 0..n |-> c[i]]
           w == CHOOSE x : Is(x)
<1>1. \A i \in 0..n : d[i] = IF i = 0 THEN head ELSE GetPrevious(k, d[i - 1])
  <2> SUFFICES ASSUME NEW i \in 0..n
               PROVE  d[i] = IF i = 0 THEN head ELSE GetPrevious(k, d[i - 1])
    OBVIOUS
  <2>1. CASE i = 0
    BY <2>1
  <2>2. CASE i # 0
    <3>1. i - 1 \in 0..(n - 1) /\ i - 1 + 1 = i /\ d[i - 1] = c[i - 1] /\ d[i] = c[i]
      BY <2>2
    <3>2. c[i] = GetPrevious(k, c[i - 1])
      BY <3>1
    <3> QED
      BY <2>2, <3>1, <3>2
  <2> QED
    BY <2>1, <2>2
<1>2. d = [i \in 0..n |-> d[i]]
  OBVIOUS
<1> HIDE DEF d
<1>3. Is(d)
  BY <1>1, <1>2
<1>4. Is(w)
  BY <1>3
<1>5. Backward(k, head, n) = [i \in 1..n |-> w[i]]
  BY DEF Backward, Walk
<1> HIDE DEF w
<1> DEFINE S == {i \in 0..n : w[i] = d[i]}
<1>6. \A i \in 0..n : w[i] = IF i = 0 THEN head ELSE GetPrevious(k, w[i - 1])
  BY <1>4
<1>7. 0 \in S
  <2>1. 0 \in 0..n
    OBVIOUS
  <2> QED
    BY <1>1, <1>6, <2>1
<1>8. ASSUME NEW i \in 0..(n - 1), i \in S
      PROVE  i + 1 \in S
  <2>1. i + 1 \in 0..n /\ i + 1 # 0 /\ i + 1 - 1 = i
    OBVIOUS
  <2>2. w[i] = d[i]
    BY <1>8
  <2>3. w[i + 1] = GetPrevious(k, w[i])
    BY <1>6, <2>1
  <2>4. d[i + 1] = GetPrevious(k, d[i])
    BY <1>1, <2>1
  <2> QED
    BY <2>1, <2>2, <2>3, <2>4
<1> HIDE DEF S
<1>9. \A i \in 0..n : i \in S
  BY <1>7, <1>8, InductionUpTo
<1>10. \A i \in 1..n : i \in 0..n /\ w[i] = d[i] /\ d[i] = c[i]
  BY <1>9 DEF S, d
<1> QED
  BY <1>5, <1>10

(* A tour, for the functions that GetNext and GetPrevious are *)
Tour(k, h, n, w) ==
  /\ n \in Nat
  /\ w[0] = h /\ w[n + 1] = h
  /\ \A i \in 0..n : GetNext(k, w[i]) = w[i + 1] /\ GetPrevious(k, w[i + 1]) = w[i]

(* A tour of the right records is a sound list. *)
LEMMA TourIsSound ==
  ASSUME NEW k, NEW h, NEW n, NEW w, Tour(k, h, n, w),
         NEW records, records = {w[i] : i \in 1..n}
  PROVE  ListIsSound(k, h, n, records)
<1>0. n \in Nat /\ n + 1 \in Nat
  BY DEF Tour
<1>1. \A i \in 1..(n + 1) : Forward(k, h, n + 1)[i] = w[i]
  <2>1. w[0] = h /\ \A i \in 0..((n + 1) - 1) : w[i + 1] = GetNext(k, w[i])
    BY <1>0 DEF Tour
  <2> QED
    BY <1>0, <2>1, ForwardIs
<1> DEFINE b == [i \in 0..(n + 1) |-> w[n + 1 - i]]
<1>2. \A i \in 1..(n + 1) : Backward(k, h, n + 1)[i] = b[i]
  <2>1. b[0] = h
    BY <1>0 DEF Tour
  <2>2. ASSUME NEW i \in 0..((n + 1) - 1)
        PROVE  b[i + 1] = GetPrevious(k, b[i])
    <3>1. /\ n - i \in 0..n /\ i \in 0..(n + 1) /\ i + 1 \in 0..(n + 1)
          /\ n + 1 - (i + 1) = n - i /\ n + 1 - i = (n - i) + 1
      BY <1>0
    <3>2. b[i] = w[(n - i) + 1] /\ b[i + 1] = w[n - i]
      BY <3>1
    <3>3. GetPrevious(k, w[(n - i) + 1]) = w[n - i]
      BY <3>1 DEF Tour
    <3> QED
      BY <3>2, <3>3
  <2> HIDE DEF b
  <2> QED
    BY <1>0, <2>1, <2>2, BackwardIs
<1>3. {Forward(k, h, n + 1)[i] : i \in 1..n} = {w[i] : i \in 1..n}
  <2>1. \A i \in 1..n : Forward(k, h, n + 1)[i] = w[i]
    BY <1>0, <1>1
  <2> QED
    BY <2>1
<1>4. Forward(k, h, n + 1)[n + 1] = h
  <2>1. n + 1 \in 1..(n + 1)
    BY <1>0
  <2> QED
    BY <1>1, <2>1 DEF Tour
<1>5. Backward(k, h, n + 1)[n + 1] = h
  <2>1. n + 1 \in 1..(n + 1) /\ n + 1 - (n + 1) = 0 /\ n + 1 \in 0..(n + 1)
    BY <1>0
  <2>2. b[n + 1] = w[0]
    BY <2>1
  <2> QED
    BY <1>2, <2>1, <2>2 DEF Tour
<1>6. \A i \in 1..n : Backward(k, h, n + 1)[i] = Forward(k, h, n + 1)[n + 1 - i]
  <2> SUFFICES ASSUME NEW i \in 1..n
               PROVE  Backward(k, h, n + 1)[i] = Forward(k, h, n + 1)[n + 1 - i]
    OBVIOUS
  <2>1. i \in 1..(n + 1) /\ i \in 0..(n + 1) /\ n + 1 - i \in 1..(n + 1)
    BY <1>0
  <2>2. b[i] = w[n + 1 - i]
    BY <2>1
  <2> QED
    BY <1>1, <1>2, <2>1, <2>2
<1> QED
  BY <1>3, <1>4, <1>5, <1>6 DEF ListIsSound, Forward, Backward

(* The tour of a dense list: the head, then n records from first *)
DenseTour(h, first, n) ==
  [i \in 0..(n + 1) |-> IF i = 0 \/ i = n + 1 THEN h ELSE first + i - 1]

(* The tours of a compact keeper *)
LEMMA DenseTours ==
  ASSUME NEW u \in Nat, NEW f \in Nat, u <= f, NEW k, k = Dense(u, f)
  PROVE  /\ Tour(k, used_list, u, DenseTour(used_list, 0, u))
         /\ Tour(k, free_list, f - u, DenseTour(free_list, u, f - u))
<1>1. /\ \A x : GetNext(k, x) = DenseNext(k, x) /\ GetPrevious(k, x) = DensePrevious(k, x)
      /\ k.used_size = u /\ k.free_size = f
  BY DEF Dense, GetNext, GetPrevious
<1>2. /\ GetNext(k, used_list) = IF u = 0 THEN used_list ELSE 0
      /\ GetPrevious(k, used_list) = IF u = 0 THEN used_list ELSE u - 1
  BY <1>1 DEF DenseNext, DensePrevious, used_list, free_list
<1>3. /\ GetNext(k, free_list) = IF u = f THEN free_list ELSE u
      /\ GetPrevious(k, free_list) = IF u = f THEN free_list ELSE f - 1
  BY <1>1 DEF DenseNext, DensePrevious, used_list, free_list
<1>4. ASSUME NEW x \in Nat
      PROVE  /\ GetNext(k, x) = IF x + 1 = u THEN used_list
                                ELSE IF x + 1 = f THEN free_list ELSE x + 1
             /\ GetPrevious(k, x) = IF x = u THEN free_list
                                    ELSE IF x = 0 THEN used_list ELSE x - 1
  BY <1>1 DEF DenseNext, DensePrevious, used_list, free_list
<1>5. Tour(k, used_list, u, DenseTour(used_list, 0, u))
  <2> DEFINE w == DenseTour(used_list, 0, u)
  <2>1. \A i \in 0..(u + 1) : w[i] = IF i = 0 \/ i = u + 1 THEN used_list ELSE i - 1
    BY DEF DenseTour
  <2> HIDE DEF w
  <2>2. 0 \in 0..(u + 1) /\ u + 1 \in 0..(u + 1)
    OBVIOUS
  <2>3. ASSUME NEW i \in 0..u
        PROVE  GetNext(k, w[i]) = w[i + 1] /\ GetPrevious(k, w[i + 1]) = w[i]
    <3>1. i \in 0..(u + 1) /\ i + 1 \in 0..(u + 1) /\ i + 1 # 0 /\ i # u + 1
      OBVIOUS
    <3>2. w[i] = IF i = 0 THEN used_list ELSE i - 1
      BY <2>1, <3>1
    <3>3. w[i + 1] = IF i = u THEN used_list ELSE i
      BY <2>1, <3>1
    <3>4. CASE i = 0
      BY <1>2, <1>4, <3>2, <3>3, <3>4
    <3>5. CASE i # 0
      <4>1. i - 1 \in Nat /\ i \in Nat /\ i - 1 + 1 = i
        BY <3>5
      <4>2. GetNext(k, i - 1) = IF i = u THEN used_list ELSE IF i = f THEN free_list ELSE i
        BY <1>4, <4>1
      <4>3. GetPrevious(k, i) = IF i = u THEN free_list ELSE i - 1
        BY <1>4, <3>5, <4>1
      <4> QED
        BY <1>2, <3>2, <3>3, <3>5, <4>2, <4>3
    <3> QED
      BY <3>4, <3>5
  <2>4. Tour(k, used_list, u, w)
    BY <2>1, <2>2, <2>3 DEF Tour
  <2> QED
    BY <2>4 DEF w
<1>6. Tour(k, free_list, f - u, DenseTour(free_list, u, f - u))
  <2> DEFINE n == f - u
             w == DenseTour(free_list, u, n)
  <2>0. n \in Nat
    OBVIOUS
  <2>1. \A i \in 0..(n + 1) : w[i] = IF i = 0 \/ i = n + 1 THEN free_list ELSE u + i - 1
    BY DEF DenseTour
  <2> HIDE DEF w
  <2>2. 0 \in 0..(n + 1) /\ n + 1 \in 0..(n + 1)
    BY <2>0
  <2>3. ASSUME NEW i \in 0..n
        PROVE  GetNext(k, w[i]) = w[i + 1] /\ GetPrevious(k, w[i + 1]) = w[i]
    <3>1. i \in 0..(n + 1) /\ i + 1 \in 0..(n + 1) /\ i + 1 # 0 /\ i # n + 1
      BY <2>0
    <3>2. w[i] = IF i = 0 THEN free_list ELSE u + i - 1
      BY <2>1, <3>1
    <3>3. w[i + 1] = IF i = n THEN free_list ELSE u + i
      <4>1. i + 1 = n + 1 <=> i = n
        BY <2>0
      <4>2. w[i + 1] = IF i + 1 = n + 1 THEN free_list ELSE u + (i + 1) - 1
        BY <2>1, <3>1
      <4>3. u + (i + 1) - 1 = u + i
        OBVIOUS
      <4> QED
        BY <4>1, <4>2, <4>3
    <3>4. u + i \in Nat /\ GetPrevious(k, u + i) = IF i = 0 THEN free_list ELSE u + i - 1
      <4>1. GetPrevious(k, u + i) = IF u + i = u THEN free_list
                                    ELSE IF u + i = 0 THEN used_list ELSE u + i - 1
        BY <1>4
      <4> QED
        BY <4>1
    <3>5. i = n <=> u + i = f
      OBVIOUS
    <3>6. CASE i = 0
      <4>1. w[i] = free_list /\ w[i + 1] = IF u = f THEN free_list ELSE u
        BY <3>2, <3>3, <3>5, <3>6
      <4>2. GetPrevious(k, u) = free_list
        BY <3>4, <3>6
      <4> QED
        BY <1>3, <4>1, <4>2
    <3>7. CASE i # 0
      <4>1. u + i - 1 \in Nat /\ u + i - 1 + 1 = u + i /\ u + i # u
        BY <3>7
      <4>2. GetNext(k, u + i - 1) = IF u + i = f THEN free_list ELSE u + i
        BY <1>4, <4>1
      <4>3. GetNext(k, w[i]) = w[i + 1]
        BY <3>2, <3>3, <3>5, <3>7, <4>2
      <4>4. CASE i = n
        <5>1. GetPrevious(k, free_list) = u + i - 1
          BY <1>3, <3>5, <3>7, <4>4
        <5> QED
          BY <3>2, <3>3, <3>7, <4>3, <4>4, <5>1
      <4>5. CASE i # n
        BY <3>2, <3>3, <3>4, <3>7, <4>3, <4>5
      <4> QED
        BY <4>4, <4>5
    <3> QED
      BY <3>6, <3>7
  <2>4. Tour(k, free_list, n, w)
    BY <2>0, <2>1, <2>2, <2>3 DEF Tour
  <2> QED
    BY <2>4 DEF w
<1> QED
  BY <1>5, <1>6

(* The lists that a compact keeper computes are sound. *)
LEMMA DenseIsSound ==
  ASSUME NEW k, DenseInv(k)
  PROVE  KeeperIsSound(k)
<1> DEFINE u == k.used_size
           f == k.free_size
<1>1. u \in Nat /\ f \in Nat /\ u <= f /\ k = Dense(u, f)
  BY DenseIs
<1> HIDE DEF u, f
<1>2. /\ KeeperSize(k) = f /\ UsedCount(k) = u
      /\ \A i \in Nat : IsUsed(k, i) <=> i < u
  BY <1>1, DenseIsKeeper
<1> DEFINE v == DenseTour(used_list, 0, u)
           w == DenseTour(free_list, u, f - u)
<1>3. Tour(k, used_list, u, v) /\ Tour(k, free_list, f - u, w)
  BY <1>1, DenseTours
<1>4. IsUsed(k, 0) \in BOOLEAN /\ \A i : IsUsed(k, i) \in BOOLEAN
  BY <1>1 DEF IsUsed, Dense
<1>5. {v[i] : i \in 1..u} = Records(k, TRUE)
  <2>1. \A i \in 1..u : v[i] = i - 1
    BY <1>1 DEF DenseTour
  <2>2. Records(k, TRUE) = 0..(u - 1)
    BY <1>1, <1>2, <1>4 DEF Records
  <2>3. \A x \in 0..(u - 1) : x + 1 \in 1..u /\ x + 1 - 1 = x
    BY <1>1
  <2>4. \A i \in 1..u : i - 1 \in 0..(u - 1)
    BY <1>1
  <2> HIDE DEF v
  <2>5. \A x \in 0..(u - 1) : \E i \in 1..u : v[i] = x
    BY <2>1, <2>3
  <2>6. \A i \in 1..u : v[i] \in 0..(u - 1)
    BY <2>1, <2>4
  <2> QED
    BY <2>2, <2>5, <2>6
<1>6. {w[i] : i \in 1..(f - u)} = Records(k, FALSE)
  <2>1. \A i \in 1..(f - u) : w[i] = u + i - 1
    BY <1>1 DEF DenseTour
  <2>2. Records(k, FALSE) = u..(f - 1)
    BY <1>1, <1>2, <1>4 DEF Records
  <2>3. \A x \in u..(f - 1) : x - u + 1 \in 1..(f - u) /\ u + (x - u + 1) - 1 = x
    BY <1>1
  <2>4. \A i \in 1..(f - u) : u + i - 1 \in u..(f - 1)
    BY <1>1
  <2> HIDE DEF w
  <2> QED
    BY <2>1, <2>2, <2>3, <2>4
<1> HIDE DEF v, w
<1>7. ListIsSound(k, used_list, u, Records(k, TRUE))
  BY <1>3, <1>5, TourIsSound
<1>8. ListIsSound(k, free_list, f - u, Records(k, FALSE))
  BY <1>3, <1>6, TourIsSound
<1> QED
  BY <1>1, <1>2, <1>7, <1>8 DEF KeeperIsSound

(* The lists of a list keeper are sound. *)
LEMMA ListIsSoundKeeper ==
  ASSUME NEW k, ListInv(k)
  PROVE  KeeperIsSound(k)
<1> DEFINE s == k.size
           c == k.used_count
           n == k.size - k.used_count
<1>1. /\ s \in Nat /\ c \in Nat /\ c <= s /\ n \in Nat /\ k.dense = FALSE
      /\ k.is_free \in [Places(s) -> BOOLEAN]
  BY ListFields
<1>2. /\ ~k.is_free[used_list] /\ k.is_free[free_list]
      /\ \A x : x \in Places(s) <=> x = used_list \/ x = free_list \/ x \in 0..(s - 1)
  BY PlacesOf
<1>3. KeeperSize(k) = s /\ UsedCount(k) = c
  BY ListIsKeeper
<1>4. \A i \in 0..(s - 1) : IsUsed(k, i) = ~k.is_free[i]
  <2> SUFFICES ASSUME NEW i \in 0..(s - 1)
               PROVE  IsUsed(k, i) = ~k.is_free[i]
    OBVIOUS
  <2>1. IsUsed(k, i) = (i >= 0 /\ i < k.size /\ ~k.is_free[i])
    BY <1>1 DEF IsUsed, ListIsUsed
  <2> QED
    BY <1>1, <2>1
<1>5. PICK u, f :
        /\ TwoChains(s, k.next, k.previous, used_list, c, u, free_list, n, f)
        /\ \A y \in Places(s) : ~k.is_free[y] <=> \E i \in 0..c : u[i] = y
        /\ \A y \in Places(s) : k.is_free[y] <=> \E i \in 0..n : f[i] = y
        /\ \A i \in 0..c : u[i] \in Places(s)
        /\ \A i \in 0..n : f[i] \in Places(s)
        /\ u[0] = used_list /\ f[0] = free_list
  BY ListTours
<1> HIDE DEF s, c, n
<1>6. /\ Chain(s, k.next, k.previous, used_list, c, u)
      /\ Chain(s, k.next, k.previous, free_list, n, f)
  BY <1>5 DEF TwoChains
<1>7. \A x : GetNext(k, x) = k.next[x] /\ GetPrevious(k, x) = k.previous[x]
  BY <1>1 DEF GetNext, GetPrevious
<1>8. Tour(k, used_list, c, u) /\ Tour(k, free_list, n, f)
  BY <1>6, <1>7 DEF Chain, Tour
<1>9. {u[i] : i \in 1..c} = Records(k, TRUE)
  <2>1. ASSUME NEW i \in 1..c
        PROVE  u[i] \in Records(k, TRUE)
    <3>1. i \in 0..c /\ 0 \in 0..c /\ i # 0
      BY <1>1
    <3>2. u[i] # u[0]
      BY <1>6, <3>1 DEF Chain
    <3>3. u[i] \in Places(s) /\ ~k.is_free[u[i]]
      BY <1>5, <3>1
    <3>4. u[i] \in 0..(s - 1)
      BY <1>2, <1>5, <3>2, <3>3
    <3> QED
      BY <1>3, <1>4, <3>3, <3>4 DEF Records
  <2>2. ASSUME NEW x \in Records(k, TRUE)
        PROVE  \E i \in 1..c : u[i] = x
    <3>1. x \in 0..(s - 1) /\ ~k.is_free[x] /\ x \in Places(s)
      BY <1>2, <1>3, <1>4 DEF Records
    <3>2. PICK i \in 0..c : u[i] = x
      BY <1>5, <3>1
    <3>3. i # 0
      BY <1>1, <1>5, <3>1, <3>2 DEF used_list
    <3>4. i \in 1..c
      BY <1>1, <3>2, <3>3
    <3> QED
      BY <3>2, <3>4
  <2> QED
    BY <2>1, <2>2
<1>10. {f[i] : i \in 1..n} = Records(k, FALSE)
  <2>1. ASSUME NEW i \in 1..n
        PROVE  f[i] \in Records(k, FALSE)
    <3>1. i \in 0..n /\ 0 \in 0..n /\ i # 0
      BY <1>1
    <3>2. f[i] # f[0]
      BY <1>6, <3>1 DEF Chain
    <3>3. f[i] \in Places(s) /\ k.is_free[f[i]]
      BY <1>5, <3>1
    <3>4. f[i] \in 0..(s - 1)
      BY <1>2, <1>5, <3>2, <3>3
    <3> QED
      BY <1>1, <1>3, <1>4, <3>3, <3>4 DEF Records
  <2>2. ASSUME NEW x \in Records(k, FALSE)
        PROVE  \E i \in 1..n : f[i] = x
    <3>1. x \in 0..(s - 1) /\ k.is_free[x] /\ x \in Places(s)
      BY <1>2, <1>3, <1>4 DEF Records
    <3>2. PICK i \in 0..n : f[i] = x
      BY <1>5, <3>1
    <3>3. i # 0
      BY <1>1, <1>5, <3>1, <3>2 DEF free_list
    <3>4. i \in 1..n
      BY <1>1, <3>2, <3>3
    <3> QED
      BY <3>2, <3>4
  <2> QED
    BY <2>1, <2>2
<1>11. ListIsSound(k, used_list, c, Records(k, TRUE))
  BY <1>8, <1>9, TourIsSound
<1>12. ListIsSound(k, free_list, n, Records(k, FALSE))
  BY <1>8, <1>10, TourIsSound
<1>13. n = s - c
  BY DEF n, s, c
<1> QED
  BY <1>1, <1>3, <1>11, <1>12, <1>13 DEF KeeperIsSound

(* The two lists of a keeper are what the records say, forward and backward *)
(* (Freedom_Keeper.h).                                                      *)
THEOREM KeepersAreSound == \A k : KeeperInv(k) => KeeperIsSound(k)
BY DenseIsSound, ListIsSoundKeeper DEF KeeperInv

(* The first free record is free, if there is one. *)
LEMMA FirstFree ==
  ASSUME NEW k, KeeperInv(k), NEW x, x = GetNext(k, free_list)
  PROVE  IF UsedCount(k) = KeeperSize(k) THEN x = free_list
         ELSE x \in 0..(KeeperSize(k) - 1) /\ ~IsUsed(k, x)
<1>1. CASE DenseInv(k)
  <2> DEFINE u == k.used_size
             f == k.free_size
  <2>1. u \in Nat /\ f \in Nat /\ u <= f /\ k = Dense(u, f)
    BY <1>1, DenseIs
  <2>2. x = IF u = f THEN free_list ELSE u
    BY <2>1 DEF Dense, GetNext, DenseNext, used_list, free_list
  <2> HIDE DEF u, f
  <2>3. /\ KeeperSize(k) = f /\ UsedCount(k) = u
        /\ \A i \in Nat : IsUsed(k, i) <=> i < u
    BY <2>1, DenseIsKeeper
  <2> QED
    BY <2>1, <2>2, <2>3
<1>2. CASE ListInv(k)
  <2> DEFINE s == k.size
             c == k.used_count
             n == k.size - k.used_count
  <2>1. s \in Nat /\ c \in Nat /\ n \in Nat /\ n = s - c /\ k.dense = FALSE
    BY <1>2, ListFields
  <2>2. /\ KeeperSize(k) = s /\ UsedCount(k) = c
        /\ \A i \in Nat : IsUsed(k, i) <=> i < s /\ ~k.is_free[i]
    BY <1>2, ListIsKeeper
  <2>3. PICK u, f :
          /\ TwoChains(s, k.next, k.previous, used_list, c, u, free_list, n, f)
          /\ \A y \in Places(s) : ~k.is_free[y] <=> \E i \in 0..c : u[i] = y
          /\ \A y \in Places(s) : k.is_free[y] <=> \E i \in 0..n : f[i] = y
          /\ \A i \in 0..c : u[i] \in Places(s)
          /\ \A i \in 0..n : f[i] \in Places(s)
          /\ u[0] = used_list /\ f[0] = free_list
    BY <1>2, ListTours
  <2>4. /\ used_list \in Places(s) /\ ~k.is_free[used_list]
        /\ \A y : y \in Places(s) <=> y = used_list \/ y = free_list \/ y \in 0..(s - 1)
    BY <1>2, PlacesOf
  <2> HIDE DEF s, c, n
  <2>5. Chain(s, k.next, k.previous, free_list, n, f)
    BY <2>3 DEF TwoChains
  <2>6. x = f[1]
    <3>1. x = k.next[f[0]]
      BY <2>1, <2>3 DEF GetNext
    <3>2. 0 \in 0..n /\ 0 + 1 = 1
      BY <2>1
    <3> QED
      BY <2>5, <3>1, <3>2 DEF Chain
  <2>7. CASE n = 0
    BY <2>1, <2>2, <2>5, <2>6, <2>7 DEF Chain
  <2>8. CASE n # 0
    <3>1. 1 \in 0..n /\ 0 \in 0..n /\ c # s
      BY <2>1, <2>8
    <3>2. f[1] \in Places(s) /\ k.is_free[f[1]] /\ f[1] # f[0]
      BY <2>3, <2>5, <3>1 DEF Chain
    <3>3. x \in 0..(s - 1)
      BY <2>3, <2>4, <2>6, <3>2
    <3> QED
      BY <2>2, <2>6, <3>1, <3>2, <3>3
  <2> QED
    BY <2>7, <2>8
<1> QED
  BY <1>1, <1>2 DEF KeeperInv

(* get_free_record returns a record that is not used, and a keeper that has *)
(* it: a database that inserts there overwrites nothing.                    *)
THEOREM GetFreeRecordIsFree ==
  ASSUME NEW k, KeeperInv(k), NEW l, l = GetFreeRecord(k).keeper,
         NEW r, r = GetFreeRecord(k).record
  PROVE  /\ KeeperInv(l) /\ UsedCount(l) = UsedCount(k) /\ KeeperSize(k) <= KeeperSize(l)
         /\ \A i \in Nat : IsUsed(l, i) <=> IsUsed(k, i)
         /\ r \in 0..(KeeperSize(l) - 1) /\ ~IsUsed(l, r)
<1>1. l = IF GetNext(k, free_list) = free_list THEN PushBack(k) ELSE k
  BY DEF GetFreeRecord
<1>2. r = GetNext(l, free_list)
  BY <1>1 DEF GetFreeRecord
<1>3. KeeperSize(k) \in Nat /\ UsedCount(k) \in Nat /\ UsedCount(k) <= KeeperSize(k)
  BY KeeperTypes
<1>4. CASE GetNext(k, free_list) = free_list
  <2>1. l = PushBack(k)
    BY <1>1, <1>4
  <2>2. /\ KeeperInv(l) /\ KeeperSize(l) = KeeperSize(k) + 1 /\ UsedCount(l) = UsedCount(k)
        /\ \A i \in Nat : IsUsed(l, i) <=> IsUsed(k, i)
    BY <2>1, PushBackKeeps DEF Keeps
  <2>3. UsedCount(l) # KeeperSize(l)
    BY <1>3, <2>2
  <2>4. r \in 0..(KeeperSize(l) - 1) /\ ~IsUsed(l, r)
    BY <1>2, <2>2, <2>3, FirstFree
  <2> QED
    BY <1>3, <2>2, <2>4
<1>5. CASE GetNext(k, free_list) # free_list
  <2>1. l = k
    BY <1>1, <1>5
  <2>2. UsedCount(l) # KeeperSize(l)
    BY <1>5, <2>1, FirstFree
  <2>3. r \in 0..(KeeperSize(l) - 1) /\ ~IsUsed(l, r)
    BY <1>2, <2>1, <2>2, FirstFree
  <2> QED
    BY <1>3, <2>1, <2>3
<1> QED
  BY <1>4, <1>5

============================================================================
