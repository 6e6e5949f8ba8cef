-------------------------- MODULE GeneratedProofs --------------------------
(***************************************************************************)
(* Theorems about GeneratedClients, for every schema and index that joedbc *)
(* accepts, any number of programs and versions, and journals, tables and  *)
(* transactions of any length: the indexes of the generated database are   *)
(* sound, and what a program writes to a file is what the others read.     *)
(***************************************************************************)
EXTENDS GeneratedClients, FreedomKeeperProofs

-----------------------------------------------------------------------------
(***************************************************************************)
(* Sequences of calls.                                                     *)
(***************************************************************************)

(* A sequence followed by another one *)
LEMMA ConcatIs ==
  ASSUME NEW X, NEW s \in Seq(X), NEW t \in Seq(X)
  PROVE  /\ s \o t \in Seq(X) /\ Len(s \o t) = Len(s) + Len(t)
         /\ Len(s) \in Nat /\ Len(t) \in Nat
         /\ \A i \in 1..(Len(s) + Len(t)) :
              (s \o t)[i] = IF i <= Len(s) THEN s[i] ELSE t[i - Len(s)]
OBVIOUS

(* Two sequences of the same elements *)
LEMMA SameSeq ==
  ASSUME NEW X, NEW s \in Seq(X), NEW t \in Seq(X), Len(s) = Len(t),
         \A i \in 1..Len(s) : s[i] = t[i]
  PROVE  s = t
OBVIOUS

(* A list of calls *)
IsCalls(os) == os \in Seq(Range(os)) /\ \A i \in 1..Len(os) : IsCall(os[i])

(* A sequence of calls is a list of calls. *)
LEMMA CallsOf ==
  ASSUME NEW X, NEW os \in Seq(X), \A i \in 1..Len(os) : IsCall(os[i])
  PROVE  IsCalls(os)
<1>1. /\ Len(os) \in Nat
      /\ os = [i \in 1..Len(os) |-> os[i]] /\ DOMAIN os = 1..Len(os)
  OBVIOUS
<1>2. \A i \in 1..Len(os) : os[i] \in Range(os)
  BY <1>1 DEF Range
<1>3. os \in [1..Len(os) -> Range(os)]
  BY <1>1, <1>2
<1>4. os \in Seq(Range(os))
  BY <1>1, <1>3
<1> QED
  BY <1>4 DEF IsCalls

(* The parts of a list of calls *)
LEMMA CallsLen ==
  ASSUME NEW os, IsCalls(os)
  PROVE  Len(os) \in Nat /\ os \in Seq(Range(os)) /\ \A i \in 1..Len(os) : IsCall(os[i])
BY DEF IsCalls

(* One call is a list of calls. *)
LEMMA OneCall ==
  ASSUME NEW o, IsCall(o)
  PROVE  IsCalls(<<o>>)
<1> DEFINE s == <<o>>
<1>1. s \in Seq({o}) /\ Len(s) = 1 /\ s[1] = o
  OBVIOUS
<1>2. \A i \in 1..Len(s) : IsCall(s[i])
  BY <1>1
<1> HIDE DEF s
<1>3. IsCalls(s)
  BY <1>1, <1>2, CallsOf
<1> QED
  BY <1>3 DEF s

(* A list of calls followed by another one *)
LEMMA CallsConcat ==
  ASSUME NEW s, NEW t, IsCalls(s), IsCalls(t)
  PROVE  IsCalls(s \o t)
<1> DEFINE X == Range(s) \union Range(t)
<1>1. s \in Seq(X) /\ t \in Seq(X) /\ Len(s) \in Nat /\ Len(t) \in Nat
  <2>1. s \in Seq(Range(s)) /\ t \in Seq(Range(t))
    BY DEF IsCalls
  <2> QED
    BY <2>1
<1> HIDE DEF X
<1>2. /\ s \o t \in Seq(X) /\ Len(s \o t) = Len(s) + Len(t)
      /\ \A i \in 1..(Len(s) + Len(t)) :
           (s \o t)[i] = IF i <= Len(s) THEN s[i] ELSE t[i - Len(s)]
  BY <1>1
<1>3. ASSUME NEW i \in 1..Len(s \o t)
      PROVE  IsCall((s \o t)[i])
  <2>1. CASE i <= Len(s)
    <3>1. i \in 1..Len(s) /\ (s \o t)[i] = s[i]
      BY <1>1, <1>2, <2>1
    <3> QED
      BY <3>1 DEF IsCalls
  <2>2. CASE ~(i <= Len(s))
    <3>1. i - Len(s) \in 1..Len(t) /\ (s \o t)[i] = t[i - Len(s)]
      BY <1>1, <1>2, <2>2
    <3> QED
      BY <3>1 DEF IsCalls
  <2> QED
    BY <2>1, <2>2
<1> QED
  BY <1>2, <1>3, CallsOf

(* The first calls of a list *)
LEMMA CallsPrefix ==
  ASSUME NEW os, IsCalls(os), NEW n \in 0..Len(os)
  PROVE  /\ IsCalls(SubSeq(os, 1, n)) /\ Len(SubSeq(os, 1, n)) = n
         /\ \A i \in 1..n : SubSeq(os, 1, n)[i] = os[i]
<1>1. os \in Seq(Range(os)) /\ Len(os) \in Nat
  BY DEF IsCalls
<1> DEFINE X == Range(os)
           s == SubSeq(os, 1, n)
<1> HIDE DEF X
<1>2. s \in Seq(X) /\ Len(s) = n /\ \A i \in 1..n : s[i] = os[i]
  BY <1>1 DEF X
<1>3. \A i \in 1..n : i \in 1..Len(os)
  BY <1>1
<1> HIDE DEF s
<1>4. \A i \in 1..Len(s) : IsCall(s[i])
  BY <1>2, <1>3 DEF IsCalls
<1>5. IsCalls(s)
  BY <1>2, <1>4, CallsOf
<1> QED
  BY <1>2, <1>5 DEF s

(* Two lists of the same calls *)
LEMMA CallsSame ==
  ASSUME NEW s, NEW t, IsCalls(s), IsCalls(t), Len(s) = Len(t), \A i \in 1..Len(s) : s[i] = t[i]
  PROVE  s = t
<1>1. s \in Seq(Range(s)) /\ t \in Seq(Range(t))
  BY DEF IsCalls
<1>2. /\ DOMAIN s = 1..Len(s) /\ DOMAIN t = 1..Len(t)
      /\ s = [i \in DOMAIN s |-> s[i]] /\ t = [i \in DOMAIN t |-> t[i]]
  BY <1>1
<1> QED
  BY <1>2

(* What comes after the first calls of a list *)
LEMMA CallsRest ==
  ASSUME NEW os, IsCalls(os), NEW n \in 0..Len(os)
  PROVE  /\ IsCalls(SubSeq(os, n + 1, Len(os)))
         /\ SubSeq(os, 1, n) \o SubSeq(os, n + 1, Len(os)) = os
<1> DEFINE X == Range(os)
           l == Len(os)
           s == SubSeq(os, 1, n)
           t == SubSeq(os, n + 1, l)
<1>1. os \in Seq(X) /\ l \in Nat /\ n \in Nat /\ n <= l
  BY DEF IsCalls
<1> HIDE DEF X, l
<1>2. s \in Seq(X) /\ Len(s) = n /\ \A i \in 1..n : s[i] = os[i]
  <2>1. Len(os) = l
    BY DEF l
  <2> QED
    BY <1>1, <2>1
<1>3. t \in Seq(X) /\ Len(t) = l - n /\ \A i \in 1..(l - n) : t[i] = os[n + i]
  <2>1. Len(os) = l
    BY DEF l
  <2>2. \A i \in (n + 1)..l : os[i] \in X
    BY <1>1, <2>1
  <2>3. CASE n + 1 <= l
    BY <1>1, <2>1, <2>2, <2>3
  <2>4. CASE ~(n + 1 <= l)
    <3>1. n = l
      BY <1>1, <2>4
    <3> QED
      BY <1>1, <2>1, <3>1
  <2> QED
    BY <2>3, <2>4
<1> HIDE DEF s, t
<1>4. ASSUME NEW i \in 1..Len(t)
      PROVE  IsCall(t[i])
  <2>1. n + i \in 1..l /\ t[i] = os[n + i]
    BY <1>1, <1>3
  <2> QED
    BY <2>1 DEF IsCalls, l
<1>5. IsCalls(t)
  BY <1>3, <1>4, CallsOf
<1>6. s \o t = os
  <2>0. /\ s \o t \in Seq(X) /\ Len(s \o t) = Len(s) + Len(t)
        /\ \A i \in 1..(Len(s) + Len(t)) :
             (s \o t)[i] = IF i <= Len(s) THEN s[i] ELSE t[i - Len(s)]
    BY <1>2, <1>3, ConcatIs
  <2>1. /\ s \o t \in Seq(X) /\ Len(s \o t) = n + (l - n)
        /\ \A i \in 1..(n + (l - n)) : (s \o t)[i] = IF i <= n THEN s[i] ELSE t[i - n]
    BY <1>2, <1>3, <2>0
  <2>2. Len(s \o t) = Len(os)
    BY <1>1, <2>1 DEF l
  <2>3. ASSUME NEW i \in 1..l
        PROVE  (s \o t)[i] = os[i]
    <3>1. CASE i <= n
      BY <1>1, <1>2, <2>1, <3>1
    <3>2. CASE ~(i <= n)
      <4>1. i - n \in 1..(l - n) /\ n + (i - n) = i
        BY <1>1, <3>2
      <4> QED
        BY <1>1, <1>3, <2>1, <3>2, <4>1
    <3> QED
      BY <3>1, <3>2
  <2>4. \A i \in 1..Len(s \o t) : (s \o t)[i] = os[i]
    BY <2>2, <2>3 DEF l
  <2>5. s \o t \in Seq(X)
    BY <2>1
  <2> QED
    BY <1>1, <2>2, <2>4, <2>5, SameSeq
<1> QED
  BY <1>5, <1>6 DEF s, t, l

(* The first calls of a list that has grown *)
LEMMA CallsPrefixConcat ==
  ASSUME NEW s, NEW t, IsCalls(s), IsCalls(t), NEW n \in 0..Len(s)
  PROVE  SubSeq(s \o t, 1, n) = SubSeq(s, 1, n) /\ Len(s \o t) = Len(s) + Len(t)
<1> DEFINE u == s \o t
<1>1. /\ Len(s) \in Nat /\ Len(t) \in Nat /\ Len(u) = Len(s) + Len(t)
      /\ \A i \in 1..(Len(s) + Len(t)) : u[i] = IF i <= Len(s) THEN s[i] ELSE t[i - Len(s)]
  <2> DEFINE X == Range(s) \union Range(t)
  <2>1. s \in Seq(X) /\ t \in Seq(X)
    <3>1. s \in Seq(Range(s)) /\ t \in Seq(Range(t))
      BY DEF IsCalls
    <3> QED
      BY <3>1
  <2> HIDE DEF X
  <2> QED
    BY <2>1
<1>2. IsCalls(u)
  BY CallsConcat
<1> HIDE DEF u
<1>3. n \in 0..Len(u)
  BY <1>1
<1>4. /\ IsCalls(SubSeq(u, 1, n)) /\ Len(SubSeq(u, 1, n)) = n
      /\ \A i \in 1..n : SubSeq(u, 1, n)[i] = u[i]
  BY <1>2, <1>3, CallsPrefix
<1>5. /\ IsCalls(SubSeq(s, 1, n)) /\ Len(SubSeq(s, 1, n)) = n
      /\ \A i \in 1..n : SubSeq(s, 1, n)[i] = s[i]
  BY CallsPrefix
<1>6. \A i \in 1..n : SubSeq(u, 1, n)[i] = SubSeq(s, 1, n)[i]
  BY <1>1, <1>4, <1>5
<1> QED
  BY <1>1, <1>4, <1>5, <1>6, CallsSame DEF u

-----------------------------------------------------------------------------
(***************************************************************************)
(* The recursive functions, step by step.                                  *)
(***************************************************************************)

Replays(d, a, s) ==
  /\ d[0] = a /\ d[Len(s)] = Replayed(a, s)
  /\ \A i \in 0..(Len(s) - 1) : d[i + 1] = Executed(d[i], s[i + 1])

(* The databases that a replay goes through *)
LEMMA ReplayedSteps ==
  ASSUME NEW a, NEW s, Len(s) \in Nat
  PROVE  \E d : Replays(d, a, s)
<1> DEFINE m == Len(s)
           Is(g, j) == g = [i \in 0..j |-> IF i = 0 THEN a ELSE Executed(g[i - 1], s[i])]
           S == {j \in 0..m : \E g : Is(g, j)}
<1> HIDE DEF m
<1>0. m \in Nat
  BY DEF m
<1>1. 0 \in S
  <2>1. Is([i \in 0..0 |-> a], 0)
    OBVIOUS
  <2>2. \E g : Is(g, 0)
    BY <2>1
  <2> HIDE DEF Is
  <2> QED
    BY <1>0, <2>2
<1>2. ASSUME NEW j \in 0..(m - 1), j \in S
      PROVE  j + 1 \in S
  <2>1. PICK g : Is(g, j)
    BY <1>2
  <2> DEFINE h == [i \in 0..(j + 1) |-> IF i = j + 1 THEN Executed(g[j], s[j + 1]) ELSE g[i]]
  <2>2. \A i \in 0..j : g[i] = IF i = 0 THEN a ELSE Executed(g[i - 1], s[i])
    BY <2>1
  <2>3. ASSUME NEW i \in 0..(j + 1)
        PROVE  h[i] = IF i = 0 THEN a ELSE Executed(h[i - 1], s[i])
    <3>1. CASE i = j + 1
      <4>1. h[i - 1] = g[j] /\ i # 0
        BY <1>0, <3>1
      <4>2. h[i] = Executed(g[j], s[j + 1])
        BY <3>1
      <4> HIDE DEF h
      <4> QED
        BY <3>1, <4>1, <4>2
    <3>2. CASE i # j + 1
      <4>1. i \in 0..j /\ h[i] = g[i] /\ (i # 0 => h[i - 1] = g[i - 1])
        BY <1>0, <3>2
      <4> HIDE DEF h
      <4> QED
        BY <2>2, <4>1
    <3> QED
      BY <3>1, <3>2
  <2>4. h = [i \in 0..(j + 1) |-> h[i]]
    OBVIOUS
  <2> HIDE DEF h
  <2>5. Is(h, j + 1)
    BY <2>3, <2>4
  <2>6. j + 1 \in 0..m
    BY <1>0
  <2> QED
    BY <2>5, <2>6
<1> HIDE DEF S
<1>3. m \in S
  <2>1. \A j \in 0..m : j \in S
    BY <1>0, <1>1, <1>2, InductionUpTo
  <2> QED
    BY <1>0, <2>1
<1>4. \E g : Is(g, m)
  BY <1>3 DEF S
<1> DEFINE c == CHOOSE g : Is(g, m)
<1>5. Is(c, m)
  BY <1>4
<1>6. c[m] = Replayed(a, s)
  BY DEF m, Replayed
<1> HIDE DEF c
<1>7. c[0] = a /\ \A i \in 0..(m - 1) : c[i + 1] = Executed(c[i], s[i + 1])
  <2>1. ASSUME NEW i \in 0..m
        PROVE  c[i] = IF i = 0 THEN a ELSE Executed(c[i - 1], s[i])
    BY <1>5
  <2>2. ASSUME NEW i \in 0..(m - 1)
        PROVE  c[i + 1] = Executed(c[i], s[i + 1])
    <3>1. i + 1 \in 0..m /\ i + 1 # 0 /\ i + 1 - 1 = i
      BY <1>0
    <3> QED
      BY <2>1, <3>1
  <2>3. 0 \in 0..m
    BY <1>0
  <2> QED
    BY <2>1, <2>2, <2>3
<1>8. Replays(c, a, s)
  BY <1>6, <1>7 DEF m, Replays
<1> QED
  BY <1>8

(* The writers that calls in turn go through *)
LEMMA InTurnSteps ==
  ASSUME NEW a, NEW s, Len(s) \in Nat
  PROVE  \E d : /\ d[0] = a /\ d[Len(s)] = InTurn(a, s)
                /\ \A i \in 0..(Len(s) - 1) : d[i + 1] = CalledInTurn(d[i], s[i + 1])
<1> DEFINE m == Len(s)
           Is(g, j) == g = [i \in 0..j |-> IF i = 0 THEN a ELSE CalledInTurn(g[i - 1], s[i])]
           S == {j \in 0..m : \E g : Is(g, j)}
<1> HIDE DEF m
<1>0. m \in Nat
  BY DEF m
<1>1. 0 \in S
  <2>1. Is([i \in 0..0 |-> a], 0)
    OBVIOUS
  <2>2. \E g : Is(g, 0)
    BY <2>1
  <2> HIDE DEF Is
  <2> QED
    BY <1>0, <2>2
<1>2. ASSUME NEW j \in 0..(m - 1), j \in S
      PROVE  j + 1 \in S
  <2>1. PICK g : Is(g, j)
    BY <1>2
  <2> DEFINE h == [i \in 0..(j + 1) |-> IF i = j + 1 THEN CalledInTurn(g[j], s[j + 1]) ELSE g[i]]
  <2>2. \A i \in 0..j : g[i] = IF i = 0 THEN a ELSE CalledInTurn(g[i - 1], s[i])
    BY <2>1
  <2>3. ASSUME NEW i \in 0..(j + 1)
        PROVE  h[i] = IF i = 0 THEN a ELSE CalledInTurn(h[i - 1], s[i])
    <3>1. CASE i = j + 1
      <4>1. h[i - 1] = g[j] /\ i # 0
        BY <1>0, <3>1
      <4>2. h[i] = CalledInTurn(g[j], s[j + 1])
        BY <3>1
      <4> HIDE DEF h
      <4> QED
        BY <3>1, <4>1, <4>2
    <3>2. CASE i # j + 1
      <4>1. i \in 0..j /\ h[i] = g[i] /\ (i # 0 => h[i - 1] = g[i - 1])
        BY <1>0, <3>2
      <4> HIDE DEF h
      <4> QED
        BY <2>2, <4>1
    <3> QED
      BY <3>1, <3>2
  <2>4. h = [i \in 0..(j + 1) |-> h[i]]
    OBVIOUS
  <2> HIDE DEF h
  <2>5. Is(h, j + 1)
    BY <2>3, <2>4
  <2>6. j + 1 \in 0..m
    BY <1>0
  <2> QED
    BY <2>5, <2>6
<1> HIDE DEF S
<1>3. m \in S
  <2>1. \A j \in 0..m : j \in S
    BY <1>0, <1>1, <1>2, InductionUpTo
  <2> QED
    BY <1>0, <2>1
<1>4. \E g : Is(g, m)
  BY <1>3 DEF S
<1> DEFINE c == CHOOSE g : Is(g, m)
<1>5. Is(c, m)
  BY <1>4
<1>6. c[m] = InTurn(a, s)
  BY DEF m, InTurn
<1> HIDE DEF c
<1>7. c[0] = a /\ \A i \in 0..(m - 1) : c[i + 1] = CalledInTurn(c[i], s[i + 1])
  <2>1. ASSUME NEW i \in 0..m
        PROVE  c[i] = IF i = 0 THEN a ELSE CalledInTurn(c[i - 1], s[i])
    BY <1>5
  <2>2. ASSUME NEW i \in 0..(m - 1)
        PROVE  c[i + 1] = CalledInTurn(c[i], s[i + 1])
    <3>1. i + 1 \in 0..m /\ i + 1 # 0 /\ i + 1 - 1 = i
      BY <1>0
    <3> QED
      BY <2>1, <3>1
  <2>3. 0 \in 0..m
    BY <1>0
  <2> QED
    BY <2>1, <2>2, <2>3
<1> QED
  BY <1>6, <1>7 DEF m

-----------------------------------------------------------------------------
(***************************************************************************)
(* Freedom keepers: what the generated code does with them in loops.       *)
(***************************************************************************)

Frees(d, k, r, n) ==
  /\ d[0] = k /\ d[n] = FreedFromLast(k, r, n)
  /\ \A i \in 0..(n - 1) : d[i + 1] = Free(d[i], r + n - 1 - i)

(* The keepers that the delete of a vector goes through *)
LEMMA FreedSteps ==
  ASSUME NEW k, NEW r \in Nat, NEW n \in Nat
  PROVE  \E d : Frees(d, k, r, n)
<1> DEFINE m == n
           Is(g, j) == g = [i \in 0..j |-> IF i = 0 THEN k ELSE Free(g[i - 1], r + n - 1 - (0 + i - 1))]
           S == {j \in 0..m : \E g : Is(g, j)}
<1> HIDE DEF m
<1>0. m \in Nat
  BY DEF m
<1>1. 0 \in S
  <2>1. Is([i \in 0..0 |-> k], 0)
    OBVIOUS
  <2>2. \E g : Is(g, 0)
    BY <2>1
  <2> HIDE DEF Is
  <2> QED
    BY <1>0, <2>2
<1>2. ASSUME NEW j \in 0..(m - 1), j \in S
      PROVE  j + 1 \in S
  <2>1. PICK g : Is(g, j)
    BY <1>2
  <2> DEFINE h == [i \in 0..(j + 1) |-> IF i = j + 1 THEN Free(g[j], r + n - 1 - (0 + (j + 1) - 1)) ELSE g[i]]
  <2>2. \A i \in 0..j : g[i] = IF i = 0 THEN k ELSE Free(g[i - 1], r + n - 1 - (0 + i - 1))
    BY <2>1
  <2>3. ASSUME NEW i \in 0..(j + 1)
        PROVE  h[i] = IF i = 0 THEN k ELSE Free(h[i - 1], r + n - 1 - (0 + i - 1))
    <3>1. CASE i = j + 1
      <4>1. h[i - 1] = g[j] /\ i # 0
        BY <1>0, <3>1
      <4>2. h[i] = Free(g[j], r + n - 1 - (0 + (j + 1) - 1))
        BY <3>1
      <4> HIDE DEF h
      <4> QED
        BY <3>1, <4>1, <4>2
    <3>2. CASE i # j + 1
      <4>1. i \in 0..j /\ h[i] = g[i] /\ (i # 0 => h[i - 1] = g[i - 1])
        BY <1>0, <3>2
      <4> HIDE DEF h
      <4> QED
        BY <2>2, <4>1
    <3> QED
      BY <3>1, <3>2
  <2>4. h = [i \in 0..(j + 1) |-> h[i]]
    OBVIOUS
  <2> HIDE DEF h
  <2>5. Is(h, j + 1)
    BY <2>3, <2>4
  <2>6. j + 1 \in 0..m
    BY <1>0
  <2> QED
    BY <2>5, <2>6
<1> HIDE DEF S
<1>3. m \in S
  <2>1. \A j \in 0..m : j \in S
    BY <1>0, <1>1, <1>2, InductionUpTo
  <2> QED
    BY <1>0, <2>1
<1>4. \E g : Is(g, m)
  BY <1>3 DEF S
<1> DEFINE c == CHOOSE g : Is(g, m)
<1>5. Is(c, m)
  BY <1>4
<1>6. c[m] = FreedFromLast(k, r, n)
  BY DEF m, FreedFromLast, Iterate
<1> HIDE DEF c
<1>7. c[0] = k /\ \A i \in 0..(m - 1) : c[i + 1] = Free(c[i], r + n - 1 - i)
  <2>1. ASSUME NEW i \in 0..m
        PROVE  c[i] = IF i = 0 THEN k ELSE Free(c[i - 1], r + n - 1 - (0 + i - 1))
    BY <1>5
  <2>2. ASSUME NEW i \in 0..(m - 1)
        PROVE  c[i + 1] = Free(c[i], r + n - 1 - i)
    <3>1. /\ i + 1 \in 0..m /\ i + 1 # 0 /\ i + 1 - 1 = i
          /\ r + n - 1 - (0 + (i + 1) - 1) = r + n - 1 - i
      BY <1>0
    <3> QED
      BY <2>1, <3>1
  <2>3. 0 \in 0..m
    BY <1>0
  <2> QED
    BY <2>1, <2>2, <2>3
<1>8. Frees(c, k, r, n)
  BY <1>6, <1>7 DEF m, Frees
<1> QED
  BY <1>8

(* Deleting the records of a vector one by one, from the last *)
LEMMA FreedKeeps ==
  ASSUME NEW k, KeeperInv(k), NEW r \in Nat, NEW n \in Nat, r + n <= KeeperSize(k),
         \A i \in r..(r + n - 1) : IsUsed(k, i), NEW l, l = FreedFromLast(k, r, n)
  PROVE  /\ KeeperInv(l) /\ KeeperSize(l) = KeeperSize(k)
         /\ \A i \in Nat : IsUsed(l, i) <=> IsUsed(k, i) /\ ~In(i, r, n)
<1>1. PICK d : /\ d[0] = k /\ d[n] = FreedFromLast(k, r, n)
               /\ \A i \in 0..(n - 1) : d[i + 1] = Free(d[i], r + n - 1 - i)
  <2>1. PICK d : Frees(d, k, r, n)
    BY FreedSteps
  <2> QED
    BY <2>1 DEF Frees
<1> DEFINE Good(j) == /\ KeeperInv(d[j]) /\ KeeperSize(d[j]) = KeeperSize(k)
                      /\ \A i \in Nat : IsUsed(d[j], i) <=> IsUsed(k, i) /\ ~In(i, r + n - j, j)
           S == {j \in 0..n : Good(j)}
<1>2. 0 \in S
  BY <1>1 DEF In
<1>3. ASSUME NEW j \in 0..(n - 1), j \in S
      PROVE  j + 1 \in S
  <2> DEFINE x == r + n - 1 - j
  <2>1. j \in Nat /\ x \in Nat /\ x + 1 <= KeeperSize(k) /\ KeeperSize(k) \in Nat
        /\ r + n - j = x + 1 /\ r + n - (j + 1) = x /\ x \in r..(r + n - 1)
        /\ r + n - 1 - j = x /\ j + 1 \in 0..n
    BY KeeperTypes
  <2> HIDE DEF x
  <2>2. d[j + 1] = FreeVector(d[j], x, 1)
    BY <1>1, <2>1 DEF Free
  <2>3. KeeperInv(d[j]) /\ KeeperSize(d[j]) = KeeperSize(k)
        /\ \A i \in Nat : IsUsed(d[j], i) <=> IsUsed(k, i) /\ ~In(i, x + 1, j)
    BY <1>3, <2>1
  <2>4. \A i \in x..(x + 1 - 1) : IsUsed(d[j], i)
    <3>1. IsUsed(d[j], x)
      BY <2>1, <2>3 DEF In
    <3>2. \A i \in x..(x + 1 - 1) : i = x
      BY <2>1
    <3> QED
      BY <3>1, <3>2
  <2> DEFINE one == 1
  <2>5. one \in Nat /\ one = 1
    OBVIOUS
  <2> HIDE DEF one
  <2>6. /\ Keeps(d[j], d[j + 1], KeeperSize(d[j]), UsedCount(d[j]) - one)
        /\ \A i \in Nat : IsUsed(d[j + 1], i) <=> IsUsed(d[j], i) /\ ~In(i, x, one)
    <3>1. d[j + 1] = FreeVector(d[j], x, one)
      BY <2>2, <2>5
    <3>2. x + one <= KeeperSize(d[j]) /\ \A i \in x..(x + one - 1) : IsUsed(d[j], i)
      BY <2>1, <2>3, <2>4, <2>5
    <3>3. KeeperInv(d[j]) /\ x \in Nat
      BY <2>1, <2>3
    <3> DEFINE a == d[j]
               b == d[j + 1]
    <3> HIDE DEF a, b
    <3>4. /\ KeeperInv(a) /\ x + one <= KeeperSize(a) /\ b = FreeVector(a, x, one)
          /\ \A i \in x..(x + one - 1) : IsUsed(a, i)
      BY <3>1, <3>2, <3>3 DEF a, b
    <3>5. /\ Keeps(a, b, KeeperSize(a), UsedCount(a) - one)
          /\ \A i \in Nat : IsUsed(b, i) <=> IsUsed(a, i) /\ ~In(i, x, one)
      BY <2>5, <3>3, <3>4, FreeVectorKeeps
    <3> QED
      BY <3>5 DEF a, b
  <2>7. KeeperInv(d[j + 1]) /\ KeeperSize(d[j + 1]) = KeeperSize(k)
    BY <2>3, <2>6 DEF Keeps
  <2>8. ASSUME NEW i \in Nat
        PROVE  IsUsed(d[j + 1], i) <=> IsUsed(k, i) /\ ~In(i, x, j + 1)
    <3>1. In(i, x, j + 1) <=> In(i, x + 1, j) \/ In(i, x, one)
      BY <2>1, <2>5 DEF In
    <3> QED
      BY <2>3, <2>6, <3>1
  <2>9. Good(j + 1)
    BY <2>1, <2>7, <2>8
  <2> HIDE DEF Good
  <2> QED
    BY <2>1, <2>9
<1>4. n \in S
  <2> HIDE DEF S
  <2>1. \A j \in 0..n : j \in S
    BY <1>2, <1>3, InductionUpTo
  <2> QED
    BY <2>1
<1>5. Good(n) /\ r + n - n = r
  BY <1>4
<1> QED
  BY <1>1, <1>5

(* Following the links *)
Follows(k, h, n, d) == d[0] = h /\ \A i \in 0..(n - 1) : d[i + 1] = GetNext(k, d[i])

(* The places that the links lead to *)
LEMMA NextSteps ==
  ASSUME NEW k, NEW h, NEW n \in Nat
  PROVE  \E d : Follows(k, h, n, d)
<1> DEFINE Is(d, m) == d[0] = h /\ \A i \in 0..(m - 1) : d[i + 1] = GetNext(k, d[i])
           S == {m \in 0..n : \E d : Is(d, m)}
<1>1. 0 \in S
  <2>1. Is([i \in 0..0 |-> h], 0)
    OBVIOUS
  <2>2. \E d : Is(d, 0)
    BY <2>1
  <2> HIDE DEF Is
  <2> QED
    BY <2>2
<1>2. ASSUME NEW m \in 0..(n - 1), m \in S
      PROVE  m + 1 \in S
  <2>1. PICK d : Is(d, m)
    BY <1>2
  <2> DEFINE c == [i \in 0..(m + 1) |-> IF i = m + 1 THEN GetNext(k, d[m]) ELSE d[i]]
  <2>2. c[0] = h /\ c[m + 1] = GetNext(k, d[m]) /\ \A i \in 0..m : c[i] = d[i]
    BY <2>1
  <2> HIDE DEF c
  <2>3. ASSUME NEW i \in 0..(m + 1 - 1)
        PROVE  c[i + 1] = GetNext(k, c[i])
    <3>1. CASE i = m
      <4>1. c[i] = d[m] /\ c[i + 1] = GetNext(k, d[m])
        BY <2>2, <3>1
      <4> QED
        BY <4>1
    <3>2. CASE i # m
      <4>1. i \in 0..(m - 1) /\ i + 1 \in 0..m /\ i \in 0..m
        BY <3>2
      <4>2. c[i + 1] = d[i + 1] /\ c[i] = d[i] /\ d[i + 1] = GetNext(k, d[i])
        BY <2>1, <2>2, <4>1
      <4> QED
        BY <4>2
    <3> QED
      BY <3>1, <3>2
  <2>4. Is(c, m + 1)
    BY <2>2, <2>3
  <2>5. \E e : Is(e, m + 1)
    BY <2>4
  <2> HIDE DEF Is
  <2>6. m + 1 \in 0..n
    OBVIOUS
  <2> QED
    BY <2>5, <2>6
<1> HIDE DEF S
<1>3. n \in S
  <2>1. \A m \in 0..n : m \in S
    BY <1>1, <1>2, InductionUpTo
  <2> QED
    BY <2>1
<1> QED
  BY <1>3 DEF S, Follows

(* A walk meets the places that the links lead to. *)
LEMMA FollowsIs ==
  ASSUME NEW k, NEW h, NEW n \in Nat, NEW d, Follows(k, h, n, d)
  PROVE  \A i \in 1..n : Forward(k, h, n)[i] = d[i]
<1>1. d[0] = h
  BY DEF Follows
<1>2. ASSUME NEW i \in 0..(n - 1)
      PROVE  d[i + 1] = GetNext(k, d[i])
  BY DEF Follows
<1> QED
  BY <1>1, <1>2, ForwardIs

(* Part of the way *)
LEMMA FollowsLess ==
  ASSUME NEW k, NEW h, NEW n \in Nat, NEW m \in Nat, n <= m, NEW d, Follows(k, h, m, d)
  PROVE  Follows(k, h, n, d)
<1>1. d[0] = h
  BY DEF Follows
<1>2. ASSUME NEW i \in 0..(n - 1)
      PROVE  d[i + 1] = GetNext(k, d[i])
  <2>1. i \in 0..(m - 1)
    OBVIOUS
  <2> QED
    BY <2>1 DEF Follows
<1> QED
  BY <1>1, <1>2 DEF Follows

(* The list of the records of a keeper *)
LEMMA UsedListIs ==
  ASSUME NEW k, KeeperInv(k)
  PROVE  /\ Len(UsedList(k)) \in Nat /\ DOMAIN UsedList(k) = 1..Len(UsedList(k))
         /\ \A i \in 1..Len(UsedList(k)) : UsedList(k)[i] \in Nat
<1> DEFINE n == UsedCount(k)
           u == UsedList(k)
           m == n + 1
           w == Forward(k, used_list, m)
<1>1. n \in Nat /\ m \in Nat /\ n <= m /\ m = n + 1 /\ KeeperSize(k) \in Nat
  BY KeeperTypes
<1>2. u = Forward(k, used_list, n)
  BY DEF UsedList, Forward
<1>3. DOMAIN u = 1..n /\ Len(u) = n
  <2>1. u = [i \in 1..n |-> u[i]]
    BY DEF UsedList, Walk
  <2> HIDE DEF u, n
  <2> QED
    BY <1>1, <2>1
<1>4. {w[i] : i \in 1..n} = Records(k, TRUE)
  BY KeepersAreSound DEF KeeperIsSound, ListIsSound, Forward
<1> HIDE DEF n, m
<1>5. PICK d : Follows(k, used_list, m, d)
  BY <1>1, NextSteps
<1>6. \A i \in 1..n : Forward(k, used_list, n)[i] = d[i]
  <2>1. Follows(k, used_list, n, d)
    BY <1>1, <1>5, FollowsLess
  <2> QED
    BY <1>1, <2>1, FollowsIs
<1>7. \A i \in 1..m : w[i] = d[i]
  BY <1>1, <1>5, FollowsIs
<1>8. ASSUME NEW i \in 1..n
      PROVE  u[i] \in Nat
  <2>1. u[i] = w[i]
    BY <1>1, <1>2, <1>6, <1>7
  <2>2. w[i] \in Records(k, TRUE)
    BY <1>4
  <2> QED
    BY <1>1, <2>1, <2>2 DEF Records
<1> HIDE DEF u
<1>9. Len(u) \in Nat /\ DOMAIN u = 1..Len(u) /\ \A i \in 1..Len(u) : u[i] \in Nat
  BY <1>1, <1>3, <1>8
<1> QED
  BY <1>9 DEF u

-----------------------------------------------------------------------------
(***************************************************************************)
(* The storage of a program, seen through its keepers, its cells, and its  *)
(* indexes.                                                                *)
(***************************************************************************)

TablesOf(v) == DOMAIN Compiled[v].tables

FieldsOf(v, t) == DOMAIN Compiled[v].tables[t].fields

IndexesOf(v) == DOMAIN Indexes[v]

TableOf(v, i) == Indexes[v][i].t

Keeper(g, t) == g.tables[t].freedom

Size(g, t) == KeeperSize(Keeper(g, t))

Cell(g, t, f, r) == g.tables[t].columns[f][r]

IsArray(a, n) == a = [r \in 0..(n - 1) |-> a[r]]

IsTable(v, t, x) ==
  /\ x = [freedom |-> x.freedom, columns |-> x.columns]
  /\ KeeperInv(x.freedom)
  /\ x.columns = [f \in FieldsOf(v, t) |-> x.columns[f]]
  /\ \A f \in FieldsOf(v, t) : IsArray(x.columns[f], KeeperSize(x.freedom))

IsStorage(g, v) ==
  /\ v \in Versions
  /\ g = [version |-> v, tables |-> g.tables, index |-> g.index, iterator |-> g.iterator,
          schema |-> g.schema, ok |-> g.ok]
  /\ g.tables = [t \in TablesOf(v) |-> g.tables[t]]
  /\ \A t \in TablesOf(v) : IsTable(v, t, g.tables[t])
  /\ g.index = [i \in IndexesOf(v) |-> g.index[i]]
  /\ g.iterator = [i \in IndexesOf(v) |-> g.iterator[i]]
  /\ \A i \in IndexesOf(v) : IsArray(g.iterator[i], Size(g, TableOf(v, i)))
  /\ \A i \in IndexesOf(v) : \A r \in Nat :
       IsUsed(Keeper(g, TableOf(v, i)), r) => g.iterator[i][r] # Singular

(* What is known of a storage *)
LEMMA StorageHas ==
  ASSUME NEW g, NEW v, IsStorage(g, v)
  PROVE  /\ v \in Versions /\ g.version = v
         /\ DOMAIN g.tables = TablesOf(v) /\ DOMAIN g.index = IndexesOf(v)
         /\ DOMAIN g.iterator = IndexesOf(v)
         /\ \A t \in TablesOf(v) :
              /\ KeeperInv(Keeper(g, t)) /\ Size(g, t) \in Nat
              /\ DOMAIN g.tables[t].columns = FieldsOf(v, t)
              /\ \A f \in FieldsOf(v, t) : DOMAIN g.tables[t].columns[f] = 0..(Size(g, t) - 1)
              /\ \A r \in Int : IsUsed(Keeper(g, t), r) => r \in 0..(Size(g, t) - 1)
         /\ \A i \in IndexesOf(v) :
              /\ TableOf(v, i) \in TablesOf(v)
              /\ DOMAIN g.iterator[i] = 0..(Size(g, TableOf(v, i)) - 1)
<1>1. v \in Versions /\ g.version = v
  BY DEF IsStorage
<1>2. DOMAIN g.tables = TablesOf(v) /\ DOMAIN g.index = IndexesOf(v) /\ DOMAIN g.iterator = IndexesOf(v)
  BY DEF IsStorage
<1>3. ASSUME NEW t \in TablesOf(v)
      PROVE  /\ KeeperInv(Keeper(g, t)) /\ Size(g, t) \in Nat
             /\ DOMAIN g.tables[t].columns = FieldsOf(v, t)
             /\ \A f \in FieldsOf(v, t) : DOMAIN g.tables[t].columns[f] = 0..(Size(g, t) - 1)
             /\ \A r \in Int : IsUsed(Keeper(g, t), r) => r \in 0..(Size(g, t) - 1)
  <2>1. IsTable(v, t, g.tables[t])
    BY DEF IsStorage
  <2>2. KeeperInv(Keeper(g, t)) /\ DOMAIN g.tables[t].columns = FieldsOf(v, t)
    BY <2>1 DEF IsTable, Keeper
  <2>3. /\ Size(g, t) \in Nat
        /\ \A r \in Int : IsUsed(Keeper(g, t), r) => r \in 0..(Size(g, t) - 1)
    BY <2>2, KeeperTypes DEF Size
  <2>4. ASSUME NEW f \in FieldsOf(v, t)
        PROVE  DOMAIN g.tables[t].columns[f] = 0..(Size(g, t) - 1)
    <3>1. IsArray(g.tables[t].columns[f], Size(g, t))
      BY <2>1 DEF IsTable, Size, Keeper
    <3> QED
      BY <3>1 DEF IsArray
  <2> QED
    BY <2>2, <2>3, <2>4
<1>4. ASSUME NEW i \in IndexesOf(v)
      PROVE  TableOf(v, i) \in TablesOf(v) /\ DOMAIN g.iterator[i] = 0..(Size(g, TableOf(v, i)) - 1)
  <2>1. TableOf(v, i) \in TablesOf(v)
    BY <1>1, SchemaAssumption DEF IndexesOf, TableOf, TablesOf
  <2>2. IsArray(g.iterator[i], Size(g, TableOf(v, i)))
    BY DEF IsStorage
  <2> QED
    BY <2>1, <2>2 DEF IsArray
<1> QED
  BY <1>1, <1>2, <1>3, <1>4

(* Two storages with the same parts *)
LEMMA SameStorage ==
  ASSUME NEW g, NEW h, NEW v, IsStorage(g, v), IsStorage(h, v),
         \A t \in TablesOf(v) : Keeper(g, t) = Keeper(h, t),
         \A t \in TablesOf(v) : \A f \in FieldsOf(v, t) : \A r \in 0..(Size(g, t) - 1) :
           Cell(g, t, f, r) = Cell(h, t, f, r),
         \A i \in IndexesOf(v) : g.index[i] = h.index[i],
         \A i \in IndexesOf(v) : \A r \in 0..(Size(g, TableOf(v, i)) - 1) :
           g.iterator[i][r] = h.iterator[i][r],
         g.schema = h.schema, g.ok = h.ok
  PROVE  g = h
<1>1. \A i \in IndexesOf(v) : TableOf(v, i) \in TablesOf(v)
  BY StorageHas
<1>2. \A t \in TablesOf(v) : Size(g, t) = Size(h, t)
  BY DEF Size
<1>3. g.index = h.index
  BY DEF IsStorage
<1>4. ASSUME NEW i \in IndexesOf(v)
      PROVE  g.iterator[i] = h.iterator[i]
  <2> DEFINE n == Size(g, TableOf(v, i))
             a == g.iterator[i]
             b == h.iterator[i]
  <2>1. n = Size(h, TableOf(v, i))
    BY <1>1, <1>2
  <2>2. IsArray(a, n) /\ IsArray(b, n) /\ \A r \in 0..(n - 1) : a[r] = b[r]
    BY <2>1 DEF IsStorage
  <2> HIDE DEF a, b, n
  <2>3. a = b
    BY <2>2 DEF IsArray
  <2> QED
    BY <2>3 DEF a, b
<1>5. g.iterator = h.iterator
  BY <1>4 DEF IsStorage
<1>6. ASSUME NEW t \in TablesOf(v)
      PROVE  g.tables[t] = h.tables[t]
  <2> DEFINE x == g.tables[t]
             y == h.tables[t]
  <2>1. IsTable(v, t, x) /\ IsTable(v, t, y) /\ x.freedom = y.freedom
    BY DEF IsStorage, Keeper
  <2>2. ASSUME NEW f \in FieldsOf(v, t)
        PROVE  x.columns[f] = y.columns[f]
    <3> DEFINE n == KeeperSize(x.freedom)
               a == x.columns[f]
               b == y.columns[f]
    <3>1. IsArray(a, n) /\ IsArray(b, n)
      BY <2>1 DEF IsTable
    <3>2. \A r \in 0..(n - 1) : a[r] = b[r]
      BY DEF Cell, Size, Keeper
    <3> HIDE DEF a, b, n
    <3>3. a = b
      BY <3>1, <3>2 DEF IsArray
    <3> QED
      BY <3>3 DEF a, b
  <2> HIDE DEF x, y
  <2>3. x.columns = y.columns
    BY <2>1, <2>2 DEF IsTable
  <2>4. x = y
    BY <2>1, <2>3 DEF IsTable
  <2> QED
    BY <2>4 DEF x, y
<1>7. g.tables = h.tables
  BY <1>6 DEF IsStorage
<1> QED
  BY <1>3, <1>5, <1>7 DEF IsStorage

-----------------------------------------------------------------------------
(***************************************************************************)
(* What the functions of the generated classes do to a storage.            *)
(***************************************************************************)

(* The fields that a call of the schema, or a failure, changes *)
LEMMA SchemaChanged ==
  ASSUME NEW g, NEW v, IsStorage(g, v), NEW schema, NEW h, h = [g EXCEPT !.schema = schema]
  PROVE  /\ IsStorage(h, v) /\ h.tables = g.tables /\ h.index = g.index
         /\ h.iterator = g.iterator /\ h.schema = schema /\ h.ok = g.ok
<1>1. /\ h = [version |-> v, tables |-> g.tables, index |-> g.index, iterator |-> g.iterator,
              schema |-> schema, ok |-> g.ok]
      /\ h.tables = g.tables /\ h.index = g.index /\ h.iterator = g.iterator
      /\ h.schema = schema /\ h.ok = g.ok /\ v \in Versions
  BY DEF IsStorage
<1>2. h = [version |-> v, tables |-> h.tables, index |-> h.index, iterator |-> h.iterator,
           schema |-> h.schema, ok |-> h.ok]
  BY <1>1
<1>3. \A t : Keeper(h, t) = Keeper(g, t) /\ Size(h, t) = Size(g, t)
  BY <1>1 DEF Keeper, Size
<1>4. /\ \A t \in TablesOf(v) : IsTable(v, t, h.tables[t])
      /\ \A i \in IndexesOf(v) : IsArray(h.iterator[i], Size(h, TableOf(v, i)))
      /\ \A i \in IndexesOf(v) : \A r \in Nat :
           IsUsed(Keeper(h, TableOf(v, i)), r) => h.iterator[i][r] # Singular
  BY <1>1, <1>3 DEF IsStorage
<1>5. /\ h.tables = [t \in TablesOf(v) |-> h.tables[t]]
      /\ h.index = [i \in IndexesOf(v) |-> h.index[i]]
      /\ h.iterator = [i \in IndexesOf(v) |-> h.iterator[i]]
  BY <1>1 DEF IsStorage
<1> QED
  BY <1>1, <1>2, <1>4, <1>5 DEF IsStorage

(* A failure changes nothing else than ok. *)
LEMMA OkChanged ==
  ASSUME NEW g, NEW v, IsStorage(g, v), NEW b, NEW h, h = [g EXCEPT !.ok = b]
  PROVE  /\ IsStorage(h, v) /\ h.tables = g.tables /\ h.index = g.index
         /\ h.iterator = g.iterator /\ h.schema = g.schema /\ h.ok = b
<1>1. /\ h = [version |-> v, tables |-> g.tables, index |-> g.index, iterator |-> g.iterator,
              schema |-> g.schema, ok |-> b]
      /\ h.tables = g.tables /\ h.index = g.index /\ h.iterator = g.iterator
      /\ h.schema = g.schema /\ h.ok = b
  BY DEF IsStorage
<1> QED
  BY <1>1, SMTT(30) DEF IsStorage, Size, Keeper

(* The storage of a new database *)
LEMMA NewStorageIs ==
  ASSUME NEW v \in Versions, NEW g, g = NewStorage(v)
  PROVE  /\ IsStorage(g, v) /\ g.ok = TRUE /\ g.schema = <<>>
         /\ \A t \in TablesOf(v) : Keeper(g, t) = NewKeeper /\ Size(g, t) = 0
         /\ \A i \in IndexesOf(v) : g.index[i] = {}
<1>1. /\ KeeperInv(NewKeeper) /\ KeeperSize(NewKeeper) = 0
      /\ \A i \in Nat : ~IsUsed(NewKeeper, i)
  BY DenseIsKeeper DEF NewKeeper, Dense
<1>2. g = [version |-> v, tables |-> g.tables, index |-> g.index, iterator |-> g.iterator,
           schema |-> g.schema, ok |-> g.ok]
      /\ g.ok = TRUE /\ g.schema = <<>>
      /\ g.tables = EmptyTables(Compiled[v].tables)
      /\ g.index = [i \in IndexesOf(v) |-> {}]
      /\ g.iterator = [i \in IndexesOf(v) |-> EmptyMap]
  BY DEF NewStorage, IndexesOf
<1>3. g.tables = [t \in TablesOf(v) |-> EmptyTable(Compiled[v].tables[t])]
  BY <1>2 DEF EmptyTables, TablesOf
<1>4. ASSUME NEW n, n = 0
      PROVE  IsArray(EmptyMap, n)
  BY <1>4 DEF IsArray, EmptyMap
<1>5. ASSUME NEW t \in TablesOf(v)
      PROVE  IsTable(v, t, g.tables[t]) /\ Keeper(g, t) = NewKeeper
  <2>1. g.tables[t] = [freedom |-> NewKeeper, columns |-> [f \in FieldsOf(v, t) |-> EmptyMap]]
    BY <1>3 DEF EmptyTable, FieldsOf
  <2>2. \A f \in FieldsOf(v, t) : IsArray(EmptyMap, KeeperSize(NewKeeper))
    BY <1>1, <1>4
  <2> QED
    BY <1>1, <2>1, <2>2 DEF IsTable, Keeper
<1>6. ASSUME NEW i \in IndexesOf(v)
      PROVE  /\ IsArray(g.iterator[i], KeeperSize(g.tables[TableOf(v, i)].freedom))
             /\ \A r \in Nat : ~IsUsed(g.tables[TableOf(v, i)].freedom, r)
  <2>1. TableOf(v, i) \in TablesOf(v)
    BY SchemaAssumption DEF IndexesOf, TableOf, TablesOf
  <2>2. g.tables[TableOf(v, i)].freedom = NewKeeper
    BY <1>5, <2>1 DEF Keeper
  <2> QED
    BY <1>1, <1>2, <1>4, <2>2
<1>7. IsStorage(g, v)
  <2>1. /\ g.tables = [t \in TablesOf(v) |-> g.tables[t]]
        /\ g.index = [i \in IndexesOf(v) |-> g.index[i]]
        /\ g.iterator = [i \in IndexesOf(v) |-> g.iterator[i]]
    BY <1>2, <1>3
  <2> QED
    BY <1>2, <1>5, <1>6, <2>1 DEF IsStorage, Size, Keeper
<1> QED
  BY <1>1, <1>2, <1>5, <1>7 DEF Size

(* A record of the fields of a storage *)
IsRecord(h) ==
  h = [version |-> h.version, tables |-> h.tables, index |-> h.index,
       iterator |-> h.iterator, schema |-> h.schema, ok |-> h.ok]

WithTable(g, t, x, iterator) == [g EXCEPT !.tables[t] = x, !.iterator = iterator]

WithIndexes(g, t, x, index, iterator) ==
  [g EXCEPT !.index = index, !.iterator = iterator, !.tables[t] = x]

(* A storage, in the words of EXCEPT *)
LEMMA ExceptIs ==
  ASSUME NEW g, NEW v, IsStorage(g, v), NEW t, NEW x, NEW index, NEW iterator, NEW h,
         h = WithIndexes(g, t, x, index, iterator)
  PROVE  /\ IsRecord(h) /\ h.version = v /\ h.index = index /\ h.iterator = iterator
         /\ h.schema = g.schema /\ h.ok = g.ok /\ h.tables = [g.tables EXCEPT ![t] = x]
<1>1. g = [version |-> v, tables |-> g.tables, index |-> g.index, iterator |-> g.iterator,
           schema |-> g.schema, ok |-> g.ok]
  BY DEF IsStorage
<1>2. h = [version |-> h.version, tables |-> h.tables, index |-> h.index,
           iterator |-> h.iterator, schema |-> h.schema, ok |-> h.ok]
  BY <1>1 DEF WithIndexes
<1>3. /\ h.version = v /\ h.index = index /\ h.iterator = iterator
      /\ h.schema = g.schema /\ h.ok = g.ok /\ h.tables = [g.tables EXCEPT ![t] = x]
  BY <1>1 DEF WithIndexes
<1> QED
  BY <1>2, <1>3 DEF IsRecord

(* The other fields of a storage whose table and iterators are replaced *)
LEMMA ExceptTable ==
  ASSUME NEW g, NEW v, IsStorage(g, v), NEW t, NEW x, NEW iterator, NEW h,
         h = WithTable(g, t, x, iterator)
  PROVE  /\ IsRecord(h) /\ h.version = v /\ h.index = g.index /\ h.iterator = iterator
         /\ h.schema = g.schema /\ h.ok = g.ok /\ h.tables = [g.tables EXCEPT ![t] = x]
<1>1. g = [version |-> v, tables |-> g.tables, index |-> g.index, iterator |-> g.iterator,
           schema |-> g.schema, ok |-> g.ok]
  BY DEF IsStorage
<1>2. h = [version |-> h.version, tables |-> h.tables, index |-> h.index,
           iterator |-> h.iterator, schema |-> h.schema, ok |-> h.ok]
  BY <1>1 DEF WithTable
<1>3. /\ h.version = v /\ h.index = g.index /\ h.iterator = iterator
      /\ h.schema = g.schema /\ h.ok = g.ok /\ h.tables = [g.tables EXCEPT ![t] = x]
  BY <1>1 DEF WithTable
<1> QED
  BY <1>2, <1>3 DEF IsRecord

(* A table, the indexes, and the iterators, replaced *)
IsReplaced(g, h, v, t, k, columns, index, iterator) ==
  /\ IsRecord(h)
  /\ h.version = v /\ h.index = index /\ h.iterator = iterator
  /\ h.schema = g.schema /\ h.ok = g.ok
  /\ h.tables = [g.tables EXCEPT ![t] = [freedom |-> k, columns |-> columns]]
  /\ KeeperInv(k)
  /\ columns = [f \in FieldsOf(v, t) |-> columns[f]]
  /\ \A f \in FieldsOf(v, t) : IsArray(columns[f], KeeperSize(k))
  /\ index = [i \in IndexesOf(v) |-> index[i]]
  /\ iterator = [i \in IndexesOf(v) |-> iterator[i]]
  /\ \A i \in IndexesOf(v) : TableOf(v, i) = t => IsArray(iterator[i], KeeperSize(k))
  /\ \A i \in IndexesOf(v) : \A r \in Nat :
       TableOf(v, i) = t /\ IsUsed(k, r) => iterator[i][r] # Singular
  /\ \A i \in IndexesOf(v) : TableOf(v, i) # t => iterator[i] = g.iterator[i]

(* A storage stays one when a table, the indexes and the iterators are replaced*)
(* by ones of the right size.                                                *)
LEMMA TableReplaced ==
  ASSUME NEW g, NEW v, IsStorage(g, v), NEW t \in TablesOf(v),
         NEW k, NEW columns, NEW index, NEW iterator, NEW h,
         IsReplaced(g, h, v, t, k, columns, index, iterator)
  PROVE  /\ IsStorage(h, v) /\ h.schema = g.schema /\ h.ok = g.ok
         /\ Keeper(h, t) = k /\ \A s \in TablesOf(v) : s # t => h.tables[s] = g.tables[s]
         /\ \A f, r : Cell(h, t, f, r) = columns[f][r]
         /\ h.index = index /\ h.iterator = iterator
<1> DEFINE tables == [g.tables EXCEPT ![t] = [freedom |-> k, columns |-> columns]]
<1>1. /\ h.tables = tables /\ h.index = index /\ h.iterator = iterator
      /\ h.schema = g.schema /\ h.ok = g.ok /\ h.version = v
  BY DEF IsReplaced
<1>2. DOMAIN g.tables = TablesOf(v) /\ \A i \in IndexesOf(v) : TableOf(v, i) \in TablesOf(v)
  BY StorageHas
<1>3. /\ tables = [s \in TablesOf(v) |-> tables[s]]
      /\ tables[t] = [freedom |-> k, columns |-> columns]
      /\ \A s \in TablesOf(v) : s # t => tables[s] = g.tables[s]
  BY <1>2
<1> HIDE DEF tables
<1>4. ASSUME NEW s \in TablesOf(v)
      PROVE  IsTable(v, s, tables[s])
  <2>1. CASE s = t
    BY <1>3, <2>1 DEF IsTable, IsReplaced
  <2>2. CASE s # t
    BY <1>3, <2>2 DEF IsStorage
  <2> QED
    BY <2>1, <2>2
<1>5. ASSUME NEW i \in IndexesOf(v)
      PROVE  /\ IsArray(iterator[i], KeeperSize(tables[TableOf(v, i)].freedom))
             /\ \A r \in Nat :
                  IsUsed(tables[TableOf(v, i)].freedom, r) => iterator[i][r] # Singular
  <2>1. CASE TableOf(v, i) = t
    BY <1>3, <2>1 DEF IsReplaced
  <2>2. CASE TableOf(v, i) # t
    <3>1. tables[TableOf(v, i)] = g.tables[TableOf(v, i)] /\ iterator[i] = g.iterator[i]
      BY <1>2, <1>3, <2>2 DEF IsReplaced
    <3>2. /\ IsArray(g.iterator[i], KeeperSize(g.tables[TableOf(v, i)].freedom))
          /\ \A r \in Nat :
               IsUsed(g.tables[TableOf(v, i)].freedom, r) => g.iterator[i][r] # Singular
      BY DEF IsStorage, Size, Keeper
    <3> QED
      BY <3>1, <3>2
  <2> QED
    BY <2>1, <2>2
<1>6. IsStorage(h, v)
  <2>1. v \in Versions
    BY StorageHas
  <2>3. h = [version |-> v, tables |-> h.tables, index |-> h.index, iterator |-> h.iterator,
             schema |-> h.schema, ok |-> h.ok]
    BY DEF IsReplaced, IsRecord
  <2>4. \A s : Keeper(h, s) = tables[s].freedom /\ Size(h, s) = KeeperSize(tables[s].freedom)
    BY <1>1 DEF Keeper, Size
  <2>5. /\ \A s \in TablesOf(v) : IsTable(v, s, h.tables[s])
        /\ \A i \in IndexesOf(v) : IsArray(h.iterator[i], Size(h, TableOf(v, i)))
        /\ \A i \in IndexesOf(v) : \A r \in Nat :
             IsUsed(Keeper(h, TableOf(v, i)), r) => h.iterator[i][r] # Singular
    <3>1. \A s \in TablesOf(v) : IsTable(v, s, h.tables[s])
      BY <1>1, <1>4
    <3>2. ASSUME NEW i \in IndexesOf(v)
          PROVE  /\ IsArray(h.iterator[i], Size(h, TableOf(v, i)))
                 /\ \A r \in Nat :
                      IsUsed(Keeper(h, TableOf(v, i)), r) => h.iterator[i][r] # Singular
      <4>1. /\ h.iterator[i] = iterator[i]
            /\ Keeper(h, TableOf(v, i)) = tables[TableOf(v, i)].freedom
            /\ Size(h, TableOf(v, i)) = KeeperSize(tables[TableOf(v, i)].freedom)
        BY <1>1, <2>4
      <4> QED
        BY <1>5, <4>1
    <3> QED
      BY <3>1, <3>2
  <2>6. /\ h.tables = [s \in TablesOf(v) |-> h.tables[s]]
        /\ h.index = [i \in IndexesOf(v) |-> h.index[i]]
        /\ h.iterator = [i \in IndexesOf(v) |-> h.iterator[i]]
    BY <1>1, <1>3 DEF IsReplaced
  <2> QED
    BY <2>1, <2>3, <2>5, <2>6 DEF IsStorage
<1> QED
  BY <1>1, <1>3, <1>6 DEF Keeper, Cell

(* data_of_<table>::resize *)
Resized(g, h, v, t, size) ==
  /\ h.schema = g.schema /\ h.ok = g.ok
  /\ \A s \in TablesOf(v) : s # t => h.tables[s] = g.tables[s]
  /\ Keeper(h, t) = IF size < Size(g, t) THEN Keeper(g, t) ELSE Resize(Keeper(g, t), size)
  /\ Size(h, t) = IF size < Size(g, t) THEN Size(g, t) ELSE size
  /\ \A r \in Nat : IsUsed(Keeper(h, t), r) <=> IsUsed(Keeper(g, t), r)
  /\ \A f \in FieldsOf(v, t) : \A r \in 0..(Size(h, t) - 1) :
       Cell(h, t, f, r) = IF r \in 0..(Size(g, t) - 1) THEN Cell(g, t, f, r)
                          ELSE Default(FieldType(v, t, f))
  /\ h.index = g.index
  /\ \A i \in IndexesOf(v) : TableOf(v, i) # t => h.iterator[i] = g.iterator[i]
  /\ \A i \in IndexesOf(v) : \A r \in 0..(Size(h, t) - 1) : TableOf(v, i) = t =>
       h.iterator[i][r] = IF r \in 0..(Size(g, t) - 1) THEN g.iterator[i][r] ELSE Singular

(* resize keeps the records, the cells and the entries, and adds default values. *)
LEMMA ResizedIs ==
  ASSUME NEW g, NEW v, IsStorage(g, v), NEW t \in TablesOf(v), NEW size \in Nat,
         NEW h, h = ResizedStorage(g, t, size)
  PROVE  IsStorage(h, v) /\ Resized(g, h, v, t, size)
<1>0. /\ v \in Versions /\ g.version = v
      /\ DOMAIN g.tables = TablesOf(v) /\ DOMAIN g.index = IndexesOf(v)
      /\ DOMAIN g.iterator = IndexesOf(v)
      /\ KeeperInv(Keeper(g, t)) /\ Size(g, t) \in Nat
      /\ DOMAIN g.tables[t].columns = FieldsOf(v, t)
      /\ \A f \in FieldsOf(v, t) : DOMAIN g.tables[t].columns[f] = 0..(Size(g, t) - 1)
      /\ \A r \in Int : IsUsed(Keeper(g, t), r) => r \in 0..(Size(g, t) - 1)
      /\ \A i \in IndexesOf(v) :
           TableOf(v, i) = t => DOMAIN g.iterator[i] = 0..(Size(g, t) - 1)
  BY StorageHas
<1>1. CASE size < Size(g, t)
  <2>1. h = g
    BY <1>1 DEF ResizedStorage, Size, Keeper
  <2> QED
    BY <1>0, <1>1, <2>1 DEF Resized
<1>2. CASE ~(size < Size(g, t))
  <2> DEFINE k == Resize(Keeper(g, t), size)
             n == Size(g, t)
             columns == [f \in FieldsOf(v, t) |->
                          [r \in 0..(size - 1) |->
                            IF r \in 0..(n - 1) THEN Cell(g, t, f, r)
                            ELSE Default(FieldType(v, t, f))]]
             iterator == [i \in IndexesOf(v) |->
                           IF TableOf(v, i) = t
                           THEN [r \in 0..(size - 1) |->
                                  IF r \in 0..(n - 1) THEN g.iterator[i][r] ELSE Singular]
                           ELSE g.iterator[i]]
             grow(column, value) ==
               [r \in 0..(size - 1) |-> IF r \in DOMAIN column THEN column[r] ELSE value]
             table == [freedom |-> Resize(g.tables[t].freedom, size),
                       columns |-> [f \in DOMAIN g.tables[t].columns |->
                                     grow(g.tables[t].columns[f], Default(FieldType(g.version, t, f)))]]
             it == [i \in DOMAIN g.iterator |->
                     IF Indexes[g.version][i].t = t THEN grow(g.iterator[i], Singular)
                     ELSE g.iterator[i]]
  <2>1. h = WithTable(g, t, table, it)
    BY <1>2 DEF ResizedStorage, Size, Keeper, WithTable
  <2>2. table = [freedom |-> k, columns |-> columns]
    <3>1. \A f \in FieldsOf(v, t) :
            grow(g.tables[t].columns[f], Default(FieldType(g.version, t, f))) = columns[f]
      BY <1>0 DEF Cell
    <3> HIDE DEF grow
    <3>2. [f \in DOMAIN g.tables[t].columns |->
            grow(g.tables[t].columns[f], Default(FieldType(g.version, t, f)))] = columns
      BY <1>0, <3>1
    <3> HIDE DEF columns
    <3> QED
      BY <3>2 DEF Keeper
  <2>3. it = iterator
    <3>1. \A i \in IndexesOf(v) : TableOf(v, i) = t =>
            grow(g.iterator[i], Singular) = iterator[i]
      BY <1>0
    <3> HIDE DEF grow
    <3> QED
      BY <1>0, <3>1 DEF TableOf
  <2> HIDE DEF table, it, grow
  <2>4. /\ h.tables = [g.tables EXCEPT ![t] = table] /\ h.index = g.index /\ h.iterator = it
        /\ h.schema = g.schema /\ h.ok = g.ok /\ h.version = v
        /\ IsRecord(h)
    BY <2>1, ExceptTable
  <2>5. /\ KeeperInv(k) /\ KeeperSize(k) = size
        /\ \A r \in Nat : IsUsed(k, r) <=> IsUsed(Keeper(g, t), r)
    <3> DEFINE a == Keeper(g, t)
    <3> HIDE DEF a
    <3>1. /\ Keeps(a, k, IF KeeperSize(a) < size THEN size ELSE KeeperSize(a), UsedCount(a))
          /\ \A r \in Nat : IsUsed(k, r) <=> IsUsed(a, r)
      BY <1>0, ResizeKeeps DEF a
    <3>2. (IF KeeperSize(a) < size THEN size ELSE KeeperSize(a)) = size
      BY <1>0, <1>2 DEF a, Size
    <3> QED
      BY <3>1, <3>2 DEF Keeps, a
  <2> HIDE DEF k
  <2>6. /\ columns = [f \in FieldsOf(v, t) |-> columns[f]]
        /\ \A f \in FieldsOf(v, t) : IsArray(columns[f], size)
    BY DEF IsArray
  <2>7. /\ iterator = [i \in IndexesOf(v) |-> iterator[i]]
        /\ \A i \in IndexesOf(v) : TableOf(v, i) = t => IsArray(iterator[i], size)
        /\ \A i \in IndexesOf(v) : TableOf(v, i) # t => iterator[i] = g.iterator[i]
    BY DEF IsArray
  <2>8. ASSUME NEW i \in IndexesOf(v), TableOf(v, i) = t, NEW r \in Nat, IsUsed(k, r)
        PROVE  iterator[i][r] # Singular
    <3>1. IsUsed(Keeper(g, t), r) /\ r \in 0..(n - 1)
      BY <1>0, <2>5, <2>8
    <3>2. r \in 0..(size - 1)
      BY <1>0, <1>2, <3>1
    <3>3. iterator[i][r] = g.iterator[i][r]
      BY <2>8, <3>1, <3>2
    <3> QED
      BY <2>8, <3>1, <3>3 DEF IsStorage
  <2>9. /\ \A f \in FieldsOf(v, t) : \A r \in 0..(size - 1) :
             columns[f][r] = IF r \in 0..(n - 1) THEN Cell(g, t, f, r)
                             ELSE Default(FieldType(v, t, f))
        /\ \A i \in IndexesOf(v) : \A r \in 0..(size - 1) : TableOf(v, i) = t =>
             iterator[i][r] = IF r \in 0..(n - 1) THEN g.iterator[i][r] ELSE Singular
    OBVIOUS
  <2> HIDE DEF columns, iterator
  <2>10. g.index = [i \in IndexesOf(v) |-> g.index[i]]
    BY DEF IsStorage
  <2> DEFINE index == g.index
  <2> HIDE DEF index
  <2>11. /\ IsStorage(h, v) /\ h.schema = g.schema /\ h.ok = g.ok
         /\ Keeper(h, t) = k /\ \A s \in TablesOf(v) : s # t => h.tables[s] = g.tables[s]
         /\ \A f, r : Cell(h, t, f, r) = columns[f][r]
         /\ h.index = index /\ h.iterator = iterator
    <3>1. /\ h.tables = [g.tables EXCEPT ![t] = [freedom |-> k, columns |-> columns]]
          /\ h.iterator = iterator /\ h.index = index
      BY <2>2, <2>3, <2>4 DEF index
    <3>2. index = [i \in IndexesOf(v) |-> index[i]]
      BY <2>10 DEF index
    <3>3. IsReplaced(g, h, v, t, k, columns, index, iterator)
      BY <2>4, <2>5, <2>6, <2>7, <2>8, <3>1, <3>2 DEF IsReplaced
    <3> QED
      BY <3>3, TableReplaced
  <2>12. Keeper(h, t) = IF size < n THEN Keeper(g, t) ELSE k
    BY <1>2, <2>11
  <2>13. Size(h, t) = size
    BY <2>5, <2>11 DEF Size
  <2> QED
    BY <1>2, <2>5, <2>7, <2>9, <2>11, <2>12, <2>13 DEF Resized, index, k
<1> QED
  BY <1>1, <1>2

(* The part of a vector *)
LEMMA InIs ==
  ASSUME NEW r \in Nat, NEW n \in Nat, NEW s \in Int
  PROVE  s \in r..(r + n - 1) <=> In(s, r, n)
BY DEF In

(* internal_insert and internal_vector_insert of free records *)
InsertedRows(g, h, v, t, r, n) ==
  /\ h.schema = g.schema /\ h.ok = g.ok
  /\ \A s \in TablesOf(v) : s # t => h.tables[s] = g.tables[s]
  /\ Keeper(h, t) = UseVector(Keeper(g, t), r, n) /\ Size(h, t) = Size(g, t)
  /\ \A s \in Nat : IsUsed(Keeper(h, t), s) <=> IsUsed(Keeper(g, t), s) \/ In(s, r, n)
  /\ \A f \in FieldsOf(v, t) : \A s : Cell(h, t, f, s) = Cell(g, t, f, s)
  /\ h.index = g.index
  /\ \A i \in IndexesOf(v) : TableOf(v, i) # t => h.iterator[i] = g.iterator[i]
  /\ \A i \in IndexesOf(v) : \A s \in 0..(Size(g, t) - 1) : TableOf(v, i) = t =>
       h.iterator[i][s] = IF In(s, r, n) THEN End ELSE g.iterator[i][s]

(* internal_insert and internal_vector_insert use free records and reset their*)
(* iterators.                                                                *)
LEMMA InsertedIs ==
  ASSUME NEW g, NEW v, IsStorage(g, v), NEW t \in TablesOf(v), NEW r \in Nat, NEW n \in Nat,
         r + n <= Size(g, t), \A s \in r..(r + n - 1) : ~IsUsed(Keeper(g, t), s),
         NEW h, h = Inserted(g, t, r, n)
  PROVE  IsStorage(h, v) /\ InsertedRows(g, h, v, t, r, n)
<1>0. /\ v \in Versions /\ g.version = v
      /\ DOMAIN g.tables = TablesOf(v) /\ DOMAIN g.index = IndexesOf(v)
      /\ DOMAIN g.iterator = IndexesOf(v)
      /\ KeeperInv(Keeper(g, t)) /\ Size(g, t) \in Nat
      /\ \A s \in Int : IsUsed(Keeper(g, t), s) => s \in 0..(Size(g, t) - 1)
      /\ \A i \in IndexesOf(v) :
           TableOf(v, i) = t => DOMAIN g.iterator[i] = 0..(Size(g, t) - 1)
  BY StorageHas
<1> DEFINE k == UseVector(Keeper(g, t), r, n)
           m == Size(g, t)
           columns == g.tables[t].columns
           index == g.index
           iterator == [i \in IndexesOf(v) |->
                         IF TableOf(v, i) = t
                         THEN [s \in 0..(m - 1) |-> IF In(s, r, n) THEN End ELSE g.iterator[i][s]]
                         ELSE g.iterator[i]]
           table == [g.tables[t] EXCEPT !.freedom = UseVector(@, r, n)]
           it == [i \in DOMAIN g.iterator |->
                   [s \in DOMAIN g.iterator[i] |->
                     IF Indexes[g.version][i].t = t /\ s \in r..(r + n - 1) THEN End
                     ELSE g.iterator[i][s]]]
<1>1. h = WithTable(g, t, table, it)
  BY DEF Inserted, WithTable
<1>2. IsTable(v, t, g.tables[t])
  BY DEF IsStorage
<1>3. table = [freedom |-> k, columns |-> columns]
  BY <1>2 DEF IsTable, Keeper
<1>4. it = iterator
  <2>1. ASSUME NEW i \in IndexesOf(v)
        PROVE  it[i] = iterator[i]
    <3>1. CASE TableOf(v, i) = t
      <4>1. it[i] = [s \in 0..(m - 1) |-> IF s \in r..(r + n - 1) THEN End ELSE g.iterator[i][s]]
        BY <1>0, <3>1 DEF TableOf
      <4>2. iterator[i] = [s \in 0..(m - 1) |-> IF In(s, r, n) THEN End ELSE g.iterator[i][s]]
        BY <3>1
      <4>3. \A s \in 0..(m - 1) : s \in r..(r + n - 1) <=> In(s, r, n)
        BY <1>0, InIs
      <4> QED
        BY <4>1, <4>2, <4>3
    <3>2. CASE TableOf(v, i) # t
      <4>1. it[i] = [s \in DOMAIN g.iterator[i] |-> g.iterator[i][s]]
        BY <1>0, <3>2 DEF TableOf
      <4>2. IsArray(g.iterator[i], Size(g, TableOf(v, i)))
        BY DEF IsStorage
      <4>3. iterator[i] = g.iterator[i]
        BY <3>2
      <4> QED
        BY <4>1, <4>2, <4>3 DEF IsArray
    <3> QED
      BY <3>1, <3>2
  <2>2. it = [i \in IndexesOf(v) |-> it[i]] /\ iterator = [i \in IndexesOf(v) |-> iterator[i]]
    BY <1>0
  <2> HIDE DEF it, iterator
  <2> QED
    BY <2>1, <2>2
<1> HIDE DEF table, it
<1>5. /\ IsRecord(h) /\ h.version = v /\ h.index = index /\ h.iterator = iterator
      /\ h.schema = g.schema /\ h.ok = g.ok
      /\ h.tables = [g.tables EXCEPT ![t] = [freedom |-> k, columns |-> columns]]
  <2>1. /\ IsRecord(h) /\ h.version = v /\ h.index = index /\ h.iterator = it
        /\ h.schema = g.schema /\ h.ok = g.ok /\ h.tables = [g.tables EXCEPT ![t] = table]
    BY <1>1, ExceptTable
  <2> QED
    BY <1>3, <1>4, <2>1
<1>6. /\ KeeperInv(k) /\ KeeperSize(k) = m
      /\ \A s \in Nat : IsUsed(k, s) <=> IsUsed(Keeper(g, t), s) \/ In(s, r, n)
  <2> DEFINE a == Keeper(g, t)
  <2> HIDE DEF a
  <2>1. KeeperInv(a) /\ r + n <= KeeperSize(a) /\ \A s \in r..(r + n - 1) : ~IsUsed(a, s)
    BY <1>0 DEF a, Size
  <2>2. /\ Keeps(a, k, KeeperSize(a), UsedCount(a) + n)
        /\ \A s \in Nat : IsUsed(k, s) <=> IsUsed(a, s) \/ In(s, r, n)
    BY <2>1, UseVectorKeeps DEF a
  <2> QED
    BY <2>2 DEF Keeps, a, Size
<1> HIDE DEF k
<1>7. /\ columns = [f \in FieldsOf(v, t) |-> columns[f]]
      /\ \A f \in FieldsOf(v, t) : IsArray(columns[f], m)
  BY <1>2 DEF IsTable, Size, Keeper
<1>8. /\ iterator = [i \in IndexesOf(v) |-> iterator[i]]
      /\ \A i \in IndexesOf(v) : TableOf(v, i) = t => IsArray(iterator[i], m)
      /\ \A i \in IndexesOf(v) : TableOf(v, i) # t => iterator[i] = g.iterator[i]
  BY DEF IsArray
<1>9. \A i \in IndexesOf(v) : \A s \in 0..(m - 1) : TableOf(v, i) = t =>
        iterator[i][s] = IF In(s, r, n) THEN End ELSE g.iterator[i][s]
  OBVIOUS
<1>10. ASSUME NEW i \in IndexesOf(v), TableOf(v, i) = t, NEW s \in Nat, IsUsed(k, s)
       PROVE  iterator[i][s] # Singular
  <2>0. End # Singular
    BY DEF End, Singular
  <2>1. CASE In(s, r, n)
    <3>1. s \in 0..(m - 1)
      BY <1>0, <2>1 DEF In
    <3> QED
      BY <1>9, <1>10, <2>0, <2>1, <3>1
  <2>2. CASE ~In(s, r, n)
    <3>1. IsUsed(Keeper(g, t), s) /\ s \in 0..(m - 1)
      BY <1>0, <1>6, <1>10, <2>2
    <3>2. g.iterator[i][s] # Singular
      BY <1>10, <3>1 DEF IsStorage
    <3> QED
      BY <1>9, <1>10, <2>2, <3>1, <3>2
  <2> QED
    BY <2>1, <2>2
<1>11. index = [i \in IndexesOf(v) |-> index[i]]
  BY DEF IsStorage
<1> HIDE DEF columns, iterator, index
<1>12. IsReplaced(g, h, v, t, k, columns, index, iterator)
  BY <1>5, <1>6, <1>7, <1>8, <1>10, <1>11 DEF IsReplaced
<1>13. /\ IsStorage(h, v) /\ h.schema = g.schema /\ h.ok = g.ok
       /\ Keeper(h, t) = k /\ \A s \in TablesOf(v) : s # t => h.tables[s] = g.tables[s]
       /\ \A f, s : Cell(h, t, f, s) = columns[f][s]
       /\ h.index = index /\ h.iterator = iterator
  BY <1>12, TableReplaced
<1>14. Size(h, t) = m
  BY <1>6, <1>13 DEF Size
<1>15. \A f, s : Cell(h, t, f, s) = Cell(g, t, f, s)
  BY <1>13 DEF Cell, columns
<1> QED
  BY <1>6, <1>8, <1>9, <1>13, <1>14, <1>15 DEF InsertedRows, index, k

(* internal_delete of used records *)
DeletedRows(g, h, v, t, r, n) ==
  /\ h.schema = g.schema /\ h.ok = g.ok
  /\ \A s \in TablesOf(v) : s # t => h.tables[s] = g.tables[s]
  /\ Keeper(h, t) = FreedFromLast(Keeper(g, t), r, n) /\ Size(h, t) = Size(g, t)
  /\ \A s \in Nat : IsUsed(Keeper(h, t), s) <=> IsUsed(Keeper(g, t), s) /\ ~In(s, r, n)
  /\ \A f \in FieldsOf(v, t) : \A s \in 0..(Size(g, t) - 1) :
       Cell(h, t, f, s) = IF In(s, r, n) THEN Default(FieldType(v, t, f)) ELSE Cell(g, t, f, s)
  /\ \A i \in IndexesOf(v) : TableOf(v, i) # t =>
       h.index[i] = g.index[i] /\ h.iterator[i] = g.iterator[i]
  /\ \A i \in IndexesOf(v) : TableOf(v, i) = t =>
       h.index[i] = g.index[i] \ {g.iterator[i][s] : s \in r..(r + n - 1)}
  /\ \A i \in IndexesOf(v) : \A s \in 0..(Size(g, t) - 1) : TableOf(v, i) = t =>
       h.iterator[i][s] = IF In(s, r, n) THEN End ELSE g.iterator[i][s]

(* internal_delete frees the records of a vector, resets their cells, and    *)
(* removes their entries.                                                    *)
LEMMA DeletedIs ==
  ASSUME NEW g, NEW v, IsStorage(g, v), NEW t \in TablesOf(v), NEW r \in Nat, NEW n \in Nat,
         r + n <= Size(g, t), \A s \in r..(r + n - 1) : IsUsed(Keeper(g, t), s),
         NEW h, h = Deleted(g, t, r, n)
  PROVE  IsStorage(h, v) /\ DeletedRows(g, h, v, t, r, n)
<1>0. /\ v \in Versions /\ g.version = v
      /\ DOMAIN g.tables = TablesOf(v) /\ DOMAIN g.index = IndexesOf(v)
      /\ DOMAIN g.iterator = IndexesOf(v)
      /\ KeeperInv(Keeper(g, t)) /\ Size(g, t) \in Nat
      /\ DOMAIN g.tables[t].columns = FieldsOf(v, t)
      /\ \A f \in FieldsOf(v, t) : DOMAIN g.tables[t].columns[f] = 0..(Size(g, t) - 1)
      /\ \A s \in Int : IsUsed(Keeper(g, t), s) => s \in 0..(Size(g, t) - 1)
      /\ \A i \in IndexesOf(v) :
           TableOf(v, i) = t => DOMAIN g.iterator[i] = 0..(Size(g, t) - 1)
  BY StorageHas
<1> DEFINE k == FreedFromLast(Keeper(g, t), r, n)
           m == Size(g, t)
           out == r..(r + n - 1)
           columns == [f \in FieldsOf(v, t) |->
                        [s \in 0..(m - 1) |->
                          IF In(s, r, n) THEN Default(FieldType(v, t, f)) ELSE Cell(g, t, f, s)]]
           index == [i \in IndexesOf(v) |->
                      IF TableOf(v, i) = t THEN g.index[i] \ {g.iterator[i][s] : s \in out}
                      ELSE g.index[i]]
           iterator == [i \in IndexesOf(v) |->
                         IF TableOf(v, i) = t
                         THEN [s \in 0..(m - 1) |-> IF In(s, r, n) THEN End ELSE g.iterator[i][s]]
                         ELSE g.iterator[i]]
           cleared(f, s, value) ==
             IF s \in out THEN Default(FieldType(g.version, t, f)) ELSE value
           table == [freedom |-> FreedFromLast(g.tables[t].freedom, r, n),
                     columns |-> [f \in DOMAIN g.tables[t].columns |->
                                   [s \in DOMAIN g.tables[t].columns[f] |->
                                     cleared(f, s, g.tables[t].columns[f][s])]]]
           ix == [i \in DOMAIN g.index |->
                   IF Indexes[g.version][i].t = t THEN Others(g, i, out) ELSE g.index[i]]
           it == [i \in DOMAIN g.iterator |->
                   [s \in DOMAIN g.iterator[i] |->
                     IF Indexes[g.version][i].t = t /\ s \in out THEN End
                     ELSE g.iterator[i][s]]]
<1>1. h = WithIndexes(g, t, table, ix, it)
  BY DEF Deleted, WithIndexes
<1>2. IsTable(v, t, g.tables[t])
  BY DEF IsStorage
<1>2a. \A s \in 0..(m - 1) : s \in out <=> In(s, r, n)
  BY <1>0, InIs
<1> HIDE DEF out
<1>3. table = [freedom |-> k, columns |-> columns]
  <2>1. [f \in DOMAIN g.tables[t].columns |->
          [s \in DOMAIN g.tables[t].columns[f] |-> cleared(f, s, g.tables[t].columns[f][s])]]
        = columns
    <3>1. \A f \in FieldsOf(v, t) :
            [s \in DOMAIN g.tables[t].columns[f] |-> cleared(f, s, g.tables[t].columns[f][s])]
            = columns[f]
      BY <1>0, <1>2a DEF Cell
    <3> HIDE DEF cleared
    <3> QED
      BY <1>0, <3>1
  <2> HIDE DEF columns, cleared
  <2> QED
    BY <2>1 DEF Keeper
<1>4. it = iterator
  <2>1. ASSUME NEW i \in IndexesOf(v)
        PROVE  it[i] = iterator[i]
    <3>1. CASE TableOf(v, i) = t
      <4>1. it[i] = [s \in 0..(m - 1) |-> IF s \in out THEN End ELSE g.iterator[i][s]]
        BY <1>0, <3>1 DEF TableOf
      <4>2. iterator[i] = [s \in 0..(m - 1) |-> IF In(s, r, n) THEN End ELSE g.iterator[i][s]]
        BY <3>1
      <4> QED
        BY <1>2a, <4>1, <4>2
    <3>2. CASE TableOf(v, i) # t
      <4>1. it[i] = [s \in DOMAIN g.iterator[i] |-> g.iterator[i][s]]
        BY <1>0, <3>2 DEF TableOf
      <4>2. IsArray(g.iterator[i], Size(g, TableOf(v, i)))
        BY DEF IsStorage
      <4>3. iterator[i] = g.iterator[i]
        BY <3>2
      <4> QED
        BY <4>1, <4>2, <4>3 DEF IsArray
    <3> QED
      BY <3>1, <3>2
  <2>2. it = [i \in IndexesOf(v) |-> it[i]] /\ iterator = [i \in IndexesOf(v) |-> iterator[i]]
    BY <1>0
  <2> HIDE DEF it, iterator
  <2> QED
    BY <2>1, <2>2
<1>4a. ix = index
  BY <1>0 DEF TableOf, Others
<1> HIDE DEF table, it, ix
<1>5. /\ IsRecord(h) /\ h.version = v /\ h.index = index /\ h.iterator = iterator
      /\ h.schema = g.schema /\ h.ok = g.ok
      /\ h.tables = [g.tables EXCEPT ![t] = [freedom |-> k, columns |-> columns]]
  <2>1. /\ IsRecord(h) /\ h.version = v /\ h.index = ix /\ h.iterator = it
        /\ h.schema = g.schema /\ h.ok = g.ok /\ h.tables = [g.tables EXCEPT ![t] = table]
    BY <1>1, ExceptIs
  <2> QED
    BY <1>3, <1>4, <1>4a, <2>1
<1>6. /\ KeeperInv(k) /\ KeeperSize(k) = m
      /\ \A s \in Nat : IsUsed(k, s) <=> IsUsed(Keeper(g, t), s) /\ ~In(s, r, n)
  <2> DEFINE a == Keeper(g, t)
  <2> HIDE DEF a
  <2>1. KeeperInv(a) /\ r + n <= KeeperSize(a) /\ \A s \in r..(r + n - 1) : IsUsed(a, s)
    BY <1>0 DEF a, Size
  <2>2. /\ KeeperInv(k) /\ KeeperSize(k) = KeeperSize(a)
        /\ \A s \in Nat : IsUsed(k, s) <=> IsUsed(a, s) /\ ~In(s, r, n)
    BY <2>1, FreedKeeps DEF a
  <2> QED
    BY <2>2 DEF a, Size
<1> HIDE DEF k
<1>7. /\ columns = [f \in FieldsOf(v, t) |-> columns[f]]
      /\ \A f \in FieldsOf(v, t) : IsArray(columns[f], m)
  BY DEF IsArray
<1>8. /\ iterator = [i \in IndexesOf(v) |-> iterator[i]]
      /\ \A i \in IndexesOf(v) : TableOf(v, i) = t => IsArray(iterator[i], m)
      /\ \A i \in IndexesOf(v) : TableOf(v, i) # t => iterator[i] = g.iterator[i]
  BY DEF IsArray
<1>9. /\ \A i \in IndexesOf(v) : \A s \in 0..(m - 1) : TableOf(v, i) = t =>
           iterator[i][s] = IF In(s, r, n) THEN End ELSE g.iterator[i][s]
      /\ \A f \in FieldsOf(v, t) : \A s \in 0..(m - 1) :
           columns[f][s] =
             IF In(s, r, n) THEN Default(FieldType(v, t, f)) ELSE Cell(g, t, f, s)
  OBVIOUS
<1>10. ASSUME NEW i \in IndexesOf(v), TableOf(v, i) = t, NEW s \in Nat, IsUsed(k, s)
       PROVE  iterator[i][s] # Singular
  <2>1. IsUsed(Keeper(g, t), s) /\ ~In(s, r, n) /\ s \in 0..(m - 1)
    BY <1>0, <1>6, <1>10
  <2>2. g.iterator[i][s] # Singular
    BY <1>10, <2>1 DEF IsStorage
  <2> QED
    BY <1>9, <1>10, <2>1, <2>2
<1>11. /\ index = [i \in IndexesOf(v) |-> index[i]]
       /\ \A i \in IndexesOf(v) :
            index[i] = IF TableOf(v, i) = t THEN g.index[i] \ {g.iterator[i][s] : s \in out}
                       ELSE g.index[i]
  OBVIOUS
<1> HIDE DEF columns, iterator, index
<1>12. IsReplaced(g, h, v, t, k, columns, index, iterator)
  BY <1>5, <1>6, <1>7, <1>8, <1>10, <1>11 DEF IsReplaced
<1>13. /\ IsStorage(h, v) /\ h.schema = g.schema /\ h.ok = g.ok
       /\ Keeper(h, t) = k /\ \A s \in TablesOf(v) : s # t => h.tables[s] = g.tables[s]
       /\ \A f, s : Cell(h, t, f, s) = columns[f][s]
       /\ h.index = index /\ h.iterator = iterator
  BY <1>12, TableReplaced
<1>14. Size(h, t) = m
  BY <1>6, <1>13 DEF Size
<1>15. \A i \in IndexesOf(v) : TableOf(v, i) = t =>
         h.index[i] = g.index[i] \ {g.iterator[i][s] : s \in r..(r + n - 1)}
  BY <1>11, <1>13 DEF out
<1> QED
  BY <1>6, <1>8, <1>9, <1>11, <1>13, <1>14, <1>15 DEF DeletedRows, k

(* The values of an update, stored *)
StoredCells(g, h, v, t, r, f, vs) ==
  /\ h.schema = g.schema /\ h.ok = g.ok /\ h.index = g.index /\ h.iterator = g.iterator
  /\ \A s \in TablesOf(v) : s # t => h.tables[s] = g.tables[s]
  /\ Keeper(h, t) = Keeper(g, t)
  /\ \A e \in FieldsOf(v, t) : \A s \in 0..(Size(g, t) - 1) :
       Cell(h, t, e, s) =
         IF e = f /\ In(s, r, Len(vs)) THEN vs[s - r + 1] ELSE Cell(g, t, e, s)

(* internal_update stores the values first, and leaves the indexes alone. *)
LEMMA StoredIs ==
  ASSUME NEW g, NEW v, IsStorage(g, v), NEW t \in TablesOf(v), NEW f \in FieldsOf(v, t),
         NEW r \in Nat, NEW vs, Len(vs) \in Nat, DOMAIN vs = 1..Len(vs),
         NEW h, h = Stored(g, t, r, f, vs)
  PROVE  IsStorage(h, v) /\ StoredCells(g, h, v, t, r, f, vs)
<1>0. /\ v \in Versions /\ g.version = v
      /\ DOMAIN g.tables = TablesOf(v)
      /\ KeeperInv(Keeper(g, t)) /\ Size(g, t) \in Nat
      /\ DOMAIN g.tables[t].columns = FieldsOf(v, t)
      /\ \A e \in FieldsOf(v, t) : DOMAIN g.tables[t].columns[e] = 0..(Size(g, t) - 1)
  BY StorageHas
<1> DEFINE k == Keeper(g, t)
           m == Size(g, t)
           n == Len(vs)
           stored == [s \in DOMAIN g.tables[t].columns[f] |->
                       IF s - r + 1 \in DOMAIN vs THEN vs[s - r + 1]
                       ELSE g.tables[t].columns[f][s]]
           columns == [g.tables[t].columns EXCEPT ![f] = stored]
           table == [g.tables[t] EXCEPT !.columns = columns]
           iterator == g.iterator
           index == g.index
<1>1. h = [g EXCEPT !.tables[t] = table]
  BY DEF Stored
<1>2. IsTable(v, t, g.tables[t])
  BY DEF IsStorage
<1>3. table = [freedom |-> k, columns |-> columns]
  BY <1>2 DEF IsTable, Keeper
<1>4. ASSUME NEW s \in 0..(m - 1)
      PROVE  stored[s] = IF In(s, r, n) THEN vs[s - r + 1] ELSE Cell(g, t, f, s)
  <2>1. s - r + 1 \in DOMAIN vs <=> In(s, r, n)
    BY <1>0 DEF In
  <2> QED
    BY <1>0, <2>1 DEF Cell
<1>5. IsArray(stored, m)
  BY <1>0 DEF IsArray
<1> HIDE DEF stored
<1>6. /\ columns = [e \in FieldsOf(v, t) |-> columns[e]]
      /\ \A e \in FieldsOf(v, t) : IsArray(columns[e], m)
      /\ columns[f] = stored
      /\ \A e \in FieldsOf(v, t) : e # f => columns[e] = g.tables[t].columns[e]
  <2>1. /\ columns = [e \in FieldsOf(v, t) |-> columns[e]]
        /\ columns[f] = stored
        /\ \A e \in FieldsOf(v, t) : e # f => columns[e] = g.tables[t].columns[e]
    BY <1>0
  <2>2. \A e \in FieldsOf(v, t) : IsArray(g.tables[t].columns[e], m)
    BY <1>2 DEF IsTable, Size, Keeper
  <2> HIDE DEF columns
  <2> QED
    BY <1>5, <2>1, <2>2
<1> HIDE DEF table, columns
<1>7. /\ h.version = v /\ h.index = g.index /\ h.iterator = g.iterator
      /\ h.schema = g.schema /\ h.ok = g.ok
      /\ h.tables = [g.tables EXCEPT ![t] = table]
      /\ IsRecord(h)
  <2>1. g = [version |-> v, tables |-> g.tables, index |-> g.index, iterator |-> g.iterator,
             schema |-> g.schema, ok |-> g.ok]
    BY DEF IsStorage
  <2>2. h = [version |-> h.version, tables |-> h.tables, index |-> h.index,
             iterator |-> h.iterator, schema |-> h.schema, ok |-> h.ok]
    BY <1>1, <2>1
  <2>3. /\ h.version = v /\ h.index = g.index /\ h.iterator = g.iterator
        /\ h.schema = g.schema /\ h.ok = g.ok
        /\ h.tables = [g.tables EXCEPT ![t] = table]
    BY <1>1, <2>1
  <2> QED
    BY <2>2, <2>3 DEF IsRecord
<1>8. /\ \A i \in IndexesOf(v) : TableOf(v, i) = t => IsArray(iterator[i], m)
      /\ \A i \in IndexesOf(v) : \A s \in Nat :
           TableOf(v, i) = t /\ IsUsed(k, s) => iterator[i][s] # Singular
      /\ iterator = [i \in IndexesOf(v) |-> iterator[i]]
      /\ index = [i \in IndexesOf(v) |-> index[i]]
  BY DEF IsStorage
<1>9. KeeperInv(k) /\ KeeperSize(k) = m
  BY <1>0 DEF Size
<1> HIDE DEF k
<1>10. IsReplaced(g, h, v, t, k, columns, index, iterator)
  <2> HIDE DEF m
  <2>1. h.tables = [g.tables EXCEPT ![t] = [freedom |-> k, columns |-> columns]]
    BY <1>3, <1>7
  <2>2. \A i \in IndexesOf(v) : TableOf(v, i) # t => iterator[i] = g.iterator[i]
    OBVIOUS
  <2>3. h.index = index /\ h.iterator = iterator
    BY <1>7
  <2> HIDE DEF index, iterator
  <2> QED
    BY <1>6, <1>7, <1>8, <1>9, <2>1, <2>2, <2>3 DEF IsReplaced
<1>11. /\ IsStorage(h, v) /\ h.schema = g.schema /\ h.ok = g.ok
       /\ Keeper(h, t) = k /\ \A s \in TablesOf(v) : s # t => h.tables[s] = g.tables[s]
       /\ \A e, s : Cell(h, t, e, s) = columns[e][s]
       /\ h.index = index /\ h.iterator = iterator
  <2> HIDE DEF index, iterator
  <2> QED
    BY <1>10, TableReplaced
<1>12. ASSUME NEW e \in FieldsOf(v, t), NEW s \in 0..(m - 1)
       PROVE  Cell(h, t, e, s) =
                IF e = f /\ In(s, r, n) THEN vs[s - r + 1] ELSE Cell(g, t, e, s)
  <2>1. CASE e = f
    <3> DEFINE x == IF In(s, r, n) THEN vs[s - r + 1] ELSE Cell(g, t, f, s)
    <3>1. stored[s] = x
      BY <1>4
    <3>2. x = IF e = f /\ In(s, r, n) THEN vs[s - r + 1] ELSE Cell(g, t, e, s)
      BY <2>1
    <3>3. Cell(h, t, e, s) = stored[s]
      BY <1>6, <1>11, <2>1
    <3> HIDE DEF x
    <3> QED
      BY <3>1, <3>2, <3>3
  <2>2. CASE e # f
    <3>1. Cell(h, t, e, s) = Cell(g, t, e, s)
      <4>1. Cell(h, t, e, s) = columns[e][s]
        BY <1>11
      <4>2. columns[e] = g.tables[t].columns[e]
        BY <1>6, <2>2
      <4> QED
        BY <4>1, <4>2 DEF Cell
    <3> DEFINE y == vs[s - r + 1]
               z == Cell(g, t, e, s)
    <3>2. z = IF e = f /\ In(s, r, n) THEN y ELSE z
      <4> HIDE DEF y, z, n
      <4> QED
        BY <2>2
    <3> QED
      BY <3>1, <3>2
  <2> QED
    BY <2>1, <2>2
<1> QED
  BY <1>11, <1>12 DEF StoredCells, index, iterator, k

(* The indexes of the records of a vector, updated *)
ReindexedRows(g, h, v, t, r, f, n) ==
  /\ h.schema = g.schema /\ h.tables = g.tables
  /\ h.ok <=> \A i \in Triggered(g, t, f) : ~Duplicate(g, i, r, n)
  /\ \A i \in IndexesOf(v) :
       /\ i \notin Reached(g, t, r, f, n) =>
            h.index[i] = g.index[i] /\ h.iterator[i] = g.iterator[i]
       /\ i \in Reached(g, t, r, f, n) =>
            /\ h.index[i] = Others(g, i, r..(r + n - 1)) \union
                 {<<Key(g, i, s), s>> : s \in {x \in r..(r + n - 1) : Added(g, i, r, n, x)}}
            /\ \A s \in 0..(Size(g, TableOf(v, i)) - 1) :
                 h.iterator[i][s] = IF s \notin r..(r + n - 1) THEN g.iterator[i][s]
                                    ELSE IF Added(g, i, r, n, s) THEN <<Key(g, i, s), s>> ELSE End

(* internal_update then moves the entries of the indexes that it triggers. *)
LEMMA ReindexedIs ==
  ASSUME NEW g, NEW v, IsStorage(g, v), NEW t \in TablesOf(v), NEW f, NEW r \in Nat,
         NEW n \in Nat, NEW h, h = Reindexed(g, t, r, f, n)
  PROVE  IsStorage(h, v) /\ ReindexedRows(g, h, v, t, r, f, n) /\ h.ok \in BOOLEAN
<1>0. /\ v \in Versions /\ g.version = v
      /\ DOMAIN g.index = IndexesOf(v) /\ DOMAIN g.iterator = IndexesOf(v)
      /\ \A i \in IndexesOf(v) : TableOf(v, i) \in TablesOf(v)
      /\ \A i \in IndexesOf(v) : DOMAIN g.iterator[i] = 0..(Size(g, TableOf(v, i)) - 1)
  BY StorageHas
<1> DEFINE records == r..(r + n - 1)
           reached == Reached(g, t, r, f, n)
           added(i) == {s \in records : Added(g, i, r, n, s)}
           index == [i \in DOMAIN g.index |->
                      IF i \in reached
                      THEN Others(g, i, records) \union {<<Key(g, i, s), s>> : s \in added(i)}
                      ELSE g.index[i]]
           iterator == [i \in DOMAIN g.iterator |->
                         [s \in DOMAIN g.iterator[i] |->
                           IF i \notin reached \/ s \notin records THEN g.iterator[i][s]
                           ELSE IF s \in added(i) THEN <<Key(g, i, s), s>> ELSE End]]
           ok == \A i \in Triggered(g, t, f) : ~Duplicate(g, i, r, n)
<1>1. h = [g EXCEPT !.index = index, !.iterator = iterator, !.ok = ok]
  BY DEF Reindexed
<1>2. /\ index = [i \in IndexesOf(v) |-> index[i]]
      /\ iterator = [i \in IndexesOf(v) |-> iterator[i]]
  BY <1>0
<1>3. ASSUME NEW i \in IndexesOf(v)
      PROVE  /\ i \notin reached => index[i] = g.index[i]
             /\ i \in reached =>
                  index[i] = Others(g, i, records) \union {<<Key(g, i, s), s>> : s \in added(i)}
             /\ iterator[i] = [s \in 0..(Size(g, TableOf(v, i)) - 1) |->
                                IF i \notin reached \/ s \notin records THEN g.iterator[i][s]
                                ELSE IF s \in added(i) THEN <<Key(g, i, s), s>> ELSE End]
  <2> HIDE DEF reached, records, added
  <2> QED
    BY <1>0
<1> HIDE DEF index, iterator
<1>4. ASSUME NEW i \in IndexesOf(v)
      PROVE  /\ IsArray(iterator[i], Size(g, TableOf(v, i)))
             /\ i \notin reached => iterator[i] = g.iterator[i]
             /\ i \in reached => \A s \in 0..(Size(g, TableOf(v, i)) - 1) :
                  iterator[i][s] = IF s \notin records THEN g.iterator[i][s]
                                   ELSE IF s \in added(i) THEN <<Key(g, i, s), s>> ELSE End
  <2> DEFINE a == iterator[i]
             b == g.iterator[i]
             z == Size(g, TableOf(v, i))
  <2>1. a = [s \in 0..(z - 1) |->
              IF i \notin reached \/ s \notin records THEN b[s]
              ELSE IF s \in added(i) THEN <<Key(g, i, s), s>> ELSE End]
    BY <1>3
  <2>2. b = [s \in 0..(z - 1) |-> b[s]]
    BY DEF IsStorage, IsArray
  <2> HIDE DEF a, b, z, reached, records, added
  <2>3. IsArray(a, z)
    BY <2>1 DEF IsArray
  <2>4. i \notin reached => a = b
    BY <2>1, <2>2
  <2>5. i \in reached => \A s \in 0..(z - 1) :
          a[s] = IF s \notin records THEN b[s]
                 ELSE IF s \in added(i) THEN <<Key(g, i, s), s>> ELSE End
    BY <2>1
  <2> QED
    BY <2>3, <2>4, <2>5 DEF a, b, z
<1>5. ASSUME NEW i \in IndexesOf(v), NEW s \in Nat, IsUsed(Keeper(g, TableOf(v, i)), s)
      PROVE  iterator[i][s] # Singular
  <2>1. s \in 0..(Size(g, TableOf(v, i)) - 1) /\ g.iterator[i][s] # Singular
    <3>1. \A x \in Int : IsUsed(Keeper(g, TableOf(v, i)), x) => x \in 0..(Size(g, TableOf(v, i)) - 1)
      BY <1>0, StorageHas
    <3>2. g.iterator[i][s] # Singular
      BY <1>5 DEF IsStorage
    <3> QED
      BY <1>5, <3>1, <3>2
  <2>2. End # Singular /\ \A x, y : <<x, y>> # Singular
    BY DEF End, Singular
  <2>3. CASE i \notin reached
    BY <1>4, <2>1, <2>3
  <2>4. CASE i \in reached
    <3>1. iterator[i][s] = IF s \notin records THEN g.iterator[i][s]
                           ELSE IF s \in added(i) THEN <<Key(g, i, s), s>> ELSE End
      BY <1>4, <2>1, <2>4
    <3> HIDE DEF reached, records, added
    <3> QED
      BY <2>1, <2>2, <3>1
  <2> QED
    BY <2>3, <2>4
<1> HIDE DEF ok
<1>6. /\ h.version = v /\ h.index = index /\ h.iterator = iterator
      /\ h.schema = g.schema /\ h.ok = ok /\ h.tables = g.tables
      /\ h = [version |-> h.version, tables |-> h.tables, index |-> h.index,
              iterator |-> h.iterator, schema |-> h.schema, ok |-> h.ok]
  <2>1. g = [version |-> v, tables |-> g.tables, index |-> g.index, iterator |-> g.iterator,
             schema |-> g.schema, ok |-> g.ok]
    BY DEF IsStorage
  <2>2. h = [version |-> h.version, tables |-> h.tables, index |-> h.index,
             iterator |-> h.iterator, schema |-> h.schema, ok |-> h.ok]
    BY <1>1, <2>1
  <2>3. /\ h.version = v /\ h.index = index /\ h.iterator = iterator
        /\ h.schema = g.schema /\ h.ok = ok /\ h.tables = g.tables
    BY <1>1, <2>1
  <2> QED
    BY <2>2, <2>3
<1>7. IsStorage(h, v)
  <2>1. \A s : Keeper(h, s) = Keeper(g, s) /\ Size(h, s) = Size(g, s)
    BY <1>6 DEF Keeper, Size
  <2>2. /\ h.tables = [s \in TablesOf(v) |-> h.tables[s]]
        /\ h.index = [i \in IndexesOf(v) |-> h.index[i]]
        /\ h.iterator = [i \in IndexesOf(v) |-> h.iterator[i]]
        /\ \A s \in TablesOf(v) : IsTable(v, s, h.tables[s])
    BY <1>2, <1>6 DEF IsStorage
  <2>3. ASSUME NEW i \in IndexesOf(v)
        PROVE  /\ IsArray(h.iterator[i], Size(h, TableOf(v, i)))
               /\ \A s \in Nat : IsUsed(Keeper(h, TableOf(v, i)), s) => h.iterator[i][s] # Singular
    BY <1>4, <1>5, <1>6, <2>1
  <2> QED
    BY <1>0, <1>6, <2>2, <2>3 DEF IsStorage
<1>8. ReindexedRows(g, h, v, t, r, f, n)
  <2>1. ASSUME NEW i \in IndexesOf(v)
        PROVE  /\ i \notin reached =>
                    h.index[i] = g.index[i] /\ h.iterator[i] = g.iterator[i]
               /\ i \in reached =>
                    /\ h.index[i] =
                         Others(g, i, records) \union {<<Key(g, i, s), s>> : s \in added(i)}
                    /\ \A s \in 0..(Size(g, TableOf(v, i)) - 1) :
                         h.iterator[i][s] =
                           IF s \notin records THEN g.iterator[i][s]
                           ELSE IF s \in added(i) THEN <<Key(g, i, s), s>> ELSE End
    <3> HIDE DEF reached, records, added
    <3> QED
      BY <1>3, <1>4, <1>6
  <2>2. h.ok <=> \A i \in Triggered(g, t, f) : ~Duplicate(g, i, r, n)
    BY <1>6 DEF ok
  <2>3. h.schema = g.schema /\ h.tables = g.tables
    BY <1>6
  <2>4. ASSUME NEW i \in IndexesOf(v), NEW s \in records
        PROVE  s \in added(i) <=> Added(g, i, r, n, s)
    OBVIOUS
  <2>5. ASSUME NEW i \in IndexesOf(v), i \in reached
        PROVE  /\ h.index[i] = Others(g, i, records) \union
                    {<<Key(g, i, s), s>> : s \in {x \in records : Added(g, i, r, n, x)}}
               /\ \A s \in 0..(Size(g, TableOf(v, i)) - 1) :
                    h.iterator[i][s] =
                      IF s \notin records THEN g.iterator[i][s]
                      ELSE IF Added(g, i, r, n, s) THEN <<Key(g, i, s), s>> ELSE End
    BY <2>1, <2>4, <2>5
  <2> QED
    BY <2>1, <2>2, <2>3, <2>5 DEF ReindexedRows
<1>9. h.ok \in BOOLEAN
  BY <1>6 DEF ok
<1> QED
  BY <1>7, <1>8, <1>9

-----------------------------------------------------------------------------
(***************************************************************************)
(* Indexes.  A record is entered in an index when it is in use and its     *)
(* iterator is not the end.                                                *)
(***************************************************************************)

Entered(g, v, i, r) ==
  r \in Nat /\ IsUsed(Keeper(g, TableOf(v, i)), r) /\ g.iterator[i][r] # End

FieldAt(v, i, k) == Indexes[v][i].fs[k]

IsTriggerAt(v, i, k) == IsTrigger(Indexes[v][i], TableOf(v, i), FieldAt(v, i, k))

(* An index has the entries of its records, one for each, and they are up to *)
(* date but for the cells whose update has failed.                           *)
IndexAt(g, v, i, bad) ==
  /\ \A e : e \in g.index[i] <=> \E r : Entered(g, v, i, r) /\ g.iterator[i][r] = e
  /\ \A r : Entered(g, v, i, r) => g.iterator[i][r] = <<g.iterator[i][r][1], r>>
  /\ Indexes[v][i].unique => \A r, q :
       /\ Entered(g, v, i, r) /\ Entered(g, v, i, q)
       /\ g.iterator[i][r][1] = g.iterator[i][q][1]
       => r = q
  /\ \A r : \A k \in DOMAIN Indexes[v][i].fs :
       /\ Entered(g, v, i, r) /\ IsTriggerAt(v, i, k)
       /\ <<TableOf(v, i), r, FieldAt(v, i, k)>> \notin bad
       => g.iterator[i][r][1][k] = Cell(g, TableOf(v, i), FieldAt(v, i, k), r)

IndexesAt(g, v, bad) == \A i \in IndexesOf(v) : IndexAt(g, v, i, bad)

(* The fields of an index are fields of its table. *)
LEMMA FieldsOfIndex ==
  ASSUME NEW v \in Versions, NEW i \in IndexesOf(v), NEW k \in DOMAIN Indexes[v][i].fs
  PROVE  TableOf(v, i) \in TablesOf(v) /\ FieldAt(v, i, k) \in FieldsOf(v, TableOf(v, i))
<1>1. /\ Indexes[v][i].t \in DOMAIN Compiled[v].tables
      /\ Range(Indexes[v][i].fs) \subseteq DOMAIN Compiled[v].tables[Indexes[v][i].t].fields
  BY SchemaAssumption DEF IndexesOf
<1>2. Indexes[v][i].fs[k] \in Range(Indexes[v][i].fs)
  BY DEF Range
<1> QED
  BY <1>1, <1>2 DEF TableOf, TablesOf, FieldAt, FieldsOf

(* An index whose records, entries and cells do not change *)
SameIndex(g, h, v, i) ==
  /\ h.index[i] = g.index[i]
  /\ \A r : Entered(h, v, i, r) <=> Entered(g, v, i, r)
  /\ \A r : Entered(g, v, i, r) => h.iterator[i][r] = g.iterator[i][r]
  /\ \A r : \A k \in DOMAIN Indexes[v][i].fs :
       Entered(g, v, i, r) =>
         Cell(h, TableOf(v, i), FieldAt(v, i, k), r) = Cell(g, TableOf(v, i), FieldAt(v, i, k), r)

(* An index with the same records, entries and cells is as sound as before. *)
LEMMA IndexKept ==
  ASSUME NEW g, NEW h, NEW v, NEW i, NEW bad, IndexAt(g, v, i, bad), SameIndex(g, h, v, i)
  PROVE  IndexAt(h, v, i, bad)
<1>1. \A e : e \in h.index[i] <=> \E r : Entered(h, v, i, r) /\ h.iterator[i][r] = e
  BY DEF IndexAt, SameIndex
<1>2. \A r : Entered(h, v, i, r) => h.iterator[i][r] = <<h.iterator[i][r][1], r>>
  BY DEF IndexAt, SameIndex
<1>3. ASSUME Indexes[v][i].unique, NEW r, NEW q, Entered(h, v, i, r), Entered(h, v, i, q),
             h.iterator[i][r][1] = h.iterator[i][q][1]
      PROVE  r = q
  BY <1>3 DEF IndexAt, SameIndex
<1>4. ASSUME NEW r, NEW k \in DOMAIN Indexes[v][i].fs, Entered(h, v, i, r), IsTriggerAt(v, i, k),
             <<TableOf(v, i), r, FieldAt(v, i, k)>> \notin bad
      PROVE  h.iterator[i][r][1][k] = Cell(h, TableOf(v, i), FieldAt(v, i, k), r)
  BY <1>4 DEF IndexAt, SameIndex
<1> QED
  BY <1>1, <1>2, <1>3, <1>4 DEF IndexAt

(* More cells may be out of date. *)
LEMMA IndexBad ==
  ASSUME NEW g, NEW v, NEW i, NEW bad, IndexAt(g, v, i, bad), NEW more,
         \A r : \A k \in DOMAIN Indexes[v][i].fs :
           /\ Entered(g, v, i, r) /\ IsTriggerAt(v, i, k)
           /\ <<TableOf(v, i), r, FieldAt(v, i, k)>> \in bad
           => <<TableOf(v, i), r, FieldAt(v, i, k)>> \in more
  PROVE  IndexAt(g, v, i, more)
BY DEF IndexAt

(* remove_index_of leaves the entries of the other records. *)
LEMMA OthersIs ==
  ASSUME NEW g, NEW v, NEW i, NEW bad, IndexAt(g, v, i, bad), NEW out,
         \A s \in out : s \in Nat /\ IsUsed(Keeper(g, TableOf(v, i)), s)
  PROVE  \A e : e \in Others(g, i, out) <=>
           \E r : Entered(g, v, i, r) /\ r \notin out /\ g.iterator[i][r] = e
<1>1. ASSUME NEW e, e \in Others(g, i, out)
      PROVE  \E r : Entered(g, v, i, r) /\ r \notin out /\ g.iterator[i][r] = e
  <2>1. e \in g.index[i] /\ \A s \in out : g.iterator[i][s] # e
    BY <1>1 DEF Others
  <2>2. PICK r : Entered(g, v, i, r) /\ g.iterator[i][r] = e
    BY <2>1 DEF IndexAt
  <2> QED
    BY <2>1, <2>2
<1>2. ASSUME NEW r, Entered(g, v, i, r), r \notin out
      PROVE  g.iterator[i][r] \in Others(g, i, out)
  <2>1. g.iterator[i][r] \in g.index[i]
    BY <1>2 DEF IndexAt
  <2>2. ASSUME NEW s \in out
        PROVE  g.iterator[i][s] # g.iterator[i][r]
    <3>1. SUFFICES ASSUME g.iterator[i][s] = g.iterator[i][r]
                   PROVE  FALSE
      OBVIOUS
    <3>2. Entered(g, v, i, s)
      BY <1>2, <3>1 DEF Entered
    <3> DEFINE x == g.iterator[i][s]
    <3>3. x = <<x[1], s>> /\ x = <<x[1], r>>
      BY <1>2, <3>1, <3>2 DEF IndexAt
    <3> HIDE DEF x
    <3>4. s = r
      BY <3>3
    <3> QED
      BY <1>2, <3>4
  <2> QED
    BY <2>1, <2>2 DEF Others
<1> QED
  BY <1>1, <1>2

(* An index of another table *)
LEMMA OtherTable ==
  ASSUME NEW g, NEW h, NEW v, NEW i, h.tables[TableOf(v, i)] = g.tables[TableOf(v, i)],
         h.iterator[i] = g.iterator[i], h.index[i] = g.index[i]
  PROVE  SameIndex(g, h, v, i)
BY DEF SameIndex, Entered, Keeper, Cell

(* resize enters nothing. *)
LEMMA ResizedIndexes ==
  ASSUME NEW g, NEW h, NEW v, IsStorage(g, v), NEW t \in TablesOf(v), NEW size \in Nat,
         Resized(g, h, v, t, size), NEW bad, IndexesAt(g, v, bad)
  PROVE  IndexesAt(h, v, bad)
<1>1. SUFFICES ASSUME NEW i \in IndexesOf(v)
               PROVE  SameIndex(g, h, v, i)
  BY IndexKept DEF IndexesAt
<1>2. v \in Versions /\ TableOf(v, i) \in TablesOf(v)
  BY StorageHas
<1>3. CASE TableOf(v, i) # t
  <2>1. /\ h.tables[TableOf(v, i)] = g.tables[TableOf(v, i)]
        /\ h.iterator[i] = g.iterator[i] /\ h.index[i] = g.index[i]
    BY <1>2, <1>3 DEF Resized
  <2> QED
    BY <2>1, OtherTable
<1>4. CASE TableOf(v, i) = t
  <2>1. /\ Size(g, t) \in Nat
        /\ \A r \in Int : IsUsed(Keeper(g, t), r) => r \in 0..(Size(g, t) - 1)
    BY StorageHas
  <2>2. 0..(Size(g, t) - 1) \subseteq 0..(Size(h, t) - 1)
    BY <2>1 DEF Resized
  <2>3. ASSUME NEW r \in Nat, IsUsed(Keeper(g, t), r)
        PROVE  /\ h.iterator[i][r] = g.iterator[i][r]
               /\ \A f \in FieldsOf(v, t) : Cell(h, t, f, r) = Cell(g, t, f, r)
    <3>1. r \in 0..(Size(g, t) - 1) /\ r \in 0..(Size(h, t) - 1)
      BY <2>1, <2>2, <2>3
    <3> QED
      BY <1>4, <3>1 DEF Resized
  <2>4. \A r \in Nat : IsUsed(Keeper(h, t), r) <=> IsUsed(Keeper(g, t), r)
    BY DEF Resized
  <2>5. \A r : Entered(h, v, i, r) <=> Entered(g, v, i, r)
    BY <1>4, <2>3, <2>4 DEF Entered
  <2>6. \A r : Entered(g, v, i, r) => h.iterator[i][r] = g.iterator[i][r]
    BY <1>4, <2>3 DEF Entered
  <2>7. \A r : \A k \in DOMAIN Indexes[v][i].fs : Entered(g, v, i, r) =>
          Cell(h, t, FieldAt(v, i, k), r) = Cell(g, t, FieldAt(v, i, k), r)
    BY <1>2, <1>4, <2>3, FieldsOfIndex DEF Entered
  <2>8. h.index[i] = g.index[i]
    BY DEF Resized
  <2> QED
    BY <1>4, <2>5, <2>6, <2>7, <2>8 DEF SameIndex
<1> QED
  BY <1>3, <1>4

(* Nor does an insert. *)
LEMMA InsertedIndexes ==
  ASSUME NEW g, NEW h, NEW v, IsStorage(g, v), NEW t \in TablesOf(v), NEW r \in Nat, NEW n \in Nat,
         r + n <= Size(g, t), \A s \in r..(r + n - 1) : ~IsUsed(Keeper(g, t), s),
         InsertedRows(g, h, v, t, r, n), NEW bad, IndexesAt(g, v, bad)
  PROVE  IndexesAt(h, v, bad)
<1>1. SUFFICES ASSUME NEW i \in IndexesOf(v)
               PROVE  SameIndex(g, h, v, i)
  BY IndexKept DEF IndexesAt
<1>2. v \in Versions /\ TableOf(v, i) \in TablesOf(v)
  BY StorageHas
<1>3. CASE TableOf(v, i) # t
  <2>1. /\ h.tables[TableOf(v, i)] = g.tables[TableOf(v, i)]
        /\ h.iterator[i] = g.iterator[i] /\ h.index[i] = g.index[i]
    BY <1>2, <1>3 DEF InsertedRows
  <2> QED
    BY <2>1, OtherTable
<1>4. CASE TableOf(v, i) = t
  <2>1. /\ Size(g, t) \in Nat
        /\ \A s \in Int : IsUsed(Keeper(g, t), s) => s \in 0..(Size(g, t) - 1)
    BY StorageHas
  <2>2. ASSUME NEW s \in Nat, IsUsed(Keeper(g, t), s)
        PROVE  ~In(s, r, n) /\ h.iterator[i][s] = g.iterator[i][s]
    <3>1. s \in 0..(Size(g, t) - 1)
      BY <2>1, <2>2
    <3>2. ~In(s, r, n)
      BY <2>2, InIs
    <3> QED
      BY <1>4, <3>1, <3>2 DEF InsertedRows
  <2>3. ASSUME NEW s \in Nat, In(s, r, n)
        PROVE  h.iterator[i][s] = End
    <3>1. s \in 0..(Size(g, t) - 1)
      BY <2>1, <2>3 DEF In
    <3> QED
      BY <1>4, <2>3, <3>1 DEF InsertedRows
  <2>4. \A s \in Nat : IsUsed(Keeper(h, t), s) <=> IsUsed(Keeper(g, t), s) \/ In(s, r, n)
    BY DEF InsertedRows
  <2>5. \A s : Entered(h, v, i, s) <=> Entered(g, v, i, s)
    BY <1>4, <2>2, <2>3, <2>4 DEF Entered
  <2>6. \A s : Entered(g, v, i, s) => h.iterator[i][s] = g.iterator[i][s]
    BY <1>4, <2>2 DEF Entered
  <2>7. \A s : \A k \in DOMAIN Indexes[v][i].fs : Entered(g, v, i, s) =>
          Cell(h, t, FieldAt(v, i, k), s) = Cell(g, t, FieldAt(v, i, k), s)
    BY <1>2, <1>4, FieldsOfIndex DEF InsertedRows
  <2>8. h.index[i] = g.index[i]
    BY DEF InsertedRows
  <2> QED
    BY <1>4, <2>5, <2>6, <2>7, <2>8 DEF SameIndex
<1> QED
  BY <1>3, <1>4

(* A delete takes the entries of its records out, and their cells are again  *)
(* what the indexes say.                                                     *)
LEMMA DeletedIndexes ==
  ASSUME NEW g, NEW h, NEW v, IsStorage(g, v), NEW t \in TablesOf(v), NEW r \in Nat, NEW n \in Nat,
         r + n <= Size(g, t), \A s \in r..(r + n - 1) : IsUsed(Keeper(g, t), s),
         DeletedRows(g, h, v, t, r, n), NEW bad, IndexesAt(g, v, bad)
  PROVE  IndexesAt(h, v, bad \ {<<t, s, f>> : s \in r..(r + n - 1), f \in FieldsOf(v, t)})
<1> DEFINE out == r..(r + n - 1)
           cells == {<<t, s, f>> : s \in out, f \in FieldsOf(v, t)}
           rest == bad \ cells
<1>0. v \in Versions
  BY StorageHas
<1>1. SUFFICES ASSUME NEW i \in IndexesOf(v)
               PROVE  IndexAt(h, v, i, rest)
  BY DEF IndexesAt
<1>2. TableOf(v, i) \in TablesOf(v) /\ IndexAt(g, v, i, bad)
  BY StorageHas DEF IndexesAt
<1>2a. ASSUME NEW x, x \in bad, x \notin rest
       PROVE  \E s \in out, f \in FieldsOf(v, t) : x = <<t, s, f>>
  BY <1>2a
<1> HIDE DEF rest
<1>3. CASE TableOf(v, i) # t
  <2>1. /\ h.tables[TableOf(v, i)] = g.tables[TableOf(v, i)]
        /\ h.iterator[i] = g.iterator[i] /\ h.index[i] = g.index[i]
    BY <1>2, <1>3 DEF DeletedRows
  <2>2. IndexAt(h, v, i, bad)
    BY <1>2, <2>1, OtherTable, IndexKept
  <2>3. \A s, f : <<TableOf(v, i), s, f>> \in bad => <<TableOf(v, i), s, f>> \in rest
    BY <1>2a, <1>3
  <2> QED
    BY <2>2, <2>3, IndexBad
<1>4. CASE TableOf(v, i) = t
  <2>1. /\ Size(g, t) \in Nat
        /\ \A s \in Int : IsUsed(Keeper(g, t), s) => s \in 0..(Size(g, t) - 1)
    BY StorageHas
  <2>2. \A s \in Nat : s \in out <=> In(s, r, n)
    BY InIs
  <2>3. \A s \in Nat : IsUsed(Keeper(h, t), s) <=> IsUsed(Keeper(g, t), s) /\ s \notin out
    BY <2>2 DEF DeletedRows
  <2>4. ASSUME NEW s \in Nat, IsUsed(Keeper(g, t), s), s \notin out
        PROVE  /\ h.iterator[i][s] = g.iterator[i][s]
               /\ \A f \in FieldsOf(v, t) : Cell(h, t, f, s) = Cell(g, t, f, s)
    <3>1. s \in 0..(Size(g, t) - 1) /\ ~In(s, r, n)
      BY <2>1, <2>2, <2>4
    <3> QED
      BY <1>4, <3>1 DEF DeletedRows
  <2>5. \A s : Entered(h, v, i, s) <=> Entered(g, v, i, s) /\ s \notin out
    BY <1>4, <2>3, <2>4 DEF Entered
  <2>6. \A s : Entered(h, v, i, s) => h.iterator[i][s] = g.iterator[i][s]
    BY <1>4, <2>4, <2>5 DEF Entered
  <2>7. h.index[i] = Others(g, i, out)
    BY <1>4 DEF DeletedRows, Others
  <2>8. \A s \in out : s \in Nat /\ IsUsed(Keeper(g, TableOf(v, i)), s)
    BY <1>4
  <2>9. \A e : e \in Others(g, i, out) <=>
          \E s : Entered(g, v, i, s) /\ s \notin out /\ g.iterator[i][s] = e
    <3> HIDE DEF out
    <3> QED
      BY <1>2, <2>8, OthersIs
  <2> HIDE DEF out
  <2>10. \A e : e \in h.index[i] <=> \E s : Entered(h, v, i, s) /\ h.iterator[i][s] = e
    BY <2>5, <2>6, <2>7, <2>9
  <2>11. \A s : Entered(h, v, i, s) => h.iterator[i][s] = <<h.iterator[i][s][1], s>>
    BY <1>2, <2>5, <2>6 DEF IndexAt
  <2>12. ASSUME Indexes[v][i].unique, NEW s, NEW q, Entered(h, v, i, s), Entered(h, v, i, q),
                h.iterator[i][s][1] = h.iterator[i][q][1]
         PROVE  s = q
    BY <1>2, <2>5, <2>6, <2>12 DEF IndexAt
  <2>13. ASSUME NEW s, NEW k \in DOMAIN Indexes[v][i].fs, Entered(h, v, i, s),
                IsTriggerAt(v, i, k), <<t, s, FieldAt(v, i, k)>> \notin rest
         PROVE  h.iterator[i][s][1][k] = Cell(h, t, FieldAt(v, i, k), s)
    <3>1. Entered(g, v, i, s) /\ s \notin out /\ h.iterator[i][s] = g.iterator[i][s]
      BY <2>5, <2>6, <2>13
    <3>2. <<t, s, FieldAt(v, i, k)>> \notin bad
      BY <1>2a, <2>13, <3>1
    <3>3. g.iterator[i][s][1][k] = Cell(g, t, FieldAt(v, i, k), s)
      BY <1>2, <1>4, <2>13, <3>1, <3>2 DEF IndexAt
    <3>4. FieldAt(v, i, k) \in FieldsOf(v, t)
      BY <1>0, <1>4, FieldsOfIndex
    <3>5. Cell(h, t, FieldAt(v, i, k), s) = Cell(g, t, FieldAt(v, i, k), s)
      BY <1>4, <2>4, <3>1, <3>4 DEF Entered
    <3> QED
      BY <3>1, <3>3, <3>5
  <2> QED
    BY <1>4, <2>10, <2>11, <2>12, <2>13 DEF IndexAt
<1> QED
  BY <1>3, <1>4

(* The key that an index gives to a record *)
LEMMA KeyIs ==
  ASSUME NEW g, NEW v, IsStorage(g, v), NEW i \in IndexesOf(v), NEW r
  PROVE  \A k \in DOMAIN Indexes[v][i].fs :
           Key(g, i, r)[k] = Cell(g, TableOf(v, i), FieldAt(v, i, k), r)
<1>1. g.version = v
  BY StorageHas
<1> QED
  BY <1>1 DEF Key, Cell, TableOf, FieldAt

(* The indexes that an update triggers *)
LEMMA TriggeredIs ==
  ASSUME NEW g, NEW v, IsStorage(g, v), NEW t, NEW f, NEW i \in IndexesOf(v)
  PROVE  /\ i \in Triggered(g, t, f) <=> IsTrigger(Indexes[v][i], t, f)
         /\ i \in Triggered(g, t, f) => TableOf(v, i) = t
<1>1. g.version = v /\ DOMAIN g.index = IndexesOf(v)
  BY StorageHas
<1> QED
  BY <1>1 DEF Triggered, IsTrigger, TableOf

(* Storing values puts the entries of their cells out of date. *)
LEMMA StoredIndexes ==
  ASSUME NEW g, NEW h, NEW v, IsStorage(g, v), NEW t \in TablesOf(v), NEW f \in FieldsOf(v, t),
         NEW r \in Nat, NEW vs, Len(vs) \in Nat, StoredCells(g, h, v, t, r, f, vs),
         NEW bad, IndexesAt(g, v, bad), NEW more, bad \subseteq more,
         \A s \in r..(r + Len(vs) - 1) : <<t, s, f>> \in more
  PROVE  IndexesAt(h, v, more)
<1> DEFINE out == r..(r + Len(vs) - 1)
<1>0. v \in Versions
  BY StorageHas
<1>1. SUFFICES ASSUME NEW i \in IndexesOf(v)
               PROVE  IndexAt(h, v, i, more)
  BY DEF IndexesAt
<1>2. TableOf(v, i) \in TablesOf(v) /\ IndexAt(g, v, i, bad)
  BY StorageHas DEF IndexesAt
<1>2a. bad \subseteq more /\ \A s \in out : <<t, s, f>> \in more
  OBVIOUS
<1>3. CASE TableOf(v, i) # t
  <2>1. /\ h.tables[TableOf(v, i)] = g.tables[TableOf(v, i)]
        /\ h.iterator[i] = g.iterator[i] /\ h.index[i] = g.index[i]
    BY <1>2, <1>3 DEF StoredCells
  <2>2. IndexAt(h, v, i, bad)
    BY <1>2, <2>1, OtherTable, IndexKept
  <2> QED
    BY <1>2a, <2>2, IndexBad
<1>4. CASE TableOf(v, i) = t
  <2>1. /\ Size(g, t) \in Nat
        /\ \A s \in Int : IsUsed(Keeper(g, t), s) => s \in 0..(Size(g, t) - 1)
    BY StorageHas
  <2>2. Keeper(h, t) = Keeper(g, t) /\ h.index = g.index /\ h.iterator = g.iterator
    BY DEF StoredCells
  <2>3. \A s : Entered(h, v, i, s) <=> Entered(g, v, i, s)
    BY <1>4, <2>2 DEF Entered
  <2>4. ASSUME NEW s, NEW k \in DOMAIN Indexes[v][i].fs, Entered(h, v, i, s),
               IsTriggerAt(v, i, k), <<t, s, FieldAt(v, i, k)>> \notin more
        PROVE  h.iterator[i][s][1][k] = Cell(h, t, FieldAt(v, i, k), s)
    <3> DEFINE e == FieldAt(v, i, k)
    <3>1. e \in FieldsOf(v, t)
      BY <1>0, <1>4, FieldsOfIndex
    <3>2. Entered(g, v, i, s) /\ s \in Nat /\ s \in 0..(Size(g, t) - 1)
      BY <1>4, <2>1, <2>3, <2>4 DEF Entered
    <3>3. <<t, s, e>> \notin bad
      BY <1>2a, <2>4
    <3>4. g.iterator[i][s][1][k] = Cell(g, t, e, s)
      BY <1>2, <1>4, <2>4, <3>2, <3>3 DEF IndexAt
    <3> HIDE DEF e
    <3>5. ~(e = f /\ In(s, r, Len(vs)))
      <4>1. SUFFICES ASSUME e = f, In(s, r, Len(vs))
                     PROVE  FALSE
        OBVIOUS
      <4>2. s \in out
        BY <3>2, <4>1, InIs
      <4> QED
        BY <1>2a, <2>4, <4>1, <4>2 DEF e
    <3>6. Cell(h, t, e, s) = Cell(g, t, e, s)
      <4> DEFINE y == vs[s - r + 1]
                 z == Cell(g, t, e, s)
      <4>1. Cell(h, t, e, s) = IF e = f /\ In(s, r, Len(vs)) THEN y ELSE z
        BY <3>1, <3>2 DEF StoredCells
      <4> HIDE DEF y, z
      <4>2. Cell(h, t, e, s) = z
        BY <3>5, <4>1
      <4> QED
        BY <4>2 DEF z
    <3> QED
      BY <2>2, <3>4, <3>6 DEF e
  <2>5. \A e : e \in h.index[i] <=> \E s : Entered(h, v, i, s) /\ h.iterator[i][s] = e
    BY <1>2, <2>2, <2>3 DEF IndexAt
  <2>6. \A s : Entered(h, v, i, s) => h.iterator[i][s] = <<h.iterator[i][s][1], s>>
    BY <1>2, <2>2, <2>3 DEF IndexAt
  <2>7. ASSUME Indexes[v][i].unique, NEW s, NEW q, Entered(h, v, i, s), Entered(h, v, i, q),
               h.iterator[i][s][1] = h.iterator[i][q][1]
        PROVE  s = q
    BY <1>2, <2>2, <2>3, <2>7 DEF IndexAt
  <2> QED
    BY <1>4, <2>4, <2>5, <2>6, <2>7 DEF IndexAt
<1> QED
  BY <1>3, <1>4

(* The update of the indexes brings them up to date, when none has thrown.   *)
LEMMA ReindexedIndexes ==
  ASSUME NEW g, NEW h, NEW v, IsStorage(g, v), NEW t \in TablesOf(v), NEW f \in FieldsOf(v, t),
         NEW r \in Nat, NEW n \in Nat, r + n <= Size(g, t),
         \A s \in r..(r + n - 1) : IsUsed(Keeper(g, t), s),
         ReindexedRows(g, h, v, t, r, f, n), NEW more, NEW rest, IndexesAt(g, v, more),
         \A x \in more : x \notin rest => \E s \in r..(r + n - 1) : x = <<t, s, f>>,
         h.ok \/ \A s \in r..(r + n - 1) : <<t, s, f>> \in rest
  PROVE  IndexesAt(h, v, rest)
<1> DEFINE out == r..(r + n - 1)
<1>0. v \in Versions /\ Size(g, t) \in Nat
  BY StorageHas
<1>1. SUFFICES ASSUME NEW i \in IndexesOf(v)
               PROVE  IndexAt(h, v, i, rest)
  BY DEF IndexesAt
<1>2. IndexAt(g, v, i, more)
  BY DEF IndexesAt
<1>3. CASE i \notin Reached(g, t, r, f, n)
  <2>1. h.index[i] = g.index[i] /\ h.iterator[i] = g.iterator[i] /\ h.tables = g.tables
    BY <1>3 DEF ReindexedRows
  <2>2. IndexAt(h, v, i, more)
    BY <1>2, <2>1, OtherTable, IndexKept
  <2>3. ASSUME NEW s, NEW k \in DOMAIN Indexes[v][i].fs, IsTriggerAt(v, i, k),
               <<TableOf(v, i), s, FieldAt(v, i, k)>> \in more,
               <<TableOf(v, i), s, FieldAt(v, i, k)>> \notin rest
        PROVE  FALSE
    <3>1. PICK q \in out : <<TableOf(v, i), s, FieldAt(v, i, k)>> = <<t, q, f>>
      BY <2>3
    <3>2. TableOf(v, i) = t /\ s = q /\ FieldAt(v, i, k) = f
      BY <3>1
    <3>3. h.ok
      BY <2>3, <3>1
    <3>4. i \in Triggered(g, t, f)
      BY <2>3, <3>2, TriggeredIs DEF IsTriggerAt
    <3>5. \A j \in Triggered(g, t, f) : ~Duplicate(g, j, r, n)
      BY <3>3 DEF ReindexedRows
    <3> QED
      BY <1>3, <3>4, <3>5 DEF Reached
  <2> QED
    BY <2>2, <2>3, IndexBad
<1>4. CASE i \in Reached(g, t, r, f, n)
  <2>1. TableOf(v, i) = t
    BY <1>4, TriggeredIs DEF Reached
  <2>2. /\ h.index[i] = Others(g, i, out) \union
             {<<Key(g, i, s), s>> : s \in {x \in out : Added(g, i, r, n, x)}}
        /\ \A s \in 0..(Size(g, t) - 1) :
             h.iterator[i][s] = IF s \notin out THEN g.iterator[i][s]
                                ELSE IF Added(g, i, r, n, s) THEN <<Key(g, i, s), s>> ELSE End
        /\ h.tables = g.tables
    BY <1>4, <2>1 DEF ReindexedRows
  <2>3. \A s \in Int : IsUsed(Keeper(g, t), s) => s \in 0..(Size(g, t) - 1)
    BY StorageHas
  <2>4. \A s \in out : s \in Nat /\ IsUsed(Keeper(g, t), s) /\ s \in 0..(Size(g, t) - 1)
    BY <1>0
  <2>5. \A e : e \in Others(g, i, out) <=>
          \E s : Entered(g, v, i, s) /\ s \notin out /\ g.iterator[i][s] = e
    <3> HIDE DEF out
    <3> QED
      BY <1>2, <2>1, <2>4, OthersIs
  <2>6. \A s \in out : Added(g, i, r, n, s) => ~Taken(g, i, r, n, s)
    BY DEF Added
  <2>7. /\ \A s \in out : Added(g, i, r, n, s) /\ Indexes[v][i].unique =>
             /\ \A e \in Others(g, i, out) : e[1] # Key(g, i, s)
             /\ \A q \in r..(s - 1) : Key(g, i, q) # Key(g, i, s)
    <3>1. g.version = v
      BY StorageHas
    <3> QED
      BY <2>6, <3>1 DEF Taken
  <2> DEFINE added(s) == Added(g, i, r, n, s)
             key(s) == Key(g, i, s)
  <2>8. \A s : h.tables = g.tables /\ Keeper(h, s) = Keeper(g, s)
    BY <2>2 DEF Keeper
  <2>9. ASSUME NEW s \in out
        PROVE  /\ Entered(h, v, i, s) <=> added(s)
               /\ added(s) => h.iterator[i][s] = <<key(s), s>>
    <3>1. <<key(s), s>> # End
      BY DEF End
    <3>2. h.iterator[i][s] = IF added(s) THEN <<key(s), s>> ELSE End
      BY <2>2, <2>4
    <3> HIDE DEF out, added, key
    <3> QED
      BY <2>1, <2>4, <2>8, <3>1, <3>2 DEF Entered
  <2>10. ASSUME NEW s, s \notin out
         PROVE  /\ Entered(h, v, i, s) <=> Entered(g, v, i, s)
                /\ Entered(h, v, i, s) => h.iterator[i][s] = g.iterator[i][s]
    <3> HIDE DEF out, added, key
    <3>0. ASSUME s \in Nat, IsUsed(Keeper(g, t), s)
          PROVE  h.iterator[i][s] = g.iterator[i][s]
      <4>1. s \in Int
        BY <3>0
      <4>2. s \in 0..(Size(g, t) - 1)
        BY <2>3, <3>0, <4>1
      <4> QED
        BY <2>2, <2>10, <4>2
    <3>1. s \in Nat /\ IsUsed(Keeper(g, t), s) => h.iterator[i][s] = g.iterator[i][s]
      BY <3>0
    <3> QED
      BY <2>1, <2>8, <3>1 DEF Entered
  <2>10a. \A s \in out, q \in out : s = q \/ q \in r..(s - 1) \/ s \in r..(q - 1)
    BY <1>0
  <2>11. h.index[i] = Others(g, i, out) \union {<<key(s), s>> : s \in {x \in out : added(x)}}
    BY <2>2
  <2> HIDE DEF out, added, key
  <2>12. ASSUME NEW e
         PROVE  e \in h.index[i] <=> \E s : Entered(h, v, i, s) /\ h.iterator[i][s] = e
    <3>1. ASSUME e \in Others(g, i, out)
          PROVE  \E s : Entered(h, v, i, s) /\ h.iterator[i][s] = e
      BY <2>5, <2>10, <3>1
    <3>2. ASSUME NEW s \in out, added(s), e = <<key(s), s>>
          PROVE  \E q : Entered(h, v, i, q) /\ h.iterator[i][q] = e
      BY <2>9, <3>2
    <3>3. ASSUME NEW s, Entered(h, v, i, s), h.iterator[i][s] = e
          PROVE  e \in h.index[i]
      <4>1. CASE s \in out
        BY <2>9, <2>11, <3>3, <4>1
      <4>2. CASE s \notin out
        BY <2>5, <2>10, <2>11, <3>3, <4>2
      <4> QED
        BY <4>1, <4>2
    <3> QED
      BY <2>11, <3>1, <3>2, <3>3
  <2>13. ASSUME NEW s, Entered(h, v, i, s)
         PROVE  h.iterator[i][s] = <<h.iterator[i][s][1], s>>
    <3>1. CASE s \in out
      BY <2>9, <2>13, <3>1
    <3>2. CASE s \notin out
      <4>1. Entered(g, v, i, s) /\ h.iterator[i][s] = g.iterator[i][s]
        BY <2>10, <2>13, <3>2
      <4> QED
        BY <1>2, <4>1 DEF IndexAt
    <3> QED
      BY <3>1, <3>2
  <2>14. ASSUME Indexes[v][i].unique, NEW s, NEW q, Entered(h, v, i, s), Entered(h, v, i, q),
                h.iterator[i][s][1] = h.iterator[i][q][1]
         PROVE  s = q
    <3>1. ASSUME NEW x \in out, NEW y, y \notin out, Entered(h, v, i, x), Entered(h, v, i, y),
                 h.iterator[i][x][1] = h.iterator[i][y][1]
          PROVE  FALSE
      <4>1. added(x) /\ h.iterator[i][x][1] = key(x)
        BY <2>9, <3>1
      <4>2. Entered(g, v, i, y) /\ h.iterator[i][y] = g.iterator[i][y]
        BY <2>10, <3>1
      <4>3. h.iterator[i][y] \in Others(g, i, out)
        BY <2>5, <3>1, <4>2
      <4> QED
        BY <2>7, <2>14, <3>1, <4>1, <4>3 DEF added, key, out
    <3>2. CASE s \in out /\ q \in out
      <4>1. added(s) /\ added(q) /\ key(s) = key(q)
        BY <2>9, <2>14, <3>2
      <4> QED
        BY <2>7, <2>10a, <2>14, <3>2, <4>1 DEF added, key, out
    <3>3. CASE s \notin out /\ q \notin out
      <4>1. /\ Entered(g, v, i, s) /\ h.iterator[i][s] = g.iterator[i][s]
            /\ Entered(g, v, i, q) /\ h.iterator[i][q] = g.iterator[i][q]
        BY <2>10, <2>14, <3>3
      <4> QED
        BY <1>2, <2>14, <4>1 DEF IndexAt
    <3> QED
      BY <2>14, <3>1, <3>2, <3>3
  <2>15. ASSUME NEW s, NEW k \in DOMAIN Indexes[v][i].fs, Entered(h, v, i, s),
                IsTriggerAt(v, i, k), <<t, s, FieldAt(v, i, k)>> \notin rest
         PROVE  h.iterator[i][s][1][k] = Cell(h, t, FieldAt(v, i, k), s)
    <3>1. Cell(h, t, FieldAt(v, i, k), s) = Cell(g, t, FieldAt(v, i, k), s)
      BY <2>2 DEF Cell
    <3>2. CASE s \in out
      <4>1. h.iterator[i][s][1] = key(s)
        BY <2>9, <2>15, <3>2
      <4> QED
        BY <2>1, <3>1, <4>1, KeyIs DEF key
    <3>3. CASE s \notin out
      <4>1. Entered(g, v, i, s) /\ h.iterator[i][s] = g.iterator[i][s]
        BY <2>10, <2>15, <3>3
      <4>2. <<t, s, FieldAt(v, i, k)>> \notin more
        <5>1. SUFFICES ASSUME <<t, s, FieldAt(v, i, k)>> \in more
                       PROVE  FALSE
          OBVIOUS
        <5>2. PICK q \in out : <<t, s, FieldAt(v, i, k)>> = <<t, q, f>>
          BY <2>15, <5>1 DEF out
        <5> QED
          BY <3>3, <5>2
      <4> QED
        BY <1>2, <2>1, <2>15, <3>1, <4>1, <4>2 DEF IndexAt
    <3> QED
      BY <3>2, <3>3
  <2> QED
    BY <2>1, <2>12, <2>13, <2>14, <2>15 DEF IndexAt
<1> QED
  BY <1>3, <1>4

-----------------------------------------------------------------------------
(***************************************************************************)
(* The calls on rows and cells.                                            *)
(***************************************************************************)

(* What is_used_vector checks *)
LEMMA UsedVectorIs ==
  ASSUME NEW k, KeeperInv(k), NEW r \in Int, NEW n \in Nat, IsUsedVector(k, r, n)
  PROVE  r \in Nat /\ r + n <= KeeperSize(k) /\ \A s \in r..(r + n - 1) : IsUsed(k, s)
<1>1. CASE DenseInv(k)
  <2>1. /\ k.dense = TRUE /\ k.used_size \in Nat /\ k.free_size \in Nat
        /\ k.used_size <= k.free_size
    BY <1>1 DEF DenseInv
  <2> QED
    BY <2>1 DEF KeeperSize, IsUsed, IsUsedVector, DenseIsUsedVector
<1>2. CASE ListInv(k)
  <2>1. k.size \in Nat /\ k.dense = FALSE
    BY <1>2, ListFields
  <2> QED
    BY <2>1 DEF KeeperSize, IsUsed, ListIsUsed, IsUsedVector, ListIsUsedVector
<1> QED
  BY <1>1, <1>2 DEF KeeperInv

(* What is_free_vector checks *)
LEMMA FreeVectorIs ==
  ASSUME NEW k, KeeperInv(k), NEW r \in Int, NEW n \in Nat, IsFreeVector(k, r, n)
  PROVE  \A s \in r..(r + n - 1) : ~IsUsed(k, s)
<1>1. CASE DenseInv(k)
  <2>1. /\ k.dense = TRUE /\ k.used_size \in Nat
    BY <1>1 DEF DenseInv
  <2> QED
    BY <2>1 DEF IsUsed, IsFreeVector
<1>2. CASE ListInv(k)
  <2>1. k.size \in Nat /\ k.dense = FALSE
    BY <1>2, ListFields
  <2> QED
    BY <2>1 DEF IsUsed, ListIsUsed, IsFreeVector, ListIsFreeVector
<1> QED
  BY <1>1, <1>2 DEF KeeperInv

Inserts == {"insert_into", "insert_vector"}

Deletes == {"delete_from", "delete_vector"}

Updates == {"update", "update_vector"}

(* A call on a table, and a field, that the program knows *)
RowCall(v, o) ==
  /\ IsCall(o) /\ o.op \in Inserts \union Deletes \union Updates
  /\ o.t \in TablesOf(v)
  /\ o.op \in Updates => o.f \in FieldsOf(v, o.t)

ValuesOf(o) == IF o.op = "update" THEN <<o.v>> ELSE o.vs

Count(o) ==
  CASE o.op \in {"insert_into", "delete_from", "update"} -> 1
    [] o.op \in {"insert_vector", "delete_vector"} -> o.n
    [] o.op = "update_vector" -> Len(o.vs)

RowsOf(o) == o.r..(o.r + Count(o) - 1)

ResizedKeeper(k, size) == IF size < KeeperSize(k) THEN k ELSE Resize(k, size)

(* The checks of a call, on the keeper of its table *)
Allowed(k, o) ==
  CASE o.op = "insert_into" -> o.r >= 0 /\ ~IsUsed(k, o.r)
    [] o.op = "insert_vector" ->
         o.r >= 0 /\ IsFreeVector(ResizedKeeper(k, o.r + o.n), o.r, o.n)
    [] o.op \in {"delete_from", "update"} -> IsUsed(k, o.r)
    [] o.op = "delete_vector" -> IsUsedVector(k, o.r, o.n)
    [] o.op = "update_vector" -> IsUsedVector(k, o.r, Len(o.vs))

(* What it does then *)
Done(g, o) ==
  CASE o.op \in Inserts ->
         Inserted(ResizedStorage(g, o.t, o.r + Count(o)), o.t, o.r, Count(o))
    [] o.op \in Deletes -> Deleted(g, o.t, o.r, Count(o))
    [] o.op \in Updates ->
         Reindexed(Stored(g, o.t, o.r, o.f, ValuesOf(o)), o.t, o.r, o.f, Count(o))

(* The cells that it replaces *)
Area(v, o) ==
  CASE o.op \in Updates -> {<<o.t, s, o.f>> : s \in RowsOf(o)}
    [] o.op \in Deletes -> {<<o.t, s, f>> : s \in RowsOf(o), f \in FieldsOf(v, o.t)}
    [] OTHER -> {}

(* The types of the arguments of a call *)
LEMMA RowCallIs ==
  ASSUME NEW v, NEW o, RowCall(v, o)
  PROVE  /\ o.r \in Int /\ Count(o) \in Nat /\ o.t \in TablesOf(v)
         /\ o.op \in {"insert_into", "delete_from", "update"} => Count(o) = 1
         /\ o.op \in Updates =>
              /\ o.f \in FieldsOf(v, o.t)
              /\ Len(ValuesOf(o)) = Count(o) /\ DOMAIN ValuesOf(o) = 1..Count(o)
<1>0. /\ IsCall(o) /\ o.t \in TablesOf(v)
      /\ o.op \in Updates => o.f \in FieldsOf(v, o.t)
  BY DEF RowCall
<1>1. CASE o.op = "insert_into" \/ o.op = "delete_from"
  BY <1>0, <1>1 DEF IsCall, SchemaOps, InformationOps, Count, Updates
<1>2. CASE o.op = "insert_vector" \/ o.op = "delete_vector"
  BY <1>0, <1>2 DEF IsCall, SchemaOps, InformationOps, Count, Updates
<1>3. CASE o.op = "update"
  <2>1. o.r \in Int /\ Count(o) = 1 /\ ValuesOf(o) = <<o.v>>
    BY <1>0, <1>3 DEF IsCall, SchemaOps, InformationOps, Count, ValuesOf
  <2>2. Len(<<o.v>>) = 1 /\ DOMAIN <<o.v>> = 1..1
    OBVIOUS
  <2> QED
    BY <1>0, <2>1, <2>2
<1>4. CASE o.op = "update_vector"
  <2>1. /\ o.r \in Int /\ Count(o) = Len(o.vs) /\ ValuesOf(o) = o.vs
        /\ o.vs \in Seq(Range(o.vs))
    BY <1>0, <1>4 DEF IsCall, SchemaOps, InformationOps, Count, ValuesOf
  <2>2. Len(o.vs) \in Nat /\ DOMAIN o.vs = 1..Len(o.vs)
    BY <2>1
  <2> QED
    BY <1>0, <1>4, <2>1, <2>2
<1> QED
  BY <1>1, <1>2, <1>3, <1>4 DEF RowCall, Inserts, Deletes, Updates

(* The cells that a call replaces are those of its area. *)
LEMMA AreaIs ==
  ASSUME NEW g, NEW v, IsStorage(g, v), NEW o, RowCall(v, o)
  PROVE  CellsOf(g, o) = Area(v, o)
<1>1. /\ o.t \in TablesOf(v) /\ o.r \in Int
      /\ o.op \in {"insert_into", "delete_from", "update"} => Count(o) = 1
  BY RowCallIs
<1>2. DOMAIN g.tables[o.t].columns = FieldsOf(v, o.t)
  BY <1>1, StorageHas
<1>3. o.op \in {"insert_into", "delete_from", "update"} => RowsOf(o) = {o.r}
  BY <1>1 DEF RowsOf
<1>4. CASE o.op \in Inserts
  BY <1>4 DEF CellsOf, Area, Inserts, Deletes, Updates
<1>5. CASE o.op = "delete_from"
  <2>1. CellsOf(g, o) = {<<o.t, o.r, f>> : f \in FieldsOf(v, o.t)}
    BY <1>2, <1>5 DEF CellsOf
  <2>2. Area(v, o) = {<<o.t, s, f>> : s \in {o.r}, f \in FieldsOf(v, o.t)}
    BY <1>3, <1>5 DEF Area, Deletes, Updates
  <2> QED
    BY <2>1, <2>2
<1>6. CASE o.op = "delete_vector"
  BY <1>2, <1>6 DEF CellsOf, Area, RowsOf, Count, Deletes, Updates
<1>7. CASE o.op = "update"
  <2>1. CellsOf(g, o) = {<<o.t, o.r, o.f>>}
    BY <1>7 DEF CellsOf
  <2>2. Area(v, o) = {<<o.t, s, o.f>> : s \in {o.r}}
    BY <1>3, <1>7 DEF Area, Deletes, Updates
  <2> QED
    BY <2>1, <2>2
<1>8. CASE o.op = "update_vector"
  <2>1. CellsOf(g, o) = {<<o.t, s, o.f>> : s \in o.r..(o.r + Len(o.vs) - 1)}
    BY <1>8 DEF CellsOf
  <2>2. RowsOf(o) = o.r..(o.r + Len(o.vs) - 1)
    BY <1>8 DEF RowsOf, Count
  <2>3. Area(v, o) = {<<o.t, s, o.f>> : s \in RowsOf(o)}
    BY <1>8 DEF Area, Deletes, Updates
  <2> QED
    BY <2>1, <2>2, <2>3
<1> QED
  BY <1>4, <1>5, <1>6, <1>7, <1>8 DEF RowCall, Deletes, Updates

(* The records of a call that is allowed *)
LEMMA AllowedIs ==
  ASSUME NEW g, NEW v, IsStorage(g, v), NEW o, RowCall(v, o), Allowed(Keeper(g, o.t), o)
  PROVE  /\ o.r \in Nat
         /\ o.op \in Inserts => \A s \in RowsOf(o) : ~IsUsed(Keeper(g, o.t), s)
         /\ o.op \in Deletes \union Updates =>
              o.r + Count(o) <= Size(g, o.t) /\ \A s \in RowsOf(o) : IsUsed(Keeper(g, o.t), s)
<1> DEFINE k == Keeper(g, o.t)
<1>1. /\ o.t \in TablesOf(v) /\ o.r \in Int /\ Count(o) \in Nat
      /\ o.op \in {"insert_into", "delete_from", "update"} => Count(o) = 1
  BY RowCallIs
<1>2. /\ KeeperInv(k) /\ KeeperSize(k) \in Nat
      /\ \A r \in Int : IsUsed(k, r) => r \in 0..(KeeperSize(k) - 1)
  BY <1>1, StorageHas DEF Size
<1>3. o.op \in {"insert_into", "delete_from", "update"} => RowsOf(o) = {o.r}
  BY <1>1 DEF RowsOf
<1> HIDE DEF k
<1>3a. Allowed(k, o)
  BY DEF k
<1>4. CASE o.op = "insert_into"
  <2>1. o.r >= 0 /\ ~IsUsed(k, o.r)
    BY <1>3a, <1>4 DEF Allowed
  <2> QED
    BY <1>1, <1>3, <1>4, <2>1 DEF Inserts, Deletes, Updates, k
<1>5. CASE o.op = "insert_vector"
  <2>0. Count(o) = o.n
    BY <1>5 DEF Count
  <2> DEFINE l == ResizedKeeper(k, o.r + o.n)
  <2>1. o.r >= 0 /\ IsFreeVector(l, o.r, o.n)
    BY <1>3a, <1>5 DEF Allowed
  <2>2. KeeperInv(l) /\ \A i \in Nat : IsUsed(l, i) <=> IsUsed(k, i)
    <3>1. CASE o.r + o.n < KeeperSize(k)
      BY <1>2, <3>1 DEF ResizedKeeper
    <3>2. CASE ~(o.r + o.n < KeeperSize(k))
      <4>1. o.r + o.n \in Nat /\ l = Resize(k, o.r + o.n)
        BY <1>1, <2>0, <2>1, <3>2 DEF ResizedKeeper
      <4> DEFINE m == o.r + o.n
      <4>2. m \in Nat /\ l = Resize(k, m)
        BY <4>1
      <4> HIDE DEF m, l
      <4> QED
        BY <1>2, <4>2, ResizeKeeps DEF Keeps
    <3> QED
      BY <3>1, <3>2
  <2> HIDE DEF l
  <2>3. \A s \in o.r..(o.r + o.n - 1) : ~IsUsed(l, s)
    BY <1>1, <2>0, <2>1, <2>2, FreeVectorIs
  <2>4. \A s \in o.r..(o.r + o.n - 1) : s \in Nat
    BY <1>1, <2>0, <2>1
  <2> QED
    BY <1>1, <1>5, <2>0, <2>1, <2>2, <2>3, <2>4 DEF Inserts, Deletes, Updates, RowsOf, k
<1>6. CASE o.op = "delete_from" \/ o.op = "update"
  <2>1. IsUsed(k, o.r)
    BY <1>3a, <1>6 DEF Allowed
  <2> QED
    BY <1>1, <1>2, <1>3, <1>6, <2>1 DEF Inserts, Deletes, Updates, k, Size
<1>7. CASE o.op = "delete_vector" \/ o.op = "update_vector"
  <2>1. IsUsedVector(k, o.r, Count(o))
    BY <1>3a, <1>7 DEF Allowed, Count
  <2> DEFINE r == o.r
             n == Count(o)
  <2> HIDE DEF r, n
  <2>2. r \in Nat /\ r + n <= KeeperSize(k) /\ \A s \in r..(r + n - 1) : IsUsed(k, s)
    BY <1>1, <1>2, <2>1, UsedVectorIs DEF r, n
  <2> QED
    BY <1>7, <2>2 DEF Inserts, Deletes, Updates, RowsOf, k, Size, r, n
<1> QED
  BY <1>4, <1>5, <1>6, <1>7 DEF RowCall, Inserts, Deletes, Updates
(* An insert grows the storage, then uses the records. *)
NewRows(g, h, v, t, r, n) ==
  \E e : IsStorage(e, v) /\ Resized(g, e, v, t, r + n) /\ InsertedRows(e, h, v, t, r, n)

(* An insert, with the resize that precedes it, keeps the indexes sound. *)
LEMMA NewRowsAre ==
  ASSUME NEW g, NEW v, IsStorage(g, v), NEW t \in TablesOf(v), NEW r \in Nat, NEW n \in Nat,
         \A s \in r..(r + n - 1) : ~IsUsed(Keeper(g, t), s),
         NEW h, h = Inserted(ResizedStorage(g, t, r + n), t, r, n)
  PROVE  /\ IsStorage(h, v) /\ NewRows(g, h, v, t, r, n) /\ h.ok = g.ok /\ h.schema = g.schema
         /\ \A bad : IndexesAt(g, v, bad) => IndexesAt(h, v, bad)
<1> DEFINE e == ResizedStorage(g, t, r + n)
           m == r + n
<1>1. h = Inserted(e, t, r, n) /\ e = ResizedStorage(g, t, m) /\ m \in Nat /\ m = r + n
  OBVIOUS
<1>1a. \A s \in r..(r + n - 1) : s \in Nat
  OBVIOUS
<1> HIDE DEF e, m
<1>2. IsStorage(e, v) /\ Resized(g, e, v, t, m)
  BY <1>1, ResizedIs
<1>3. r + n <= Size(e, t)
  <2>1. Size(g, t) \in Nat
    BY StorageHas
  <2> QED
    BY <1>1, <1>2, <2>1 DEF Resized
<1>4. \A s \in r..(r + n - 1) : ~IsUsed(Keeper(e, t), s)
  BY <1>1a, <1>2 DEF Resized
<1>5. IsStorage(h, v) /\ InsertedRows(e, h, v, t, r, n)
  BY <1>1, <1>2, <1>3, <1>4, InsertedIs
<1>6. ASSUME NEW bad, IndexesAt(g, v, bad)
      PROVE  IndexesAt(h, v, bad)
  <2>1. IndexesAt(e, v, bad)
    BY <1>1, <1>2, <1>6, ResizedIndexes
  <2> QED
    BY <1>2, <1>3, <1>4, <1>5, <2>1, InsertedIndexes
<1>7. NewRows(g, h, v, t, r, n)
  BY <1>1, <1>2, <1>5 DEF NewRows
<1> QED
  BY <1>2, <1>5, <1>6, <1>7 DEF Resized, InsertedRows

(* The cells whose last update threw, after a call on cells *)
IndexesAfter(h, v, bad, cells) ==
  /\ h.ok => IndexesAt(h, v, bad \ cells)
  /\ ~h.ok => IndexesAt(h, v, bad \union cells)

(* An update stores the values, then updates the indexes. *)
NewCells(g, h, v, t, r, f, vs) ==
  \E e : /\ IsStorage(e, v) /\ StoredCells(g, e, v, t, r, f, vs)
         /\ ReindexedRows(e, h, v, t, r, f, Len(vs))

UpdatesCells(g, v, t, r, f, vs, n, cells) ==
  /\ IsStorage(g, v)
  /\ t \in TablesOf(v) /\ f \in FieldsOf(v, t)
  /\ r \in Nat /\ n \in Nat /\ Len(vs) = n /\ DOMAIN vs = 1..n
  /\ r + n <= Size(g, t) /\ \A s \in r..(r + n - 1) : IsUsed(Keeper(g, t), s)
  /\ \A x : x \in cells <=> \E s \in r..(r + n - 1) : x = <<t, s, f>>

(* An update, with the indexes that it moves, keeps the indexes sound but for*)
(* its own cells when it fails.                                              *)
LEMMA NewCellsAre ==
  ASSUME NEW g, NEW v, NEW t, NEW f, NEW r, NEW vs, NEW n, NEW cells,
         UpdatesCells(g, v, t, r, f, vs, n, cells),
         NEW h, h = Reindexed(Stored(g, t, r, f, vs), t, r, f, n)
  PROVE  /\ IsStorage(h, v) /\ NewCells(g, h, v, t, r, f, vs)
         /\ h.schema = g.schema /\ h.ok \in BOOLEAN
         /\ \A bad : IndexesAt(g, v, bad) => IndexesAfter(h, v, bad, cells)
<1>0. /\ IsStorage(g, v) /\ t \in TablesOf(v) /\ f \in FieldsOf(v, t)
      /\ r \in Nat /\ n \in Nat /\ Len(vs) = n /\ DOMAIN vs = 1..n
      /\ r + n <= Size(g, t) /\ \A s \in r..(r + n - 1) : IsUsed(Keeper(g, t), s)
      /\ \A x : x \in cells <=> \E s \in r..(r + n - 1) : x = <<t, s, f>>
  BY DEF UpdatesCells
<1> DEFINE e == Stored(g, t, r, f, vs)
<1>1. h = Reindexed(e, t, r, f, n) /\ e = Stored(g, t, r, f, vs)
  OBVIOUS
<1> HIDE DEF e
<1>2. IsStorage(e, v) /\ StoredCells(g, e, v, t, r, f, vs)
  BY <1>0, <1>1, StoredIs
<1>3. IsStorage(h, v) /\ ReindexedRows(e, h, v, t, r, f, n) /\ h.ok \in BOOLEAN
  BY <1>0, <1>1, <1>2, ReindexedIs
<1>4. Keeper(e, t) = Keeper(g, t) /\ Size(e, t) = Size(g, t) /\ e.schema = g.schema
  BY <1>0, <1>2 DEF StoredCells, Size
<1>5. h.schema = g.schema
  BY <1>3, <1>4 DEF ReindexedRows
<1>6. ASSUME NEW bad, IndexesAt(g, v, bad)
      PROVE  IndexesAfter(h, v, bad, cells)
  <2> DEFINE more == bad \union cells
             rest == IF h.ok THEN bad \ cells ELSE bad \union cells
  <2>1. bad \subseteq more /\ \A s \in r..(r + n - 1) : <<t, s, f>> \in more
    BY <1>0
  <2>2. IndexesAt(e, v, more)
    <3> HIDE DEF more
    <3> QED
      BY <1>0, <1>2, <1>6, <2>1, StoredIndexes
  <2>3. \A x \in more : x \notin rest => \E s \in r..(r + n - 1) : x = <<t, s, f>>
    <3>1. \A x \in more : x \notin rest => x \in cells
      BY <1>3
    <3> HIDE DEF more, rest
    <3> QED
      BY <1>0, <3>1
  <2>4. h.ok \/ \A s \in r..(r + n - 1) : <<t, s, f>> \in rest
    <3>1. \A s \in r..(r + n - 1) : <<t, s, f>> \in cells
      BY <1>0
    <3>2. h.ok \/ cells \subseteq rest
      OBVIOUS
    <3> HIDE DEF rest
    <3> QED
      BY <3>1, <3>2
  <2> HIDE DEF more, rest
  <2>5. IndexesAt(h, v, rest)
    BY <1>0, <1>2, <1>3, <1>4, <2>2, <2>3, <2>4, ReindexedIndexes
  <2> QED
    BY <2>5 DEF rest, IndexesAfter
<1>7. NewCells(g, h, v, t, r, f, vs)
  BY <1>0, <1>2, <1>3 DEF NewCells
<1> QED
  BY <1>3, <1>5, <1>6, <1>7

(* A call on a table and a field that the program knows *)
LEMMA ExecutedRow ==
  ASSUME NEW g, NEW v, IsStorage(g, v), g.ok, NEW o, RowCall(v, o), NEW h, h = Executed(g, o)
  PROVE  /\ Allowed(Keeper(g, o.t), o) => h = Done(g, o)
         /\ ~Allowed(Keeper(g, o.t), o) /\ o.op \notin Inserts => h = [g EXCEPT !.ok = FALSE]
         /\ ~Allowed(Keeper(g, o.t), o) =>
              IsStorage(h, v) /\ h.ok = FALSE /\ h.schema = g.schema
<1> DEFINE k == Keeper(g, o.t)
           fails == [g EXCEPT !.ok = FALSE]
<1>1. /\ o.t \in TablesOf(v) /\ o.r \in Int /\ Count(o) \in Nat
      /\ o.op \in {"insert_into", "delete_from", "update"} => Count(o) = 1
      /\ o.op \in Updates => o.f \in FieldsOf(v, o.t)
  BY RowCallIs
<1>2. /\ o.t \in DOMAIN g.tables /\ DOMAIN g.tables[o.t].columns = FieldsOf(v, o.t)
      /\ KeeperInv(k) /\ KeeperSize(k) \in Nat
  BY <1>1, StorageHas DEF Size
<1>3. IsStorage(fails, v) /\ fails.ok = FALSE /\ fails.schema = g.schema
  <2> DEFINE no == FALSE
             x == [g EXCEPT !.ok = no]
  <2> HIDE DEF no, x
  <2>1. IsStorage(x, v) /\ x.ok = no /\ x.schema = g.schema
    BY OkChanged DEF x
  <2> QED
    BY <2>1 DEF no, x
<1> HIDE DEF fails
<1>4. CASE o.op = "insert_into"
  <2>1. h = InsertedRow(g, o)
    BY <1>2, <1>4 DEF Executed, SchemaOps
  <2>2. h = IF o.r < 0 \/ IsUsed(k, o.r) THEN fails
            ELSE Inserted(ResizedStorage(g, o.t, o.r + 1), o.t, o.r, 1)
    BY <1>4, <2>1 DEF InsertedRow, internal_insert, Keeper, fails
  <2>3. Allowed(k, o) <=> ~(o.r < 0 \/ IsUsed(k, o.r))
    BY <1>1, <1>4 DEF Allowed
  <2>4. Done(g, o) = Inserted(ResizedStorage(g, o.t, o.r + 1), o.t, o.r, 1)
    BY <1>1, <1>4 DEF Done, Inserts, Deletes, Updates
  <2> QED
    BY <1>3, <1>4, <2>2, <2>3, <2>4 DEF Inserts
<1>5. CASE o.op = "insert_vector"
  <2>0. Count(o) = o.n
    BY <1>5 DEF Count
  <2> DEFINE m == o.r + o.n
             e == ResizedStorage(g, o.t, m)
  <2>1. h = InsertedRow(g, o)
    BY <1>2, <1>5 DEF Executed, SchemaOps
  <2>2. h = IF o.r < 0 THEN fails
            ELSE IF ~IsFreeVector(Keeper(e, o.t), o.r, o.n) THEN [e EXCEPT !.ok = FALSE]
            ELSE Inserted(e, o.t, o.r, o.n)
    BY <1>5, <2>1 DEF InsertedRow, internal_vector_insert, Keeper, fails
  <2>3. Done(g, o) = Inserted(e, o.t, o.r, o.n)
    BY <1>5, <2>0 DEF Done, Inserts, Deletes, Updates
  <2>4. CASE o.r < 0
    <3>1. ~Allowed(k, o)
      BY <1>1, <1>5, <2>4 DEF Allowed
    <3> QED
      BY <1>3, <1>5, <2>2, <2>4, <3>1 DEF Inserts
  <2>5. CASE ~(o.r < 0)
    <3>1. m \in Nat
      BY <1>1, <2>0, <2>5
    <3> HIDE DEF m
    <3>2. IsStorage(e, v) /\ Resized(g, e, v, o.t, m)
      BY <1>1, <3>1, ResizedIs
    <3>3. Keeper(e, o.t) = ResizedKeeper(k, m) /\ e.schema = g.schema
      BY <3>2 DEF Resized, ResizedKeeper, Size
    <3>4. Allowed(k, o) <=> IsFreeVector(Keeper(e, o.t), o.r, o.n)
      BY <1>1, <1>5, <2>5, <3>3 DEF Allowed, m
    <3> HIDE DEF e
    <3> DEFINE x == [e EXCEPT !.ok = FALSE]
    <3>5. IsStorage(x, v) /\ x.ok = FALSE /\ x.schema = g.schema
      <4> DEFINE no == FALSE
                 y == [e EXCEPT !.ok = no]
      <4> HIDE DEF no, y
      <4>1. IsStorage(y, v) /\ y.ok = no /\ y.schema = e.schema
        BY <3>2, OkChanged, SMTT(30) DEF y
      <4> QED
        BY <3>3, <4>1 DEF no, y
    <3> HIDE DEF x
    <3>6. h = IF ~IsFreeVector(Keeper(e, o.t), o.r, o.n) THEN x ELSE Inserted(e, o.t, o.r, o.n)
      BY <2>2, <2>5 DEF x
    <3> QED
      BY <1>5, <2>3, <3>4, <3>5, <3>6 DEF Inserts
  <2> QED
    BY <2>4, <2>5
<1>6. CASE o.op \in Deletes
  <2>1. h = DeletedRow(g, o)
    BY <1>2, <1>6 DEF Executed, SchemaOps, Deletes
  <2>2. CASE o.op = "delete_from"
    <3>1. h = IF ~IsUsed(k, o.r) THEN fails ELSE Deleted(g, o.t, o.r, 1)
      BY <2>1, <2>2 DEF DeletedRow, internal_delete, Keeper, fails
    <3>2. Allowed(k, o) <=> IsUsed(k, o.r)
      BY <2>2 DEF Allowed
    <3>3. Done(g, o) = Deleted(g, o.t, o.r, 1)
      BY <1>1, <2>2 DEF Done, Inserts, Deletes, Updates
    <3> QED
      BY <1>3, <3>1, <3>2, <3>3 DEF fails
  <2>3. CASE o.op = "delete_vector"
    <3>1. h = IF ~IsUsedVector(k, o.r, o.n) THEN fails ELSE Deleted(g, o.t, o.r, o.n)
      BY <2>1, <2>3 DEF DeletedRow, internal_delete_vector, Keeper, fails
    <3>2. Allowed(k, o) <=> IsUsedVector(k, o.r, o.n)
      BY <2>3 DEF Allowed
    <3>3. Done(g, o) = Deleted(g, o.t, o.r, o.n)
      BY <2>3 DEF Done, Inserts, Deletes, Updates, Count
    <3> QED
      BY <1>3, <3>1, <3>2, <3>3 DEF fails
  <2> QED
    BY <1>6, <2>2, <2>3 DEF Deletes
<1>7. CASE o.op \in Updates
  <2>1. h = UpdatedCells(g, o) /\ KnowsField(g, o)
    BY <1>1, <1>2, <1>7 DEF Executed, SchemaOps, Updates, KnowsField
  <2>2. CASE o.op = "update"
    <3>1. h = internal_update(g, o.t, o.r, o.f, o.v)
      BY <2>1, <2>2 DEF UpdatedCells
    <3>2. h = IF ~IsUsed(k, o.r) THEN fails
              ELSE Reindexed(Stored(g, o.t, o.r, o.f, <<o.v>>), o.t, o.r, o.f, 1)
      BY <3>1 DEF internal_update, Keeper, fails
    <3>3. Allowed(k, o) <=> IsUsed(k, o.r)
      BY <2>2 DEF Allowed
    <3>4. Done(g, o) = Reindexed(Stored(g, o.t, o.r, o.f, <<o.v>>), o.t, o.r, o.f, 1)
      BY <1>1, <2>2 DEF Done, Inserts, Deletes, Updates, ValuesOf
    <3> QED
      BY <1>3, <3>2, <3>3, <3>4 DEF fails
  <2>3. CASE o.op = "update_vector"
    <3>1. h = internal_update_vector(g, o.t, o.r, o.f, o.vs)
      BY <2>1, <2>3 DEF UpdatedCells
    <3>2. h = IF ~IsUsedVector(k, o.r, Len(o.vs)) THEN fails
              ELSE Reindexed(Stored(g, o.t, o.r, o.f, o.vs), o.t, o.r, o.f, Len(o.vs))
      BY <3>1 DEF internal_update_vector, Keeper, fails
    <3>3. Allowed(k, o) <=> IsUsedVector(k, o.r, Len(o.vs))
      BY <2>3 DEF Allowed
    <3>4. Done(g, o) = Reindexed(Stored(g, o.t, o.r, o.f, o.vs), o.t, o.r, o.f, Len(o.vs))
      BY <2>3 DEF Done, Inserts, Deletes, Updates, ValuesOf, Count
    <3> QED
      BY <1>3, <3>2, <3>3, <3>4 DEF fails
  <2> QED
    BY <1>7, <2>2, <2>3 DEF Updates
<1> QED
  BY <1>4, <1>5, <1>6, <1>7 DEF RowCall, Inserts, Deletes, Updates
(* A storage whose indexes, records, and cells are those of another one *)
SameRows(g, h) == h.tables = g.tables /\ h.index = g.index /\ h.iterator = g.iterator

(* Indexes depend on the rows, the entries and the iterators only. *)
LEMMA SameIndexes ==
  ASSUME NEW g, NEW h, NEW v, SameRows(g, h), NEW bad, IndexesAt(g, v, bad)
  PROVE  IndexesAt(h, v, bad)
<1>1. ASSUME NEW i \in IndexesOf(v)
      PROVE  IndexAt(h, v, i, bad)
  <2>1. /\ h.tables[TableOf(v, i)] = g.tables[TableOf(v, i)]
        /\ h.iterator[i] = g.iterator[i] /\ h.index[i] = g.index[i]
    BY DEF SameRows
  <2>2. IndexAt(g, v, i, bad)
    BY DEF IndexesAt
  <2> QED
    BY <2>1, <2>2, OtherTable, IndexKept
<1> QED
  BY <1>1 DEF IndexesAt

(* Indexes are sound for more cells that may be out of date. *)
LEMMA MoreBad ==
  ASSUME NEW g, NEW v, NEW bad, IndexesAt(g, v, bad), NEW more, bad \subseteq more
  PROVE  IndexesAt(g, v, more)
<1>1. ASSUME NEW i \in IndexesOf(v)
      PROVE  IndexAt(g, v, i, more)
  <2>1. IndexAt(g, v, i, bad)
    BY DEF IndexesAt
  <2> QED
    BY <2>1, IndexBad
<1> QED
  BY <1>1 DEF IndexesAt

(* What a call on rows and cells leaves, whether it throws or not *)
LEMMA RowSound ==
  ASSUME NEW g, NEW v, IsStorage(g, v), g.ok = TRUE, NEW o, RowCall(v, o),
         NEW h, h = Executed(g, o)
  PROVE  /\ IsStorage(h, v) /\ h.ok \in BOOLEAN /\ h.schema = g.schema
         /\ ~Allowed(Keeper(g, o.t), o) => ~h.ok
         /\ Allowed(Keeper(g, o.t), o) /\ o.op \notin Updates => h.ok
         /\ \A bad : IndexesAt(g, v, bad) /\ (h.ok \/ o.op \notin Inserts) =>
              IndexesAfter(h, v, bad, Area(v, o))
<1> DEFINE k == Keeper(g, o.t)
           t == o.t
           r == o.r
           n == Count(o)
<1>0. /\ t \in TablesOf(v) /\ n \in Nat /\ r \in Int
      /\ o.op \in Updates =>
           o.f \in FieldsOf(v, t) /\ Len(ValuesOf(o)) = n /\ DOMAIN ValuesOf(o) = 1..n
  BY RowCallIs
<1>1. CASE ~Allowed(k, o)
  <2>1. IsStorage(h, v) /\ h.ok = FALSE /\ h.schema = g.schema
    BY <1>1, ExecutedRow, ZenonT(60)
  <2>2. ASSUME NEW bad, IndexesAt(g, v, bad), o.op \notin Inserts
        PROVE  IndexesAt(h, v, bad \union Area(v, o))
    <3> DEFINE no == FALSE
               more == bad \union Area(v, o)
    <3>1. h = [g EXCEPT !.ok = no]
      BY <1>1, <2>2, ExecutedRow
    <3>2. bad \subseteq more
      OBVIOUS
    <3> HIDE DEF no, more
    <3>3. SameRows(g, h)
      BY <3>1, OkChanged DEF SameRows
    <3>4. IndexesAt(h, v, bad)
      BY <2>2, <3>3, SameIndexes
    <3>5. IndexesAt(h, v, more)
      BY <3>2, <3>4, MoreBad
    <3> QED
      BY <3>5 DEF more
  <2> QED
    BY <1>1, <2>1, <2>2 DEF IndexesAfter
<1>2. CASE Allowed(k, o)
  <2>1. h = Done(g, o) /\ r \in Nat
    BY <1>2, ExecutedRow, AllowedIs
  <2>2. CASE o.op \in Inserts
    <3>1. h = Inserted(ResizedStorage(g, t, r + n), t, r, n)
      BY <2>1, <2>2 DEF Done, Inserts, Deletes, Updates
    <3>2. \A s \in r..(r + n - 1) : ~IsUsed(Keeper(g, t), s)
      BY <1>2, <2>2, AllowedIs DEF RowsOf
    <3>3. Area(v, o) = {} /\ o.op \notin Updates
      BY <2>2 DEF Area, Inserts, Deletes, Updates
    <3> HIDE DEF t, r, n
    <3>4. /\ IsStorage(h, v) /\ h.ok = g.ok /\ h.schema = g.schema
          /\ \A bad : IndexesAt(g, v, bad) => IndexesAt(h, v, bad)
      BY <1>0, <2>1, <3>1, <3>2, NewRowsAre
    <3>5. ASSUME NEW bad, IndexesAt(g, v, bad)
          PROVE  IndexesAt(h, v, bad \ Area(v, o))
      <4>1. bad \ Area(v, o) = bad
        BY <3>3
      <4> QED
        BY <3>4, <3>5, <4>1
    <3> QED
      BY <1>2, <3>4, <3>5 DEF k, IndexesAfter
  <2>3. CASE o.op \in Deletes
    <3>1. h = Deleted(g, t, r, n)
      BY <2>1, <2>3 DEF Done, Inserts, Deletes, Updates
    <3>2. r + n <= Size(g, t) /\ \A s \in r..(r + n - 1) : IsUsed(Keeper(g, t), s)
      BY <1>2, <2>3, AllowedIs DEF RowsOf
    <3>3. Area(v, o) = {<<t, s, f>> : s \in r..(r + n - 1), f \in FieldsOf(v, t)}
      BY <2>3 DEF Area, RowsOf, Deletes, Updates
    <3> HIDE DEF t, r, n
    <3>4. IsStorage(h, v) /\ DeletedRows(g, h, v, t, r, n)
      BY <1>0, <2>1, <3>1, <3>2, DeletedIs
    <3>5. h.ok = g.ok /\ h.schema = g.schema
      BY <3>4 DEF DeletedRows
    <3>6. ASSUME NEW bad, IndexesAt(g, v, bad)
          PROVE  IndexesAt(h, v, bad \ Area(v, o))
      <4> DEFINE cells == {<<t, s, f>> : s \in r..(r + n - 1), f \in FieldsOf(v, t)}
                 rest == bad \ cells
      <4>1. rest = bad \ {<<t, s, f>> : s \in r..(r + n - 1), f \in FieldsOf(v, t)}
        OBVIOUS
      <4>2. rest = bad \ Area(v, o)
        BY <3>3
      <4> HIDE DEF rest
      <4>3. IndexesAt(h, v, rest)
        BY <1>0, <2>1, <3>2, <3>4, <3>6, <4>1, DeletedIndexes
      <4> QED
        BY <4>2, <4>3
    <3> QED
      BY <1>2, <3>4, <3>5, <3>6 DEF k, IndexesAfter
  <2>4. CASE o.op \in Updates
    <3> DEFINE vs == ValuesOf(o)
               f == o.f
               cells == Area(v, o)
    <3>1. h = Reindexed(Stored(g, t, r, f, vs), t, r, f, n)
      BY <2>1, <2>4 DEF Done, Inserts, Deletes, Updates
    <3>2. r + n <= Size(g, t) /\ \A s \in r..(r + n - 1) : IsUsed(Keeper(g, t), s)
      BY <1>2, <2>4, AllowedIs DEF RowsOf
    <3>3. \A x : x \in cells <=> \E s \in r..(r + n - 1) : x = <<t, s, f>>
      <4>1. cells = {<<t, s, f>> : s \in r..(r + n - 1)}
        BY <2>4 DEF Area, RowsOf, Deletes, Updates
      <4> HIDE DEF cells
      <4> QED
        BY <4>1
    <3>4. f \in FieldsOf(v, t) /\ Len(vs) = n /\ DOMAIN vs = 1..n
      BY <1>0, <2>4
    <3> HIDE DEF t, r, n, vs, f, cells
    <3>5. /\ IsStorage(h, v) /\ h.schema = g.schema /\ h.ok \in BOOLEAN
          /\ \A bad : IndexesAt(g, v, bad) => IndexesAfter(h, v, bad, cells)
      <4>1. UpdatesCells(g, v, t, r, f, vs, n, cells)
        BY <1>0, <2>1, <3>2, <3>3, <3>4 DEF UpdatesCells
      <4> QED
        BY <3>1, <4>1, NewCellsAre
    <3> QED
      BY <1>2, <2>4, <3>5 DEF k, cells
  <2> QED
    BY <2>2, <2>3, <2>4 DEF RowCall
<1> QED
  BY <1>1, <1>2

SchemaAfter(g, o) ==
  IF o.op \in SchemaOps \union {"custom"} THEN Append(g.schema, o) ELSE g.schema

(* The other calls of a journal do not change rows and cells. *)
OtherCallOn(g, v, o) == IsStorage(g, v) /\ g.ok = TRUE /\ IsCall(o) /\ ~RowCall(v, o)

(* The calls that are not about rows leave the rows alone. *)
LEMMA OtherCall ==
  ASSUME NEW g, NEW v, NEW o, OtherCallOn(g, v, o), NEW h, h = Executed(g, o)
  PROVE  /\ IsStorage(h, v) /\ h.ok = TRUE
         /\ SameRows(g, h) /\ h.schema = SchemaAfter(g, o)
<1>0. IsStorage(g, v) /\ g.ok = TRUE /\ IsCall(o) /\ ~RowCall(v, o)
  BY DEF OtherCallOn
<1>1. /\ DOMAIN g.tables = TablesOf(v)
      /\ \A t \in TablesOf(v) : DOMAIN g.tables[t].columns = FieldsOf(v, t)
  BY <1>0, StorageHas
<1>2. CASE o.op \in SchemaOps \union {"custom"}
  <2> DEFINE schema == Append(g.schema, o)
             x == [g EXCEPT !.schema = schema]
  <2>1. h = x
    BY <1>0, <1>2 DEF Executed, SchemaOps
  <2> HIDE DEF schema
  <2>2. x = [g EXCEPT !.schema = schema]
    OBVIOUS
  <2> HIDE DEF x
  <2>3. /\ IsStorage(x, v) /\ x.tables = g.tables /\ x.index = g.index
        /\ x.iterator = g.iterator /\ x.schema = schema /\ x.ok = g.ok
    BY <1>0, <2>2, SchemaChanged
  <2> QED
    BY <1>0, <1>2, <2>1, <2>3 DEF schema, SchemaAfter, SameRows
<1>3. CASE o.op \in {"comment", "timestamp", "valid_data"}
  BY <1>0, <1>3 DEF Executed, SchemaOps, SchemaAfter, SameRows
<1>4. CASE o.op \in Inserts \union Deletes /\ o.t \notin TablesOf(v)
  BY <1>0, <1>1, <1>4 DEF Executed, SchemaOps, SchemaAfter, SameRows, Inserts, Deletes
<1>5. CASE o.op \in Updates /\ ~(o.t \in TablesOf(v) /\ o.f \in FieldsOf(v, o.t))
  <2>1. h = UpdatedCells(g, o)
    BY <1>0, <1>5 DEF Executed, SchemaOps, Updates
  <2>2. ~KnowsField(g, o)
    BY <1>1, <1>5 DEF KnowsField
  <2>3. h = g
    BY <2>1, <2>2 DEF UpdatedCells
  <2> QED
    BY <1>0, <1>5, <2>3 DEF SchemaOps, SchemaAfter, SameRows, Updates
<1> QED
  BY <1>0, <1>2, <1>3, <1>4, <1>5
  DEF IsCall, RowCall, Inserts, Deletes, Updates, SchemaOps, InformationOps

(* The indexes of a database that has read a journal without an error are    *)
(* sound.                                                                    *)
HasSchema(g) == g.schema \in Seq(Range(g.schema))

ReadsSoundly(g, v) ==
  IsStorage(g, v) /\ HasSchema(g) /\ g.ok \in BOOLEAN /\ (g.ok => IndexesAt(g, v, {}))

(* The schema of a storage stays a sequence when a call is appended to it. *)
LEMMA SchemaGrows ==
  ASSUME NEW g, HasSchema(g), NEW o, NEW h, h.schema = g.schema \/ h.schema = Append(g.schema, o)
  PROVE  HasSchema(h)
<1> DEFINE s == g.schema
           X == Range(s) \union {o}
           t == Append(s, o)
<1>1. s \in Seq(X) /\ Len(s) \in Nat
  <2>1. s \in Seq(Range(s))
    BY DEF HasSchema
  <2> HIDE DEF s
  <2> QED
    BY <2>1
<1> HIDE DEF s, X
<1>2. t \in Seq(X) /\ Len(t) \in Nat
  BY <1>1 DEF X
<1> HIDE DEF t
<1>3. /\ t = [i \in 1..Len(t) |-> t[i]] /\ DOMAIN t = 1..Len(t)
  BY <1>2
<1>4. \A i \in 1..Len(t) : t[i] \in Range(t)
  BY <1>3 DEF Range
<1>5. t \in [1..Len(t) -> Range(t)]
  BY <1>3, <1>4
<1>6. t \in Seq(Range(t))
  BY <1>2, <1>5
<1> QED
  BY <1>6 DEF HasSchema, s, t

(* A call of a journal keeps the indexes of its reader sound. *)
LEMMA ExecutedSound ==
  ASSUME NEW g, NEW v, ReadsSoundly(g, v), NEW o, IsCall(o), NEW h, h = Executed(g, o)
  PROVE  ReadsSoundly(h, v)
<1>1. CASE ~g.ok
  <2>1. h = g
    BY <1>1 DEF Executed
  <2> QED
    BY <2>1
<1>2. CASE g.ok /\ RowCall(v, o)
  <2>0. IsStorage(g, v) /\ g.ok = TRUE
    BY <1>2 DEF ReadsSoundly
  <2> DEFINE none == {}
             rest == none \ Area(v, o)
  <2>1. rest = {}
    OBVIOUS
  <2>2. IndexesAt(g, v, none)
    BY <1>2 DEF ReadsSoundly
  <2>3. IsStorage(h, v) /\ h.ok \in BOOLEAN /\ HasSchema(h)
    <3>1. IsStorage(h, v) /\ h.ok \in BOOLEAN /\ h.schema = g.schema
      BY <1>2, <2>0, RowSound
    <3> QED
      BY <3>1, SchemaGrows DEF ReadsSoundly
  <2> HIDE DEF none
  <2>4. ASSUME h.ok
        PROVE  IndexesAfter(h, v, none, Area(v, o))
    BY <1>2, <2>0, <2>2, <2>4, RowSound
  <2>5. ASSUME h.ok
        PROVE  IndexesAt(h, v, {})
    <3>1. IndexesAt(h, v, rest)
      BY <2>4, <2>5 DEF IndexesAfter
    <3> HIDE DEF rest
    <3> QED
      BY <2>1, <3>1
  <2> QED
    BY <2>3, <2>5 DEF ReadsSoundly
<1>3. CASE g.ok /\ ~RowCall(v, o)
  <2>1. IsStorage(g, v) /\ g.ok = TRUE /\ IndexesAt(g, v, {})
    BY <1>3 DEF ReadsSoundly
  <2>2. IsStorage(h, v) /\ h.ok = TRUE /\ SameRows(g, h) /\ HasSchema(h)
    <3>1. OtherCallOn(g, v, o)
      BY <1>3, <2>1 DEF OtherCallOn
    <3>2. IsStorage(h, v) /\ h.ok = TRUE /\ SameRows(g, h) /\ h.schema = SchemaAfter(g, o)
      BY <3>1, OtherCall
    <3>3. h.schema = g.schema \/ h.schema = Append(g.schema, o)
      BY <3>2 DEF SchemaAfter
    <3> QED
      BY <3>2, <3>3, SchemaGrows DEF ReadsSoundly
  <2>3. IndexesAt(h, v, {})
    BY <2>1, <2>2, SameIndexes
  <2> QED
    BY <2>2, <2>3 DEF ReadsSoundly
<1> QED
  BY <1>1, <1>2, <1>3

(* A journal keeps the indexes of its reader sound, call after call. *)
LEMMA ReplayedSound ==
  ASSUME NEW g, NEW v, ReadsSoundly(g, v), NEW os, IsCalls(os), NEW h, h = Replayed(g, os)
  PROVE  ReadsSoundly(h, v)
<1> DEFINE n == Len(os)
<1>0. n \in Nat /\ \A i \in 1..n : IsCall(os[i])
  BY CallsLen
<1>1. PICK d : /\ d[0] = g /\ d[n] = h
               /\ \A i \in 0..(n - 1) : d[i + 1] = Executed(d[i], os[i + 1])
  <2>1. PICK d : Replays(d, g, os)
    BY <1>0, ReplayedSteps
  <2> QED
    BY <2>1 DEF Replays
<1> HIDE DEF n
<1> DEFINE S == {i \in 0..n : ReadsSoundly(d[i], v)}
<1>2. 0 \in S
  BY <1>0, <1>1
<1>3. ASSUME NEW i \in 0..(n - 1), i \in S
      PROVE  i + 1 \in S
  <2> DEFINE a == d[i]
             b == d[i + 1]
             o == os[i + 1]
  <2>1. ReadsSoundly(a, v) /\ b = Executed(a, o) /\ IsCall(o) /\ i + 1 \in 0..n
    BY <1>0, <1>1, <1>3
  <2> HIDE DEF a, b, o
  <2>2. ReadsSoundly(b, v)
    BY <2>1, ExecutedSound
  <2> QED
    BY <2>1, <2>2 DEF b
<1> HIDE DEF S
<1>4. \A i \in 0..n : i \in S
  BY <1>0, <1>2, <1>3, InductionUpTo
<1>5. n \in S
  BY <1>0, <1>4
<1> QED
  BY <1>1, <1>5 DEF S
-----------------------------------------------------------------------------
(***************************************************************************)
(* Two storages agree when they have the same records, the same cells, and *)
(* the same iterators, but for the cells whose update failed in the first  *)
(* one, and for the iterators of the indexes that these cells trigger.     *)
(***************************************************************************)

SameKeepers(g, m, v) == \A t \in TablesOf(v) : Keeper(g, t) = Keeper(m, t)

SameCells(g, m, v, bad) ==
  \A t \in TablesOf(v) : \A f \in FieldsOf(v, t) : \A r \in 0..(Size(g, t) - 1) :
    <<t, r, f>> \notin bad => Cell(g, t, f, r) = Cell(m, t, f, r)

Clean(v, i, r, bad) ==
  \A f : IsTrigger(Indexes[v][i], TableOf(v, i), f) => <<TableOf(v, i), r, f>> \notin bad

SameIterators(g, m, v, bad) ==
  \A i \in IndexesOf(v) : \A r \in 0..(Size(g, TableOf(v, i)) - 1) :
    Clean(v, i, r, bad) => g.iterator[i][r] = m.iterator[i][r]

Agree(g, m, v, bad) ==
  SameKeepers(g, m, v) /\ SameCells(g, m, v, bad) /\ SameIterators(g, m, v, bad)

(* A storage agrees with itself, and with more cells left out. *)
LEMMA AgreeSelf ==
  ASSUME NEW g, NEW m, NEW v, SameRows(g, m)
  PROVE  Agree(g, m, v, {})
BY DEF Agree, SameKeepers, SameCells, SameIterators, SameRows, Keeper, Cell

(* Storages that agree also do so for fewer cells. *)
LEMMA AgreeMore ==
  ASSUME NEW g, NEW m, NEW v, NEW bad, Agree(g, m, v, bad), NEW more, bad \subseteq more
  PROVE  Agree(g, m, v, more)
<1>1. SameCells(g, m, v, more)
  BY DEF Agree, SameCells
<1>2. SameIterators(g, m, v, more)
  BY DEF Agree, SameIterators, Clean
<1> QED
  BY <1>1, <1>2 DEF Agree

(* The schema and the failures do not count. *)
LEMMA AgreeRows ==
  ASSUME NEW g, NEW h, NEW m, NEW l, SameRows(g, h), SameRows(m, l),
         NEW v, NEW bad, Agree(g, m, v, bad)
  PROVE  Agree(h, l, v, bad)
BY DEF Agree, SameKeepers, SameCells, SameIterators, SameRows, Keeper, Cell, Size

(* resize *)
LEMMA AgreeResized ==
  ASSUME NEW g, NEW h, NEW m, NEW l, NEW v, IsStorage(g, v), IsStorage(m, v),
         NEW t \in TablesOf(v), NEW size \in Nat,
         Resized(g, h, v, t, size), Resized(m, l, v, t, size),
         NEW bad, Agree(g, m, v, bad)
  PROVE  Agree(h, l, v, bad)
<1>1. \A s \in TablesOf(v) : Keeper(g, s) = Keeper(m, s) /\ Size(g, s) = Size(m, s)
  BY DEF Agree, SameKeepers, Size
<1>2. \A s \in TablesOf(v) : s # t =>
        /\ h.tables[s] = g.tables[s] /\ l.tables[s] = m.tables[s]
        /\ Keeper(h, s) = Keeper(g, s) /\ Keeper(l, s) = Keeper(m, s) /\ Size(h, s) = Size(g, s)
  BY DEF Resized, Keeper, Size
<1>3. Keeper(h, t) = Keeper(l, t) /\ Size(h, t) = Size(l, t)
  BY <1>1 DEF Resized
<1>4. SameKeepers(h, l, v)
  BY <1>1, <1>2, <1>3 DEF SameKeepers
<1>5. ASSUME NEW s \in TablesOf(v), NEW f \in FieldsOf(v, s), NEW r \in 0..(Size(h, s) - 1),
             <<s, r, f>> \notin bad
      PROVE  Cell(h, s, f, r) = Cell(l, s, f, r)
  <2>1. CASE s # t
    <3>1. Cell(h, s, f, r) = Cell(g, s, f, r) /\ Cell(l, s, f, r) = Cell(m, s, f, r)
      BY <1>2, <2>1 DEF Cell
    <3>2. r \in 0..(Size(g, s) - 1)
      BY <1>2, <2>1
    <3> QED
      BY <1>5, <3>1, <3>2 DEF Agree, SameCells
  <2>2. CASE s = t
    <3>1. /\ Cell(h, t, f, r) = IF r \in 0..(Size(g, t) - 1) THEN Cell(g, t, f, r)
                                ELSE Default(FieldType(v, t, f))
          /\ Cell(l, t, f, r) = IF r \in 0..(Size(g, t) - 1) THEN Cell(m, t, f, r)
                                ELSE Default(FieldType(v, t, f))
      BY <1>1, <1>3, <2>2 DEF Resized
    <3>2. r \in 0..(Size(g, t) - 1) => Cell(g, t, f, r) = Cell(m, t, f, r)
      BY <1>5, <2>2 DEF Agree, SameCells
    <3> QED
      BY <2>2, <3>1, <3>2
  <2> QED
    BY <2>1, <2>2
<1>6. ASSUME NEW i \in IndexesOf(v), NEW r \in 0..(Size(h, TableOf(v, i)) - 1),
             Clean(v, i, r, bad)
      PROVE  h.iterator[i][r] = l.iterator[i][r]
  <2>0. TableOf(v, i) \in TablesOf(v)
    BY StorageHas
  <2>1. CASE TableOf(v, i) # t
    <3>1. h.iterator[i] = g.iterator[i] /\ l.iterator[i] = m.iterator[i]
      BY <2>1 DEF Resized
    <3>2. r \in 0..(Size(g, TableOf(v, i)) - 1)
      BY <1>2, <2>0, <2>1
    <3> QED
      BY <1>6, <3>1, <3>2 DEF Agree, SameIterators
  <2>2. CASE TableOf(v, i) = t
    <3>1. /\ h.iterator[i][r] = IF r \in 0..(Size(g, t) - 1) THEN g.iterator[i][r] ELSE Singular
          /\ l.iterator[i][r] = IF r \in 0..(Size(g, t) - 1) THEN m.iterator[i][r] ELSE Singular
      BY <1>1, <1>3, <2>2 DEF Resized
    <3>2. r \in 0..(Size(g, t) - 1) => g.iterator[i][r] = m.iterator[i][r]
      BY <1>6, <2>2 DEF Agree, SameIterators
    <3> QED
      BY <3>1, <3>2
  <2> QED
    BY <2>1, <2>2
<1> QED
  BY <1>4, <1>5, <1>6 DEF Agree, SameCells, SameIterators

(* An insert *)
LEMMA AgreeInserted ==
  ASSUME NEW g, NEW h, NEW m, NEW l, NEW v, IsStorage(g, v), IsStorage(m, v),
         NEW t \in TablesOf(v), NEW q, NEW n,
         InsertedRows(g, h, v, t, q, n), InsertedRows(m, l, v, t, q, n),
         NEW bad, Agree(g, m, v, bad)
  PROVE  Agree(h, l, v, bad)
<1>1. \A s \in TablesOf(v) : Keeper(g, s) = Keeper(m, s) /\ Size(g, s) = Size(m, s)
  BY DEF Agree, SameKeepers, Size
<1>2. \A s \in TablesOf(v) : s # t =>
        /\ h.tables[s] = g.tables[s] /\ l.tables[s] = m.tables[s]
        /\ Keeper(h, s) = Keeper(g, s) /\ Keeper(l, s) = Keeper(m, s) /\ Size(h, s) = Size(g, s)
  BY DEF InsertedRows, Keeper, Size
<1>3. Keeper(h, t) = Keeper(l, t) /\ Size(h, t) = Size(g, t)
  BY <1>1 DEF InsertedRows
<1>4. SameKeepers(h, l, v)
  BY <1>1, <1>2, <1>3 DEF SameKeepers
<1>5. ASSUME NEW s \in TablesOf(v), NEW f \in FieldsOf(v, s), NEW r \in 0..(Size(h, s) - 1),
             <<s, r, f>> \notin bad
      PROVE  Cell(h, s, f, r) = Cell(l, s, f, r)
  <2>1. CASE s # t
    <3>1. Cell(h, s, f, r) = Cell(g, s, f, r) /\ Cell(l, s, f, r) = Cell(m, s, f, r)
      BY <1>2, <2>1 DEF Cell
    <3>2. r \in 0..(Size(g, s) - 1)
      BY <1>2, <2>1
    <3> QED
      BY <1>5, <3>1, <3>2 DEF Agree, SameCells
  <2>2. CASE s = t
    BY <1>3, <1>5, <2>2 DEF Agree, SameCells, InsertedRows
  <2> QED
    BY <2>1, <2>2
<1>6. ASSUME NEW i \in IndexesOf(v), NEW r \in 0..(Size(h, TableOf(v, i)) - 1),
             Clean(v, i, r, bad)
      PROVE  h.iterator[i][r] = l.iterator[i][r]
  <2>0. TableOf(v, i) \in TablesOf(v)
    BY StorageHas
  <2>1. CASE TableOf(v, i) # t
    <3>1. h.iterator[i] = g.iterator[i] /\ l.iterator[i] = m.iterator[i]
      BY <2>1 DEF InsertedRows
    <3>2. r \in 0..(Size(g, TableOf(v, i)) - 1)
      BY <1>2, <2>0, <2>1
    <3> QED
      BY <1>6, <3>1, <3>2 DEF Agree, SameIterators
  <2>2. CASE TableOf(v, i) = t
    <3>0. r \in 0..(Size(g, t) - 1)
      BY <1>3, <2>2
    <3>1. /\ h.iterator[i][r] = IF In(r, q, n) THEN End ELSE g.iterator[i][r]
          /\ l.iterator[i][r] = IF In(r, q, n) THEN End ELSE m.iterator[i][r]
      BY <1>1, <2>2, <3>0 DEF InsertedRows
    <3>2. g.iterator[i][r] = m.iterator[i][r]
      BY <1>6, <2>2, <3>0 DEF Agree, SameIterators
    <3> QED
      BY <3>1, <3>2
  <2> QED
    BY <2>1, <2>2
<1> QED
  BY <1>4, <1>5, <1>6 DEF Agree, SameCells, SameIterators

(* A delete: the cells that it clears agree again. *)
LEMMA AgreeDeleted ==
  ASSUME NEW g, NEW h, NEW m, NEW l, NEW v, IsStorage(g, v), IsStorage(m, v),
         NEW t \in TablesOf(v), NEW q \in Nat, NEW n \in Nat,
         DeletedRows(g, h, v, t, q, n), DeletedRows(m, l, v, t, q, n),
         NEW bad, Agree(g, m, v, bad), NEW rest,
         \A x \in bad : x \notin rest =>
           \E s \in q..(q + n - 1), f \in FieldsOf(v, t) : x = <<t, s, f>>
  PROVE  Agree(h, l, v, rest)
<1>1. \A s \in TablesOf(v) : Keeper(g, s) = Keeper(m, s) /\ Size(g, s) = Size(m, s)
  BY DEF Agree, SameKeepers, Size
<1>2. \A s \in TablesOf(v) : s # t =>
        /\ h.tables[s] = g.tables[s] /\ l.tables[s] = m.tables[s]
        /\ Keeper(h, s) = Keeper(g, s) /\ Keeper(l, s) = Keeper(m, s) /\ Size(h, s) = Size(g, s)
  BY DEF DeletedRows, Keeper, Size
<1>3. Keeper(h, t) = Keeper(l, t) /\ Size(h, t) = Size(g, t)
  BY <1>1 DEF DeletedRows
<1>4. SameKeepers(h, l, v)
  BY <1>1, <1>2, <1>3 DEF SameKeepers
<1>4a. ASSUME NEW s, NEW f, NEW r \in Int, <<s, r, f>> \notin rest, <<s, r, f>> \in bad
       PROVE  s = t /\ In(r, q, n)
  <2>1. PICK y \in q..(q + n - 1), e \in FieldsOf(v, t) : <<s, r, f>> = <<t, y, e>>
    BY <1>4a
  <2>2. s = t /\ r = y
    BY <2>1
  <2> QED
    BY <2>2, InIs
<1>5. ASSUME NEW s \in TablesOf(v), NEW f \in FieldsOf(v, s), NEW r \in 0..(Size(h, s) - 1),
             <<s, r, f>> \notin rest
      PROVE  Cell(h, s, f, r) = Cell(l, s, f, r)
  <2>1. CASE s # t
    <3>1. <<s, r, f>> \notin bad
      BY <1>4a, <1>5, <2>1
    <3>2. Cell(h, s, f, r) = Cell(g, s, f, r) /\ Cell(l, s, f, r) = Cell(m, s, f, r)
      BY <1>2, <2>1 DEF Cell
    <3>3. r \in 0..(Size(g, s) - 1)
      BY <1>2, <2>1
    <3> QED
      BY <3>1, <3>2, <3>3 DEF Agree, SameCells
  <2>2. CASE s = t
    <3>0. r \in 0..(Size(g, t) - 1)
      BY <1>3, <2>2
    <3>1. /\ Cell(h, t, f, r) = IF In(r, q, n) THEN Default(FieldType(v, t, f)) ELSE Cell(g, t, f, r)
          /\ Cell(l, t, f, r) = IF In(r, q, n) THEN Default(FieldType(v, t, f)) ELSE Cell(m, t, f, r)
      BY <1>1, <2>2, <3>0 DEF DeletedRows
    <3>2. ~In(r, q, n) => Cell(g, t, f, r) = Cell(m, t, f, r)
      BY <1>4a, <1>5, <2>2, <3>0 DEF Agree, SameCells
    <3> QED
      BY <2>2, <3>1, <3>2
  <2> QED
    BY <2>1, <2>2
<1>6. ASSUME NEW i \in IndexesOf(v), NEW r \in 0..(Size(h, TableOf(v, i)) - 1),
             Clean(v, i, r, rest)
      PROVE  h.iterator[i][r] = l.iterator[i][r]
  <2>0. TableOf(v, i) \in TablesOf(v)
    BY StorageHas
  <2>1. CASE TableOf(v, i) # t
    <3>1. h.iterator[i] = g.iterator[i] /\ l.iterator[i] = m.iterator[i]
      BY <2>1 DEF DeletedRows
    <3>2. r \in 0..(Size(g, TableOf(v, i)) - 1)
      BY <1>2, <2>0, <2>1
    <3>3. Clean(v, i, r, bad)
      BY <1>4a, <1>6, <2>1 DEF Clean
    <3> QED
      BY <3>1, <3>2, <3>3 DEF Agree, SameIterators
  <2>2. CASE TableOf(v, i) = t
    <3>0. r \in 0..(Size(g, t) - 1)
      BY <1>3, <2>2
    <3>1. /\ h.iterator[i][r] = IF In(r, q, n) THEN End ELSE g.iterator[i][r]
          /\ l.iterator[i][r] = IF In(r, q, n) THEN End ELSE m.iterator[i][r]
      BY <1>1, <2>2, <3>0 DEF DeletedRows
    <3>2. ASSUME ~In(r, q, n)
          PROVE  g.iterator[i][r] = m.iterator[i][r]
      <4>1. Clean(v, i, r, bad)
        BY <1>4a, <1>6, <3>2 DEF Clean
      <4> QED
        BY <2>2, <3>0, <4>1 DEF Agree, SameIterators
    <3> QED
      BY <3>1, <3>2
  <2> QED
    BY <2>1, <2>2
<1> QED
  BY <1>4, <1>5, <1>6 DEF Agree, SameCells, SameIterators
(* Two storages with the same cells give the same keys. *)
LEMMA SameKeys ==
  ASSUME NEW g, NEW m, NEW v, IsStorage(g, v), IsStorage(m, v), SameCells(g, m, v, {}),
         NEW i \in IndexesOf(v), NEW s \in 0..(Size(g, TableOf(v, i)) - 1)
  PROVE  Key(g, i, s) = Key(m, i, s)
<1> DEFINE T == TableOf(v, i)
           fs == Indexes[v][i].fs
<1>1. g.version = v /\ m.version = v /\ v \in Versions
  BY StorageHas
<1>2. /\ Key(g, i, s) = [k \in DOMAIN fs |-> Cell(g, T, fs[k], s)]
      /\ Key(m, i, s) = [k \in DOMAIN fs |-> Cell(m, T, fs[k], s)]
  BY <1>1 DEF Key, Cell, TableOf
<1>3. \A k \in DOMAIN fs : T \in TablesOf(v) /\ fs[k] \in FieldsOf(v, T)
  BY <1>1, FieldsOfIndex DEF FieldAt
<1>4. \A k \in DOMAIN fs : Cell(g, T, fs[k], s) = Cell(m, T, fs[k], s)
  BY <1>3 DEF SameCells
<1> HIDE DEF T, fs
<1> QED
  BY <1>2, <1>4

(* Two storages where the records of a vector meet the same entries, with    *)
(* the same keys                                                             *)
Alike(g, m, i, r, n) ==
  /\ g.version = m.version
  /\ \A e : e \in Others(g, i, r..(r + n - 1)) <=> e \in Others(m, i, r..(r + n - 1))
  /\ \A s \in r..(r + n - 1) : Key(g, i, s) = Key(m, i, s)

(* Storages that are alike find the same duplicates. *)
LEMMA SameTaken ==
  ASSUME NEW g, NEW m, NEW i, NEW r \in Nat, NEW n \in Nat, Alike(g, m, i, r, n)
  PROVE  /\ \A s \in r..(r + n - 1) : Added(g, i, r, n, s) <=> Added(m, i, r, n, s)
         /\ Duplicate(g, i, r, n) <=> Duplicate(m, i, r, n)
<1> DEFINE out == r..(r + n - 1)
<1>1. ASSUME NEW s \in out
      PROVE  Taken(g, i, r, n, s) <=> Taken(m, i, r, n, s)
  <2>1. Key(g, i, s) = Key(m, i, s) /\ g.version = m.version
    BY DEF Alike
  <2>2. \A q \in r..(s - 1) : Key(g, i, q) = Key(m, i, q)
    <3>1. \A q \in r..(s - 1) : q \in out
      OBVIOUS
    <3> QED
      BY <3>1 DEF Alike
  <2>3. (\E q \in r..(s - 1) : Key(g, i, q) = Key(g, i, s)) <=>
        (\E q \in r..(s - 1) : Key(m, i, q) = Key(m, i, s))
    BY <2>1, <2>2
  <2>4. (\E e \in Others(g, i, out) : e[1] = Key(g, i, s)) <=>
        (\E e \in Others(m, i, out) : e[1] = Key(m, i, s))
    BY <2>1 DEF Alike
  <2> QED
    BY <2>1, <2>3, <2>4 DEF Taken
<1>2. ASSUME NEW s \in out
      PROVE  Added(g, i, r, n, s) <=> Added(m, i, r, n, s)
  <2>1. \A q \in r..s : q \in out
    OBVIOUS
  <2>2. \A q \in r..s : Taken(g, i, r, n, q) <=> Taken(m, i, r, n, q)
    BY <1>1, <2>1
  <2> QED
    BY <2>2 DEF Added
<1>3. Duplicate(g, i, r, n) <=> Duplicate(m, i, r, n)
  BY <1>1 DEF Duplicate
<1> QED
  BY <1>2, <1>3

(* The indexes of two storages with the same cells, after the same update    *)
Reindexes(e, d, v, t, r, f, vs, n, cells, bad) ==
  /\ UpdatesCells(e, v, t, r, f, vs, n, cells) /\ IsStorage(d, v)
  /\ SameKeepers(e, d, v) /\ SameCells(e, d, v, {}) /\ SameIterators(e, d, v, bad)
  /\ bad \subseteq cells

(* Storages that agree on the cells are alike for an index that an update    *)
(* triggers.                                                                 *)
LEMMA ReindexesAlike ==
  ASSUME NEW e, NEW d, NEW v, NEW t, NEW r, NEW f, NEW vs, NEW n, NEW cells, NEW bad,
         Reindexes(e, d, v, t, r, f, vs, n, cells, bad),
         NEW x, NEW y, IndexesAt(e, v, x), IndexesAt(d, v, y),
         NEW i \in IndexesOf(v), TableOf(v, i) = t
  PROVE  Alike(e, d, i, r, n)
<1> DEFINE out == r..(r + n - 1)
<1>0. /\ IsStorage(e, v) /\ IsStorage(d, v) /\ r \in Nat /\ n \in Nat /\ t \in TablesOf(v)
      /\ r + n <= Size(e, t) /\ \A s \in out : IsUsed(Keeper(e, t), s)
      /\ SameKeepers(e, d, v) /\ SameCells(e, d, v, {})
      /\ bad \subseteq cells
  BY DEF Reindexes, UpdatesCells
<1>1. e.version = v /\ d.version = v /\ v \in Versions
  BY <1>0, StorageHas
<1>2. /\ Keeper(d, t) = Keeper(e, t) /\ Size(e, t) \in Nat
      /\ \A s \in Int : IsUsed(Keeper(e, t), s) => s \in 0..(Size(e, t) - 1)
  BY <1>0, StorageHas DEF SameKeepers
<1>3. ASSUME NEW s \in 0..(Size(e, t) - 1), s \notin out
      PROVE  e.iterator[i][s] = d.iterator[i][s]
  <2>1. \A g : <<t, s, g>> \notin cells
    BY <1>3 DEF Reindexes, UpdatesCells
  <2>2. Clean(v, i, s, bad)
    BY <1>0, <2>1 DEF Clean
  <2> QED
    BY <2>2 DEF Reindexes, SameIterators
<1>4. ASSUME NEW s, s \notin out
      PROVE  /\ Entered(e, v, i, s) <=> Entered(d, v, i, s)
             /\ Entered(e, v, i, s) => e.iterator[i][s] = d.iterator[i][s]
  <2>1. ASSUME s \in Nat, IsUsed(Keeper(e, t), s)
        PROVE  e.iterator[i][s] = d.iterator[i][s]
    <3>1. s \in Int
      BY <2>1
    <3>2. s \in 0..(Size(e, t) - 1)
      BY <1>2, <2>1, <3>1
    <3> QED
      BY <1>3, <1>4, <3>2
  <2> HIDE DEF out
  <2> QED
    BY <1>2, <2>1 DEF Entered
<1>5. ASSUME NEW s \in out
      PROVE  Key(e, i, s) = Key(d, i, s)
  <2>1. s \in 0..(Size(e, t) - 1)
    BY <1>0, <1>2
  <2> QED
    BY <1>0, <2>1, SameKeys
<1>6. \A s \in out : s \in Nat /\ IsUsed(Keeper(e, t), s) /\ IsUsed(Keeper(d, t), s)
  BY <1>0, <1>2
<1> HIDE DEF out
<1>7. IndexAt(e, v, i, x) /\ IndexAt(d, v, i, y)
  BY DEF IndexesAt
<1>8. /\ \A a : a \in Others(e, i, out) <=>
           \E s : Entered(e, v, i, s) /\ s \notin out /\ e.iterator[i][s] = a
      /\ \A a : a \in Others(d, i, out) <=>
           \E s : Entered(d, v, i, s) /\ s \notin out /\ d.iterator[i][s] = a
  BY <1>6, <1>7, OthersIs
<1>9. \A a : a \in Others(e, i, out) <=> a \in Others(d, i, out)
  BY <1>4, <1>8
<1> QED
  BY <1>1, <1>5, <1>9 DEF Alike, out

(* When an update reaches all the indexes of the first storage, it does so in*)
(* the second one, and they agree on everything.                             *)
LEMMA AgreeReindexed ==
  ASSUME NEW e, NEW d, NEW v, NEW t, NEW r, NEW f, NEW vs, NEW n, NEW cells, NEW bad,
         Reindexes(e, d, v, t, r, f, vs, n, cells, bad),
         NEW x, NEW y, IndexesAt(e, v, x), IndexesAt(d, v, y),
         NEW h, NEW l, ReindexedRows(e, h, v, t, r, f, n), ReindexedRows(d, l, v, t, r, f, n), h.ok
  PROVE  l.ok /\ Agree(h, l, v, {})
<1> DEFINE out == r..(r + n - 1)
<1>0. /\ IsStorage(e, v) /\ IsStorage(d, v) /\ r \in Nat /\ n \in Nat /\ t \in TablesOf(v)
      /\ SameKeepers(e, d, v) /\ SameCells(e, d, v, {})
      /\ bad \subseteq cells /\ SameIterators(e, d, v, bad)
      /\ \A z \in cells : \E s \in out : z = <<t, s, f>>
  BY DEF Reindexes, UpdatesCells
<1>1. ASSUME NEW i \in IndexesOf(v)
      PROVE  /\ i \in Triggered(e, t, f) <=> IsTrigger(Indexes[v][i], t, f)
             /\ i \in Triggered(d, t, f) <=> IsTrigger(Indexes[v][i], t, f)
             /\ i \in Triggered(e, t, f) => TableOf(v, i) = t
  BY <1>0, TriggeredIs
<1>2. Triggered(e, t, f) \subseteq IndexesOf(v) /\ Triggered(d, t, f) \subseteq IndexesOf(v)
  BY <1>0, StorageHas DEF Triggered
<1>3. ASSUME NEW i \in Triggered(e, t, f)
      PROVE  /\ \A s \in out : /\ Added(e, i, r, n, s) <=> Added(d, i, r, n, s)
                               /\ Key(e, i, s) = Key(d, i, s)
             /\ ~Duplicate(e, i, r, n) /\ ~Duplicate(d, i, r, n)
  <2>1. i \in IndexesOf(v) /\ TableOf(v, i) = t
    BY <1>1, <1>2
  <2>2. Alike(e, d, i, r, n)
    BY <2>1, ReindexesAlike
  <2>3. ~Duplicate(e, i, r, n)
    BY DEF ReindexedRows
  <2>4. \A s \in out : Key(e, i, s) = Key(d, i, s)
    BY <2>2 DEF Alike
  <2> QED
    BY <1>0, <2>2, <2>3, <2>4, SameTaken
<1>4. \A i \in Triggered(d, t, f) : i \in Triggered(e, t, f)
  BY <1>1, <1>2
<1>5. l.ok
  BY <1>3, <1>4 DEF ReindexedRows
<1>6. /\ h.tables = e.tables /\ l.tables = d.tables
      /\ \A s : Keeper(h, s) = Keeper(e, s) /\ Keeper(l, s) = Keeper(d, s) /\ Size(h, s) = Size(e, s)
      /\ \A s, q, z : Cell(h, s, q, z) = Cell(e, s, q, z) /\ Cell(l, s, q, z) = Cell(d, s, q, z)
  BY DEF ReindexedRows, Keeper, Size, Cell
<1>7. SameKeepers(h, l, v) /\ SameCells(h, l, v, {})
  BY <1>0, <1>6 DEF SameKeepers, SameCells
<1>8. ASSUME NEW i \in IndexesOf(v), NEW s \in 0..(Size(h, TableOf(v, i)) - 1)
      PROVE  h.iterator[i][s] = l.iterator[i][s]
  <2>1. CASE i \in Triggered(e, t, f)
    <3>1. TableOf(v, i) = t /\ s \in 0..(Size(e, t) - 1)
      BY <1>1, <1>6, <2>1
    <3>2. i \in Reached(e, t, r, f, n) /\ i \in Reached(d, t, r, f, n)
      BY <1>1, <1>3, <1>4, <2>1 DEF Reached
    <3>3. /\ h.iterator[i][s] = IF s \notin out THEN e.iterator[i][s]
                                ELSE IF Added(e, i, r, n, s) THEN <<Key(e, i, s), s>> ELSE End
          /\ l.iterator[i][s] = IF s \notin out THEN d.iterator[i][s]
                                ELSE IF Added(d, i, r, n, s) THEN <<Key(d, i, s), s>> ELSE End
      <4>1. Size(d, t) = Size(e, t)
        BY <1>0 DEF SameKeepers, Size
      <4> QED
        BY <3>1, <3>2, <4>1 DEF ReindexedRows
    <3>4. CASE s \in out
      <4>1. /\ Added(e, i, r, n, s) <=> Added(d, i, r, n, s)
            /\ Key(e, i, s) = Key(d, i, s)
        BY <1>3, <2>1, <3>4
      <4> HIDE DEF out
      <4> QED
        BY <3>3, <3>4, <4>1
    <3>5. CASE s \notin out
      <4>1. Clean(v, i, s, bad)
        BY <1>0, <3>5 DEF Clean
      <4>2. e.iterator[i][s] = d.iterator[i][s]
        BY <1>0, <3>1, <4>1 DEF SameIterators
      <4> HIDE DEF out
      <4> QED
        BY <3>3, <3>5, <4>2
    <3> QED
      BY <3>4, <3>5
  <2>2. CASE i \notin Triggered(e, t, f)
    <3>1. i \notin Triggered(d, t, f) /\ ~IsTrigger(Indexes[v][i], t, f)
      BY <1>1, <2>2
    <3>2. h.iterator[i] = e.iterator[i] /\ l.iterator[i] = d.iterator[i]
      BY <2>2, <3>1 DEF ReindexedRows, Reached
    <3>3. Clean(v, i, s, bad)
      <4>1. ASSUME NEW g, IsTrigger(Indexes[v][i], TableOf(v, i), g), <<TableOf(v, i), s, g>> \in bad
            PROVE  FALSE
        <5>1. PICK q \in out : <<TableOf(v, i), s, g>> = <<t, q, f>>
          BY <1>0, <4>1
        <5> QED
          BY <3>1, <4>1, <5>1
      <4> QED
        BY <4>1 DEF Clean
    <3> QED
      BY <1>0, <1>6, <3>2, <3>3 DEF SameIterators
  <2> QED
    BY <2>1, <2>2
<1> QED
  BY <1>5, <1>7, <1>8 DEF Agree, SameIterators

(* An update of the cells of which the last update failed, or when no update *)
(* has failed, succeeds in both, or in neither.                              *)
LEMMA AgreeUpdated ==
  ASSUME NEW g, NEW h, NEW m, NEW l, NEW v, NEW t, NEW r, NEW f, NEW vs, NEW n, NEW cells,
         UpdatesCells(g, v, t, r, f, vs, n, cells), IsStorage(m, v),
         NewCells(g, h, v, t, r, f, vs), NewCells(m, l, v, t, r, f, vs),
         NEW bad, bad \subseteq cells, Agree(g, m, v, bad),
         IndexesAt(g, v, bad), IndexesAt(m, v, {}), h.ok
  PROVE  l.ok /\ Agree(h, l, v, {})
<1>0. /\ IsStorage(g, v) /\ t \in TablesOf(v) /\ f \in FieldsOf(v, t)
      /\ r \in Nat /\ n \in Nat /\ Len(vs) = n /\ DOMAIN vs = 1..n
      /\ r + n <= Size(g, t) /\ \A s \in r..(r + n - 1) : IsUsed(Keeper(g, t), s)
      /\ \A x : x \in cells <=> \E s \in r..(r + n - 1) : x = <<t, s, f>>
  BY DEF UpdatesCells
<1>1. PICK e : /\ IsStorage(e, v) /\ StoredCells(g, e, v, t, r, f, vs)
               /\ ReindexedRows(e, h, v, t, r, f, n)
  BY <1>0 DEF NewCells
<1>2. PICK d : /\ IsStorage(d, v) /\ StoredCells(m, d, v, t, r, f, vs)
               /\ ReindexedRows(d, l, v, t, r, f, n)
  BY <1>0 DEF NewCells
<1>3. /\ \A s \in TablesOf(v) : /\ Keeper(e, s) = Keeper(g, s) /\ Size(e, s) = Size(g, s)
                               /\ Keeper(d, s) = Keeper(m, s)
      /\ \A s \in TablesOf(v) : Keeper(g, s) = Keeper(m, s) /\ Size(g, s) = Size(m, s)
  BY <1>1, <1>2 DEF StoredCells, Keeper, Size, Agree, SameKeepers
<1>4. ASSUME NEW s \in TablesOf(v), NEW q \in FieldsOf(v, s), NEW z \in 0..(Size(e, s) - 1)
      PROVE  Cell(e, s, q, z) = Cell(d, s, q, z)
  <2>0. z \in 0..(Size(g, s) - 1) /\ z \in 0..(Size(m, s) - 1)
    BY <1>3
  <2>1. <<s, z, q>> \in bad => s = t /\ q = f /\ In(z, r, n)
    <3>1. SUFFICES ASSUME <<s, z, q>> \in bad
                   PROVE  s = t /\ q = f /\ In(z, r, n)
      OBVIOUS
    <3>2. PICK y \in r..(r + n - 1) : <<s, z, q>> = <<t, y, f>>
      BY <1>0, <3>1
    <3>3. s = t /\ z = y /\ q = f
      BY <3>2
    <3> QED
      BY <1>0, <3>3, InIs
  <2>2. CASE s # t
    <3>1. Cell(e, s, q, z) = Cell(g, s, q, z) /\ Cell(d, s, q, z) = Cell(m, s, q, z)
      BY <1>1, <1>2, <2>2 DEF StoredCells, Cell
    <3>2. Cell(g, s, q, z) = Cell(m, s, q, z)
      BY <2>0, <2>1, <2>2 DEF Agree, SameCells
    <3> QED
      BY <3>1, <3>2
  <2>3. CASE s = t
    <3> DEFINE y == vs[z - r + 1]
               a == Cell(g, t, q, z)
               b == Cell(m, t, q, z)
    <3>1. /\ Cell(e, t, q, z) = IF q = f /\ In(z, r, n) THEN y ELSE a
          /\ Cell(d, t, q, z) = IF q = f /\ In(z, r, n) THEN y ELSE b
      BY <1>0, <1>1, <1>2, <2>0, <2>3 DEF StoredCells
    <3> HIDE DEF y
    <3>2. ~(q = f /\ In(z, r, n)) => a = b
      BY <2>0, <2>1, <2>3 DEF Agree, SameCells
    <3> HIDE DEF a, b
    <3> QED
      BY <2>3, <3>1, <3>2
  <2> QED
    BY <2>2, <2>3
<1>5. ASSUME NEW i \in IndexesOf(v), NEW s \in 0..(Size(e, TableOf(v, i)) - 1), Clean(v, i, s, bad)
      PROVE  e.iterator[i][s] = d.iterator[i][s]
  <2>1. e.iterator = g.iterator /\ d.iterator = m.iterator
    BY <1>1, <1>2 DEF StoredCells
  <2>2. TableOf(v, i) \in TablesOf(v)
    BY <1>0, StorageHas
  <2> QED
    BY <1>3, <1>5, <2>1, <2>2 DEF Agree, SameIterators
<1>6. UpdatesCells(e, v, t, r, f, vs, n, cells)
  BY <1>0, <1>1, <1>3 DEF UpdatesCells
<1>7. Reindexes(e, d, v, t, r, f, vs, n, cells, bad)
  BY <1>2, <1>3, <1>4, <1>5, <1>6 DEF Reindexes, SameKeepers, SameCells, SameIterators
<1> DEFINE more == bad \union cells
           none == {}
           y == none \union cells
<1>8. IndexesAt(e, v, more)
  <2>1. bad \subseteq more /\ \A s \in r..(r + n - 1) : <<t, s, f>> \in more
    BY <1>0
  <2> HIDE DEF more
  <2> QED
    BY <1>0, <1>1, <2>1, StoredIndexes
<1>9. IndexesAt(d, v, y)
  <2>1. none \subseteq y /\ (\A s \in r..(r + n - 1) : <<t, s, f>> \in y) /\ IndexesAt(m, v, none)
    BY <1>0
  <2> HIDE DEF y, none
  <2> QED
    BY <1>0, <1>2, <2>1, StoredIndexes
<1> HIDE DEF more, none, y
<1> QED
  BY <1>1, <1>2, <1>7, <1>8, <1>9, AgreeReindexed

(* An update that fails in the first one changes nothing but its cells. *)
LEMMA AgreeFailed ==
  ASSUME NEW g, NEW h, NEW m, NEW v, NEW t, NEW r, NEW f, NEW vs, NEW n, NEW cells,
         UpdatesCells(g, v, t, r, f, vs, n, cells), NewCells(g, h, v, t, r, f, vs),
         NEW bad, Agree(g, m, v, bad), NEW more, bad \subseteq more, cells \subseteq more
  PROVE  Agree(h, m, v, more)
<1>0. /\ IsStorage(g, v) /\ t \in TablesOf(v) /\ f \in FieldsOf(v, t)
      /\ r \in Nat /\ n \in Nat /\ Len(vs) = n /\ DOMAIN vs = 1..n
      /\ \A s \in r..(r + n - 1) : <<t, s, f>> \in more
  BY DEF UpdatesCells
<1>1. PICK e : /\ IsStorage(e, v) /\ StoredCells(g, e, v, t, r, f, vs)
               /\ ReindexedRows(e, h, v, t, r, f, n)
  BY <1>0 DEF NewCells
<1>2. /\ \A s \in TablesOf(v) : Keeper(h, s) = Keeper(g, s) /\ Size(h, s) = Size(g, s)
      /\ \A s \in TablesOf(v) : Size(e, s) = Size(g, s)
      /\ \A s \in TablesOf(v) : Keeper(g, s) = Keeper(m, s)
      /\ \A s, q, z : Cell(h, s, q, z) = Cell(e, s, q, z)
  BY <1>1 DEF StoredCells, ReindexedRows, Keeper, Size, Cell, Agree, SameKeepers
<1>3. ASSUME NEW s \in TablesOf(v), NEW q \in FieldsOf(v, s), NEW z \in 0..(Size(h, s) - 1),
             <<s, z, q>> \notin more
      PROVE  Cell(h, s, q, z) = Cell(m, s, q, z)
  <2>0. z \in 0..(Size(g, s) - 1) /\ <<s, z, q>> \notin bad
    BY <1>2, <1>3
  <2>1. Cell(g, s, q, z) = Cell(m, s, q, z)
    BY <2>0 DEF Agree, SameCells
  <2>2. CASE s # t
    <3>1. Cell(e, s, q, z) = Cell(g, s, q, z)
      BY <1>1, <2>2 DEF StoredCells, Cell
    <3> QED
      BY <1>2, <2>1, <3>1
  <2>3. CASE s = t
    <3> DEFINE y == vs[z - r + 1]
               a == Cell(g, t, q, z)
    <3>1. Cell(e, t, q, z) = IF q = f /\ In(z, r, n) THEN y ELSE a
      BY <1>0, <1>1, <2>0, <2>3 DEF StoredCells
    <3>2. ~(q = f /\ In(z, r, n))
      BY <1>0, <1>3, <2>3, InIs
    <3> HIDE DEF y, a
    <3>3. Cell(e, t, q, z) = a
      BY <3>1, <3>2
    <3> QED
      BY <1>2, <2>1, <2>3, <3>3 DEF a
  <2> QED
    BY <2>2, <2>3
<1>4. ASSUME NEW i \in IndexesOf(v), NEW s \in 0..(Size(h, TableOf(v, i)) - 1), Clean(v, i, s, more)
      PROVE  h.iterator[i][s] = m.iterator[i][s]
  <2>0. TableOf(v, i) \in TablesOf(v)
    BY <1>0, StorageHas
  <2>1. s \in 0..(Size(g, TableOf(v, i)) - 1) /\ s \in 0..(Size(e, TableOf(v, i)) - 1)
    BY <1>2, <2>0
  <2>2. Clean(v, i, s, bad)
    BY <1>4 DEF Clean
  <2>3. g.iterator[i][s] = m.iterator[i][s]
    BY <2>1, <2>2 DEF Agree, SameIterators
  <2>4. h.iterator[i][s] = e.iterator[i][s]
    <3>1. CASE i \notin Reached(e, t, r, f, n)
      BY <1>1, <3>1 DEF ReindexedRows
    <3>2. CASE i \in Reached(e, t, r, f, n)
      <4>1. IsTrigger(Indexes[v][i], t, f) /\ TableOf(v, i) = t
        BY <1>1, <3>2, TriggeredIs DEF Reached
      <4>2. s \notin r..(r + n - 1)
        BY <1>0, <1>4, <4>1 DEF Clean
      <4> QED
        BY <1>1, <2>1, <3>2, <4>2 DEF ReindexedRows
    <3> QED
      BY <3>1, <3>2
  <2>5. e.iterator = g.iterator
    BY <1>1 DEF StoredCells
  <2> QED
    BY <2>3, <2>4, <2>5
<1> QED
  BY <1>2, <1>3, <1>4 DEF Agree, SameKeepers, SameCells, SameIterators
-----------------------------------------------------------------------------
(***************************************************************************)
(* A call that two storages that agree execute: the one of a writer, which *)
(* may have cells whose last update failed, and the one of a program that  *)
(* reads what its journal holds.                                           *)
(***************************************************************************)

Agreeing(g, m, v, bad) ==
  /\ IsStorage(g, v) /\ IsStorage(m, v) /\ g.ok = TRUE /\ m.ok = TRUE
  /\ Agree(g, m, v, bad) /\ IndexesAt(g, v, bad) /\ IndexesAt(m, v, {})

AgreeAfter(h, l, m, v, bad, cells) ==
  /\ h.ok => l.ok /\ Agree(h, l, v, bad \ cells)
  /\ ~h.ok => Agree(h, m, v, bad \union cells)

(* An insert *)
LEMMA NewRowsAgree ==
  ASSUME NEW g, NEW h, NEW m, NEW l, NEW v, IsStorage(g, v), IsStorage(m, v),
         NEW t \in TablesOf(v), NEW r \in Nat, NEW n \in Nat,
         NewRows(g, h, v, t, r, n), NewRows(m, l, v, t, r, n),
         NEW bad, Agree(g, m, v, bad)
  PROVE  Agree(h, l, v, bad)
<1> DEFINE size == r + n
<1>0. size \in Nat
  OBVIOUS
<1>1. PICK e : IsStorage(e, v) /\ Resized(g, e, v, t, r + n) /\ InsertedRows(e, h, v, t, r, n)
  BY DEF NewRows
<1>2. PICK d : IsStorage(d, v) /\ Resized(m, d, v, t, r + n) /\ InsertedRows(d, l, v, t, r, n)
  BY DEF NewRows
<1>3. Resized(g, e, v, t, size) /\ Resized(m, d, v, t, size)
  BY <1>1, <1>2
<1> HIDE DEF size
<1>4. Agree(e, d, v, bad)
  BY <1>0, <1>1, <1>2, <1>3, AgreeResized
<1> QED
  BY <1>1, <1>2, <1>4, AgreeInserted

(* A call on rows keeps two storages in agreement. *)
LEMMA RowAgree ==
  ASSUME NEW g, NEW m, NEW v, NEW bad, Agreeing(g, m, v, bad), NEW o, RowCall(v, o),
         o.op \in Inserts => Allowed(Keeper(g, o.t), o),
         o.op \in Updates => bad \subseteq Area(v, o),
         NEW h, h = Executed(g, o), NEW l, l = Executed(m, o)
  PROVE  AgreeAfter(h, l, m, v, bad, Area(v, o))
<1> DEFINE k == Keeper(g, o.t)
           t == o.t
           r == o.r
           n == Count(o)
           cells == Area(v, o)
           f == o.f
           vs == ValuesOf(o)
<1>0. /\ t \in TablesOf(v) /\ n \in Nat /\ r \in Int
      /\ o.op \in Updates => f \in FieldsOf(v, t) /\ Len(vs) = n /\ DOMAIN vs = 1..n
  BY RowCallIs
<1>1. /\ IsStorage(g, v) /\ IsStorage(m, v) /\ g.ok = TRUE /\ m.ok = TRUE
      /\ Agree(g, m, v, bad) /\ IndexesAt(g, v, bad) /\ IndexesAt(m, v, {})
  BY DEF Agreeing
<1>2. Keeper(m, t) = k
  BY <1>0, <1>1 DEF Agree, SameKeepers
<1>3. CASE ~Allowed(k, o)
  <2>1. h = [g EXCEPT !.ok = FALSE] /\ h.ok = FALSE
    BY <1>1, <1>3, ExecutedRow
  <2>2. SameRows(g, h)
    <3> DEFINE no == FALSE
    <3>1. h = [g EXCEPT !.ok = no]
      BY <2>1
    <3> HIDE DEF no
    <3> QED
      BY <1>1, <3>1, OkChanged DEF SameRows
  <2>3. SameRows(m, m)
    BY DEF SameRows
  <2> DEFINE more == bad \union cells
  <2>4. bad \subseteq more
    OBVIOUS
  <2> HIDE DEF more
  <2>5. Agree(h, m, v, bad)
    BY <1>1, <2>2, <2>3, AgreeRows
  <2>6. Agree(h, m, v, more)
    BY <2>4, <2>5, AgreeMore
  <2> QED
    BY <2>1, <2>6 DEF AgreeAfter, more
<1>4. CASE Allowed(k, o)
  <2>1. h = Done(g, o) /\ l = Done(m, o) /\ r \in Nat
    BY <1>1, <1>2, <1>4, ExecutedRow, AllowedIs
  <2>2. CASE o.op \in Inserts
    <3>1. /\ h = Inserted(ResizedStorage(g, t, r + n), t, r, n)
          /\ l = Inserted(ResizedStorage(m, t, r + n), t, r, n)
      BY <2>1, <2>2 DEF Done, Inserts, Deletes, Updates
    <3>2. \A s \in r..(r + n - 1) : ~IsUsed(Keeper(g, t), s) /\ ~IsUsed(Keeper(m, t), s)
      BY <1>1, <1>2, <1>4, <2>2, AllowedIs DEF RowsOf
    <3>3. cells = {}
      BY <2>2 DEF Area, Inserts, Deletes, Updates
    <3> HIDE DEF t, r, n, k, cells
    <3>4. /\ NewRows(g, h, v, t, r, n) /\ h.ok = g.ok
          /\ NewRows(m, l, v, t, r, n) /\ l.ok = m.ok
      <4>1. NewRows(g, h, v, t, r, n) /\ h.ok = g.ok
        BY <1>0, <1>1, <2>1, <3>1, <3>2, NewRowsAre
      <4>2. NewRows(m, l, v, t, r, n) /\ l.ok = m.ok
        BY <1>0, <1>1, <2>1, <3>1, <3>2, NewRowsAre
      <4> QED
        BY <4>1, <4>2
    <3>5. Agree(h, l, v, bad)
      BY <1>0, <1>1, <2>1, <3>4, NewRowsAgree
    <3>6. bad \ cells = bad
      BY <3>3
    <3> QED
      BY <1>1, <3>4, <3>5, <3>6 DEF AgreeAfter, cells
  <2>3. CASE o.op \in Deletes
    <3>1. h = Deleted(g, t, r, n) /\ l = Deleted(m, t, r, n)
      BY <2>1, <2>3 DEF Done, Inserts, Deletes, Updates
    <3>2. /\ r + n <= Size(g, t) /\ \A s \in r..(r + n - 1) : IsUsed(Keeper(g, t), s)
          /\ r + n <= Size(m, t) /\ \A s \in r..(r + n - 1) : IsUsed(Keeper(m, t), s)
      BY <1>1, <1>2, <1>4, <2>3, AllowedIs DEF RowsOf
    <3>3. cells = {<<t, s, q>> : s \in r..(r + n - 1), q \in FieldsOf(v, t)}
      BY <2>3 DEF Area, RowsOf, Deletes, Updates
    <3> DEFINE rest == bad \ cells
    <3>4. \A x \in bad : x \notin rest =>
            \E s \in r..(r + n - 1), q \in FieldsOf(v, t) : x = <<t, s, q>>
      <4>1. \A x \in bad : x \notin rest => x \in cells
        OBVIOUS
      <4> HIDE DEF rest, cells
      <4> QED
        BY <3>3, <4>1
    <3> HIDE DEF t, r, n, k, cells, rest
    <3>5. IsStorage(h, v) /\ DeletedRows(g, h, v, t, r, n)
      BY <1>0, <1>1, <2>1, <3>1, <3>2, DeletedIs
    <3>6. IsStorage(l, v) /\ DeletedRows(m, l, v, t, r, n)
      BY <1>0, <1>1, <2>1, <3>1, <3>2, DeletedIs
    <3>7. Agree(h, l, v, rest)
      BY <1>0, <1>1, <2>1, <3>4, <3>5, <3>6, AgreeDeleted
    <3>8. h.ok = TRUE /\ l.ok = TRUE
      BY <1>1, <3>5, <3>6 DEF DeletedRows
    <3> QED
      BY <3>7, <3>8 DEF AgreeAfter, cells, rest
  <2>4. CASE o.op \in Updates
    <3>1. /\ h = Reindexed(Stored(g, t, r, f, vs), t, r, f, n)
          /\ l = Reindexed(Stored(m, t, r, f, vs), t, r, f, n)
      BY <2>1, <2>4 DEF Done, Inserts, Deletes, Updates
    <3>2. /\ r + n <= Size(g, t) /\ \A s \in r..(r + n - 1) : IsUsed(Keeper(g, t), s)
          /\ r + n <= Size(m, t) /\ \A s \in r..(r + n - 1) : IsUsed(Keeper(m, t), s)
      BY <1>1, <1>2, <1>4, <2>4, AllowedIs DEF RowsOf
    <3>3. \A x : x \in cells <=> \E s \in r..(r + n - 1) : x = <<t, s, f>>
      <4>1. cells = {<<t, s, f>> : s \in r..(r + n - 1)}
        BY <2>4 DEF Area, RowsOf, Deletes, Updates
      <4> HIDE DEF cells
      <4> QED
        BY <4>1
    <3>4. f \in FieldsOf(v, t) /\ Len(vs) = n /\ DOMAIN vs = 1..n
      BY <1>0, <2>4
    <3>5. bad \subseteq cells
      BY <2>4
    <3> HIDE DEF t, r, n, k, vs, f, cells
    <3>6. UpdatesCells(g, v, t, r, f, vs, n, cells) /\ UpdatesCells(m, v, t, r, f, vs, n, cells)
      BY <1>0, <1>1, <2>1, <3>2, <3>3, <3>4 DEF UpdatesCells
    <3>7. /\ NewCells(g, h, v, t, r, f, vs) /\ NewCells(m, l, v, t, r, f, vs)
          /\ h.ok \in BOOLEAN /\ l.ok \in BOOLEAN
      <4>1. NewCells(g, h, v, t, r, f, vs) /\ h.ok \in BOOLEAN
        BY <3>1, <3>6, NewCellsAre
      <4>2. NewCells(m, l, v, t, r, f, vs) /\ l.ok \in BOOLEAN
        BY <3>1, <3>6, NewCellsAre
      <4> QED
        BY <4>1, <4>2
    <3>8. CASE h.ok
      <4>1. l.ok /\ Agree(h, l, v, {})
        BY <1>1, <3>5, <3>6, <3>7, <3>8, AgreeUpdated
      <4>2. bad \ cells = {}
        BY <3>5
      <4> QED
        BY <3>8, <4>1, <4>2 DEF AgreeAfter, cells
    <3>9. CASE ~h.ok
      <4> DEFINE more == bad \union cells
      <4>1. bad \subseteq more /\ cells \subseteq more
        OBVIOUS
      <4> HIDE DEF more
      <4>2. Agree(h, m, v, more)
        BY <1>1, <3>6, <3>7, <4>1, AgreeFailed
      <4> QED
        BY <3>9, <4>2 DEF AgreeAfter, cells, more
    <3> QED
      BY <3>8, <3>9
  <2> QED
    BY <2>2, <2>3, <2>4 DEF RowCall
<1> QED
  BY <1>3, <1>4

(* The indexes of a storage are given by its iterators. *)
LEMMA AgreeEqual ==
  ASSUME NEW g, NEW m, NEW v, IsStorage(g, v), IsStorage(m, v), Agree(g, m, v, {}),
         IndexesAt(g, v, {}), IndexesAt(m, v, {}), g.schema = m.schema, g.ok = m.ok
  PROVE  g = m
<1>1. \A t \in TablesOf(v) : Keeper(g, t) = Keeper(m, t)
  BY DEF Agree, SameKeepers
<1>2. \A t \in TablesOf(v) : \A f \in FieldsOf(v, t) : \A r \in 0..(Size(g, t) - 1) :
        Cell(g, t, f, r) = Cell(m, t, f, r)
  BY DEF Agree, SameCells
<1>3. \A i \in IndexesOf(v) : \A r \in 0..(Size(g, TableOf(v, i)) - 1) :
        g.iterator[i][r] = m.iterator[i][r]
  BY DEF Agree, SameIterators, Clean
<1>4. ASSUME NEW i \in IndexesOf(v)
      PROVE  g.index[i] = m.index[i]
  <2>1. TableOf(v, i) \in TablesOf(v)
    BY StorageHas
  <2>2. \A r \in Int : IsUsed(Keeper(g, TableOf(v, i)), r) => r \in 0..(Size(g, TableOf(v, i)) - 1)
    BY <2>1, StorageHas
  <2>3. \A r : Entered(g, v, i, r) <=> Entered(m, v, i, r)
    BY <1>1, <1>3, <2>1, <2>2 DEF Entered
  <2>4. \A r : Entered(g, v, i, r) => g.iterator[i][r] = m.iterator[i][r]
    BY <1>3, <2>1, <2>2 DEF Entered
  <2>5. /\ \A e : e \in g.index[i] <=> \E r : Entered(g, v, i, r) /\ g.iterator[i][r] = e
        /\ \A e : e \in m.index[i] <=> \E r : Entered(m, v, i, r) /\ m.iterator[i][r] = e
    BY DEF IndexesAt, IndexAt
  <2>6. \A e : e \in g.index[i] <=> e \in m.index[i]
    BY <2>3, <2>4, <2>5
  <2> QED
    BY <2>6
<1> QED
  BY <1>1, <1>2, <1>3, <1>4, SameStorage
-----------------------------------------------------------------------------
(***************************************************************************)
(* Replays of the parts of a journal.                                      *)
(***************************************************************************)

Plays(d, a, s) ==
  d[0] = a /\ \A i \in 0..(Len(s) - 1) : d[i + 1] = Executed(d[i], s[i + 1])

(* A replay has one result. *)
LEMMA PlaysIs ==
  ASSUME NEW d, NEW a, NEW s, Len(s) \in Nat, Plays(d, a, s)
  PROVE  d[Len(s)] = Replayed(a, s)
<1> DEFINE n == Len(s)
<1>1. PICK c : /\ c[0] = a /\ c[n] = Replayed(a, s)
               /\ \A i \in 0..(n - 1) : c[i + 1] = Executed(c[i], s[i + 1])
  <2>1. PICK c : Replays(c, a, s)
    BY ReplayedSteps
  <2> QED
    BY <2>1 DEF Replays
<1>2. d[0] = a /\ \A i \in 0..(n - 1) : d[i + 1] = Executed(d[i], s[i + 1])
  BY DEF Plays
<1>3. n \in Nat
  OBVIOUS
<1> HIDE DEF n
<1> DEFINE S == {i \in 0..n : d[i] = c[i]}
<1>4. 0 \in S
  BY <1>1, <1>2, <1>3
<1>5. ASSUME NEW i \in 0..(n - 1), i \in S
      PROVE  i + 1 \in S
  BY <1>1, <1>2, <1>3, <1>5
<1> HIDE DEF S
<1>6. \A i \in 0..n : i \in S
  BY <1>3, <1>4, <1>5, InductionUpTo
<1>7. n \in S
  BY <1>3, <1>6
<1> QED
  BY <1>1, <1>7 DEF S, n

(* A journal followed by more calls *)
LEMMA ReplayedConcat ==
  ASSUME NEW a, NEW s, NEW t, IsCalls(s), IsCalls(t)
  PROVE  Replayed(a, s \o t) = Replayed(Replayed(a, s), t)
<1> DEFINE m == Len(s)
           n == Len(t)
           b == Replayed(a, s)
           u == s \o t
<1>1. /\ m \in Nat /\ n \in Nat /\ Len(u) = m + n
      /\ \A i \in 1..(m + n) : u[i] = IF i <= m THEN s[i] ELSE t[i - m]
  <2> DEFINE X == Range(s) \union Range(t)
  <2>1. s \in Seq(X) /\ t \in Seq(X)
    <3>1. s \in Seq(Range(s)) /\ t \in Seq(Range(t))
      BY DEF IsCalls
    <3> QED
      BY <3>1
  <2> HIDE DEF X
  <2> QED
    BY <2>1
<1>2. PICK c : /\ c[0] = a /\ c[m] = b
               /\ \A i \in 0..(m - 1) : c[i + 1] = Executed(c[i], s[i + 1])
  <2>1. PICK c : Replays(c, a, s)
    BY <1>1, ReplayedSteps
  <2> QED
    BY <2>1 DEF Replays
<1>3. PICK e : /\ e[0] = b /\ e[n] = Replayed(b, t)
               /\ \A i \in 0..(n - 1) : e[i + 1] = Executed(e[i], t[i + 1])
  <2>1. PICK e : Replays(e, b, t)
    BY <1>1, ReplayedSteps
  <2> QED
    BY <2>1 DEF Replays
<1> DEFINE d == [i \in 0..(m + n) |-> IF i <= m THEN c[i] ELSE e[i - m]]
<1> HIDE DEF m, n, b, u
<1>4. d[0] = a
  <2>1. 0 \in 0..(m + n) /\ 0 <= m
    BY <1>1
  <2>2. d[0] = c[0]
    BY <2>1
  <2> HIDE DEF d
  <2> QED
    BY <1>2, <2>2
<1>5. ASSUME NEW i \in 0..((m + n) - 1)
      PROVE  d[i + 1] = Executed(d[i], u[i + 1])
  <2>0. i + 1 \in 1..(m + n) /\ i + 1 \in 0..(m + n) /\ i \in 0..(m + n) /\ i \in Nat
    BY <1>1
  <2>1. CASE i + 1 <= m
    <3>1. i \in 0..(m - 1) /\ i <= m
      BY <1>1, <2>1
    <3>2. d[i + 1] = c[i + 1] /\ d[i] = c[i] /\ u[i + 1] = s[i + 1]
      BY <1>1, <2>0, <2>1, <3>1
    <3> HIDE DEF d
    <3> QED
      BY <1>2, <3>1, <3>2
  <2>2. CASE ~(i + 1 <= m)
    <3>1. i - m \in 0..(n - 1) /\ i + 1 - m = (i - m) + 1 /\ (i <= m => i = m)
      BY <1>1, <2>0, <2>2
    <3>2. d[i + 1] = e[(i - m) + 1] /\ u[i + 1] = t[(i - m) + 1]
      BY <1>1, <2>0, <2>2, <3>1
    <3>3. d[i] = e[i - m]
      <4>1. CASE i <= m
        <5>1. i = m /\ i - m = 0 /\ d[i] = c[i]
          BY <1>1, <2>0, <3>1, <4>1
        <5> HIDE DEF d
        <5> QED
          BY <1>2, <1>3, <5>1
      <4>2. CASE ~(i <= m)
        BY <2>0, <4>2
      <4> QED
        BY <4>1, <4>2
    <3> HIDE DEF d
    <3> DEFINE j == i - m
    <3>4. j \in 0..(n - 1) /\ d[i + 1] = e[j + 1] /\ u[i + 1] = t[j + 1] /\ d[i] = e[j]
      BY <3>1, <3>2, <3>3
    <3> HIDE DEF j
    <3> QED
      BY <1>3, <3>4
  <2> QED
    BY <2>1, <2>2
<1>6. d[m + n] = Replayed(b, t)
  <2> DEFINE j == m + n
  <2>1. j \in 0..(m + n) /\ j - m = n /\ (j <= m => n = 0 /\ j = m)
    BY <1>1
  <2> HIDE DEF j
  <2>2. CASE j <= m
    <3>1. d[j] = c[j] /\ n = 0 /\ j = m
      BY <2>1, <2>2
    <3> HIDE DEF d
    <3> QED
      BY <1>2, <1>3, <3>1 DEF j
  <2>3. CASE ~(j <= m)
    <3>1. d[j] = e[j - m]
      BY <2>1, <2>3
    <3> HIDE DEF d
    <3>2. e[j - m] = e[n]
      BY <2>1
    <3> QED
      BY <1>3, <3>1, <3>2 DEF j
  <2> QED
    BY <2>2, <2>3
<1> HIDE DEF d
<1>7. Plays(d, a, u) /\ Len(u) \in Nat
  BY <1>1, <1>4, <1>5 DEF Plays
<1>8. d[Len(u)] = Replayed(a, u)
  BY <1>7, PlaysIs
<1> QED
  BY <1>1, <1>6, <1>8 DEF u, b

(* An empty journal *)
LEMMA ReplayedNothing ==
  ASSUME NEW a
  PROVE  Replayed(a, <<>>) = a
<1> DEFINE s == <<>>
<1>1. Len(s) = 0 /\ Len(s) \in Nat
  OBVIOUS
<1> HIDE DEF s
<1>2. PICK d : /\ d[0] = a /\ d[Len(s)] = Replayed(a, s)
               /\ \A i \in 0..(Len(s) - 1) : d[i + 1] = Executed(d[i], s[i + 1])
  <2>1. PICK d : Replays(d, a, s)
    BY <1>1, ReplayedSteps
  <2> QED
    BY <2>1 DEF Replays
<1> QED
  BY <1>1, <1>2 DEF s

(* One more call *)
LEMMA ReplayedAppend ==
  ASSUME NEW a, NEW s, IsCalls(s), NEW o, IsCall(o)
  PROVE  /\ IsCalls(Append(s, o))
         /\ Replayed(a, Append(s, o)) = Executed(Replayed(a, s), o)
<1> DEFINE t == <<o>>
           b == Replayed(a, s)
<1>1. Len(t) = 1 /\ t[1] = o /\ Len(t) \in Nat
  OBVIOUS
<1>2. IsCalls(t)
  BY OneCall
<1>3. Append(s, o) = s \o t
  <2>1. s \in Seq(Range(s))
    BY DEF IsCalls
  <2> DEFINE X == Range(s) \union {o}
  <2>2. s \in Seq(X) /\ o \in X
    BY <2>1
  <2> HIDE DEF X
  <2> QED
    BY <2>2
<1> HIDE DEF t, b
<1>4. PICK d : /\ d[0] = b /\ d[Len(t)] = Replayed(b, t)
               /\ \A i \in 0..(Len(t) - 1) : d[i + 1] = Executed(d[i], t[i + 1])
  <2>1. PICK d : Replays(d, b, t)
    BY <1>1, ReplayedSteps
  <2> QED
    BY <2>1 DEF Replays
<1>5. Replayed(b, t) = Executed(b, o)
  <2>1. 0 \in 0..(Len(t) - 1)
    BY <1>1
  <2>2. d[0 + 1] = Executed(d[0], t[0 + 1])
    BY <1>4, <2>1
  <2> QED
    BY <1>1, <1>4, <2>2
<1>6. IsCalls(s \o t) /\ Replayed(a, s \o t) = Replayed(b, t)
  BY <1>2, CallsConcat, ReplayedConcat DEF b
<1> QED
  BY <1>3, <1>5, <1>6 DEF b
-----------------------------------------------------------------------------
(***************************************************************************)
(* The schema that a journal holds.                                        *)
(***************************************************************************)

(* The schemas that a list of calls goes through *)
Knows(d, s) ==
  /\ d[0] = <<>> /\ d[Len(s)] = SchemaOf(s)
  /\ \A i \in 0..(Len(s) - 1) : d[i + 1] = WithSchema(d[i], s[i + 1])

LEMMA SchemaSteps ==
  ASSUME NEW s, Len(s) \in Nat
  PROVE  \E d : Knows(d, s)
<1> DEFINE m == Len(s)
           Is(g, j) == g = [i \in 0..j |-> IF i = 0 THEN <<>> ELSE WithSchema(g[i - 1], s[i])]
           S == {j \in 0..m : \E g : Is(g, j)}
<1> HIDE DEF m
<1>0. m \in Nat
  BY DEF m
<1>1. 0 \in S
  <2>1. Is([i \in 0..0 |-> <<>>], 0)
    OBVIOUS
  <2>2. \E g : Is(g, 0)
    BY <2>1
  <2> HIDE DEF Is
  <2> QED
    BY <1>0, <2>2
<1>2. ASSUME NEW j \in 0..(m - 1), j \in S
      PROVE  j + 1 \in S
  <2>1. PICK g : Is(g, j)
    BY <1>2
  <2> DEFINE h == [i \in 0..(j + 1) |-> IF i = j + 1 THEN WithSchema(g[j], s[j + 1]) ELSE g[i]]
  <2>2. \A i \in 0..j : g[i] = IF i = 0 THEN <<>> ELSE WithSchema(g[i - 1], s[i])
    BY <2>1
  <2>3. ASSUME NEW i \in 0..(j + 1)
        PROVE  h[i] = IF i = 0 THEN <<>> ELSE WithSchema(h[i - 1], s[i])
    <3>1. CASE i = j + 1
      <4>1. h[i - 1] = g[j] /\ i # 0
        BY <1>0, <3>1
      <4>2. h[i] = WithSchema(g[j], s[j + 1])
        BY <3>1
      <4> HIDE DEF h
      <4> QED
        BY <3>1, <4>1, <4>2
    <3>2. CASE i # j + 1
      <4>1. i \in 0..j /\ h[i] = g[i] /\ (i # 0 => h[i - 1] = g[i - 1])
        BY <1>0, <3>2
      <4> HIDE DEF h
      <4> QED
        BY <2>2, <4>1
    <3> QED
      BY <3>1, <3>2
  <2>4. h = [i \in 0..(j + 1) |-> h[i]]
    OBVIOUS
  <2> HIDE DEF h
  <2>5. Is(h, j + 1)
    BY <2>3, <2>4
  <2>6. j + 1 \in 0..m
    BY <1>0
  <2> QED
    BY <2>5, <2>6
<1> HIDE DEF S
<1>3. m \in S
  <2>1. \A j \in 0..m : j \in S
    BY <1>0, <1>1, <1>2, InductionUpTo
  <2> QED
    BY <1>0, <2>1
<1>4. \E g : Is(g, m)
  BY <1>3 DEF S
<1> DEFINE c == CHOOSE g : Is(g, m)
<1>5. Is(c, m)
  BY <1>4
<1>6. c[m] = SchemaOf(s)
  BY DEF m, SchemaOf
<1> HIDE DEF c
<1>7. c[0] = <<>> /\ \A i \in 0..(m - 1) : c[i + 1] = WithSchema(c[i], s[i + 1])
  <2>1. ASSUME NEW i \in 0..m
        PROVE  c[i] = IF i = 0 THEN <<>> ELSE WithSchema(c[i - 1], s[i])
    BY <1>5
  <2>2. ASSUME NEW i \in 0..(m - 1)
        PROVE  c[i + 1] = WithSchema(c[i], s[i + 1])
    <3>1. i + 1 \in 0..m /\ i + 1 # 0 /\ i + 1 - 1 = i
      BY <1>0
    <3> QED
      BY <2>1, <3>1
  <2>3. 0 \in 0..m
    BY <1>0
  <2> QED
    BY <2>1, <2>2, <2>3
<1> QED
  BY <1>6, <1>7 DEF m, Knows

(* A sequence *)
IsList(s) == s \in Seq(Range(s))

(* A sequence of anything *)
LEMMA ListOf ==
  ASSUME NEW X, NEW s \in Seq(X)
  PROVE  IsList(s)
<1>1. /\ Len(s) \in Nat
      /\ s = [i \in 1..Len(s) |-> s[i]] /\ DOMAIN s = 1..Len(s)
  OBVIOUS
<1>2. \A i \in 1..Len(s) : s[i] \in Range(s)
  BY <1>1 DEF Range
<1>3. s \in [1..Len(s) -> Range(s)]
  BY <1>1, <1>2
<1> QED
  BY <1>1, <1>3 DEF IsList

(* Sequences one after the other *)
LEMMA ListConcat ==
  ASSUME NEW s, NEW t, IsList(s), IsList(t)
  PROVE  /\ IsList(s \o t) /\ Len(s) \in Nat /\ Len(t) \in Nat
         /\ Len(s \o t) = Len(s) + Len(t)
         /\ \A i \in 1..(Len(s) + Len(t)) :
              (s \o t)[i] = IF i <= Len(s) THEN s[i] ELSE t[i - Len(s)]
<1> DEFINE X == Range(s) \union Range(t)
<1>1. s \in Seq(X) /\ t \in Seq(X)
  <2>1. s \in Seq(Range(s)) /\ t \in Seq(Range(t))
    BY DEF IsList
  <2> QED
    BY <2>1
<1> HIDE DEF X
<1>2. /\ s \o t \in Seq(X) /\ Len(s \o t) = Len(s) + Len(t)
      /\ Len(s) \in Nat /\ Len(t) \in Nat
      /\ \A i \in 1..(Len(s) + Len(t)) :
           (s \o t)[i] = IF i <= Len(s) THEN s[i] ELSE t[i - Len(s)]
  BY <1>1, ConcatIs
<1> QED
  BY <1>2, ListOf

(* Two sequences of the same elements *)
LEMMA SameList ==
  ASSUME NEW s, NEW t, IsList(s), IsList(t), Len(s) = Len(t),
         \A i \in 1..Len(s) : s[i] = t[i]
  PROVE  s = t
<1>1. s \in Seq(Range(s)) /\ t \in Seq(Range(t))
  BY DEF IsList
<1> QED
  BY <1>1

(* One more element *)
LEMMA ListAppend ==
  ASSUME NEW s, IsList(s), NEW o
  PROVE  /\ IsList(Append(s, o)) /\ Len(s) \in Nat /\ Len(Append(s, o)) = Len(s) + 1
         /\ \A i \in 1..(Len(s) + 1) : Append(s, o)[i] = IF i <= Len(s) THEN s[i] ELSE o
<1> DEFINE X == Range(s) \union {o}
<1>1. s \in Seq(X) /\ o \in X
  <2>1. s \in Seq(Range(s))
    BY DEF IsList
  <2> QED
    BY <2>1
<1> HIDE DEF X
<1>2. /\ Append(s, o) \in Seq(X) /\ Len(Append(s, o)) = Len(s) + 1 /\ Len(s) \in Nat
      /\ \A i \in 1..(Len(s) + 1) : Append(s, o)[i] = IF i <= Len(s) THEN s[i] ELSE o
  BY <1>1
<1> QED
  BY <1>2, ListOf

(* The empty sequence *)
LEMMA EmptyList ==
  ASSUME NEW e, e = <<>>
  PROVE  /\ IsList(e) /\ Len(e) = 0
         /\ \A s : IsList(s) => s \o e = s /\ e \o s = s
<1>1. e \in Seq({}) /\ Len(e) = 0
  OBVIOUS
<1>2. IsList(e)
  BY <1>1, ListOf
<1>3. ASSUME NEW s, IsList(s)
      PROVE  s \o e = s /\ e \o s = s
  <2> DEFINE t == s \o e
             u == e \o s
  <2>1. /\ IsList(t) /\ Len(s) \in Nat /\ Len(t) = Len(s) + Len(e)
        /\ \A i \in 1..(Len(s) + Len(e)) : t[i] = IF i <= Len(s) THEN s[i] ELSE e[i - Len(s)]
    BY <1>2, <1>3, ListConcat
  <2>2. /\ IsList(u) /\ Len(u) = Len(e) + Len(s)
        /\ \A i \in 1..(Len(e) + Len(s)) : u[i] = IF i <= Len(e) THEN e[i] ELSE s[i - Len(e)]
    BY <1>2, <1>3, ListConcat
  <2> HIDE DEF t, u
  <2>3. Len(t) = Len(s) /\ \A i \in 1..Len(t) : t[i] = s[i]
    BY <1>1, <2>1
  <2>4. Len(u) = Len(s) /\ \A i \in 1..Len(u) : u[i] = s[i]
    <3>1. Len(u) = Len(s)
      BY <1>1, <2>1, <2>2
    <3>2. ASSUME NEW i \in 1..Len(s)
          PROVE  u[i] = s[i]
      <4>1. i \in 1..(Len(e) + Len(s)) /\ ~(i <= Len(e)) /\ i - Len(e) = i
        BY <1>1, <2>1
      <4> QED
        BY <2>2, <4>1
    <3> QED
      BY <3>1, <3>2
  <2>5. t = s /\ u = s
    BY <1>3, <2>1, <2>2, <2>3, <2>4, SameList
  <2> QED
    BY <2>5 DEF t, u
<1> QED
  BY <1>1, <1>2, <1>3

(* The schema after one more call, when there was another part before *)
LEMMA WithSchemaConcat ==
  ASSUME NEW s, NEW t, IsList(s), IsList(t), NEW o
  PROVE  IsList(WithSchema(t, o)) /\ WithSchema(s \o t, o) = s \o WithSchema(t, o)
<1> DEFINE a == Append(t, o)
           b == s \o t
           c == Append(b, o)
           d == s \o a
<1>1. /\ IsList(a) /\ Len(t) \in Nat /\ Len(a) = Len(t) + 1
      /\ \A i \in 1..(Len(t) + 1) : a[i] = IF i <= Len(t) THEN t[i] ELSE o
  BY ListAppend
<1>2. /\ IsList(b) /\ Len(s) \in Nat /\ Len(b) = Len(s) + Len(t)
      /\ \A i \in 1..(Len(s) + Len(t)) : b[i] = IF i <= Len(s) THEN s[i] ELSE t[i - Len(s)]
  BY ListConcat
<1>3. /\ IsList(c) /\ Len(c) = Len(b) + 1
      /\ \A i \in 1..(Len(b) + 1) : c[i] = IF i <= Len(b) THEN b[i] ELSE o
  <2>1. IsList(b)
    BY <1>2
  <2> HIDE DEF b
  <2> QED
    BY <2>1, ListAppend
<1>4. /\ IsList(d) /\ Len(d) = Len(s) + Len(a)
      /\ \A i \in 1..(Len(s) + Len(a)) : d[i] = IF i <= Len(s) THEN s[i] ELSE a[i - Len(s)]
  <2>1. IsList(a)
    BY <1>1
  <2> HIDE DEF a
  <2> QED
    BY <2>1, ListConcat
<1> HIDE DEF a, b, c, d
<1>5. Len(c) = Len(d)
  BY <1>1, <1>2, <1>3, <1>4
<1>6. ASSUME NEW i \in 1..Len(c)
      PROVE  c[i] = d[i]
  <2> DEFINE j == i - Len(s)
  <2>0. i \in 1..(Len(b) + 1) /\ i \in 1..(Len(s) + Len(a)) /\ i \in Nat
    BY <1>1, <1>2, <1>3, <1>4
  <2>1. CASE i <= Len(s)
    <3>1. i <= Len(b) /\ i \in 1..(Len(s) + Len(t))
      BY <1>1, <1>2, <2>0, <2>1
    <3> QED
      BY <1>2, <1>3, <1>4, <2>0, <2>1, <3>1
  <2>2. CASE ~(i <= Len(s)) /\ i <= Len(b)
    <3>1. i \in 1..(Len(s) + Len(t)) /\ j \in 1..(Len(t) + 1) /\ j <= Len(t)
      BY <1>1, <1>2, <2>0, <2>2
    <3>2. c[i] = t[j] /\ d[i] = a[j]
      BY <1>2, <1>3, <1>4, <2>0, <2>2, <3>1
    <3> HIDE DEF j
    <3> QED
      BY <1>1, <3>1, <3>2
  <2>3. CASE ~(i <= Len(b))
    <3>1. ~(i <= Len(s)) /\ j \in 1..(Len(t) + 1) /\ ~(j <= Len(t))
      BY <1>1, <1>2, <2>0, <2>3
    <3>2. c[i] = o /\ d[i] = a[j]
      BY <1>2, <1>3, <1>4, <2>0, <2>3, <3>1
    <3> HIDE DEF j
    <3> QED
      BY <1>1, <3>1, <3>2
  <2> QED
    BY <2>1, <2>2, <2>3
<1>7. c = d
  BY <1>3, <1>4, <1>5, <1>6, SameList
<1> QED
  BY <1>1, <1>7 DEF WithSchema, a, b, c, d

(* The schemas of a list of calls are sequences. *)
LEMMA KnowsLists ==
  ASSUME NEW d, NEW s, Len(s) \in Nat, Knows(d, s)
  PROVE  \A i \in 0..Len(s) : IsList(d[i])
<1> DEFINE n == Len(s)
           e == <<>>
<1>1. n \in Nat /\ d[0] = e /\ \A i \in 0..(n - 1) : d[i + 1] = WithSchema(d[i], s[i + 1])
  BY DEF Knows
<1>2. IsList(e)
  BY EmptyList
<1> DEFINE S == {i \in 0..n : IsList(d[i])}
<1> HIDE DEF n, e
<1>3. 0 \in S
  BY <1>1, <1>2
<1>4. ASSUME NEW i \in 0..(n - 1), i \in S
      PROVE  i + 1 \in S
  <2> DEFINE a == d[i]
             b == d[i + 1]
             o == s[i + 1]
  <2>1. IsList(a) /\ b = WithSchema(a, o) /\ i + 1 \in 0..n
    BY <1>1, <1>4
  <2> HIDE DEF a, b, o
  <2>2. IsList(b)
    BY <1>2, <2>1, WithSchemaConcat
  <2> QED
    BY <2>1, <2>2 DEF b
<1> HIDE DEF S
<1>5. \A i \in 0..n : i \in S
  BY <1>1, <1>3, <1>4, InductionUpTo
<1> QED
  BY <1>5 DEF S, n

(* A list followed by another one holds the schema of the one, then the      *)
(* schema of the other.                                                      *)
LEMMA SchemaConcat ==
  ASSUME NEW s, NEW t, IsCalls(s), IsCalls(t)
  PROVE  /\ IsList(SchemaOf(s)) /\ IsList(SchemaOf(t))
         /\ SchemaOf(s \o t) = SchemaOf(s) \o SchemaOf(t)
<1> DEFINE m == Len(s)
           n == Len(t)
           u == s \o t
           e == <<>>
<1>1. IsList(s) /\ IsList(t) /\ m \in Nat /\ n \in Nat
  BY CallsLen DEF IsList
<1>2. Len(u) = m + n /\ \A i \in 1..(m + n) : u[i] = IF i <= m THEN s[i] ELSE t[i - m]
  BY <1>1, ListConcat
<1>3. Len(u) \in Nat
  BY <1>1, <1>2
<1>4. PICK c : Knows(c, s)
  BY <1>1, SchemaSteps
<1>5. PICK d : Knows(d, t)
  BY <1>1, SchemaSteps
<1>6. PICK f : Knows(f, u)
  <2> HIDE DEF u
  <2> QED
    BY <1>3, SchemaSteps
<1>7. /\ c[0] = e /\ c[m] = SchemaOf(s)
      /\ \A i \in 0..(m - 1) : c[i + 1] = WithSchema(c[i], s[i + 1])
  BY <1>4 DEF Knows
<1>8. /\ d[0] = e /\ d[n] = SchemaOf(t)
      /\ \A i \in 0..(n - 1) : d[i + 1] = WithSchema(d[i], t[i + 1])
  BY <1>5 DEF Knows
<1>9. /\ f[0] = e /\ f[m + n] = SchemaOf(u)
      /\ \A i \in 0..(m + n - 1) : f[i + 1] = WithSchema(f[i], u[i + 1])
  BY <1>2, <1>6 DEF Knows
<1>10. (\A i \in 0..m : IsList(c[i])) /\ \A i \in 0..n : IsList(d[i])
  BY <1>1, <1>4, <1>5, KnowsLists
<1>11. e = <<>>
  OBVIOUS
<1> HIDE DEF m, n, u, e
<1> DEFINE S == {i \in 0..m : f[i] = c[i]}
           T == {i \in 0..n : f[m + i] = c[m] \o d[i]}
<1>12. 0 \in S
  BY <1>1, <1>7, <1>9
<1>13. ASSUME NEW i \in 0..(m - 1), i \in S
       PROVE  i + 1 \in S
  <2>1. i \in 0..(m + n - 1) /\ i + 1 \in 1..(m + n) /\ i + 1 <= m /\ i + 1 \in 0..m
    BY <1>1
  <2>2. f[i + 1] = WithSchema(f[i], u[i + 1]) /\ u[i + 1] = s[i + 1] /\ f[i] = c[i]
    BY <1>2, <1>9, <1>13, <2>1
  <2> QED
    BY <1>7, <2>1, <2>2
<1> HIDE DEF S
<1>14. m \in S
  <2>1. \A i \in 0..m : i \in S
    BY <1>1, <1>12, <1>13, InductionUpTo
  <2> QED
    BY <1>1, <2>1
<1>15. f[m] = c[m] /\ IsList(c[m])
  BY <1>1, <1>10, <1>14 DEF S
<1>16. 0 \in T
  <2>1. m + 0 = m /\ 0 \in 0..n
    BY <1>1
  <2>2. c[m] \o e = c[m]
    BY <1>11, <1>15, EmptyList
  <2> QED
    BY <1>8, <1>15, <2>1, <2>2
<1>17. ASSUME NEW i \in 0..(n - 1), i \in T
       PROVE  i + 1 \in T
  <2> DEFINE j == m + i
             a == d[i]
             o == t[i + 1]
             k == c[m]
  <2>1. /\ j \in 0..(m + n - 1) /\ j + 1 \in 1..(m + n) /\ ~(j + 1 <= m)
        /\ j + 1 - m = i + 1 /\ i + 1 \in 0..n /\ m + (i + 1) = j + 1 /\ i \in 0..n
    BY <1>1
  <2>2. f[j] = k \o a /\ IsList(a) /\ IsList(k) /\ d[i + 1] = WithSchema(a, o)
    <3>1. f[m + i] = c[m] \o d[i]
      BY <1>17
    <3>2. IsList(a) /\ IsList(k)
      BY <1>10, <1>15, <2>1
    <3>3. d[i + 1] = WithSchema(a, o)
      BY <1>8
    <3> QED
      BY <3>1, <3>2, <3>3
  <2> HIDE DEF j
  <2>3. u[j + 1] = o
    <3> DEFINE l == j + 1
    <3>1. l \in 1..(m + n) /\ ~(l <= m) /\ l - m = i + 1
      BY <1>1, <2>1
    <3> HIDE DEF l
    <3>2. u[l] = t[l - m]
      BY <1>2, <3>1
    <3> QED
      BY <3>1, <3>2 DEF l
  <2> HIDE DEF a, o, k
  <2>4. f[j + 1] = WithSchema(k \o a, o)
    BY <1>9, <2>1, <2>2, <2>3
  <2>5. f[j + 1] = k \o d[i + 1]
    BY <2>2, <2>4, WithSchemaConcat
  <2> QED
    BY <2>1, <2>5 DEF k
<1> HIDE DEF T
<1>18. n \in T
  <2>1. \A i \in 0..n : i \in T
    BY <1>1, <1>16, <1>17, InductionUpTo
  <2> QED
    BY <1>1, <2>1
<1>19. SchemaOf(u) = c[m] \o d[n]
  BY <1>9, <1>18 DEF T
<1>20. IsList(c[m]) /\ IsList(d[n])
  BY <1>1, <1>10
<1> QED
  BY <1>7, <1>8, <1>19, <1>20 DEF u

(* The schema of no call, and of one call *)
LEMMA SchemaOne ==
  ASSUME NEW e, e = <<>>, NEW o, NEW s, s = <<o>>
  PROVE  SchemaOf(e) = <<>> /\ SchemaOf(s) = WithSchema(e, o)
<1>1. Len(e) = 0 /\ Len(s) = 1 /\ s[1] = o
  OBVIOUS
<1>2. PICK c : Knows(c, e)
  BY <1>1, SchemaSteps
<1>3. PICK d : Knows(d, s)
  BY <1>1, SchemaSteps
<1>4. SchemaOf(e) = e
  BY <1>1, <1>2 DEF Knows
<1>5. d[1] = SchemaOf(s) /\ d[0] = e
  BY <1>1, <1>3 DEF Knows
<1>6. d[0 + 1] = WithSchema(d[0], s[0 + 1])
  <2>1. 0 \in 0..(Len(s) - 1)
    BY <1>1
  <2> QED
    BY <1>3, <2>1 DEF Knows
<1> QED
  BY <1>1, <1>4, <1>5, <1>6

(* One more call *)
LEMMA SchemaAppend ==
  ASSUME NEW s, IsCalls(s), NEW o, IsCall(o)
  PROVE  /\ IsList(SchemaOf(s)) /\ IsCalls(Append(s, o))
         /\ SchemaOf(Append(s, o)) = WithSchema(SchemaOf(s), o)
<1> DEFINE e == <<>>
           t == <<o>>
           a == SchemaOf(s)
<1>1. SchemaOf(t) = WithSchema(e, o) /\ IsCalls(t) /\ IsList(e)
  BY SchemaOne, OneCall, EmptyList
<1>2. Append(s, o) = s \o t
  <2>1. s \in Seq(Range(s))
    BY DEF IsCalls
  <2> DEFINE X == Range(s) \union {o}
  <2>2. s \in Seq(X) /\ o \in X
    BY <2>1
  <2> HIDE DEF X
  <2> QED
    BY <2>2
<1> HIDE DEF t
<1>3. IsList(a) /\ SchemaOf(s \o t) = a \o SchemaOf(t)
  BY <1>1, SchemaConcat
<1>4. a \o e = a
  BY <1>3, EmptyList
<1> HIDE DEF e, a
<1>5. WithSchema(a \o e, o) = a \o WithSchema(e, o)
  BY <1>1, <1>3, WithSchemaConcat
<1>6. IsCalls(s \o t)
  BY <1>1, CallsConcat
<1> QED
  BY <1>1, <1>2, <1>3, <1>4, <1>5, <1>6 DEF a

(* A database that reads a list of calls without an error knows the schema   *)
(* that it knew before, then the one of the list.                            *)
LEMMA ReplayedSchema ==
  ASSUME NEW g, NEW v, ReadsSoundly(g, v), NEW os, IsCalls(os), NEW h, h = Replayed(g, os), h.ok
  PROVE  g.ok = TRUE /\ h.schema = g.schema \o SchemaOf(os)
<1> DEFINE n == Len(os)
<1>0. n \in Nat /\ \A i \in 1..n : IsCall(os[i])
  BY CallsLen
<1>1. PICK d : /\ d[0] = g /\ d[n] = h
               /\ \A i \in 0..(n - 1) : d[i + 1] = Executed(d[i], os[i + 1])
  <2>1. PICK d : Replays(d, g, os)
    BY <1>0, ReplayedSteps
  <2> QED
    BY <2>1 DEF Replays
<1>2. PICK c : Knows(c, os)
  BY <1>0, SchemaSteps
<1>3. /\ c[0] = <<>> /\ c[n] = SchemaOf(os)
      /\ \A i \in 0..(n - 1) : c[i + 1] = WithSchema(c[i], os[i + 1])
      /\ \A i \in 0..n : IsList(c[i])
  BY <1>0, <1>2, KnowsLists DEF Knows
<1> HIDE DEF n
<1> DEFINE k == g.schema
           Known(x, schema) ==
             /\ ReadsSoundly(x, v)
             /\ x.ok = TRUE => g.ok = TRUE /\ x.schema = k \o schema
           S == {i \in 0..n : Known(d[i], c[i])}
<1>4. IsList(k)
  BY DEF ReadsSoundly, HasSchema, IsList
<1> HIDE DEF k
<1>5. 0 \in S
  <2>1. k \o <<>> = k
    BY <1>4, EmptyList
  <2>2. ReadsSoundly(g, v) /\ g.schema = k \o <<>>
    BY <2>1 DEF k
  <2>3. d[0] = g /\ c[0] = <<>> /\ 0 \in 0..n
    BY <1>0, <1>1, <1>3
  <2> QED
    BY <2>2, <2>3
<1>6. ASSUME NEW i \in 0..(n - 1), i \in S
      PROVE  i + 1 \in S
  <2> DEFINE a == d[i]
             b == d[i + 1]
             o == os[i + 1]
             s == c[i]
             t == c[i + 1]
  <2>1. /\ Known(a, s) /\ b = Executed(a, o) /\ IsCall(o) /\ i + 1 \in 0..n
        /\ t = WithSchema(s, o) /\ IsList(s)
    BY <1>0, <1>1, <1>3, <1>6
  <2> HIDE DEF a, b, o, s, t
  <2>2. ReadsSoundly(a, v) /\ IsStorage(a, v) /\ a.ok \in BOOLEAN /\ ReadsSoundly(b, v)
    BY <2>1, ExecutedSound DEF ReadsSoundly
  <2>3. ASSUME b.ok = TRUE
        PROVE  g.ok = TRUE /\ b.schema = k \o t
    <3>1. a.ok = TRUE
      <4>1. a.ok # TRUE => b = a
        BY <2>1, <2>2 DEF Executed
      <4> QED
        BY <2>3, <4>1
    <3>2. a.schema = k \o s /\ g.ok = TRUE
      BY <2>1, <3>1
    <3>3. b.schema = WithSchema(a.schema, o)
      <4>1. CASE RowCall(v, o)
        <5>1. b.schema = a.schema
          <6>1. IsStorage(a, v) /\ a.ok = TRUE /\ RowCall(v, o) /\ b = Executed(a, o)
            BY <2>1, <2>2, <3>1, <4>1
          <6> QED
            BY <6>1, RowSound, ZenonT(60)
        <5>2. WithSchema(a.schema, o) = a.schema
          BY <4>1 DEF WithSchema, RowCall, Inserts, Deletes, Updates, SchemaOps
        <5> QED
          BY <5>1, <5>2
      <4>2. CASE ~RowCall(v, o)
        <5>1. OtherCallOn(a, v, o)
          BY <2>1, <2>2, <3>1, <4>2 DEF OtherCallOn
        <5>2. b.schema = SchemaAfter(a, o)
          BY <2>1, <5>1, OtherCall
        <5> QED
          BY <5>2 DEF SchemaAfter, WithSchema
      <4> QED
        BY <4>1, <4>2
    <3>4. WithSchema(k \o s, o) = k \o WithSchema(s, o)
      BY <1>4, <2>1, WithSchemaConcat, SMTT(30)
    <3> QED
      BY <2>1, <3>2, <3>3, <3>4
  <2>4. Known(b, t)
    BY <2>2, <2>3
  <2> QED
    BY <2>1, <2>4 DEF b, t
<1> HIDE DEF S
<1>7. \A i \in 0..n : i \in S
  BY <1>0, <1>5, <1>6, InductionUpTo
<1>8. n \in S
  BY <1>0, <1>7
<1>9. Known(h, SchemaOf(os))
  BY <1>1, <1>3, <1>8 DEF S
<1>10. h.ok = TRUE
  BY <1>9 DEF ReadsSoundly
<1> QED
  BY <1>9, <1>10 DEF k
-----------------------------------------------------------------------------
(***************************************************************************)
(* The functions of a Writable_Database.                                   *)
(***************************************************************************)

WriterAt(w, v) ==
  /\ w = [db |-> w.db, calls |-> w.calls, invalid |-> w.invalid]
  /\ IsStorage(w.db, v) /\ HasSchema(w.db) /\ w.db.ok \in BOOLEAN
  /\ IndexesAt(w.db, v, w.invalid)
  /\ IsCalls(w.calls)

(* What a program that reads the journal of the writer holds *)
MirrorAt(w, v, m, schema) ==
  ReadsSoundly(m, v) /\ m.ok = TRUE /\ m.schema = schema /\ Agree(w.db, m, v, w.invalid)

Mirrored(w, v, b, schema) == MirrorAt(w, v, Replayed(b, w.calls), schema)

(* What a function of the writer keeps, *)
Kept(w, x, v) ==
  /\ WriterAt(x, v)
  /\ x.db.schema = w.db.schema /\ SchemaOf(x.calls) = SchemaOf(w.calls)
  /\ (w.invalid = {} /\ x.db.ok) => x.invalid = {}

(* and what it keeps when the updates that failed are repaired first *)
KeptMirror(w, x, v) == \A b, schema : Mirrored(w, v, b, schema) => Mirrored(x, v, b, schema)

(* A writer that does nothing *)
LEMMA WriterKept ==
  ASSUME NEW w, NEW v, WriterAt(w, v)
  PROVE  Kept(w, w, v) /\ KeptMirror(w, w, v)
BY DEF Kept, KeptMirror

(* Two functions of the writer in turn *)
LEMMA KeptTwice ==
  ASSUME NEW w, NEW x, NEW y, NEW v, Kept(w, x, v), Kept(x, y, v), x.db.ok
  PROVE  Kept(w, y, v)
BY DEF Kept

(* Two functions of the writer in turn keep what the journal says. *)
LEMMA MirrorKeptTwice ==
  ASSUME NEW w, NEW x, NEW y, NEW v, KeptMirror(w, x, v), KeptMirror(x, y, v)
  PROVE  KeptMirror(w, y, v)
BY DEF KeptMirror

(* A call on rows that reaches the database, then its journal *)
LEMMA RowWritten ==
  ASSUME NEW w, NEW v, WriterAt(w, v), w.db.ok = TRUE, NEW o, RowCall(v, o),
         o.op \in Inserts => Allowed(Keeper(w.db, o.t), o),
         NEW x, x = Written(w, Executed(w.db, o), o)
  PROVE  /\ Kept(w, x, v) /\ (o.op \in Inserts => x.db.ok)
         /\ (o.op \in Updates => w.invalid \subseteq Area(v, o)) => KeptMirror(w, x, v)
<1> DEFINE g == w.db
           bad == w.invalid
           h == Executed(g, o)
           cells == Area(v, o)
<1>1. /\ IsStorage(g, v) /\ g.ok = TRUE /\ IndexesAt(g, v, bad) /\ IsCalls(w.calls) /\ IsCall(o)
      /\ h = Executed(g, o) /\ (o.op \in Inserts => Allowed(Keeper(g, o.t), o))
  BY DEF WriterAt, RowCall
<1> HIDE DEF g, h, bad, cells
<1>2. /\ IsStorage(h, v) /\ h.ok \in BOOLEAN /\ h.schema = g.schema
      /\ ~Allowed(Keeper(g, o.t), o) => ~h.ok
      /\ Allowed(Keeper(g, o.t), o) /\ o.op \notin Updates => h.ok
  <2>0. IsStorage(g, v) /\ g.ok = TRUE /\ h = Executed(g, o)
    BY <1>1
  <2>1. IsStorage(h, v) /\ h.ok \in BOOLEAN /\ h.schema = g.schema
    BY <2>0, RowSound
  <2>2. ~Allowed(Keeper(g, o.t), o) => ~h.ok
    BY <2>0, RowSound
  <2>3. Allowed(Keeper(g, o.t), o) /\ o.op \notin Updates => h.ok
    BY <2>0, RowSound
  <2> QED
    BY <2>1, <2>2, <2>3
<1>3. o.op \in Inserts => h.ok
  BY <1>1, <1>2 DEF Inserts, Updates
<1>4. IndexesAfter(h, v, bad, cells)
  <2>1. h.ok \/ o.op \notin Inserts
    BY <1>3
  <2> QED
    BY <1>1, <2>1, RowSound DEF cells
<1>5. CellsOf(h, o) = cells
  BY <1>2, AreaIs DEF cells
<1>6. /\ h.ok => x = [db |-> h, calls |-> Append(w.calls, o), invalid |-> bad \ cells]
      /\ ~h.ok => x = [db |-> h, calls |-> w.calls, invalid |-> bad \union cells]
  <2>1. x = Written(w, h, o)
    BY DEF g, h
  <2> QED
    BY <1>5, <2>1 DEF Written, bad
<1>7. IsCalls(Append(w.calls, o)) /\ SchemaOf(Append(w.calls, o)) = SchemaOf(w.calls)
  <2>1. SchemaOf(Append(w.calls, o)) = WithSchema(SchemaOf(w.calls), o)
    BY <1>1, SchemaAppend
  <2>2. WithSchema(SchemaOf(w.calls), o) = SchemaOf(w.calls)
    BY DEF WithSchema, RowCall, Inserts, Deletes, Updates, SchemaOps
  <2> QED
    BY <1>1, <2>1, <2>2, ReplayedAppend
<1>7a. HasSchema(h)
  BY <1>2, SchemaGrows DEF WriterAt, g
<1>8. Kept(w, x, v)
  <2>1. CASE h.ok
    <3>1. x.db = h /\ x.calls = Append(w.calls, o) /\ x.invalid = bad \ cells
      BY <1>6, <2>1
    <3>2. IndexesAt(h, v, bad \ cells)
      BY <1>4, <2>1 DEF IndexesAfter
    <3>3. WriterAt(x, v)
      BY <1>2, <1>6, <1>7, <1>7a, <2>1, <3>1, <3>2 DEF WriterAt
    <3> QED
      BY <1>2, <1>7, <3>1, <3>3 DEF Kept, bad, g
  <2>2. CASE ~h.ok
    <3>1. x.db = h /\ x.calls = w.calls /\ x.invalid = bad \union cells
      BY <1>6, <2>2
    <3>2. IndexesAt(h, v, bad \union cells)
      BY <1>4, <2>2 DEF IndexesAfter
    <3>3. WriterAt(x, v)
      BY <1>1, <1>2, <1>6, <1>7a, <2>2, <3>1, <3>2 DEF WriterAt
    <3> QED
      BY <1>2, <2>2, <3>1, <3>3 DEF Kept, g
  <2> QED
    BY <2>1, <2>2
<1>9. ASSUME o.op \in Updates => bad \subseteq cells, NEW b, NEW schema, Mirrored(w, v, b, schema)
      PROVE  Mirrored(x, v, b, schema)
  <2> DEFINE m == Replayed(b, w.calls)
             l == Executed(m, o)
  <2>1. ReadsSoundly(m, v) /\ m.ok = TRUE /\ m.schema = schema /\ Agree(g, m, v, bad)
    BY <1>9 DEF Mirrored, MirrorAt, g, bad
  <2>2. l = Replayed(b, Append(w.calls, o))
    BY <1>1, ReplayedAppend
  <2>3. l = Executed(m, o)
    OBVIOUS
  <2>4. m = Replayed(b, w.calls)
    OBVIOUS
  <2> HIDE DEF m, l
  <2>5. ReadsSoundly(l, v)
    BY <1>1, <2>1, <2>3, ExecutedSound
  <2>6. l.schema = schema /\ l.ok \in BOOLEAN
    <3>1. IsStorage(m, v)
      BY <2>1 DEF ReadsSoundly
    <3> QED
      BY <2>1, <2>3, <3>1, RowSound
  <2>7. Agreeing(g, m, v, bad)
    BY <1>1, <2>1 DEF Agreeing, ReadsSoundly
  <2>8. AgreeAfter(h, l, m, v, bad, cells)
    BY <1>1, <1>9, <2>3, <2>7, RowAgree DEF cells
  <2>9. CASE h.ok
    <3>1. x.db = h /\ x.calls = Append(w.calls, o) /\ x.invalid = bad \ cells
      BY <1>6, <2>9
    <3>2. l.ok = TRUE /\ Agree(h, l, v, bad \ cells)
      BY <2>6, <2>8, <2>9 DEF AgreeAfter
    <3> QED
      BY <2>2, <2>5, <2>6, <3>1, <3>2 DEF Mirrored, MirrorAt
  <2>10. CASE ~h.ok
    <3>1. x.db = h /\ x.calls = w.calls /\ x.invalid = bad \union cells
      BY <1>6, <2>10
    <3>2. Agree(h, m, v, bad \union cells)
      BY <2>8, <2>10 DEF AgreeAfter
    <3> QED
      BY <2>1, <2>4, <3>1, <3>2 DEF Mirrored, MirrorAt
  <2> QED
    BY <2>9, <2>10
<1>10. o.op \in Inserts => x.db.ok
  BY <1>3, <1>6
<1> QED
  BY <1>8, <1>9, <1>10 DEF KeptMirror, bad, cells

(* The functions that delete and update, in the words of the journal *)
IsWritten(w, v, o, x) == RowCall(v, o) /\ x = Written(w, Executed(w.db, o), o)

(* delete_<table> and delete_vector_of_<table>, in the words of the journal *)
LEMMA DeletesAreRows ==
  ASSUME NEW w, NEW v, WriterAt(w, v), w.db.ok = TRUE, NEW t \in TablesOf(v),
         NEW r \in Int, NEW n \in Nat
  PROVE  /\ IsWritten(w, v, delete_from(t, r), delete_record(w, t, r))
         /\ delete_from(t, r).op = "delete_from"
         /\ IsWritten(w, v, delete_vector(t, r, n), delete_vector_of(w, t, r, n))
         /\ delete_vector(t, r, n).op = "delete_vector"
<1>1. t \in DOMAIN w.db.tables
  BY StorageHas DEF WriterAt
<1>2. RowCall(v, delete_from(t, r))
  <2> DEFINE o == delete_from(t, r)
  <2>1. o.op = "delete_from" /\ o.t = t /\ o.r = r
    BY DEF delete_from
  <2> HIDE DEF o
  <2>2. IsCall(o)
    BY <2>1 DEF IsCall, SchemaOps, InformationOps, o
  <2> QED
    BY <2>1, <2>2 DEF RowCall, Inserts, Deletes, Updates, o
<1>3. RowCall(v, delete_vector(t, r, n))
  <2> DEFINE o == delete_vector(t, r, n)
  <2>1. o.op = "delete_vector" /\ o.t = t /\ o.r = r /\ o.n = n
    BY DEF delete_vector
  <2> HIDE DEF o
  <2>2. IsCall(o)
    BY <2>1 DEF IsCall, SchemaOps, InformationOps, o
  <2> QED
    BY <2>1, <2>2 DEF RowCall, Inserts, Deletes, Updates, o
<1>4. Executed(w.db, delete_from(t, r)) = internal_delete(w.db, t, r)
  <2> DEFINE o == delete_from(t, r)
  <2>1. o.op = "delete_from" /\ o.t = t /\ o.r = r
    BY DEF delete_from
  <2> HIDE DEF o
  <2>2. Executed(w.db, o) = DeletedRow(w.db, o)
    BY <1>1, <2>1 DEF Executed, SchemaOps
  <2>3. DeletedRow(w.db, o) = internal_delete(w.db, t, r)
    BY <2>1 DEF DeletedRow
  <2> QED
    BY <2>2, <2>3 DEF o
<1>5. Executed(w.db, delete_vector(t, r, n)) = internal_delete_vector(w.db, t, r, n)
  <2> DEFINE o == delete_vector(t, r, n)
  <2>1. o.op = "delete_vector" /\ o.t = t /\ o.r = r /\ o.n = n
    BY DEF delete_vector
  <2> HIDE DEF o
  <2>2. Executed(w.db, o) = DeletedRow(w.db, o)
    BY <1>1, <2>1 DEF Executed, SchemaOps
  <2>3. DeletedRow(w.db, o) = internal_delete_vector(w.db, t, r, n)
    BY <2>1 DEF DeletedRow
  <2> QED
    BY <2>2, <2>3 DEF o
<1> QED
  BY <1>2, <1>3, <1>4, <1>5
  DEF IsWritten, delete_record, delete_vector_of, delete_from, delete_vector

(* set_<field>, in the words of the journal *)
LEMMA UpdateIsRow ==
  ASSUME NEW w, NEW v, WriterAt(w, v), w.db.ok = TRUE, NEW t \in TablesOf(v),
         NEW f \in FieldsOf(v, t), NEW r \in Int, NEW u
  PROVE  /\ IsWritten(w, v, update(t, r, f, u), set_field(w, t, r, f, u))
         /\ <<t, r, f>> \in Area(v, update(t, r, f, u)) /\ update(t, r, f, u).op = "update"
<1>1. KnowsField(w.db, update(t, r, f, u))
  <2>1. t \in DOMAIN w.db.tables /\ DOMAIN w.db.tables[t].columns = FieldsOf(v, t)
    BY StorageHas DEF WriterAt
  <2> QED
    BY <2>1 DEF KnowsField, update
<1> DEFINE o == update(t, r, f, u)
<1>2. o.op = "update" /\ o.t = t /\ o.r = r /\ o.f = f /\ o.v = u
  BY DEF update
<1>3. set_field(w, t, r, f, u) = Written(w, internal_update(w.db, t, r, f, u), o)
  BY DEF set_field
<1> HIDE DEF o
<1>4. IsCall(o)
  BY <1>2 DEF IsCall, SchemaOps, InformationOps, o
<1>5. RowCall(v, o)
  BY <1>2, <1>4 DEF RowCall, Inserts, Deletes, Updates
<1>6. Executed(w.db, o) = UpdatedCells(w.db, o)
  BY <1>2 DEF Executed, SchemaOps
<1>7. UpdatedCells(w.db, o) = internal_update(w.db, t, r, f, u)
  BY <1>1, <1>2 DEF UpdatedCells, o
<1>8. Area(v, o) = {<<t, r, f>>}
  <2>1. RowsOf(o) = {r}
    BY <1>2 DEF RowsOf, Count
  <2>2. Area(v, o) = {<<o.t, s, o.f>> : s \in RowsOf(o)}
    BY <1>2 DEF Area, Deletes, Updates
  <2> QED
    BY <1>2, <2>1, <2>2
<1> QED
  BY <1>2, <1>3, <1>5, <1>6, <1>7, <1>8 DEF o, IsWritten

(* update_vector_of_<field>, in the words of the journal *)
LEMMA UpdateVectorIsRow ==
  ASSUME NEW w, NEW v, WriterAt(w, v), w.db.ok = TRUE, NEW t \in TablesOf(v),
         NEW f \in FieldsOf(v, t), NEW r \in Int, NEW vs, vs \in Seq(Range(vs)), Len(vs) = 2
  PROVE  /\ IsWritten(w, v, update_vector(t, r, f, vs), update_vector_of(w, t, r, f, vs))
         /\ <<t, r, f>> \in Area(v, update_vector(t, r, f, vs))
         /\ <<t, r + 1, f>> \in Area(v, update_vector(t, r, f, vs))
         /\ update_vector(t, r, f, vs).op = "update_vector"
<1>1. KnowsField(w.db, update_vector(t, r, f, vs))
  <2>1. t \in DOMAIN w.db.tables /\ DOMAIN w.db.tables[t].columns = FieldsOf(v, t)
    BY StorageHas DEF WriterAt
  <2> QED
    BY <2>1 DEF KnowsField, update_vector
<1> DEFINE o == update_vector(t, r, f, vs)
<1>2. o.op = "update_vector" /\ o.t = t /\ o.r = r /\ o.f = f /\ o.vs = vs
  BY DEF update_vector
<1>3. update_vector_of(w, t, r, f, vs) = Written(w, internal_update_vector(w.db, t, r, f, vs), o)
  BY DEF update_vector_of
<1> HIDE DEF o
<1>4. IsCall(o)
  BY <1>2 DEF IsCall, SchemaOps, InformationOps, o
<1>5. RowCall(v, o)
  BY <1>2, <1>4 DEF RowCall, Inserts, Deletes, Updates
<1>6. Executed(w.db, o) = UpdatedCells(w.db, o)
  BY <1>2 DEF Executed, SchemaOps
<1>7. UpdatedCells(w.db, o) = internal_update_vector(w.db, t, r, f, vs)
  BY <1>1, <1>2 DEF UpdatedCells, o
<1>8. Area(v, o) = {<<t, r, f>>, <<t, r + 1, f>>}
  <2>1. RowsOf(o) = {r, r + 1}
    <3>1. Count(o) = 2
      BY <1>2 DEF Count
    <3>2. RowsOf(o) = r..(r + 2 - 1)
      BY <1>2, <3>1 DEF RowsOf
    <3> QED
      BY <3>2
  <2>2. Area(v, o) = {<<o.t, s, o.f>> : s \in RowsOf(o)}
    BY <1>2 DEF Area, Deletes, Updates
  <2> QED
    BY <1>2, <2>1, <2>2
<1> QED
  BY <1>2, <1>3, <1>5, <1>6, <1>7, <1>8 DEF o, IsWritten
(* A call of a list *)
TurnCall(v, o) == IsCall(o) /\ o.op \in {"delete_from", "update"} /\ o.t \in TablesOf(v)

(* A call of a list keeps the writer sound, and nothing happens after a failure. *)
LEMMA CalledKeeps ==
  ASSUME NEW w, NEW v, WriterAt(w, v), NEW o, TurnCall(v, o), NEW x, x = CalledInTurn(w, o)
  PROVE  /\ ~w.db.ok => x = w
         /\ Kept(w, x, v)
         /\ (w.invalid = {} \/ o.op = "delete_from") => KeptMirror(w, x, v)
<1>0. /\ IsStorage(w.db, v) /\ w.db.ok \in BOOLEAN /\ IsCall(o) /\ o.t \in TablesOf(v)
      /\ o.op \in {"delete_from", "update"}
  BY DEF WriterAt, TurnCall
<1>1. CASE ~w.db.ok
  <2>1. x = w
    BY <1>1 DEF CalledInTurn
  <2> QED
    BY <2>1, WriterKept
<1>2. CASE w.db.ok /\ o.op = "delete_from"
  <2>1. w.db.ok = TRUE /\ o.r \in Int /\ o = delete_from(o.t, o.r)
    BY <1>0, <1>2 DEF IsCall, SchemaOps, InformationOps
  <2>2. x = delete_record(w, o.t, o.r)
    BY <1>2 DEF CalledInTurn
  <2> DEFINE t == o.t
             r == o.r
             n == 0
  <2>3. t \in TablesOf(v) /\ r \in Int /\ n \in Nat
    BY <1>0, <2>1
  <2>4. o = delete_from(t, r) /\ x = delete_record(w, t, r)
    BY <2>1, <2>2
  <2> HIDE DEF t, r, n
  <2>5. RowCall(v, o) /\ x = Written(w, Executed(w.db, o), o)
    <3>1. IsWritten(w, v, delete_from(t, r), delete_record(w, t, r))
      BY <2>1, <2>3, DeletesAreRows
    <3> QED
      BY <2>4, <3>1 DEF IsWritten
  <2>6. o.op \notin Inserts /\ o.op \notin Updates
    BY <1>2 DEF Inserts, Updates
  <2> QED
    BY <1>2, <2>1, <2>5, <2>6, RowWritten
<1>3. CASE w.db.ok /\ o.op = "update"
  <2>1. w.db.ok = TRUE /\ o.r \in Int /\ o = update(o.t, o.r, o.f, o.v)
    BY <1>0, <1>3 DEF IsCall, SchemaOps, InformationOps
  <2>2. CASE ~KnowsField(w.db, o)
    <3>1. x = w
      BY <1>3, <2>2 DEF CalledInTurn
    <3> QED
      BY <3>1, WriterKept
  <2>3. CASE KnowsField(w.db, o)
    <3>1. x = set_field(w, o.t, o.r, o.f, o.v)
      BY <1>3, <2>3 DEF CalledInTurn
    <3>2. o.f \in FieldsOf(v, o.t)
      BY <1>0, <2>3, StorageHas DEF KnowsField
    <3> DEFINE t == o.t
               r == o.r
               f == o.f
               u == o.v
    <3>3. t \in TablesOf(v) /\ r \in Int /\ f \in FieldsOf(v, t)
      BY <1>0, <2>1, <3>2
    <3>4. o = update(t, r, f, u) /\ x = set_field(w, t, r, f, u)
      BY <2>1, <3>1
    <3> HIDE DEF t, r, f, u
    <3>5. RowCall(v, o) /\ x = Written(w, Executed(w.db, o), o)
      <4>1. IsWritten(w, v, update(t, r, f, u), set_field(w, t, r, f, u))
        BY <2>1, <3>3, UpdateIsRow
      <4> QED
        BY <3>4, <4>1 DEF IsWritten
    <3>6. o.op \notin Inserts
      BY <1>3 DEF Inserts
    <3>7. w.invalid = {} => w.invalid \subseteq Area(v, o)
      OBVIOUS
    <3>8. /\ Kept(w, x, v)
          /\ (o.op \in Updates => w.invalid \subseteq Area(v, o)) => KeptMirror(w, x, v)
      BY <2>1, <3>5, <3>6, RowWritten
    <3> QED
      BY <1>3, <3>7, <3>8
  <2> QED
    BY <2>2, <2>3
<1> QED
  BY <1>0, <1>1, <1>2, <1>3

(* When the calls of a list repair what failed before them *)
Exact(w, os) == w.invalid = {} \/ \A i \in 1..Len(os) : os[i].op = "delete_from"

(* A list of calls keeps the writer sound. *)
LEMMA InTurnKeeps ==
  ASSUME NEW w, NEW v, WriterAt(w, v), NEW os, Len(os) \in Nat,
         \A i \in 1..Len(os) : TurnCall(v, os[i]), NEW x, x = InTurn(w, os)
  PROVE  /\ Kept(w, x, v)
         /\ Exact(w, os) => KeptMirror(w, x, v)
<1> DEFINE n == Len(os)
<1>0. n \in Nat /\ \A i \in 1..n : TurnCall(v, os[i])
  OBVIOUS
<1>1. PICK d : /\ d[0] = w /\ d[n] = x
               /\ \A i \in 0..(n - 1) : d[i + 1] = CalledInTurn(d[i], os[i + 1])
  BY <1>0, InTurnSteps
<1> DEFINE S == {i \in 0..n : Kept(w, d[i], v) /\ (Exact(w, os) => KeptMirror(w, d[i], v))}
<1>2. 0 \in S
  BY <1>0, <1>1, WriterKept
<1>3. ASSUME NEW i \in 0..(n - 1), i \in S
      PROVE  i + 1 \in S
  <2> DEFINE a == d[i]
             b == d[i + 1]
             o == os[i + 1]
  <2>1. /\ i + 1 \in 1..n /\ i + 1 \in 0..n
        /\ Kept(w, a, v) /\ (Exact(w, os) => KeptMirror(w, a, v))
    BY <1>0, <1>3
  <2>2. b = CalledInTurn(a, o) /\ TurnCall(v, o)
    BY <1>0, <1>1, <2>1
  <2>3. Exact(w, os) => w.invalid = {} \/ o.op = "delete_from"
    BY <1>0, <2>1 DEF Exact
  <2> HIDE DEF a, b, o
  <2>4. WriterAt(a, v)
    BY <2>1 DEF Kept
  <2>5. /\ ~a.db.ok => b = a
        /\ Kept(a, b, v)
        /\ (a.invalid = {} \/ o.op = "delete_from") => KeptMirror(a, b, v)
    BY <2>2, <2>4, CalledKeeps
  <2>6. CASE ~a.db.ok
    <3>1. Kept(w, b, v) /\ (Exact(w, os) => KeptMirror(w, b, v))
      BY <2>1, <2>5, <2>6
    <3> QED
      BY <2>1, <3>1 DEF b
  <2>7. CASE a.db.ok
    <3>1. Kept(w, b, v)
      BY <2>1, <2>5, <2>7, KeptTwice
    <3>2. ASSUME Exact(w, os)
          PROVE  KeptMirror(w, b, v)
      <4>1. a.invalid = {} \/ o.op = "delete_from"
        BY <2>1, <2>3, <2>7, <3>2 DEF Kept
      <4>2. KeptMirror(w, a, v) /\ KeptMirror(a, b, v)
        BY <2>1, <2>5, <3>2, <4>1
      <4> QED
        BY <4>2, MirrorKeptTwice
    <3> QED
      BY <2>1, <3>1, <3>2 DEF b
  <2> QED
    BY <2>6, <2>7
<1> HIDE DEF n, S
<1>4. \A i \in 0..n : i \in S
  BY <1>0, <1>2, <1>3, InductionUpTo
<1>5. n \in S
  BY <1>0, <1>4
<1> QED
  BY <1>1, <1>5 DEF S

(* The functions that insert, in the words of the journal *)
LEMMA InsertIsRow ==
  ASSUME NEW w, NEW v, WriterAt(w, v), w.db.ok = TRUE, NEW t \in TablesOf(v),
         NEW r \in Nat, ~IsUsed(Keeper(w.db, t), r)
  PROVE  /\ RowCall(v, insert_into(t, r)) /\ insert_into(t, r).op \notin Updates
         /\ Allowed(Keeper(w.db, t), insert_into(t, r)) /\ insert_into(t, r).t = t
         /\ insert_record(w, t, r) = Written(w, Executed(w.db, insert_into(t, r)), insert_into(t, r))
<1> DEFINE o == insert_into(t, r)
<1>1. o.op = "insert_into" /\ o.t = t /\ o.r = r
  BY DEF insert_into
<1>2. insert_record(w, t, r) = Written(w, internal_insert(ResizedStorage(w.db, t, r + 1), t, r), o)
  BY DEF insert_record
<1> HIDE DEF o
<1>3. IsCall(o)
  BY <1>1 DEF IsCall, SchemaOps, InformationOps, o
<1>4. RowCall(v, o)
  BY <1>1, <1>3 DEF RowCall, Inserts, Deletes, Updates
<1>5. t \in DOMAIN w.db.tables
  BY StorageHas DEF WriterAt
<1>6. Executed(w.db, o) = InsertedRow(w.db, o)
  BY <1>1, <1>5 DEF Executed, SchemaOps
<1>7. InsertedRow(w.db, o) = internal_insert(ResizedStorage(w.db, t, r + 1), t, r)
  BY <1>1 DEF InsertedRow, Keeper
<1>8. Allowed(Keeper(w.db, t), o) /\ o.op \notin Updates
  BY <1>1 DEF Allowed, Updates
<1> QED
  BY <1>1, <1>2, <1>4, <1>6, <1>7, <1>8 DEF o

(* An insert at a given record keeps the writer sound. *)
LEMMA InsertKeeps ==
  ASSUME NEW w, NEW v, WriterAt(w, v), w.db.ok = TRUE, NEW t \in TablesOf(v),
         NEW r \in Nat, ~IsUsed(Keeper(w.db, t), r), NEW x, x = insert_record(w, t, r)
  PROVE  Kept(w, x, v) /\ x.db.ok /\ KeptMirror(w, x, v)
<1> DEFINE o == insert_into(t, r)
<1> HIDE DEF o
<1>1. /\ RowCall(v, o) /\ o.op \notin Updates /\ Allowed(Keeper(w.db, t), o) /\ o.t = t
      /\ x = Written(w, Executed(w.db, o), o)
  BY InsertIsRow DEF o
<1>2. o.op \in Inserts /\ Allowed(Keeper(w.db, o.t), o)
  BY <1>1 DEF RowCall, o, insert_into, Inserts
<1> QED
  BY <1>1, <1>2, RowWritten

(* The record that get_free_record gives *)
LEMMA FreeRecord ==
  ASSUME NEW k, KeeperInv(k), NEW r, r = GetFreeRecord(k).record
  PROVE  r \in Nat /\ ~IsUsed(k, r)
<1> DEFINE l == GetFreeRecord(k).keeper
<1>1. l = GetFreeRecord(k).keeper
  OBVIOUS
<1> HIDE DEF l
<1>2. /\ \A i \in Nat : IsUsed(l, i) <=> IsUsed(k, i)
      /\ r \in 0..(KeeperSize(l) - 1) /\ ~IsUsed(l, r)
  BY <1>1, GetFreeRecordIsFree
<1> QED
  BY <1>2

(* new_<table> keeps the writer sound. *)
LEMMA NewRecordKeeps ==
  ASSUME NEW w, NEW v, WriterAt(w, v), w.db.ok = TRUE, NEW t \in TablesOf(v),
         NEW x, x = new_record(w, t)
  PROVE  Kept(w, x, v) /\ x.db.ok /\ KeptMirror(w, x, v)
<1> DEFINE k == Keeper(w.db, t)
           r == GetFreeRecord(k).record
<1>1. r = GetFreeRecord(k).record /\ x = insert_record(w, t, r)
  BY DEF new_record, insert_record, Keeper
<1>2. KeeperInv(k)
  BY StorageHas DEF WriterAt
<1> HIDE DEF r
<1>3. r \in Nat /\ ~IsUsed(k, r)
  BY <1>1, <1>2, FreeRecord
<1> QED
  BY <1>1, <1>3, InsertKeeps

(* new_vector inserts after the last record. *)
LEMMA EndIsFree ==
  ASSUME NEW k, KeeperInv(k), NEW n \in Nat, NEW r, r = KeeperSize(k),
         NEW l, l = ResizedKeeper(k, r + n)
  PROVE  r \in Nat /\ IsFreeVector(l, r, n)
<1> DEFINE m == r + n
<1>1. /\ r \in Nat /\ UsedCount(k) <= r
      /\ \A i \in Int : IsUsed(k, i) => i \in 0..(r - 1)
  BY KeeperTypes
<1>2. m \in Nat /\ l = Resize(k, m)
  BY <1>1 DEF ResizedKeeper
<1> HIDE DEF m
<1>3. KeeperInv(l) /\ UsedCount(l) = UsedCount(k) /\ \A i \in Nat : IsUsed(l, i) <=> IsUsed(k, i)
  BY <1>2, ResizeKeeps DEF Keeps
<1>4. CASE DenseInv(l)
  <2>1. l.dense = TRUE /\ l.used_size = UsedCount(l)
    BY <1>4 DEF DenseInv, UsedCount
  <2> QED
    BY <1>1, <1>3, <2>1 DEF IsFreeVector
<1>5. CASE ListInv(l)
  <2>1. l.dense = FALSE /\ l.size \in Nat
    BY <1>5, ListFields
  <2>2. ASSUME NEW i \in r..(r + n - 1), i < l.size
        PROVE  l.is_free[i]
    <3>1. i \in Nat /\ ~IsUsed(k, i)
      BY <1>1
    <3>2. ~IsUsed(l, i)
      BY <1>3, <3>1
    <3> QED
      BY <2>1, <2>2, <3>1, <3>2 DEF IsUsed, ListIsUsed
  <2> QED
    BY <1>1, <2>1, <2>2 DEF IsFreeVector, ListIsFreeVector
<1> QED
  BY <1>1, <1>3, <1>4, <1>5 DEF KeeperInv

(* new_vector_of_<table> keeps the writer sound. *)
LEMMA NewVectorKeeps ==
  ASSUME NEW w, NEW v, WriterAt(w, v), w.db.ok = TRUE, NEW t \in TablesOf(v), NEW n \in Nat,
         NEW x, x = new_vector(w, t, n)
  PROVE  Kept(w, x, v) /\ KeptMirror(w, x, v)
<1> DEFINE k == Keeper(w.db, t)
           r == KeeperSize(k)
           l == ResizedKeeper(k, r + n)
           o == insert_vector(t, r, n)
<1>1. KeeperInv(k) /\ t \in DOMAIN w.db.tables
  BY StorageHas DEF WriterAt
<1>2. r \in Nat /\ IsFreeVector(l, r, n)
  BY <1>1, EndIsFree
<1>3. o.op = "insert_vector" /\ o.t = t /\ o.r = r /\ o.n = n
  BY DEF insert_vector
<1>4. x = Written(w, internal_vector_insert(ResizedStorage(w.db, t, r + n), t, r, n), o)
  BY DEF new_vector, Keeper
<1>5. l = ResizedKeeper(k, o.r + o.n)
  BY <1>3
<1>5a. o = insert_vector(t, r, n)
  OBVIOUS
<1> HIDE DEF o, l, r
<1>6. IsCall(o)
  BY <1>2, <1>3, <1>5a DEF IsCall, SchemaOps, InformationOps
<1>7. RowCall(v, o)
  BY <1>3, <1>6 DEF RowCall, Inserts, Deletes, Updates
<1>8. Executed(w.db, o) = InsertedRow(w.db, o)
  BY <1>1, <1>3 DEF Executed, SchemaOps
<1>9. InsertedRow(w.db, o) = internal_vector_insert(ResizedStorage(w.db, t, r + n), t, r, n)
  BY <1>2, <1>3 DEF InsertedRow
<1>10. Allowed(k, o) /\ o.op \notin Updates
  BY <1>2, <1>3, <1>5 DEF Allowed, Updates
<1>11. /\ x = Written(w, Executed(w.db, o), o)
       /\ o.op \in Inserts => Allowed(Keeper(w.db, o.t), o)
  BY <1>3, <1>4, <1>8, <1>9, <1>10
<1> QED
  BY <1>7, <1>10, <1>11, RowWritten
(* The functions of the user *)
LEMMA DeleteKeeps ==
  ASSUME NEW w, NEW v, WriterAt(w, v), w.db.ok = TRUE, NEW t \in TablesOf(v),
         NEW r \in Int, NEW n \in Nat,
         NEW x, x = delete_record(w, t, r) \/ x = delete_vector_of(w, t, r, n)
  PROVE  Kept(w, x, v) /\ KeptMirror(w, x, v)
<1>1. CASE x = delete_record(w, t, r)
  <2> DEFINE o == delete_from(t, r)
  <2> HIDE DEF o
  <2>1. IsWritten(w, v, o, x) /\ o.op = "delete_from"
    BY <1>1, DeletesAreRows DEF o
  <2>2. RowCall(v, o) /\ x = Written(w, Executed(w.db, o), o)
    BY <2>1 DEF IsWritten
  <2>3. o.op \notin Inserts /\ o.op \notin Updates
    BY <2>1 DEF Inserts, Updates
  <2> QED
    BY <2>2, <2>3, RowWritten
<1>2. CASE x = delete_vector_of(w, t, r, n)
  <2> DEFINE o == delete_vector(t, r, n)
  <2> HIDE DEF o
  <2>1. IsWritten(w, v, o, x) /\ o.op = "delete_vector"
    BY <1>2, DeletesAreRows DEF o
  <2>2. RowCall(v, o) /\ x = Written(w, Executed(w.db, o), o)
    BY <2>1 DEF IsWritten
  <2>3. o.op \notin Inserts /\ o.op \notin Updates
    BY <2>1 DEF Inserts, Updates
  <2> QED
    BY <2>2, <2>3, RowWritten
<1> QED
  BY <1>1, <1>2

(* set_<field> keeps the writer sound. *)
LEMMA SetKeeps ==
  ASSUME NEW w, NEW v, WriterAt(w, v), w.db.ok = TRUE, NEW t \in TablesOf(v),
         NEW f \in FieldsOf(v, t), NEW r \in Int, NEW u, NEW x, x = set_field(w, t, r, f, u)
  PROVE  Kept(w, x, v) /\ (w.invalid \subseteq {<<t, r, f>>} => KeptMirror(w, x, v))
<1> DEFINE o == update(t, r, f, u)
<1> HIDE DEF o
<1>1. IsWritten(w, v, o, x) /\ o.op = "update" /\ <<t, r, f>> \in Area(v, o)
  BY UpdateIsRow DEF o
<1>2. RowCall(v, o) /\ x = Written(w, Executed(w.db, o), o)
  BY <1>1 DEF IsWritten
<1>3. o.op \notin Inserts
  BY <1>1 DEF Inserts
<1>4. w.invalid \subseteq {<<t, r, f>>} => w.invalid \subseteq Area(v, o)
  BY <1>1
<1>5. /\ Kept(w, x, v)
      /\ (o.op \in Updates => w.invalid \subseteq Area(v, o)) => KeptMirror(w, x, v)
  BY <1>2, <1>3, RowWritten
<1> QED
  BY <1>4, <1>5

(* update_vector_of_<field> keeps the writer sound. *)
LEMMA UpdateVectorKeeps ==
  ASSUME NEW w, NEW v, WriterAt(w, v), w.db.ok = TRUE, NEW t \in TablesOf(v),
         NEW f \in FieldsOf(v, t), NEW r \in Int, NEW vs, vs \in Seq(Range(vs)), Len(vs) = 2,
         NEW x, x = update_vector_of(w, t, r, f, vs)
  PROVE  /\ Kept(w, x, v)
         /\ w.invalid \subseteq {<<t, r, f>>, <<t, r + 1, f>>} => KeptMirror(w, x, v)
<1> DEFINE o == update_vector(t, r, f, vs)
<1> HIDE DEF o
<1>1. /\ IsWritten(w, v, o, x) /\ o.op = "update_vector"
      /\ <<t, r, f>> \in Area(v, o) /\ <<t, r + 1, f>> \in Area(v, o)
  BY UpdateVectorIsRow DEF o
<1>2. RowCall(v, o) /\ x = Written(w, Executed(w.db, o), o)
  BY <1>1 DEF IsWritten
<1>3. o.op \notin Inserts
  BY <1>1 DEF Inserts
<1>4. w.invalid \subseteq {<<t, r, f>>, <<t, r + 1, f>>} => w.invalid \subseteq Area(v, o)
  BY <1>1
<1>5. /\ Kept(w, x, v)
      /\ (o.op \in Updates => w.invalid \subseteq Area(v, o)) => KeptMirror(w, x, v)
  BY <1>2, <1>3, RowWritten
<1> QED
  BY <1>4, <1>5

(* The length of a list that is given by its domain *)
LEMMA LenIs ==
  ASSUME NEW n \in Nat, NEW s, s = [i \in 1..n |-> s[i]]
  PROVE  Len(s) = n /\ s \in Seq(Range(s))
<1>1. DOMAIN s = 1..n
  OBVIOUS
<1>2. \A i \in 1..n : s[i] \in Range(s)
  BY <1>1 DEF Range
<1>3. s \in [1..n -> Range(s)]
  BY <1>1, <1>2
<1> QED
  BY <1>3

(* The calls of new_<table> with all the fields *)
AreUpdates(s, t, n, r, f, u) ==
  s = [i \in 1..n |-> update(t, r[i], f[i], u)] /\ \A i \in 1..n : r[i] \in Int

(* They are calls on rows. *)
LEMMA UpdatesTurn ==
  ASSUME NEW v, NEW t \in TablesOf(v), NEW n \in Nat, NEW r, NEW f, NEW u,
         NEW s, AreUpdates(s, t, n, r, f, u)
  PROVE  Len(s) = n /\ \A i \in 1..Len(s) : TurnCall(v, s[i])
<1>1. \A i \in 1..n : s[i] = update(t, r[i], f[i], u) /\ r[i] \in Int
  BY DEF AreUpdates
<1>2. Len(s) = n
  <2>1. s = [i \in 1..n |-> s[i]]
    BY DEF AreUpdates
  <2> QED
    BY <2>1, LenIs
<1>3. ASSUME NEW i \in 1..n
      PROVE  TurnCall(v, s[i])
  <2>1. /\ s[i] = update(t, r[i], f[i], u) /\ r[i] \in Int
        /\ s[i].op = "update" /\ s[i].t = t /\ s[i].r = r[i] /\ s[i].f = f[i] /\ s[i].v = u
    BY <1>1 DEF update
  <2> DEFINE o == s[i]
  <2> HIDE DEF o
  <2>2. o = update(o.t, o.r, o.f, o.v) /\ o.op = "update" /\ o.r \in Int /\ o.t \in TablesOf(v)
    BY <2>1 DEF o
  <2>3. IsCall(o)
    BY <2>2 DEF IsCall, SchemaOps, InformationOps
  <2>4. TurnCall(v, o)
    BY <2>2, <2>3 DEF TurnCall
  <2> QED
    BY <2>4 DEF o
<1> QED
  BY <1>2, <1>3

(* The calls of clear_<table>_table are calls on rows. *)
LEMMA DeletesTurn ==
  ASSUME NEW v, NEW t \in TablesOf(v), NEW n \in Nat, NEW r,
         NEW s, s = [i \in 1..n |-> delete_from(t, r[i])],
         \A i \in 1..n : r[i] \in Int
  PROVE  Len(s) = n /\ \A i \in 1..Len(s) : TurnCall(v, s[i]) /\ s[i].op = "delete_from"
<1>1. \A i \in 1..n : s[i] = delete_from(t, r[i])
  OBVIOUS
<1>2. Len(s) = n
  BY LenIs
<1>3. ASSUME NEW i \in 1..n
      PROVE  TurnCall(v, s[i]) /\ s[i].op = "delete_from"
  <2>1. /\ s[i] = delete_from(t, r[i]) /\ r[i] \in Int
        /\ s[i].op = "delete_from" /\ s[i].t = t /\ s[i].r = r[i]
    BY <1>1 DEF delete_from
  <2> DEFINE o == s[i]
  <2> HIDE DEF o
  <2>2. o = delete_from(o.t, o.r) /\ o.op = "delete_from" /\ o.r \in Int /\ o.t \in TablesOf(v)
    BY <2>1 DEF o
  <2>3. IsCall(o)
    BY <2>2 DEF IsCall, SchemaOps, InformationOps
  <2>4. TurnCall(v, o)
    BY <2>2, <2>3 DEF TurnCall
  <2> QED
    BY <2>2, <2>4 DEF o
<1> QED
  BY <1>2, <1>3

(* new_<table> with all the fields keeps the writer sound. *)
LEMMA NewWithValuesKeeps ==
  ASSUME NEW w, NEW v, WriterAt(w, v), w.db.ok = TRUE, NEW t \in TablesOf(v), NEW u,
         NEW x, x = new_with_values(w, t, u)
  PROVE  Kept(w, x, v) /\ (w.invalid = {} => KeptMirror(w, x, v))
<1> DEFINE r == GetFreeRecord(w.db.tables[t].freedom).record
           last == Compiled[w.db.version].tables[t].current_field_id
           y == new_record(w, t)
           s == [f \in 1..last |-> update(t, r, f, u)]
           rs == [f \in 1..last |-> r]
           fs == [f \in 1..last |-> f]
<1>1. x = InTurn(y, s) /\ y = new_record(w, t)
  BY DEF new_with_values
<1>2. w.db.version = v /\ KeeperInv(Keeper(w.db, t)) /\ v \in Versions
  BY StorageHas DEF WriterAt
<1>3. last \in Nat
  BY <1>2, SchemaAssumption DEF TablesOf
<1>4. r \in Nat
  <2> DEFINE k == Keeper(w.db, t)
             q == GetFreeRecord(k).record
  <2>1. q = GetFreeRecord(k).record /\ KeeperInv(k)
    BY <1>2
  <2>2. q = r
    BY DEF Keeper
  <2> HIDE DEF q, k, r
  <2> QED
    BY <2>1, <2>2, FreeRecord
<1> HIDE DEF r, last, y
<1>5. AreUpdates(s, t, last, rs, fs, u)
  BY <1>4 DEF AreUpdates
<1> HIDE DEF s, rs, fs
<1>6. Len(s) \in Nat /\ \A i \in 1..Len(s) : TurnCall(v, s[i])
  BY <1>3, <1>5, UpdatesTurn
<1>7. Kept(w, y, v) /\ y.db.ok /\ KeptMirror(w, y, v)
  BY <1>1, NewRecordKeeps
<1>8. WriterAt(y, v) /\ (w.invalid = {} => y.invalid = {})
  BY <1>7 DEF Kept
<1>9. Kept(y, x, v) /\ (Exact(y, s) => KeptMirror(y, x, v))
  BY <1>1, <1>6, <1>8, InTurnKeeps
<1>10. Kept(w, x, v)
  BY <1>7, <1>9, KeptTwice
<1>11. ASSUME w.invalid = {}
       PROVE  KeptMirror(w, x, v)
  <2>1. Exact(y, s)
    BY <1>8, <1>11 DEF Exact
  <2> QED
    BY <1>7, <1>9, <2>1, MirrorKeptTwice
<1> QED
  BY <1>10, <1>11

(* clear_<table>_table keeps the writer sound. *)
LEMMA ClearKeeps ==
  ASSUME NEW w, NEW v, WriterAt(w, v), NEW t \in TablesOf(v), NEW x, x = clear_table(w, t)
  PROVE  Kept(w, x, v) /\ KeptMirror(w, x, v)
<1> DEFINE used == UsedList(w.db.tables[t].freedom)
           n == Len(used)
           s == [i \in DOMAIN used |-> delete_from(t, used[Len(used) + 1 - i])]
           rs == [i \in 1..n |-> used[n + 1 - i]]
<1>1. x = InTurn(w, s)
  BY DEF clear_table
<1>2. n \in Nat /\ DOMAIN used = 1..n /\ \A i \in 1..n : used[i] \in Nat
  <2>1. KeeperInv(Keeper(w.db, t))
    BY StorageHas DEF WriterAt
  <2> QED
    BY <2>1, UsedListIs DEF Keeper
<1> HIDE DEF used
<1>3. s = [i \in 1..n |-> delete_from(t, rs[i])]
  BY <1>2
<1>4. \A i \in 1..n : rs[i] \in Int
  <2>1. \A i \in 1..n : n + 1 - i \in 1..n
    BY <1>2
  <2> HIDE DEF n
  <2> QED
    BY <1>2, <2>1
<1> HIDE DEF n, s, rs
<1>5. Len(s) \in Nat /\ \A i \in 1..Len(s) : TurnCall(v, s[i]) /\ s[i].op = "delete_from"
  BY <1>2, <1>3, <1>4, DeletesTurn
<1>6. Exact(w, s)
  BY <1>5 DEF Exact
<1> QED
  BY <1>1, <1>5, <1>6, InTurnKeeps
-----------------------------------------------------------------------------
(***************************************************************************)
(* auto_upgrade.                                                           *)
(***************************************************************************)

(* The writers that an upgrade goes through *)
LEMMA UpgradeSteps ==
  ASSUME NEW a, NEW s, Len(s) \in Nat
  PROVE  \E d : /\ d[0] = a /\ d[Len(s)] = UpgradedInTurn(a, s)
                /\ \A i \in 0..(Len(s) - 1) : d[i + 1] = UpgradeStep(d[i], s[i + 1])
<1> DEFINE m == Len(s)
           Is(g, j) == g = [i \in 0..j |-> IF i = 0 THEN a ELSE UpgradeStep(g[i - 1], s[i])]
           S == {j \in 0..m : \E g : Is(g, j)}
<1> HIDE DEF m
<1>0. m \in Nat
  BY DEF m
<1>1. 0 \in S
  <2>1. Is([i \in 0..0 |-> a], 0)
    OBVIOUS
  <2>2. \E g : Is(g, 0)
    BY <2>1
  <2> HIDE DEF Is
  <2> QED
    BY <1>0, <2>2
<1>2. ASSUME NEW j \in 0..(m - 1), j \in S
      PROVE  j + 1 \in S
  <2>1. PICK g : Is(g, j)
    BY <1>2
  <2> DEFINE h == [i \in 0..(j + 1) |-> IF i = j + 1 THEN UpgradeStep(g[j], s[j + 1]) ELSE g[i]]
  <2>2. \A i \in 0..j : g[i] = IF i = 0 THEN a ELSE UpgradeStep(g[i - 1], s[i])
    BY <2>1
  <2>3. ASSUME NEW i \in 0..(j + 1)
        PROVE  h[i] = IF i = 0 THEN a ELSE UpgradeStep(h[i - 1], s[i])
    <3>1. CASE i = j + 1
      <4>1. h[i - 1] = g[j] /\ i # 0
        BY <1>0, <3>1
      <4>2. h[i] = UpgradeStep(g[j], s[j + 1])
        BY <3>1
      <4> HIDE DEF h
      <4> QED
        BY <3>1, <4>1, <4>2
    <3>2. CASE i # j + 1
      <4>1. i \in 0..j /\ h[i] = g[i] /\ (i # 0 => h[i - 1] = g[i - 1])
        BY <1>0, <3>2
      <4> HIDE DEF h
      <4> QED
        BY <2>2, <4>1
    <3> QED
      BY <3>1, <3>2
  <2>4. h = [i \in 0..(j + 1) |-> h[i]]
    OBVIOUS
  <2> HIDE DEF h
  <2>5. Is(h, j + 1)
    BY <2>3, <2>4
  <2>6. j + 1 \in 0..m
    BY <1>0
  <2> QED
    BY <2>5, <2>6
<1> HIDE DEF S
<1>3. m \in S
  <2>1. \A j \in 0..m : j \in S
    BY <1>0, <1>1, <1>2, InductionUpTo
  <2> QED
    BY <1>0, <2>1
<1>4. \E g : Is(g, m)
  BY <1>3 DEF S
<1> DEFINE c == CHOOSE g : Is(g, m)
<1>5. Is(c, m)
  BY <1>4
<1>6. c[m] = UpgradedInTurn(a, s)
  BY DEF m, UpgradedInTurn
<1> HIDE DEF c
<1>7. c[0] = a /\ \A i \in 0..(m - 1) : c[i + 1] = UpgradeStep(c[i], s[i + 1])
  <2>1. ASSUME NEW i \in 0..m
        PROVE  c[i] = IF i = 0 THEN a ELSE UpgradeStep(c[i - 1], s[i])
    BY <1>5
  <2>2. ASSUME NEW i \in 0..(m - 1)
        PROVE  c[i + 1] = UpgradeStep(c[i], s[i + 1])
    <3>1. i + 1 \in 0..m /\ i + 1 # 0 /\ i + 1 - 1 = i
      BY <1>0
    <3> QED
      BY <2>1, <3>1
  <2>3. 0 \in 0..m
    BY <1>0
  <2> QED
    BY <2>1, <2>2, <2>3
<1> QED
  BY <1>6, <1>7 DEF m


(* The data of a new table, of a new field, or of a custom function *)
LEMMA UpgradeDataKeeps ==
  ASSUME NEW w, NEW v, WriterAt(w, v), w.db.ok = TRUE, NEW o,
         o.op = "custom" => CustomClears[o.name] \in TablesOf(v),
         NEW x, x = UpgradeData(w, o)
  PROVE  Kept(w, x, v) /\ (w.invalid = {} => KeptMirror(w, x, v))
<1>0. w.db.version = v /\ v \in Versions
  BY StorageHas DEF WriterAt
<1>1. SingleRow[v] \subseteq TablesOf(v) /\ DOMAIN Defaults[v] \subseteq TablesOf(v)
  BY <1>0, SchemaAssumption DEF TablesOf
<1>2. CASE o.op = "create_table"
  <2> DEFINE t == Len(SelectSeq(w.db.schema, LAMBDA c : c.op = "create_table"))
  <2>1. x = IF t \in SingleRow[v] THEN new_record(w, t) ELSE w
    BY <1>0, <1>2 DEF UpgradeData, UpgradeCreateTable
  <2> HIDE DEF t
  <2>2. CASE t \in SingleRow[v]
    <3>1. t \in TablesOf(v) /\ x = new_record(w, t)
      BY <1>1, <2>1, <2>2
    <3> QED
      BY <3>1, NewRecordKeeps
  <2>3. CASE t \notin SingleRow[v]
    BY <2>1, <2>3, WriterKept
  <2> QED
    BY <2>2, <2>3
<1>3. CASE o.op = "add_field"
  <2> DEFINE t == o.t
             f == Len(SelectSeq(w.db.schema, LAMBDA c : c.op = "add_field" /\ c.t = o.t))
             used == UsedList(w.db.tables[t].freedom)
             s == [i \in DOMAIN used |-> update(t, used[i], f, Defaults[v][t][f])]
             n == Len(used)
             fs == [i \in 1..n |-> f]
             u == Defaults[v][t][f]
  <2>1. x = UpgradeAddField(w, t)
    BY <1>3 DEF UpgradeData
  <2>2. x = IF t \in DOMAIN Defaults[v] /\ f \in DOMAIN Defaults[v][t] THEN InTurn(w, s) ELSE w
    BY <1>0, <2>1 DEF UpgradeAddField
  <2>3. CASE t \in DOMAIN Defaults[v] /\ f \in DOMAIN Defaults[v][t]
    <3>1. t \in TablesOf(v) /\ x = InTurn(w, s)
      BY <1>1, <2>2, <2>3
    <3>2. n \in Nat /\ DOMAIN used = 1..n /\ \A i \in 1..n : used[i] \in Nat
      <4>1. KeeperInv(Keeper(w.db, t))
        BY <3>1, StorageHas DEF WriterAt
      <4> QED
        BY <4>1, UsedListIs DEF Keeper
    <3> HIDE DEF f, used
    <3>3. s = [i \in 1..n |-> update(t, used[i], f, u)]
      BY <3>2
    <3> HIDE DEF s, n, u
    <3>4. AreUpdates(s, t, n, used, fs, u)
      <4>1. s = [i \in 1..n |-> update(t, used[i], fs[i], u)]
        BY <3>3
      <4> QED
        BY <3>2, <4>1 DEF AreUpdates
    <3> HIDE DEF t, fs
    <3>5. Len(s) \in Nat /\ \A i \in 1..Len(s) : TurnCall(v, s[i])
      BY <3>1, <3>2, <3>4, UpdatesTurn
    <3>6. w.invalid = {} => Exact(w, s)
      BY DEF Exact
    <3>7. Kept(w, x, v) /\ (Exact(w, s) => KeptMirror(w, x, v))
      BY <3>1, <3>5, InTurnKeeps
    <3> QED
      BY <3>6, <3>7
  <2>4. CASE ~(t \in DOMAIN Defaults[v] /\ f \in DOMAIN Defaults[v][t])
    <3>1. x = w
      BY <2>2, <2>4
    <3> QED
      BY <3>1, WriterKept
  <2> QED
    BY <2>3, <2>4
<1>4. CASE o.op = "custom"
  <2> DEFINE t == CustomClears[o.name]
  <2>1. x = clear_table(w, t) /\ t \in TablesOf(v)
    BY <1>4 DEF UpgradeData
  <2> HIDE DEF t
  <2> QED
    BY <2>1, ClearKeeps
<1>5. CASE o.op \notin {"create_table", "add_field", "custom"}
  <2>1. x = w
    BY <1>5 DEF UpgradeData
  <2> QED
    BY <2>1, WriterKept
<1> QED
  BY <1>2, <1>3, <1>4, <1>5

(* An operation that a program finds in the schema that it was compiled for *)
SchemaCall(v, o) ==
  /\ o.op \in SchemaOps \union {"custom"}
  /\ o.op = "custom" => CustomClears[o.name] \in TablesOf(v)

(* An operation of the schema is not about rows. *)
LEMMA SchemaCallIs ==
  ASSUME NEW v, NEW o, SchemaCall(v, o)
  PROVE  IsCall(o) /\ ~RowCall(v, o)
<1>1. o.op \in SchemaOps \union InformationOps
  BY DEF SchemaCall, InformationOps
<1> QED
  BY <1>1 DEF IsCall, RowCall, Inserts, Deletes, Updates, SchemaOps, InformationOps

(* A step of an upgrade, and the same operation in the journal *)
LEMMA UpgradeStepKeeps ==
  ASSUME NEW w, NEW v, WriterAt(w, v), w.db.ok = TRUE, w.invalid = {}, NEW o, SchemaCall(v, o),
         NEW x, x = UpgradeStep(w, o)
  PROVE  /\ WriterAt(x, v) /\ x.db.schema = Append(w.db.schema, o)
         /\ SchemaOf(x.calls) = SchemaOf(w.calls)
         /\ x.db.ok => x.invalid = {}
         /\ KeptMirror(w, x, v)
<1> DEFINE g == w.db
           h == Executed(g, o)
           y == [w EXCEPT !.db = Executed(@, o)]
<1>1. /\ IsStorage(g, v) /\ HasSchema(g) /\ g.ok = TRUE /\ IndexesAt(g, v, w.invalid)
      /\ IsCalls(w.calls) /\ w = [db |-> g, calls |-> w.calls, invalid |-> w.invalid]
      /\ h = Executed(g, o)
  BY DEF WriterAt
<1>2. y = [db |-> h, calls |-> w.calls, invalid |-> w.invalid]
  BY <1>1
<1>3. x = UpgradeData(y, o)
  BY DEF UpgradeStep
<1> HIDE DEF g, h, y
<1>4. IsStorage(h, v) /\ h.ok = TRUE /\ SameRows(g, h) /\ h.schema = SchemaAfter(g, o)
  <2>1. OtherCallOn(g, v, o)
    BY <1>1, SchemaCallIs DEF OtherCallOn
  <2> QED
    BY <1>1, <2>1, OtherCall
<1>5. h.schema = Append(g.schema, o) /\ HasSchema(h)
  <2>1. h.schema = Append(g.schema, o)
    BY <1>4 DEF SchemaAfter, SchemaCall
  <2> QED
    BY <1>1, <2>1, SchemaGrows
<1>6. IndexesAt(h, v, w.invalid)
  BY <1>1, <1>4, SameIndexes
<1>7. y.db = h /\ y.calls = w.calls /\ y.invalid = w.invalid
  BY <1>2
<1>8. WriterAt(y, v)
  BY <1>1, <1>2, <1>4, <1>5, <1>6, <1>7 DEF WriterAt
<1>9. KeptMirror(w, y, v)
  <2>1. ASSUME NEW b, NEW schema, Mirrored(w, v, b, schema)
        PROVE  Mirrored(y, v, b, schema)
    <3> DEFINE m == Replayed(b, w.calls)
    <3>1. ReadsSoundly(m, v) /\ m.ok = TRUE /\ m.schema = schema /\ Agree(g, m, v, w.invalid)
      BY <2>1 DEF Mirrored, MirrorAt, g
    <3>2. m = Replayed(b, y.calls)
      BY <1>7
    <3> HIDE DEF m
    <3>3. SameRows(m, m)
      BY DEF SameRows
    <3>4. Agree(h, m, v, w.invalid)
      BY <1>4, <3>1, <3>3, AgreeRows
    <3> QED
      BY <1>7, <3>1, <3>2, <3>4 DEF Mirrored, MirrorAt
  <2> QED
    BY <2>1 DEF KeptMirror
<1>10. Kept(y, x, v) /\ (y.invalid = {} => KeptMirror(y, x, v))
  <2>1. y.db.ok = TRUE
    BY <1>4, <1>7
  <2>2. o.op = "custom" => CustomClears[o.name] \in TablesOf(v)
    BY DEF SchemaCall
  <2> QED
    BY <1>3, <1>8, <2>1, <2>2, UpgradeDataKeeps
<1>11. KeptMirror(w, x, v)
  <2>1. KeptMirror(y, x, v)
    BY <1>7, <1>10
  <2> QED
    BY <1>9, <2>1, MirrorKeptTwice
<1> QED
  BY <1>5, <1>7, <1>10, <1>11 DEF Kept, g
(* The end of a sequence *)
LEMMA SuffixIs ==
  ASSUME NEW X, NEW os \in Seq(X), NEW n \in Nat, n < Len(os), NEW l, l = Len(os)
  PROVE  /\ SubSeq(os, n + 1, l) \in Seq(X) /\ Len(SubSeq(os, n + 1, l)) = l - n
         /\ \A i \in 1..(l - n) : SubSeq(os, n + 1, l)[i] \in X
<1> DEFINE s == SubSeq(os, n + 1, l)
<1>1. l \in Nat /\ n < l /\ Len(os) = l
  OBVIOUS
<1>2. \A i \in (n + 1)..l : os[i] \in X
  BY <1>1
<1>3. s \in Seq(X) /\ Len(s) = l - n /\ \A i \in 1..(l - n) : s[i] = os[n + i]
  BY <1>1, <1>2
<1>4. \A i \in 1..(l - n) : n + i \in (n + 1)..l
  BY <1>1
<1> HIDE DEF s
<1>5. \A i \in 1..(l - n) : s[i] \in X
  BY <1>2, <1>3, <1>4
<1> QED
  BY <1>3, <1>5 DEF s

SuffixFits(s, os, n, l, X) == s \in Seq(X) /\ Len(s) = l - n /\ \A i \in 1..(l - n) : s[i] \in X

(* The end of a sequence has the elements that the sequence has there. *)
LEMMA SuffixFitsIt ==
  ASSUME NEW X, NEW os, NEW n, NEW l, NEW s,
         os \in Seq(X), n \in Nat, n < l, l = Len(os), s = SubSeq(os, n + 1, l)
  PROVE  SuffixFits(s, os, n, l, X)
<1>1. n < Len(os)
  OBVIOUS
<1>2. SuffixFits(SubSeq(os, n + 1, l), os, n, l, X)
  BY <1>1, SuffixIs DEF SuffixFits
<1> QED
  BY <1>2

(* The operations that a file misses *)
LEMMA MissingAre ==
  ASSUME NEW g, NEW v \in Versions, HasSchema(g), Len(g.schema) < Len(Schema[v]),
         NEW s, s = SubSeq(Schema[v], Len(g.schema) + 1, Len(Schema[v]))
  PROVE  IsCalls(s) /\ Len(s) \in Nat /\ \A i \in 1..Len(s) : SchemaCall(v, s[i])
<1> DEFINE X == Range(Schema[v])
           os == Schema[v]
           n == Len(g.schema)
           l == Len(os)
<1>1. os \in Seq(X) /\ l \in Nat /\ n \in Nat /\ n < l
  <2>1. os \in Seq(X)
    BY SchemaAssumption
  <2>2. n \in Nat
    BY DEF HasSchema
  <2> HIDE DEF os, X, n
  <2> QED
    BY <2>1, <2>2 DEF os, n
<1>2. \A o \in X : SchemaCall(v, o)
  BY SchemaAssumption DEF SchemaCall, TablesOf
<1>3. s = SubSeq(os, n + 1, l)
  OBVIOUS
<1> HIDE DEF X, n
<1>4. s \in Seq(X) /\ Len(s) = l - n /\ \A i \in 1..(l - n) : s[i] \in X
  <2>1. l = Len(os)
    OBVIOUS
  <2> HIDE DEF os, l
  <2> QED
    <3>1. SuffixFits(s, os, n, l, X)
      BY <1>1, <1>3, <2>1, SuffixFitsIt
    <3> QED
      BY <3>1 DEF SuffixFits
<1> HIDE DEF os, l
<1>5. Len(s) \in Nat /\ \A i \in 1..Len(s) : SchemaCall(v, s[i])
  BY <1>1, <1>2, <1>4, SMTT(30)
<1>6. \A i \in 1..Len(s) : IsCall(s[i])
  BY <1>5, SchemaCallIs
<1>7. IsCalls(s)
  BY <1>4, <1>6, CallsOf
<1> QED
  BY <1>5, <1>7

(* A list of operations of the schema holds nothing else. *)
LEMMA SchemaOfSchema ==
  ASSUME NEW os, IsCalls(os), NEW v, \A i \in 1..Len(os) : SchemaCall(v, os[i])
  PROVE  SchemaOf(os) = os
<1> DEFINE n == Len(os)
           Copied(s, i) == IsList(s) /\ Len(s) = i /\ \A j \in 1..i : s[j] = os[j]
<1>1. n \in Nat /\ IsList(os) /\ n = Len(os) /\ \A i \in 1..n : SchemaCall(v, os[i])
  BY CallsLen DEF IsList
<1>2. PICK c : Knows(c, os)
  BY <1>1, SchemaSteps
<1>3. /\ c[0] = <<>> /\ c[n] = SchemaOf(os)
      /\ \A i \in 0..(n - 1) : c[i + 1] = WithSchema(c[i], os[i + 1])
  BY <1>2 DEF Knows
<1> HIDE DEF n
<1> DEFINE S == {i \in 0..n : Copied(c[i], i)}
<1>4. 0 \in S
  <2> DEFINE e == <<>>
  <2>1. IsList(e) /\ Len(e) = 0
    BY EmptyList
  <2>2. c[0] = e /\ 0 \in 0..n /\ \A j \in 1..0 : FALSE
    BY <1>1, <1>3
  <2> HIDE DEF e
  <2> QED
    BY <2>1, <2>2
<1>5. ASSUME NEW i \in 0..(n - 1), i \in S
      PROVE  i + 1 \in S
  <2> DEFINE a == c[i]
             b == c[i + 1]
             o == os[i + 1]
  <2>1. /\ Copied(a, i) /\ b = WithSchema(a, o) /\ SchemaCall(v, o)
        /\ i \in Nat /\ i + 1 \in 0..n /\ o = os[i + 1]
    BY <1>1, <1>3, <1>5
  <2> HIDE DEF a, b, o
  <2>2. b = Append(a, o)
    BY <2>1 DEF WithSchema, SchemaCall
  <2>3. /\ IsList(b) /\ Len(b) = i + 1
        /\ \A j \in 1..(i + 1) : b[j] = IF j <= i THEN a[j] ELSE o
    <3>1. IsList(a) /\ Len(a) = i
      BY <2>1
    <3>2. /\ IsList(Append(a, o)) /\ Len(Append(a, o)) = Len(a) + 1
          /\ \A j \in 1..(Len(a) + 1) : Append(a, o)[j] = IF j <= Len(a) THEN a[j] ELSE o
      BY <3>1, ListAppend
    <3> QED
      BY <2>2, <3>1, <3>2
  <2>4. ASSUME NEW j \in 1..(i + 1)
        PROVE  b[j] = os[j]
    <3>1. j \in 1..i \/ j = i + 1
      BY <2>1
    <3> QED
      BY <2>1, <2>3, <3>1
  <2>5. Copied(b, i + 1)
    BY <2>3, <2>4
  <2> QED
    BY <2>1, <2>5 DEF b
<1> HIDE DEF S
<1>6. n \in S
  <2>1. \A i \in 0..n : i \in S
    BY <1>1, <1>4, <1>5, InductionUpTo
  <2> QED
    BY <1>1, <2>1
<1>7. Copied(SchemaOf(os), n)
  BY <1>3, <1>6 DEF S
<1> QED
  BY <1>1, <1>7, SameList

(* The part of the schema that a program does not find in the file *)
Missing(g, v) ==
  IF Len(g.schema) < Len(Schema[v])
  THEN SubSeq(Schema[v], Len(g.schema) + 1, Len(Schema[v])) ELSE <<>>

(* A schema that check_schema accepts, and what it misses *)
LEMMA MissingCompletes ==
  ASSUME NEW g, NEW v \in Versions, HasSchema(g), g.version = v, SchemaIsCompatible(g)
  PROVE  g.schema \o Missing(g, v) = Schema[v]
<1> DEFINE s == g.schema
           X == Range(Schema[v])
           os == Schema[v]
           n == Len(s)
           l == Len(os)
           t == SubSeq(os, n + 1, l)
<1>1. os \in Seq(X) /\ IsList(os) /\ l = Len(os)
  BY SchemaAssumption DEF IsList
<1>2. IsList(s) /\ n = Len(s)
  BY DEF HasSchema, IsList
<1>3. n <= l /\ SubSeq(s, 1, n) = SubSeq(os, 1, n)
  BY DEF SchemaIsCompatible, IsPrefix
<1>4. Missing(g, v) = IF n < l THEN t ELSE <<>>
  BY DEF Missing
<1>4a. t = SubSeq(os, n + 1, l)
  OBVIOUS
<1> HIDE DEF s, X, os, n, l, t
<1>5. l \in Nat /\ n \in Nat
  <2>1. Len(os) \in Nat
    BY <1>1
  <2>2. s \in Seq(Range(s))
    BY <1>2 DEF IsList
  <2> QED
    BY <1>1, <1>2, <2>1, <2>2
<1>6. \A i \in 1..n : s[i] = os[i]
  <2>1. \A i \in 1..n : SubSeq(s, 1, n)[i] = s[i]
    <3>1. s \in Seq(Range(s))
      BY <1>2 DEF IsList
    <3> QED
      BY <1>2, <1>5, <3>1
  <2>2. \A i \in 1..n : SubSeq(os, 1, n)[i] = os[i]
    BY <1>1, <1>3, <1>5
  <2> QED
    BY <1>3, <2>1, <2>2
<1>7. CASE n < l
  <2>1. Missing(g, v) = t
    BY <1>4, <1>7
  <2>2. /\ IsList(t) /\ Len(t) = l - n
        /\ \A i \in 1..(l - n) : t[i] = os[n + i]
    <3>1. \A i \in (n + 1)..l : os[i] \in X
      BY <1>1, <1>5
    <3>2. t \in Seq(X) /\ Len(t) = l - n /\ \A i \in 1..(l - n) : t[i] = os[n + i]
      BY <1>1, <1>4a, <1>5, <1>7, <3>1
    <3> QED
      BY <3>2, ListOf
  <2> DEFINE u == s \o t
  <2>3. /\ IsList(u) /\ Len(u) = n + (l - n)
        /\ \A i \in 1..(n + (l - n)) : u[i] = IF i <= n THEN s[i] ELSE t[i - n]
    BY <1>2, <2>2, ListConcat, SMTT(30)
  <2> HIDE DEF u
  <2>4. Len(u) = l /\ \A i \in 1..l : u[i] = os[i]
    <3>1. n + (l - n) = l
      BY <1>5
    <3>2. ASSUME NEW i \in 1..l
          PROVE  u[i] = os[i]
      <4>1. CASE i <= n
        <5>1. i \in 1..n
          BY <1>5, <4>1
        <5> QED
          BY <1>6, <2>3, <3>1, <4>1, <5>1
      <4>2. CASE ~(i <= n)
        <5>1. i - n \in 1..(l - n) /\ n + (i - n) = i
          BY <1>5, <4>2
        <5>2. t[i - n] = os[n + (i - n)]
          BY <2>2, <5>1
        <5> QED
          BY <2>3, <3>1, <4>2, <5>1, <5>2
      <4> QED
        BY <4>1, <4>2
    <3> QED
      BY <2>3, <3>1, <3>2
  <2>5. u = os
    BY <1>1, <2>3, <2>4, SameList
  <2> QED
    BY <2>1, <2>5 DEF u, s, os
<1>8. CASE ~(n < l)
  <2>1. n = l /\ Missing(g, v) = <<>>
    BY <1>3, <1>4, <1>5, <1>8
  <2>2. s = os
    BY <1>1, <1>2, <1>6, <2>1, SameList
  <2>3. s \o <<>> = s
    BY <1>2, EmptyList
  <2> QED
    BY <2>1, <2>2, <2>3 DEF s, os
<1> QED
  BY <1>7, <1>8

(* What the journal of an upgrade holds *)
Upgraded0(g, os) ==
  [db |-> g, invalid |-> {}, calls |-> <<comment("Automatic schema upgrade")>> \o os]

Begins(g, os, w) ==
  /\ IsCalls(w.calls) /\ Replayed(g, w.calls) = Replayed(g, os)
  /\ SchemaOf(w.calls) = SchemaOf(os)

(* An upgrade first writes a comment and the missing operations. *)
LEMMA BegunIs ==
  ASSUME NEW g, NEW os, IsCalls(os), g.ok = TRUE
  PROVE  Begins(g, os, Upgraded0(g, os))
<1> DEFINE c == comment("Automatic schema upgrade")
           t == <<c>>
           e == <<>>
<1>1. c.op = "comment"
  BY DEF comment
<1>2. IsCall(c)
  BY <1>1 DEF IsCall, InformationOps
<1>3. Executed(g, c) = g /\ WithSchema(e, c) = e
  BY <1>1 DEF Executed, WithSchema, SchemaOps
<1>4. Upgraded0(g, os).calls = t \o os
  BY DEF Upgraded0
<1>4a. t = Append(e, c)
  OBVIOUS
<1> HIDE DEF c
<1>5. IsCalls(t)
  BY <1>2, OneCall
<1>6. IsCalls(e)
  <2>1. e \in Seq({}) /\ Len(e) = 0
    OBVIOUS
  <2> HIDE DEF e
  <2>2. \A i \in 1..Len(e) : IsCall(e[i])
    BY <2>1
  <2> QED
    BY <2>1, <2>2, CallsOf
<1>6a. e = <<>> /\ t = <<c>>
  OBVIOUS
<1> HIDE DEF t
<1>7. Replayed(g, t) = g
  <2>1. Replayed(g, e) = g
    BY ReplayedNothing
  <2> HIDE DEF e
  <2>2. Replayed(g, t) = Executed(Replayed(g, e), c)
    BY <1>2, <1>4a, <1>6, ReplayedAppend
  <2> QED
    BY <1>3, <2>1, <2>2
<1>8. IsCalls(t \o os) /\ Replayed(g, t \o os) = Replayed(Replayed(g, t), os)
  BY <1>5, CallsConcat, ReplayedConcat
<1>9. SchemaOf(t \o os) = SchemaOf(os)
  <2>1. IsList(SchemaOf(os)) /\ SchemaOf(t \o os) = SchemaOf(t) \o SchemaOf(os)
    BY <1>5, SchemaConcat
  <2>2. SchemaOf(t) = e
    BY <1>3, <1>6a, SchemaOne DEF e, t
  <2>3. e \o SchemaOf(os) = SchemaOf(os)
    BY <2>1, EmptyList DEF e
  <2> QED
    BY <2>1, <2>2, <2>3
<1> QED
  BY <1>4, <1>7, <1>8, <1>9 DEF Begins

(* A database that reads an upgrade *)
ReadsUpgrade(g, v, d) == ReadsSoundly(d, v) /\ d.ok = TRUE /\ SameRows(g, d)

(* One more operation of the upgrade *)
LEMMA ReadsUpgradeStep ==
  ASSUME NEW g, NEW v, NEW d, ReadsUpgrade(g, v, d), NEW o, SchemaCall(v, o),
         NEW e, e = Executed(d, o)
  PROVE  ReadsUpgrade(g, v, e) /\ e.schema = Append(d.schema, o)
<1>1. ReadsSoundly(d, v) /\ d.ok = TRUE /\ SameRows(g, d) /\ IsStorage(d, v) /\ IsCall(o)
  BY SchemaCallIs DEF ReadsUpgrade, ReadsSoundly
<1>2. OtherCallOn(d, v, o)
  BY <1>1, SchemaCallIs DEF OtherCallOn
<1>3. e.ok = TRUE /\ SameRows(d, e) /\ e.schema = SchemaAfter(d, o)
  BY <1>2, OtherCall
<1>4. ReadsSoundly(e, v)
  BY <1>1, ExecutedSound
<1>5. SameRows(g, e)
  BY <1>1, <1>3 DEF SameRows
<1>6. e.schema = Append(d.schema, o)
  BY <1>3 DEF SchemaAfter, SchemaCall
<1> QED
  BY <1>3, <1>4, <1>5, <1>6 DEF ReadsUpgrade

(* A writer whose upgrade has come to a point of the schema *)
UpgradeAt(w, v, g, schema, part, known) ==
  /\ WriterAt(w, v) /\ Mirrored(w, v, g, schema) /\ SchemaOf(w.calls) = known
  /\ w.db.ok => w.invalid = {} /\ w.db.schema = part

(* The writer of an upgrade and a reader of what it writes end with the same *)
(* schema.                                                                   *)
LEMMA UpgradeRuns ==
  ASSUME NEW g, NEW v, ReadsSoundly(g, v), g.ok = TRUE, NEW os, IsCalls(os),
         \A i \in 1..Len(os) : SchemaCall(v, os[i]),
         NEW x, x = UpgradedInTurn(Upgraded0(g, os), os)
  PROVE  \E schema : UpgradeAt(x, v, g, schema, schema, os)
<1> DEFINE n == Len(os)
           begun == Upgraded0(g, os)
<1>0. n \in Nat /\ \A i \in 1..n : SchemaCall(v, os[i])
  BY CallsLen
<1>1. PICK d : /\ d[0] = g /\ d[n] = Replayed(g, os)
               /\ \A i \in 0..(n - 1) : d[i + 1] = Executed(d[i], os[i + 1])
  <2>1. PICK d : Replays(d, g, os)
    BY <1>0, ReplayedSteps
  <2> QED
    BY <2>1 DEF Replays
<1>2. PICK w : /\ w[0] = begun /\ w[n] = x
               /\ \A i \in 0..(n - 1) : w[i + 1] = UpgradeStep(w[i], os[i + 1])
  BY <1>0, UpgradeSteps
<1> HIDE DEF n
<1>3. \A i \in 0..n : ReadsUpgrade(g, v, d[i])
  <2> DEFINE S == {i \in 0..n : ReadsUpgrade(g, v, d[i])}
  <2>1. 0 \in S
    <3>1. ReadsUpgrade(g, v, g)
      BY DEF ReadsUpgrade, SameRows
    <3> QED
      BY <1>0, <1>1, <3>1
  <2>2. ASSUME NEW i \in 0..(n - 1), i \in S
        PROVE  i + 1 \in S
    <3> DEFINE a == d[i]
               b == d[i + 1]
               o == os[i + 1]
    <3>1. ReadsUpgrade(g, v, a) /\ b = Executed(a, o) /\ SchemaCall(v, o) /\ i + 1 \in 0..n
      BY <1>0, <1>1, <2>2
    <3> HIDE DEF a, b, o
    <3>2. ReadsUpgrade(g, v, b)
      BY <3>1, ReadsUpgradeStep
    <3> QED
      BY <3>1, <3>2 DEF b
  <2> HIDE DEF S
  <2>3. \A i \in 0..n : i \in S
    BY <1>0, <2>1, <2>2, InductionUpTo
  <2> QED
    BY <2>3 DEF S
<1> DEFINE schema == d[n].schema
<1>4. UpgradeAt(begun, v, g, schema, d[0].schema, os)
  <2>1. /\ begun = [db |-> g, invalid |-> {}, calls |-> begun.calls]
        /\ begun.db = g /\ begun.invalid = {}
    <3> DEFINE cs == <<comment("Automatic schema upgrade")>> \o os
    <3>1. begun = [db |-> g, invalid |-> {}, calls |-> cs]
      BY DEF Upgraded0
    <3> HIDE DEF cs, begun
    <3> QED
      BY <3>1
  <2>2. /\ IsCalls(begun.calls) /\ Replayed(g, begun.calls) = d[n]
        /\ SchemaOf(begun.calls) = os
    <3>1. Begins(g, os, begun)
      BY BegunIs
    <3>2. SchemaOf(os) = os
      BY SchemaOfSchema
    <3> HIDE DEF begun
    <3> QED
      BY <1>1, <3>1, <3>2 DEF Begins
  <2>3. ReadsUpgrade(g, v, d[n])
    BY <1>0, <1>3
  <2> HIDE DEF begun
  <2>4. WriterAt(begun, v)
    BY <2>1, <2>2 DEF WriterAt, ReadsSoundly
  <2>5. Agree(g, d[n], v, {})
    BY <2>3, AgreeSelf DEF ReadsUpgrade
  <2>6. Mirrored(begun, v, g, schema)
    BY <2>1, <2>2, <2>3, <2>5 DEF Mirrored, MirrorAt, ReadsUpgrade
  <2> QED
    BY <1>1, <2>1, <2>2, <2>4, <2>6 DEF UpgradeAt
<1> HIDE DEF schema, begun
<1> DEFINE S == {i \in 0..n : UpgradeAt(w[i], v, g, schema, d[i].schema, os)}
<1>5. 0 \in S
  BY <1>0, <1>2, <1>4
<1>6. ASSUME NEW i \in 0..(n - 1), i \in S
      PROVE  i + 1 \in S
  <2> DEFINE a == w[i]
             b == w[i + 1]
             o == os[i + 1]
             e == d[i]
             f == d[i + 1]
  <2>1. /\ UpgradeAt(a, v, g, schema, e.schema, os) /\ b = UpgradeStep(a, o) /\ SchemaCall(v, o)
        /\ ReadsUpgrade(g, v, e) /\ f = Executed(e, o) /\ i + 1 \in 0..n
    BY <1>0, <1>1, <1>2, <1>3, <1>6
  <2> HIDE DEF a, b, o, e, f
  <2>2. f.schema = Append(e.schema, o)
    BY <2>1, ReadsUpgradeStep
  <2>3. CASE ~a.db.ok
    <3>1. b = a
      BY <2>1, <2>3 DEF UpgradeStep
    <3>2. UpgradeAt(b, v, g, schema, f.schema, os)
      BY <2>1, <2>3, <3>1 DEF UpgradeAt
    <3> QED
      BY <2>1, <3>2 DEF b, f
  <2>4. CASE a.db.ok
    <3>1. /\ WriterAt(a, v) /\ a.db.ok = TRUE /\ a.invalid = {} /\ a.db.schema = e.schema
          /\ Mirrored(a, v, g, schema) /\ SchemaOf(a.calls) = os
      BY <2>1, <2>4 DEF UpgradeAt, WriterAt
    <3>2. /\ WriterAt(b, v) /\ b.db.schema = Append(a.db.schema, o)
          /\ b.db.ok => b.invalid = {}
          /\ KeptMirror(a, b, v) /\ SchemaOf(b.calls) = SchemaOf(a.calls)
      BY <2>1, <3>1, UpgradeStepKeeps, ZenonT(60)
    <3>3. UpgradeAt(b, v, g, schema, f.schema, os)
      BY <2>2, <3>1, <3>2 DEF UpgradeAt, KeptMirror
    <3> QED
      BY <2>1, <3>3 DEF b, f
  <2> QED
    BY <2>3, <2>4
<1> HIDE DEF S
<1>7. \A i \in 0..n : i \in S
  BY <1>0, <1>5, <1>6, InductionUpTo
<1>8. n \in S
  BY <1>0, <1>7
<1> QED
  BY <1>2, <1>8 DEF S, schema

(* An upgrade that does not throw leaves what a program reads in the file. *)
LEMMA UpgradeIs ==
  ASSUME NEW g, NEW v, ReadsSoundly(g, v), g.ok = TRUE, NEW u, u = auto_upgrade(g)
  PROVE  /\ WriterAt(u, v)
         /\ u.db.ok => /\ u.invalid = {} /\ u.db = Replayed(g, u.calls)
                       /\ SchemaOf(u.calls) = Missing(g, v)
<1>0. IsStorage(g, v) /\ HasSchema(g) /\ IndexesAt(g, v, {}) /\ g.version = v /\ v \in Versions
  BY StorageHas DEF ReadsSoundly
<1>1. CASE ~requires_schema_upgrade(g)
  <2> DEFINE e == <<>>
  <2>0. Replayed(g, e) = g
    BY ReplayedNothing
  <2>1. u = [db |-> g, invalid |-> {}, calls |-> e]
    BY <1>1 DEF auto_upgrade
  <2>2. e \in Seq({}) /\ Len(e) = 0
    OBVIOUS
  <2>2a. SchemaOf(e) = Missing(g, v)
    BY <1>0, <1>1, SchemaOne DEF requires_schema_upgrade, Missing
  <2> HIDE DEF e
  <2>3. \A i \in 1..Len(e) : IsCall(e[i])
    BY <2>2
  <2>4. IsCalls(e)
    BY <2>2, <2>3, CallsOf
  <2>5. u.db = g /\ u.invalid = {} /\ u.calls = e
    BY <2>1
  <2>6. WriterAt(u, v)
    BY <1>0, <2>1, <2>4, <2>5 DEF WriterAt
  <2> QED
    BY <2>0, <2>2a, <2>5, <2>6
<1>2. CASE requires_schema_upgrade(g)
  <2> DEFINE os == SubSeq(Schema[v], Len(g.schema) + 1, Len(Schema[v]))
             x == UpgradedInTurn(Upgraded0(g, os), os)
  <2>1. IsCalls(os) /\ \A i \in 1..Len(os) : SchemaCall(v, os[i])
    <3>1. Len(g.schema) < Len(Schema[v])
      BY <1>0, <1>2 DEF requires_schema_upgrade
    <3> QED
      BY <1>0, <3>1, MissingAre
  <2>2. u = EndUpgrade(x)
    BY <1>0, <1>2 DEF auto_upgrade, Upgraded0
  <2>3. x = UpgradedInTurn(Upgraded0(g, os), os)
    OBVIOUS
  <2>3a. Missing(g, v) = os
    BY <1>0, <1>2 DEF requires_schema_upgrade, Missing
  <2> HIDE DEF os, x
  <2>4. PICK schema : UpgradeAt(x, v, g, schema, schema, os)
    BY <2>1, <2>3, UpgradeRuns
  <2>5. WriterAt(x, v) /\ Mirrored(x, v, g, schema) /\ SchemaOf(x.calls) = os
    BY <2>4 DEF UpgradeAt
  <2>6. CASE ~x.db.ok
    <3>1. u = x
      BY <2>2, <2>6 DEF EndUpgrade
    <3> QED
      BY <2>5, <2>6, <3>1
  <2>7. CASE x.db.ok
    <3> DEFINE m == Replayed(g, x.calls)
               calls == Append(x.calls, valid_data)
               o == valid_data
    <3>1. /\ x = [db |-> x.db, calls |-> x.calls, invalid |-> x.invalid]
          /\ IsStorage(x.db, v) /\ HasSchema(x.db) /\ x.db.ok = TRUE
          /\ IndexesAt(x.db, v, x.invalid) /\ IsCalls(x.calls)
          /\ x.invalid = {} /\ x.db.schema = schema
      BY <2>4, <2>5, <2>7 DEF WriterAt, UpgradeAt
    <3>2. /\ IsStorage(m, v) /\ m.ok = TRUE /\ m.schema = schema /\ Agree(x.db, m, v, {})
          /\ IndexesAt(m, v, {})
      BY <2>5, <3>1 DEF Mirrored, MirrorAt, ReadsSoundly
    <3>3. u = [x EXCEPT !.calls = calls]
      BY <2>2, <2>7 DEF EndUpgrade
    <3>4. u = [db |-> x.db, calls |-> calls, invalid |-> x.invalid]
      BY <3>1, <3>3
    <3>5. o.op = "valid_data" /\ calls = Append(x.calls, o)
      BY DEF valid_data
    <3>6. m = Replayed(g, x.calls)
      OBVIOUS
    <3> HIDE DEF m, calls, o
    <3>7. IsCall(o) /\ Executed(m, o) = m /\ WithSchema(os, o) = os
      <4>1. IsCall(o)
        BY <3>5 DEF IsCall, InformationOps
      <4>2. Executed(m, o) = m
        BY <3>2, <3>5 DEF Executed, SchemaOps
      <4>3. WithSchema(os, o) = os
        BY <3>5 DEF WithSchema, SchemaOps
      <4> QED
        BY <4>1, <4>2, <4>3
    <3>8. IsCalls(calls) /\ Replayed(g, calls) = m
      BY <3>1, <3>5, <3>6, <3>7, ReplayedAppend
    <3>8a. SchemaOf(calls) = os
      BY <2>5, <3>1, <3>5, <3>7, SchemaAppend
    <3>9. x.db = m
      <4> DEFINE y == x.db
      <4>1. /\ IsStorage(y, v) /\ IndexesAt(y, v, {}) /\ Agree(y, m, v, {})
            /\ y.schema = m.schema /\ y.ok = m.ok
        BY <3>1, <3>2
      <4> HIDE DEF y
      <4>2. y = m
        BY <3>2, <4>1, AgreeEqual
      <4> QED
        BY <4>2 DEF y
    <3>10. u.db = x.db /\ u.calls = calls /\ u.invalid = x.invalid
      BY <3>4
    <3>11. WriterAt(u, v)
      BY <3>1, <3>4, <3>8, <3>10 DEF WriterAt
    <3> QED
      BY <2>3a, <3>1, <3>8, <3>8a, <3>9, <3>10, <3>11
  <2> QED
    BY <2>6, <2>7
<1> QED
  BY <1>1, <1>2

(* An upgrade that does not throw leaves the schema of the program in the    *)
(* file, if the schema of the file was a part of it.                         *)
LEMMA UpgradeCompletes ==
  ASSUME NEW g, NEW v, ReadsSoundly(g, v), g.ok = TRUE, NEW u, u = auto_upgrade(g),
         u.db.ok, SchemaIsCompatible(g)
  PROVE  /\ IsCalls(u.calls) /\ u.db.schema = g.schema \o SchemaOf(u.calls)
         /\ u.db.schema = Schema[v]
<1>1. /\ WriterAt(u, v) /\ u.db = Replayed(g, u.calls) /\ SchemaOf(u.calls) = Missing(g, v)
  BY UpgradeIs
<1>2. IsCalls(u.calls)
  BY <1>1 DEF WriterAt
<1>3. u.db.schema = g.schema \o SchemaOf(u.calls)
  <2> DEFINE h == u.db
             os == u.calls
  <2>1. IsCalls(os) /\ h = Replayed(g, os) /\ h.ok
    BY <1>1, <1>2
  <2> HIDE DEF h, os
  <2>2. h.schema = g.schema \o SchemaOf(os)
    BY <2>1, ReplayedSchema
  <2> QED
    BY <2>2 DEF h, os
<1>4. g.schema \o Missing(g, v) = Schema[v]
  <2>1. HasSchema(g) /\ g.version = v /\ v \in Versions
    BY StorageHas DEF ReadsSoundly
  <2> QED
    BY <2>1, MissingCompletes
<1> QED
  BY <1>1, <1>2, <1>3, <1>4
-----------------------------------------------------------------------------
(***************************************************************************)
(* The programs and the file.                                              *)
(***************************************************************************)

IsProgram(x, os) ==
  /\ x = [state |-> x.state, db |-> x.db, position |-> x.position,
          schema_checkpoint |-> x.schema_checkpoint]
  /\ x.position \in 0..Len(os)

(* A program whose database is what the journal says of it *)
Reads(x, v, os) == x.db = Replayed(NewStorage(v), SubSeq(os, 1, x.position))

ProgramsInv ==
  /\ programs = [p \in Programs |-> programs[p]]
  /\ \A p \in Programs : IsProgram(programs[p], log)
  /\ \A p \in Programs \ {holder} : ReadsSoundly(programs[p].db, VersionOf[p])

HolderInv ==
  /\ holder \in Writers \union {Nobody}
  /\ holder = Nobody => pending = <<>> /\ invalid = {}
  /\ holder # Nobody =>
       /\ programs[holder].state = "open" /\ programs[holder].db.ok = TRUE
       /\ WriterAt(Writer(holder), VersionOf[holder])

(* The indexes of all the programs are sound, whatever their users repair. *)
GeneratedInv == IsCalls(log) /\ ProgramsInv /\ HolderInv

(* When an update that failed is repaired before anything else, the programs *)
(* hold what the journal says.                                               *)
ReplayInv ==
  /\ \A p \in Programs \ {holder} : Reads(programs[p], VersionOf[p], log)
  /\ holder # Nobody =>
       Mirrored(Writer(holder), VersionOf[holder],
                Replayed(NewStorage(VersionOf[holder]), log), programs[holder].db.schema)

(* What a program has read of the schema is what its part of the file holds, *)
KnowsFile(x, os) == x.db.ok = TRUE => x.db.schema = SchemaOf(SubSeq(os, 1, x.position))

Continues(s, t) == Len(t) <= Len(s) /\ \A i \in 1..Len(t) : s[i] = t[i]

(* and an open program has found its own schema there, at least.             *)
HasOwnSchema(x, v) ==
  x.state = "open" /\ x.db.ok = TRUE =>
    x.schema_checkpoint = Len(Schema[v]) /\ Continues(x.db.schema, Schema[v])

(* The schema of the file is exactly that of the program that writes, whose  *)
(* calls are about rows only.                                                *)
SchemaInv ==
  /\ \A p \in Programs : HasOwnSchema(programs[p], VersionOf[p])
  /\ \A p \in Programs \ {holder} : KnowsFile(programs[p], log)
  /\ holder # Nobody =>
       /\ programs[holder].db.schema = Schema[VersionOf[holder]]
       /\ SchemaOf(log) = Schema[VersionOf[holder]] /\ SchemaOf(pending) = <<>>

(* The whole of a journal *)
LEMMA WholeIs ==
  ASSUME NEW os, IsCalls(os), NEW n, n = Len(os)
  PROVE  SubSeq(os, 1, n) = os
<1>1. n \in 0..Len(os) /\ n \in Nat
  BY CallsLen
<1> DEFINE s == SubSeq(os, 1, n)
<1>2. IsCalls(s) /\ Len(s) = n /\ \A i \in 1..n : s[i] = os[i]
  BY <1>1, CallsPrefix
<1> HIDE DEF s
<1>3. s = os
  BY <1>2, CallsSame
<1> QED
  BY <1>3 DEF s

(* An empty journal *)
LEMMA NoCalls ==
  ASSUME NEW os, os = <<>>
  PROVE  IsCalls(os) /\ Len(os) = 0
<1>1. os \in Seq({}) /\ Len(os) = 0
  OBVIOUS
<1>2. \A i \in 1..Len(os) : IsCall(os[i])
  BY <1>1
<1> QED
  BY <1>1, <1>2, CallsOf

(* A program that has read nothing *)
LEMMA NothingRead ==
  ASSUME NEW os, IsCalls(os)
  PROVE  SubSeq(os, 1, 0) = <<>>
<1> DEFINE n == 0
           s == SubSeq(os, 1, n)
           e == <<>>
<1>1. n \in 0..Len(os) /\ n = 0
  BY CallsLen
<1>2. IsCalls(e) /\ Len(e) = 0
  BY NoCalls
<1> HIDE DEF n
<1>3. IsCalls(s) /\ Len(s) = n
  BY <1>1, CallsPrefix
<1> HIDE DEF s, e
<1>4. s = e
  <2>1. \A i \in 1..Len(s) : s[i] = e[i]
    BY <1>1, <1>3
  <2> QED
    BY <1>1, <1>2, <1>3, <2>1, CallsSame
<1> QED
  BY <1>4 DEF s, e, n

(* A program that has closed, or not started *)
LEMMA ClosedIs ==
  ASSUME NEW p \in Programs, IsCalls(log), NEW x, x = Closed(p)
  PROVE  /\ IsProgram(x, log) /\ ReadsSoundly(x.db, VersionOf[p])
         /\ Reads(x, VersionOf[p], log)
<1> DEFINE v == VersionOf[p]
           g == NewStorage(v)
           c == "closed"
           n == 0
<1>1. v \in Versions /\ g = NewStorage(v)
  BY ProgramAssumption
<1>2. x = [state |-> c, db |-> g, position |-> n, schema_checkpoint |-> n]
  BY DEF Closed
<1>3. n \in 0..Len(log)
  BY CallsLen
<1>4. SubSeq(log, 1, n) = <<>>
  BY NothingRead
<1> HIDE DEF v, g, c, n
<1>5. x.db = g /\ x.position = n /\ x.state = c /\ x.schema_checkpoint = n
  BY <1>2
<1>6. IsProgram(x, log)
  BY <1>2, <1>3, <1>5 DEF IsProgram
<1>7. IsStorage(g, v) /\ g.ok = TRUE /\ g.schema = <<>>
  BY <1>1, NewStorageIs
<1>8. HasSchema(g)
  BY <1>7 DEF HasSchema, Range
<1>9. IndexesAt(g, v, {})
  <2>1. \A i \in IndexesOf(v) : g.index[i] = {}
    BY <1>1, NewStorageIs
  <2>2. \A t \in TablesOf(v) : Keeper(g, t) = NewKeeper
    BY <1>1, NewStorageIs
  <2>3. \A r \in Nat : ~IsUsed(NewKeeper, r)
    BY DenseIsKeeper DEF NewKeeper, Dense
  <2>4. \A i \in IndexesOf(v) : TableOf(v, i) \in TablesOf(v)
    BY <1>7, StorageHas
  <2>5. \A i \in IndexesOf(v) : \A r : ~Entered(g, v, i, r)
    BY <2>2, <2>3, <2>4 DEF Entered
  <2> QED
    BY <2>1, <2>5 DEF IndexesAt, IndexAt
<1>10. ReadsSoundly(g, v)
  BY <1>7, <1>8, <1>9 DEF ReadsSoundly
<1>11. Replayed(g, <<>>) = g
  BY ReplayedNothing
<1>12. Reads(x, v, log)
  BY <1>1, <1>4, <1>5, <1>11 DEF Reads
<1> QED
  BY <1>5, <1>6, <1>10, <1>12 DEF v

(* A program that has played the journal *)
LEMMA PlayedIs ==
  ASSUME GeneratedInv, NEW p \in Programs, p # holder, NEW y, y = Played(p)
  PROVE  /\ IsProgram(y, log) /\ ReadsSoundly(y.db, VersionOf[p])
         /\ y.position = Len(log) /\ y.state = programs[p].state
         /\ Reads(programs[p], VersionOf[p], log) =>
              /\ y.db = Replayed(NewStorage(VersionOf[p]), log)
              /\ Reads(y, VersionOf[p], log)
<1> DEFINE x == programs[p]
           v == VersionOf[p]
           n == x.position
           l == Len(log)
           s == SubSeq(log, 1, n)
           t == SubSeq(log, n + 1, l)
           d == Replayed(x.db, t)
<1>1. IsCalls(log) /\ IsProgram(x, log) /\ ReadsSoundly(x.db, v)
  BY DEF GeneratedInv, ProgramsInv
<1>2. y = [x EXCEPT !.db = d, !.position = l]
  BY DEF Played
<1>3. n \in 0..l /\ l \in Nat
  BY <1>1, CallsLen DEF IsProgram
<1>4. IsCalls(t) /\ s \o t = log
  BY <1>1, <1>3, CallsRest
<1>5. IsCalls(s) /\ IsCalls(t)
  BY <1>1, <1>3, <1>4, CallsPrefix
<1>6. d = Replayed(x.db, t) /\ l = Len(log)
  OBVIOUS
<1>7. SubSeq(log, 1, l) = log
  BY <1>1, WholeIs
<1>8. Reads(x, v, log) => x.db = Replayed(NewStorage(v), s)
  BY DEF Reads
<1> HIDE DEF x, v, d, l, s, t, n
<1>9. /\ y = [state |-> x.state, db |-> d, position |-> l, schema_checkpoint |-> x.schema_checkpoint]
  BY <1>1, <1>2 DEF IsProgram
<1>10. /\ y.db = d /\ y.position = l /\ y.state = x.state
       /\ y.schema_checkpoint = x.schema_checkpoint
  BY <1>9
<1>11. IsProgram(y, log)
  BY <1>3, <1>6, <1>9, <1>10 DEF IsProgram
<1>12. ReadsSoundly(d, v)
  BY <1>1, <1>4, <1>6, ReplayedSound
<1>13. ASSUME Reads(x, v, log)
       PROVE  y.db = Replayed(NewStorage(v), log) /\ Reads(y, v, log)
  <2> DEFINE g == NewStorage(v)
  <2> HIDE DEF g
  <2>1. Replayed(g, s \o t) = Replayed(Replayed(g, s), t)
    BY <1>5, ReplayedConcat
  <2>2. x.db = Replayed(g, s)
    BY <1>8, <1>13 DEF g
  <2>3. y.db = Replayed(g, log)
    BY <1>4, <1>6, <1>10, <2>1, <2>2
  <2>4. Reads(y, v, log)
    BY <1>7, <1>10, <2>3 DEF Reads, g
  <2> QED
    BY <2>3, <2>4 DEF g
<1> QED
  BY <1>6, <1>10, <1>11, <1>12, <1>13 DEF x, v
-----------------------------------------------------------------------------
(***************************************************************************)
(* The steps of the programs.                                              *)
(***************************************************************************)

(* A program that holds no transaction moves, and the file may grow. *)
Moves(p, x, more) ==
  /\ IsCalls(more) /\ log' = log \o more
  /\ programs' = [programs EXCEPT ![p] = x]
  /\ IsProgram(x, log') /\ ReadsSoundly(x.db, VersionOf[p])
  /\ holder' = holder /\ pending' = pending /\ invalid' = invalid

(* What the programs have read of a journal is still there when it grows. *)
LEMMA GrownLog ==
  ASSUME IsCalls(log), NEW more, IsCalls(more), NEW l, l = log \o more
  PROVE  /\ IsCalls(l) /\ Len(l) \in Nat /\ Len(log) \in Nat /\ Len(l) >= Len(log)
         /\ \A x : IsProgram(x, log) => IsProgram(x, l)
         /\ \A x, v : IsProgram(x, log) /\ Reads(x, v, log) => Reads(x, v, l)
<1>1. IsCalls(l)
  BY CallsConcat
<1>2. Len(l) = Len(log) + Len(more) /\ \A n \in 0..Len(log) : SubSeq(l, 1, n) = SubSeq(log, 1, n)
  <2>1. 0 \in 0..Len(log)
    BY CallsLen
  <2>2. Len(log \o more) = Len(log) + Len(more)
    BY <2>1, CallsPrefixConcat
  <2>3. \A n \in 0..Len(log) : SubSeq(log \o more, 1, n) = SubSeq(log, 1, n)
    BY CallsPrefixConcat
  <2> QED
    BY <2>2, <2>3
<1>3. Len(log) \in Nat /\ Len(more) \in Nat
  BY CallsLen
<1>4. Len(l) \in Nat /\ Len(l) >= Len(log)
  BY <1>2, <1>3
<1>5. \A n \in 0..Len(log) : n \in 0..Len(l)
  BY <1>3, <1>4
<1>6. \A x : IsProgram(x, log) => IsProgram(x, l)
  BY <1>5 DEF IsProgram
<1>7. \A x, v : IsProgram(x, log) /\ Reads(x, v, log) => Reads(x, v, l)
  BY <1>2 DEF IsProgram, Reads
<1> QED
  BY <1>1, <1>3, <1>4, <1>6, <1>7

(* Such a move keeps the invariants. *)
LEMMA MovesKeeps ==
  ASSUME GeneratedInv, NEW p \in Programs, p # holder, NEW x, NEW more, Moves(p, x, more)
  PROVE  /\ GeneratedInv'
         /\ ReplayInv /\ Reads(x, VersionOf[p], log') /\ (holder = Nobody \/ log' = log)
              => ReplayInv'
<1>1. /\ IsCalls(more) /\ log' = log \o more
      /\ programs' = [programs EXCEPT ![p] = x]
      /\ IsProgram(x, log') /\ ReadsSoundly(x.db, VersionOf[p])
      /\ holder' = holder /\ pending' = pending /\ invalid' = invalid
  BY DEF Moves
<1>2. IsCalls(log) /\ ProgramsInv /\ HolderInv
  BY DEF GeneratedInv
<1>3. /\ IsCalls(log') /\ \A y : IsProgram(y, log) => IsProgram(y, log')
      /\ \A y, v : IsProgram(y, log) /\ Reads(y, v, log) => Reads(y, v, log')
  BY <1>1, <1>2, GrownLog
<1>4. /\ programs' = [q \in Programs |-> programs'[q]]
      /\ programs'[p] = x /\ \A q \in Programs : q # p => programs'[q] = programs[q]
  BY <1>1, <1>2 DEF ProgramsInv
<1>5. ProgramsInv'
  <2>1. \A q \in Programs : IsProgram(programs'[q], log')
    BY <1>1, <1>2, <1>3, <1>4 DEF ProgramsInv
  <2>2. \A q \in Programs \ {holder} : ReadsSoundly(programs'[q].db, VersionOf[q])
    BY <1>1, <1>2, <1>4 DEF ProgramsInv
  <2> QED
    BY <1>1, <1>4, <2>1, <2>2 DEF ProgramsInv
<1>6. holder # Nobody => holder \in Programs /\ programs'[holder] = programs[holder]
  BY <1>2, <1>4 DEF HolderInv, Programs
<1>7. holder # Nobody => Writer(holder)' = Writer(holder)
  BY <1>1, <1>6 DEF Writer
<1>8. HolderInv'
  BY <1>1, <1>2, <1>6, <1>7 DEF HolderInv, Writer
<1>9. ASSUME ReplayInv, Reads(x, VersionOf[p], log'), holder = Nobody \/ log' = log
      PROVE  ReplayInv'
  <2>1. \A q \in Programs \ {holder} : Reads(programs'[q], VersionOf[q], log')
    BY <1>2, <1>3, <1>4, <1>9 DEF ReplayInv, ProgramsInv
  <2>2. ASSUME holder # Nobody
        PROVE  Mirrored(Writer(holder)', VersionOf[holder],
                 Replayed(NewStorage(VersionOf[holder]), log'), programs'[holder].db.schema)
    BY <1>6, <1>7, <1>9, <2>2 DEF ReplayInv
  <2> QED
    BY <1>1, <2>1, <2>2 DEF ReplayInv, Writer
<1> QED
  BY <1>3, <1>5, <1>8, <1>9 DEF GeneratedInv

(* A journal followed by nothing *)
LEMMA NothingMore ==
  ASSUME NEW os, IsCalls(os), NEW e, e = <<>>
  PROVE  os \o e = os /\ IsCalls(e)
<1> DEFINE X == Range(os)
           t == os \o e
<1>1. os \in Seq(X) /\ IsCalls(e)
  BY NoCalls DEF IsCalls
<1> HIDE DEF X
<1>2. e \in Seq(X) /\ Len(e) = 0
  OBVIOUS
<1>3. /\ t \in Seq(X) /\ Len(t) = Len(os) + Len(e) /\ Len(os) \in Nat
      /\ \A i \in 1..(Len(os) + Len(e)) : t[i] = IF i <= Len(os) THEN os[i] ELSE e[i - Len(os)]
  BY <1>1, <1>2, ConcatIs
<1> HIDE DEF t
<1>4. Len(t) = Len(os) /\ \A i \in 1..Len(t) : t[i] = os[i]
  BY <1>2, <1>3
<1>5. t = os
  BY <1>1, <1>3, <1>4, SameSeq
<1> QED
  BY <1>1, <1>5 DEF t

(* A new state, and a new checkpoint of the schema *)
IsRelabelled(x, y, s, c) ==
  \/ x = [y EXCEPT !.state = s]
  \/ x = [y EXCEPT !.state = s, !.schema_checkpoint = c]

(* The database and the position are the same under a new state. *)
LEMMA Relabelled ==
  ASSUME NEW y, NEW os, IsProgram(y, os), NEW s, NEW c, NEW x, IsRelabelled(x, y, s, c)
  PROVE  IsProgram(x, os) /\ x.db = y.db /\ x.position = y.position
<1>1. /\ y = [state |-> y.state, db |-> y.db, position |-> y.position,
              schema_checkpoint |-> y.schema_checkpoint]
      /\ y.position \in 0..Len(os)
  BY DEF IsProgram
<1>2. \/ x = [state |-> s, db |-> y.db, position |-> y.position,
              schema_checkpoint |-> y.schema_checkpoint]
      \/ x = [state |-> s, db |-> y.db, position |-> y.position, schema_checkpoint |-> c]
  BY <1>1 DEF IsRelabelled
<1>3. x.db = y.db /\ x.position = y.position /\ x.state = s
  BY <1>2
<1>4. x = [state |-> x.state, db |-> x.db, position |-> x.position,
           schema_checkpoint |-> x.schema_checkpoint]
  BY <1>2
<1> QED
  BY <1>1, <1>3, <1>4 DEF IsProgram

StepKeeps == GeneratedInv' /\ (ReplayInv => ReplayInv')

(* A program that has played the file, and that does nothing else *)
LEMMA PlaysKeeps ==
  ASSUME GeneratedInv, NEW p \in Programs, p # holder, NEW x, NEW s, NEW c,
         IsRelabelled(x, Played(p), s, c),
         programs' = [programs EXCEPT ![p] = x], log' = log,
         holder' = holder, pending' = pending, invalid' = invalid
  PROVE  StepKeeps
<1> DEFINE y == Played(p)
           v == VersionOf[p]
           e == <<>>
<1>1. y = Played(p) /\ v = VersionOf[p]
  OBVIOUS
<1>2. IsRelabelled(x, y, s, c) /\ log' = log
  OBVIOUS
<1>3. IsCalls(log)
  BY DEF GeneratedInv
<1>4. log \o e = log /\ IsCalls(e)
  BY <1>3, NothingMore
<1> HIDE DEF y, v, e
<1>5. IsProgram(y, log) /\ ReadsSoundly(y.db, v)
  BY <1>1, PlayedIs
<1>6. Reads(programs[p], v, log) => Reads(y, v, log)
  BY <1>1, PlayedIs
<1>7. IsProgram(x, log) /\ x.db = y.db /\ x.position = y.position
  BY <1>2, <1>5, Relabelled
<1>8. Moves(p, x, e)
  BY <1>1, <1>2, <1>4, <1>5, <1>7 DEF Moves
<1>9. GeneratedInv'
  BY <1>8, MovesKeeps
<1>10. ASSUME ReplayInv
       PROVE  ReplayInv'
  <2>1. Reads(programs[p], v, log)
    BY <1>1, <1>10 DEF ReplayInv
  <2>2. Reads(x, v, log')
    BY <1>2, <1>6, <1>7, <2>1 DEF Reads
  <2> QED
    BY <1>1, <1>2, <1>8, <1>10, <2>2, MovesKeeps
<1> QED
  BY <1>9, <1>10 DEF StepKeeps

(* The constructor of Client *)
LEMMA ConstructKeeps ==
  ASSUME GeneratedInv, NEW p \in Programs, Construct(p)
  PROVE  StepKeeps
<1> DEFINE x == [Played(p) EXCEPT !.state = "constructed"]
<1>1. /\ programs' = [programs EXCEPT ![p] = x] /\ programs[p].state = "closed"
      /\ log' = log /\ holder' = holder /\ pending' = pending /\ invalid' = invalid
  BY DEF Construct
<1>2. p # holder
  BY <1>1, ProgramAssumption DEF GeneratedInv, HolderInv
<1>3. IsRelabelled(x, Played(p), "constructed", 0)
  BY DEF IsRelabelled
<1> HIDE DEF x
<1> QED
  BY <1>1, <1>2, <1>3, PlaysKeeps

(* The constructor of Readonly_Client *)
LEMMA OpenReadonlyKeeps ==
  ASSUME GeneratedInv, NEW p \in Programs, OpenReadonly(p)
  PROVE  StepKeeps
<1>1. /\ programs[p].state = "closed"
      /\ log' = log /\ holder' = holder /\ pending' = pending /\ invalid' = invalid
      /\ \/ programs' = [programs EXCEPT ![p] =
              [Played(p) EXCEPT !.state = "open",
                                !.schema_checkpoint = Len(Played(p).db.schema)]]
         \/ programs' = [programs EXCEPT ![p] = [Played(p) EXCEPT !.state = "failed"]]
  BY DEF OpenReadonly
<1>2. p # holder
  BY <1>1, ProgramAssumption DEF GeneratedInv, HolderInv
<1>3. CASE programs' = [programs EXCEPT ![p] = [Played(p) EXCEPT !.state = "failed"]]
  <2> DEFINE x == [Played(p) EXCEPT !.state = "failed"]
  <2>1. IsRelabelled(x, Played(p), "failed", 0) /\ programs' = [programs EXCEPT ![p] = x]
    BY <1>3 DEF IsRelabelled
  <2> HIDE DEF x
  <2> QED
    BY <1>1, <1>2, <2>1, PlaysKeeps
<1>4. CASE programs' = [programs EXCEPT ![p] =
              [Played(p) EXCEPT !.state = "open",
                                !.schema_checkpoint = Len(Played(p).db.schema)]]
  <2> DEFINE c == Len(Played(p).db.schema)
             x == [Played(p) EXCEPT !.state = "open", !.schema_checkpoint = c]
  <2>1. IsRelabelled(x, Played(p), "open", c) /\ programs' = [programs EXCEPT ![p] = x]
    BY <1>4 DEF IsRelabelled
  <2> HIDE DEF x, c
  <2> QED
    BY <1>1, <1>2, <2>1, PlaysKeeps
<1> QED
  BY <1>1, <1>3, <1>4

(* pull *)
LEMMA PullKeeps ==
  ASSUME GeneratedInv, NEW p \in Programs, Pull(p)
  PROVE  StepKeeps
<1> DEFINE s == IF Played(p).db.ok THEN "open" ELSE "failed"
           x == [Played(p) EXCEPT !.state = s]
<1>1. /\ p \in Writers => holder = Nobody
      /\ log' = log /\ holder' = holder /\ pending' = pending /\ invalid' = invalid
      /\ programs' = [programs EXCEPT ![p] = x] /\ IsRelabelled(x, Played(p), s, 0)
  BY DEF Pull, IsRelabelled
<1>2. p # holder
  BY <1>1, ProgramAssumption DEF GeneratedInv, HolderInv
<1> HIDE DEF x, s
<1> QED
  BY <1>1, <1>2, PlaysKeeps

(* The upgrade of a file *)
Upgrading(p, y, u, more, x) ==
  /\ y = Played(p) /\ u = auto_upgrade(y.db) /\ log' = log \o more
  /\ programs' = [programs EXCEPT ![p] = x]
  /\ \/ /\ y.db.ok = TRUE /\ u.db.ok = TRUE /\ more = u.calls /\ SchemaIsCompatible(y.db)
        /\ x = [state |-> "open", db |-> u.db, position |-> Len(log'),
                schema_checkpoint |-> Len(u.db.schema)]
     \/ /\ y.db.ok = TRUE /\ u.db.ok = TRUE /\ more = u.calls /\ SchemaIsCompatible(y.db)
        /\ x = [y EXCEPT !.state = "failed"]
     \/ more = <<>> /\ x = [y EXCEPT !.state = "failed"]

(* The first transaction of a Client is such an upgrade. *)
LEMMA InitializeUpgrades ==
  ASSUME GeneratedInv, NEW p \in Programs, p # holder, Initialize(p)
  PROVE  \E y, u, more, x : Upgrading(p, y, u, more, x)
<1> DEFINE y == Played(p)
           u == auto_upgrade(y.db)
           c == Len(u.db.schema)
<1>1. Upgraded(p, y, u)
  BY DEF Initialize
<1>2. y = Played(p) /\ u = auto_upgrade(y.db) /\ IsCalls(log)
  BY DEF GeneratedInv
<1>3. y.db.ok \in BOOLEAN
  BY PlayedIs DEF ReadsSoundly
<1>4. y.db.ok = TRUE => u.db.ok \in BOOLEAN
  <2>1. ReadsSoundly(y.db, VersionOf[p])
    BY PlayedIs
  <2> DEFINE g == y.db
  <2>2. ReadsSoundly(g, VersionOf[p]) /\ u = auto_upgrade(g)
    BY <2>1
  <2> HIDE DEF g, u, y
  <2>3. g.ok = TRUE => WriterAt(u, VersionOf[p])
    BY <2>2, UpgradeIs
  <2> QED
    BY <2>3 DEF WriterAt, g
<1> HIDE DEF y, u, c
<1> DEFINE written == y.db.ok /\ SchemaIsCompatible(y.db) /\ u.db.ok
<1>5. /\ log' = IF written THEN log \o u.calls ELSE log
      /\ programs' = [programs EXCEPT ![p] =
           IF written /\ check_single_row(u.db)
           THEN [state |-> "open", db |-> u.db, position |-> Len(log'), schema_checkpoint |-> c]
           ELSE [y EXCEPT !.state = "failed"]]
  BY <1>1 DEF Upgraded, c
<1>6. written => y.db.ok = TRUE /\ u.db.ok = TRUE /\ SchemaIsCompatible(y.db)
  BY <1>3, <1>4
<1> HIDE DEF written
<1>7. CASE ~written
  <2> DEFINE e == <<>>
             x == [y EXCEPT !.state = "failed"]
  <2>1. log \o e = log
    BY <1>2, NothingMore
  <2>2. log' = log /\ programs' = [programs EXCEPT ![p] = x]
    BY <1>5, <1>7
  <2>3. e = <<>> /\ x = [y EXCEPT !.state = "failed"]
    OBVIOUS
  <2> HIDE DEF e, x
  <2>4. Upgrading(p, y, u, e, x)
    BY <1>2, <2>1, <2>2, <2>3 DEF Upgrading
  <2> QED
    BY <2>4
<1>8. CASE written
  <2> DEFINE more == u.calls
  <2>1. log' = log \o more /\ more = u.calls
    BY <1>5, <1>8
  <2>2. CASE check_single_row(u.db)
    <3> DEFINE x == [state |-> "open", db |-> u.db, position |-> Len(log'),
                     schema_checkpoint |-> Len(u.db.schema)]
    <3>1. programs' = [programs EXCEPT ![p] = x]
      BY <1>5, <1>8, <2>2 DEF c
    <3>2. x = [state |-> "open", db |-> u.db, position |-> Len(log'),
               schema_checkpoint |-> Len(u.db.schema)]
      OBVIOUS
    <3> HIDE DEF more, x
    <3>3. Upgrading(p, y, u, more, x)
      BY <1>2, <1>6, <1>8, <2>1, <3>1, <3>2 DEF Upgrading
    <3> QED
      BY <3>3
  <2>3. CASE ~check_single_row(u.db)
    <3> DEFINE x == [y EXCEPT !.state = "failed"]
    <3>1. programs' = [programs EXCEPT ![p] = x] /\ x = [y EXCEPT !.state = "failed"]
      BY <1>5, <1>8, <2>3
    <3> HIDE DEF more, x
    <3>2. Upgrading(p, y, u, more, x)
      BY <1>2, <1>6, <1>8, <2>1, <3>1 DEF Upgrading
    <3> QED
      BY <3>2
  <2> QED
    BY <2>2, <2>3
<1> QED
  BY <1>7, <1>8

(* What an upgrade writes: the program that writes it holds what the file    *)
(* says then.                                                                *)
LEMMA UpgradingIs ==
  ASSUME GeneratedInv, NEW p \in Programs, p # holder,
         NEW y, NEW u, NEW more, NEW x, Upgrading(p, y, u, more, x)
  PROVE  /\ IsCalls(more) /\ IsProgram(x, log') /\ ReadsSoundly(x.db, VersionOf[p])
         /\ Reads(programs[p], VersionOf[p], log) => Reads(x, VersionOf[p], log')
<1> DEFINE v == VersionOf[p]
           g == y.db
           l == log'
           n == Len(l)
<1>1. /\ y = Played(p) /\ u = auto_upgrade(g) /\ l = log \o more
      /\ g = y.db /\ n = Len(l) /\ IsCalls(log) /\ v = VersionOf[p]
  BY DEF Upgrading, GeneratedInv
<1>2. IsProgram(y, log) /\ ReadsSoundly(g, v)
  BY <1>1, PlayedIs
<1>3. Reads(programs[p], v, log) => g = Replayed(NewStorage(v), log) /\ Reads(y, v, log)
  BY <1>1, PlayedIs
<1>4. \/ /\ g.ok = TRUE /\ u.db.ok = TRUE /\ more = u.calls
         /\ x = [state |-> "open", db |-> u.db, position |-> n,
                 schema_checkpoint |-> Len(u.db.schema)]
      \/ /\ g.ok = TRUE /\ u.db.ok = TRUE /\ more = u.calls
         /\ x = [y EXCEPT !.state = "failed"]
      \/ more = <<>> /\ x = [y EXCEPT !.state = "failed"]
  BY DEF Upgrading
<1> HIDE DEF v, g, l, n
<1>5. g.ok = TRUE /\ u.db.ok = TRUE => WriterAt(u, v) /\ u.invalid = {} /\ u.db = Replayed(g, u.calls)
  BY <1>1, <1>2, UpgradeIs
<1>6. IsCalls(more)
  <2>1. CASE more = <<>>
    BY <2>1, NoCalls
  <2>2. CASE g.ok = TRUE /\ u.db.ok = TRUE /\ more = u.calls
    BY <1>5, <2>2 DEF WriterAt
  <2> QED
    BY <1>4, <2>1, <2>2
<1>7. /\ IsCalls(l) /\ n \in Nat /\ (IsProgram(y, log) => IsProgram(y, l))
      /\ IsProgram(y, log) /\ Reads(y, v, log) => Reads(y, v, l)
  BY <1>1, <1>6, GrownLog
<1>8. CASE x = [y EXCEPT !.state = "failed"]
  <2>1. IsRelabelled(x, y, "failed", 0)
    BY <1>8 DEF IsRelabelled
  <2>2. IsProgram(x, l) /\ x.db = y.db /\ x.position = y.position
    BY <1>2, <1>7, <2>1, Relabelled
  <2>3. ReadsSoundly(x.db, v)
    BY <1>1, <1>2, <2>2
  <2>4. Reads(programs[p], v, log) => Reads(x, v, l)
    BY <1>2, <1>3, <1>7, <2>2 DEF Reads
  <2> QED
    BY <1>6, <2>2, <2>3, <2>4 DEF v, l
<1>9. CASE /\ g.ok = TRUE /\ u.db.ok = TRUE /\ more = u.calls
           /\ x = [state |-> "open", db |-> u.db, position |-> n,
                   schema_checkpoint |-> Len(u.db.schema)]
  <2> DEFINE c == Len(u.db.schema)
             h == u.db
             o == "open"
  <2>0. x = [state |-> o, db |-> h, position |-> n, schema_checkpoint |-> c]
    BY <1>9
  <2>1. WriterAt(u, v) /\ u.invalid = {} /\ h = Replayed(g, more) /\ h.ok = TRUE
    BY <1>5, <1>9
  <2>2. ReadsSoundly(h, v)
    BY <2>1 DEF WriterAt, ReadsSoundly
  <2> HIDE DEF c, h, o
  <2>3. x.state = o /\ x.db = h /\ x.position = n /\ x.schema_checkpoint = c
    BY <2>0
  <2>4. n \in 0..Len(l)
    BY <1>1, <1>7
  <2>5. IsProgram(x, l)
    BY <2>0, <2>3, <2>4 DEF IsProgram
  <2>6. SubSeq(l, 1, n) = l
    BY <1>1, <1>7, WholeIs
  <2>7. ASSUME Reads(programs[p], v, log)
        PROVE  Reads(x, v, l)
    <3> DEFINE b == NewStorage(v)
    <3>1. g = Replayed(b, log)
      BY <1>3, <2>7
    <3> HIDE DEF b
    <3>2. Replayed(b, log \o more) = Replayed(Replayed(b, log), more)
      <4>1. IsCalls(log) /\ IsCalls(more)
        BY <1>1, <1>6
      <4> QED
        BY <4>1, ReplayedConcat
    <3>3. h = Replayed(b, l)
      BY <1>1, <2>1, <3>1, <3>2
    <3> QED
      BY <2>3, <2>6, <3>3 DEF Reads, b
  <2> QED
    BY <1>6, <2>2, <2>3, <2>5, <2>7 DEF v, l
<1> QED
  BY <1>4, <1>8, <1>9

(* The first transaction of a Client keeps the invariants. *)
LEMMA InitializeKeeps ==
  ASSUME GeneratedInv, NEW p \in Programs, Initialize(p)
  PROVE  StepKeeps
<1>1. /\ holder = Nobody /\ holder' = holder /\ pending' = pending /\ invalid' = invalid
  BY DEF Initialize, Upgraded
<1>2. p # holder
  BY <1>1, ProgramAssumption
<1>3. PICK y, u, more, x : Upgrading(p, y, u, more, x)
  BY <1>2, InitializeUpgrades
<1>4. log' = log \o more /\ programs' = [programs EXCEPT ![p] = x]
  BY <1>3 DEF Upgrading
<1>5. /\ IsCalls(more) /\ IsProgram(x, log') /\ ReadsSoundly(x.db, VersionOf[p])
      /\ Reads(programs[p], VersionOf[p], log) => Reads(x, VersionOf[p], log')
  BY <1>2, <1>3, UpgradingIs
<1>6. Moves(p, x, more)
  BY <1>1, <1>4, <1>5 DEF Moves
<1>7. GeneratedInv'
  BY <1>2, <1>6, MovesKeeps
<1>8. ReplayInv => ReplayInv'
  <2>1. ReplayInv => Reads(x, VersionOf[p], log')
    BY <1>2, <1>5 DEF ReplayInv
  <2> QED
    BY <1>1, <1>2, <1>6, <2>1, MovesKeeps
<1> QED
  BY <1>7, <1>8 DEF StepKeeps

-----------------------------------------------------------------------------
(* What the writer of a transaction is made of *)
LEMMA WriterIs ==
  ASSUME NEW g, NEW os, NEW bad, NEW w, w = [db |-> g, calls |-> os, invalid |-> bad]
  PROVE  /\ w.db = g /\ w.calls = os /\ w.invalid = bad
         /\ w = [db |-> w.db, calls |-> w.calls, invalid |-> w.invalid]
OBVIOUS

(* A transaction whose first operation may come: the writer holds what it    *)
(* has read.                                                                 *)
LEMMA BegunWriter ==
  ASSUME NEW g, NEW v, ReadsSoundly(g, v), g.ok = TRUE, NEW os, os = <<>>,
         NEW w, w = [db |-> g, calls |-> os, invalid |-> {}]
  PROVE  WriterAt(w, v) /\ Mirrored(w, v, g, g.schema)
<1> DEFINE bad == {}
<1>1. w = [db |-> g, calls |-> os, invalid |-> bad]
  OBVIOUS
<1>2. bad = {}
  OBVIOUS
<1> HIDE DEF bad
<1>3. /\ w.db = g /\ w.calls = os /\ w.invalid = bad
      /\ w = [db |-> w.db, calls |-> w.calls, invalid |-> w.invalid]
  BY <1>1
<1>4. IsCalls(os)
  BY NoCalls
<1>5. WriterAt(w, v)
  BY <1>2, <1>3, <1>4 DEF WriterAt, ReadsSoundly
<1>6. Replayed(g, os) = g
  BY ReplayedNothing
<1>7. Agree(g, g, v, bad)
  <2>1. SameRows(g, g)
    BY DEF SameRows
  <2>2. Agree(g, g, v, {})
    BY <2>1, AgreeSelf
  <2> QED
    BY <1>2, <2>2
<1>8. Mirrored(w, v, g, g.schema)
  BY <1>3, <1>6, <1>7 DEF Mirrored, MirrorAt
<1> QED
  BY <1>5, <1>8

(* The start of a transaction *)
LEMMA BeginKeeps ==
  ASSUME GeneratedInv, NEW p \in Programs, Begin(p)
  PROVE  StepKeeps
<1> DEFINE y == Played(p)
           v == VersionOf[p]
           e == <<>>
<1>1. /\ p \in Writers /\ programs[p].state = "open" /\ holder = Nobody
      /\ programs' = [programs EXCEPT ![p] = y]
      /\ holder' = IF Throws(y) THEN Nobody ELSE p
      /\ log' = log /\ pending' = pending /\ invalid' = invalid
  BY DEF Begin
<1>2. p # holder /\ p # Nobody /\ y = Played(p) /\ v = VersionOf[p]
  BY <1>1, ProgramAssumption
<1>3. IsCalls(log) /\ ProgramsInv /\ pending = e /\ invalid = {} /\ e = <<>>
  BY <1>1 DEF GeneratedInv, HolderInv
<1>4. ~Throws(y) => y.db.ok
  BY DEF Throws
<1>5. log \o e = log /\ IsCalls(e)
  BY <1>3, NothingMore
<1> HIDE DEF y, v, e
<1>6. IsProgram(y, log) /\ ReadsSoundly(y.db, v) /\ y.state = programs[p].state
  BY <1>2, PlayedIs
<1>7. /\ Reads(programs[p], v, log) => y.db = Replayed(NewStorage(v), log) /\ Reads(y, v, log)
  BY <1>2, PlayedIs
<1>8. CASE Throws(y)
  <2>1. holder' = holder
    BY <1>1, <1>8
  <2>2. Moves(p, y, e)
    BY <1>1, <1>2, <1>5, <1>6, <2>1 DEF Moves
  <2>3. GeneratedInv'
    BY <1>2, <2>2, MovesKeeps
  <2>4. ReplayInv => Reads(y, v, log')
    BY <1>1, <1>2, <1>7 DEF ReplayInv
  <2>5. ReplayInv => ReplayInv'
    BY <1>1, <1>2, <2>2, <2>4, MovesKeeps
  <2> QED
    BY <2>3, <2>5 DEF StepKeeps
<1>9. CASE ~Throws(y)
  <2> DEFINE w == [db |-> y.db, calls |-> e, invalid |-> {}]
             g == y.db
  <2>1. holder' = p /\ g.ok = TRUE /\ ReadsSoundly(g, v) /\ g = y.db
    BY <1>1, <1>4, <1>6, <1>9 DEF ReadsSoundly
  <2>2. w = [db |-> g, calls |-> e, invalid |-> {}]
    OBVIOUS
  <2> HIDE DEF w, g
  <2>3. WriterAt(w, v) /\ Mirrored(w, v, g, g.schema)
    BY <1>3, <2>1, <2>2, BegunWriter
  <2>4. /\ programs' = [q \in Programs |-> programs'[q]]
        /\ programs'[p] = y /\ \A q \in Programs : q # p => programs'[q] = programs[q]
    BY <1>1, <1>3 DEF ProgramsInv
  <2>5. Writer(p)' = w
    BY <1>1, <1>3, <2>1, <2>2, <2>4 DEF Writer
  <2>6. ProgramsInv'
    <3>1. \A q \in Programs : IsProgram(programs'[q], log')
      BY <1>1, <1>3, <1>6, <2>4 DEF ProgramsInv
    <3>2. \A q \in Programs \ {p} : ReadsSoundly(programs'[q].db, VersionOf[q])
      BY <1>1, <1>3, <2>4, ProgramAssumption DEF ProgramsInv
    <3>3. programs' = [q \in Programs |-> programs'[q]]
      BY <2>4
    <3>4. holder' = p
      BY <2>1
    <3>5. \A q \in Programs \ {holder'} : ReadsSoundly(programs'[q].db, VersionOf[q])
      BY <3>2, <3>4
    <3> QED
      BY <3>1, <3>3, <3>5 DEF ProgramsInv
  <2>7. HolderInv'
    <3>1. programs'[p].state = "open" /\ programs'[p].db.ok = TRUE
      BY <1>1, <1>6, <2>1, <2>4
    <3>2. WriterAt([db |-> programs'[p].db, calls |-> pending', invalid |-> invalid'], VersionOf[p])
      BY <1>2, <2>3, <2>5 DEF Writer
    <3> QED
      BY <1>1, <1>2, <2>1, <3>1, <3>2 DEF HolderInv, Writer
  <2>8. ASSUME ReplayInv
        PROVE  ReplayInv'
    <3>1. \A q \in Programs \ {p} : Reads(programs'[q], VersionOf[q], log')
      BY <1>1, <2>4, <2>8, ProgramAssumption DEF ReplayInv
    <3>2. g = Replayed(NewStorage(v), log)
      BY <1>2, <1>7, <2>1, <2>8 DEF ReplayInv
    <3>3. Mirrored([db |-> programs'[p].db, calls |-> pending', invalid |-> invalid'], VersionOf[p],
            Replayed(NewStorage(VersionOf[p]), log'), programs'[p].db.schema)
      BY <1>1, <1>2, <2>1, <2>3, <2>4, <2>5, <3>2 DEF Writer
    <3> QED
      BY <2>1, <3>1, <3>3 DEF ReplayInv, Writer
  <2> QED
    BY <1>1, <1>3, <2>6, <2>7, <2>8 DEF StepKeeps, GeneratedInv
<1> QED
  BY <1>8, <1>9

(* The end of a call: the next one is made whatever it has thrown. *)
OkSet(g, h, v) ==
  IsStorage(h, v) /\ SameRows(g, h) /\ h.schema = g.schema /\ h.ok = TRUE

(* The database of a user who goes on after an exception *)
LEMMA OkSetIs ==
  ASSUME NEW g, NEW v, IsStorage(g, v), NEW b, b = TRUE, NEW h, h = [g EXCEPT !.ok = b]
  PROVE  OkSet(g, h, v)
<1>1. IsStorage(h, v) /\ h.schema = g.schema /\ h.ok = b
  BY OkChanged
<1>2. h.tables = g.tables /\ h.index = g.index /\ h.iterator = g.iterator
  BY OkChanged
<1> QED
  BY <1>1, <1>2 DEF OkSet, SameRows

CallEnds(w, x) ==
  x = [db |-> [w.db EXCEPT !.ok = TRUE], calls |-> w.calls, invalid |-> w.invalid]

(* The writer is as sound as before for the next call. *)
LEMMA CalledWriter ==
  ASSUME NEW w, NEW v, WriterAt(w, v), NEW x, CallEnds(w, x)
  PROVE  /\ WriterAt(x, v) /\ x.db.ok = TRUE /\ x.db.schema = w.db.schema
         /\ \A b, schema : Mirrored(w, v, b, schema) => Mirrored(x, v, b, schema)
<1> DEFINE g == w.db
           os == w.calls
           bad == w.invalid
           yes == TRUE
           h == [g EXCEPT !.ok = yes]
<1>1. x = [db |-> h, calls |-> os, invalid |-> bad] /\ yes = TRUE /\ h = [g EXCEPT !.ok = yes]
  BY DEF CallEnds
<1>0. IsStorage(g, v) /\ HasSchema(g) /\ IndexesAt(g, v, bad) /\ IsCalls(os)
  BY DEF WriterAt
<1> HIDE DEF g, os, bad, yes, h
<1>2. x.db = h /\ x.calls = os /\ x.invalid = bad
      /\ x = [db |-> x.db, calls |-> x.calls, invalid |-> x.invalid]
  BY <1>1, WriterIs
<1>3. OkSet(g, h, v)
  BY <1>0, <1>1, OkSetIs
<1>4. IsStorage(h, v) /\ h.schema = g.schema /\ h.ok = TRUE
  BY <1>3 DEF OkSet
<1>4a. SameRows(g, h)
  BY <1>3 DEF OkSet
<1>5. IndexesAt(h, v, bad)
  <2>1. IndexesAt(g, v, bad)
    BY <1>0
  <2> QED
    BY <1>4a, <2>1, SameIndexes
<1>6. HasSchema(h)
  BY <1>0, <1>4 DEF HasSchema
<1>7. WriterAt(x, v)
  BY <1>0, <1>2, <1>4, <1>5, <1>6 DEF WriterAt
<1>8. ASSUME NEW b, NEW schema, Mirrored(w, v, b, schema)
      PROVE  Mirrored(x, v, b, schema)
  <2> DEFINE m == Replayed(b, os)
  <2>1. MirrorAt(w, v, m, schema)
    BY <1>8 DEF Mirrored, os
  <2> HIDE DEF m
  <2>2. ReadsSoundly(m, v) /\ m.ok = TRUE /\ m.schema = schema /\ Agree(g, m, v, bad)
    BY <2>1 DEF MirrorAt, g, bad
  <2>3. SameRows(m, m)
    BY DEF SameRows
  <2>4. Agree(h, m, v, bad)
    BY <1>4a, <2>2, <2>3, AgreeRows
  <2>5. MirrorAt(x, v, m, schema)
    BY <1>2, <2>2, <2>4 DEF MirrorAt
  <2> QED
    BY <1>2, <2>5 DEF Mirrored, m
<1> QED
  BY <1>2, <1>4, <1>7, <1>8 DEF g

(* A call of the user, whatever it does *)
LEMMA CallKeeps ==
  ASSUME GeneratedInv, NEW p \in Programs, NEW cells, NEW w, Call(p, cells, w),
         Kept(Writer(p), w, VersionOf[p])
  PROVE  /\ GeneratedInv'
         /\ ReplayInv /\ KeptMirror(Writer(p), w, VersionOf[p]) => ReplayInv'
<1> DEFINE v == VersionOf[p]
           h == [w.db EXCEPT !.ok = TRUE]
           x == [db |-> h, calls |-> w.calls, invalid |-> w.invalid]
           y == [programs[p] EXCEPT !.db = h]
           schema == programs[p].db.schema
<1>1. /\ holder = p /\ holder' = p /\ log' = log /\ pending' = w.calls /\ invalid' = w.invalid
      /\ programs' = [programs EXCEPT ![p].db = h]
  BY DEF Call
<1>2. IsCalls(log) /\ ProgramsInv /\ HolderInv
  BY DEF GeneratedInv
<1>3. p # Nobody
  BY ProgramAssumption
<1>4. WriterAt(w, v) /\ w.db.schema = Writer(p).db.schema /\ Writer(p).db = programs[p].db
  BY DEF Kept, Writer
<1>5. CallEnds(w, x) /\ x.db = h
  BY DEF CallEnds
<1>6. /\ programs' = [q \in Programs |-> programs'[q]]
      /\ programs'[p] = y /\ \A q \in Programs : q # p => programs'[q] = programs[q]
  BY <1>1, <1>2 DEF ProgramsInv
<1>7. y = [programs[p] EXCEPT !.db = h]
  OBVIOUS
<1>8. Writer(p)' = [db |-> programs'[p].db, calls |-> pending', invalid |-> invalid']
  BY DEF Writer
<1>8a. x = [db |-> h, calls |-> w.calls, invalid |-> w.invalid]
  OBVIOUS
<1> HIDE DEF h, x, y, v
<1>9. /\ WriterAt(x, v) /\ h.ok = TRUE /\ h.schema = w.db.schema
      /\ \A b, s : Mirrored(w, v, b, s) => Mirrored(x, v, b, s)
  BY <1>4, <1>5, CalledWriter
<1>10. IsProgram(y, log) /\ y.db = h /\ y.state = programs[p].state
  <2> DEFINE a == programs[p]
  <2>1. /\ a = [state |-> a.state, db |-> a.db, position |-> a.position,
                schema_checkpoint |-> a.schema_checkpoint]
        /\ a.position \in 0..Len(log) /\ y = [a EXCEPT !.db = h]
    BY <1>2, <1>7 DEF ProgramsInv, IsProgram
  <2> HIDE DEF a
  <2>2. y = [state |-> a.state, db |-> h, position |-> a.position,
             schema_checkpoint |-> a.schema_checkpoint]
    BY <2>1
  <2>3. /\ y.state = a.state /\ y.db = h /\ y.position = a.position
        /\ y.schema_checkpoint = a.schema_checkpoint
    BY <2>2
  <2> QED
    BY <2>1, <2>2, <2>3 DEF IsProgram, a
<1>11. Writer(p)' = x
  BY <1>1, <1>6, <1>8, <1>8a, <1>10
<1>12. ProgramsInv'
  <2>1. \A q \in Programs : IsProgram(programs'[q], log')
    BY <1>1, <1>2, <1>6, <1>10 DEF ProgramsInv
  <2>2. \A q \in Programs \ {holder'} : ReadsSoundly(programs'[q].db, VersionOf[q])
    BY <1>1, <1>2, <1>6 DEF ProgramsInv
  <2>3. programs' = [q \in Programs |-> programs'[q]]
    BY <1>6
  <2> QED
    BY <2>1, <2>2, <2>3 DEF ProgramsInv
<1>13. HolderInv'
  <2>1. programs'[p].state = "open" /\ programs'[p].db.ok = TRUE /\ p \in Writers
    BY <1>1, <1>2, <1>3, <1>6, <1>9, <1>10 DEF HolderInv
  <2>2. WriterAt([db |-> programs'[p].db, calls |-> pending', invalid |-> invalid'], VersionOf[p])
    BY <1>8, <1>9, <1>11 DEF v
  <2> QED
    BY <1>1, <1>3, <2>1, <2>2 DEF HolderInv, Writer
<1>14. ASSUME ReplayInv, KeptMirror(Writer(p), w, VersionOf[p])
       PROVE  ReplayInv'
  <2>1. \A q \in Programs \ {p} : Reads(programs'[q], VersionOf[q], log')
    BY <1>1, <1>6, <1>14 DEF ReplayInv
  <2> DEFINE b == Replayed(NewStorage(v), log)
  <2>2. Mirrored(Writer(p), v, b, schema)
    BY <1>1, <1>3, <1>14 DEF ReplayInv, v
  <2> HIDE DEF b, schema
  <2>3. Mirrored(w, v, b, schema)
    BY <1>14, <2>2 DEF KeptMirror, v
  <2>4. Mirrored(x, v, b, schema)
    BY <1>9, <2>3
  <2>5. programs'[p].db.schema = schema
    BY <1>4, <1>6, <1>9, <1>10 DEF schema
  <2>6. Mirrored([db |-> programs'[p].db, calls |-> pending', invalid |-> invalid'], VersionOf[p],
          Replayed(NewStorage(VersionOf[p]), log'), programs'[p].db.schema)
    BY <1>1, <1>8, <1>11, <2>4, <2>5 DEF b, v
  <2> QED
    BY <1>1, <2>1, <2>6 DEF ReplayInv, Writer
<1> QED
  BY <1>1, <1>2, <1>12, <1>13, <1>14 DEF GeneratedInv

(* What is known of the writer of a transaction *)
LEMMA WriterHas ==
  ASSUME GeneratedInv, NEW p \in Programs, holder = p, NEW w, w = Writer(p), NEW v, v = VersionOf[p]
  PROVE  /\ WriterAt(w, v) /\ w.db.ok = TRUE /\ w.invalid = invalid /\ w.db = programs[p].db
         /\ DOMAIN programs[p].db.tables = TablesOf(v)
         /\ \A t \in TablesOf(v) :
              /\ Freedom(p, t) = Keeper(w.db, t) /\ Fields(p, t) = FieldsOf(v, t)
<1>1. w.db = programs[p].db /\ w.invalid = invalid
  BY DEF Writer
<1>2. WriterAt(w, v) /\ w.db.ok = TRUE
  BY <1>1, ProgramAssumption DEF GeneratedInv, HolderInv
<1>3. IsStorage(w.db, v)
  BY <1>2 DEF WriterAt
<1>4. /\ DOMAIN w.db.tables = TablesOf(v)
      /\ \A t \in TablesOf(v) : DOMAIN w.db.tables[t].columns = FieldsOf(v, t)
  BY <1>3, StorageHas
<1> QED
  BY <1>1, <1>2, <1>4 DEF Freedom, Fields, Keeper

(* A call of the user is about rows only. *)
LEMMA CallSchema ==
  ASSUME GeneratedInv, SchemaInv, NEW p \in Programs, NEW cells, NEW w, Call(p, cells, w),
         Kept(Writer(p), w, VersionOf[p])
  PROVE  SchemaInv'
<1> DEFINE v == VersionOf[p]
           h == [w.db EXCEPT !.ok = TRUE]
           x == [db |-> h, calls |-> w.calls, invalid |-> w.invalid]
           a == programs[p]
           y == [a EXCEPT !.db = h]
<1>1. /\ holder = p /\ holder' = p /\ log' = log /\ pending' = w.calls
      /\ programs' = [programs EXCEPT ![p].db = h]
  BY DEF Call
<1>2. IsCalls(log) /\ ProgramsInv /\ HolderInv
  BY DEF GeneratedInv
<1>3. p # Nobody
  BY ProgramAssumption
<1>4. /\ WriterAt(w, v) /\ w.db.schema = a.db.schema /\ SchemaOf(w.calls) = SchemaOf(pending)
  BY DEF Kept, Writer
<1>5. CallEnds(w, x) /\ x.db = h
  BY DEF CallEnds
<1>6. programs'[p] = y /\ \A q \in Programs : q # p => programs'[q] = programs[q]
  BY <1>1, <1>2 DEF ProgramsInv
<1>7. /\ a = [state |-> a.state, db |-> a.db, position |-> a.position,
              schema_checkpoint |-> a.schema_checkpoint]
      /\ y = [a EXCEPT !.db = h] /\ v = VersionOf[p]
  BY <1>2 DEF ProgramsInv, IsProgram
<1>8. /\ HasOwnSchema(a, v) /\ a.state = "open" /\ a.db.ok = TRUE /\ a.db.schema = Schema[v]
      /\ SchemaOf(log) = Schema[v] /\ SchemaOf(pending) = <<>>
      /\ \A q \in Programs : HasOwnSchema(programs[q], VersionOf[q])
      /\ \A q \in Programs \ {p} : KnowsFile(programs[q], log)
  BY <1>1, <1>2, <1>3 DEF SchemaInv, HolderInv
<1> HIDE DEF h, x, y, v, a
<1>9. h.schema = w.db.schema
  BY <1>4, <1>5, CalledWriter
<1>10. /\ y.state = a.state /\ y.db = h /\ y.schema_checkpoint = a.schema_checkpoint
  <2>1. y = [state |-> a.state, db |-> h, position |-> a.position,
             schema_checkpoint |-> a.schema_checkpoint]
    BY <1>7
  <2> QED
    BY <2>1
<1>11. HasOwnSchema(y, v)
  BY <1>4, <1>8, <1>9, <1>10 DEF HasOwnSchema
<1>12. \A q \in Programs : HasOwnSchema(programs'[q], VersionOf[q])
  BY <1>6, <1>7, <1>8, <1>11
<1>13. \A q \in Programs \ {p} : KnowsFile(programs'[q], log)
  BY <1>6, <1>8
<1>14. programs'[p].db.schema = Schema[v] /\ SchemaOf(pending') = <<>>
  BY <1>1, <1>4, <1>6, <1>8, <1>9, <1>10
<1> QED
  BY <1>1, <1>3, <1>7, <1>8, <1>12, <1>13, <1>14 DEF SchemaInv

(* What a step keeps when the updates that failed are repaired first *)
RepairKeeps ==
  GeneratedInv' /\ (FixFirst /\ ReplayInv => ReplayInv') /\ (SchemaInv => SchemaInv')

(* A call that keeps what the writer holds, when it repairs what failed *)
LEMMA UserKeeps ==
  ASSUME GeneratedInv, NEW p \in Programs, NEW cells, NEW w, Call(p, cells, w),
         Kept(Writer(p), w, VersionOf[p]),
         invalid \subseteq cells => KeptMirror(Writer(p), w, VersionOf[p])
  PROVE  RepairKeeps
<1>1. FixFirst => invalid \subseteq cells
  BY DEF Call
<1>2. GeneratedInv' /\ (ReplayInv /\ KeptMirror(Writer(p), w, VersionOf[p]) => ReplayInv')
  BY CallKeeps
<1>3. SchemaInv => SchemaInv'
  BY CallSchema
<1> QED
  BY <1>1, <1>2, <1>3 DEF RepairKeeps

(* The functions that insert *)
LEMMA InsertingKeeps ==
  ASSUME GeneratedInv, NEW p \in Programs, Insert(p)
  PROVE  RepairKeeps
<1> DEFINE w == Writer(p)
           v == VersionOf[p]
           none == {}
<1>1. PICK t \in Tables(p) :
        \/ Call(p, none, new_record(w, t))
        \/ \E r \in 0..MaxRecord :
             ~IsUsed(Freedom(p, t), r) /\ Call(p, none, insert_record(w, t, r))
        \/ Call(p, none, new_vector(w, t, 2))
        \/ \E u \in Values : Call(p, none, new_with_values(w, t, u))
  BY DEF Insert
<1>2. holder = p
  BY <1>1 DEF Call
<1>3. w = Writer(p) /\ v = VersionOf[p] /\ \A s : s \subseteq none => s = {}
  OBVIOUS
<1> HIDE DEF w, v, none
<1>4. /\ WriterAt(w, v) /\ w.db.ok = TRUE /\ w.invalid = invalid
      /\ DOMAIN programs[p].db.tables = TablesOf(v)
      /\ \A s \in TablesOf(v) : Freedom(p, s) = Keeper(w.db, s)
  BY <1>2, <1>3, WriterHas, ZenonT(60)
<1>5. t \in TablesOf(v)
  BY <1>1, <1>4 DEF Tables
<1>6. CASE Call(p, none, new_record(w, t))
  <2> DEFINE x == new_record(w, t)
  <2>1. x = new_record(w, t) /\ Call(p, none, x)
    BY <1>6
  <2> HIDE DEF x
  <2>2. Kept(w, x, v) /\ KeptMirror(w, x, v)
    BY <1>4, <1>5, <2>1, NewRecordKeeps
  <2> QED
    BY <1>3, <2>1, <2>2, UserKeeps
<1>7. ASSUME NEW r \in 0..MaxRecord, ~IsUsed(Freedom(p, t), r), Call(p, none, insert_record(w, t, r))
      PROVE  RepairKeeps
  <2> DEFINE x == insert_record(w, t, r)
  <2>1. x = insert_record(w, t, r) /\ Call(p, none, x)
    BY <1>7
  <2>2. r \in Nat
    OBVIOUS
  <2> HIDE DEF x
  <2>3. Kept(w, x, v) /\ KeptMirror(w, x, v)
    BY <1>4, <1>5, <1>7, <2>1, <2>2, InsertKeeps
  <2> QED
    BY <1>3, <2>1, <2>3, UserKeeps
<1>8. CASE Call(p, none, new_vector(w, t, 2))
  <2> DEFINE x == new_vector(w, t, 2)
  <2>1. x = new_vector(w, t, 2) /\ Call(p, none, x)
    BY <1>8
  <2> HIDE DEF x
  <2>2. Kept(w, x, v) /\ KeptMirror(w, x, v)
    <3> DEFINE n == 2
    <3>1. n \in Nat /\ x = new_vector(w, t, n)
      BY <2>1
    <3> HIDE DEF n
    <3> QED
      BY <1>4, <1>5, <3>1, NewVectorKeeps
  <2> QED
    BY <1>3, <2>1, <2>2, UserKeeps
<1>9. ASSUME NEW u \in Values, Call(p, none, new_with_values(w, t, u))
      PROVE  RepairKeeps
  <2> DEFINE x == new_with_values(w, t, u)
  <2>1. x = new_with_values(w, t, u) /\ Call(p, none, x)
    BY <1>9
  <2> HIDE DEF x
  <2>2. Kept(w, x, v) /\ (w.invalid = {} => KeptMirror(w, x, v))
    BY <1>4, <1>5, <2>1, NewWithValuesKeeps
  <2>3. invalid \subseteq none => KeptMirror(w, x, v)
    BY <1>3, <1>4, <2>2
  <2> QED
    BY <1>3, <2>1, <2>2, <2>3, UserKeeps
<1> QED
  BY <1>1, <1>6, <1>7, <1>8, <1>9

(* The functions that delete *)
LEMMA DeletingKeeps ==
  ASSUME GeneratedInv, NEW p \in Programs, Delete(p)
  PROVE  RepairKeeps
<1> DEFINE w == Writer(p)
           v == VersionOf[p]
<1>1. PICK t \in Tables(p) : \E cells, x :
        /\ Call(p, cells, x)
        /\ \/ \E r \in 0..MaxRecord : x = delete_record(w, t, r)
           \/ \E r \in 0..MaxRecord : x = delete_vector_of(w, t, r, 2)
           \/ x = clear_table(w, t)
  BY DEF Delete
<1>2. PICK cells, x :
        /\ Call(p, cells, x)
        /\ \/ \E r \in 0..MaxRecord : x = delete_record(w, t, r)
           \/ \E r \in 0..MaxRecord : x = delete_vector_of(w, t, r, 2)
           \/ x = clear_table(w, t)
  BY <1>1
<1>3. holder = p /\ w = Writer(p) /\ v = VersionOf[p]
  BY <1>2 DEF Call
<1> HIDE DEF w, v
<1>4. /\ WriterAt(w, v) /\ w.db.ok = TRUE
      /\ DOMAIN programs[p].db.tables = TablesOf(v)
  BY <1>3, WriterHas
<1>5. t \in TablesOf(v)
  BY <1>1, <1>4 DEF Tables
<1>6. CASE \E r \in 0..MaxRecord : x = delete_record(w, t, r) \/ x = delete_vector_of(w, t, r, 2)
  <2>1. PICK r \in 0..MaxRecord : x = delete_record(w, t, r) \/ x = delete_vector_of(w, t, r, 2)
    BY <1>6
  <2> DEFINE n == 2
  <2>2. n \in Nat /\ r \in Int /\ (x = delete_record(w, t, r) \/ x = delete_vector_of(w, t, r, n))
    BY <2>1
  <2> HIDE DEF n
  <2>3. Kept(w, x, v) /\ KeptMirror(w, x, v)
    BY <1>4, <1>5, <2>2, DeleteKeeps
  <2> QED
    BY <1>2, <1>3, <2>3, UserKeeps
<1>7. CASE x = clear_table(w, t)
  <2>1. Kept(w, x, v) /\ KeptMirror(w, x, v)
    BY <1>4, <1>5, <1>7, ClearKeeps
  <2> QED
    BY <1>2, <1>3, <2>1, UserKeeps
<1> QED
  BY <1>2, <1>6, <1>7

(* The functions that update *)
LEMMA SettingKeeps ==
  ASSUME GeneratedInv, NEW p \in Programs, Set(p)
  PROVE  RepairKeeps
<1> DEFINE w == Writer(p)
           v == VersionOf[p]
<1>0. PICK t \in DOMAIN programs[p].db.tables : \E f \in Fields(p, t), r \in 0..MaxRecord :
        \/ \E u \in Values : Call(p, {<<t, r, f>>}, set_field(w, t, r, f, u))
        \/ \E vs \in [1..2 -> Values] :
             Call(p, {<<t, r, f>>, <<t, r + 1, f>>}, update_vector_of(w, t, r, f, vs))
  BY DEF Set
<1>1. PICK f \in Fields(p, t), r \in 0..MaxRecord :
        \/ \E u \in Values : Call(p, {<<t, r, f>>}, set_field(w, t, r, f, u))
        \/ \E vs \in [1..2 -> Values] :
             Call(p, {<<t, r, f>>, <<t, r + 1, f>>}, update_vector_of(w, t, r, f, vs))
  BY <1>0
<1>2. holder = p /\ w = Writer(p) /\ v = VersionOf[p] /\ r \in Int
  BY <1>1 DEF Call
<1> HIDE DEF w, v
<1>3. /\ WriterAt(w, v) /\ w.db.ok = TRUE /\ w.invalid = invalid
      /\ DOMAIN programs[p].db.tables = TablesOf(v)
      /\ \A s \in TablesOf(v) : Fields(p, s) = FieldsOf(v, s)
  BY <1>2, WriterHas
<1>4. t \in TablesOf(v) /\ f \in FieldsOf(v, t)
  BY <1>0, <1>1, <1>3
<1>5. ASSUME NEW u \in Values, Call(p, {<<t, r, f>>}, set_field(w, t, r, f, u))
      PROVE  RepairKeeps
  <2> DEFINE x == set_field(w, t, r, f, u)
             cells == {<<t, r, f>>}
  <2>1. x = set_field(w, t, r, f, u) /\ Call(p, cells, x)
    BY <1>5
  <2> HIDE DEF x
  <2>2. Kept(w, x, v) /\ (w.invalid \subseteq cells => KeptMirror(w, x, v))
    BY <1>2, <1>3, <1>4, <2>1, SetKeeps
  <2> HIDE DEF cells
  <2>3. invalid \subseteq cells => KeptMirror(w, x, v)
    BY <1>3, <2>2
  <2> QED
    BY <1>2, <2>1, <2>2, <2>3, UserKeeps
<1>6. ASSUME NEW vs \in [1..2 -> Values],
             Call(p, {<<t, r, f>>, <<t, r + 1, f>>}, update_vector_of(w, t, r, f, vs))
      PROVE  RepairKeeps
  <2> DEFINE x == update_vector_of(w, t, r, f, vs)
             cells == {<<t, r, f>>, <<t, r + 1, f>>}
             n == 2
  <2>1. x = update_vector_of(w, t, r, f, vs) /\ Call(p, cells, x)
    BY <1>6
  <2> HIDE DEF x
  <2>2. Len(vs) = 2 /\ vs \in Seq(Range(vs))
    <3>1. n \in Nat /\ vs = [i \in 1..n |-> vs[i]] /\ n = 2
      OBVIOUS
    <3> HIDE DEF n
    <3> QED
      BY <3>1, LenIs
  <2>3. Kept(w, x, v) /\ (w.invalid \subseteq cells => KeptMirror(w, x, v))
    BY <1>2, <1>3, <1>4, <2>1, <2>2, UpdateVectorKeeps
  <2> HIDE DEF cells
  <2>4. invalid \subseteq cells => KeptMirror(w, x, v)
    BY <1>3, <2>3
  <2> QED
    BY <1>2, <2>1, <2>3, <2>4, UserKeeps
<1> QED
  BY <1>1, <1>5, <1>6

-----------------------------------------------------------------------------
(***************************************************************************)
(* The schema that the programs find in the file.                          *)
(***************************************************************************)

(* A list that grows continues what it continued. *)
LEMMA ContinuesLonger ==
  ASSUME NEW a, NEW b, NEW t, IsList(a), IsList(b), IsList(t), Continues(a, t)
  PROVE  Continues(a \o b, t)
<1> DEFINE c == a \o b
<1>1. /\ Len(a) \in Nat /\ Len(b) \in Nat /\ Len(c) = Len(a) + Len(b)
      /\ \A i \in 1..(Len(a) + Len(b)) : c[i] = IF i <= Len(a) THEN a[i] ELSE b[i - Len(a)]
  BY ListConcat
<1>2. Len(t) \in Nat
  <2>1. t \in Seq(Range(t))
    BY DEF IsList
  <2> QED
    BY <2>1
<1>3. Len(t) <= Len(a) /\ \A i \in 1..Len(t) : a[i] = t[i]
  BY DEF Continues
<1> DEFINE m == Len(a)
           n == Len(b)
           l == Len(t)
           k == Len(c)
<1>4. m \in Nat /\ n \in Nat /\ l \in Nat /\ k = m + n /\ l <= m
  BY <1>1, <1>2, <1>3
<1>5. \A i \in 1..(m + n) : c[i] = IF i <= m THEN a[i] ELSE b[i - m]
  BY <1>1
<1>6. \A i \in 1..l : a[i] = t[i]
  BY <1>3
<1>7. l = Len(t) /\ k = Len(c)
  OBVIOUS
<1> HIDE DEF c, m, n, l, k
<1>8. l <= k
  BY <1>4
<1>9. ASSUME NEW i \in 1..l
      PROVE  c[i] = t[i]
  <2>1. i \in 1..(m + n) /\ i <= m
    BY <1>4
  <2>2. c[i] = a[i]
    BY <1>5, <2>1
  <2> QED
    BY <1>6, <2>2
<1>10. Continues(c, t)
  BY <1>7, <1>8, <1>9 DEF Continues
<1> QED
  BY <1>10 DEF c

(* A list that continues another one and that is not longer is the same. *)
LEMMA ContinuesAll ==
  ASSUME NEW s, NEW t, IsList(s), IsList(t), Continues(s, t), ~(Len(s) > Len(t))
  PROVE  s = t
<1>1. Len(s) \in Nat /\ Len(t) \in Nat
  <2>1. s \in Seq(Range(s)) /\ t \in Seq(Range(t))
    BY DEF IsList
  <2> QED
    BY <2>1
<1>2. Len(t) <= Len(s) /\ \A i \in 1..Len(t) : s[i] = t[i]
  BY DEF Continues
<1>3. Len(s) = Len(t)
  BY <1>1, <1>2
<1> QED
  BY <1>2, <1>3, SameList

(* What the schemas are made of *)
LEMMA SchemasAre ==
  ASSUME NEW v \in Versions
  PROVE  IsList(Schema[v]) /\ Len(Schema[v]) \in Nat /\ Continues(Schema[v], Schema[v])
<1> DEFINE s == Schema[v]
<1>1. s \in Seq(Range(s))
  BY SchemaAssumption
<1> HIDE DEF s
<1>2. IsList(s) /\ Len(s) \in Nat
  BY <1>1 DEF IsList
<1>3. Continues(s, s)
  BY <1>2 DEF Continues
<1> QED
  BY <1>2, <1>3 DEF s

(* A new program *)
LEMMA ClosedSchema ==
  ASSUME NEW p \in Programs, IsCalls(log), NEW x, x = Closed(p), NEW v
  PROVE  HasOwnSchema(x, v) /\ KnowsFile(x, log)
<1> DEFINE g == NewStorage(VersionOf[p])
           e == <<>>
<1>1. g.schema = e
  BY ProgramAssumption, NewStorageIs
<1>2. x = [state |-> "closed", db |-> g, position |-> 0, schema_checkpoint |-> 0]
  BY DEF Closed
<1> HIDE DEF g
<1>3. x.state = "closed" /\ x.db = g /\ x.position = 0
  BY <1>2
<1>4. SubSeq(log, 1, 0) = e
  BY NothingRead
<1>5. SchemaOf(e) = e
  <2>1. e = <<>>
    OBVIOUS
  <2> DEFINE s == <<0>>
  <2>2. s = <<0>>
    OBVIOUS
  <2> HIDE DEF e, s
  <2>3. SchemaOf(e) = <<>>
    BY <2>1, <2>2, SchemaOne
  <2> QED
    BY <2>1, <2>3
<1> QED
  BY <1>1, <1>3, <1>4, <1>5 DEF HasOwnSchema, KnowsFile

(* A program that has played the journal knows the schema of the whole of it. *)
LEMMA PlayedSchema ==
  ASSUME GeneratedInv, SchemaInv, NEW p \in Programs, p # holder, NEW y, y = Played(p)
  PROVE  /\ KnowsFile(y, log) /\ HasOwnSchema(y, VersionOf[p])
         /\ y.schema_checkpoint = programs[p].schema_checkpoint
         /\ y.db.ok = TRUE => y.db.schema = SchemaOf(log) /\ IsList(SchemaOf(log))
<1> DEFINE x == programs[p]
           v == VersionOf[p]
           n == x.position
           l == Len(log)
           s == SubSeq(log, 1, n)
           t == SubSeq(log, n + 1, l)
           g == x.db
           d == Replayed(g, t)
<1>1. /\ IsCalls(log) /\ IsProgram(x, log) /\ ReadsSoundly(g, v)
      /\ KnowsFile(x, log) /\ HasOwnSchema(x, v) /\ v \in Versions
  BY ProgramAssumption DEF GeneratedInv, ProgramsInv, SchemaInv
<1>2. y = [x EXCEPT !.db = d, !.position = l]
  BY DEF Played
<1>3. n \in 0..l /\ l \in Nat
  BY <1>1, CallsLen DEF IsProgram
<1>4. IsCalls(t) /\ s \o t = log
  BY <1>1, <1>3, CallsRest
<1>5. IsCalls(s) /\ IsCalls(t)
  BY <1>1, <1>3, <1>4, CallsPrefix
<1>6. d = Replayed(g, t) /\ g = x.db
  OBVIOUS
<1>7. SubSeq(log, 1, l) = log
  BY <1>1, WholeIs
<1>8. g.ok = TRUE => g.schema = SchemaOf(s)
  BY <1>1 DEF KnowsFile
<1> HIDE DEF x, v, d, l, s, t, n, g
<1>9. y = [state |-> x.state, db |-> d, position |-> l, schema_checkpoint |-> x.schema_checkpoint]
  BY <1>1, <1>2 DEF IsProgram
<1>10. /\ y.db = d /\ y.position = l /\ y.state = x.state
       /\ y.schema_checkpoint = x.schema_checkpoint
  BY <1>9
<1>11. /\ IsList(SchemaOf(s)) /\ IsList(SchemaOf(t))
       /\ SchemaOf(log) = SchemaOf(s) \o SchemaOf(t)
  BY <1>4, <1>5, SchemaConcat
<1>12. IsList(SchemaOf(log))
  BY <1>11, ListConcat
<1>13. ASSUME d.ok = TRUE
       PROVE  g.ok = TRUE /\ d.schema = SchemaOf(log) /\ d.schema = g.schema \o SchemaOf(t)
  <2>1. g.ok = TRUE /\ d.schema = g.schema \o SchemaOf(t)
    BY <1>1, <1>5, <1>6, <1>13, ReplayedSchema
  <2> QED
    BY <1>8, <1>11, <2>1
<1>14. KnowsFile(y, log)
  BY <1>7, <1>10, <1>13 DEF KnowsFile
<1>15. HasOwnSchema(y, v)
  <2>1. ASSUME y.state = "open", d.ok = TRUE
        PROVE  y.schema_checkpoint = Len(Schema[v]) /\ Continues(d.schema, Schema[v])
    <3>1. g.ok = TRUE /\ d.schema = g.schema \o SchemaOf(t)
      BY <1>13, <2>1
    <3>2. x.schema_checkpoint = Len(Schema[v]) /\ Continues(g.schema, Schema[v])
      BY <1>1, <1>6, <1>10, <2>1, <3>1 DEF HasOwnSchema
    <3>3. IsList(g.schema)
      BY <1>8, <1>11, <3>1
    <3>4. IsList(Schema[v])
      BY <1>1, SchemasAre
    <3> QED
      BY <1>10, <1>11, <3>1, <3>2, <3>3, <3>4, ContinuesLonger
  <2> QED
    BY <1>10, <2>1 DEF HasOwnSchema
<1> QED
  BY <1>10, <1>12, <1>13, <1>14, <1>15 DEF x, v

(* What the programs know of a journal is still true when it grows. *)
LEMMA KnowsGrown ==
  ASSUME IsCalls(log), NEW more, IsCalls(more), NEW l, l = log \o more
  PROVE  \A x : IsProgram(x, log) /\ KnowsFile(x, log) => KnowsFile(x, l)
<1>1. \A n \in 0..Len(log) : SubSeq(l, 1, n) = SubSeq(log, 1, n)
  <2>1. \A n \in 0..Len(log) : SubSeq(log \o more, 1, n) = SubSeq(log, 1, n)
    BY CallsPrefixConcat
  <2> QED
    BY <2>1
<1> QED
  BY <1>1 DEF IsProgram, KnowsFile

(* The move of a program that holds no transaction *)
LEMMA MovesSchema ==
  ASSUME GeneratedInv, SchemaInv, NEW p \in Programs, p # holder, NEW x, NEW more,
         Moves(p, x, more), HasOwnSchema(x, VersionOf[p]), KnowsFile(x, log'),
         holder = Nobody \/ log' = log
  PROVE  SchemaInv'
<1>1. /\ IsCalls(more) /\ log' = log \o more
      /\ programs' = [programs EXCEPT ![p] = x]
      /\ holder' = holder /\ pending' = pending
  BY DEF Moves
<1>2. IsCalls(log) /\ ProgramsInv /\ HolderInv
  BY DEF GeneratedInv
<1>3. \A y : IsProgram(y, log) /\ KnowsFile(y, log) => KnowsFile(y, log')
  BY <1>1, <1>2, KnowsGrown
<1>4. programs'[p] = x /\ \A q \in Programs : q # p => programs'[q] = programs[q]
  BY <1>1, <1>2 DEF ProgramsInv
<1>5. \A q \in Programs : HasOwnSchema(programs'[q], VersionOf[q])
  BY <1>4 DEF SchemaInv
<1>6. \A q \in Programs \ {holder} : KnowsFile(programs'[q], log')
  BY <1>2, <1>3, <1>4 DEF SchemaInv, ProgramsInv
<1>7. ASSUME holder # Nobody
      PROVE  /\ programs'[holder].db.schema = Schema[VersionOf[holder]]
             /\ SchemaOf(log') = Schema[VersionOf[holder]] /\ SchemaOf(pending') = <<>>
  <2>1. holder \in Programs /\ programs'[holder] = programs[holder] /\ log' = log
    BY <1>2, <1>4, <1>7 DEF HolderInv, Programs
  <2> QED
    BY <1>1, <1>7, <2>1 DEF SchemaInv
<1> QED
  BY <1>1, <1>5, <1>6, <1>7 DEF SchemaInv

(* A program under a new state *)
LEMMA NewState ==
  ASSUME NEW y, NEW os, IsProgram(y, os), NEW s, NEW x, x = [y EXCEPT !.state = s]
  PROVE  /\ x.state = s /\ x.db = y.db /\ x.position = y.position
         /\ x.schema_checkpoint = y.schema_checkpoint
<1>1. y = [state |-> y.state, db |-> y.db, position |-> y.position,
           schema_checkpoint |-> y.schema_checkpoint]
  BY DEF IsProgram
<1>2. x = [state |-> s, db |-> y.db, position |-> y.position,
           schema_checkpoint |-> y.schema_checkpoint]
  BY <1>1
<1> QED
  BY <1>2

(* A program under a new state, with a new checkpoint of the schema *)
IsOpened(x, y, s, c) == x = [y EXCEPT !.state = s, !.schema_checkpoint = c]

(* What it is *)
LEMMA NewCheckpoint ==
  ASSUME NEW y, NEW os, IsProgram(y, os), NEW s, NEW c,
         NEW x, IsOpened(x, y, s, c)
  PROVE  /\ x.state = s /\ x.db = y.db /\ x.position = y.position
         /\ x.schema_checkpoint = c
<1>1. y = [state |-> y.state, db |-> y.db, position |-> y.position,
           schema_checkpoint |-> y.schema_checkpoint]
  BY DEF IsProgram
<1>2. x = [state |-> s, db |-> y.db, position |-> y.position, schema_checkpoint |-> c]
  BY <1>1 DEF IsOpened
<1> QED
  BY <1>2

(* A program that has played the file, and that does nothing else *)
LEMMA PlaysSchema ==
  ASSUME GeneratedInv, SchemaInv, NEW p \in Programs, p # holder, NEW x, NEW s, NEW c,
         IsRelabelled(x, Played(p), s, c), HasOwnSchema(x, VersionOf[p]),
         programs' = [programs EXCEPT ![p] = x], log' = log,
         holder' = holder, pending' = pending, invalid' = invalid
  PROVE  SchemaInv'
<1> DEFINE y == Played(p)
           v == VersionOf[p]
           e == <<>>
<1>1. y = Played(p) /\ v = VersionOf[p]
  OBVIOUS
<1>2. IsRelabelled(x, y, s, c) /\ log' = log
  OBVIOUS
<1>3. IsCalls(log)
  BY DEF GeneratedInv
<1>4. log \o e = log /\ IsCalls(e)
  BY <1>3, NothingMore
<1> HIDE DEF y, v, e
<1>5. IsProgram(y, log) /\ ReadsSoundly(y.db, v)
  BY <1>1, PlayedIs
<1>6. KnowsFile(y, log)
  BY <1>1, PlayedSchema
<1>7. IsProgram(x, log) /\ x.db = y.db /\ x.position = y.position
  BY <1>2, <1>5, Relabelled
<1>8. Moves(p, x, e)
  BY <1>1, <1>2, <1>4, <1>5, <1>7 DEF Moves
<1>9. KnowsFile(x, log')
  BY <1>2, <1>6, <1>7 DEF KnowsFile
<1> QED
  BY <1>2, <1>8, <1>9, MovesSchema

(* The constructor of Client *)
LEMMA ConstructSchema ==
  ASSUME GeneratedInv, SchemaInv, NEW p \in Programs, Construct(p)
  PROVE  SchemaInv'
<1> DEFINE y == Played(p)
           s == "constructed"
           x == [y EXCEPT !.state = s]
<1>1. /\ programs' = [programs EXCEPT ![p] = x] /\ programs[p].state = "closed"
      /\ log' = log /\ holder' = holder /\ pending' = pending /\ invalid' = invalid
  BY DEF Construct
<1>2. p # holder
  BY <1>1, ProgramAssumption DEF GeneratedInv, HolderInv
<1>3. IsRelabelled(x, y, s, 0) /\ x = [y EXCEPT !.state = s] /\ y = Played(p) /\ s # "open"
  BY DEF IsRelabelled
<1> HIDE DEF x, y, s
<1>4. IsProgram(y, log)
  BY <1>2, <1>3, PlayedIs
<1>5. x.state = s
  BY <1>3, <1>4, NewState
<1>6. HasOwnSchema(x, VersionOf[p])
  BY <1>3, <1>5 DEF HasOwnSchema
<1> QED
  BY <1>1, <1>2, <1>3, <1>6, PlaysSchema

(* A schema that is compatible and not older is the same one. *)
LEMMA SameSchema ==
  ASSUME NEW g, NEW v, ReadsSoundly(g, v), SchemaIsCompatible(g), ~requires_schema_upgrade(g)
  PROVE  g.schema = Schema[v]
<1>1. HasSchema(g) /\ v \in Versions /\ g.version = v
  BY StorageHas DEF ReadsSoundly
<1>2. g.schema \o Missing(g, v) = Schema[v]
  BY <1>1, MissingCompletes
<1>3. Missing(g, v) = <<>>
  BY <1>1 DEF Missing, requires_schema_upgrade
<1>4. IsList(g.schema)
  BY <1>1 DEF HasSchema, IsList
<1> DEFINE a == g.schema
           b == Schema[v]
           e == Missing(g, v)
<1>5. e = <<>> /\ a \o e = b /\ IsList(a)
  BY <1>2, <1>3, <1>4
<1> HIDE DEF a, b, e
<1>6. a = b
  BY <1>5, EmptyList
<1> QED
  BY <1>6 DEF a, b

(* The constructor of Readonly_Client *)
LEMMA OpenReadonlySchema ==
  ASSUME GeneratedInv, SchemaInv, NEW p \in Programs, OpenReadonly(p)
  PROVE  SchemaInv'
<1> DEFINE y == Played(p)
           v == VersionOf[p]
<1>1. /\ programs[p].state = "closed" /\ ~requires_schema_upgrade(y.db)
      /\ log' = log /\ holder' = holder /\ pending' = pending /\ invalid' = invalid
      /\ \/ /\ programs' = [programs EXCEPT ![p] =
                 [y EXCEPT !.state = "open", !.schema_checkpoint = Len(y.db.schema)]]
            /\ SchemaIsCompatible(y.db)
         \/ programs' = [programs EXCEPT ![p] = [y EXCEPT !.state = "failed"]]
  BY DEF OpenReadonly
<1>2. p # holder
  BY <1>1, ProgramAssumption DEF GeneratedInv, HolderInv
<1>3. y = Played(p) /\ v = VersionOf[p] /\ v \in Versions
  BY ProgramAssumption
<1> HIDE DEF y, v
<1>4. IsProgram(y, log) /\ ReadsSoundly(y.db, v)
  BY <1>2, <1>3, PlayedIs
<1>5. CASE programs' = [programs EXCEPT ![p] = [y EXCEPT !.state = "failed"]]
  <2> DEFINE s == "failed"
             x == [y EXCEPT !.state = s]
  <2>1. /\ IsRelabelled(x, y, s, 0) /\ programs' = [programs EXCEPT ![p] = x] /\ s # "open"
        /\ x = [y EXCEPT !.state = s]
    BY <1>5 DEF IsRelabelled
  <2> HIDE DEF x, s
  <2>2. x.state = s
    BY <1>4, <2>1, NewState
  <2>3. HasOwnSchema(x, v)
    BY <2>1, <2>2 DEF HasOwnSchema
  <2> QED
    BY <1>1, <1>2, <1>3, <2>1, <2>3, PlaysSchema
<1>6. CASE /\ programs' = [programs EXCEPT ![p] =
                [y EXCEPT !.state = "open", !.schema_checkpoint = Len(y.db.schema)]]
           /\ SchemaIsCompatible(y.db)
  <2> DEFINE s == "open"
             g == y.db
             c == Len(g.schema)
             x == [y EXCEPT !.state = s, !.schema_checkpoint = c]
  <2>1. /\ IsRelabelled(x, y, s, c) /\ programs' = [programs EXCEPT ![p] = x]
        /\ IsOpened(x, y, s, c)
    BY <1>6 DEF IsRelabelled, IsOpened
  <2>2. ReadsSoundly(g, v) /\ SchemaIsCompatible(g) /\ ~requires_schema_upgrade(g)
        /\ c = Len(g.schema) /\ g = y.db
    BY <1>1, <1>4, <1>6
  <2> HIDE DEF x, c, g, s
  <2>3. x.db = g /\ x.schema_checkpoint = c
    <3>1. IsProgram(y, log) /\ IsOpened(x, y, s, c)
      BY <1>4, <2>1
    <3>2. x.db = y.db /\ x.schema_checkpoint = c
      BY <3>1, NewCheckpoint
    <3> QED
      BY <2>2, <3>2
  <2>4. g.schema = Schema[v]
    BY <2>2, SameSchema
  <2>5. HasOwnSchema(x, v)
    BY <1>3, <2>2, <2>3, <2>4, SchemasAre DEF HasOwnSchema
  <2> QED
    BY <1>1, <1>2, <1>3, <2>1, <2>5, PlaysSchema
<1> QED
  BY <1>1, <1>5, <1>6

(* pull *)
LEMMA PullSchema ==
  ASSUME GeneratedInv, SchemaInv, NEW p \in Programs, Pull(p)
  PROVE  SchemaInv'
<1> DEFINE y == Played(p)
           s == IF y.db.ok THEN "open" ELSE "failed"
           x == [y EXCEPT !.state = s]
<1>1. /\ p \in Writers => holder = Nobody
      /\ log' = log /\ holder' = holder /\ pending' = pending /\ invalid' = invalid
      /\ programs' = [programs EXCEPT ![p] = x] /\ IsRelabelled(x, y, s, 0)
      /\ programs[p].state = "open"
  BY DEF Pull, IsRelabelled
<1>2. p # holder
  BY <1>1, ProgramAssumption DEF GeneratedInv, HolderInv
<1>3. x = [y EXCEPT !.state = s] /\ y = Played(p)
  OBVIOUS
<1> HIDE DEF x, s, y
<1>4. /\ IsProgram(y, log) /\ HasOwnSchema(y, VersionOf[p]) /\ y.state = "open"
  BY <1>1, <1>2, <1>3, PlayedIs, PlayedSchema
<1>5. x.db = y.db /\ x.schema_checkpoint = y.schema_checkpoint
  BY <1>3, <1>4, NewState
<1>6. HasOwnSchema(x, VersionOf[p])
  BY <1>4, <1>5 DEF HasOwnSchema
<1> QED
  BY <1>1, <1>2, <1>3, <1>6, PlaysSchema

(* The first transaction of a Client: an upgrade completes the schema that   *)
(* check_schema has accepted.                                                *)
LEMMA InitializeSchema ==
  ASSUME GeneratedInv, SchemaInv, NEW p \in Programs, Initialize(p)
  PROVE  SchemaInv'
<1>1. /\ holder = Nobody /\ holder' = holder /\ pending' = pending /\ invalid' = invalid
  BY DEF Initialize, Upgraded
<1>2. p # holder
  BY <1>1, ProgramAssumption
<1>3. PICK y, u, more, x : Upgrading(p, y, u, more, x)
  BY <1>2, InitializeUpgrades
<1> DEFINE v == VersionOf[p]
           g == y.db
           l == log'
           n == Len(l)
<1>4. /\ l = log \o more /\ programs' = [programs EXCEPT ![p] = x] /\ y = Played(p)
      /\ u = auto_upgrade(g)
  BY <1>3 DEF Upgrading
<1>5. IsCalls(more) /\ IsProgram(x, l) /\ ReadsSoundly(x.db, v)
  BY <1>2, <1>3, UpgradingIs
<1>6. Moves(p, x, more)
  BY <1>1, <1>4, <1>5 DEF Moves
<1>7. IsCalls(log) /\ v \in Versions /\ v = VersionOf[p] /\ g = y.db /\ n = Len(l)
  BY ProgramAssumption DEF GeneratedInv
<1>8. \/ /\ g.ok = TRUE /\ u.db.ok = TRUE /\ more = u.calls /\ SchemaIsCompatible(g)
         /\ x = [state |-> "open", db |-> u.db, position |-> n,
                 schema_checkpoint |-> Len(u.db.schema)]
      \/ x = [y EXCEPT !.state = "failed"]
  BY <1>3 DEF Upgrading
<1>9. /\ IsProgram(y, log) /\ ReadsSoundly(g, v) /\ KnowsFile(y, log)
      /\ g.ok = TRUE => g.schema = SchemaOf(log)
  BY <1>2, <1>4, PlayedIs, PlayedSchema
<1> HIDE DEF v, g, l, n
<1>10. HasOwnSchema(x, v) /\ KnowsFile(x, l)
  <2>1. CASE x = [y EXCEPT !.state = "failed"]
    <3> DEFINE s == "failed"
    <3>1. x = [y EXCEPT !.state = s] /\ s # "open"
      BY <2>1
    <3> HIDE DEF s
    <3>2. x.state = s /\ x.db = y.db /\ x.position = y.position
      BY <1>9, <3>1, NewState
    <3>3. KnowsFile(y, l)
      BY <1>4, <1>5, <1>7, <1>9, KnowsGrown
    <3> QED
      BY <3>1, <3>2, <3>3 DEF HasOwnSchema, KnowsFile
  <2>2. CASE /\ g.ok = TRUE /\ u.db.ok = TRUE /\ more = u.calls /\ SchemaIsCompatible(g)
             /\ x = [state |-> "open", db |-> u.db, position |-> n,
                     schema_checkpoint |-> Len(u.db.schema)]
    <3> DEFINE c == Len(u.db.schema)
               h == u.db
               o == "open"
    <3>1. x = [state |-> o, db |-> h, position |-> n, schema_checkpoint |-> c]
      BY <2>2
    <3>2. h.schema = g.schema \o SchemaOf(more) /\ h.schema = Schema[v]
      BY <1>4, <1>9, <2>2, UpgradeCompletes
    <3>3. c = Len(h.schema)
      OBVIOUS
    <3> HIDE DEF c, h, o
    <3>4. x.db = h /\ x.position = n /\ x.schema_checkpoint = c
      BY <3>1
    <3>5. HasOwnSchema(x, v)
      BY <1>7, <3>2, <3>3, <3>4, SchemasAre DEF HasOwnSchema
    <3>6. SchemaOf(log \o more) = SchemaOf(log) \o SchemaOf(more)
      BY <1>5, <1>7, SchemaConcat
    <3>7. IsCalls(l)
      BY <1>4, <1>5, <1>7, CallsConcat
    <3>8. SubSeq(l, 1, n) = l
      BY <1>7, <3>7, WholeIs
    <3>9. KnowsFile(x, l)
      BY <1>4, <1>9, <2>2, <3>2, <3>4, <3>6, <3>8 DEF KnowsFile
    <3> QED
      BY <3>5, <3>9
  <2> QED
    BY <1>8, <2>1, <2>2
<1> QED
  BY <1>1, <1>2, <1>6, <1>7, <1>10, MovesSchema DEF l

(* A transaction starts only with the schema of the file. *)
LEMMA BeginSchema ==
  ASSUME GeneratedInv, SchemaInv, NEW p \in Programs, Begin(p)
  PROVE  SchemaInv'
<1> DEFINE y == Played(p)
           v == VersionOf[p]
           e == <<>>
           g == y.db
<1>1. /\ programs[p].state = "open" /\ holder = Nobody
      /\ programs' = [programs EXCEPT ![p] = y]
      /\ holder' = IF Throws(y) THEN Nobody ELSE p
      /\ log' = log /\ pending' = pending /\ invalid' = invalid
  BY DEF Begin
<1>2. p # holder /\ p # Nobody /\ y = Played(p) /\ v = VersionOf[p] /\ v \in Versions /\ g = y.db
  BY <1>1, ProgramAssumption
<1>3. IsCalls(log) /\ ProgramsInv /\ pending = e /\ e = <<>>
  BY <1>1 DEF GeneratedInv, HolderInv
<1>4. ~Throws(y) => g.ok /\ ~(Len(g.schema) > y.schema_checkpoint)
  BY DEF Throws
<1>5. log \o e = log /\ IsCalls(e)
  BY <1>3, NothingMore
<1> HIDE DEF y, v, e, g
<1>6. IsProgram(y, log) /\ ReadsSoundly(g, v) /\ y.state = "open"
  BY <1>1, <1>2, PlayedIs
<1>7. /\ KnowsFile(y, log) /\ HasOwnSchema(y, v)
      /\ g.ok = TRUE => g.schema = SchemaOf(log) /\ IsList(SchemaOf(log))
  BY <1>2, PlayedSchema
<1>8. CASE Throws(y)
  <2>1. holder' = holder
    BY <1>1, <1>8
  <2>2. Moves(p, y, e)
    BY <1>1, <1>2, <1>5, <1>6, <2>1 DEF Moves
  <2> QED
    BY <1>1, <1>2, <1>7, <2>2, MovesSchema
<1>9. CASE ~Throws(y)
  <2>1. g.ok = TRUE /\ g.schema = SchemaOf(log) /\ IsList(g.schema)
    BY <1>4, <1>6, <1>7, <1>9 DEF ReadsSoundly
  <2>2. y.schema_checkpoint = Len(Schema[v]) /\ Continues(g.schema, Schema[v])
    BY <1>2, <1>6, <1>7, <2>1 DEF HasOwnSchema
  <2>3. ~(Len(g.schema) > Len(Schema[v])) /\ IsList(Schema[v])
    BY <1>2, <1>4, <1>9, <2>2, SchemasAre
  <2>4. g.schema = Schema[v]
    BY <2>1, <2>2, <2>3, ContinuesAll
  <2>5. programs'[p] = y /\ \A q \in Programs : q # p => programs'[q] = programs[q]
    BY <1>1, <1>3 DEF ProgramsInv
  <2>6. \A q \in Programs : HasOwnSchema(programs'[q], VersionOf[q])
    BY <1>2, <1>7, <2>5 DEF SchemaInv
  <2>7. \A q \in Programs \ {p} : KnowsFile(programs'[q], log)
    BY <1>1, <2>5, ProgramAssumption DEF SchemaInv
  <2>8. holder' = p /\ log' = log
    BY <1>1, <1>9
  <2>9. SchemaOf(pending') = <<>>
    <3> DEFINE s == <<0>>
    <3>1. s = <<0>>
      OBVIOUS
    <3> HIDE DEF s
    <3>2. SchemaOf(e) = <<>>
      BY <1>3, <3>1, SchemaOne
    <3> QED
      BY <1>1, <1>3, <3>2
  <2>10. programs'[p].db.schema = Schema[v] /\ SchemaOf(log') = Schema[v]
    BY <1>2, <2>1, <2>4, <2>5, <2>8
  <2>11. /\ \A q \in Programs \ {holder'} : KnowsFile(programs'[q], log')
         /\ holder' # Nobody =>
              /\ programs'[holder'].db.schema = Schema[VersionOf[holder']]
              /\ SchemaOf(log') = Schema[VersionOf[holder']] /\ SchemaOf(pending') = <<>>
    BY <1>2, <2>7, <2>8, <2>9, <2>10
  <2> QED
    BY <2>6, <2>11 DEF SchemaInv
<1> QED
  BY <1>8, <1>9

(* The end of a transaction: the schema of the file is still the same. *)
LEMMA CommitSchema ==
  ASSUME GeneratedInv, SchemaInv, NEW p \in Programs, Commit(p)
  PROVE  SchemaInv'
<1> DEFINE v == VersionOf[p]
           a == programs[p]
           l == log'
           n == Len(l)
           y == [a EXCEPT !.position = n]
<1>1. /\ holder = p /\ holder' = Nobody /\ l = log \o pending
      /\ programs' = [programs EXCEPT ![p].position = n]
  BY DEF Commit
<1>2. IsCalls(log) /\ ProgramsInv /\ HolderInv /\ p # Nobody
  BY ProgramAssumption DEF GeneratedInv
<1>3. IsCalls(pending)
  <2>1. WriterAt(Writer(p), v)
    BY <1>1, WriterHas
  <2>2. Writer(p).calls = pending
    BY DEF Writer
  <2> QED
    BY <2>1, <2>2 DEF WriterAt
<1>4. programs'[p] = y /\ \A q \in Programs : q # p => programs'[q] = programs[q]
  BY <1>1, <1>2 DEF ProgramsInv
<1>5. /\ IsProgram(a, log) /\ HasOwnSchema(a, v) /\ a.db.schema = Schema[v]
      /\ SchemaOf(log) = Schema[v] /\ SchemaOf(pending) = <<>>
  BY <1>1, <1>2 DEF ProgramsInv, SchemaInv
<1>6. n = Len(l) /\ v = VersionOf[p] /\ y = [a EXCEPT !.position = n]
  OBVIOUS
<1> HIDE DEF v, a, l, n, y
<1>7. y.state = a.state /\ y.db = a.db /\ y.position = n /\ y.schema_checkpoint = a.schema_checkpoint
  <2>1. a = [state |-> a.state, db |-> a.db, position |-> a.position,
             schema_checkpoint |-> a.schema_checkpoint]
    BY <1>5 DEF IsProgram
  <2>2. y = [state |-> a.state, db |-> a.db, position |-> n,
             schema_checkpoint |-> a.schema_checkpoint]
    BY <1>6, <2>1
  <2> QED
    BY <2>2
<1>8. HasOwnSchema(y, v)
  BY <1>5, <1>7 DEF HasOwnSchema
<1>9. IsCalls(l) /\ SubSeq(l, 1, n) = l
  <2>1. IsCalls(l)
    BY <1>1, <1>2, <1>3, CallsConcat
  <2> QED
    BY <1>6, <2>1, WholeIs
<1>10. SchemaOf(l) = Schema[v]
  <2> DEFINE s == SchemaOf(log)
             e == SchemaOf(pending)
  <2>1. IsList(s) /\ SchemaOf(l) = s \o e /\ e = <<>>
    BY <1>1, <1>2, <1>3, <1>5, SchemaConcat
  <2> HIDE DEF s, e
  <2>2. s \o e = s
    BY <2>1, EmptyList
  <2> QED
    BY <1>5, <2>1, <2>2 DEF s
<1>11. KnowsFile(y, l)
  BY <1>5, <1>7, <1>9, <1>10 DEF KnowsFile
<1>12. \A x : IsProgram(x, log) /\ KnowsFile(x, log) => KnowsFile(x, l)
  BY <1>1, <1>2, <1>3, KnowsGrown
<1>13. \A q \in Programs : HasOwnSchema(programs'[q], VersionOf[q])
  BY <1>4, <1>6, <1>8 DEF SchemaInv
<1>14. \A q \in Programs : KnowsFile(programs'[q], l)
  BY <1>1, <1>2, <1>4, <1>11, <1>12 DEF SchemaInv, ProgramsInv
<1> QED
  BY <1>1, <1>13, <1>14 DEF SchemaInv, l

(* The end of a program in a transaction *)
LEMMA AbortSchema ==
  ASSUME GeneratedInv, SchemaInv, NEW p \in Programs, Abort(p)
  PROVE  SchemaInv'
<1> DEFINE y == Closed(p)
<1>1. /\ holder = p /\ holder' = Nobody /\ log' = log
      /\ programs' = [programs EXCEPT ![p] = y]
  BY DEF Abort
<1>2. IsCalls(log) /\ ProgramsInv
  BY DEF GeneratedInv
<1>3. y = Closed(p)
  OBVIOUS
<1> HIDE DEF y
<1>4. HasOwnSchema(y, VersionOf[p]) /\ KnowsFile(y, log)
  BY <1>2, <1>3, ClosedSchema
<1>5. programs'[p] = y /\ \A q \in Programs : q # p => programs'[q] = programs[q]
  BY <1>1, <1>2 DEF ProgramsInv
<1>6. \A q \in Programs : HasOwnSchema(programs'[q], VersionOf[q]) /\ KnowsFile(programs'[q], log)
  BY <1>1, <1>4, <1>5 DEF SchemaInv
<1> QED
  BY <1>1, <1>6 DEF SchemaInv

(* The end of a transaction: the file says then what its writer holds. *)
LEMMA CommitKeeps ==
  ASSUME GeneratedInv, NEW p \in Programs, Commit(p)
  PROVE  StepKeeps
<1> DEFINE w == Writer(p)
           v == VersionOf[p]
           g == w.db
           l == log'
           n == Len(l)
           y == [programs[p] EXCEPT !.position = n]
           b == NewStorage(v)
           e == Replayed(b, log)
           m == Replayed(e, pending)
<1>1. /\ holder = p /\ invalid = {} /\ holder' = Nobody /\ l = log \o pending /\ pending' = <<>>
      /\ programs' = [programs EXCEPT ![p].position = n] /\ invalid' = {}
  BY DEF Commit
<1>2. IsCalls(log) /\ ProgramsInv /\ HolderInv
  BY DEF GeneratedInv
<1>3. WriterAt(w, v) /\ g.ok = TRUE /\ w.invalid = {} /\ g = programs[p].db /\ w.calls = pending
  BY <1>1, WriterHas DEF Writer
<1>4. /\ programs' = [q \in Programs |-> programs'[q]]
      /\ programs'[p] = y /\ \A q \in Programs : q # p => programs'[q] = programs[q]
  BY <1>1, <1>2 DEF ProgramsInv
<1>5. IsProgram(programs[p], log) /\ y = [programs[p] EXCEPT !.position = n]
  BY <1>2 DEF ProgramsInv
<1>6. IsCalls(pending)
  BY <1>3 DEF WriterAt
<1>7. ReplayInv => Mirrored(w, v, e, programs[p].db.schema)
  BY <1>1, ProgramAssumption DEF ReplayInv
<1>8. n = Len(l) /\ v = VersionOf[p] /\ m = Replayed(e, pending) /\ e = Replayed(b, log)
  OBVIOUS
<1> HIDE DEF w, v, g, l, n, y, b, e, m
<1>9. /\ IsCalls(l) /\ n \in Nat /\ \A x : IsProgram(x, log) => IsProgram(x, l)
      /\ \A x, u : IsProgram(x, log) /\ Reads(x, u, log) => Reads(x, u, l)
  BY <1>1, <1>2, <1>6, <1>8, GrownLog
<1>10. IsProgram(y, l) /\ y.db = g /\ y.position = n
  <2> DEFINE a == programs[p]
  <2>1. /\ a = [state |-> a.state, db |-> a.db, position |-> a.position,
                schema_checkpoint |-> a.schema_checkpoint]
        /\ y = [a EXCEPT !.position = n] /\ a.db = g
    BY <1>3, <1>5 DEF IsProgram
  <2> HIDE DEF a
  <2>2. y = [state |-> a.state, db |-> a.db, position |-> n,
             schema_checkpoint |-> a.schema_checkpoint]
    BY <2>1
  <2>3. /\ y.state = a.state /\ y.db = a.db /\ y.position = n
        /\ y.schema_checkpoint = a.schema_checkpoint
    BY <2>2
  <2>4. n \in 0..Len(l)
    BY <1>8, <1>9
  <2> QED
    BY <2>1, <2>2, <2>3, <2>4 DEF IsProgram
<1>11. ReadsSoundly(g, v) /\ IsStorage(g, v) /\ IndexesAt(g, v, {})
  BY <1>3 DEF WriterAt, ReadsSoundly, g
<1>12. ProgramsInv'
  <2>1. \A q \in Programs : IsProgram(programs'[q], l)
    BY <1>2, <1>4, <1>9, <1>10 DEF ProgramsInv
  <2>2. \A q \in Programs : ReadsSoundly(programs'[q].db, VersionOf[q])
    BY <1>1, <1>2, <1>4, <1>8, <1>10, <1>11 DEF ProgramsInv
  <2>3. programs' = [q \in Programs |-> programs'[q]]
    BY <1>4
  <2> QED
    BY <2>1, <2>2, <2>3 DEF ProgramsInv, l
<1>13. HolderInv'
  BY <1>1 DEF HolderInv
<1>14. ASSUME ReplayInv
       PROVE  ReplayInv'
  <2>1. Mirrored(w, v, e, programs[p].db.schema)
    BY <1>7, <1>14
  <2>2. MirrorAt(w, v, m, programs[p].db.schema)
    BY <1>3, <1>8, <2>1 DEF Mirrored
  <2>3. ReadsSoundly(m, v) /\ m.ok = TRUE /\ m.schema = g.schema /\ Agree(g, m, v, {})
    BY <1>3, <2>2 DEF MirrorAt, g
  <2>4. /\ IsStorage(m, v) /\ IndexesAt(m, v, {})
    BY <2>3 DEF ReadsSoundly
  <2>5. g = m
    <3>1. g.ok = m.ok /\ g.schema = m.schema /\ IsStorage(g, v) /\ IndexesAt(g, v, {})
      BY <1>3, <1>11, <2>3
    <3>2. Agree(g, m, v, {})
      BY <2>3
    <3> QED
      BY <2>4, <3>1, <3>2, AgreeEqual
  <2>6. Replayed(b, l) = m
    <3>1. Replayed(b, log \o pending) = Replayed(Replayed(b, log), pending)
      <4>1. IsCalls(log) /\ IsCalls(pending)
        BY <1>2, <1>6
      <4> QED
        BY <4>1, ReplayedConcat
    <3> QED
      BY <1>1, <1>8, <3>1
  <2>7. SubSeq(l, 1, n) = l
    BY <1>8, <1>9, WholeIs
  <2>8. Reads(y, v, l)
    BY <1>10, <2>5, <2>6, <2>7 DEF Reads, b
  <2>9. \A q \in Programs : q # p => Reads(programs[q], VersionOf[q], log)
    BY <1>1, <1>14 DEF ReplayInv
  <2>10. \A q \in Programs : Reads(programs'[q], VersionOf[q], l)
    BY <1>2, <1>4, <1>8, <1>9, <2>8, <2>9 DEF ProgramsInv
  <2> QED
    BY <1>1, <2>10 DEF ReplayInv, l
<1> QED
  BY <1>9, <1>12, <1>13, <1>14 DEF StepKeeps, GeneratedInv, l

(* The end of a program in a transaction: it starts again from the file. *)
LEMMA AbortKeeps ==
  ASSUME GeneratedInv, NEW p \in Programs, Abort(p)
  PROVE  StepKeeps
<1> DEFINE y == Closed(p)
<1>1. /\ holder = p /\ holder' = Nobody /\ pending' = <<>> /\ invalid' = {} /\ log' = log
      /\ programs' = [programs EXCEPT ![p] = y]
  BY DEF Abort
<1>2. IsCalls(log) /\ ProgramsInv /\ HolderInv
  BY DEF GeneratedInv
<1>3. y = Closed(p)
  OBVIOUS
<1> HIDE DEF y
<1>4. IsProgram(y, log) /\ ReadsSoundly(y.db, VersionOf[p]) /\ Reads(y, VersionOf[p], log)
  BY <1>2, <1>3, ClosedIs
<1>5. /\ programs' = [q \in Programs |-> programs'[q]]
      /\ programs'[p] = y /\ \A q \in Programs : q # p => programs'[q] = programs[q]
  BY <1>1, <1>2 DEF ProgramsInv
<1>6. ProgramsInv'
  <2>1. \A q \in Programs : IsProgram(programs'[q], log')
    BY <1>1, <1>2, <1>4, <1>5 DEF ProgramsInv
  <2>2. \A q \in Programs : ReadsSoundly(programs'[q].db, VersionOf[q])
    BY <1>1, <1>2, <1>4, <1>5 DEF ProgramsInv
  <2>3. programs' = [q \in Programs |-> programs'[q]]
    BY <1>5
  <2> QED
    BY <2>1, <2>2, <2>3 DEF ProgramsInv
<1>7. HolderInv'
  BY <1>1 DEF HolderInv
<1>8. ReplayInv => ReplayInv'
  <2>1. ReplayInv => \A q \in Programs : Reads(programs'[q], VersionOf[q], log')
    BY <1>1, <1>4, <1>5 DEF ReplayInv
  <2> QED
    BY <1>1, <2>1 DEF ReplayInv
<1> QED
  BY <1>1, <1>2, <1>6, <1>7, <1>8 DEF StepKeeps, GeneratedInv

-----------------------------------------------------------------------------
(***************************************************************************)
(* The invariant.                                                          *)
(***************************************************************************)

LEMMA GeneratedInit ==
  ASSUME Init
  PROVE  GeneratedInv /\ ReplayInv /\ SchemaInv
<1>1. /\ programs = [p \in Programs |-> Closed(p)] /\ log \in Logs /\ holder = Nobody
      /\ pending = <<>> /\ invalid = {}
  BY DEF Init
<1>2. IsCalls(log)
  BY <1>1, LogAssumption DEF IsCalls
<1>3. \A p \in Programs : /\ IsProgram(Closed(p), log) /\ ReadsSoundly(Closed(p).db, VersionOf[p])
                          /\ Reads(Closed(p), VersionOf[p], log)
  BY <1>2, ClosedIs
<1>4. \A p \in Programs : programs[p] = Closed(p)
  BY <1>1
<1>5. programs = [p \in Programs |-> programs[p]]
  BY <1>1
<1>6. ProgramsInv
  BY <1>3, <1>4, <1>5 DEF ProgramsInv
<1>7. HolderInv
  BY <1>1 DEF HolderInv
<1>8. ReplayInv
  BY <1>1, <1>3, <1>4 DEF ReplayInv
<1>9. \A p \in Programs : HasOwnSchema(Closed(p), VersionOf[p]) /\ KnowsFile(Closed(p), log)
  BY <1>2, ClosedSchema
<1>10. SchemaInv
  BY <1>1, <1>4, <1>9 DEF SchemaInv
<1> QED
  BY <1>2, <1>6, <1>7, <1>8, <1>10 DEF GeneratedInv

(* Every step keeps the invariants. *)
LEMMA GeneratedNext ==
  ASSUME GeneratedInv, [Next]_vars
  PROVE  RepairKeeps
<1>1. ASSUME NEW p \in Programs, Construct(p)
      PROVE  RepairKeeps
  BY <1>1, ConstructKeeps, ConstructSchema DEF StepKeeps, RepairKeeps
<1>2. ASSUME NEW p \in Programs, Initialize(p)
      PROVE  RepairKeeps
  BY <1>2, InitializeKeeps, InitializeSchema DEF StepKeeps, RepairKeeps
<1>3. ASSUME NEW p \in Programs, OpenReadonly(p)
      PROVE  RepairKeeps
  BY <1>3, OpenReadonlyKeeps, OpenReadonlySchema DEF StepKeeps, RepairKeeps
<1>4. ASSUME NEW p \in Programs, Pull(p)
      PROVE  RepairKeeps
  BY <1>4, PullKeeps, PullSchema DEF StepKeeps, RepairKeeps
<1>5. ASSUME NEW p \in Programs, Begin(p)
      PROVE  RepairKeeps
  BY <1>5, BeginKeeps, BeginSchema DEF StepKeeps, RepairKeeps
<1>6. ASSUME NEW p \in Programs, Insert(p) \/ Delete(p) \/ Set(p)
      PROVE  RepairKeeps
  BY <1>6, InsertingKeeps, DeletingKeeps, SettingKeeps
<1>7. ASSUME NEW p \in Programs, Commit(p)
      PROVE  RepairKeeps
  BY <1>7, CommitKeeps, CommitSchema DEF StepKeeps, RepairKeeps
<1>8. ASSUME NEW p \in Programs, Abort(p)
      PROVE  RepairKeeps
  BY <1>8, AbortKeeps, AbortSchema DEF StepKeeps, RepairKeeps
<1>9. CASE UNCHANGED vars
  BY <1>9 DEF vars, RepairKeeps, GeneratedInv, ProgramsInv, HolderInv, ReplayInv, SchemaInv, Writer
<1> QED
  BY <1>1, <1>2, <1>3, <1>4, <1>5, <1>6, <1>7, <1>8, <1>9 DEF Next

(* In every reachable state the storage of every program is well formed and  *)
(* its indexes are sound, but for the cells whose last update threw: the     *)
(* internal functions of Database keep them so, in a transaction, in a       *)
(* replay and in an upgrade.                                                 *)
THEOREM GeneratedInvHolds == Spec => []GeneratedInv
<1>1. Init => GeneratedInv
  BY GeneratedInit
<1>2. GeneratedInv /\ [Next]_vars => GeneratedInv'
  BY GeneratedNext DEF RepairKeeps
<1> QED
  BY <1>1, <1>2, PTL DEF Spec

(* With a user who repairs an update that failed before anything else (see   *)
(* FixFirst), every database is what Database_Writable makes of the journal. *)
THEOREM ReplayInvHolds ==
  ASSUME FixFirst
  PROVE  Spec => []ReplayInv
<1>1. Init => GeneratedInv /\ ReplayInv
  BY GeneratedInit
<1>2. GeneratedInv /\ ReplayInv /\ [Next]_vars => GeneratedInv' /\ ReplayInv'
  BY GeneratedNext DEF RepairKeeps
<1> QED
  BY <1>1, <1>2, PTL DEF Spec

-----------------------------------------------------------------------------
(***************************************************************************)
(* The properties of the programs.                                         *)
(***************************************************************************)

(* The records in use of a table *)
LEMMA RecordsAre ==
  ASSUME NEW g, NEW v, IsStorage(g, v), NEW t \in TablesOf(v)
  PROVE  \A r : r \in Records(g.tables[t].freedom, TRUE) <=> r \in Nat /\ IsUsed(Keeper(g, t), r)
<1> DEFINE k == Keeper(g, t)
<1>1. KeeperInv(k) /\ KeeperSize(k) \in Nat /\ \A r \in Int : IsUsed(k, r) => r \in 0..(KeeperSize(k) - 1)
  BY StorageHas DEF Size
<1>2. g.tables[t].freedom = k
  BY DEF Keeper
<1> HIDE DEF k
<1>3. \A r : r \in Records(k, TRUE) <=> r \in 0..(KeeperSize(k) - 1) /\ IsUsed(k, r)
  <2>1. CASE DenseInv(k)
    <3>1. k.dense = TRUE
      BY <2>1 DEF DenseInv
    <3> QED
      BY <3>1 DEF IsUsed, Records
  <2>2. CASE ListInv(k)
    <3>1. k.dense = FALSE
      BY <2>2, ListFields
    <3> QED
      BY <3>1 DEF IsUsed, ListIsUsed, Records
  <2> QED
    BY <1>1, <2>1, <2>2 DEF KeeperInv
<1> DEFINE n == KeeperSize(k)
           used == Records(k, TRUE)
<1>3a. n \in Nat /\ \A r \in Int : IsUsed(k, r) => r \in 0..(n - 1)
  BY <1>1
<1> HIDE DEF n
<1>3b. \A r : r \in used <=> r \in 0..(n - 1) /\ IsUsed(k, r)
  BY <1>3 DEF n
<1> HIDE DEF used
<1>4. \A r : r \in used <=> r \in Nat /\ IsUsed(k, r)
  <2>1. ASSUME NEW r \in used
        PROVE  r \in Nat /\ IsUsed(k, r)
    BY <1>3a, <1>3b
  <2>2. ASSUME NEW r \in Nat, IsUsed(k, r)
        PROVE  r \in used
    BY <1>3a, <1>3b, <2>2
  <2> QED
    BY <2>1, <2>2
<1> QED
  BY <1>2, <1>4 DEF k, used

(* What IndexesSound says of one index *)
IndexSound(g, v, i, up_to_date) ==
  LET index == Indexes[v][i]
      used  == Records(g.tables[index.t].freedom, TRUE)
  IN /\ g.index[i] = {g.iterator[i][r] : r \in used} \ {End}
     /\ \A r \in used : g.iterator[i][r] # End => g.iterator[i][r][2] = r
     /\ index.unique => \A d, e \in g.index[i] : d[1] = e[1] => d = e
     /\ \A e \in g.index[i], k \in DOMAIN index.fs :
          IsTrigger(index, index.t, index.fs[k]) /\ up_to_date =>
            e[1][k] = g.tables[index.t].columns[index.fs[k]][e[2]]

(* An index of the invariant is sound in the words of IndexesSound. *)
LEMMA IndexIsSound ==
  ASSUME NEW g, NEW v, IsStorage(g, v), NEW bad, NEW i \in IndexesOf(v), IndexAt(g, v, i, bad),
         NEW up_to_date, up_to_date => bad = {}
  PROVE  IndexSound(g, v, i, up_to_date)
<1> DEFINE index == Indexes[v][i]
           t == TableOf(v, i)
           used == Records(g.tables[t].freedom, TRUE)
           it == g.iterator[i]
<1>1. t \in TablesOf(v) /\ t = index.t
  BY StorageHas DEF TableOf
<1>2. \A r : r \in used <=> r \in Nat /\ IsUsed(Keeper(g, t), r)
  BY <1>1, RecordsAre
<1> HIDE DEF used
<1>3. \A r : Entered(g, v, i, r) <=> r \in used /\ it[r] # End
  BY <1>2 DEF Entered
<1>4. /\ \A e : e \in g.index[i] <=> \E r : Entered(g, v, i, r) /\ it[r] = e
      /\ \A r : Entered(g, v, i, r) => it[r] = <<it[r][1], r>>
  BY DEF IndexAt
<1>5. g.index[i] = {it[r] : r \in used} \ {End}
  BY <1>3, <1>4
<1>6. \A r : Entered(g, v, i, r) => it[r][2] = r
  <2>1. ASSUME NEW r, Entered(g, v, i, r)
        PROVE  it[r][2] = r
    <3> DEFINE a == it[r][1]
    <3>1. it[r] = <<a, r>>
      BY <1>4, <2>1
    <3> HIDE DEF a
    <3> QED
      BY <3>1
  <2> QED
    BY <2>1
<1>7. \A r \in used : it[r] # End => it[r][2] = r
  BY <1>3, <1>6
<1>8. ASSUME index.unique, NEW d \in g.index[i], NEW e \in g.index[i], d[1] = e[1]
      PROVE  d = e
  <2>1. PICK r : Entered(g, v, i, r) /\ it[r] = d
    BY <1>4
  <2>2. PICK q : Entered(g, v, i, q) /\ it[q] = e
    BY <1>4
  <2>3. r = q
    BY <1>8, <2>1, <2>2 DEF IndexAt
  <2> QED
    BY <2>1, <2>2, <2>3
<1>9. ASSUME NEW e \in g.index[i], NEW k \in DOMAIN index.fs,
             IsTrigger(index, t, index.fs[k]), up_to_date
      PROVE  e[1][k] = g.tables[t].columns[index.fs[k]][e[2]]
  <2>1. PICK r : Entered(g, v, i, r) /\ it[r] = e
    BY <1>4
  <2>2. e[2] = r
    BY <1>6, <2>1
  <2>3. IsTriggerAt(v, i, k)
    BY <1>9 DEF IsTriggerAt, FieldAt
  <2>4. bad = {}
    BY <1>9
  <2>5. it[r][1][k] = Cell(g, t, FieldAt(v, i, k), r)
    BY <2>1, <2>3, <2>4 DEF IndexAt
  <2> QED
    BY <2>1, <2>2, <2>5 DEF Cell, FieldAt
<1> QED
  BY <1>1, <1>5, <1>7, <1>8, <1>9 DEF IndexSound, used

(* A storage is sound in the words of StorageSound. *)
LEMMA StorageIsSound ==
  ASSUME NEW g, NEW v, IsStorage(g, v)
  PROVE  StorageSound(g)
<1>0. /\ v \in Versions /\ g.version = v /\ DOMAIN g.tables = TablesOf(v)
      /\ DOMAIN g.iterator = IndexesOf(v)
  BY StorageHas
<1>1. ASSUME NEW t \in TablesOf(v)
      PROVE  LET records == 0..(KeeperSize(g.tables[t].freedom) - 1)
             IN /\ \A f \in DOMAIN g.tables[t].columns : DOMAIN g.tables[t].columns[f] = records
                /\ \A i \in {j \in DOMAIN g.iterator : Indexes[g.version][j].t = t} :
                     /\ DOMAIN g.iterator[i] = records
                     /\ \A r \in Records(g.tables[t].freedom, TRUE) : g.iterator[i][r] # Singular
  <2> DEFINE records == 0..(KeeperSize(g.tables[t].freedom) - 1)
             used == Records(g.tables[t].freedom, TRUE)
  <2>1. \A f \in DOMAIN g.tables[t].columns : DOMAIN g.tables[t].columns[f] = records
    BY StorageHas DEF Size, Keeper
  <2>2. \A r : r \in used <=> r \in Nat /\ IsUsed(Keeper(g, t), r)
    BY RecordsAre
  <2>2a. records = 0..(Size(g, t) - 1)
    BY DEF Size, Keeper
  <2> HIDE DEF used, records
  <2>3. ASSUME NEW i \in IndexesOf(v), Indexes[v][i].t = t
        PROVE  DOMAIN g.iterator[i] = records /\ \A r \in used : g.iterator[i][r] # Singular
    <3>1. TableOf(v, i) = t
      BY <2>3 DEF TableOf
    <3>2. DOMAIN g.iterator[i] = records
      BY <2>2a, <3>1, StorageHas
    <3>3. \A r \in Nat : IsUsed(Keeper(g, t), r) => g.iterator[i][r] # Singular
      BY <3>1 DEF IsStorage
    <3> QED
      BY <2>2, <3>2, <3>3
  <2> QED
    BY <1>0, <2>1, <2>3 DEF used, records
<1> QED
  BY <1>0, <1>1 DEF StorageSound

(* Every entry of an index is the iterator of one record in use, with the    *)
(* key that the record has, for the programs of any version (the maps of     *)
(* Database.h, add_index_of and remove_index_of).                            *)
THEOREM IndexesSoundHolds == Spec => []IndexesSound
<1>1. GeneratedInv => IndexesSound
  <2> SUFFICES ASSUME GeneratedInv
               PROVE  IndexesSound
    OBVIOUS
  <2>1. ASSUME NEW p \in Programs, NEW g, g = programs[p].db
        PROVE  /\ StorageSound(g)
               /\ g.ok => \A i \in DOMAIN g.index :
                            IndexSound(g, g.version, i, holder = p => invalid = {})
    <3> DEFINE v == VersionOf[p]
               bad == IF holder = p THEN invalid ELSE {}
               up_to_date == holder = p => invalid = {}
    <3>1. IsStorage(g, v) /\ (g.ok => IndexesAt(g, v, bad))
      <4>1. CASE holder = p
        <5>1. WriterAt(Writer(p), v) /\ Writer(p).db = g /\ Writer(p).invalid = invalid
          BY <2>1, <4>1, WriterHas
        <5> QED
          BY <4>1, <5>1 DEF WriterAt
      <4>2. CASE holder # p
        <5>1. ReadsSoundly(g, v)
          BY <2>1, <4>2 DEF GeneratedInv, ProgramsInv
        <5> QED
          BY <4>2, <5>1 DEF ReadsSoundly
      <4> QED
        BY <4>1, <4>2
    <3>2. up_to_date => bad = {}
      OBVIOUS
    <3>2a. up_to_date <=> (holder = p => invalid = {})
      OBVIOUS
    <3> HIDE DEF v, bad
    <3>3. StorageSound(g)
      BY <3>1, StorageIsSound
    <3>4. g.version = v /\ DOMAIN g.index = IndexesOf(v)
      BY <3>1, StorageHas
    <3>5. ASSUME g.ok, NEW i \in IndexesOf(v)
          PROVE  IndexSound(g, v, i, up_to_date)
      <4>1. IndexAt(g, v, i, bad)
        BY <3>1, <3>5 DEF IndexesAt
      <4> HIDE DEF up_to_date
      <4> QED
        BY <3>1, <3>2, <4>1, IndexIsSound
    <3> QED
      BY <3>3, <3>4, <3>5
  <2> QED
    BY <2>1 DEF IndexesSound, IndexSound
<1> QED
  BY <1>1, GeneratedInvHolds, PTL

(* What the file and the transaction say of the database of the writer *)
LEMMA MirrorIs ==
  ASSUME GeneratedInv, ReplayInv, holder # Nobody,
         NEW p, p = holder, NEW g, g = programs[p].db, NEW v, v = VersionOf[p]
  PROVE  /\ ReadsSoundly(Mirror, v) /\ Mirror.ok = TRUE /\ Mirror.schema = g.schema
         /\ Agree(g, Mirror, v, invalid)
<1> DEFINE b == NewStorage(v)
           e == Replayed(b, log)
           m == Replayed(e, pending)
           w == Writer(p)
<1>1. p \in Programs /\ IsCalls(log)
  BY DEF GeneratedInv, HolderInv, Programs
<1>2. WriterAt(w, v) /\ w.db = g /\ w.invalid = invalid /\ w.calls = pending
  BY <1>1, WriterHas DEF Writer
<1>3. IsCalls(pending)
  BY <1>2 DEF WriterAt
<1>4. Mirrored(w, v, e, g.schema)
  BY DEF ReplayInv
<1>5. Mirror = Replayed(b, log \o pending)
  BY DEF Mirror
<1>6. m = Replayed(e, pending) /\ e = Replayed(b, log)
  OBVIOUS
<1> HIDE DEF b, e, m, w
<1>7. Mirror = m
  <2>1. Replayed(b, log \o pending) = Replayed(Replayed(b, log), pending)
    BY <1>1, <1>3, ReplayedConcat
  <2> QED
    BY <1>5, <1>6, <2>1
<1>8. MirrorAt(w, v, m, g.schema)
  BY <1>2, <1>4, <1>6 DEF Mirrored
<1> QED
  BY <1>2, <1>7, <1>8 DEF MirrorAt

(* What a transaction has written can be read: see Writable_Database, which  *)
(* executes a call before it writes it to the journal.                       *)
THEOREM FileReadableHolds ==
  ASSUME FixFirst
  PROVE  Spec => []FileReadable
<1>1. GeneratedInv /\ ReplayInv => FileReadable
  BY MirrorIs DEF FileReadable
<1> QED
  BY <1>1, GeneratedInvHolds, ReplayInvHolds, PTL

(* Every program holds exactly what the file says, its indexes and the lists *)
(* of its freedom keepers included, although the database that writes a      *)
(* journal and the one that plays it do not make the same calls.             *)
THEOREM ReplicasAgreeHolds ==
  ASSUME FixFirst
  PROVE  Spec => []ReplicasAgree
<1>1. GeneratedInv /\ ReplayInv => ReplicasAgree
  <2> SUFFICES ASSUME GeneratedInv, ReplayInv
               PROVE  ReplicasAgree
    OBVIOUS
  <2>1. ASSUME holder # Nobody, invalid = {}
        PROVE  programs[holder].db = Mirror
    <3> DEFINE g == programs[holder].db
               v == VersionOf[holder]
               m == Mirror
    <3>1. ReadsSoundly(m, v) /\ m.ok = TRUE /\ m.schema = g.schema /\ Agree(g, m, v, {})
      BY <2>1, MirrorIs
    <3>2. holder \in Programs
      BY <2>1 DEF GeneratedInv, HolderInv, Programs
    <3>3. /\ WriterAt(Writer(holder), v) /\ Writer(holder).db = g /\ g.ok = TRUE
          /\ Writer(holder).invalid = {}
      BY <2>1, <3>2, WriterHas
    <3> HIDE DEF g, m, v
    <3>4. IsStorage(g, v) /\ IndexesAt(g, v, {}) /\ g.ok = m.ok /\ g.schema = m.schema
      BY <3>1, <3>3 DEF WriterAt
    <3>5. IsStorage(m, v) /\ IndexesAt(m, v, {}) /\ Agree(g, m, v, {})
      BY <3>1 DEF ReadsSoundly
    <3>6. g = m
      BY <3>4, <3>5, AgreeEqual
    <3> QED
      BY <3>6 DEF g, m
  <2>2. \A p \in Programs \ {holder} :
          programs[p].db = Replayed(NewStorage(VersionOf[p]), SubSeq(log, 1, programs[p].position))
    BY DEF ReplayInv, Reads
  <2> QED
    BY <2>1, <2>2 DEF ReplicasAgree
<1> QED
  BY <1>1, GeneratedInvHolds, ReplayInvHolds, PTL

(* A transaction starts only if the schema of the file is exactly that of    *)
(* the program, and keeps it so: auto_upgrade completes a schema that        *)
(* check_schema found compatible, read_journal refuses whatever another      *)
(* program appends to it, and the calls of a user are about rows.            *)
THEOREM SchemaGuardHolds == Spec => []SchemaGuard
<1>1. Init => GeneratedInv /\ SchemaInv
  BY GeneratedInit
<1>2. GeneratedInv /\ SchemaInv /\ [Next]_vars => GeneratedInv' /\ SchemaInv'
  BY GeneratedNext DEF RepairKeeps
<1>3. SchemaInv => SchemaGuard
  BY DEF SchemaInv, SchemaGuard
<1> QED
  BY <1>1, <1>2, <1>3, PTL DEF Spec
============================================================================
