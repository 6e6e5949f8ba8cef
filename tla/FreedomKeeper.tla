--------------------------- MODULE FreedomKeeper ---------------------------
(***************************************************************************)
(* The allocator of record identifiers (Freedom_Keeper.h).  It starts as a *)
(* Dense_Freedom_Keeper, two counters that are enough as long as records   *)
(* are used and freed at the end, and turns once into a                    *)
(* List_Freedom_Keeper: two circular doubly-linked lists, of used and of   *)
(* free records, stored in three arrays that start at index -2.            *)
(*                                                                         *)
(* A keeper is a value (a record), and its member functions are operators  *)
(* from keepers to keepers, so that every table of the interpreted and of  *)
(* the generated databases can hold one.  After lose_compactness the dense *)
(* counters are never read again, so the value drops them.                 *)
(***************************************************************************)
EXTENDS Integers

used_list == -2

free_list == -1

(* for (i = 0; i < n; i++) F(k, first + i) *)
Iterate(F(_, _), k, first, n) ==
  LET g[i \in 0..n] == IF i = 0 THEN k ELSE F(g[i - 1], first + i - 1)
  IN g[n]

-----------------------------------------------------------------------------
(* List_Freedom_Keeper *)

NewList ==
  [dense      |-> FALSE,
   size       |-> 0,
   used_count |-> 0,
   is_free    |-> [i \in used_list..free_list |-> i = free_list],
   next       |-> [i \in used_list..free_list |-> i],
   previous   |-> [i \in used_list..free_list |-> i]]

ListPushBack(k) ==
  LET index == k.size
      first == k.next[free_list]
      grown(f, x) == [i \in used_list..index |-> IF i = index THEN x ELSE f[i]]
  IN [k EXCEPT
       !.size = index + 1,
       !.is_free = grown(@, TRUE),
       !.next = [grown(@, first) EXCEPT ![free_list] = index],
       !.previous = [grown(@, free_list) EXCEPT ![first] = index]]

Unlinked(k, index) ==
  [k EXCEPT
    !.next[k.previous[index]] = k.next[index],
    !.previous[k.next[index]] = k.previous[index]]

(* use appends the record at the end of the used list *)
ListUse(k, index) ==
  LET u    == Unlinked(k, index)
      last == u.previous[used_list]
  IN [u EXCEPT
       !.is_free[index] = FALSE,
       !.previous = [@ EXCEPT ![index] = last, ![used_list] = index],
       !.next = [@ EXCEPT ![index] = used_list, ![last] = index],
       !.used_count = @ + 1]

(* A mutant: the record is not unlinked from the used list. *)
ListFreeStillLinked(k, index) ==
  LET first == k.next[free_list]
  IN [k EXCEPT
       !.is_free[index] = TRUE,
       !.next = [@ EXCEPT ![index] = first, ![free_list] = index],
       !.previous = [@ EXCEPT ![index] = free_list, ![first] = index],
       !.used_count = @ - 1]

(* free pushes the record at the front of the free list *)
ListFree(k, index) ==
  LET u     == Unlinked(k, index)
      first == u.next[free_list]
  IN [u EXCEPT
       !.is_free[index] = TRUE,
       !.next = [@ EXCEPT ![index] = first, ![free_list] = index],
       !.previous = [@ EXCEPT ![index] = free_list, ![first] = index],
       !.used_count = @ - 1]

ListUseVector(k, index, size) == Iterate(ListUse, k, index, size)

ListFreeVector(k, index, size) == Iterate(ListFree, k, index, size)

ListIsUsed(k, index) == index >= 0 /\ index < k.size /\ ~k.is_free[index]

ListIsFreeVector(k, index, size) ==
  /\ index >= 0
  /\ \A i \in index..(index + size - 1) : i < k.size => k.is_free[i]

ListIsUsedVector(k, index, size) ==
  /\ index >= 0 /\ index <= k.size
  /\ size <= k.size - index
  /\ \A i \in index..(index + size - 1) : ~k.is_free[i]

-----------------------------------------------------------------------------
(* Dense_Freedom_Keeper: records 0 .. used_size - 1 are used, and          *)
(* used_size .. free_size - 1 are free.  use and free only work at the     *)
(* limit between the two.                                                  *)

NewKeeper == [dense |-> TRUE, used_size |-> 0, free_size |-> 0]

DenseNext(k, index) ==
  CASE index = used_list -> IF k.used_size = 0 THEN used_list ELSE 0
    [] index = free_list -> IF k.used_size = k.free_size THEN free_list ELSE k.used_size
    [] index >= 0 -> IF index + 1 = k.used_size THEN used_list
                     ELSE IF index + 1 = k.free_size THEN free_list ELSE index + 1

DensePrevious(k, index) ==
  CASE index = used_list -> IF k.used_size = 0 THEN used_list ELSE k.used_size - 1
    [] index = free_list -> IF k.used_size = k.free_size THEN free_list ELSE k.free_size - 1
    [] index >= 0 -> IF index = k.used_size THEN free_list
                     ELSE IF index = 0 THEN used_list ELSE index - 1

DenseCanUse(k, index, size) == index = k.used_size /\ k.used_size + size <= k.free_size

DenseCanFree(k, index, size) == index + size = k.used_size /\ index >= 0

DenseIsUsedVector(k, index, size) ==
  index >= 0 /\ index <= k.used_size /\ size <= k.used_size - index

-----------------------------------------------------------------------------
(* Freedom_Keeper: the switch between the two *)

KeeperSize(k) == IF k.dense THEN k.free_size ELSE k.size

UsedCount(k) == IF k.dense THEN k.used_size ELSE k.used_count

IsUsed(k, index) ==
  IF k.dense THEN index >= 0 /\ index < k.used_size ELSE ListIsUsed(k, index)

GetNext(k, index) == IF k.dense THEN DenseNext(k, index) ELSE k.next[index]

GetPrevious(k, index) == IF k.dense THEN DensePrevious(k, index) ELSE k.previous[index]

IsFreeVector(k, index, size) ==
  IF k.dense THEN index >= k.used_size ELSE ListIsFreeVector(k, index, size)

IsUsedVector(k, index, size) ==
  IF k.dense THEN DenseIsUsedVector(k, index, size) ELSE ListIsUsedVector(k, index, size)

LoseCompactness(k) ==
  Iterate(ListUse,
          Iterate(LAMBDA l, i : ListPushBack(l), NewList, 0, k.free_size),
          0, k.used_size)

AsList(k) == IF k.dense THEN LoseCompactness(k) ELSE k

PushBack(k) == IF k.dense THEN [k EXCEPT !.free_size = @ + 1] ELSE ListPushBack(k)

Resize(k, new_size) ==
  IF k.dense
  THEN [k EXCEPT !.free_size = IF @ < new_size THEN new_size ELSE @]
  ELSE IF k.size < new_size
       THEN Iterate(LAMBDA l, i : ListPushBack(l), k, 0, new_size - k.size)
       ELSE k

(* get_free_record: the record it returns, and the keeper it leaves *)
GetFreeRecord(k) ==
  LET grown == IF GetNext(k, free_list) = free_list THEN PushBack(k) ELSE k
  IN [record |-> GetNext(grown, free_list), keeper |-> grown]

UseVector(k, index, size) ==
  IF k.dense /\ DenseCanUse(k, index, size)
  THEN [k EXCEPT !.used_size = @ + size]
  ELSE ListUseVector(AsList(k), index, size)

FreeVector(k, index, size) ==
  IF k.dense /\ DenseCanFree(k, index, size)
  THEN [k EXCEPT !.used_size = @ - size]
  ELSE ListFreeVector(AsList(k), index, size)

Use(k, index) == UseVector(k, index, 1)

Free(k, index) == FreeVector(k, index, 1)

-----------------------------------------------------------------------------
(* What the lists promise *)

(* The records met by following Step from the head of a list, for n steps. *)
Walk(k, Step(_, _), head, n) ==
  LET w[i \in 0..n] == IF i = 0 THEN head ELSE Step(k, w[i - 1])
  IN [i \in 1..n |-> w[i]]

Records(k, used) == {i \in 0..(KeeperSize(k) - 1) : IsUsed(k, i) = used}

(* Walking a list from its head meets each of its records once and comes    *)
(* back to the head, and walking it backward meets them in reverse order.   *)
ListIsSound(k, head, n, records) ==
  LET forward  == Walk(k, GetNext, head, n + 1)
      backward == Walk(k, GetPrevious, head, n + 1)
  IN /\ {forward[i] : i \in 1..n} = records
     /\ forward[n + 1] = head
     /\ backward[n + 1] = head
     /\ \A i \in 1..n : backward[i] = forward[n + 1 - i]

KeeperIsSound(k) ==
  /\ UsedCount(k) <= KeeperSize(k)
  /\ ListIsSound(k, used_list, UsedCount(k), Records(k, TRUE))
  /\ ListIsSound(k, free_list, KeeperSize(k) - UsedCount(k), Records(k, FALSE))
============================================================================
