--------------------------- MODULE JournalProofs ---------------------------
(***************************************************************************)
(* Theorems about Journal, for any set of processes, any length of the     *)
(* file and any combination of opening modes, recoveries and failures.     *)
(* Then: what precedes an acknowledged hard checkpoint never changes, and  *)
(* without failures the processes that share a file implement the log of   *)
(* SharedLog.                                                              *)
(***************************************************************************)
EXTENDS Journal, TLAPS

(***************************************************************************)
(* What reading the head returns.                                          *)
(***************************************************************************)

\* Scanning a pair for a hard checkpoint yields a journal state.
LEMMA ScanHardType ==
    ASSUME NEW j \in JournalState, NEW s \in Slots, NEW i \in {0, 1}
    PROVE  ScanHard(j, s, i) \in JournalState
<1>1. 2*i \in SlotIndex /\ s[2*i] \in -MaxSize .. MaxSize
  BY DEF SlotIndex, Slots
<1>2. j.hard \in Position
  BY DEF JournalState
<1>3. ASSUME s[2*i] >= j.hard
      PROVE  s[2*i] \in Position
  BY <1>1, <1>2, <1>3, SizeAssumption DEF Position
<1> QED BY <1>1, <1>3 DEF ScanHard, JournalState

\* So does scanning a slot for a soft checkpoint.
LEMMA ScanSoftType ==
    ASSUME NEW j \in JournalState, NEW s \in Slots, NEW n \in Int,
           NEW i \in {0, 1}, NEW k \in {0, 1}
    PROVE  ScanSoft(j, s, n, i, k) \in JournalState
<1>1. 2*i + k \in SlotIndex /\ s[2*i + k] \in -MaxSize .. MaxSize
  BY DEF SlotIndex, Slots
<1>2. j.checkpoint \in Position
  BY DEF JournalState
<1>3. ASSUME -s[2*i + k] >= j.checkpoint
      PROVE  -s[2*i + k] \in Position
  BY <1>1, <1>2, <1>3, SizeAssumption DEF Position
<1>4. 1 - i \in {0, 1}
  OBVIOUS
<1> QED BY <1>1, <1>3, <1>4 DEF ScanSoft, JournalState

\* read_checkpoint turns a journal state into a journal state.
LEMMA ReadCheckpointType ==
    ASSUME NEW j \in JournalState, NEW s \in Slots, NEW n \in Int
    PROVE  read_checkpoint(j, s, n) \in JournalState
<1>1. \A i \in {0, 1}, x \in JournalState : ScanPair(s, n, i)[x] \in JournalState
  BY ScanHardType, ScanSoftType DEF ScanPair
<1> DEFINE k == ScanPair(s, n, 1)[ScanPair(s, n, 0)[j]]
<1>2. k \in JournalState
  BY <1>1
<1>3. read_checkpoint(j, s, n) = [k EXCEPT !.checkpoint = Max2(k.checkpoint, k.hard)]
  BY DEF read_checkpoint
<1> HIDE DEF k
<1>4. Max2(k.checkpoint, k.hard) \in Position
  BY <1>2 DEF Max2, JournalState
<1> QED BY <1>2, <1>3, <1>4 DEF JournalState

LEMMA FreshType == Fresh \in JournalState
  BY SizeAssumption DEF Fresh, JournalState, Position

\* The constructors of the journal classes build a journal state.
LEMMA ConstructedType ==
    ASSUME TypeOK, NEW recovery \in Recoveries
    PROVE  Constructed(recovery) \in JournalState
<1>1. Max2(size, HeaderSize) \in Position
  BY SizeAssumption DEF TypeOK, Max2, Position
<1>2. [Fresh EXCEPT !.checkpoint = Max2(size, HeaderSize)] \in JournalState
  BY <1>1, FreshType DEF JournalState
<1>3. size \in Int /\ slot \in Slots
  BY SizeAssumption DEF TypeOK
<1>4. read_checkpoint(Fresh, slot, size) \in JournalState
  BY <1>3, FreshType, ReadCheckpointType
<1> QED BY <1>2, <1>4 DEF Constructed

\* New checkpoints keep the type of a journal state.
LEMMA AdvanceType ==
    ASSUME NEW j \in JournalState, NEW p \in Position
    PROVE  SoftAdvance(j, p) \in JournalState /\ HardAdvance(j, p) \in JournalState
<1>1. 1 - j.soft_index \in {0, 1} /\ 1 - j.hard_index \in {0, 1}
  BY DEF JournalState
<1>2. SoftAdvance(j, p) \in JournalState
  BY <1>1 DEF SoftAdvance, JournalState
<1>3. HardAdvance(j, p) \in JournalState
  BY <1>1 DEF HardAdvance, JournalState
<1> QED BY <1>2, <1>3

(***************************************************************************)
(* The effect of the elementary operations on types.                       *)
(***************************************************************************)

LEMMA WriteSlotType ==
    ASSUME TypeOK, NEW i \in SlotIndex, NEW x \in -MaxSize .. MaxSize,
           WriteSlot(i, x)
    PROVE  slot' \in Slots /\ dhead' \in SUBSET Head
  BY DEF TypeOK, WriteSlot, Slots, Head

LEMMA WriteBufferType ==
    ASSUME TypeOK, NEW w \in Writer, WriteBuffer(w)
    PROVE  /\ body' \in [Offset -> Byte] /\ dbody' \in [Offset -> SUBSET Byte]
           /\ size' \in 0..MaxSize /\ size' >= size
<1>1. val[w] \in Byte /\ pos[w] \in Position
  BY DEF TypeOK
<1>2. size' \in 0..MaxSize /\ size' >= size
  BY <1>1, SizeAssumption DEF WriteBuffer, TypeOK, Max2, Position
<1>3. body' \in [Offset -> Byte]
  BY <1>1 DEF WriteBuffer, TypeOK
<1>4. dbody' \in [Offset -> SUBSET Byte]
  BY <1>1 DEF WriteBuffer, TypeOK
<1> QED BY <1>2, <1>3, <1>4

LEMMA SyncType ==
    ASSUME TypeOK, Sync
    PROVE  /\ dsize' = size /\ dhead' \in SUBSET Head
           /\ dbody' \in [Offset -> SUBSET Byte]
  BY DEF TypeOK, Sync, Head

LEMMA DestroyType ==
    ASSUME TypeOK, NEW P, Destroy(P)
    PROVE  /\ tail' \in Writer \cup {None} /\ head' \in Writer \cup {None}
           /\ pc' \in [Process -> PC] /\ jr' \in [Process -> JournalState]
           /\ mode' \in [Writer -> {"shared", "exclusive"}]
           /\ fpos' \in [Writer -> Position] /\ pos' \in [Writer -> Position]
           /\ val' \in [Writer -> Byte]
<1>1. HeaderSize \in Position /\ Zero \in Byte /\ "closed" \in PC
  BY SizeAssumption DEF Position, Byte, PC
<1>2. pc' \in [Process -> PC]
  BY <1>1 DEF TypeOK, Destroy
<1>3. jr' \in [Process -> JournalState]
  BY FreshType DEF TypeOK, Destroy
<1>4. mode' \in [Writer -> {"shared", "exclusive"}]
  BY DEF TypeOK, Destroy
<1>5. fpos' \in [Writer -> Position] /\ pos' \in [Writer -> Position]
  BY <1>1 DEF TypeOK, Destroy
<1>6. val' \in [Writer -> Byte]
  BY <1>1 DEF TypeOK, Destroy
<1>7. tail' \in Writer \cup {None} /\ head' \in Writer \cup {None}
  BY DEF TypeOK, Destroy
<1> QED BY <1>2, <1>3, <1>4, <1>5, <1>6, <1>7

\* Changing fields of one journal object keeps the type of jr.
LEMMA JrUpdate ==
    ASSUME TypeOK, NEW w \in Process, NEW j \in JournalState,
           jr' = [jr EXCEPT ![w] = j]
    PROVE  jr' \in [Process -> JournalState]
  BY DEF TypeOK

LEMMA TypeInit == Init => TypeOK
<1> SUFFICES ASSUME Init PROVE TypeOK
  OBVIOUS
<1>0. slot \in Slots /\ sig \in Signature
  BY SizeAssumption DEF Init, Slots, Signature
<1>1. dhead \in SUBSET Head
  BY <1>0 DEF Init, Head
<1>2. body \in [Offset -> Byte] /\ dbody \in [Offset -> SUBSET Byte]
      /\ val \in [Writer -> Byte]
  BY DEF Init, Byte
<1>3. jr \in [Process -> JournalState]
  BY FreshType DEF Init
<1>4. pc \in [Process -> PC]
  BY DEF Init, PC
<1>5. fpos \in [Writer -> Position] /\ pos \in [Writer -> Position]
  BY SizeAssumption DEF Init, Position
<1>6. size \in 0..MaxSize /\ dsize \in 0..size 
      /\ ack \in {0} \cup Position /\ mode \in [Writer -> {"shared", "exclusive"}]
      /\ tail \in Writer \cup {None} /\ head \in Writer \cup {None}
  BY SizeAssumption DEF Init
<1> QED BY <1>0, <1>1, <1>2, <1>3, <1>4, <1>5, <1>6 DEF TypeOK

LEMMA TypeNext == TypeOK /\ [Next]_vars => TypeOK'
<1> SUFFICES ASSUME TypeOK, [Next]_vars PROVE TypeOK'
  OBVIOUS
<1> USE DEF fileVars, diskVars, lockVars, bufVars
<1> HeaderSize \in Position /\ HeaderSize \in 0..MaxSize
  BY SizeAssumption DEF Position
<1> Writer \subseteq Process /\ Reader \subseteq Process
  BY DEF Process
<1>0. ASSUME NEW w \in Writer, NEW m \in Modes, LockTail(w, m)
      PROVE  TypeOK'
  <2>1. mode' \in [Writer -> {"shared", "exclusive"}]
    BY <1>0, ScenarioAssumption DEF LockTail, TypeOK
  <2>2. pc' \in [Process -> PC] /\ tail' \in Writer \cup {None}
    BY <1>0 DEF LockTail, TypeOK, PC, Sharing
  <2> QED BY <1>0, <2>1, <2>2 DEF LockTail, TypeOK
<1>1. ASSUME NEW w \in Writer, CreateJournal(w)
      PROVE  TypeOK'
  <2>1. slot' \in Slots /\ sig' \in Signature
    BY <1>1, SizeAssumption DEF CreateJournal, Slots, Signature
  <2>2. dhead' \in SUBSET Head
    BY <1>1, <2>1 DEF CreateJournal, TypeOK, Head
  <2>3. jr' \in [Process -> JournalState]
    BY <1>1, FreshType, JrUpdate DEF CreateJournal
  <2>4. size' \in 0..MaxSize /\ dsize' \in 0..size'
    BY <1>1, SizeAssumption DEF CreateJournal, TypeOK
  <2>5. /\ tail' \in Writer \cup {None} /\ head' \in Writer \cup {None}
        /\ pc' \in [Process -> PC]
        /\ fpos' \in [Writer -> Position] /\ pos' \in [Writer -> Position]
    BY <1>1 DEF CreateJournal, ReleaseConstruction, TypeOK, PC
  <2> QED BY <1>1, <2>1, <2>2, <2>3, <2>4, <2>5 DEF CreateJournal, TypeOK
<1>2. ASSUME NEW w \in Writer, NEW recovery \in Recoveries, OpenWriter(w, recovery)
      PROVE  TypeOK'
  <2> DEFINE j == Constructed(recovery)
  <2>1. j \in JournalState /\ j.checkpoint \in Position
    BY ConstructedType DEF JournalState
  <2> HIDE DEF j
  <2>2. jr' \in [Process -> JournalState]
    BY <1>2, <2>1, JrUpdate DEF OpenWriter, j
  <2>4. fpos' \in [Writer -> Position] /\ pos' \in [Writer -> Position]
    BY <1>2, <2>1 DEF OpenWriter, TypeOK, j
  <2>5. pc' \in [Process -> PC]
    BY <1>2 DEF OpenWriter, TypeOK, PC
  <2>6. tail' \in Writer \cup {None} /\ head' \in Writer \cup {None}
    BY <1>2 DEF OpenWriter, ReleaseConstruction, TypeOK
  <2> QED BY <1>2, <2>2, <2>4, <2>5, <2>6 DEF OpenWriter, TypeOK
<1>3. ASSUME NEW w \in Writer, FixSlot(w)
      PROVE  TypeOK'
  <2>1. -jr[w].checkpoint \in -MaxSize .. MaxSize
    BY SizeAssumption DEF TypeOK, JournalState, Position
  <2>2. slot' \in Slots /\ dhead' \in SUBSET Head
    BY <1>3, <2>1, WriteSlotType DEF FixSlot, InvalidSoft
  <2>3. pc' \in [Process -> PC]
    BY <1>3 DEF FixSlot, TypeOK, PC
  <2> QED BY <1>3, <2>2, <2>3 DEF FixSlot, TypeOK
<1>4. ASSUME NEW w \in Writer, FixSync(w)
      PROVE  TypeOK'
  <2>1. pc' \in [Process -> PC]
        /\ tail' \in Writer \cup {None} /\ head' \in Writer \cup {None}
    BY <1>4 DEF FixSync, ReleaseConstruction, TypeOK, PC
  <2>2. dsize' \in 0..size'
    BY <1>4, SyncType DEF FixSync, TypeOK
  <2> QED BY <1>4, <2>1, <2>2, SyncType DEF FixSync, TypeOK
<1>5. ASSUME NEW r \in Reader, NEW recovery \in Recoveries, OpenReader(r, recovery)
      PROVE  TypeOK'
  <2>1. jr' \in [Process -> JournalState]
    BY <1>5, ConstructedType, JrUpdate DEF OpenReader
  <2>2. pc' \in [Process -> PC]
    BY <1>5 DEF OpenReader, TypeOK, PC
  <2> QED BY <1>5, <2>1, <2>2 DEF OpenReader, TypeOK
<1>6. ASSUME NEW r \in Reader, LockHead(r) \/ StartPull(r)
      PROVE  TypeOK'
  <2>1. pc' \in [Process -> PC]
    BY <1>6 DEF LockHead, StartPull, TypeOK, PC, Sharing
  <2> QED BY <1>6, <2>1 DEF LockHead, StartPull, TypeOK
<1>23. ASSUME NEW r \in Reader, Pull(r)
      PROVE  TypeOK'
  <2>1. jr[r] \in JournalState /\ slot \in Slots /\ -1 \in Int
    BY DEF TypeOK
  <2>2. read_checkpoint(jr[r], slot, -1) \in JournalState
    BY <2>1, ReadCheckpointType
  <2>3. jr' \in [Process -> JournalState]
    BY <1>23, <2>2, JrUpdate DEF Pull
  <2>4. pc' \in [Process -> PC]
    BY <1>23 DEF Pull, TypeOK, PC
  <2> QED BY <1>23, <2>3, <2>4 DEF Pull, TypeOK
<1>7. ASSUME NEW r \in Reader,
             \/ CloseReader(r)
             \/ \E recovery \in Recoveries : OpenReaderFails(r, recovery)
      PROVE  TypeOK'
  BY <1>7, DestroyType DEF CloseReader, OpenReaderFails, TypeOK
<1>8. ASSUME NEW w \in Writer, CloseWriter(w)
      PROVE  TypeOK'
  <2>1. dsize' \in 0..size'
    BY <1>8, WriteBufferType DEF CloseWriter, TypeOK
  <2> QED BY <1>8, <2>1, WriteBufferType, DestroyType DEF CloseWriter, TypeOK
<1>9. ASSUME NEW w \in Writer, NEW v \in Value, Lock(w, v)
      PROVE  TypeOK'
  <2> DEFINE j == IF mode[w] = "shared"
                  THEN read_checkpoint(jr[w], slot, -1) ELSE jr[w]
  <2>1. j \in JournalState
    BY ReadCheckpointType DEF TypeOK
  <2>2. j.checkpoint \in Position
    BY <2>1 DEF JournalState
  <2> HIDE DEF j
  <2>3. jr' \in [Process -> JournalState]
    BY <1>9, <2>1, JrUpdate DEF Lock, j
  <2>4. fpos' \in [Writer -> Position] /\ pos' \in [Writer -> Position]
    BY <1>9, <2>2 DEF Lock, TypeOK, j
  <2>5. /\ val' \in [Writer -> Byte] /\ pc' \in [Process -> PC]
        /\ tail' \in Writer \cup {None}
    BY <1>9 DEF Lock, TypeOK, Byte, PC, Busy
  <2> QED BY <1>9, <2>3, <2>4, <2>5 DEF Lock, TypeOK
<1>10. ASSUME NEW w \in Writer, Write(w)
       PROVE  TypeOK'
  <2>1. pos[w] + 1 \in Position
    BY <1>10, SizeAssumption DEF Write, TypeOK, Position
  <2> QED BY <1>10, <2>1 DEF Write, TypeOK
<1>11. ASSUME NEW w \in Writer, Flush(w)
       PROVE  TypeOK'
  <2>1. dsize' \in 0..size'
    BY <1>11, WriteBufferType DEF Flush, TypeOK
  <2> QED BY <1>11, <2>1, WriteBufferType DEF Flush, TypeOK
<1>12. ASSUME NEW w \in Writer, SoftCheckpoint(w)
       PROVE  TypeOK'
  <2>1. dsize' \in 0..size'
    BY <1>12, WriteBufferType DEF SoftCheckpoint, TypeOK
  <2>2. jr' \in [Process -> JournalState]
    <3>1. jr[w] \in JournalState /\ pos[w] \in Position
      BY DEF TypeOK
    <3>2. SoftAdvance(jr[w], pos[w]) \in JournalState
      BY <3>1, AdvanceType
    <3> QED BY <1>12, <3>2, JrUpdate DEF SoftCheckpoint
  <2>3. pc' \in [Process -> PC]
    BY <1>12 DEF SoftCheckpoint, TypeOK, PC, Busy
  <2> QED BY <1>12, <2>1, <2>2, <2>3, WriteBufferType DEF SoftCheckpoint, TypeOK
<1>13. ASSUME NEW w \in Writer, SoftWrite(w)
       PROVE  TypeOK'
  <2>1. /\ -jr[w].checkpoint \in -MaxSize .. MaxSize
        /\ 2 * (1 - jr[w].hard_index) + jr[w].soft_index \in SlotIndex
    BY SizeAssumption DEF TypeOK, JournalState, Position, SlotIndex
  <2>2. slot' \in Slots /\ dhead' \in SUBSET Head
    BY <1>13, <2>1, WriteSlotType DEF SoftWrite
  <2>3. pc' \in [Process -> PC]
    BY <1>13 DEF SoftWrite, TypeOK, PC, Busy
  <2> QED BY <1>13, <2>2, <2>3 DEF SoftWrite, TypeOK
<1>14. ASSUME NEW w \in Writer, HardCheckpoint(w)
       PROVE  TypeOK'
  <2>1. dsize' \in 0..size'
    BY <1>14, WriteBufferType DEF HardCheckpoint, TypeOK
  <2>2. jr' \in [Process -> JournalState]
    <3>1. jr[w] \in JournalState /\ pos[w] \in Position
      BY DEF TypeOK
    <3>2. HardAdvance(jr[w], pos[w]) \in JournalState
      BY <3>1, AdvanceType
    <3> QED BY <1>14, <3>2, JrUpdate DEF HardCheckpoint
  <2>3. pc' \in [Process -> PC]
    BY <1>14 DEF HardCheckpoint, TypeOK, PC, Busy
  <2> QED BY <1>14, <2>1, <2>2, <2>3, WriteBufferType DEF HardCheckpoint, TypeOK
<1>15. ASSUME NEW w \in Writer, HardFirstCopy(w)
       PROVE  TypeOK'
  <2>1. jr[w].checkpoint \in -MaxSize .. MaxSize /\ 2 * jr[w].hard_index \in SlotIndex
    BY SizeAssumption DEF TypeOK, JournalState, Position, SlotIndex
  <2>2. slot' \in Slots /\ dhead' \in SUBSET Head
    BY <1>15, <2>1, WriteSlotType DEF HardFirstCopy
  <2>3. pc' \in [Process -> PC] /\ head' \in Writer \cup {None}
    BY <1>15 DEF HardFirstCopy, TypeOK, PC, Busy
  <2> QED BY <1>15, <2>2, <2>3 DEF HardFirstCopy, TypeOK
<1>16. ASSUME NEW w \in Writer, HardSync(w)
       PROVE  TypeOK'
  <2>1. pc' \in [Process -> PC]
    BY <1>16 DEF HardSync, TypeOK, PC, Busy
  <2>2. dsize' \in 0..size'
    BY <1>16, SyncType DEF HardSync, TypeOK
  <2> QED BY <1>16, <2>1, <2>2, SyncType DEF HardSync, TypeOK
<1>17. ASSUME NEW w \in Writer, HardSecondCopy(w)
       PROVE  TypeOK'
  <2>1. /\ jr[w].checkpoint \in -MaxSize .. MaxSize
        /\ 2 * jr[w].hard_index + 1 \in SlotIndex
    BY SizeAssumption DEF TypeOK, JournalState, Position, SlotIndex
  <2>2. slot' \in Slots /\ dhead' \in SUBSET Head
    BY <1>17, <2>1, WriteSlotType DEF HardSecondCopy
  <2>3. pc' \in [Process -> PC]
    BY <1>17 DEF HardSecondCopy, TypeOK, PC, Busy
  <2> QED BY <1>17, <2>2, <2>3 DEF HardSecondCopy, TypeOK
<1>18. ASSUME NEW w \in Writer, HardDatasync(w)
       PROVE  TypeOK'
  <2>1. pc' \in [Process -> PC] /\ head' \in Writer \cup {None}
    BY <1>18 DEF HardDatasync, TypeOK, PC, Busy
  <2>2. dsize' \in 0..size'
    BY <1>18, SyncType DEF HardDatasync, TypeOK
  <2>3. ack' \in {0} \cup Position
    BY <1>18 DEF HardDatasync, TypeOK, JournalState
  <2> QED BY <1>18, <2>1, <2>2, <2>3, SyncType DEF HardDatasync, TypeOK
<1>19. ASSUME NEW w \in Writer, Unlock(w)
       PROVE  TypeOK'
  <2>1. pc' \in [Process -> PC] /\ tail' \in Writer \cup {None}
    BY <1>19 DEF Unlock, TypeOK, PC
  <2> QED BY <1>19, <2>1 DEF Unlock, TypeOK
<1>20. ASSUME NEW w \in Writer,
              \/ Crash(w)
              \/ \E recovery \in Recoveries : OpenFails(w, recovery)
       PROVE  TypeOK'
  BY <1>20, DestroyType DEF Crash, OpenFails, TypeOK
<1>21. ASSUME NEW n \in 0..MaxSize, PowerFailure(n)
       PROVE  TypeOK'
  <2>1. slot' \in Slots /\ sig' \in Signature /\ dhead' \in SUBSET Head
    BY <1>21 DEF PowerFailure, TypeOK, Head
  <2>2. size' \in 0..MaxSize /\ dsize' \in 0..size'
    BY <1>21 DEF PowerFailure
  <2>3. body' \in [Offset -> Byte] /\ dbody' \in [Offset -> SUBSET Byte]
    BY <1>21 DEF PowerFailure
  <2> QED BY <1>21, <2>1, <2>2, <2>3, DestroyType DEF PowerFailure, TypeOK
<1>22. CASE UNCHANGED vars
  BY <1>22 DEF vars, TypeOK
<1> QED
  BY <1>0, <1>1, <1>2, <1>3, <1>4, <1>5, <1>6, <1>7, <1>8, <1>9, <1>10, <1>11,
     <1>12, <1>13, <1>14, <1>15, <1>16, <1>17, <1>18, <1>19, <1>20, <1>21, <1>22,
     <1>23
  DEF Next, Opening, Construction, Transaction, Progress, Reading, ReadHead

\* Every variable of the specification keeps its type in every behaviour:
\* whatever read_checkpoint finds in the head, and whatever a power failure
\* leaves of it, checkpoints and positions stay between the end of the head
\* and the largest length of the file.
THEOREM TypeCorrect == Spec => []TypeOK
<1> QED BY TypeInit, TypeNext, PTL DEF Spec

(***************************************************************************)
(* Which checkpoint reading the head finds.                                *)
(***************************************************************************)

\* The fields after scanning pair i for a hard checkpoint.
LEMMA ScanHardFields ==
    ASSUME NEW j \in JournalState, NEW s \in Slots, NEW i \in {0, 1}
    PROVE  LET k == ScanHard(j, s, i)
           IN  /\ k.checkpoint = j.checkpoint
               /\ s[2*i] = s[2*i + 1] /\ s[2*i] >= j.hard =>
                    k.hard = s[2*i] /\ k.hard_index = i
               /\ ~(s[2*i] = s[2*i + 1] /\ s[2*i] >= j.hard) =>
                    k.hard = j.hard /\ k.hard_index = j.hard_index
<1>1. CASE s[2*i] = s[2*i + 1] /\ s[2*i] >= j.hard
  BY <1>1 DEF ScanHard, JournalState
<1>2. CASE ~(s[2*i] = s[2*i + 1] /\ s[2*i] >= j.hard)
  BY <1>2 DEF ScanHard, JournalState
<1> QED BY <1>1, <1>2

\* The fields after scanning slot k of pair i for a soft checkpoint.
LEMMA ScanSoftFields ==
    ASSUME NEW j \in JournalState, NEW s \in Slots, NEW n \in Int,
           NEW i \in {0, 1}, NEW k \in {0, 1}
    PROVE  LET t == ScanSoft(j, s, n, i, k)
               soft == -s[2*i + k]
           IN  /\ t.hard = j.hard
               /\ soft >= j.checkpoint /\ (n < 0 \/ soft <= n) =>
                    t.checkpoint = soft /\ t.hard_index = 1 - i
               /\ ~(soft >= j.checkpoint /\ (n < 0 \/ soft <= n)) =>
                    t.checkpoint = j.checkpoint /\ t.hard_index = j.hard_index
<1> DEFINE soft == -s[2*i + k]
<1>1. CASE soft >= j.checkpoint /\ (n < 0 \/ soft <= n)
  BY <1>1 DEF ScanSoft, JournalState
<1>2. CASE ~(soft >= j.checkpoint /\ (n < 0 \/ soft <= n))
  BY <1>2 DEF ScanSoft, JournalState
<1> QED BY <1>1, <1>2

\* On a head with an intact hard checkpoint at a or later, read_checkpoint
\* selects the pair of the last hard checkpoint, although the test for soft
\* checkpoints also assigns hard_index; the checkpoint is within any bound m
\* on the hard checkpoint, on the acceptable soft checkpoints and on the
\* checkpoint already known.
LEMMA ReadCheckpointHard ==
    ASSUME NEW j \in JournalState, NEW s \in Slots, NEW n \in Int,
           NEW a \in Int, HeaderSize <= a,
           \E i \in {0, 1} : HardPair(s, i, a) /\ s[2*i] >= j.hard,
           \A i \in {0, 1} : s[2*i] < 0 \/ s[2*i + 1] < 0 => HardPair(s, 1 - i, a),
           NEW m \in Int, j.checkpoint <= m, j.hard <= m,
           \A i \in {0, 1} : s[2*i + 1] <= m,
           (0 <= n /\ n <= m) \/ \A i \in SlotIndex : -s[i] <= m
    PROVE  LET k == read_checkpoint(j, s, n)
           IN  /\ HardPair(s, k.hard_index, a) /\ s[2 * k.hard_index] = k.hard
               /\ HardPair(s, 1 - k.hard_index, a) =>
                    s[2 * (1 - k.hard_index)] <= k.hard
               /\ k.hard >= j.hard /\ k.checkpoint <= m /\ k.hard <= m
               /\ k.checkpoint >= k.hard
<1> DEFINE k0 == ScanHard(j, s, 0)
           k1 == ScanSoft(k0, s, n, 0, 0)
           k2 == ScanSoft(k1, s, n, 0, 1)
           k3 == ScanHard(k2, s, 1)
           k4 == ScanSoft(k3, s, n, 1, 0)
           k5 == ScanSoft(k4, s, n, 1, 1)
<1>1. k0 \in JournalState /\ k1 \in JournalState /\ k2 \in JournalState
      /\ k3 \in JournalState /\ k4 \in JournalState /\ k5 \in JournalState
  BY ScanHardType, ScanSoftType
<1>2. read_checkpoint(j, s, n) = [k5 EXCEPT !.checkpoint = Max2(k5.checkpoint, k5.hard)]
  <2>1. ScanPair(s, n, 0)[j] = k2
    BY DEF ScanPair
  <2>2. ScanPair(s, n, 1)[k2] = k5
    BY <1>1 DEF ScanPair
  <2> HIDE DEF k2, k5
  <2> QED BY <2>1, <2>2 DEF read_checkpoint
<1>3. /\ k0.checkpoint = j.checkpoint
      /\ s[0] = s[1] /\ s[0] >= j.hard => k0.hard = s[0] /\ k0.hard_index = 0
      /\ ~(s[0] = s[1] /\ s[0] >= j.hard) =>
           k0.hard = j.hard /\ k0.hard_index = j.hard_index
  BY ScanHardFields
<1> HIDE DEF k0
<1>4. /\ k1.hard = k0.hard
      /\ -s[0] >= k0.checkpoint /\ (n < 0 \/ -s[0] <= n) =>
           k1.checkpoint = -s[0] /\ k1.hard_index = 1
      /\ ~(-s[0] >= k0.checkpoint /\ (n < 0 \/ -s[0] <= n)) =>
           k1.checkpoint = k0.checkpoint /\ k1.hard_index = k0.hard_index
  BY <1>1, ScanSoftFields
<1> HIDE DEF k1
<1>5. /\ k2.hard = k1.hard
      /\ -s[1] >= k1.checkpoint /\ (n < 0 \/ -s[1] <= n) =>
           k2.checkpoint = -s[1] /\ k2.hard_index = 1
      /\ ~(-s[1] >= k1.checkpoint /\ (n < 0 \/ -s[1] <= n)) =>
           k2.checkpoint = k1.checkpoint /\ k2.hard_index = k1.hard_index
  BY <1>1, ScanSoftFields
<1> HIDE DEF k2
<1>6. /\ k3.checkpoint = k2.checkpoint
      /\ s[2] = s[3] /\ s[2] >= k2.hard => k3.hard = s[2] /\ k3.hard_index = 1
      /\ ~(s[2] = s[3] /\ s[2] >= k2.hard) =>
           k3.hard = k2.hard /\ k3.hard_index = k2.hard_index
  BY <1>1, ScanHardFields
<1> HIDE DEF k3
<1>7. /\ k4.hard = k3.hard
      /\ -s[2] >= k3.checkpoint /\ (n < 0 \/ -s[2] <= n) =>
           k4.checkpoint = -s[2] /\ k4.hard_index = 0
      /\ ~(-s[2] >= k3.checkpoint /\ (n < 0 \/ -s[2] <= n)) =>
           k4.checkpoint = k3.checkpoint /\ k4.hard_index = k3.hard_index
  BY <1>1, ScanSoftFields
<1> HIDE DEF k4
<1>8. /\ k5.hard = k4.hard
      /\ -s[3] >= k4.checkpoint /\ (n < 0 \/ -s[3] <= n) =>
           k5.checkpoint = -s[3] /\ k5.hard_index = 0
      /\ ~(-s[3] >= k4.checkpoint /\ (n < 0 \/ -s[3] <= n)) =>
           k5.checkpoint = k4.checkpoint /\ k5.hard_index = k4.hard_index
  BY <1>1, ScanSoftFields
<1> HIDE DEF k5
<1>9. /\ s[0] \in Int /\ s[1] \in Int /\ s[2] \in Int /\ s[3] \in Int
      /\ j.hard \in Int /\ j.checkpoint \in Int /\ HeaderSize \in Nat \ {0}
      /\ j.checkpoint >= HeaderSize
  BY SizeAssumption DEF Slots, SlotIndex, JournalState, Position
<1>10. /\ \/ s[0] = s[1] /\ s[0] >= a /\ s[0] >= j.hard
          \/ s[2] = s[3] /\ s[2] >= a /\ s[2] >= j.hard
       /\ (s[0] < 0 \/ s[1] < 0) => (s[2] = s[3] /\ s[2] >= a)
       /\ (s[2] < 0 \/ s[3] < 0) => (s[0] = s[1] /\ s[0] >= a)
       /\ s[1] <= m /\ s[3] <= m
  <2>1. 2*0 = 0 /\ 2*0 + 1 = 1 /\ 2*1 = 2 /\ 2*1 + 1 = 3 /\ 1 - 0 = 1 /\ 1 - 1 = 0
    OBVIOUS
  <2>2. /\ HardPair(s, 0, a) <=> s[0] = s[1] /\ s[0] >= a
        /\ HardPair(s, 1, a) <=> s[2] = s[3] /\ s[2] >= a
    BY <2>1 DEF HardPair
  <2>3. \/ HardPair(s, 0, a) /\ s[0] >= j.hard
        \/ HardPair(s, 1, a) /\ s[2] >= j.hard
    BY <2>1
  <2>4. s[0] < 0 \/ s[1] < 0 => HardPair(s, 1, a)
    BY <2>1
  <2>5. s[2] < 0 \/ s[3] < 0 => HardPair(s, 0, a)
    BY <2>1
  <2>6. s[1] <= m /\ s[3] <= m
    BY <2>1
  <2> QED BY <2>2, <2>3, <2>4, <2>5, <2>6
<1>11. (0 <= n /\ n <= m) \/ (-s[0] <= m /\ -s[1] <= m /\ -s[2] <= m /\ -s[3] <= m)
  BY DEF SlotIndex
<1>12. /\ k5.hard_index = 0 => /\ s[0] = s[1] /\ s[0] >= a /\ s[0] = k5.hard
                               /\ s[2] = s[3] /\ s[2] >= a => s[2] <= k5.hard
       /\ k5.hard_index = 1 => /\ s[2] = s[3] /\ s[2] >= a /\ s[2] = k5.hard
                               /\ s[0] = s[1] /\ s[0] >= a => s[0] <= k5.hard
       /\ k5.hard >= j.hard /\ k5.hard <= m /\ k5.checkpoint <= m
  BY <1>3, <1>4, <1>5, <1>6, <1>7, <1>8, <1>9, <1>10, <1>11
<1>13. /\ k5.hard_index \in {0, 1} /\ k5.hard \in Int /\ k5.checkpoint \in Int
  BY <1>1 DEF JournalState, Position
<1>14. /\ read_checkpoint(j, s, n).hard_index = k5.hard_index
       /\ read_checkpoint(j, s, n).hard = k5.hard
       /\ read_checkpoint(j, s, n).checkpoint = Max2(k5.checkpoint, k5.hard)
  BY <1>1, <1>2 DEF JournalState
<1> QED BY <1>12, <1>13, <1>14 DEF HardPair, Max2

(***************************************************************************)
(* The inductive invariant HardInv.                                        *)
(***************************************************************************)

\* Facts about the bounds that HardInv speaks of.
LEMMA Bounds ==
    ASSUME TypeOK
    PROVE  /\ Floor \in Nat /\ Synced \in Nat
           /\ HeaderSize <= Floor /\ ack <= Floor /\ dsize <= Synced
           /\ ack \in Nat /\ dsize \in Nat /\ size \in Nat /\ dsize <= size
           /\ HeaderSize \in Nat \ {0}
           /\ HeaderSize <= size => Synced <= size
  BY SizeAssumption DEF TypeOK, Floor, Synced, Max2, Position

\* A head of an existing file is good.
LEMMA CurrentHead ==
    ASSUME HeadInv, sig = "joedb"
    PROVE  HeadOK(slot)
  BY DEF HeadInv

\* HardInv implies the property it was made for.
LEMMA InvSurvives == TypeOK /\ HardInv => HardCheckpointSurvives
<1> SUFFICES ASSUME TypeOK, HardInv, ack > 0
             PROVE  /\ sig = "joedb" /\ ack <= size
                    /\ ack <= read_checkpoint(Fresh, slot, size).hard
                    /\ read_checkpoint(Fresh, slot, size).checkpoint <= size
  BY DEF HardCheckpointSurvives
<1>1. sig = "joedb" /\ ack <= size
  BY Bounds DEF HardInv, HeadInv
<1>2. HeadOK(slot)
  BY <1>1, CurrentHead DEF HardInv
<1>3. HeaderSize <= size
  BY <1>1, Bounds DEF TypeOK, Position
<1>4. /\ Fresh \in JournalState /\ Fresh.hard = HeaderSize
      /\ Fresh.checkpoint = HeaderSize /\ slot \in Slots
  BY FreshType DEF Fresh, TypeOK
<1>5. /\ \E i \in {0, 1} : HardPair(slot, i, Floor) /\ slot[2*i] >= Fresh.hard
      /\ \A i \in {0, 1} : slot[2*i + 1] <= size
  <2>1. \A i \in {0, 1} : slot[2*i] \in Int /\ slot[2*i + 1] \in Int
    BY DEF TypeOK, Slots, SlotIndex
  <2> QED BY <1>2, <1>3, <1>4, <2>1, Bounds DEF HeadOK, HardPair
<1> DEFINE k == read_checkpoint(Fresh, slot, size)
<1>6. /\ HardPair(slot, k.hard_index, Floor) /\ slot[2 * k.hard_index] = k.hard
      /\ k.checkpoint <= size
  BY <1>2, <1>3, <1>4, <1>5, Bounds, ReadCheckpointHard DEF HeadOK
<1>7. k.hard \in Int
  BY <1>4, Bounds, ReadCheckpointType DEF JournalState, Position
<1> HIDE DEF k
<1>8. ack <= k.hard
  BY <1>6, <1>7, Bounds DEF HardPair
<1> QED BY <1>1, <1>6, <1>8 DEF k

\* A writer that did nothing, while the slots stayed as they are and the file
\* did not shrink, is as consistent as before.
LEMMA OtherWriter ==
    ASSUME TypeOK, NEW v \in Writer, WriterInv(v),
           pc'[v] = pc[v], jr'[v] = jr[v], mode'[v] = mode[v], fpos'[v] = fpos[v],
           slot' = slot, sig' = sig, ack' = ack,
           size' \in Int, size <= size', dsize' \in Int, dsize <= dsize',
           Holds(v) => tail' = v
    PROVE  WriterInv(v)'
<1>1. /\ jr[v].checkpoint \in Int /\ jr[v].hard \in Int /\ fpos[v] \in Int
      /\ \A i \in SlotIndex : slot[i] \in Int
  BY SizeAssumption DEF TypeOK, JournalState, Position, Process, Slots
<1>2. OpenInv(v)'
  BY <1>1, Bounds DEF WriterInv, OpenInv, Opened
<1>3. IdleInv(v)'
  BY DEF WriterInv, IdleInv, HardPair, Floor, Max2
<1>4. HolderInv(v)'
  BY <1>1, Bounds DEF WriterInv, HolderInv, Holds, Anchor, HardPair, Floor, Max2
<1> QED BY <1>2, <1>3, <1>4 DEF WriterInv

\* Writing outside pair g, which is a hard checkpoint, leaves a good head.
LEMMA HeadWrite ==
    ASSUME TypeOK, NEW s \in Slots, NEW t \in Slots, NEW g \in {0, 1},
           HeadOK(s), HardPair(s, g, Floor),
           t[2*g] = s[2*g], t[2*g + 1] = s[2*g + 1],
           t[2*(1 - g) + 1] <= Synced
    PROVE  HeadOK(t)
<1>1. \A i \in SlotIndex : s[i] \in Int /\ t[i] \in Int
  BY DEF Slots
<1>2. CASE g = 0
  BY <1>1, <1>2, Bounds DEF HeadOK, HardPair, SlotIndex
<1>3. CASE g = 1
  BY <1>1, <1>3, Bounds DEF HeadOK, HardPair, SlotIndex
<1> QED BY <1>2, <1>3

\* HeadInv only depends on the head, on what is synced and on ack.
LEMMA HeadFrame ==
    ASSUME HeadInv, slot' = slot, sig' = sig, dhead' = dhead, ack' = ack,
           dsize' = dsize
    PROVE  HeadInv'
  BY DEF HeadInv, HeadOK, HardPair, Floor, Synced, Max2

\* A sync leaves the current head, and what it promises is on the disk.
LEMMA HeadSync ==
    ASSUME TypeOK, HeadInv, Sync, slot' = slot, sig' = sig, ack' = ack,
           sig = "joedb", HeaderSize <= size
    PROVE  HeadInv'
<1>1. dhead' = {[slot |-> slot, sig |-> sig]} /\ dsize' = size
  BY DEF Sync
<1>2. HeadOK(slot)
  BY CurrentHead
<1>3. Synced' = size /\ Floor' = Floor
  BY <1>1, Bounds DEF Synced, Floor, Max2
<1>4. \A i \in {0, 1} : slot[2*i + 1] \in Int
  BY DEF TypeOK, Slots, SlotIndex
<1>5. HeadOK(slot)'
  BY <1>2, <1>3, <1>4, Bounds DEF HeadOK, HardPair
<1> QED BY <1>1, <1>5, Bounds DEF HeadInv

\* A write to the head, while pair g keeps a hard checkpoint.
LEMMA HeadPwrite ==
    ASSUME TypeOK, HeadInv, sig = "joedb", NEW g \in {0, 1},
           HardPair(slot, g, Floor),
           NEW i \in SlotIndex, NEW x \in -MaxSize .. MaxSize, WriteSlot(i, x),
           i # 2*g, i # 2*g + 1, x <= Synced \/ i = 2*(1 - g),
           sig' = sig, ack' = ack, dsize' = dsize
    PROVE  HeadInv'
<1>1. slot' = [slot EXCEPT ![i] = x] /\ slot \in Slots /\ slot' \in Slots
  BY WriteSlotType DEF WriteSlot, TypeOK
<1>2. HeadOK(slot)
  BY CurrentHead
<1>3. /\ slot'[2*g] = slot[2*g] /\ slot'[2*g + 1] = slot[2*g + 1]
      /\ slot'[2*(1 - g) + 1] <= Synced
  <2>1. 2*g \in SlotIndex /\ 2*g + 1 \in SlotIndex /\ 2*(1 - g) + 1 \in SlotIndex
    BY DEF SlotIndex
  <2>2. slot[2*(1 - g) + 1] <= Synced
    <3>1. 1 - g \in {0, 1}
      OBVIOUS
    <3> QED BY <1>2, <3>1 DEF HeadOK
  <2>3. slot'[2*(1 - g) + 1] <= Synced
    BY <1>1, <2>1, <2>2 DEF Slots, SlotIndex
  <2> QED BY <1>1, <2>1, <2>3 DEF Slots
<1>4. HeadOK(slot')
  BY <1>1, <1>2, <1>3, HeadWrite
<1>5. dhead' = dhead \cup {[slot |-> slot', sig |-> sig]}
  BY DEF WriteSlot
<1> QED BY <1>4, <1>5 DEF HeadInv, HeadOK, HardPair, Floor, Synced, Max2

LEMMA HardInvInit == Init => HardInv
<1> SUFFICES ASSUME Init PROVE HardInv
  OBVIOUS
<1>1. HeadInv
  BY DEF Init, HeadInv
<1>2. \A w \in Writer : pc[w] = "closed"
  BY DEF Init, Process
<1>3. \A w \in Writer : WriterInv(w)
  BY <1>2 DEF WriterInv, OpenInv, Opened, IdleInv, HolderInv, Holds, Busy, Fixing
<1> QED BY <1>1, <1>3 DEF HardInv

\* The types that the proofs about writers need.
LEMMA WriterTypes ==
    ASSUME TypeOK, NEW w \in Writer
    PROVE  /\ jr[w].hard_index \in {0, 1} /\ jr[w].soft_index \in {0, 1}
           /\ jr[w].checkpoint \in Int /\ jr[w].hard \in Int
           /\ HeaderSize <= jr[w].checkpoint /\ HeaderSize <= jr[w].hard
           /\ jr[w].checkpoint <= MaxSize
           /\ fpos[w] \in Int /\ pos[w] \in Int /\ pc[w] \in PC
           /\ \A i \in SlotIndex : slot[i] \in Int
           /\ w \in Process /\ w # None
  BY SizeAssumption, ProcessAssumption
  DEF TypeOK, JournalState, Position, Process, Slots

\* Opening an existing file finds the last hard checkpoint.
LEMMA ConstructedHard ==
    ASSUME TypeOK, HeadInv, NEW recovery, recovery # "ignore_header",
           Constructible(recovery)
    PROVE  LET j == Constructed(recovery)
           IN  /\ Anchor(j.hard_index, j.hard)
               /\ j.checkpoint <= size /\ j.hard <= size
<1>1. sig = "joedb" /\ HeaderSize <= size
  BY DEF Constructible
<1>2. Constructed(recovery) = read_checkpoint(Fresh, slot, size)
  BY DEF Constructed
<1>3. HeadOK(slot)
  BY <1>1, CurrentHead
<1>4. /\ Fresh \in JournalState /\ Fresh.hard = HeaderSize
      /\ Fresh.checkpoint = HeaderSize /\ slot \in Slots
  BY FreshType DEF Fresh, TypeOK
<1>5. /\ \E i \in {0, 1} : HardPair(slot, i, Floor) /\ slot[2*i] >= Fresh.hard
      /\ \A i \in {0, 1} : slot[2*i + 1] <= size
  <2>1. \A i \in {0, 1} : slot[2*i] \in Int /\ slot[2*i + 1] \in Int
    BY DEF TypeOK, Slots, SlotIndex
  <2> QED BY <1>1, <1>3, <1>4, <2>1, Bounds DEF HeadOK, HardPair
<1> DEFINE k == read_checkpoint(Fresh, slot, size)
<1>6. /\ HardPair(slot, k.hard_index, Floor) /\ slot[2 * k.hard_index] = k.hard
      /\ HardPair(slot, 1 - k.hard_index, Floor) =>
           slot[2 * (1 - k.hard_index)] <= k.hard
      /\ k.checkpoint <= size /\ k.hard <= size
  BY <1>1, <1>3, <1>4, <1>5, Bounds, ReadCheckpointHard DEF HeadOK
<1> QED BY <1>2, <1>6 DEF Anchor

\* A pull by a writer that takes the tail lock finds it too.
LEMMA PulledHard ==
    ASSUME TypeOK, HeadInv, NEW w \in Writer, WriterInv(w), pc[w] = "idle"
    PROVE  LET j == read_checkpoint(jr[w], slot, -1)
           IN  /\ Anchor(j.hard_index, j.hard)
               /\ j.checkpoint <= size /\ j.hard <= size
<1>1. /\ sig = "joedb" /\ HeaderSize <= size
      /\ jr[w].checkpoint <= size /\ jr[w].hard <= size
      /\ \A i \in SlotIndex : -slot[i] <= size
  BY DEF WriterInv, OpenInv, Opened, Fixing
<1>2. \E i \in {0, 1} : HardPair(slot, i, Floor) /\ slot[2*i] >= jr[w].hard
  BY DEF WriterInv, IdleInv
<1>3. HeadOK(slot)
  BY <1>1, CurrentHead
<1>4. jr[w] \in JournalState /\ slot \in Slots
  BY DEF TypeOK, Process
<1>5. \A i \in {0, 1} : slot[2*i + 1] <= size
  <2>1. \A i \in {0, 1} : slot[2*i + 1] \in Int
    BY DEF TypeOK, Slots, SlotIndex
  <2> QED BY <1>1, <1>3, <2>1, Bounds DEF HeadOK
<1> DEFINE k == read_checkpoint(jr[w], slot, -1)
<1>6. /\ HardPair(slot, k.hard_index, Floor) /\ slot[2 * k.hard_index] = k.hard
      /\ HardPair(slot, 1 - k.hard_index, Floor) =>
           slot[2 * (1 - k.hard_index)] <= k.hard
      /\ k.checkpoint <= size /\ k.hard <= size
  BY <1>1, <1>2, <1>3, <1>4, <1>5, Bounds, ReadCheckpointHard DEF HeadOK
<1> QED BY <1>6 DEF Anchor

\* After the destruction of the processes in P, their writers are closed and
\* the others are unaffected.
LEMMA DestroyInv ==
    ASSUME TypeOK, HardInv, NEW P, Destroy(P), NEW v \in Writer,
           slot' = slot, sig' = sig, ack' = ack,
           size' \in Int, size <= size', dsize' = dsize
    PROVE  WriterInv(v)'
<1>1. CASE v \in P
  <2>1. pc'[v] = "closed"
    BY <1>1 DEF Destroy, Process
  <2> QED BY <2>1 DEF WriterInv, OpenInv, Opened, IdleInv, HolderInv, Holds, Busy, Fixing
<1>2. CASE v \notin P
  <2>1. /\ pc'[v] = pc[v] /\ jr'[v] = jr[v] /\ mode'[v] = mode[v]
        /\ fpos'[v] = fpos[v]
        /\ tail = v => tail' = v
    BY <1>2 DEF Destroy, Process
  <2>2. Holds(v) => tail = v
    BY DEF HardInv, WriterInv, HolderInv
  <2> QED BY <2>1, <2>2, OtherWriter, Bounds DEF HardInv
<1> QED BY <1>1, <1>2

\* Steps of a writer that leave the head and the disk alone.
LEMMA HardInvQuiet ==
    ASSUME TypeOK, HardInv, NEW w \in Writer,
           slot' = slot, sig' = sig, ack' = ack, dhead' = dhead, dsize' = dsize,
           size' \in Int, size <= size', WriterInv(w)',
           \A v \in Writer \ {w} : /\ pc'[v] = pc[v] /\ jr'[v] = jr[v]
                                   /\ mode'[v] = mode[v] /\ fpos'[v] = fpos[v],
           tail' = tail \/ tail \in {w, None}
    PROVE  HardInv'
<1>1. HeadInv'
  BY HeadFrame DEF HardInv
<1>2. ASSUME NEW v \in Writer \ {w}
      PROVE  WriterInv(v)'
  <2>1. Holds(v) => tail = v /\ v # None
    BY ProcessAssumption DEF HardInv, WriterInv, HolderInv
  <2> QED BY <1>2, <2>1, OtherWriter, Bounds DEF HardInv
<1> QED BY <1>1, <1>2 DEF HardInv

\* Steps of a writer that holds the tail lock: the others are closed or idle,
\* and it is enough that the file keeps a hard checkpoint as far as theirs.
LEMMA HardInvHolder ==
    ASSUME TypeOK, HardInv, NEW w \in Writer, Holds(w), HeadInv', WriterInv(w)',
           sig' = sig, size' = size,
           \A v \in Writer \ {w} : /\ pc'[v] = pc[v] /\ jr'[v] = jr[v]
                                   /\ mode'[v] = mode[v] /\ fpos'[v] = fpos[v],
           \A v \in Writer \ {w} : Opened(v) =>
               \A i \in SlotIndex : -slot'[i] <= size,
           \A v \in Writer \ {w} : pc[v] = "idle" => IdleInv(v)'
    PROVE  HardInv'
<1>1. ASSUME NEW v \in Writer \ {w}
      PROVE  WriterInv(v)'
  <2>1. ~Holds(v)
    BY DEF HardInv, WriterInv, HolderInv
  <2>2. OpenInv(v)'
    BY DEF HardInv, WriterInv, OpenInv, Opened
  <2>3. IdleInv(v)'
    BY DEF IdleInv
  <2>4. HolderInv(v)'
    BY <2>1 DEF HolderInv, Holds
  <2> QED BY <2>2, <2>3, <2>4 DEF WriterInv
<1> QED BY <1>1 DEF HardInv

\* A write outside pair g, by the holder of the tail lock who knows that g is
\* the last hard checkpoint.
LEMMA HeadStep ==
    ASSUME TypeOK, HardInv, NEW w \in Writer, Holds(w), NEW g \in {0, 1},
           Anchor(g, slot[2*g]), sig = "joedb",
           NEW c \in SlotIndex, NEW x \in -MaxSize .. MaxSize, WriteSlot(c, x),
           c # 2*g, c # 2*g + 1, -x <= size, x <= Synced \/ c = 2*(1 - g),
           sig' = sig, size' = size, ack' = ack, dsize' = dsize,
           WriterInv(w)',
           \A v \in Writer \ {w} : /\ pc'[v] = pc[v] /\ jr'[v] = jr[v]
                                   /\ mode'[v] = mode[v] /\ fpos'[v] = fpos[v]
    PROVE  HardInv'
<1>1. HeadInv'
  BY HeadPwrite DEF HardInv, Anchor
<1>2. /\ slot' = [slot EXCEPT ![c] = x] /\ slot \in Slots
      /\ 2*g \in SlotIndex /\ 2*g + 1 \in SlotIndex /\ 1 - g \in {0, 1}
  BY DEF WriteSlot, TypeOK, SlotIndex
<1>3. slot'[2*g] = slot[2*g] /\ slot'[2*g + 1] = slot[2*g + 1]
  BY <1>2 DEF Slots
<1>4. ASSUME NEW v \in Writer \ {w}, Opened(v)
      PROVE  \A i \in SlotIndex : -slot'[i] <= size
  <2>1. pc[v] \notin Fixing
    BY <1>4 DEF HardInv, WriterInv, HolderInv, Holds
  <2>2. \A i \in SlotIndex : -slot[i] <= size
    BY <1>4, <2>1 DEF HardInv, WriterInv, OpenInv, Opened
  <2> QED BY <1>2, <2>2 DEF Slots
<1>5. ASSUME NEW v \in Writer \ {w}, pc[v] = "idle"
      PROVE  IdleInv(v)'
  <2>1. PICK i \in {0, 1} : HardPair(slot, i, Floor) /\ slot[2*i] >= jr[v].hard
    BY <1>5 DEF HardInv, WriterInv, IdleInv
  <2>2. slot[2*i] \in Int /\ slot[2*g] \in Int /\ jr[v].hard \in Int
    BY <1>2, WriterTypes DEF SlotIndex
  <2>3. slot[2*g] >= jr[v].hard
    <3>1. i = g \/ i = 1 - g
      OBVIOUS
    <3> QED BY <2>1, <2>2, <3>1 DEF Anchor
  <2>4. HardPair(slot, g, Floor)'
    BY <1>3 DEF Anchor, HardPair, Floor, Max2
  <2>5. slot'[2*g] >= jr'[v].hard
    BY <1>3, <2>3
  <2> QED BY <2>4, <2>5 DEF IdleInv
<1> QED BY <1>1, <1>4, <1>5, HardInvHolder

\* A sync by the holder of the tail lock.
LEMMA SyncStep ==
    ASSUME TypeOK, HardInv, NEW w \in Writer, Holds(w), Opened(w), Sync,
           slot' = slot, sig' = sig, size' = size, ack' = ack, WriterInv(w)',
           \A v \in Writer \ {w} : /\ pc'[v] = pc[v] /\ jr'[v] = jr[v]
                                   /\ mode'[v] = mode[v] /\ fpos'[v] = fpos[v]
    PROVE  HardInv'
<1>1. sig = "joedb" /\ HeaderSize <= size
  BY DEF HardInv, WriterInv, OpenInv, Opened
<1>2. HeadInv'
  BY <1>1, HeadSync DEF HardInv
<1>3. dsize' = size
  BY DEF Sync
<1>4. ASSUME NEW v \in Writer \ {w}
      PROVE  WriterInv(v)'
  <2>1. ~Holds(v)
    BY DEF HardInv, WriterInv, HolderInv
  <2> QED BY <1>3, <2>1, OtherWriter, Bounds DEF HardInv
<1> QED BY <1>2, <1>4 DEF HardInv

\* An anchor stays while the slots and ack do.
LEMMA AnchorFrame ==
    ASSUME NEW i, NEW n, Anchor(i, n), slot' = slot, ack' = ack
    PROVE  Anchor(i, n)'
  BY DEF Anchor, HardPair, Floor, Max2

\* After WriteBuffer the file holds the whole buffer.
LEMMA BufferWritten ==
    ASSUME TypeOK, NEW w \in Writer, fpos[w] <= size, WriteBuffer(w)
    PROVE  size' \in Int /\ size <= size' /\ pos[w] <= size'
  BY WriterTypes, Bounds DEF WriteBuffer, Max2

LEMMA HardInvNext ==
    ASSUME "ignore_header" \notin Recoveries, TypeOK, TypeOK', HardInv, [Next]_vars
    PROVE  HardInv'
<1> USE DEF fileVars, diskVars, lockVars, bufVars
<1>0. ASSUME NEW w \in Writer, NEW m \in Modes, LockTail(w, m)
      PROVE  HardInv'
  <2>1. /\ pc'[w] = "opening" /\ tail' = w /\ tail \in {w, None}
        /\ slot' = slot /\ sig' = sig /\ ack' = ack /\ size' = size
        /\ dsize' = dsize /\ dhead' = dhead
        /\ \A u \in Writer \ {w} : /\ pc'[u] = pc[u] /\ jr'[u] = jr[u]
                                   /\ mode'[u] = mode[u] /\ fpos'[u] = fpos[u]
    BY <1>0, WriterTypes DEF LockTail, TailFree, TypeOK, Process
  <2>2. WriterInv(w)'
    BY <2>1 DEF WriterInv, OpenInv, Opened, IdleInv, HolderInv, Holds, Busy, Fixing
  <2> QED BY <2>1, <2>2, HardInvQuiet, Bounds
<1>1. ASSUME NEW w \in Writer, CreateJournal(w)
      PROVE  HardInv'
  <2>1. size = 0 /\ dsize = 0 /\ ack = 0
    BY <1>1, Bounds DEF CreateJournal, HardInv, HeadInv
  <2>2. \A v \in Writer : v # w => pc[v] = "closed"
    <3>1. \A v \in Writer : pc[v] \in {"closed", "opening"}
      BY <2>1, Bounds DEF HardInv, WriterInv, OpenInv, Opened
    <3>2. Holds(w)
      BY <1>1 DEF CreateJournal, ConstructionLocked, Holds
    <3>3. \A v \in Writer : v # w => ~Holds(v)
      BY <3>2 DEF HardInv, WriterInv, HolderInv
    <3> QED BY <3>1, <3>3 DEF Holds
  <2>3. /\ ack' = 0 /\ dsize' = 0 /\ size' = HeaderSize /\ sig' = "joedb"
        /\ slot' = [i \in SlotIndex |-> HeaderSize]
        /\ dhead' = dhead \cup {[slot |-> slot', sig |-> sig']}
    BY <1>1, <2>1 DEF CreateJournal
  <2>4. /\ Floor = HeaderSize /\ Synced = HeaderSize
        /\ Floor' = HeaderSize /\ Synced' = HeaderSize
    BY <2>1, <2>3, Bounds DEF Floor, Synced, Max2
  <2> DEFINE t == [i \in SlotIndex |-> HeaderSize]
  <2>5. \A i \in {0, 1} : t[2*i] = HeaderSize /\ t[2*i + 1] = HeaderSize
    BY DEF SlotIndex
  <2>6. HeadInv'
    <3>1. HeadOK(t)'
      <4>1. \A i \in {0, 1} : 1 - i \in {0, 1} /\ t[2*(1 - i)] = HeaderSize
                             /\ t[2*(1 - i) + 1] = HeaderSize
        BY DEF SlotIndex
      <4> HIDE DEF t
      <4> QED BY <2>4, <2>5, <4>1, Bounds DEF HeadOK, HardPair
    <3>2. \A h \in dhead : h.sig = "joedb" => HeadOK(h.slot)'
      BY <2>4 DEF HardInv, HeadInv, HeadOK, HardPair
    <3>3. dhead' = dhead \cup {[slot |-> t, sig |-> "joedb"]} /\ slot' = t
      BY <2>3
    <3> HIDE DEF t
    <3>4. \A h \in dhead' : h.sig = "joedb" => HeadOK(h.slot)'
      BY <3>1, <3>2, <3>3
    <3> QED BY <2>3, <3>3, <3>4 DEF HeadInv
  <2>7. WriterInv(w)'
    <3>1. /\ pc'[w] = "idle" /\ jr'[w] = Fresh /\ mode' = mode
          /\ fpos'[w] = HeaderSize
          /\ mode[w] = "exclusive" => tail' = w
      BY <1>1 DEF CreateJournal, ReleaseConstruction, TypeOK, Process
    <3>2. OpenInv(w)'
      BY <2>3, <3>1, Bounds DEF OpenInv, Opened, Fresh, Fixing
    <3>3. /\ Fresh.hard = HeaderSize /\ Fresh.hard_index = 0
          /\ slot'[0] = HeaderSize /\ slot'[1] = HeaderSize
          /\ slot'[2] = HeaderSize /\ slot'[3] = HeaderSize
      BY <2>3 DEF Fresh, SlotIndex
    <3>4. Anchor(0, HeaderSize)'
      BY <2>4, <3>3, Bounds DEF Anchor, HardPair
    <3>5. IdleInv(w)'
      BY <3>1, <3>3, <3>4, Bounds DEF IdleInv, Anchor
    <3>6. HolderInv(w)'
      BY <3>1, <3>3, <3>4 DEF HolderInv, Holds, Busy, Fixing
    <3> QED BY <3>2, <3>5, <3>6 DEF WriterInv
  <2>8. ASSUME NEW v \in Writer, v # w
        PROVE  WriterInv(v)'
    <3>1. pc'[v] = "closed"
      BY <1>1, <2>2, <2>8 DEF CreateJournal, TypeOK, Process
    <3> QED BY <3>1 DEF WriterInv, OpenInv, Opened, IdleInv, HolderInv, Holds, Busy, Fixing
  <2> QED BY <2>6, <2>7, <2>8 DEF HardInv
<1>2. ASSUME NEW w \in Writer, NEW recovery \in Recoveries, OpenWriter(w, recovery)
      PROVE  HardInv'
  <2>0. PICK j : j = Constructed(recovery)
    OBVIOUS
  <2>1. Constructible(recovery) /\ recovery # "ignore_header"
    BY <1>2 DEF OpenWriter, Openable
  <2>2. /\ Anchor(j.hard_index, j.hard) /\ j.checkpoint <= size /\ j.hard <= size
        /\ sig = "joedb" /\ HeaderSize <= size
    BY <2>0, <2>1, ConstructedHard DEF HardInv, Constructible
  <2>3. j \in JournalState
    BY <2>0, ConstructedType
  <2>4. /\ pc'[w] = IF InvalidSoft(slot) # {} THEN "fix" ELSE "idle"
        /\ jr'[w] = j /\ mode' = mode /\ fpos'[w] = j.checkpoint
        /\ slot' = slot /\ sig' = sig /\ ack' = ack /\ size' = size
        /\ dsize' = dsize /\ dhead' = dhead
        /\ (InvalidSoft(slot) # {} \/ mode[w] = "exclusive") => tail' = w
    BY <1>2, <2>0 DEF OpenWriter, ReleaseConstruction, TypeOK, Process
  <2>5. OpenInv(w)'
    <3>1. InvalidSoft(slot) = {} => \A i \in SlotIndex : -slot[i] <= size
      BY Bounds DEF InvalidSoft, TypeOK, Slots
    <3> QED BY <2>2, <2>4, <3>1 DEF OpenInv, Opened, Fixing
  <2>6. Anchor(j.hard_index, j.hard)'
    BY <2>2, <2>4 DEF Anchor, HardPair, Floor, Max2
  <2>7. IdleInv(w)'
    <3>1. j.hard_index \in {0, 1} /\ j.hard \in Int
      BY <2>3 DEF JournalState, Position
    <3> QED BY <2>4, <2>6, <3>1 DEF IdleInv, Anchor
  <2>8. HolderInv(w)'
    BY <2>4, <2>6 DEF HolderInv, Holds, Busy, Fixing
  <2>9. \A v \in Writer \ {w} : /\ pc'[v] = pc[v] /\ jr'[v] = jr[v]
                                /\ mode'[v] = mode[v] /\ fpos'[v] = fpos[v]
    BY <1>2 DEF OpenWriter, TypeOK, Process
  <2>10. tail' = tail \/ tail' \in {w, None}
    BY <1>2 DEF OpenWriter, ReleaseConstruction
  <2>11. tail \in {w, None}
    BY <1>2 DEF OpenWriter, ConstructionLocked, TailFree
  <2> QED BY <2>4, <2>5, <2>7, <2>8, <2>9, <2>10, <2>11, HardInvQuiet, Bounds DEF WriterInv
<1>3. ASSUME NEW w \in Writer, FixSlot(w)
      PROVE  HardInv'
  <2>1. PICK i \in {0, 1}, n \in Int : i = jr[w].hard_index /\ n = jr[w].hard
    BY WriterTypes
  <2>2. /\ pc[w] = "fix" /\ pc'[w] = "fixsync" /\ jr' = jr /\ mode' = mode
        /\ fpos' = fpos /\ tail' = tail /\ sig' = sig /\ size' = size
        /\ ack' = ack /\ dsize' = dsize
        /\ \A v \in Writer \ {w} : pc'[v] = pc[v]
    BY <1>3, WriterTypes DEF FixSlot, TypeOK, Process
  <2>3. PICK c \in InvalidSoft(slot) : WriteSlot(c, -jr[w].checkpoint)
    BY <1>3 DEF FixSlot
  <2>4. /\ Holds(w) /\ tail = w /\ Anchor(i, n) /\ slot[2*i] = n
        /\ sig = "joedb" /\ jr[w].checkpoint <= size /\ HeaderSize <= size
        /\ jr[w].hard <= size /\ fpos[w] <= size
    BY <2>1, <2>2 DEF HardInv, WriterInv, HolderInv, OpenInv, Opened, Holds, Fixing, Anchor
  <2>5. c \in SlotIndex /\ -slot[c] > size
    BY <2>3 DEF InvalidSoft
  <2>6. c # 2*i /\ c # 2*i + 1
    <3>1. HardPair(slot, i, Floor)
      BY <2>4 DEF Anchor
    <3>2. slot[2*i] \in Int /\ slot[2*i + 1] \in Int /\ slot[c] \in Int
      BY <2>5 DEF TypeOK, Slots, SlotIndex
    <3>3. slot[c] < 0 /\ Floor > 0
      BY <2>5, <3>2, Bounds
    <3>4. slot[2*i] > 0 /\ slot[2*i + 1] > 0
      BY <3>1, <3>2, <3>3, Bounds DEF HardPair
    <3> QED BY <3>3, <3>4, <3>2
  <2>7. slot' = [slot EXCEPT ![c] = -jr[w].checkpoint]
    BY <2>3 DEF WriteSlot
  <2>8. Anchor(i, n)'
    <3>1. /\ 2*i \in SlotIndex /\ 2*i + 1 \in SlotIndex /\ 1 - i \in {0, 1}
          /\ (c = 2*(1 - i) \/ c = 2*(1 - i) + 1)
          /\ 2*(1 - i) \in SlotIndex /\ 2*(1 - i) + 1 \in SlotIndex
      BY <2>5, <2>6 DEF SlotIndex
    <3>2. slot'[2*i] = slot[2*i] /\ slot'[2*i + 1] = slot[2*i + 1]
      BY <2>5, <2>6, <2>7, <3>1 DEF TypeOK, Slots
    <3>3. slot'[c] < 0
      <4>1. slot'[c] = -jr[w].checkpoint
        BY <2>5, <2>7 DEF TypeOK, Slots
      <4> QED BY <4>1, WriterTypes, Bounds
    <3>4. ~HardPair(slot, 1 - i, Floor)'
      <4>1. Floor' > 0
        BY <2>2, Bounds DEF Floor, Max2
      <4>2. slot'[2*(1 - i)] < 0 \/ slot'[2*(1 - i) + 1] < 0
        BY <3>1, <3>3
      <4>3. /\ slot'[2*(1 - i)] \in Int /\ slot'[2*(1 - i) + 1] \in Int
            /\ Floor' \in Int
        BY <2>2, <3>1, Bounds DEF TypeOK, Slots, Floor, Max2
      <4> QED BY <4>1, <4>2, <4>3 DEF HardPair
    <3> QED BY <2>2, <2>4, <3>2, <3>4 DEF Anchor, HardPair, Floor, Max2
  <2>9. WriterInv(w)'
    <3>1. OpenInv(w)'
      BY <2>2, <2>4 DEF OpenInv, Opened, Fixing
    <3>2. IdleInv(w)'
      BY <2>2 DEF IdleInv
    <3>3. HolderInv(w)'
      BY <2>1, <2>2, <2>4, <2>8 DEF HolderInv, Fixing
    <3> QED BY <3>1, <3>2, <3>3 DEF WriterInv
  <2>10. -jr[w].checkpoint \in -MaxSize .. MaxSize /\ -jr[w].checkpoint <= Synced
    BY WriterTypes, Bounds, SizeAssumption
  <2>11. -(-jr[w].checkpoint) <= size
    BY <2>4, WriterTypes
  <2> QED BY <2>2, <2>3, <2>4, <2>5, <2>6, <2>9, <2>10, <2>11, HeadStep
<1>4. ASSUME NEW w \in Writer, FixSync(w)
      PROVE  HardInv'
  <2>1. PICK i \in {0, 1}, n \in Int : i = jr[w].hard_index /\ n = jr[w].hard
    BY WriterTypes
  <2>2. /\ pc[w] = "fixsync" /\ jr' = jr /\ mode' = mode
        /\ fpos' = fpos /\ slot' = slot /\ sig' = sig /\ size' = size
        /\ ack' = ack /\ Sync
        /\ \A v \in Writer \ {w} : pc'[v] = pc[v]
    BY <1>4, WriterTypes DEF FixSync, TypeOK, Process
  <2>3. \/ pc'[w] = "fix" /\ tail' = tail
        \/ /\ InvalidSoft(slot) = {} /\ pc'[w] = "idle"
           /\ mode[w] = "exclusive" => tail' = w
    BY <1>4, WriterTypes DEF FixSync, ReleaseConstruction, TypeOK
  <2>4. /\ Holds(w) /\ tail = w /\ Anchor(i, n)
        /\ sig = "joedb" /\ jr[w].checkpoint <= size /\ HeaderSize <= size
        /\ jr[w].hard <= size /\ fpos[w] <= size
    BY <2>1, <2>2 DEF HardInv, WriterInv, HolderInv, OpenInv, Opened, Holds, Fixing
  <2>5. Anchor(i, n)'
    BY <2>2, <2>4, AnchorFrame
  <2>6. WriterInv(w)'
    <3>1. InvalidSoft(slot) = {} => \A k \in SlotIndex : -slot[k] <= size
      BY Bounds DEF InvalidSoft, TypeOK, Slots
    <3>2. OpenInv(w)'
      BY <2>2, <2>3, <2>4, <3>1 DEF OpenInv, Opened, Fixing
    <3>3. IdleInv(w)'
      BY <2>1, <2>2, <2>5, WriterTypes DEF IdleInv, Anchor
    <3>4. HolderInv(w)'
      BY <2>1, <2>2, <2>3, <2>4, <2>5 DEF HolderInv, Holds, Busy, Fixing
    <3> QED BY <3>2, <3>3, <3>4 DEF WriterInv
  <2> QED BY <2>2, <2>4, <2>6, SyncStep DEF Opened
<1>5. ASSUME NEW r \in Reader, Reading(r)
      PROVE  HardInv'
  <2>1. ASSUME CloseReader(r) \/ \E recovery \in Recoveries : OpenReaderFails(r, recovery)
        PROVE  HardInv'
    <3>1. HeadInv'
      BY <2>1, HeadFrame DEF CloseReader, OpenReaderFails, HardInv
    <3>2. \A v \in Writer : WriterInv(v)'
      BY <2>1, DestroyInv, Bounds DEF CloseReader, OpenReaderFails
    <3> QED BY <3>1, <3>2 DEF HardInv
  <2>2. ASSUME \/ LockHead(r) \/ StartPull(r) \/ Pull(r)
               \/ \E recovery \in Recoveries : OpenReader(r, recovery)
        PROVE  HardInv'
    <3>1. /\ slot' = slot /\ sig' = sig /\ ack' = ack /\ size' = size
          /\ dsize' = dsize /\ dhead' = dhead /\ tail' = tail
          /\ mode' = mode /\ fpos' = fpos
          /\ \A v \in Writer : pc'[v] = pc[v] /\ jr'[v] = jr[v]
      BY <2>2, ProcessAssumption
      DEF LockHead, StartPull, OpenReader, Pull, TypeOK, Process
    <3>2. HeadInv'
      BY <3>1, HeadFrame DEF HardInv
    <3>3. ASSUME NEW v \in Writer PROVE WriterInv(v)'
      <4>1. Holds(v) => tail = v
        BY DEF HardInv, WriterInv, HolderInv
      <4> QED BY <3>1, <4>1, OtherWriter, Bounds DEF HardInv
    <3> QED BY <3>2, <3>3 DEF HardInv
  <2> QED BY <1>5, <2>1, <2>2 DEF Reading, ReadHead
<1>6. ASSUME NEW w \in Writer,
             \/ CloseWriter(w) \/ Crash(w)
             \/ \E recovery \in Recoveries : OpenFails(w, recovery)
      PROVE  HardInv'
  <2>1. /\ Destroy({w}) /\ slot' = slot /\ sig' = sig /\ dsize' = dsize
        /\ dhead' = dhead /\ ack' = ack
    BY <1>6 DEF CloseWriter, Crash, OpenFails
  <2>2. size' \in Int /\ size <= size'
    <3>1. CASE Crash(w) \/ \E recovery \in Recoveries : OpenFails(w, recovery)
      BY <3>1, Bounds DEF Crash, OpenFails
    <3>2. CASE CloseWriter(w)
      <4>1. fpos[w] <= size /\ WriteBuffer(w)
        BY <3>2 DEF CloseWriter, HardInv, WriterInv, OpenInv, Opened
      <4> QED BY <4>1, BufferWritten
    <3> QED BY <1>6, <3>1, <3>2
  <2>3. HeadInv'
    BY <2>1, HeadFrame DEF HardInv
  <2>4. \A v \in Writer : WriterInv(v)'
    BY <2>1, <2>2, DestroyInv
  <2> QED BY <2>3, <2>4 DEF HardInv
<1>7. ASSUME NEW w \in Writer, NEW v \in Value, Lock(w, v)
      PROVE  HardInv'
  <2>1. PICK j : j = IF mode[w] = "shared"
                     THEN read_checkpoint(jr[w], slot, -1) ELSE jr[w]
    OBVIOUS
  <2>2. /\ pc[w] = "idle" /\ pc'[w] = "locked" /\ tail' = w /\ jr'[w] = j
        /\ fpos'[w] = j.checkpoint
        /\ slot' = slot /\ sig' = sig /\ ack' = ack /\ size' = size
        /\ dsize' = dsize /\ dhead' = dhead
        /\ mode[w] = "shared" => tail = None
        /\ \A u \in Writer \ {w} : /\ pc'[u] = pc[u] /\ jr'[u] = jr[u]
                                   /\ mode'[u] = mode[u] /\ fpos'[u] = fpos[u]
    BY <1>7, <2>1, WriterTypes DEF Lock, TypeOK, Process
  <2>3. /\ WriterInv(w) /\ sig = "joedb" /\ HeaderSize <= size
        /\ jr[w].checkpoint <= size /\ jr[w].hard <= size
        /\ \A i \in SlotIndex : -slot[i] <= size
        /\ mode[w] # "shared" => tail = w /\ Anchor(jr[w].hard_index, jr[w].hard)
    BY <2>2 DEF HardInv, WriterInv, OpenInv, Opened, HolderInv, Holds, Fixing, TypeOK
  <2>4. /\ Anchor(j.hard_index, j.hard) /\ j.checkpoint <= size /\ j.hard <= size
    BY <2>1, <2>2, <2>3, PulledHard DEF HardInv
  <2>5. Anchor(j.hard_index, j.hard)'
    BY <2>2, <2>4, AnchorFrame
  <2>6. WriterInv(w)'
    BY <2>2, <2>3, <2>4, <2>5
    DEF WriterInv, OpenInv, Opened, IdleInv, HolderInv, Holds, Busy, Fixing
  <2>7. tail \in {w, None}
    BY <2>2, <2>3
  <2> QED BY <2>2, <2>6, <2>7, HardInvQuiet, Bounds
<1>8. ASSUME NEW w \in Writer, Write(w)
      PROVE  HardInv'
  <2>1. /\ pc' = pc /\ jr' = jr /\ mode' = mode /\ fpos' = fpos /\ tail' = tail
        /\ slot' = slot /\ sig' = sig /\ ack' = ack /\ size' = size
        /\ dsize' = dsize /\ dhead' = dhead
    BY <1>8 DEF Write
  <2>2. Holds(w) => tail = w
    BY DEF HardInv, WriterInv, HolderInv
  <2>3. WriterInv(w)'
    BY <2>1, <2>2, OtherWriter, Bounds DEF HardInv
  <2> QED BY <2>1, <2>3, HardInvQuiet, Bounds
<1>9. ASSUME NEW w \in Writer, Flush(w) \/ SoftCheckpoint(w)
      PROVE  HardInv'
  <2>1. /\ pc[w] = "locked" /\ pc'[w] \in {"locked", "soft"} /\ WriteBuffer(w)
        /\ fpos'[w] = pos[w] /\ mode' = mode /\ tail' = tail
        /\ slot' = slot /\ sig' = sig /\ ack' = ack
        /\ dsize' = dsize /\ dhead' = dhead
        /\ \A u \in Writer \ {w} : /\ pc'[u] = pc[u] /\ jr'[u] = jr[u]
                                   /\ mode'[u] = mode[u] /\ fpos'[u] = fpos[u]
    BY <1>9, WriterTypes DEF Flush, SoftCheckpoint, TypeOK, Process
  <2>2. /\ jr'[w].hard_index = jr[w].hard_index /\ jr'[w].hard = jr[w].hard
        /\ jr'[w].checkpoint \in {jr[w].checkpoint, pos[w]}
    <3>1. jr[w] \in JournalState
      BY WriterTypes DEF TypeOK
    <3>2. jr'[w] = jr[w] \/ jr'[w] = SoftAdvance(jr[w], pos[w])
      BY <1>9, WriterTypes DEF Flush, SoftCheckpoint, TypeOK
    <3> QED BY <3>1, <3>2 DEF SoftAdvance, JournalState
  <2>3. /\ tail = w /\ Anchor(jr[w].hard_index, jr[w].hard)
        /\ sig = "joedb" /\ HeaderSize <= size /\ fpos[w] <= size
        /\ jr[w].checkpoint <= size /\ jr[w].hard <= size
        /\ \A i \in SlotIndex : -slot[i] <= size
    BY <2>1 DEF HardInv, WriterInv, OpenInv, Opened, HolderInv, Holds, Busy, Fixing
  <2>4. size' \in Int /\ size <= size' /\ pos[w] <= size'
    BY <2>1, <2>3, BufferWritten
  <2>5. OpenInv(w)'
    BY <2>1, <2>2, <2>3, <2>4, WriterTypes, Bounds DEF OpenInv, Opened
  <2>6. PICK i, n : i = jr[w].hard_index /\ n = jr[w].hard
    OBVIOUS
  <2>7. Anchor(i, n)'
    BY <2>1, <2>3, <2>6, AnchorFrame
  <2>8. WriterInv(w)'
    BY <2>1, <2>2, <2>3, <2>5, <2>6, <2>7
    DEF WriterInv, IdleInv, HolderInv, Fixing
  <2> QED BY <2>1, <2>4, <2>8, HardInvQuiet
<1>10. ASSUME NEW w \in Writer, HardCheckpoint(w)
       PROVE  HardInv'
  <2>1. /\ pc[w] = "locked" /\ pc'[w] = "hard1" /\ WriteBuffer(w)
        /\ jr[w].hard < pos[w]
        /\ fpos'[w] = pos[w] /\ mode' = mode /\ tail' = tail
        /\ slot' = slot /\ sig' = sig /\ ack' = ack
        /\ dsize' = dsize /\ dhead' = dhead
        /\ \A u \in Writer \ {w} : /\ pc'[u] = pc[u] /\ jr'[u] = jr[u]
                                   /\ mode'[u] = mode[u] /\ fpos'[u] = fpos[u]
    BY <1>10, WriterTypes DEF HardCheckpoint, TypeOK, Process
  <2>2. /\ jr'[w].hard_index = 1 - jr[w].hard_index /\ jr'[w].hard = pos[w]
        /\ jr'[w].checkpoint = pos[w]
    <3>1. jr[w] \in JournalState
      BY WriterTypes DEF TypeOK
    <3>2. jr'[w] = HardAdvance(jr[w], pos[w])
      BY <1>10, WriterTypes DEF HardCheckpoint, TypeOK
    <3> QED BY <3>1, <3>2 DEF HardAdvance, JournalState
  <2>3. /\ tail = w /\ Anchor(jr[w].hard_index, jr[w].hard)
        /\ sig = "joedb" /\ HeaderSize <= size /\ fpos[w] <= size
        /\ \A i \in SlotIndex : -slot[i] <= size
    BY <2>1 DEF HardInv, WriterInv, OpenInv, Opened, HolderInv, Holds, Busy, Fixing
  <2>4. size' \in Int /\ size <= size' /\ pos[w] <= size'
    BY <2>1, <2>3, BufferWritten
  <2>5. OpenInv(w)'
    BY <2>1, <2>2, <2>3, <2>4, WriterTypes, Bounds DEF OpenInv, Opened
  <2>6. PICK i \in {0, 1}, n \in Int : i = jr[w].hard_index /\ n = jr[w].hard
    BY WriterTypes
  <2>7. Anchor(i, n)' /\ slot[2*i] = n /\ 1 - jr'[w].hard_index = i
    BY <2>1, <2>2, <2>3, <2>6, AnchorFrame DEF Anchor
  <2>8. ack <= pos[w] /\ slot[2*i] < pos[w]
    BY <2>1, <2>3, <2>6, <2>7, WriterTypes, Bounds DEF Anchor, HardPair
  <2>9. HolderInv(w)'
    BY <2>1, <2>2, <2>3, <2>7, <2>8 DEF HolderInv, Fixing
  <2>10. WriterInv(w)'
    BY <2>1, <2>5, <2>9 DEF WriterInv, IdleInv
  <2> QED BY <2>1, <2>4, <2>10, HardInvQuiet
<1>11. ASSUME NEW w \in Writer, Unlock(w)
       PROVE  HardInv'
  <2>1. /\ pc[w] = "locked" /\ pc'[w] = "idle" /\ jr' = jr /\ mode' = mode
        /\ fpos' = fpos /\ slot' = slot /\ sig' = sig /\ ack' = ack
        /\ size' = size /\ dsize' = dsize /\ dhead' = dhead
        /\ mode[w] # "shared" => tail' = tail
        /\ \A u \in Writer \ {w} : pc'[u] = pc[u]
    BY <1>11, WriterTypes DEF Unlock, TypeOK, Process
  <2>2. /\ tail = w /\ Anchor(jr[w].hard_index, jr[w].hard) /\ OpenInv(w)
    BY <2>1 DEF HardInv, WriterInv, HolderInv, Holds, Busy
  <2>3. PICK i, n : i = jr[w].hard_index /\ n = jr[w].hard
    OBVIOUS
  <2>4. Anchor(i, n)'
    BY <2>1, <2>2, <2>3, AnchorFrame
  <2>5. Anchor(jr[w].hard_index, jr[w].hard)'
    BY <2>1, <2>3, <2>4
  <2>6. WriterInv(w)'
    <3>1. OpenInv(w)'
      BY <2>1, <2>2 DEF OpenInv, Opened, Fixing
    <3>2. IdleInv(w)'
      BY <2>1, <2>5, WriterTypes DEF IdleInv, Anchor
    <3>3. HolderInv(w)'
      BY <2>1, <2>2, <2>5 DEF HolderInv, Holds, Busy, Fixing
    <3> QED BY <3>1, <3>2, <3>3 DEF WriterInv
  <2> QED BY <2>1, <2>2, <2>6, HardInvQuiet, Bounds
<1>12. ASSUME NEW w \in Writer, SoftWrite(w)
       PROVE  HardInv'
  <2>1. PICK i \in {0, 1}, n \in Int, k \in {0, 1} :
            i = jr[w].hard_index /\ n = jr[w].hard /\ k = jr[w].soft_index
    BY WriterTypes
  <2> DEFINE c == 2*(1 - i) + k
  <2>2. /\ pc[w] = "soft" /\ pc'[w] = "locked" /\ jr' = jr /\ mode' = mode
        /\ fpos' = fpos /\ tail' = tail /\ sig' = sig /\ size' = size
        /\ ack' = ack /\ dsize' = dsize /\ WriteSlot(c, -jr[w].checkpoint)
        /\ \A v \in Writer \ {w} : pc'[v] = pc[v]
    BY <1>12, <2>1, WriterTypes DEF SoftWrite, TypeOK, Process
  <2>3. /\ Holds(w) /\ tail = w /\ Anchor(i, n) /\ slot[2*i] = n
        /\ sig = "joedb" /\ jr[w].checkpoint <= size /\ HeaderSize <= size
        /\ jr[w].hard <= size /\ fpos[w] <= size
        /\ \A a \in SlotIndex : -slot[a] <= size
    BY <2>1, <2>2
    DEF HardInv, WriterInv, HolderInv, OpenInv, Opened, Holds, Fixing, Busy, Anchor
  <2>4. /\ c \in SlotIndex /\ c # 2*i /\ c # 2*i + 1
        /\ 2*i \in SlotIndex /\ 2*i + 1 \in SlotIndex /\ 1 - i \in {0, 1}
        /\ (c = 2*(1 - i) \/ c = 2*(1 - i) + 1)
        /\ 2*(1 - i) \in SlotIndex /\ 2*(1 - i) + 1 \in SlotIndex
    BY DEF SlotIndex
  <2> HIDE DEF c
  <2>5. slot' = [slot EXCEPT ![c] = -jr[w].checkpoint]
    BY <2>2 DEF WriteSlot
  <2>6. slot'[c] = -jr[w].checkpoint /\ slot'[c] < 0
    <3>1. slot'[c] = -jr[w].checkpoint
      BY <2>4, <2>5 DEF TypeOK, Slots
    <3> QED BY <3>1, WriterTypes, Bounds
  <2>7. Anchor(i, n)'
    <3>1. slot'[2*i] = slot[2*i] /\ slot'[2*i + 1] = slot[2*i + 1]
      BY <2>4, <2>5 DEF TypeOK, Slots
    <3>2. ~HardPair(slot, 1 - i, Floor)'
      <4>1. Floor' > 0
        BY <2>2, Bounds DEF Floor, Max2
      <4>2. slot'[2*(1 - i)] < 0 \/ slot'[2*(1 - i) + 1] < 0
        BY <2>4, <2>6
      <4>3. /\ slot'[2*(1 - i)] \in Int /\ slot'[2*(1 - i) + 1] \in Int
            /\ Floor' \in Int
        BY <2>2, <2>4, Bounds DEF TypeOK, Slots, Floor, Max2
      <4> QED BY <4>1, <4>2, <4>3 DEF HardPair
    <3> QED BY <2>2, <2>3, <3>1, <3>2 DEF Anchor, HardPair, Floor, Max2
  <2>8. WriterInv(w)'
    <3>1. \A a \in SlotIndex : -slot'[a] <= size
      BY <2>3, <2>4, <2>5, <2>6, WriterTypes DEF TypeOK, Slots
    <3>2. OpenInv(w)'
      BY <2>2, <2>3, <3>1 DEF OpenInv, Opened
    <3>3. IdleInv(w)'
      BY <2>2 DEF IdleInv
    <3>4. HolderInv(w)'
      BY <2>1, <2>2, <2>3, <2>7 DEF HolderInv, Fixing
    <3> QED BY <3>2, <3>3, <3>4 DEF WriterInv
  <2>9. /\ -jr[w].checkpoint \in -MaxSize .. MaxSize /\ -jr[w].checkpoint <= Synced
        /\ -(-jr[w].checkpoint) <= size
    BY <2>3, WriterTypes, Bounds, SizeAssumption
  <2> QED BY <2>2, <2>3, <2>4, <2>8, <2>9, HeadStep
<1>13. ASSUME NEW w \in Writer, HardFirstCopy(w)
       PROVE  HardInv'
  <2>1. PICK i \in {0, 1}, n \in Int : i = jr[w].hard_index /\ n = jr[w].hard
    BY WriterTypes
  <2> DEFINE g == 1 - i
  <2>2. /\ pc[w] = "hard1" /\ pc'[w] = "hard2" /\ jr' = jr /\ mode' = mode
        /\ fpos' = fpos /\ tail' = tail /\ sig' = sig /\ size' = size
        /\ ack' = ack /\ dsize' = dsize /\ WriteSlot(2*i, jr[w].checkpoint)
        /\ \A v \in Writer \ {w} : pc'[v] = pc[v]
    BY <1>13, <2>1, WriterTypes DEF HardFirstCopy, TypeOK, Process
  <2>3. /\ Holds(w) /\ tail = w /\ Anchor(g, slot[2*g])
        /\ jr[w].checkpoint = n /\ ack <= n /\ slot[2*g] < n
        /\ sig = "joedb" /\ jr[w].checkpoint <= size /\ HeaderSize <= size
        /\ jr[w].hard <= size /\ fpos[w] <= size
        /\ \A a \in SlotIndex : -slot[a] <= size
    BY <2>1, <2>2 DEF HardInv, WriterInv, HolderInv, OpenInv, Opened, Holds, Fixing, Busy
  <2>4. /\ 2*i \in SlotIndex /\ 2*i # 2*g /\ 2*i # 2*g + 1 /\ g \in {0, 1}
        /\ 2*g \in SlotIndex /\ 2*g + 1 \in SlotIndex /\ 2*i = 2*(1 - g)
        /\ 1 - i = g
    BY DEF SlotIndex
  <2> HIDE DEF g
  <2>5. /\ slot'[2*i] = n /\ slot'[2*g] = slot[2*g]
        /\ slot'[2*g + 1] = slot[2*g + 1]
        /\ \A a \in SlotIndex : slot'[a] = slot[a] \/ slot'[a] = n
    BY <2>2, <2>3, <2>4 DEF WriteSlot, TypeOK, Slots
  <2>6. WriterInv(w)'
    <3>1. -n <= size
      BY <2>1, <2>3, WriterTypes, Bounds
    <3>2. OpenInv(w)'
      BY <2>2, <2>3, <2>5, <3>1 DEF OpenInv, Opened
    <3>3. IdleInv(w)'
      BY <2>2 DEF IdleInv
    <3>4. HardPair(slot, g, Floor)'
      BY <2>2, <2>3, <2>5 DEF Anchor, HardPair, Floor, Max2
    <3>5. HolderInv(w)'
      BY <2>1, <2>2, <2>3, <2>4, <2>5, <3>4 DEF HolderInv, Fixing
    <3> QED BY <3>2, <3>3, <3>5 DEF WriterInv
  <2>7. jr[w].checkpoint \in -MaxSize .. MaxSize /\ -jr[w].checkpoint <= size
    BY <2>3, WriterTypes, Bounds, SizeAssumption
  <2> QED BY <2>2, <2>3, <2>4, <2>6, <2>7, HeadStep
<1>14. ASSUME NEW w \in Writer, HardSync(w)
       PROVE  HardInv'
  <2>1. /\ pc[w] = "hard2" /\ pc'[w] = "hard3" /\ jr' = jr /\ mode' = mode
        /\ fpos' = fpos /\ tail' = tail /\ slot' = slot /\ sig' = sig
        /\ size' = size /\ ack' = ack /\ Sync /\ dsize' = size
        /\ \A v \in Writer \ {w} : pc'[v] = pc[v]
    BY <1>14, WriterTypes DEF HardSync, Sync, TypeOK, Process
  <2>2. Holds(w) /\ WriterInv(w)
    BY <2>1 DEF HardInv, Holds, Busy
  <2>3. WriterInv(w)'
    <3>1. OpenInv(w)'
      BY <2>1, <2>2 DEF WriterInv, OpenInv, Opened, Fixing
    <3>2. IdleInv(w)'
      BY <2>1 DEF IdleInv
    <3>3. HolderInv(w)'
      BY <2>1, <2>2
      DEF WriterInv, OpenInv, Opened, HolderInv, HardPair, Floor, Max2, Fixing
    <3> QED BY <3>1, <3>2, <3>3 DEF WriterInv
  <2> QED BY <2>1, <2>2, <2>3, SyncStep DEF Opened
<1>15. ASSUME NEW w \in Writer, HardSecondCopy(w)
       PROVE  HardInv'
  <2>1. PICK i \in {0, 1}, n \in Int : i = jr[w].hard_index /\ n = jr[w].hard
    BY WriterTypes
  <2> DEFINE g == 1 - i
  <2>2. /\ pc[w] = "hard3" /\ pc'[w] = "hard4" /\ jr' = jr /\ mode' = mode
        /\ fpos' = fpos /\ tail' = tail /\ sig' = sig /\ size' = size
        /\ ack' = ack /\ dsize' = dsize /\ WriteSlot(2*i + 1, jr[w].checkpoint)
        /\ \A v \in Writer \ {w} : pc'[v] = pc[v]
    BY <1>15, <2>1, WriterTypes DEF HardSecondCopy, TypeOK, Process
  <2>3. /\ Holds(w) /\ tail = w /\ HardPair(slot, g, Floor) /\ slot[2*i] = n
        /\ jr[w].checkpoint = n /\ ack <= n /\ slot[2*g] < n /\ n <= dsize
        /\ sig = "joedb" /\ jr[w].checkpoint <= size /\ HeaderSize <= size
        /\ jr[w].hard <= size /\ fpos[w] <= size
        /\ \A a \in SlotIndex : -slot[a] <= size
    BY <2>1, <2>2 DEF HardInv, WriterInv, HolderInv, OpenInv, Opened, Holds, Fixing, Busy
  <2>4. /\ 2*i + 1 \in SlotIndex /\ 2*i + 1 # 2*g /\ 2*i + 1 # 2*g + 1
        /\ 2*i \in SlotIndex /\ 2*g \in SlotIndex /\ 2*g + 1 \in SlotIndex
        /\ 2*i # 2*i + 1 /\ g \in {0, 1} /\ 1 - i = g
    BY DEF SlotIndex
  <2>5. jr[w].checkpoint \in -MaxSize .. MaxSize /\ jr[w].checkpoint <= Synced
    <3>1. jr[w].checkpoint \in -MaxSize .. MaxSize
      BY WriterTypes, Bounds, SizeAssumption
    <3>2. jr[w].checkpoint <= Synced
      BY <2>3, WriterTypes, Bounds
    <3> QED BY <3>1, <3>2
  <2> HIDE DEF g
  <2>6. HeadInv'
    BY <2>2, <2>3, <2>4, <2>5, HeadPwrite DEF HardInv
  <2>7. /\ slot'[2*i] = n /\ slot'[2*i + 1] = n /\ slot'[2*g] = slot[2*g]
        /\ slot'[2*g + 1] = slot[2*g + 1]
        /\ \A a \in SlotIndex : slot'[a] = slot[a] \/ slot'[a] = n
    BY <2>2, <2>3, <2>4 DEF WriteSlot, TypeOK, Slots
  <2>8. \A a \in SlotIndex : -slot'[a] <= size
    <3>1. -n <= size
      BY <2>1, <2>3, WriterTypes, Bounds
    <3> QED BY <2>3, <2>7, <3>1
  <2>9. WriterInv(w)'
    <3>1. OpenInv(w)'
      BY <2>2, <2>3, <2>8 DEF OpenInv, Opened
    <3>2. IdleInv(w)'
      BY <2>2 DEF IdleInv
    <3>3. HolderInv(w)'
      BY <2>1, <2>2, <2>3, <2>4, <2>7 DEF HolderInv, Fixing
    <3> QED BY <3>1, <3>2, <3>3 DEF WriterInv
  <2>10. HardPair(slot, g, Floor)' /\ HardPair(slot, i, Floor)'
    <3>1. Floor' = Floor /\ Floor <= n
      BY <2>1, <2>2, <2>3, WriterTypes, Bounds DEF Floor, Max2
    <3> QED BY <2>3, <2>7, <3>1, Bounds DEF HardPair
  <2>11. ASSUME NEW v \in Writer \ {w}, pc[v] = "idle"
         PROVE  IdleInv(v)'
    <3>1. PICK k \in {0, 1} : slot[2*k] >= jr[v].hard
      BY <2>11 DEF HardInv, WriterInv, IdleInv
    <3>2. k = i \/ k = g
      BY <2>4
    <3>3. slot'[2*k] = slot[2*k]
      BY <2>3, <2>7, <3>2
    <3> QED BY <2>2, <2>10, <3>1, <3>2, <3>3 DEF IdleInv
  <2> QED BY <2>2, <2>3, <2>6, <2>8, <2>9, <2>11, HardInvHolder
<1>16. ASSUME NEW w \in Writer, HardDatasync(w)
       PROVE  HardInv'
  <2>1. PICK i \in {0, 1}, n \in Int : i = jr[w].hard_index /\ n = jr[w].hard
    BY WriterTypes
  <2> DEFINE g == 1 - i
  <2>2. /\ pc[w] = "hard4" /\ pc'[w] = "locked" /\ jr' = jr /\ mode' = mode
        /\ fpos' = fpos /\ tail' = tail /\ slot' = slot /\ sig' = sig
        /\ size' = size /\ ack' = jr[w].checkpoint /\ dsize' = size
        /\ dhead' = {[slot |-> slot, sig |-> sig]}
        /\ \A v \in Writer \ {w} : pc'[v] = pc[v]
    BY <1>16, WriterTypes DEF HardDatasync, Sync, TypeOK, Process
  <2>3. /\ Holds(w) /\ tail = w /\ slot[2*i] = n /\ slot[2*i + 1] = n
        /\ jr[w].checkpoint = n /\ ack <= n /\ slot[2*g] < n /\ n <= dsize
        /\ sig = "joedb" /\ jr[w].checkpoint <= size /\ HeaderSize <= size
        /\ jr[w].hard <= size /\ fpos[w] <= size
        /\ \A a \in SlotIndex : -slot[a] <= size
    BY <2>1, <2>2 DEF HardInv, WriterInv, HolderInv, OpenInv, Opened, Holds, Fixing, Busy
  <2>4. Floor' = n /\ Synced' = size
    BY <2>1, <2>2, <2>3, WriterTypes, Bounds DEF Floor, Synced, Max2
  <2>5. /\ HardPair(slot, i, n)
        /\ \A k \in {0, 1} : k = i \/ (k = g /\ 1 - k = i)
    <3>1. HardPair(slot, i, n)
      BY <2>3 DEF HardPair
    <3> QED BY <3>1
  <2>6. HeadInv'
    <3>1. \A k \in {0, 1} : slot[2*k + 1] <= size
      <4>1. \A k \in {0, 1} : slot[2*k + 1] \in Int /\ slot[2*k + 1] <= Synced
        BY <2>3, CurrentHead DEF HardInv, HeadOK, TypeOK, Slots, SlotIndex
      <4> QED BY <2>3, <4>1, Bounds
    <3>2. \A k \in {0, 1} :
            slot[2*k] < 0 \/ slot[2*k + 1] < 0 => HardPair(slot, 1 - k, n)
      <4>1. n >= 0
        BY <2>1, WriterTypes, Bounds
      <4> QED BY <2>3, <2>5, <4>1
    <3> HIDE DEF g
    <3>3. HeadOK(slot)'
      BY <2>2, <2>4, <2>5, <3>1, <3>2 DEF HeadOK, HardPair
    <3> QED BY <2>2, <2>3, <3>3 DEF HeadInv
  <2>7. Anchor(i, n)'
    BY <2>2, <2>3, <2>4, <2>5, WriterTypes DEF Anchor, HardPair, SlotIndex
  <2>8. WriterInv(w)'
    <3>1. OpenInv(w)'
      BY <2>2, <2>3 DEF OpenInv, Opened
    <3>2. IdleInv(w)'
      BY <2>2 DEF IdleInv
    <3>3. HolderInv(w)'
      BY <2>1, <2>2, <2>3, <2>7 DEF HolderInv, Fixing
    <3> QED BY <3>1, <3>2, <3>3 DEF WriterInv
  <2>9. ASSUME NEW v \in Writer \ {w}, pc[v] = "idle"
        PROVE  IdleInv(v)'
    <3>1. PICK k \in {0, 1} : slot[2*k] >= jr[v].hard
      BY <2>9 DEF HardInv, WriterInv, IdleInv
    <3>2. jr[v].hard \in Int /\ slot[2*g] \in Int /\ slot[2*i] \in Int
      BY WriterTypes DEF SlotIndex
    <3>3. slot[2*i] >= jr[v].hard
      BY <2>3, <2>5, <3>1, <3>2
    <3>4. HardPair(slot, i, Floor)'
      BY <2>7 DEF Anchor
    <3> QED BY <2>2, <3>3, <3>4 DEF IdleInv
  <2> QED BY <2>2, <2>3, <2>6, <2>8, <2>9, HardInvHolder
<1>17. ASSUME NEW n \in 0..MaxSize, PowerFailure(n)
       PROVE  HardInv'
  <2>1. PICK h \in dhead : slot' = h.slot /\ sig' = h.sig /\ dhead' = {h}
    BY <1>17 DEF PowerFailure
  <2>2. dsize' = n /\ dsize <= n /\ ack' = ack
    BY <1>17 DEF PowerFailure
  <2>3. h \in Head
    BY DEF TypeOK
  <2>4. Synced' \in Int /\ Synced <= Synced' /\ Floor' = Floor
    BY <2>2, Bounds DEF Synced, Floor, Max2
  <2>5. h.sig = "joedb" => HeadOK(h.slot)'
    <3>1. \A i \in {0, 1} : h.slot[2*i + 1] \in Int
      BY <2>3 DEF Head, Slots, SlotIndex
    <3> QED BY <2>4, <3>1, Bounds DEF HardInv, HeadInv, HeadOK, HardPair
  <2>6. HeadInv'
    <3>1. h = [slot |-> slot', sig |-> sig']
      BY <2>1, <2>3 DEF Head
    <3>2. ack' <= dsize'
      BY <2>2, Bounds DEF HardInv, HeadInv
    <3> QED BY <2>1, <2>2, <2>5, <3>1, <3>2 DEF HardInv, HeadInv
  <2>7. \A v \in Writer : pc'[v] = "closed"
    BY <1>17 DEF PowerFailure, Destroy, Process
  <2>8. \A v \in Writer : WriterInv(v)'
    BY <2>7 DEF WriterInv, OpenInv, Opened, IdleInv, HolderInv, Holds, Busy, Fixing
  <2> QED BY <2>6, <2>8 DEF HardInv
<1>18. ASSUME UNCHANGED vars
       PROVE  HardInv'
  <2>1. HeadInv'
    BY <1>18, HeadFrame DEF HardInv, vars
  <2>2. ASSUME NEW v \in Writer PROVE WriterInv(v)'
    <3>1. Holds(v) => tail = v
      BY DEF HardInv, WriterInv, HolderInv
    <3> QED BY <1>18, <3>1, OtherWriter, Bounds DEF HardInv, vars
  <2> QED BY <2>1, <2>2 DEF HardInv
<1> QED
  BY <1>0, <1>1, <1>2, <1>3, <1>4, <1>5, <1>6, <1>7, <1>8, <1>9, <1>10, <1>11,
     <1>12, <1>13, <1>14, <1>15, <1>16, <1>17, <1>18
  DEF Next, Opening, Construction, Transaction, Progress

\* Nothing that processes, crashes or power failures do to a file makes it
\* lose a hard checkpoint that returned, as long as nobody opens it with
\* ignore_header: hard_checkpoint_at, soft_checkpoint_at, read_checkpoint and
\* the constructors, for any number of processes and any length of the file.
THEOREM HardDurable ==
    ASSUME "ignore_header" \notin Recoveries
    PROVE  Spec => []HardCheckpointSurvives
<1>1. Init => HardInv
  BY HardInvInit
<1>2. TypeOK /\ TypeOK' /\ HardInv /\ [Next]_vars => HardInv'
  BY HardInvNext
<1>3. TypeOK /\ HardInv => HardCheckpointSurvives
  BY InvSurvives
<1>4. Spec => []TypeOK
  BY TypeCorrect
<1> QED BY <1>1, <1>2, <1>3, <1>4, PTL DEF Spec

\* The same argument bounds what writers believe: no open Writable_Journal
\* has a checkpoint beyond the end of the file, so that none becomes valid by
\* appending to it (the loop of the constructor over invalid soft checkpoints).
THEOREM WritersWithinFile ==
    ASSUME "ignore_header" \notin Recoveries
    PROVE  Spec => []WriterCheckpointWithinFile
<1>1. Init => HardInv
  BY HardInvInit
<1>2. TypeOK /\ TypeOK' /\ HardInv /\ [Next]_vars => HardInv'
  BY HardInvNext
<1>3. HardInv => WriterCheckpointWithinFile
  BY DEF HardInv, WriterInv, OpenInv, Opened, WriterCheckpointWithinFile
<1>4. Spec => []TypeOK
  BY TypeCorrect
<1> QED BY <1>1, <1>2, <1>3, <1>4, PTL DEF Spec

-----------------------------------------------------------------------------
(***************************************************************************)
(* Invariants.                                                             *)
(***************************************************************************)

\* Between two calls the buffer of a writer is empty, and what it holds
\* during a transaction comes after the checkpoint that the writer knows:
\* there is no aborted transaction.
BufferInv(w) ==
    Opened(w) =>
        /\ jr[w].hard <= jr[w].checkpoint
        /\ jr[w].checkpoint <= fpos[w] /\ fpos[w] <= pos[w]
        /\ pc[w] # "locked" => fpos[w] = pos[w]

\* A power failure cannot change what precedes an acknowledged checkpoint.
DurableInv == \A o \in Offset : o < ack => dbody[o] = {body[o]}

BodyInv == DurableInv /\ \A w \in Writer : BufferInv(w)

\* The head lock is held for the last three steps of a hard checkpoint only:
\* without failures no constructor finds a soft checkpoint to fix.  No reader
\* shares it then.
HeadLockInv ==
    /\ head # None => /\ pc[head] \in {"hard2", "hard3", "hard4"}
                      /\ \A r \in Reader : pc[r] \notin Sharing
    /\ \A w \in Writer : pc[w] \in {"hard2", "hard3", "hard4"} => head = w
    /\ \A w \in Writer : pc[w] \notin Fixing

\* No slot of the head is beyond the end of the log, nor a soft checkpoint or
\* the log itself beyond the end of the file.
SlotInv ==
    /\ \A i \in SlotIndex :
         slot[i] <= Published /\ -slot[i] <= Published /\ -slot[i] <= size
    /\ size > 0 => Published <= size
    /\ size = 0 => Published = HeaderSize

\* No process knows more than what is published, except the one that is about
\* to publish it.
KnownInv(p) ==
    Opened(p) =>
        /\ size > 0
        /\ jr[p].hard <= jr[p].checkpoint
        /\ pc[p] \notin {"soft", "hard1"} => jr[p].checkpoint <= Published
        /\ pc[p] \in {"soft", "hard1"} => p \in Writer

\* The holder of the tail lock knows where the log ends.
TailInv(w) ==
    /\ pc[w] \in {"soft", "hard1"} => Published <= jr[w].checkpoint
    /\ Holds(w) /\ pc[w] \in {"idle", "locked"} => jr[w].checkpoint = Published

LogInv ==
    /\ HeadLockInv /\ SlotInv
    /\ \A p \in Process : KnownInv(p)
    /\ \A w \in Writer : TailInv(w)

(***************************************************************************)
(* What read_checkpoint computes.                                          *)
(***************************************************************************)

\* The checkpoint that read_checkpoint finds is the least upper bound of what
\* the journal already knows, of the acceptable soft checkpoints and of the
\* hard checkpoints of the head.
LEMMA ReadLub ==
    ASSUME NEW j \in JournalState, NEW s \in Slots, NEW f \in Int
    PROVE  LET k == read_checkpoint(j, s, f)
           IN  /\ k.checkpoint \in Int /\ k.hard \in Int
               /\ k.hard <= k.checkpoint
               /\ j.checkpoint <= k.checkpoint /\ j.hard <= k.checkpoint
               /\ \A i \in SlotIndex :
                    (f < 0 \/ -s[i] <= f) => -s[i] <= k.checkpoint
               /\ \A i \in {0, 1} : s[2*i] = s[2*i + 1] => s[2*i] <= k.checkpoint
               /\ \A n \in Int :
                    /\ j.checkpoint <= n /\ j.hard <= n
                    /\ \A i \in SlotIndex : (f < 0 \/ -s[i] <= f) => -s[i] <= n
                    /\ \A i \in {0, 1} : s[2*i] = s[2*i + 1] => s[2*i] <= n
                    => k.checkpoint <= n
<1> DEFINE k0 == ScanHard(j, s, 0)
           k1 == ScanSoft(k0, s, f, 0, 0)
           k2 == ScanSoft(k1, s, f, 0, 1)
           k3 == ScanHard(k2, s, 1)
           k4 == ScanSoft(k3, s, f, 1, 0)
           k5 == ScanSoft(k4, s, f, 1, 1)
           c == read_checkpoint(j, s, f).checkpoint
<1>1. k0 \in JournalState /\ k1 \in JournalState /\ k2 \in JournalState
      /\ k3 \in JournalState /\ k4 \in JournalState /\ k5 \in JournalState
  BY ScanHardType, ScanSoftType
<1>2. read_checkpoint(j, s, f) = [k5 EXCEPT !.checkpoint = Max2(k5.checkpoint, k5.hard)]
  <2>1. ScanPair(s, f, 0)[j] = k2
    BY DEF ScanPair
  <2>2. ScanPair(s, f, 1)[k2] = k5
    BY <1>1 DEF ScanPair
  <2> HIDE DEF k2, k5
  <2> QED BY <2>1, <2>2 DEF read_checkpoint
<1>3. /\ k0.checkpoint = j.checkpoint
      /\ s[0] = s[1] /\ s[0] >= j.hard => k0.hard = s[0]
      /\ ~(s[0] = s[1] /\ s[0] >= j.hard) => k0.hard = j.hard
  BY ScanHardFields
<1> HIDE DEF k0
<1>4. /\ k1.hard = k0.hard
      /\ -s[0] >= k0.checkpoint /\ (f < 0 \/ -s[0] <= f) => k1.checkpoint = -s[0]
      /\ ~(-s[0] >= k0.checkpoint /\ (f < 0 \/ -s[0] <= f)) =>
           k1.checkpoint = k0.checkpoint
  BY <1>1, ScanSoftFields
<1> HIDE DEF k1
<1>5. /\ k2.hard = k1.hard
      /\ -s[1] >= k1.checkpoint /\ (f < 0 \/ -s[1] <= f) => k2.checkpoint = -s[1]
      /\ ~(-s[1] >= k1.checkpoint /\ (f < 0 \/ -s[1] <= f)) =>
           k2.checkpoint = k1.checkpoint
  BY <1>1, ScanSoftFields
<1> HIDE DEF k2
<1>6. /\ k3.checkpoint = k2.checkpoint
      /\ s[2] = s[3] /\ s[2] >= k2.hard => k3.hard = s[2]
      /\ ~(s[2] = s[3] /\ s[2] >= k2.hard) => k3.hard = k2.hard
  BY <1>1, ScanHardFields
<1> HIDE DEF k3
<1>7. /\ k4.hard = k3.hard
      /\ -s[2] >= k3.checkpoint /\ (f < 0 \/ -s[2] <= f) => k4.checkpoint = -s[2]
      /\ ~(-s[2] >= k3.checkpoint /\ (f < 0 \/ -s[2] <= f)) =>
           k4.checkpoint = k3.checkpoint
  BY <1>1, ScanSoftFields
<1> HIDE DEF k4
<1>8. /\ k5.hard = k4.hard
      /\ -s[3] >= k4.checkpoint /\ (f < 0 \/ -s[3] <= f) => k5.checkpoint = -s[3]
      /\ ~(-s[3] >= k4.checkpoint /\ (f < 0 \/ -s[3] <= f)) =>
           k5.checkpoint = k4.checkpoint
  BY <1>1, ScanSoftFields
<1> HIDE DEF k5
<1>9. /\ s[0] \in Int /\ s[1] \in Int /\ s[2] \in Int /\ s[3] \in Int
      /\ j.hard \in Int /\ j.checkpoint \in Int
      /\ k5.hard \in Int /\ k5.checkpoint \in Int
  BY <1>1, SizeAssumption DEF Slots, SlotIndex, JournalState, Position
<1>10. /\ read_checkpoint(j, s, f).hard = k5.hard
       /\ c = Max2(k5.checkpoint, k5.hard)
  BY <1>1, <1>2 DEF JournalState
<1>11. /\ c \in Int /\ k5.hard <= c /\ k5.checkpoint <= c
       /\ c = k5.hard \/ c = k5.checkpoint
  BY <1>9, <1>10 DEF Max2
<1> HIDE DEF c
<1>12. /\ j.hard <= k5.hard /\ j.checkpoint <= k5.checkpoint
       /\ s[0] = s[1] => s[0] <= k5.hard
       /\ s[2] = s[3] => s[2] <= k5.hard
  BY <1>3, <1>4, <1>5, <1>6, <1>7, <1>8, <1>9
<1>13. /\ f < 0 \/ -s[0] <= f => -s[0] <= k5.checkpoint
       /\ f < 0 \/ -s[1] <= f => -s[1] <= k5.checkpoint
       /\ f < 0 \/ -s[2] <= f => -s[2] <= k5.checkpoint
       /\ f < 0 \/ -s[3] <= f => -s[3] <= k5.checkpoint
  BY <1>3, <1>4, <1>5, <1>6, <1>7, <1>8, <1>9
<1>14. ASSUME NEW n \in Int, j.checkpoint <= n, j.hard <= n,
              \A i \in SlotIndex : (f < 0 \/ -s[i] <= f) => -s[i] <= n,
              \A i \in {0, 1} : s[2*i] = s[2*i + 1] => s[2*i] <= n
       PROVE  c <= n
  <2>1. /\ f < 0 \/ -s[0] <= f => -s[0] <= n
        /\ f < 0 \/ -s[1] <= f => -s[1] <= n
        /\ f < 0 \/ -s[2] <= f => -s[2] <= n
        /\ f < 0 \/ -s[3] <= f => -s[3] <= n
    BY <1>14 DEF SlotIndex
  <2>2. (s[0] = s[1] => s[0] <= n) /\ (s[2] = s[3] => s[2] <= n)
    <3>1. 2*0 = 0 /\ 2*0 + 1 = 1 /\ 2*1 = 2 /\ 2*1 + 1 = 3
      OBVIOUS
    <3> QED BY <1>14, <3>1
  <2>3. k5.hard <= n
    BY <1>3, <1>4, <1>5, <1>6, <1>7, <1>8, <1>9, <1>14, <2>2
  <2>4. k5.checkpoint <= n
    BY <1>3, <1>4, <1>5, <1>6, <1>7, <1>8, <1>9, <1>14, <2>1
  <2> QED BY <1>11, <2>3, <2>4
<1>15. \A i \in SlotIndex : (f < 0 \/ -s[i] <= f) => -s[i] <= c
  BY <1>9, <1>11, <1>13 DEF SlotIndex
<1>16. \A i \in {0, 1} : s[2*i] = s[2*i + 1] => s[2*i] <= c
  <2>1. 2*0 = 0 /\ 2*0 + 1 = 1 /\ 2*1 = 2 /\ 2*1 + 1 = 3
    OBVIOUS
  <2> QED BY <1>9, <1>11, <1>12, <2>1
<1>17. j.checkpoint <= c /\ j.hard <= c
  BY <1>9, <1>11, <1>12
<1> QED BY <1>9, <1>10, <1>11, <1>14, <1>15, <1>16, <1>17 DEF c

(***************************************************************************)
(* The body below an acknowledged hard checkpoint.                         *)
(***************************************************************************)

\* A writer in a transaction is not behind the acknowledged checkpoint.
LEMMA LockedAfterAck ==
    ASSUME TypeOK, HardInv, NEW w \in Writer, BufferInv(w), pc[w] = "locked"
    PROVE  ack <= fpos[w] /\ ack <= jr[w].checkpoint
<1>1. Anchor(jr[w].hard_index, jr[w].hard)
  BY DEF HardInv, WriterInv, HolderInv, Holds, Busy
<1>2. jr[w].hard >= Floor
  BY <1>1 DEF Anchor, HardPair
<1> QED BY <1>2, Bounds, WriterTypes DEF BufferInv, Opened

\* Only the writer w changed its buffer or its checkpoint.
LEMMA BufferFrame ==
    ASSUME NEW w, NEW v \in Writer \ {w}, BufferInv(v),
           pc'[v] = pc[v], jr'[v] = jr[v], fpos'[v] = fpos[v], pos'[v] = pos[v]
    PROVE  BufferInv(v)'
  BY DEF BufferInv, Opened

\* What WriteBuffer does to the body and to its possible states, below an
\* offset that the buffer does not reach.
LEMMA BufferBody ==
    ASSUME TypeOK, NEW w \in Writer, WriteBuffer(w), NEW n \in Int,
           n <= fpos[w] \/ fpos[w] = pos[w]
    PROVE  \A o \in Offset : o < n => body'[o] = body[o] /\ dbody'[o] = dbody[o]
<1>1. fpos[w] \in Int /\ pos[w] \in Int
  BY WriterTypes
<1>2. ASSUME NEW o \in Offset, o < n
      PROVE  o \notin fpos[w] .. pos[w] - 1
  <2>1. o \in Int
    BY SizeAssumption DEF Offset
  <2> QED BY <1>1, <1>2, <2>1
<1> QED BY <1>2 DEF WriteBuffer

\* Without aborted transactions, no step changes the body below the
\* acknowledged checkpoint, and the invariant is preserved.
LEMMA BodyNext ==
    ASSUME "ignore_header" \notin Recoveries, "abort" \notin Faults,
           TypeOK, TypeOK', HardInv, BodyInv, [Next]_vars
    PROVE  BodyInv' /\ \A o \in Offset : o < ack => body'[o] = body[o]
<1> USE DEF fileVars, diskVars, lockVars, bufVars
<1> DEFINE Kept == \A o \in Offset : o < ack => body'[o] = body[o]
           Same(w) == \A v \in Writer \ {w} :
                        /\ pc'[v] = pc[v] /\ jr'[v] = jr[v]
                        /\ fpos'[v] = fpos[v] /\ pos'[v] = pos[v]
<1>a. /\ DurableInv /\ \A w \in Writer : BufferInv(w)
      /\ ack \in Int /\ ack <= dsize
  BY Bounds DEF BodyInv, HardInv, HeadInv
<1>q. ASSUME body' = body, dbody' = dbody \/ Sync, ack' = ack
      PROVE  DurableInv' /\ Kept
  BY <1>q, <1>a DEF DurableInv, Sync
<1>w. ASSUME NEW w \in Writer, WriteBuffer(w), ack' = ack,
             ack <= fpos[w] \/ fpos[w] = pos[w]
      PROVE  DurableInv' /\ Kept
  <2>1. \A o \in Offset : o < ack => body'[o] = body[o] /\ dbody'[o] = dbody[o]
    BY <1>a, <1>w, BufferBody
  <2> QED BY <1>a, <1>w, <2>1 DEF DurableInv
<1>f. ASSUME NEW w, Same(w), w \in Writer => BufferInv(w)'
      PROVE  \A v \in Writer : BufferInv(v)'
  <2>1. ASSUME NEW v \in Writer PROVE BufferInv(v)'
    BY <1>f, <1>a, <2>1, BufferFrame
  <2> QED BY <2>1
<1>p. \A w \in Writer : /\ w \in Process /\ jr[w] \in JournalState
                        /\ jr[w].checkpoint \in Int /\ jr[w].hard \in Int
                        /\ fpos[w] \in Int /\ pos[w] \in Int
  BY WriterTypes DEF TypeOK
<1> HIDE DEF Same
<1>0. ASSUME NEW w \in Writer, NEW m \in Modes, LockTail(w, m)
      PROVE  BodyInv' /\ Kept
  <2>1. DurableInv' /\ Kept
    BY <1>0, <1>q DEF LockTail
  <2>2. Same(w)
    BY <1>0, <1>p DEF Same, LockTail, TypeOK
  <2>3. BufferInv(w)'
    BY <1>0, <1>p DEF BufferInv, Opened, LockTail, TypeOK
  <2> QED BY <2>1, <2>2, <2>3, <1>f DEF BodyInv
<1>1. ASSUME NEW w \in Writer, CreateJournal(w)
      PROVE  BodyInv' /\ Kept
  <2>1. DurableInv' /\ Kept
    BY <1>1, <1>q DEF CreateJournal
  <2>2. Same(w)
    BY <1>1, <1>p DEF Same, CreateJournal, TypeOK
  <2>3. jr'[w] = Fresh /\ fpos'[w] = HeaderSize /\ pos'[w] = HeaderSize
    BY <1>1, <1>p DEF CreateJournal, TypeOK
  <2>4. BufferInv(w)'
    BY <2>3, SizeAssumption DEF BufferInv, Opened, Fresh
  <2> QED BY <2>1, <2>2, <2>4, <1>f DEF BodyInv
<1>2. ASSUME NEW w \in Writer, NEW recovery \in Recoveries, OpenWriter(w, recovery)
      PROVE  BodyInv' /\ Kept
  <2>0. PICK j : j = Constructed(recovery)
    OBVIOUS
  <2>1. DurableInv' /\ Kept
    BY <1>2, <1>q DEF OpenWriter
  <2>2. Same(w)
    BY <1>2, <1>p DEF Same, OpenWriter, TypeOK
  <2>3. /\ jr'[w] = j /\ fpos'[w] = j.checkpoint /\ pos'[w] = j.checkpoint
        /\ pc'[w] # "locked"
    BY <1>2, <1>p, <2>0 DEF OpenWriter, TypeOK
  <2>4. j = read_checkpoint(Fresh, slot, size) /\ size \in Int /\ slot \in Slots
    BY <2>0 DEF Constructed, TypeOK
  <2>5. j.hard <= j.checkpoint /\ j.checkpoint \in Int
    BY <2>4, ReadLub, FreshType
  <2>6. BufferInv(w)'
    BY <2>3, <2>5 DEF BufferInv, Opened
  <2> QED BY <2>1, <2>2, <2>6, <1>f DEF BodyInv
<1>3. ASSUME NEW w \in Writer,
             \/ FixSlot(w) \/ FixSync(w) \/ SoftWrite(w) \/ HardFirstCopy(w)
             \/ HardSync(w) \/ HardSecondCopy(w)
      PROVE  BodyInv' /\ Kept
  <2>1. body' = body /\ ack' = ack /\ (dbody' = dbody \/ Sync)
    BY <1>3 DEF FixSlot, FixSync, SoftWrite, HardFirstCopy, HardSync,
      HardSecondCopy
  <2>2. DurableInv' /\ Kept
    BY <2>1, <1>q
  <2>3. /\ jr' = jr /\ fpos' = fpos /\ pos' = pos
        /\ \E x : pc' = [pc EXCEPT ![w] = x]
        /\ pc[w] \notin {"closed", "opening", "locked"}
    BY <1>3 DEF FixSlot, FixSync, SoftWrite, HardFirstCopy, HardSync,
      HardSecondCopy
  <2>4. Same(w)
    BY <1>p, <2>3 DEF Same, TypeOK
  <2>5. BufferInv(w)'
    <3>1. /\ jr[w].hard <= jr[w].checkpoint /\ jr[w].checkpoint <= fpos[w]
          /\ fpos[w] = pos[w] /\ fpos[w] <= pos[w]
      BY <1>a, <1>p, <2>3 DEF BufferInv, Opened
    <3> QED BY <2>3, <3>1 DEF BufferInv, Opened
  <2> QED BY <2>2, <2>4, <2>5, <1>f DEF BodyInv
<1>4. ASSUME NEW w \in Writer, HardDatasync(w)
      PROVE  BodyInv' /\ Kept
  <2>1. body' = body /\ dbody' = [o \in Offset |-> {body[o]}]
    BY <1>4 DEF HardDatasync, Sync
  <2>2. DurableInv' /\ Kept
    BY <2>1 DEF DurableInv
  <2>3. /\ jr' = jr /\ fpos' = fpos /\ pos' = pos
        /\ pc' = [pc EXCEPT ![w] = "locked"] /\ pc[w] = "hard4"
    BY <1>4 DEF HardDatasync
  <2>4. Same(w)
    BY <1>p, <2>3 DEF Same, TypeOK
  <2>5. BufferInv(w)'
    BY <1>a, <1>p, <2>3 DEF BufferInv, Opened
  <2> QED BY <2>2, <2>4, <2>5, <1>f DEF BodyInv
<1>5. ASSUME NEW w \in Writer, NEW v \in Value, Lock(w, v)
      PROVE  BodyInv' /\ Kept
  <2>0. PICK j : j = IF mode[w] = "shared" THEN read_checkpoint(jr[w], slot, -1)
                     ELSE jr[w]
    OBVIOUS
  <2>1. DurableInv' /\ Kept
    BY <1>5, <1>q DEF Lock
  <2>2. Same(w)
    BY <1>5, <1>p DEF Same, Lock, TypeOK
  <2>3. /\ jr'[w] = j /\ fpos'[w] = j.checkpoint /\ pos'[w] = j.checkpoint
        /\ pc[w] = "idle"
    BY <1>5, <1>p, <2>0 DEF Lock, TypeOK
  <2>4. j.hard <= j.checkpoint /\ j.checkpoint \in Int
    <3>1. CASE mode[w] = "shared"
      <4>1. j = read_checkpoint(jr[w], slot, -1) /\ slot \in Slots
        BY <2>0, <3>1 DEF TypeOK
      <4>2. -1 \in Int
        OBVIOUS
      <4> QED BY <1>p, <4>1, <4>2, ReadLub
    <3>2. CASE mode[w] # "shared"
      BY <1>a, <1>p, <2>0, <2>3, <3>2 DEF BufferInv, Opened
    <3> QED BY <3>1, <3>2
  <2>5. BufferInv(w)'
    BY <2>3, <2>4 DEF BufferInv, Opened
  <2> QED BY <2>1, <2>2, <2>5, <1>f DEF BodyInv
<1>6. ASSUME NEW w \in Writer, Write(w)
      PROVE  BodyInv' /\ Kept
  <2>1. DurableInv' /\ Kept
    BY <1>6, <1>q DEF Write
  <2>2. Same(w)
    BY <1>6, <1>p DEF Same, Write, TypeOK
  <2>3. /\ jr' = jr /\ fpos' = fpos /\ pos'[w] = pos[w] + 1 /\ pc' = pc
        /\ pc[w] = "locked"
    BY <1>6, <1>p DEF Write, TypeOK
  <2>4. BufferInv(w)'
    BY <1>a, <1>p, <2>3 DEF BufferInv, Opened
  <2> QED BY <2>1, <2>2, <2>4, <1>f DEF BodyInv
<1>7. ASSUME NEW w \in Writer, Flush(w)
      PROVE  BodyInv' /\ Kept
  <2>1. ack <= fpos[w]
    BY <1>7, <1>a, LockedAfterAck DEF Flush
  <2>2. DurableInv' /\ Kept
    BY <1>7, <1>w, <2>1 DEF Flush
  <2>3. Same(w)
    BY <1>7, <1>p DEF Same, Flush, TypeOK
  <2>4. /\ jr' = jr /\ fpos'[w] = pos[w] /\ pos' = pos /\ pc' = pc
        /\ pc[w] = "locked"
    BY <1>7, <1>p DEF Flush, TypeOK
  <2>5. BufferInv(w)'
    BY <1>a, <1>p, <2>4 DEF BufferInv, Opened
  <2> QED BY <2>2, <2>3, <2>5, <1>f DEF BodyInv
<1>8. ASSUME NEW w \in Writer, SoftCheckpoint(w) \/ HardCheckpoint(w)
      PROVE  BodyInv' /\ Kept
  <2>1. ack <= fpos[w] /\ pc[w] = "locked" /\ WriteBuffer(w) /\ ack' = ack
    BY <1>8, <1>a, LockedAfterAck DEF SoftCheckpoint, HardCheckpoint
  <2>2. DurableInv' /\ Kept
    BY <1>w, <2>1
  <2>3. Same(w)
    BY <1>8, <1>p DEF Same, SoftCheckpoint, HardCheckpoint, TypeOK
  <2>4. /\ jr'[w] \in {SoftAdvance(jr[w], pos[w]), HardAdvance(jr[w], pos[w])}
        /\ fpos'[w] = pos[w] /\ pos' = pos
    BY <1>8, <1>p DEF SoftCheckpoint, HardCheckpoint, TypeOK
  <2>5. /\ jr'[w].checkpoint = pos[w]
        /\ jr'[w].hard = jr[w].hard \/ jr'[w].hard = pos[w]
    BY <1>p, <2>4 DEF SoftAdvance, HardAdvance, JournalState
  <2>6. BufferInv(w)'
    BY <1>a, <1>p, <2>1, <2>4, <2>5 DEF BufferInv, Opened
  <2> QED BY <2>2, <2>3, <2>6, <1>f DEF BodyInv
<1>9. ASSUME NEW w \in Writer, Unlock(w)
      PROVE  BodyInv' /\ Kept
  <2>1. DurableInv' /\ Kept
    BY <1>9, <1>q DEF Unlock
  <2>2. Same(w)
    BY <1>9, <1>p DEF Same, Unlock, TypeOK
  <2>3. /\ jr' = jr /\ fpos' = fpos /\ pos' = pos /\ pc[w] = "locked"
        /\ ~(pos[w] > jr[w].checkpoint)
    BY <1>9 DEF Unlock
  <2>4. BufferInv(w)'
    BY <1>a, <1>p, <2>3 DEF BufferInv, Opened
  <2> QED BY <2>1, <2>2, <2>4, <1>f DEF BodyInv
<1>d. ASSUME NEW P, Destroy(P)
      PROVE  \A v \in Writer : BufferInv(v)'
  <2>1. ASSUME NEW v \in Writer, v \in P PROVE BufferInv(v)'
    BY <1>d, <1>p, <2>1 DEF Destroy, BufferInv, Opened
  <2>2. ASSUME NEW v \in Writer, v \notin P PROVE BufferInv(v)'
    BY <1>a, <1>d, <1>p, <2>2 DEF Destroy, BufferInv, Opened
  <2> QED BY <2>1, <2>2
<1>10. ASSUME NEW w \in Writer, CloseWriter(w)
       PROVE  BodyInv' /\ Kept
  <2>1. fpos[w] = pos[w] /\ WriteBuffer(w) /\ ack' = ack
    BY <1>10, <1>a DEF CloseWriter, BufferInv, Opened
  <2>2. DurableInv' /\ Kept
    BY <1>w, <2>1
  <2> QED BY <1>10, <1>d, <2>2 DEF CloseWriter, BodyInv
<1>11. ASSUME NEW w \in Writer,
              \/ Crash(w)
              \/ \E recovery \in Recoveries : OpenFails(w, recovery)
       PROVE  BodyInv' /\ Kept
  BY <1>11, <1>d, <1>q DEF Crash, OpenFails, BodyInv
<1>12. ASSUME NEW r \in Reader, Reading(r)
       PROVE  BodyInv' /\ Kept
  <2>1. body' = body /\ dbody' = dbody /\ ack' = ack
    BY <1>12 DEF Reading, LockHead, StartPull, ReadHead, OpenReader,
      OpenReaderFails, Pull, CloseReader
  <2>2. DurableInv' /\ Kept
    BY <2>1, <1>q
  <2>3. ASSUME Destroy({r})
        PROVE  BodyInv' /\ Kept
    BY <1>d, <2>2, <2>3 DEF BodyInv
  <2>4. ASSUME NEW x, pc' = [pc EXCEPT ![r] = x],
               jr' = jr \/ \E j : jr' = [jr EXCEPT ![r] = j],
               fpos' = fpos, pos' = pos
        PROVE  BodyInv' /\ Kept
    <3>1. Same(r) /\ r \notin Writer
      BY <1>p, <2>4, ProcessAssumption DEF Same, TypeOK
    <3> QED BY <1>f, <2>2, <3>1 DEF BodyInv
  <2>5. CASE LockHead(r)
    BY <2>4, <2>5 DEF LockHead
  <2>6. CASE StartPull(r)
    BY <2>4, <2>6 DEF StartPull
  <2>7. CASE Pull(r)
    BY <2>4, <2>7 DEF Pull
  <2>8. ASSUME NEW recovery \in Recoveries, OpenReader(r, recovery)
        PROVE  BodyInv' /\ Kept
    BY <2>4, <2>8 DEF OpenReader
  <2>9. CASE CloseReader(r) \/ \E recovery \in Recoveries : OpenReaderFails(r, recovery)
    BY <2>3, <2>9 DEF CloseReader, OpenReaderFails
  <2> QED BY <1>12, <2>5, <2>6, <2>7, <2>8, <2>9 DEF Reading, ReadHead
<1>13. ASSUME NEW n \in 0..MaxSize, PowerFailure(n)
       PROVE  BodyInv' /\ Kept
  <2>1. /\ dsize <= n /\ n \in Int /\ ack' = ack
        /\ \A o \in Offset : o < n => body'[o] \in dbody[o]
        /\ dbody' = [o \in Offset |-> {body'[o]}]
    BY <1>13 DEF PowerFailure
  <2>2. \A o \in Offset : o < ack => o < n
    BY <1>a, <2>1, Bounds, SizeAssumption DEF Offset
  <2>3. Kept
    BY <1>a, <2>1, <2>2 DEF DurableInv
  <2>4. DurableInv'
    BY <2>1 DEF DurableInv
  <2> QED BY <1>13, <1>d, <2>3, <2>4 DEF PowerFailure, BodyInv
<1>14. ASSUME UNCHANGED vars
       PROVE  BodyInv' /\ Kept
  <2>1. DurableInv' /\ Kept
    BY <1>14, <1>q DEF vars
  <2>2. \A v \in Writer : BufferInv(v)'
      BY <1>14, <1>a DEF BufferInv, Opened, vars
  <2> QED BY <2>1, <2>2 DEF BodyInv
<1> HIDE DEF Kept
<1>15. BodyInv' /\ Kept
  BY <1>0, <1>1, <1>2, <1>3, <1>4, <1>5, <1>6, <1>7, <1>8, <1>9, <1>10, <1>11,
     <1>12, <1>13, <1>14
  DEF Next, Opening, Construction, Transaction, Progress
<1> QED BY <1>15 DEF Kept

\* The writers start with empty buffers and nothing is acknowledged.
LEMMA BodyInit == Init => BodyInv
<1> SUFFICES ASSUME Init PROVE BodyInv
  OBVIOUS
<1>1. \A w \in Writer : pc[w] = "closed"
  BY DEF Init, Process
<1>2. \A o \in Offset : ~(o < ack)
  BY SizeAssumption DEF Init, Offset
<1> QED BY <1>1, <1>2 DEF BodyInv, DurableInv, BufferInv, Opened

\* The invariant always holds.
LEMMA BodyInvariant ==
    ASSUME "ignore_header" \notin Recoveries, "abort" \notin Faults
    PROVE  Spec => [](TypeOK /\ HardInv /\ BodyInv)
<1>1. Init => HardInv /\ BodyInv
  BY HardInvInit, BodyInit
<1>2. TypeOK /\ TypeOK' /\ HardInv /\ BodyInv /\ [Next]_vars => HardInv' /\ BodyInv'
  BY HardInvNext, BodyNext
<1>3. Spec => []TypeOK
  BY TypeCorrect
<1> QED BY <1>1, <1>2, <1>3, PTL DEF Spec

\* What precedes a hard checkpoint that returned is never modified, whatever
\* other writers, crashes and power failures do: hard_checkpoint_at syncs the
\* data before the second copy of the checkpoint, and every writer starts
\* from the checkpoint it finds under the tail lock.  (Transactions are not
\* aborted: the buffer of an aborted one may be written later, over the data
\* of others.)
THEOREM HardBodyKept ==
    ASSUME "ignore_header" \notin Recoveries, "abort" \notin Faults
    PROVE  Spec => HardBodyImmutable
<1>1. TypeOK /\ TypeOK' /\ HardInv /\ BodyInv /\ [Next]_vars =>
        [\A o \in HeaderSize .. ack - 1 : body'[o] = body[o]]_vars
  <2> SUFFICES ASSUME TypeOK, TypeOK', HardInv, BodyInv, [Next]_vars,
                      NEW o \in HeaderSize .. ack - 1
               PROVE  body'[o] = body[o]
    OBVIOUS
  <2>1. o \in Offset /\ o < ack
    BY Bounds, SizeAssumption DEF TypeOK, Offset, Position
  <2> QED BY <2>1, BodyNext
<1> QED BY <1>1, BodyInvariant, PTL DEF Spec, HardBodyImmutable

(***************************************************************************)
(* The log that a file without failures implements.                        *)
(***************************************************************************)

\* Where the head s of a file of length n says that the log ends.
Stored(s, n) == read_checkpoint(Fresh, s, n).checkpoint

\* It bounds everything that is in the head, and nothing smaller does.
LEMMA StoredLub ==
    ASSUME NEW s \in Slots, NEW n \in Nat, \A i \in SlotIndex : -s[i] <= n
    PROVE  /\ Stored(s, n) \in Int /\ HeaderSize <= Stored(s, n)
           /\ \A i \in SlotIndex : -s[i] <= Stored(s, n)
           /\ \A i \in {0, 1} : s[2*i] = s[2*i + 1] => s[2*i] <= Stored(s, n)
           /\ \A m \in Int :
                /\ HeaderSize <= m
                /\ \A i \in SlotIndex : -s[i] <= m
                /\ \A i \in {0, 1} : s[2*i] = s[2*i + 1] => s[2*i] <= m
                => Stored(s, n) <= m
<1>1. /\ Fresh \in JournalState /\ n \in Int /\ ~(n < 0)
      /\ Fresh.checkpoint = HeaderSize /\ Fresh.hard = HeaderSize
  BY FreshType DEF Fresh
<1> DEFINE c == read_checkpoint(Fresh, s, n).checkpoint
<1>2. /\ c \in Int
      /\ Fresh.checkpoint <= c
      /\ \A i \in SlotIndex : (n < 0 \/ -s[i] <= n) => -s[i] <= c
      /\ \A i \in {0, 1} : s[2*i] = s[2*i + 1] => s[2*i] <= c
      /\ \A m \in Int :
           /\ Fresh.checkpoint <= m /\ Fresh.hard <= m
           /\ \A i \in SlotIndex : (n < 0 \/ -s[i] <= n) => -s[i] <= m
           /\ \A i \in {0, 1} : s[2*i] = s[2*i + 1] => s[2*i] <= m
           => c <= m
  BY <1>1, ReadLub
<1>3. c = Stored(s, n)
  BY DEF Stored
<1> HIDE DEF c
<1> QED BY <1>1, <1>2, <1>3

\* It does not depend on the length of the file, as long as no soft
\* checkpoint is beyond it.
LEMMA StoredSize ==
    ASSUME NEW s \in Slots, NEW n \in Nat, NEW m \in Nat,
           \A i \in SlotIndex : -s[i] <= n, \A i \in SlotIndex : -s[i] <= m
    PROVE  Stored(s, n) = Stored(s, m)
<1>1. Stored(s, n) \in Int /\ Stored(s, m) \in Int
  BY StoredLub
<1>2. Stored(s, n) <= Stored(s, m)
  BY <1>1, StoredLub
<1>3. Stored(s, m) <= Stored(s, n)
  BY <1>1, StoredLub
<1> QED BY <1>1, <1>2, <1>3

\* A checkpoint that bounds the head and is stored in it is the end.
LEMMA StoredIs ==
    ASSUME NEW s \in Slots, NEW n \in Nat, \A i \in SlotIndex : -s[i] <= n,
           NEW c \in Int, HeaderSize <= c,
           \A i \in SlotIndex : s[i] <= c /\ -s[i] <= c,
           \/ \E i \in SlotIndex : -s[i] = c
           \/ \E i \in {0, 1} : s[2*i] = c /\ s[2*i + 1] = c
    PROVE  Stored(s, n) = c
<1>1. Stored(s, n) \in Int
  BY StoredLub
<1>2. c <= Stored(s, n)
  <2>1. CASE \E i \in SlotIndex : -s[i] = c
    BY <2>1, StoredLub
  <2>2. CASE \E i \in {0, 1} : s[2*i] = c /\ s[2*i + 1] = c
    BY <2>2, StoredLub
  <2> QED BY <2>1, <2>2
<1>3. Stored(s, n) <= c
  <2>1. \A i \in {0, 1} : 2*i \in SlotIndex
    BY DEF SlotIndex
  <2>2. \A i \in {0, 1} : s[2*i] = s[2*i + 1] => s[2*i] <= c
    BY <2>1
  <2> QED BY <2>2, StoredLub
<1> QED BY <1>1, <1>2, <1>3

\* Readonly_Journal::pull, which does not know the length of the file, finds
\* the same end as an opening of the file.
LEMMA PulledIsStored ==
    ASSUME NEW j \in JournalState, NEW s \in Slots, NEW n \in Nat,
           \A i \in SlotIndex : -s[i] <= n,
           j.checkpoint <= Stored(s, n), j.hard <= Stored(s, n)
    PROVE  read_checkpoint(j, s, -1).checkpoint = Stored(s, n)
<1> DEFINE c == read_checkpoint(j, s, -1).checkpoint
<1>0. -1 \in Int /\ -1 < 0
  OBVIOUS
<1>1. /\ c \in Int /\ j.checkpoint <= c
      /\ \A i \in SlotIndex : (-1 < 0 \/ -s[i] <= -1) => -s[i] <= c
      /\ \A i \in {0, 1} : s[2*i] = s[2*i + 1] => s[2*i] <= c
      /\ \A m \in Int :
           /\ j.checkpoint <= m /\ j.hard <= m
           /\ \A i \in SlotIndex : (-1 < 0 \/ -s[i] <= -1) => -s[i] <= m
           /\ \A i \in {0, 1} : s[2*i] = s[2*i + 1] => s[2*i] <= m
           => c <= m
  BY <1>0, ReadLub
<1>2. Stored(s, n) \in Int
  BY StoredLub
<1>3. HeaderSize <= c
  BY <1>1, SizeAssumption DEF JournalState, Position
<1> HIDE DEF c
<1>4. Stored(s, n) <= c
  BY <1>0, <1>1, <1>3, StoredLub
<1>5. c <= Stored(s, n)
  BY <1>0, <1>1, <1>2, StoredLub
<1> QED BY <1>1, <1>2, <1>4, <1>5 DEF c

\* The end of the log is a position of the file.
LEMMA PublishedType ==
    ASSUME TypeOK
    PROVE  /\ Published \in Position /\ Published \in Int
           /\ HeaderSize <= Published /\ Published <= MaxSize
           /\ HeaderSize \in Nat \ {0} /\ MaxSize \in Nat
           /\ size \in Nat /\ slot \in Slots
           /\ head = None => Published = Stored(slot, size)
<1>1. size \in Nat /\ size \in Int /\ slot \in Slots
  BY SizeAssumption DEF TypeOK
<1>2. read_checkpoint(Fresh, slot, size).checkpoint \in Position
  BY <1>1, FreshType, ReadCheckpointType DEF JournalState
<1>3. head # None => jr[head].checkpoint \in Position
  BY DEF TypeOK, Process, JournalState
<1>4. Published \in Position
  BY <1>2, <1>3 DEF Published
<1> QED BY <1>1, <1>4, SizeAssumption DEF Published, Position, Stored

\* A step that leaves the head and its lock alone does not move the end of
\* the log.
LEMMA QuietHead ==
    ASSUME TypeOK, TypeOK', HeadLockInv, SlotInv, NEW w,
           slot' = slot, head' = head, size' = size \/ (size > 0 /\ size <= size'),
           \A v \in Writer \ {w} : pc'[v] = pc[v] /\ jr'[v] = jr[v],
           \A r \in Reader \ {w} : pc'[r] = pc[r],
           w \in Reader /\ head # None => pc'[w] \notin Sharing,
           w \in Writer => pc'[w] \notin Fixing,
           w \in Writer /\ head = w =>
             pc'[w] \in {"hard2", "hard3", "hard4"} /\ jr'[w] = jr[w],
           w \in Writer /\ head # w => pc'[w] \notin {"hard2", "hard3", "hard4"}
    PROVE  Published' = Published /\ HeadLockInv' /\ SlotInv'
<1>1. size \in Nat /\ size' \in Nat /\ slot \in Slots
  BY DEF TypeOK
<1>2. \A i \in SlotIndex : -slot[i] <= size /\ -slot[i] <= size' /\ slot[i] \in Int
  BY <1>1 DEF SlotInv, Slots
<1>3. Stored(slot, size) = Stored(slot, size')
  BY <1>1, <1>2, StoredSize
<1>4. HeadLockInv'
  BY DEF HeadLockInv, TypeOK
<1>5. Published' = Published
  <2>1. CASE head = None
    <3>1. Published = Stored(slot, size)
      BY <2>1, PublishedType
    <3>2. Published' = Stored(slot', size')
      BY <2>1 DEF Published, Stored
    <3> QED BY <1>3, <3>1, <3>2
  <2>2. CASE head # None
    <3>1. pc[head] \in {"hard2", "hard3", "hard4"} /\ head \in Writer
      BY <2>2 DEF HeadLockInv, TypeOK
    <3>2. pc'[head] \in {"hard2", "hard3", "hard4"} /\ jr'[head] = jr[head]
      BY <3>1
    <3> QED BY <2>2, <3>1, <3>2 DEF Published
  <2> QED BY <2>1, <2>2
<1>6. SlotInv'
  <2>1. Published \in Int
    BY PublishedType
  <2> QED BY <1>1, <1>2, <1>5, <2>1 DEF SlotInv
<1> QED BY <1>4, <1>5, <1>6

\* The process p did something that does not move the end of the log.
LEMMA SameLog ==
    ASSUME TypeOK, LogInv, NEW p \in Process, Published' = Published,
           size' = size \/ size' > 0, SlotInv', HeadLockInv',
           \A q \in Process \ {p} : pc'[q] = pc[q] /\ jr'[q] = jr[q],
           \A v \in Writer \ {p} : mode'[v] = mode[v],
           KnownInv(p)', p \in Writer => TailInv(p)'
    PROVE  LogInv'
<1>1. ASSUME NEW q \in Process \ {p} PROVE KnownInv(q)'
  BY DEF LogInv, KnownInv, Opened
<1>2. ASSUME NEW v \in Writer \ {p} PROVE TailInv(v)'
  BY DEF LogInv, TailInv, Holds, Process
<1> QED BY <1>1, <1>2 DEF LogInv

\* The refined log does not change if its end, its content and what readers
\* know of it do not.
LEMMA LogStutter ==
    ASSUME Published' = Published,
           \A o \in Offset : o < Published => body'[o] = body[o],
           \A r \in Reader : pc'[r] = pc[r] /\ jr'[r] = jr[r]
    PROVE  UNCHANGED Log!vars
<1>1. [o \in Offset |-> IF o < Published THEN body[o] ELSE Zero]' =
        [o \in Offset |-> IF o < Published THEN body[o] ELSE Zero]
  OBVIOUS
<1>2. [r \in Reader |-> IF Opened(r) THEN jr[r].checkpoint ELSE 0]' =
        [r \in Reader |-> IF Opened(r) THEN jr[r].checkpoint ELSE 0]
  BY DEF Opened
<1> QED BY <1>1, <1>2 DEF Log!vars

\* Steps of a writer that leave the head, its lock and the log alone.
LEMMA WriterQuiet ==
    ASSUME TypeOK, TypeOK', BodyInv', LogInv, NEW w \in Writer,
           slot' = slot, head' = head,
           \/ size > 0 /\ size <= size'
           \/ size' = size /\ pc'[w] \in {"closed", "opening"},
           \A p \in Process \ {w} : pc'[p] = pc[p] /\ jr'[p] = jr[p],
           \A v \in Writer \ {w} : mode'[v] = mode[v],
           pc'[w] \notin Fixing,
           head = w => pc'[w] \in {"hard2", "hard3", "hard4"} /\ jr'[w] = jr[w],
           head # w => pc'[w] \notin {"hard2", "hard3", "hard4"},
           pc'[w] \notin {"closed", "opening", "soft", "hard1"} =>
             jr'[w].checkpoint <= Published,
           pc'[w] \in {"soft", "hard1"} => Published <= jr'[w].checkpoint,
           pc'[w] = "locked" \/ (pc'[w] = "idle" /\ mode'[w] = "exclusive") =>
             jr'[w].checkpoint = Published,
           \A o \in Offset : o < Published => body'[o] = body[o]
    PROVE  LogInv' /\ UNCHANGED Log!vars
<1>0. w \in Process /\ Reader \subseteq Process \ {w} /\ Writer \subseteq Process
  BY ProcessAssumption DEF Process
<1>1. Published' = Published /\ HeadLockInv' /\ SlotInv'
  BY <1>0, QuietHead DEF LogInv
<1>2. size' = size \/ size' > 0
  BY DEF TypeOK
<1>3. KnownInv(w)'
  <2>1. Opened(w)' => jr'[w].hard <= jr'[w].checkpoint
    BY DEF BodyInv, BufferInv
  <2>2. Opened(w)' => size' > 0
    BY DEF TypeOK, Opened
  <2> QED BY <1>1, <2>1, <2>2 DEF KnownInv, Opened
<1>4. TailInv(w)'
  BY <1>1 DEF TailInv, Holds, Busy, Fixing
<1>5. LogInv'
  BY <1>0, <1>1, <1>2, <1>3, <1>4, SameLog
<1> QED BY <1>0, <1>1, <1>5, LogStutter

\* Steps of the holder of the tail lock that write a checkpoint to the head.
LEMMA WriterPublishes ==
    ASSUME TypeOK, TypeOK', HardInv, BodyInv', LogInv, NEW w \in Writer,
           pc[w] \in {"soft", "hard1"}, pc'[w] \in {"locked", "hard2"},
           size' = size, body' = body, jr' = jr, mode' = mode,
           \A p \in Process \ {w} : pc'[p] = pc[p],
           Published' = jr[w].checkpoint, HeadLockInv',
           NEW x \in SlotIndex, NEW y \in {jr[w].checkpoint, -jr[w].checkpoint},
           slot' = [slot EXCEPT ![x] = y]
    PROVE  LogInv' /\ [Log!Next]_(Log!vars)
<1> DEFINE c == jr[w].checkpoint
<1>0. /\ w \in Process /\ Reader \subseteq Process \ {w} /\ Writer \subseteq Process
      /\ c \in Int /\ HeaderSize <= c /\ c <= MaxSize /\ HeaderSize \in Nat \ {0}
      /\ Published \in Int /\ HeaderSize <= Published /\ size \in Int
  BY ProcessAssumption, WriterTypes, PublishedType DEF Process
<1>1. /\ Published <= c /\ c <= size /\ Holds(w) /\ tail = w /\ size > 0
  <2>1. Published <= c /\ size > 0
    BY <1>0 DEF LogInv, TailInv, KnownInv, Opened
  <2>2. c <= size /\ Holds(w) /\ tail = w
    BY DEF HardInv, WriterInv, OpenInv, Opened, HolderInv, Holds, Busy
  <2> QED BY <2>1, <2>2
<1>2. \A i \in SlotIndex : slot'[i] <= c /\ -slot'[i] <= c /\ -slot'[i] <= size
  <2>1. ASSUME NEW i \in SlotIndex
        PROVE  slot'[i] <= c /\ -slot'[i] <= c /\ -slot'[i] <= size
    <3>1. /\ slot[i] \in Int /\ slot[i] <= Published /\ -slot[i] <= Published
          /\ -slot[i] <= size
      BY DEF LogInv, SlotInv, TypeOK, Slots
    <3>2. slot'[i] = y \/ slot'[i] = slot[i]
      BY DEF TypeOK, Slots
    <3> HIDE DEF c
    <3>3. CASE slot'[i] = slot[i]
      BY <1>0, <1>1, <3>1, <3>3
    <3>4. CASE slot'[i] = y
      <4>1. slot'[i] = c \/ slot'[i] = -c
        BY <3>4 DEF c
      <4> QED BY <1>0, <1>1, <4>1
    <3> QED BY <3>2, <3>3, <3>4
  <2> QED BY <2>1
<1>3. SlotInv'
  BY <1>0, <1>1, <1>2 DEF SlotInv
<1>4. ASSUME NEW v \in Writer \ {w}
      PROVE  ~Holds(v) /\ ~Holds(v)'
  <2>1. ~Holds(v)
    BY <1>1 DEF HardInv, WriterInv, HolderInv
  <2> QED BY <1>0, <2>1 DEF Holds
<1>5. ASSUME NEW p \in Process PROVE KnownInv(p)'
  <2>1. CASE p = w
    BY <1>0, <1>1, <2>1 DEF LogInv, KnownInv, Opened
  <2>2. CASE p # w
    <3>1. pc'[p] = pc[p]
      BY <2>2
    <3>2. pc[p] \notin {"closed", "opening", "soft", "hard1"} =>
            jr[p].checkpoint <= Published /\ jr[p].checkpoint \in Int
      BY SizeAssumption
      DEF LogInv, KnownInv, Opened, TypeOK, JournalState, Position
    <3>3. /\ Opened(p) => jr[p].hard <= jr[p].checkpoint
          /\ pc[p] \in {"soft", "hard1"} => p \in Writer
      BY DEF LogInv, KnownInv, Opened
    <3>4. pc'[p] \notin {"closed", "opening", "soft", "hard1"} =>
            jr'[p].checkpoint <= Published'
      BY <1>0, <1>1, <3>1, <3>2
    <3> QED BY <1>1, <3>1, <3>3, <3>4 DEF KnownInv, Opened
  <2> QED BY <2>1, <2>2
<1>6. ASSUME NEW v \in Writer PROVE TailInv(v)'
  <2>1. CASE v = w
    BY <2>1 DEF TailInv
  <2>2. CASE v # w
    BY <1>4, <2>2 DEF TailInv, Holds, Busy
  <2> QED BY <2>1, <2>2
<1>7. LogInv'
  BY <1>3, <1>5, <1>6 DEF LogInv
<1>8. \A r \in Reader : pc'[r] = pc[r] /\ jr'[r] = jr[r]
  BY <1>0
<1>9. CASE c = Published
  BY <1>7, <1>8, <1>9, LogStutter
<1>10. CASE c # Published
  <2> DEFINE a == [o \in Offset |-> IF o < Published THEN body[o] ELSE Zero]
             seen == [r \in Reader |-> IF Opened(r) THEN jr[r].checkpoint ELSE 0]
  <2>1. seen' = seen
    BY <1>8 DEF Opened
  <2>2. Published' \in Published + 1 .. MaxSize
    BY <1>0, <1>1, <1>10
  <2>3. a' \in [Offset -> Byte]
    BY DEF TypeOK, Byte
  <2>4. \A o \in Offset : o \notin Published .. Published' - 1 => a'[o] = a[o]
    <3>1. \A o \in Offset : o \in Int
      BY SizeAssumption DEF Offset
    <3>2. Published' \in Int
      BY <1>0
    <3> QED BY <1>0, <1>1, <3>1, <3>2
  <2>5. Log!Offset = Offset
    BY DEF Log!Offset, Offset
  <2>6. Log!Publish
    BY <2>1, <2>2, <2>3, <2>4, <2>5 DEF Log!Publish
  <2> QED BY <1>7, <2>6 DEF Log!Next
<1> QED BY <1>9, <1>10

\* The steps of readers.
LEMMA ReaderStep ==
    ASSUME "ignore_header" \notin Recoveries, TypeOK, TypeOK', LogInv,
           NEW r \in Reader, Reading(r)
    PROVE  LogInv' /\ [Log!Next]_(Log!vars)
<1> USE DEF fileVars, diskVars, lockVars, bufVars
<1> DEFINE seen == [x \in Reader |-> IF Opened(x) THEN jr[x].checkpoint ELSE 0]
<1>0. /\ r \in Process /\ r \notin Writer /\ Writer \subseteq Process
      /\ Reader \subseteq Process /\ Published \in Int
  BY ProcessAssumption, PublishedType DEF Process
<1>s. ASSUME head = None
      PROVE  Published = Stored(slot, size)
  BY <1>s, PublishedType
<1>t. size \in Nat /\ slot \in Slots /\ \A i \in SlotIndex : -slot[i] <= size
  BY PublishedType DEF LogInv, SlotInv
<1>d. ASSUME Destroy({r})
      PROVE  /\ head' = head /\ pc'[r] = "closed"
             /\ \A q \in Process \ {r} : pc'[q] = pc[q] /\ jr'[q] = jr[q]
             /\ \A v \in Writer : mode'[v] = mode[v]
  <2>1. /\ \A q \in Process \ {r} : pc'[q] = pc[q] /\ jr'[q] = jr[q]
        /\ \A v \in Writer : mode'[v] = mode[v]
        /\ pc'[r] = "closed"
    BY <1>0, <1>d DEF Destroy
  <2>2. head' = head
    BY <1>0, <1>d DEF Destroy, TypeOK
  <2> QED BY <2>1, <2>2
<1>1. /\ slot' = slot /\ head' = head /\ size' = size /\ body' = body
      /\ \A q \in Process \ {r} : pc'[q] = pc[q] /\ jr'[q] = jr[q]
      /\ \A v \in Writer : mode'[v] = mode[v]
      /\ head # None => pc'[r] \notin Sharing
  <2>1. CASE CloseReader(r) \/ \E recovery \in Recoveries : OpenReaderFails(r, recovery)
    <3>1. slot' = slot /\ size' = size /\ body' = body /\ Destroy({r})
      BY <2>1 DEF CloseReader, OpenReaderFails
    <3> QED BY <1>d, <3>1 DEF Sharing
  <2>2. CASE LockHead(r) \/ StartPull(r)
    BY <1>0, <2>2 DEF LockHead, StartPull, HeadShareable, TypeOK
  <2>3. CASE Pull(r)
    BY <1>0, <2>3 DEF Pull, TypeOK, Sharing
  <2>4. ASSUME NEW recovery \in Recoveries, OpenReader(r, recovery)
        PROVE  /\ slot' = slot /\ head' = head /\ size' = size /\ body' = body
               /\ \A q \in Process \ {r} : pc'[q] = pc[q] /\ jr'[q] = jr[q]
               /\ \A v \in Writer : mode'[v] = mode[v]
               /\ head # None => pc'[r] \notin Sharing
    BY <1>0, <2>4 DEF OpenReader, TypeOK, Sharing
  <2> QED BY <2>1, <2>2, <2>3, <2>4 DEF Reading, ReadHead
<1>2. Published' = Published /\ HeadLockInv' /\ SlotInv'
  <2>1. /\ \A v \in Writer \ {r} : pc'[v] = pc[v] /\ jr'[v] = jr[v]
        /\ \A q \in Reader \ {r} : pc'[q] = pc[q]
    BY <1>0, <1>1
  <2> QED BY <1>0, <1>1, <2>1, QuietHead DEF LogInv
<1>3. ASSUME KnownInv(r)' PROVE LogInv'
  <2>1. \A v \in Writer \ {r} : mode'[v] = mode[v]
    BY <1>1
  <2> QED BY <1>0, <1>1, <1>2, <1>3, <2>1, SameLog
<1>4. [o \in Offset |-> IF o < Published THEN body[o] ELSE Zero]' =
        [o \in Offset |-> IF o < Published THEN body[o] ELSE Zero]
  BY <1>1, <1>2
<1>r. ASSUME pc[r] \in Sharing
      PROVE  head = None
  BY <1>r DEF LogInv, HeadLockInv
<1>5. ASSUME pc'[r] = "open", jr'[r].checkpoint = Published, size > 0,
             jr'[r].hard <= jr'[r].checkpoint
      PROVE  LogInv' /\ Log!Next
  <2>1. KnownInv(r)'
    BY <1>0, <1>1, <1>2, <1>5 DEF KnownInv
  <2>2. seen' = [seen EXCEPT ![r] = Published]
    BY <1>0, <1>1, <1>5 DEF Opened
  <2> HIDE DEF seen
  <2>3. Log!Observe(r)
    BY <1>2, <1>4, <2>2 DEF Log!Observe, seen
  <2> QED BY <1>3, <2>1, <2>3 DEF Log!Next
<1>6. ASSUME pc'[r] = "closed"
      PROVE  LogInv' /\ Log!Next
  <2>1. KnownInv(r)'
    BY <1>6 DEF KnownInv, Opened
  <2>2. seen' = [seen EXCEPT ![r] = 0]
    BY <1>0, <1>1, <1>6 DEF Opened
  <2> HIDE DEF seen
  <2>3. Log!Leave(r)
    BY <1>2, <1>4, <2>2 DEF Log!Leave, seen
  <2> QED BY <1>3, <2>1, <2>3 DEF Log!Next
<1>7. CASE Pull(r)
  <2>1. /\ pc[r] = "pulling" /\ pc'[r] = "open" /\ head = None /\ Opened(r)
        /\ jr'[r] = read_checkpoint(jr[r], slot, -1) /\ jr[r] \in JournalState
    BY <1>0, <1>7, <1>r DEF Pull, TypeOK, Sharing, Opened
  <2>2. /\ jr[r].checkpoint <= Published /\ jr[r].hard <= jr[r].checkpoint
        /\ jr[r].checkpoint \in Int /\ jr[r].hard \in Int /\ size > 0
    BY <1>0, <2>1, SizeAssumption DEF LogInv, KnownInv, JournalState, Position
  <2>3. jr[r].hard <= Published
    BY <1>0, <2>2
  <2>4. jr'[r].checkpoint = Published
    BY <1>s, <1>t, <2>1, <2>2, <2>3, PulledIsStored
  <2>5. jr'[r].hard <= jr'[r].checkpoint
    <3>1. -1 \in Int
      OBVIOUS
    <3> QED BY <1>t, <2>1, <3>1, ReadLub
  <2> QED BY <1>5, <2>1, <2>2, <2>4, <2>5
<1>8. ASSUME NEW recovery \in Recoveries, OpenReader(r, recovery)
      PROVE  LogInv' /\ Log!Next
  <2>1. /\ pc[r] = "opening" /\ pc'[r] = "open" /\ head = None
        /\ jr'[r] = read_checkpoint(Fresh, slot, size) /\ HeaderSize <= size
    BY <1>0, <1>8, <1>r DEF OpenReader, Constructed, Constructible, TypeOK, Sharing
  <2>2. jr'[r].checkpoint = Published
    BY <1>s, <2>1 DEF Stored
  <2>3. jr'[r].hard <= jr'[r].checkpoint
    BY <1>t, <2>1, FreshType, ReadLub
  <2>4. size > 0
    BY <1>t, <2>1, SizeAssumption
  <2> QED BY <1>5, <2>1, <2>2, <2>3, <2>4
<1>9. CASE CloseReader(r) \/ \E recovery \in Recoveries : OpenReaderFails(r, recovery)
  <2>1. Destroy({r})
    BY <1>9 DEF CloseReader, OpenReaderFails
  <2> QED BY <1>6, <1>d, <2>1
<1>10. CASE LockHead(r) \/ StartPull(r)
  <2>1. /\ jr' = jr
        /\ \/ pc[r] = "closed" /\ pc'[r] = "opening"
           \/ pc[r] = "open" /\ pc'[r] = "pulling"
    BY <1>0, <1>10 DEF LockHead, StartPull, TypeOK
  <2>2. Opened(r)' = Opened(r)
    BY <2>1 DEF Opened
  <2>3. KnownInv(r)'
    BY <1>0, <1>1, <1>2, <2>1, <2>2 DEF LogInv, KnownInv, Opened
  <2>4. seen' = seen
    <3>1. ASSUME NEW x \in Reader
          PROVE  Opened(x)' = Opened(x) /\ jr'[x] = jr[x]
      <4>1. CASE x = r
        BY <2>1, <2>2, <4>1
      <4>2. CASE x # r
        BY <1>0, <1>1, <4>2 DEF Opened
      <4> QED BY <4>1, <4>2
    <3> QED BY <3>1
  <2> HIDE DEF seen
  <2>5. UNCHANGED Log!vars
    BY <1>2, <1>4, <2>4 DEF Log!vars, seen
  <2> QED BY <1>3, <2>3, <2>5
<1> QED BY <1>7, <1>8, <1>9, <1>10 DEF Reading, ReadHead

\* Every step of a file without failures is a step of the log, or leaves it
\* alone, and preserves the invariant.
LEMMA LogNext ==
    ASSUME "ignore_header" \notin Recoveries, Faults = {},
           TypeOK, TypeOK', HardInv, HardInv', BodyInv, BodyInv', LogInv, [Next]_vars
    PROVE  LogInv' /\ [Log!Next]_(Log!vars)
<1> USE DEF fileVars, diskVars, lockVars, bufVars
<1> DEFINE Done == LogInv' /\ [Log!Next]_(Log!vars)
           Same(w) == /\ \A p \in Process \ {w} : pc'[p] = pc[p] /\ jr'[p] = jr[p]
                      /\ \A v \in Writer \ {w} : mode'[v] = mode[v]
<1>p. \A w \in Writer : /\ w \in Process /\ jr[w] \in JournalState
                        /\ jr[w].checkpoint \in Int /\ jr[w].hard \in Int
                        /\ fpos[w] \in Int /\ pos[w] \in Int
  BY WriterTypes DEF TypeOK
<1>t. /\ size \in Nat /\ size' \in Nat /\ slot \in Slots /\ Published \in Int
      /\ HeaderSize \in Nat \ {0}
      /\ \A i \in SlotIndex : -slot[i] <= size
  BY PublishedType DEF TypeOK, LogInv, SlotInv
<1>b. \A w \in Writer : BufferInv(w) /\ KnownInv(w) /\ TailInv(w)
  BY <1>p DEF BodyInv, LogInv
<1>h. ASSUME head # None
      PROVE  head \in Writer /\ tail = head /\ pc[head] \in {"hard2", "hard3", "hard4"}
  <2>1. head \in Writer /\ pc[head] \in {"hard2", "hard3", "hard4"}
    BY <1>h DEF LogInv, HeadLockInv, TypeOK
  <2>2. tail = head
    BY <2>1 DEF HardInv, WriterInv, HolderInv, Holds, Busy
  <2> QED BY <2>1, <2>2
<1>o. ASSUME NEW w \in Writer, pc[w] \notin {"closed", "opening"}
      PROVE  size > 0 /\ HeaderSize <= size
  BY <1>o, <1>t DEF HardInv, WriterInv, OpenInv, Opened
<1>q. \A w \in Writer : pc[w] \in {"hard2", "hard3", "hard4"} <=> head = w
  BY ProcessAssumption DEF LogInv, HeadLockInv
<1> HIDE DEF Same
<1>k. ASSUME NEW w \in Writer, slot' = slot, head' = head,
             \/ size > 0 /\ size <= size'
             \/ size' = size /\ pc'[w] \in {"closed", "opening"},
             Same(w), pc'[w] \notin Fixing,
             head = w => pc'[w] \in {"hard2", "hard3", "hard4"} /\ jr'[w] = jr[w],
             head # w => pc'[w] \notin {"hard2", "hard3", "hard4"},
             pc'[w] \notin {"closed", "opening", "soft", "hard1"} =>
               jr'[w].checkpoint <= Published,
             pc'[w] \in {"soft", "hard1"} => Published <= jr'[w].checkpoint,
             pc'[w] = "locked" \/ (pc'[w] = "idle" /\ mode'[w] = "exclusive") =>
               jr'[w].checkpoint = Published,
             \A o \in Offset : o < Published => body'[o] = body[o]
      PROVE  Done
  BY <1>k, WriterQuiet DEF Same
<1>l. ASSUME NEW w \in Writer, pc[w] = "locked"
      PROVE  /\ jr[w].checkpoint = Published /\ size > 0 /\ head # w
             /\ Published <= fpos[w] /\ fpos[w] <= pos[w]
  <2>1. jr[w].checkpoint = Published
    BY <1>b, <1>l DEF TailInv, Holds, Busy
  <2> QED BY <1>b, <1>l, <1>o, <1>q, <2>1 DEF BufferInv, Opened
<1>c. ASSUME NEW w \in Writer, ConstructionLocked(w)
      PROVE  /\ head = None /\ pc[w] = "opening"
             /\ \A r \in Reader : pc[r] \notin Sharing
  <2>1. pc[w] = "opening" /\ HeadFree(w)
    BY <1>c DEF ConstructionLocked
  <2>2. head # w
    BY <1>q, <2>1
  <2> QED BY <2>1, <2>2 DEF HeadFree
<1>0. ASSUME NEW w \in Writer, NEW m \in Modes, LockTail(w, m)
      PROVE  Done
  <2>1. /\ slot' = slot /\ head' = head /\ size' = size /\ body' = body
        /\ pc[w] = "closed" /\ pc'[w] = "opening" /\ jr' = jr
    BY <1>0, <1>p DEF LockTail, TypeOK
  <2>2. Same(w)
    BY <1>0, <1>p DEF LockTail, Same, TypeOK
  <2>3. head # w /\ pc'[w] \notin Fixing
    BY <1>q, <2>1 DEF Fixing
  <2> QED BY <1>k, <2>1, <2>2, <2>3
<1>1. ASSUME NEW w \in Writer, CreateJournal(w)
      PROVE  Done
  <2>1. /\ size = 0 /\ head = None /\ head' = None /\ size' = HeaderSize
        /\ slot' = [i \in SlotIndex |-> HeaderSize] /\ body' = body
        /\ pc'[w] = "idle" /\ jr'[w] = Fresh
    BY <1>1, <1>c, <1>p DEF CreateJournal, ReleaseConstruction, TypeOK
  <2>2. \A p \in Process : ~Opened(p)
    BY <2>1 DEF LogInv, KnownInv
  <2>3. \A p \in Process \ {w} : /\ pc'[p] \in {"closed", "opening"}
                                /\ pc'[p] = pc[p] /\ jr'[p] = jr[p]
    BY <1>1, <1>p, <2>2 DEF CreateJournal, TypeOK, Opened
  <2>4. Published = HeaderSize
    BY <2>1 DEF LogInv, SlotInv
  <2>5. /\ slot' \in Slots /\ HeaderSize \in Int /\ 0 \in {0, 1}
        /\ \A i \in SlotIndex : slot'[i] = HeaderSize
    BY <1>t, <2>1 DEF TypeOK
  <2>6. Published' = HeaderSize
    <3>1. Published' = Stored(slot', size')
      BY <2>1 DEF Published, Stored
    <3>2. \A i \in SlotIndex : /\ slot'[i] <= HeaderSize /\ -slot'[i] <= HeaderSize
                               /\ -slot'[i] <= size'
      BY <1>t, <2>1, <2>5
    <3>3. \E i \in {0, 1} : slot'[2*i] = HeaderSize /\ slot'[2*i + 1] = HeaderSize
      <4>1. 2*0 = 0 /\ 2*0 + 1 = 1 /\ 0 \in SlotIndex /\ 1 \in SlotIndex
        BY DEF SlotIndex
      <4> QED BY <2>5, <4>1
    <3>4. HeaderSize <= HeaderSize
      BY <1>t
    <3> QED BY <1>t, <2>1, <2>5, <3>1, <3>2, <3>3, <3>4, StoredIs
  <2>7. HeadLockInv'
    BY <1>p, <2>1, <2>3 DEF HeadLockInv, Fixing
  <2>8. SlotInv'
    BY <1>t, <2>1, <2>5, <2>6 DEF SlotInv
  <2>9. Fresh.hard = HeaderSize /\ Fresh.checkpoint = HeaderSize
    BY DEF Fresh
  <2>10. \A p \in Process : KnownInv(p)'
    BY <1>t, <2>1, <2>3, <2>6, <2>9 DEF KnownInv, Opened
  <2>11. \A v \in Writer : TailInv(v)'
    BY <1>p, <2>1, <2>3, <2>6, <2>9 DEF TailInv
  <2>12. LogInv'
    BY <2>7, <2>8, <2>10, <2>11 DEF LogInv
  <2>13. \A r \in Reader : pc'[r] = pc[r] /\ jr'[r] = jr[r]
    BY <2>3, ProcessAssumption DEF Process
  <2>14. UNCHANGED Log!vars
    BY <2>1, <2>4, <2>6, <2>13, LogStutter
  <2> QED BY <2>12, <2>14
<1>2. ASSUME NEW w \in Writer, NEW recovery \in Recoveries, OpenWriter(w, recovery)
      PROVE  Done
  <2>1. InvalidSoft(slot) = {}
    BY <1>t DEF InvalidSoft, Slots
  <2>2. /\ slot' = slot /\ head = None /\ head' = None /\ size' = size /\ body' = body
        /\ pc'[w] = "idle" /\ jr'[w] = read_checkpoint(Fresh, slot, size)
        /\ HeaderSize <= size
    BY <1>2, <1>c, <1>p, <2>1
    DEF OpenWriter, Openable, ReleaseConstruction, Constructible, Constructed, TypeOK
  <2>3. jr'[w].checkpoint = Published
    BY <2>2, PublishedType DEF Stored
  <2>4. Same(w)
    BY <1>2, <1>p DEF OpenWriter, Same, TypeOK
  <2>5. w # None /\ size > 0 /\ size <= size'
    BY <1>t, <2>2, ProcessAssumption
  <2>6. jr'[w].checkpoint <= Published
    BY <1>t, <2>3
  <2>7. pc'[w] \notin Fixing
    BY <2>2 DEF Fixing
  <2> QED BY <1>k, <2>2, <2>3, <2>4, <2>5, <2>6, <2>7
<1>20. ASSUME NEW w \in Writer, NEW recovery \in Recoveries, OpenFails(w, recovery)
       PROVE  Done
  <2>1. /\ slot' = slot /\ size' = size /\ body' = body /\ Destroy({w})
        /\ pc[w] = "opening" /\ head = None
    BY <1>20, <1>c DEF OpenFails
  <2>2. pc'[w] = "closed" /\ head' = head /\ head # w
    BY <1>p, <2>1, ProcessAssumption DEF Destroy
  <2>3. Same(w)
    BY <2>1 DEF Destroy, Same, Process
  <2>4. pc'[w] \notin Fixing
    BY <2>2 DEF Fixing
  <2> QED BY <1>k, <2>1, <2>2, <2>3, <2>4
<1>3. ASSUME NEW w \in Writer, FixSlot(w) \/ FixSync(w)
      PROVE  Done
  BY <1>3 DEF FixSlot, FixSync, LogInv, HeadLockInv, Fixing
<1>4. ASSUME NEW w \in Writer, NEW v \in Value, Lock(w, v)
      PROVE  Done
  <2>0. PICK j : j = IF mode[w] = "shared" THEN read_checkpoint(jr[w], slot, -1)
                     ELSE jr[w]
    OBVIOUS
  <2>1. /\ slot' = slot /\ head' = head /\ size' = size /\ body' = body
        /\ pc[w] = "idle" /\ pc'[w] = "locked" /\ jr'[w] = j
        /\ mode[w] = "shared" => tail = None
    BY <1>4, <1>p, <2>0 DEF Lock, TypeOK
  <2>2. j.checkpoint = Published
    <3>1. CASE mode[w] = "shared"
      <4>1. head = None
        BY <1>h, <2>1, <3>1
      <4>2. jr[w].checkpoint <= Published /\ jr[w].hard <= Published
        BY <1>b, <1>p, <1>t, <2>1 DEF KnownInv, Opened
      <4>3. Published = Stored(slot, size)
        BY <4>1, PublishedType
      <4>4. j = read_checkpoint(jr[w], slot, -1)
        BY <2>0, <3>1
      <4> QED BY <1>p, <1>t, <4>2, <4>3, <4>4, PulledIsStored
    <3>2. CASE mode[w] # "shared"
      <4>1. Holds(w)
        BY <2>1, <3>2 DEF Holds, TypeOK
      <4> QED BY <1>b, <2>0, <2>1, <3>2, <4>1 DEF TailInv
    <3> QED BY <3>1, <3>2
  <2>3. Same(w)
    BY <1>4, <1>p DEF Lock, Same, TypeOK
  <2>4. /\ head # w /\ size > 0 /\ size <= size' /\ pc'[w] \notin Fixing
        /\ jr'[w].checkpoint <= Published
    BY <1>o, <1>q, <1>t, <2>1, <2>2 DEF Fixing
  <2> QED BY <1>k, <2>1, <2>2, <2>3, <2>4
<1>5. ASSUME NEW w \in Writer, Write(w) \/ Unlock(w)
      PROVE  Done
  <2>1. /\ slot' = slot /\ head' = head /\ size' = size /\ body' = body
        /\ pc[w] = "locked" /\ pc'[w] \in {"locked", "idle"} /\ jr' = jr
    BY <1>5, <1>p DEF Write, Unlock, TypeOK
  <2>2. Same(w)
    BY <1>5, <1>p DEF Write, Unlock, Same, TypeOK
  <2>3. /\ jr[w].checkpoint = Published /\ size > 0 /\ head # w
    BY <1>l, <2>1
  <2>4. /\ size <= size' /\ pc'[w] \notin Fixing /\ jr'[w].checkpoint <= Published
    BY <1>t, <2>1, <2>3 DEF Fixing
  <2> QED BY <1>k, <2>1, <2>2, <2>3, <2>4
<1>6. ASSUME NEW w \in Writer, Flush(w)
      PROVE  Done
  <2>1. /\ slot' = slot /\ head' = head /\ WriteBuffer(w)
        /\ pc[w] = "locked" /\ pc' = pc /\ jr' = jr
    BY <1>6 DEF Flush
  <2>2. Same(w)
    BY <1>6 DEF Flush, Same
  <2>3. /\ jr[w].checkpoint = Published /\ size > 0 /\ head # w
        /\ Published <= fpos[w]
    BY <1>l, <2>1
  <2>4. \A o \in Offset : o < Published => body'[o] = body[o]
    BY <1>t, <2>1, <2>3, BufferBody
  <2>5. size <= size'
    BY <1>p, <1>t, <2>1 DEF WriteBuffer, Max2
  <2>6. pc'[w] \notin Fixing /\ jr'[w].checkpoint <= Published
    BY <1>t, <2>1, <2>3 DEF Fixing
  <2> QED BY <1>k, <2>1, <2>2, <2>3, <2>4, <2>5, <2>6
<1>7. ASSUME NEW w \in Writer, SoftCheckpoint(w) \/ HardCheckpoint(w)
      PROVE  Done
  <2>1. /\ slot' = slot /\ head' = head /\ WriteBuffer(w)
        /\ pc[w] = "locked" /\ pc'[w] \in {"soft", "hard1"}
        /\ jr'[w] \in {SoftAdvance(jr[w], pos[w]), HardAdvance(jr[w], pos[w])}
    BY <1>7, <1>p DEF SoftCheckpoint, HardCheckpoint, TypeOK
  <2>2. Same(w)
    BY <1>7, <1>p DEF SoftCheckpoint, HardCheckpoint, Same, TypeOK
  <2>3. /\ jr[w].checkpoint = Published /\ size > 0 /\ head # w
        /\ Published <= fpos[w] /\ fpos[w] <= pos[w]
    BY <1>l, <2>1
  <2>4. \A o \in Offset : o < Published => body'[o] = body[o]
    BY <1>t, <2>1, <2>3, BufferBody
  <2>5. size <= size'
    BY <1>p, <1>t, <2>1 DEF WriteBuffer, Max2
  <2>6. jr'[w].checkpoint = pos[w]
    BY <1>p, <2>1 DEF SoftAdvance, HardAdvance, JournalState
  <2>7. pc'[w] \notin Fixing /\ Published <= jr'[w].checkpoint
    BY <1>p, <1>t, <2>1, <2>3, <2>6 DEF Fixing
  <2> QED BY <1>k, <2>1, <2>2, <2>3, <2>4, <2>5, <2>7
<1>8. ASSUME NEW w \in Writer, CloseWriter(w)
      PROVE  Done
  <2>1. pc[w] = "idle" /\ slot' = slot /\ WriteBuffer(w) /\ Destroy({w})
    BY <1>8 DEF CloseWriter
  <2>2. head # w /\ size > 0 /\ fpos[w] = pos[w]
    BY <1>b, <1>o, <1>q, <2>1 DEF BufferInv, Opened
  <2>3. \A o \in Offset : o < Published => body'[o] = body[o]
    BY <1>t, <2>1, <2>2, BufferBody
  <2>4. size <= size'
    BY <1>p, <1>t, <2>1 DEF WriteBuffer, Max2
  <2>5. pc'[w] = "closed" /\ head' = head
    BY <1>p, <2>1, <2>2 DEF Destroy
  <2>6. Same(w)
    BY <2>1 DEF Destroy, Same, Process
  <2>7. pc'[w] \notin Fixing
    BY <2>5 DEF Fixing
  <2> QED BY <1>k, <2>1, <2>2, <2>3, <2>4, <2>5, <2>6, <2>7
<1>9. ASSUME NEW w \in Writer, SoftWrite(w)
      PROVE  Done
  <2> DEFINE x == 2 * (1 - jr[w].hard_index) + jr[w].soft_index
             c == jr[w].checkpoint
  <2>1. x \in SlotIndex
    BY WriterTypes DEF SlotIndex
  <2> HIDE DEF x
  <2>2. /\ pc[w] = "soft" /\ head = None /\ head' = None /\ pc'[w] = "locked"
        /\ size' = size /\ body' = body /\ jr' = jr /\ mode' = mode
        /\ slot' = [slot EXCEPT ![x] = -c]
        /\ \A p \in Process \ {w} : pc'[p] = pc[p]
    BY <1>9, <1>p, <1>q DEF SoftWrite, HeadFree, WriteSlot, TypeOK, x
  <2>3. /\ Published <= c /\ c <= size /\ c \in Int /\ HeaderSize <= c
    BY <1>b, <1>p, <2>2, WriterTypes DEF TailInv, HardInv, WriterInv, OpenInv, Opened
  <2> HIDE DEF c
  <2>4. /\ slot' \in Slots /\ slot'[x] = -c
        /\ \A i \in SlotIndex : i # x => slot'[i] = slot[i]
    BY <2>1, <2>2 DEF TypeOK, Slots
  <2>5. \A i \in SlotIndex : slot'[i] <= c /\ -slot'[i] <= c /\ -slot'[i] <= size
    <3>1. ASSUME NEW i \in SlotIndex
          PROVE  slot'[i] <= c /\ -slot'[i] <= c /\ -slot'[i] <= size
      <4>1. /\ slot[i] \in Int /\ slot[i] <= Published /\ -slot[i] <= Published
            /\ -slot[i] <= size
        BY DEF LogInv, SlotInv, TypeOK, Slots
      <4>2. slot'[i] = -c \/ slot'[i] = slot[i]
        BY <2>4
      <4> QED BY <1>t, <2>3, <4>1, <4>2
    <3> QED BY <3>1
  <2>6. \E i \in SlotIndex : -slot'[i] = c
    BY <2>1, <2>3, <2>4
  <2>7. Stored(slot', size) = c
    BY <1>t, <2>3, <2>4, <2>5, <2>6, StoredIs
  <2>8. Published' = c
    BY <2>2, <2>7 DEF Published, Stored
  <2>9. HeadLockInv'
    BY <1>p, <2>2 DEF LogInv, HeadLockInv, Fixing
  <2>10. Published' = jr[w].checkpoint /\ slot' = [slot EXCEPT ![x] = -jr[w].checkpoint]
    BY <2>2, <2>8 DEF c
  <2>11. -jr[w].checkpoint \in {jr[w].checkpoint, -jr[w].checkpoint}
    OBVIOUS
  <2> QED BY <2>1, <2>2, <2>9, <2>10, <2>11, WriterPublishes
<1>10. ASSUME NEW w \in Writer, HardFirstCopy(w)
       PROVE  Done
  <2> DEFINE x == 2 * jr[w].hard_index
  <2>1. x \in SlotIndex
    BY WriterTypes DEF SlotIndex
  <2> HIDE DEF x
  <2>2. /\ pc[w] = "hard1" /\ head = None /\ head' = w /\ pc'[w] = "hard2"
        /\ size' = size /\ body' = body /\ jr' = jr /\ mode' = mode
        /\ slot' = [slot EXCEPT ![x] = jr[w].checkpoint]
        /\ \A p \in Process \ {w} : pc'[p] = pc[p]
        /\ \A r \in Reader : pc[r] \notin Sharing
    BY <1>10, <1>p, <1>q DEF HardFirstCopy, HeadFree, WriteSlot, TypeOK, x
  <2>3. Published' = jr[w].checkpoint
    BY <2>2, ProcessAssumption DEF Published
  <2>4. HeadLockInv'
    <3>1. \A r \in Reader : pc'[r] \notin Sharing
      BY <2>2, ProcessAssumption DEF Process
    <3> QED BY <1>p, <1>q, <2>2, <3>1, ProcessAssumption
        DEF LogInv, HeadLockInv, Fixing
  <2>5. jr[w].checkpoint \in {jr[w].checkpoint, -jr[w].checkpoint}
    OBVIOUS
  <2> QED BY <2>1, <2>2, <2>3, <2>4, <2>5, WriterPublishes
<1>11. ASSUME NEW w \in Writer, HardSync(w)
       PROVE  Done
  <2>1. /\ slot' = slot /\ head' = head /\ size' = size /\ body' = body
        /\ pc[w] = "hard2" /\ pc'[w] = "hard3" /\ jr' = jr
    BY <1>11, <1>p DEF HardSync, TypeOK
  <2>2. Same(w)
    BY <1>11, <1>p DEF HardSync, Same, TypeOK
  <2>3. head = w /\ size > 0 /\ size <= size' /\ pc'[w] \notin Fixing
    BY <1>o, <1>q, <1>t, <2>1 DEF Fixing
  <2>4. jr'[w].checkpoint <= Published
    BY <1>b, <2>1 DEF KnownInv, Opened
  <2> QED BY <1>k, <2>1, <2>2, <2>3, <2>4
<1>m. ASSUME NEW w \in Writer, Published' = Published, size' = size, size > 0,
             SlotInv', HeadLockInv', Same(w), jr' = jr, body' = body,
             jr[w].checkpoint = Published, pc'[w] \in {"hard4", "locked"}
      PROVE  Done
  <2>1. KnownInv(w)'
    <3>1. jr'[w].hard <= jr'[w].checkpoint
      BY <1>m DEF BodyInv, BufferInv, Opened
    <3> QED BY <1>m, <1>t, <3>1 DEF KnownInv, Opened
  <2>2. TailInv(w)'
    BY <1>m DEF TailInv
  <2>3. LogInv'
    BY <1>m, <1>p, <2>1, <2>2, SameLog DEF Same
  <2>4. \A r \in Reader : pc'[r] = pc[r] /\ jr'[r] = jr[r]
    BY <1>m, ProcessAssumption DEF Same, Process
  <2> QED BY <1>m, <2>3, <2>4, LogStutter
<1>12. ASSUME NEW w \in Writer, HardSecondCopy(w)
       PROVE  Done
  <2> DEFINE x == 2 * jr[w].hard_index + 1
  <2>1. x \in SlotIndex
    BY WriterTypes DEF SlotIndex
  <2> HIDE DEF x
  <2>2. /\ pc[w] = "hard3" /\ head' = head /\ pc'[w] = "hard4"
        /\ size' = size /\ body' = body /\ jr' = jr
        /\ slot' = [slot EXCEPT ![x] = jr[w].checkpoint]
    BY <1>12, <1>p DEF HardSecondCopy, WriteSlot, TypeOK, x
  <2>3. Same(w)
    BY <1>12, <1>p DEF HardSecondCopy, Same, TypeOK
  <2>4. head = w /\ size > 0
    BY <1>o, <1>q, <2>2
  <2>5. Published = jr[w].checkpoint /\ Published' = jr[w].checkpoint
    BY <2>2, <2>4, ProcessAssumption DEF Published
  <2>6. SlotInv'
    <3>1. ASSUME NEW i \in SlotIndex
          PROVE  /\ slot'[i] <= Published /\ -slot'[i] <= Published
                 /\ -slot'[i] <= size
      <4>1. /\ slot[i] \in Int /\ slot[i] <= Published /\ -slot[i] <= Published
            /\ -slot[i] <= size
        BY DEF LogInv, SlotInv, TypeOK, Slots
      <4>2. slot'[i] = Published \/ slot'[i] = slot[i]
        BY <2>2, <2>5 DEF TypeOK, Slots
      <4>3. HeaderSize <= Published
        BY PublishedType
      <4> QED BY <1>t, <2>4, <4>1, <4>2, <4>3
    <3> QED BY <1>t, <2>2, <2>4, <2>5, <3>1 DEF LogInv, SlotInv
  <2>7. HeadLockInv'
    <3>1. /\ \A r \in Reader : pc'[r] = pc[r]
          /\ \A v \in Writer : v # w => pc'[v] = pc[v]
      BY <2>3, ProcessAssumption DEF Same, Process
    <3>2. \A r \in Reader : pc'[r] \notin Sharing
      BY <2>4, <3>1, ProcessAssumption DEF LogInv, HeadLockInv
    <3> QED BY <2>2, <2>4, <3>1, <3>2 DEF LogInv, HeadLockInv, Fixing
  <2> QED BY <1>m, <2>2, <2>3, <2>4, <2>5, <2>6, <2>7
<1>13. ASSUME NEW w \in Writer, HardDatasync(w)
       PROVE  Done
  <2>1. PICK i \in {0, 1} : i = jr[w].hard_index
    BY WriterTypes
  <2>2. /\ pc[w] = "hard4" /\ head' = None /\ pc'[w] = "locked"
        /\ size' = size /\ body' = body /\ jr' = jr /\ slot' = slot
    BY <1>13, <1>p DEF HardDatasync, TypeOK
  <2>3. Same(w)
    BY <1>13, <1>p DEF HardDatasync, Same, TypeOK
  <2>4. head = w /\ size > 0
    BY <1>o, <1>q, <2>2
  <2>5. Published = jr[w].checkpoint
    BY <2>2, <2>4, ProcessAssumption DEF Published
  <2>6. slot[2*i] = Published /\ slot[2*i + 1] = Published
    BY <2>1, <2>2, <2>5 DEF HardInv, WriterInv, HolderInv, Holds, Busy
  <2>7. \A k \in SlotIndex : slot[k] <= Published /\ -slot[k] <= Published
    BY DEF LogInv, SlotInv
  <2>8. Stored(slot, size) = Published
    <3>1. HeaderSize <= Published
      BY PublishedType
    <3> QED BY <1>t, <2>6, <2>7, <3>1, StoredIs
  <2>9. Published' = Published
    BY <2>2, <2>8 DEF Published, Stored
  <2>10. SlotInv'
    BY <2>2, <2>9 DEF LogInv, SlotInv
  <2>11. HeadLockInv'
    BY <1>p, <1>q, <2>2, <2>3, <2>4 DEF LogInv, HeadLockInv, Fixing, Same
  <2> QED BY <1>m, <2>2, <2>3, <2>4, <2>5, <2>9, <2>10, <2>11
<1>14. ASSUME NEW r \in Reader, Reading(r)
       PROVE  Done
  BY <1>14, ReaderStep
<1>15. ASSUME UNCHANGED vars
       PROVE  Done
  <2>1. Published' = Published
    BY <1>15 DEF vars, Published
  <2>2. HeadLockInv' /\ SlotInv'
    BY <1>15, <2>1 DEF vars, LogInv, HeadLockInv, SlotInv
  <2>3. /\ \A p \in Process : KnownInv(p)'
        /\ \A w \in Writer : TailInv(w)'
    BY <1>15, <2>1 DEF vars, LogInv, KnownInv, Opened, TailInv, Holds
  <2>4. LogInv'
    BY <2>2, <2>3 DEF LogInv
  <2> QED BY <1>15, <2>1, <2>4, LogStutter DEF vars
<1> HIDE DEF Done
<1>16. ASSUME NEW w \in Writer, Opening(w) \/ Transaction(w) \/ Progress(w)
       PROVE  Done
  BY <1>0, <1>1, <1>2, <1>3, <1>4, <1>5, <1>6, <1>7, <1>9, <1>10, <1>11, <1>12,
     <1>13, <1>16, <1>20
  DEF Opening, Construction, Transaction, Progress
<1>17. ~ \E w \in Writer : Crash(w)
  BY DEF Crash
<1>18. ~ \E n \in 0..MaxSize : PowerFailure(n)
  BY DEF PowerFailure
<1>19. Done
  BY <1>8, <1>14, <1>15, <1>16, <1>17, <1>18 DEF Next
<1> QED BY <1>19 DEF Done

\* An empty file is the empty log.
LEMMA LogInit == Init => LogInv /\ Log!Init
<1> SUFFICES ASSUME Init PROVE LogInv /\ Log!Init
  OBVIOUS
<1>1. /\ HeaderSize \in Nat \ {0} /\ HeaderSize \in Int /\ HeaderSize <= HeaderSize
      /\ 0 \in Nat
  BY SizeAssumption
<1>2. /\ slot \in Slots /\ size = 0 /\ head = None
      /\ \A i \in SlotIndex : slot[i] = 0
      /\ \A p \in Process : pc[p] = "closed"
  BY SizeAssumption DEF Init, Slots
<1>3. \A i \in SlotIndex : -slot[i] <= 0 /\ slot[i] <= HeaderSize /\ -slot[i] <= HeaderSize
  BY <1>1, <1>2
<1>4. Stored(slot, 0) = HeaderSize
  <2>1. \A i \in {0, 1} : 2*i \in SlotIndex
    BY DEF SlotIndex
  <2>2. \A i \in {0, 1} : slot[2*i] = slot[2*i + 1] => slot[2*i] <= HeaderSize
    BY <1>3, <2>1
  <2>3. \A i \in SlotIndex : -slot[i] <= 0
    BY <1>3
  <2>4. \A i \in SlotIndex : -slot[i] <= HeaderSize
    BY <1>3
  <2>5. Stored(slot, 0) \in Int /\ HeaderSize <= Stored(slot, 0)
    BY <1>1, <1>2, <2>3, StoredLub
  <2>6. Stored(slot, 0) <= HeaderSize
    BY <1>1, <1>2, <2>2, <2>3, <2>4, StoredLub
  <2> QED BY <1>1, <2>5, <2>6
<1>5. Published = HeaderSize
  BY <1>2, <1>4 DEF Published, Stored
<1>6. HeadLockInv /\ SlotInv
  BY <1>2, <1>3, <1>5 DEF HeadLockInv, SlotInv, Fixing, Process
<1>7. LogInv
  BY <1>2, <1>6 DEF LogInv, KnownInv, Opened, TailInv, Process
<1>8. [o \in Offset |-> IF o < Published THEN body[o] ELSE Zero] =
        [o \in Offset |-> Zero]
  BY <1>5, SizeAssumption DEF Offset
<1>9. Log!Offset = Offset
  BY DEF Log!Offset, Offset
<1>10. [r \in Reader |-> IF Opened(r) THEN jr[r].checkpoint ELSE 0] =
         [r \in Reader |-> 0]
  BY <1>2 DEF Process, Opened
<1>11. Log!Init
  BY <1>5, <1>8, <1>9, <1>10 DEF Log!Init
<1> QED BY <1>7, <1>11

\* The invariant always holds.
LEMMA LogInvariant ==
    ASSUME "ignore_header" \notin Recoveries, Faults = {}
    PROVE  Spec => [](TypeOK /\ HardInv /\ BodyInv /\ LogInv)
<1>1. Init => LogInv
  BY LogInit
<1>2. /\ TypeOK /\ TypeOK' /\ HardInv /\ HardInv' /\ BodyInv /\ BodyInv' /\ LogInv
      /\ [Next]_vars
      => LogInv'
  BY LogNext
<1>3. Spec => [](TypeOK /\ HardInv /\ BodyInv)
  BY BodyInvariant
<1> QED BY <1>1, <1>2, <1>3, PTL DEF Spec

\* Without failures, any number of processes that open a file with
\* Writable_Journal or Readonly_Journal, shared or exclusive, implement a log
\* that grows by whole checkpoints, whose published part is never modified,
\* and of which every pull shows the whole.
THEOREM SharingRefinesLog ==
    ASSUME "ignore_header" \notin Recoveries, Faults = {}
    PROVE  Spec => RefinesSharedLog
<1>1. Init => Log!Init
  BY LogInit
<1>2. /\ TypeOK /\ TypeOK' /\ HardInv /\ HardInv' /\ BodyInv /\ BodyInv' /\ LogInv
      /\ [Next]_vars
      => [Log!Next]_(Log!vars)
  BY LogNext
<1> QED BY <1>1, <1>2, LogInvariant, PTL DEF Spec, RefinesSharedLog, Log!Spec

\* Without failures, no process that opens a file, for reading or for writing,
\* believes in a checkpoint beyond its end, although pull does not compare
\* the checkpoints of the head with the length of the file.
THEOREM ProcessesWithinFile ==
    ASSUME "ignore_header" \notin Recoveries, Faults = {}
    PROVE  Spec => []CheckpointWithinFile
<1>1. TypeOK /\ HardInv /\ LogInv => CheckpointWithinFile
  <2> SUFFICES ASSUME TypeOK, HardInv, LogInv, NEW p \in Process, Opened(p)
               PROVE  jr[p].checkpoint <= size
    BY DEF CheckpointWithinFile
  <2>1. CASE p \in Writer
    BY <2>1 DEF HardInv, WriterInv, OpenInv, Opened
  <2>2. CASE p \notin Writer
    <3>1. jr[p].checkpoint <= Published /\ Published <= size
      BY <2>2 DEF LogInv, KnownInv, SlotInv
    <3>2. jr[p].checkpoint \in Int /\ Published \in Int /\ size \in Int
      BY PublishedType, SizeAssumption DEF TypeOK, JournalState, Position
    <3> QED BY <3>1, <3>2
  <2> QED BY <2>1, <2>2
<1> QED BY <1>1, LogInvariant, PTL

\* Without failures and aborted transactions, the body below the checkpoint
\* of an open reader never changes, so that readers need no lock to read it.
\* (JournalAbort shows that one aborted transaction is enough to break this.)
THEOREM ReadersUndisturbed ==
    ASSUME "ignore_header" \notin Recoveries, Faults = {}
    PROVE  Spec => BodyImmutable
<1> DEFINE a == [o \in Offset |-> IF o < Published THEN body[o] ELSE Zero]
<1>1. /\ TypeOK /\ TypeOK' /\ HardInv /\ HardInv' /\ BodyInv /\ BodyInv' /\ LogInv
      /\ [Next]_vars
      => [\A r \in Reader : Opened(r) /\ Opened(r)' =>
            \A o \in HeaderSize .. jr[r].checkpoint - 1 : body'[o] = body[o]]_vars
  <2> SUFFICES ASSUME TypeOK, TypeOK', HardInv, HardInv', BodyInv, BodyInv', LogInv,
                      [Next]_vars, NEW r \in Reader, Opened(r),
                      NEW o \in HeaderSize .. jr[r].checkpoint - 1
               PROVE  body'[o] = body[o]
    OBVIOUS
  <2>1. /\ jr[r].checkpoint <= Published /\ jr[r].checkpoint \in Int
        /\ jr[r].checkpoint <= MaxSize
    <3>1. KnownInv(r) /\ r \notin Writer /\ r \in Process
      BY ProcessAssumption DEF LogInv, Process
    <3>2. jr[r] \in JournalState
      BY <3>1 DEF TypeOK
    <3> QED BY <3>1, <3>2, SizeAssumption DEF KnownInv, Opened, JournalState, Position
  <2>2. o \in Offset /\ o < Published /\ o \in Int
    BY <2>1, PublishedType DEF Offset
  <2>3. Published \in Int /\ MaxSize \in Int
    BY PublishedType
  <2>4. CASE UNCHANGED Log!vars
    <3>1. a' = a /\ Published' = Published
      BY <2>4 DEF Log!vars
    <3>2. a[o] = body[o] /\ a'[o] = body'[o]
      BY <2>2, <3>1
    <3> HIDE DEF a
    <3> QED BY <3>1, <3>2
  <2>5. CASE Log!Publish
    <3>1. /\ Published' \in Published + 1 .. MaxSize
          /\ \A x \in Log!Offset : x \notin Published .. Published' - 1 => a'[x] = a[x]
      BY <2>5 DEF Log!Publish
    <3>2. o < Published' /\ o \notin Published .. Published' - 1
      <4>1. \A p, q, x \in Int : x < p /\ q \in p + 1 .. MaxSize =>
              x < q /\ x \notin p .. q - 1
        BY <2>3
      <4>2. Published' \in Int
        <5>1. \A p \in Int : p + 1 .. MaxSize \subseteq Int
          BY <2>3
        <5> QED BY <2>3, <3>1, <5>1
      <4> QED BY <2>2, <2>3, <3>1, <4>1, <4>2
    <3>3. Log!Offset = Offset
      BY DEF Log!Offset, Offset
    <3>4. a[o] = body[o] /\ a'[o] = body'[o]
      BY <2>2, <3>2
    <3> HIDE DEF a
    <3> QED BY <2>2, <3>1, <3>2, <3>3, <3>4
  <2>6. CASE \E x \in Reader : Log!Observe(x) \/ Log!Leave(x)
    <3>1. a' = a /\ Published' = Published
      BY <2>6 DEF Log!Observe, Log!Leave
    <3>2. a[o] = body[o] /\ a'[o] = body'[o]
      BY <2>2, <3>1
    <3> HIDE DEF a
    <3> QED BY <3>1, <3>2
  <2>7. [Log!Next]_(Log!vars)
    BY LogNext
  <2> QED BY <2>4, <2>5, <2>6, <2>7 DEF Log!Next
<1> QED BY <1>1, LogInvariant, PTL DEF Spec, BodyImmutable
=============================================================================
