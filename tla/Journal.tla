------------------------------ MODULE Journal ------------------------------
(***************************************************************************)
(* The joedb journal file: Readonly_Journal, Writable_Journal, their       *)
(* construction locks and their file buffer, used by several processes on  *)
(* one file.  A file is                                                    *)
(*   - a head with four checkpoint slots (two pairs) and a signature,      *)
(*   - a body from HeaderSize up, one letter of Value per unit of length.  *)
(* A positive value stored twice in a pair is a hard checkpoint, a         *)
(* negative value is a soft checkpoint.                                    *)
(*                                                                         *)
(* The file exists twice: as the processes see it through the operating    *)
(* system (size, slot, sig, body), and as the set of states in which a     *)
(* power failure may leave it (dsize, dhead, dbody).  A write adds a       *)
(* possibility, a sync removes all but the current one.  The 41 bytes of   *)
(* the head share a disk sector: a power failure leaves them as they were  *)
(* at one moment since the last sync.  Units of the body are independent.  *)
(***************************************************************************)
EXTENDS Integers

CONSTANTS
    Writer,      \* processes that open the file with a Writable_Journal
    Reader,      \* processes that open it with a Readonly_Journal
    None,        \* "no process"
    Value,       \* what a transaction writes in each unit of the body
    Zero,        \* a unit of the body that was never written
    HeaderSize,  \* Header::size
    MaxSize,     \* bound on the length of the file
    Modes,       \* subset of {"shared", "exclusive"}: how writers open
    Recoveries,  \* subset of {"none", "overwrite", "ignore_header"}
    Faults       \* subset of {"abort", "crash", "power"}

ASSUME SizeAssumption ==
    HeaderSize \in Nat \ {0} /\ MaxSize \in Nat /\ HeaderSize <= MaxSize

ASSUME ProcessAssumption ==
    None \notin Writer /\ Writer \cap Reader = {}

ASSUME ScenarioAssumption ==
    /\ Modes \subseteq {"shared", "exclusive"}
    /\ Recoveries \subseteq {"none", "overwrite", "ignore_header"}
    /\ Faults \subseteq {"abort", "crash", "power"}

VARIABLES
    size, slot, sig, body,       \* the file, as every process sees it
    dsize, dhead, dbody,         \* what a power failure may leave of it
    tail, head,                  \* owners of the exclusive file locks
    pc,                          \* program counter of each process
    jr,                          \* checkpoint state of each journal object
    mode,                        \* opening mode of each writer
    fpos, pos, val,              \* file buffer of each writer
    ack                          \* last hard checkpoint that returned

fileVars == <<size, slot, sig, body>>
diskVars == <<dsize, dhead, dbody>>
lockVars == <<tail, head>>
bufVars  == <<fpos, pos, val>>
vars == <<fileVars, diskVars, lockVars, pc, jr, mode, bufVars, ack>>

Process == Writer \cup Reader
SlotIndex == 0..3
Offset == HeaderSize .. MaxSize - 1
Byte == Value \cup {Zero}
Position == HeaderSize .. MaxSize
Slots == [SlotIndex -> -MaxSize .. MaxSize]
Signature == {"none", "joedb"}
Head == [slot: Slots, sig: Signature]

(* Program counters.  A writer that is "opening" has the tail lock and waits *)
(* for the head lock, as in "soft" and "hard1"; "hard1" to "hard4" are the   *)
(* steps of hard_checkpoint_at; "fix" and "fixsync" are the loop of the      *)
(* writable constructor over invalid soft checkpoints.  A reader that is     *)
(* "opening" or "pulling" has the shared head lock.                          *)
Busy == {"locked", "soft", "hard1", "hard2", "hard3", "hard4"}
Sharing == {"opening", "pulling"}
PC == {"closed", "open", "idle", "fix", "fixsync"} \cup Busy \cup Sharing

JournalState ==
    [hard_index: {0, 1}, soft_index: {0, 1},
     checkpoint: Position, hard: Position]

Max2(a, b) == IF a >= b THEN a ELSE b

(***************************************************************************)
(* Reading checkpoints.                                                    *)
(***************************************************************************)

\* Fields of a journal object before it reads the head of the file.
Fresh == [hard_index |-> 0, soft_index |-> 0,
          checkpoint |-> HeaderSize, hard |-> HeaderSize]

\* A pair that stores the same position twice is a hard checkpoint.
ScanHard(j, s, i) ==
    IF s[2*i] = s[2*i + 1] /\ s[2*i] >= j.hard
    THEN [j EXCEPT !.hard = s[2*i], !.hard_index = i]
    ELSE j

\* A negative slot is a soft checkpoint.  file_size < 0 means "unknown".
ScanSoft(j, s, file_size, i, k) ==
    LET soft == -s[2*i + k]
    IN  IF soft >= j.checkpoint /\ (file_size < 0 \/ soft <= file_size)
        THEN [j EXCEPT !.checkpoint = soft,
                       !.hard_index = 1 - i, !.soft_index = k]
        ELSE j

\* One turn of the loop over the two pairs of the head s.
ScanPair(s, file_size, i) ==
    [j \in JournalState |->
        ScanSoft(ScanSoft(ScanHard(j, s, i), s, file_size, i, 0),
                 s, file_size, i, 1)]

read_checkpoint(j, s, file_size) ==
    LET k == ScanPair(s, file_size, 1)[ScanPair(s, file_size, 0)[j]]
    IN  [k EXCEPT !.checkpoint = Max2(@, k.hard)]

\* The journal state built by the constructor of Readonly_Journal from a
\* non-empty file.
Constructed(recovery) ==
    IF recovery = "ignore_header"
    THEN [Fresh EXCEPT !.checkpoint = Max2(size, HeaderSize)]
    ELSE read_checkpoint(Fresh, slot, size)

\* When that constructor does not throw.
Constructible(recovery) ==
    /\ size >= HeaderSize
    /\ recovery # "ignore_header" =>
         sig = "joedb" /\ Constructed(recovery).checkpoint <= size

(***************************************************************************)
(* File locks.  A process is never refused a lock that it has already.     *)
(***************************************************************************)

\* The exclusive tail lock can be granted to w.
TailFree(w) == tail \in {None, w}

\* The exclusive head lock can be granted to w: no other writer has it, and
\* no reader shares it.
HeadFree(w) == head \in {None, w} /\ \A r \in Reader : pc[r] \notin Sharing

\* The shared head lock can be granted to a reader.
HeadShareable == head = None

(***************************************************************************)
(* Elementary file operations.                                             *)
(***************************************************************************)

\* pwrite of one checkpoint slot.
WriteSlot(i, x) ==
    /\ slot' = [slot EXCEPT ![i] = x]
    /\ dhead' = dhead \cup {[slot |-> slot', sig |-> sig]}

\* Write the buffered units fpos[w] .. pos[w]-1 to the file.
WriteBuffer(w) ==
    LET written == fpos[w] .. pos[w] - 1
    IN  /\ body' = [o \in Offset |-> IF o \in written THEN val[w] ELSE body[o]]
        /\ dbody' = [o \in Offset |-> IF o \in written
                                      THEN dbody[o] \cup {val[w]}
                                      ELSE dbody[o]]
        /\ size' = IF fpos[w] < pos[w] THEN Max2(size, pos[w]) ELSE size

\* sync and datasync: what is in the file is what a power failure leaves.
Sync ==
    /\ dsize' = size
    /\ dhead' = {[slot |-> slot, sig |-> sig]}
    /\ dbody' = [o \in Offset |-> {body[o]}]

\* The journal objects and the file descriptors of the processes in P are no
\* more: their locks are released.  What is left in a buffer is lost, unless
\* the caller wrote it first.
Destroy(P) ==
    /\ pc' = [p \in Process |-> IF p \in P THEN "closed" ELSE pc[p]]
    /\ jr' = [p \in Process |-> IF p \in P THEN Fresh ELSE jr[p]]
    /\ mode' = [w \in Writer |-> IF w \in P THEN "shared" ELSE mode[w]]
    /\ fpos' = [w \in Writer |-> IF w \in P THEN HeaderSize ELSE fpos[w]]
    /\ pos' = [w \in Writer |-> IF w \in P THEN HeaderSize ELSE pos[w]]
    /\ val' = [w \in Writer |-> IF w \in P THEN Zero ELSE val[w]]
    /\ tail' = IF tail \in P THEN None ELSE tail
    /\ head' = IF head \in P THEN None ELSE head

(***************************************************************************)
(* Opening and closing.                                                    *)
(***************************************************************************)

\* Mutant: the loop over invalid soft checkpoints is forgotten.
MutantInvalidSoft(s) == {}

\* Slots that hold a soft checkpoint beyond the end of the file.
InvalidSoft(s) == {i \in SlotIndex : -s[i] > size}

\* Locks that remain once the construction lock of w is released.
ReleaseConstruction(w) ==
    /\ tail' = IF mode[w] = "exclusive" THEN w ELSE None
    /\ head' = None

\* Mutant: the construction lock takes the head before the tail.
MutantLockTail(w, m) ==
    /\ pc[w] = "closed" /\ HeadFree(w)
    /\ head' = w
    /\ mode' = [mode EXCEPT ![w] = m]
    /\ pc' = [pc EXCEPT ![w] = "opening"]
    /\ UNCHANGED <<fileVars, diskVars, tail, jr, bufVars, ack>>

\* The first half of a writer's construction lock: the tail.  In exclusive
\* mode the file takes it when it is opened.  Then the writer waits for the
\* head, and has the tail meanwhile.
LockTail(w, m) ==
    /\ pc[w] = "closed" /\ TailFree(w)
    /\ tail' = w
    /\ mode' = [mode EXCEPT ![w] = m]
    /\ pc' = [pc EXCEPT ![w] = "opening"]
    /\ UNCHANGED <<fileVars, diskVars, head, jr, bufVars, ack>>

\* Both locks are there.
ConstructionLocked(w) == pc[w] = "opening" /\ TailFree(w) /\ HeadFree(w)

\* The constructor of Writable_Journal on an empty file writes the head.
CreateJournal(w) ==
    /\ ConstructionLocked(w)
    /\ size = 0
    /\ size' = HeaderSize
    /\ slot' = [i \in SlotIndex |-> HeaderSize]
    /\ sig' = "joedb"
    /\ dhead' = dhead \cup {[slot |-> slot', sig |-> sig']}
    /\ ReleaseConstruction(w)
    /\ pc' = [pc EXCEPT ![w] = "idle"]
    /\ jr' = [jr EXCEPT ![w] = Fresh]
    /\ fpos' = [fpos EXCEPT ![w] = HeaderSize]
    /\ pos' = [pos EXCEPT ![w] = HeaderSize]
    /\ UNCHANGED <<body, dsize, dbody, mode, val, ack>>

\* An existing file that the constructor of Writable_Journal accepts: what
\* is after the checkpoint may only be overwritten on demand.
Openable(recovery) ==
    /\ Constructible(recovery)
    /\ size > Constructed(recovery).checkpoint => recovery = "overwrite"

\* The constructor of Writable_Journal on an existing file, under the tail
\* and the head lock, then the skip to the checkpoint.
OpenWriter(w, recovery) ==
    LET j == Constructed(recovery)
        fix == InvalidSoft(slot) # {}
    IN  /\ ConstructionLocked(w)
        /\ Openable(recovery)
        /\ pc' = [pc EXCEPT ![w] = IF fix THEN "fix" ELSE "idle"]
        /\ IF fix THEN tail' = w /\ head' = w ELSE ReleaseConstruction(w)
        /\ jr' = [jr EXCEPT ![w] = j]
        /\ fpos' = [fpos EXCEPT ![w] = j.checkpoint]
        /\ pos' = [pos EXCEPT ![w] = j.checkpoint]
        /\ UNCHANGED <<fileVars, diskVars, mode, val, ack>>

\* The constructor throws: the locks and the file are released.
OpenFails(w, recovery) ==
    /\ ConstructionLocked(w)
    /\ size > 0 /\ ~Openable(recovery)
    /\ Destroy({w})
    /\ UNCHANGED <<fileVars, diskVars, ack>>

\* One turn of the constructor's loop: overwrite an invalid soft checkpoint.
FixSlot(w) ==
    /\ pc[w] = "fix"
    /\ \E i \in InvalidSoft(slot) :
         /\ \A k \in InvalidSoft(slot) : i <= k
         /\ WriteSlot(i, -jr[w].checkpoint)
    /\ pc' = [pc EXCEPT ![w] = "fixsync"]
    /\ UNCHANGED <<size, sig, body, dsize, dbody, lockVars, jr, mode,
                   bufVars, ack>>

\* The datasync of that turn; after the last one the locks are released.
FixSync(w) ==
    /\ pc[w] = "fixsync"
    /\ Sync
    /\ IF InvalidSoft(slot) # {}
       THEN pc' = [pc EXCEPT ![w] = "fix"] /\ UNCHANGED lockVars
       ELSE pc' = [pc EXCEPT ![w] = "idle"] /\ ReleaseConstruction(w)
    /\ UNCHANGED <<fileVars, jr, mode, bufVars, ack>>

\* The construction lock of a reader: the head, in shared mode.
LockHead(r) ==
    /\ pc[r] = "closed" /\ HeadShareable
    /\ pc' = [pc EXCEPT ![r] = "opening"]
    /\ UNCHANGED <<fileVars, diskVars, lockVars, jr, mode, bufVars, ack>>

\* The constructor of Readonly_Journal reads the head, then releases it.
OpenReader(r, recovery) ==
    /\ pc[r] = "opening"
    /\ Constructible(recovery)
    /\ pc' = [pc EXCEPT ![r] = "open"]
    /\ jr' = [jr EXCEPT ![r] = Constructed(recovery)]
    /\ UNCHANGED <<fileVars, diskVars, lockVars, mode, bufVars, ack>>

\* That constructor throws.
OpenReaderFails(r, recovery) ==
    /\ pc[r] = "opening"
    /\ ~Constructible(recovery)
    /\ Destroy({r})
    /\ UNCHANGED <<fileVars, diskVars, ack>>

\* Readonly_Journal::pull takes the head lock in shared mode,
StartPull(r) ==
    /\ pc[r] = "open" /\ HeadShareable
    /\ pc' = [pc EXCEPT ![r] = "pulling"]
    /\ UNCHANGED <<fileVars, diskVars, lockVars, jr, mode, bufVars, ack>>

\* Mutant: a pull that only looks at hard checkpoints.
MutantPull(r) ==
    /\ pc[r] = "pulling"
    /\ jr' = [jr EXCEPT ![r] = ScanHard(ScanHard(jr[r], slot, 0), slot, 1)]
    /\ pc' = [pc EXCEPT ![r] = "open"]
    /\ UNCHANGED <<fileVars, diskVars, lockVars, mode, bufVars, ack>>

\* reads the checkpoints and releases the lock.
Pull(r) ==
    /\ pc[r] = "pulling"
    /\ jr' = [jr EXCEPT ![r] = read_checkpoint(jr[r], slot, -1)]
    /\ pc' = [pc EXCEPT ![r] = "open"]
    /\ UNCHANGED <<fileVars, diskVars, lockVars, mode, bufVars, ack>>

CloseReader(r) ==
    /\ pc[r] = "open"
    /\ Destroy({r})
    /\ UNCHANGED <<fileVars, diskVars, ack>>

\* Destruction of a journal outside a transaction.  ~File_Buffer writes what
\* is left in the buffer; closing the file releases its locks.
CloseWriter(w) ==
    /\ pc[w] = "idle"
    /\ WriteBuffer(w)
    /\ Destroy({w})
    /\ UNCHANGED <<slot, sig, dsize, dhead, ack>>

\* Mutant: the soft index is incremented instead of flipped.
MutantSoftAdvance(j, p) ==
    [j EXCEPT !.soft_index = j.soft_index + 1, !.checkpoint = p]

\* The fields of a journal object once it decides on a new checkpoint.
SoftAdvance(j, p) ==
    [j EXCEPT !.soft_index = 1 - j.soft_index, !.checkpoint = p]

HardAdvance(j, p) ==
    [j EXCEPT !.hard_index = 1 - j.hard_index, !.hard = p, !.checkpoint = p]

(***************************************************************************)
(* A write transaction.                                                    *)
(***************************************************************************)

\* Mutant: the tail lock is taken without a pull.
MutantLockNoPull(w, v) ==
    /\ pc[w] = "idle"
    /\ pos[w] <= jr[w].checkpoint
    /\ mode[w] = "shared" => tail = None
    /\ tail' = w
    /\ fpos' = [fpos EXCEPT ![w] = jr[w].checkpoint]
    /\ pos' = [pos EXCEPT ![w] = jr[w].checkpoint]
    /\ val' = [val EXCEPT ![w] = v]
    /\ pc' = [pc EXCEPT ![w] = "locked"]
    /\ UNCHANGED <<fileVars, diskVars, head, jr, mode, ack>>

\* Mutant: a pull, but no wait for the tail lock.
MutantLockNoWait(w, v) ==
    LET j == read_checkpoint(jr[w], slot, -1)
    IN  /\ pc[w] = "idle"
        /\ pos[w] <= jr[w].checkpoint
        /\ tail' = w
        /\ jr' = [jr EXCEPT ![w] = j]
        /\ fpos' = [fpos EXCEPT ![w] = j.checkpoint]
        /\ pos' = [pos EXCEPT ![w] = j.checkpoint]
        /\ val' = [val EXCEPT ![w] = v]
        /\ pc' = [pc EXCEPT ![w] = "locked"]
        /\ UNCHANGED <<fileVars, diskVars, head, mode, ack>>

\* Tail_Exclusive_Lock: refuse if there is uncheckpointed data; in shared
\* mode take the tail lock and pull.  Then the client skips to the checkpoint
\* and starts a transaction whose units are all v.
Lock(w, v) ==
    LET shared == mode[w] = "shared"
        j == IF shared THEN read_checkpoint(jr[w], slot, -1) ELSE jr[w]
    IN  /\ pc[w] = "idle"
        /\ pos[w] <= jr[w].checkpoint
        /\ shared => tail = None
        /\ tail' = w
        /\ jr' = [jr EXCEPT ![w] = j]
        /\ fpos' = [fpos EXCEPT ![w] = j.checkpoint]
        /\ pos' = [pos EXCEPT ![w] = j.checkpoint]
        /\ val' = [val EXCEPT ![w] = v]
        /\ pc' = [pc EXCEPT ![w] = "locked"]
        /\ UNCHANGED <<fileVars, diskVars, head, mode, ack>>

\* The journal operations append to the buffer.
Write(w) ==
    /\ pc[w] = "locked" /\ pos[w] < MaxSize
    /\ pos' = [pos EXCEPT ![w] = @ + 1]
    /\ UNCHANGED <<fileVars, diskVars, lockVars, pc, jr, mode, fpos, val, ack>>

\* A full buffer, or an explicit flush.
Flush(w) ==
    /\ pc[w] = "locked" /\ fpos[w] < pos[w]
    /\ WriteBuffer(w)
    /\ fpos' = [fpos EXCEPT ![w] = pos[w]]
    /\ UNCHANGED <<slot, sig, dsize, dhead, lockVars, pc, jr, mode, pos,
                   val, ack>>

\* Mutant: soft_checkpoint without the flush.
MutantSoftCheckpoint(w) ==
    /\ pc[w] = "locked" /\ jr[w].checkpoint < pos[w]
    /\ jr' = [jr EXCEPT ![w] = SoftAdvance(jr[w], pos[w])]
    /\ pc' = [pc EXCEPT ![w] = "soft"]
    /\ UNCHANGED <<fileVars, diskVars, lockVars, mode, bufVars, ack>>

\* soft_checkpoint: flush, advance the fields, then wait for the head lock.
SoftCheckpoint(w) ==
    /\ pc[w] = "locked" /\ jr[w].checkpoint < pos[w]
    /\ WriteBuffer(w)
    /\ fpos' = [fpos EXCEPT ![w] = pos[w]]
    /\ jr' = [jr EXCEPT ![w] = SoftAdvance(jr[w], pos[w])]
    /\ pc' = [pc EXCEPT ![w] = "soft"]
    /\ UNCHANGED <<slot, sig, dsize, dhead, lockVars, mode, pos, val, ack>>

\* Mutant: the soft checkpoint goes to the pair of the hard checkpoint.
MutantSoftWrite(w) ==
    /\ pc[w] = "soft" /\ HeadFree(w)
    /\ WriteSlot(2 * jr[w].hard_index + jr[w].soft_index, -jr[w].checkpoint)
    /\ pc' = [pc EXCEPT ![w] = "locked"]
    /\ UNCHANGED <<size, sig, body, dsize, dbody, lockVars, jr, mode,
                   bufVars, ack>>

\* The pwrite of soft_checkpoint_at, under the head lock.
SoftWrite(w) ==
    /\ pc[w] = "soft" /\ HeadFree(w)
    /\ WriteSlot(2 * (1 - jr[w].hard_index) + jr[w].soft_index,
                 -jr[w].checkpoint)
    /\ pc' = [pc EXCEPT ![w] = "locked"]
    /\ UNCHANGED <<size, sig, body, dsize, dbody, lockVars, jr, mode,
                   bufVars, ack>>

\* hard_checkpoint: flush, advance the fields, then wait for the head lock.
HardCheckpoint(w) ==
    /\ pc[w] = "locked" /\ jr[w].hard < pos[w]
    /\ WriteBuffer(w)
    /\ fpos' = [fpos EXCEPT ![w] = pos[w]]
    /\ jr' = [jr EXCEPT ![w] = HardAdvance(jr[w], pos[w])]
    /\ pc' = [pc EXCEPT ![w] = "hard1"]
    /\ UNCHANGED <<slot, sig, dsize, dhead, lockVars, mode, pos, val, ack>>

\* hard_checkpoint_at takes the head lock and writes the first copy.
HardFirstCopy(w) ==
    /\ pc[w] = "hard1" /\ HeadFree(w)
    /\ head' = w
    /\ WriteSlot(2 * jr[w].hard_index, jr[w].checkpoint)
    /\ pc' = [pc EXCEPT ![w] = "hard2"]
    /\ UNCHANGED <<size, sig, body, dsize, dbody, tail, jr, mode,
                   bufVars, ack>>

\* The data and the first copy reach the disk before the second copy is
\* written.
HardSync(w) ==
    /\ pc[w] = "hard2"
    /\ Sync
    /\ pc' = [pc EXCEPT ![w] = "hard3"]
    /\ UNCHANGED <<fileVars, lockVars, jr, mode, bufVars, ack>>

HardSecondCopy(w) ==
    /\ pc[w] = "hard3"
    /\ WriteSlot(2 * jr[w].hard_index + 1, jr[w].checkpoint)
    /\ pc' = [pc EXCEPT ![w] = "hard4"]
    /\ UNCHANGED <<size, sig, body, dsize, dbody, lockVars, jr, mode,
                   bufVars, ack>>

\* The last datasync; the head lock is released and the caller knows that
\* the checkpoint is durable.
HardDatasync(w) ==
    /\ pc[w] = "hard4"
    /\ Sync
    /\ head' = None
    /\ pc' = [pc EXCEPT ![w] = "locked"]
    /\ ack' = jr[w].checkpoint
    /\ UNCHANGED <<fileVars, tail, jr, mode, bufVars>>

\* End of the transaction.  An aborted transaction leaves its buffer as it is.
Unlock(w) ==
    /\ pc[w] = "locked"
    /\ pos[w] > jr[w].checkpoint => "abort" \in Faults
    /\ tail' = IF mode[w] = "shared" THEN None ELSE tail
    /\ pc' = [pc EXCEPT ![w] = "idle"]
    /\ UNCHANGED <<fileVars, diskVars, head, jr, mode, bufVars, ack>>

(***************************************************************************)
(* Failures.                                                               *)
(***************************************************************************)

\* A writer process is killed: its buffer is lost, its locks are released.
Crash(w) ==
    /\ "crash" \in Faults /\ pc[w] # "closed"
    /\ Destroy({w})
    /\ UNCHANGED <<fileVars, diskVars, ack>>

\* The machine stops: every process dies and the file becomes one of the
\* possible states of the disk.  n is the surviving length of the file.
PowerFailure(n) ==
    /\ "power" \in Faults
    /\ dsize <= n /\ n <= size
    /\ size' = n
    /\ \E h \in dhead : slot' = h.slot /\ sig' = h.sig /\ dhead' = {h}
    /\ body' \in [Offset -> Byte]
    /\ \A o \in Offset : IF o < n THEN body'[o] \in dbody[o] ELSE body'[o] = Zero
    /\ dsize' = n
    /\ dbody' = [o \in Offset |-> {body'[o]}]
    /\ Destroy(Process)
    /\ UNCHANGED ack

(***************************************************************************)
(* Specification.                                                          *)
(***************************************************************************)

Init ==
    /\ size = 0 /\ slot = [i \in SlotIndex |-> 0] /\ sig = "none"
    /\ body = [o \in Offset |-> Zero]
    /\ dsize = 0 /\ dhead = {[slot |-> slot, sig |-> sig]}
    /\ dbody = [o \in Offset |-> {Zero}]
    /\ tail = None /\ head = None
    /\ pc = [p \in Process |-> "closed"]
    /\ jr = [p \in Process |-> Fresh]
    /\ mode = [w \in Writer |-> "shared"]
    /\ fpos = [w \in Writer |-> HeaderSize]
    /\ pos = [w \in Writer |-> HeaderSize]
    /\ val = [w \in Writer |-> Zero]
    /\ ack = 0

Opening(w) == \E m \in Modes : LockTail(w, m)

\* The constructor of a writer once its locks are there.
Construction(w) ==
    \/ CreateJournal(w)
    \/ \E recovery \in Recoveries :
         OpenWriter(w, recovery) \/ OpenFails(w, recovery)

Transaction(w) ==
    \/ \E v \in Value : Lock(w, v)
    \/ Write(w) \/ Flush(w) \/ Unlock(w)
    \/ SoftCheckpoint(w) \/ HardCheckpoint(w)

\* The steps that a writer inside a library call takes on its own.
Progress(w) ==
    \/ Construction(w) \/ FixSlot(w) \/ FixSync(w) \/ SoftWrite(w)
    \/ HardFirstCopy(w) \/ HardSync(w) \/ HardSecondCopy(w) \/ HardDatasync(w)

\* The steps of a reader that has the shared head lock.
ReadHead(r) ==
    \/ Pull(r)
    \/ \E recovery \in Recoveries :
         OpenReader(r, recovery) \/ OpenReaderFails(r, recovery)

Reading(r) == LockHead(r) \/ StartPull(r) \/ ReadHead(r) \/ CloseReader(r)

Next ==
    \/ \E w \in Writer : Opening(w) \/ Transaction(w) \/ Progress(w)
                         \/ CloseWriter(w) \/ Crash(w)
    \/ \E r \in Reader : Reading(r)
    \/ \E n \in 0..MaxSize : PowerFailure(n)

Spec == Init /\ [][Next]_vars

\* A process inside a call of the library takes its next step.  The operating
\* system grants a lock to a writer that waits for it if it is free again and
\* again (strong fairness): other processes may take it in between.  A reader
\* that polls goes on polling.  Nothing forces a process to open the file or
\* to begin or end a transaction.
Fairness ==
    /\ \A w \in Writer : SF_vars(Progress(w))
    /\ \A r \in Reader : WF_vars(StartPull(r)) /\ WF_vars(ReadHead(r))

FairSpec == Spec /\ Fairness

(***************************************************************************)
(* Properties.                                                             *)
(***************************************************************************)

\* Every variable has its type; in particular no checkpoint, position or
\* slot ever leaves the range of positions that the file can have.
TypeOK ==
    /\ size \in 0..MaxSize /\ dsize \in 0..size
    /\ slot \in Slots /\ sig \in Signature /\ dhead \in SUBSET Head
    /\ body \in [Offset -> Byte] /\ dbody \in [Offset -> SUBSET Byte]
    /\ tail \in Writer \cup {None} /\ head \in Writer \cup {None}
    /\ pc \in [Process -> PC]
    /\ jr \in [Process -> JournalState]
    /\ mode \in [Writer -> {"shared", "exclusive"}]
    /\ fpos \in [Writer -> Position] /\ pos \in [Writer -> Position]
    /\ val \in [Writer -> Byte]
    /\ ack \in {0} \cup Position

\* A hard checkpoint that returned survives everything that can happen
\* later: whatever a crash, a power failure or another process does, the file
\* can be opened and its hard checkpoint is at least the acknowledged one
\* (hard_checkpoint_at, read_checkpoint and the constructors together).
HardCheckpointSurvives ==
    ack > 0 =>
        /\ sig = "joedb" /\ ack <= size
        /\ LET j == read_checkpoint(Fresh, slot, size)
           IN  ack <= j.hard /\ j.checkpoint <= size

\* The part of the body below an acknowledged hard checkpoint never changes,
\* not even in a power failure (sync before the second copy).
HardBodyImmutable ==
    [][\A o \in HeaderSize .. ack - 1 : body'[o] = body[o]]_vars

\* The journal of a process exists: its constructor has read the head.
Opened(p) == pc[p] \notin {"closed", "opening"}

\* What a reader has been told is part of the journal stays as it is: no
\* other process modifies the body below the checkpoint of an open reader
\* (readers read the body without any lock).
BodyImmutable ==
    [][\A r \in Reader : Opened(r) /\ Opened(r)' =>
         \A o \in HeaderSize .. jr[r].checkpoint - 1 : body'[o] = body[o]]_vars

\* No open journal believes in a checkpoint beyond the end of the file, so a
\* checkpoint never becomes valid by appending to the file.
CheckpointWithinFile ==
    \A p \in Process : Opened(p) => jr[p].checkpoint <= size

\* The same for the journals that are open for writing.
WriterCheckpointWithinFile ==
    \A w \in Writer : Opened(w) => jr[w].checkpoint <= size

\* The end of the log for a process that opens the file under its lock.  From
\* the first copy to the last sync of a hard checkpoint nobody else can read
\* the head, and the checkpoint being written counts as published.
Published ==
    IF head # None /\ pc[head] \in {"hard2", "hard3", "hard4"}
    THEN jr[head].checkpoint
    ELSE read_checkpoint(Fresh, slot, size).checkpoint

Log == INSTANCE SharedLog WITH
    First <- HeaderSize, Last <- MaxSize, Blank <- Zero,
    length <- Published,
    content <- [o \in Offset |-> IF o < Published THEN body[o] ELSE Zero],
    seen <- [r \in Reader |-> IF Opened(r) THEN jr[r].checkpoint ELSE 0]

\* Without failures, the processes that share a file through the locks of
\* Writable_Journal and Readonly_Journal implement a log that only grows by
\* whole transactions and is never modified.
RefinesSharedLog == Log!Spec

\* A call of soft_checkpoint_at, of hard_checkpoint_at or of the writable
\* constructor that has the tail lock and waits for the head lock returns,
\* although readers take the head lock again and again: tail before head, as
\* every writer does, never deadlocks.
CallsReturn ==
    \A w \in Writer : pc[w] \notin {"closed", "idle", "locked"}
                        ~> pc[w] \in {"closed", "idle", "locked"}

\* An open reader that polls catches up with every checkpoint that was
\* published.
PublishedIsSeen ==
    \A r \in Reader :
        Opened(r) /\ jr[r].checkpoint < Published
          ~> pc[r] = "closed" \/ jr[r].checkpoint >= Published

(***************************************************************************)
(* The inductive invariant behind HardCheckpointSurvives, for files that   *)
(* nobody opens with ignore_header.                                        *)
(***************************************************************************)

\* Pair i of the slots s is a hard checkpoint at n or after it.
HardPair(s, i, n) == s[2*i] = s[2*i + 1] /\ s[2*i] >= n

Floor == Max2(ack, HeaderSize)
Synced == Max2(dsize, HeaderSize)

\* A head from which the acknowledged hard checkpoint can be recovered: there
\* is such a pair; a pair that holds a soft checkpoint leaves the other one
\* intact; and no second copy was written before what it promises was synced.
HeadOK(s) ==
    /\ \E i \in {0, 1} : HardPair(s, i, Floor)
    /\ \A i \in {0, 1} :
         (s[2*i] < 0 \/ s[2*i + 1] < 0) => HardPair(s, 1 - i, Floor)
    /\ \A i \in {0, 1} : s[2*i + 1] <= Synced

\* Whatever head a power failure leaves is good.
HeadInv ==
    /\ [slot |-> slot, sig |-> sig] \in dhead
    /\ \A h \in dhead : h.sig = "joedb" => HeadOK(h.slot)
    /\ ack <= dsize
    /\ ack > 0 => \A h \in dhead : h.sig = "joedb"

\* The states in which a writer relies on holding the tail lock.
Fixing == {"fix", "fixsync"}
Holds(w) ==
    \/ pc[w] \in {"opening"} \cup Busy \cup Fixing
    \/ pc[w] = "idle" /\ mode[w] = "exclusive"

\* An open writer is within the file, and so are the soft checkpoints of the
\* head once its constructor has returned.
OpenInv(w) ==
    Opened(w) =>
        /\ sig = "joedb" /\ HeaderSize <= size
        /\ jr[w].checkpoint <= size /\ jr[w].hard <= size /\ fpos[w] <= size
        /\ pc[w] \notin Fixing => \A i \in SlotIndex : -slot[i] <= size

\* The hard checkpoint that an idle writer remembers is not after the one
\* in the file.
IdleInv(w) ==
    pc[w] = "idle" =>
        \E i \in {0, 1} : HardPair(slot, i, Floor) /\ slot[2*i] >= jr[w].hard

\* Pair i is the last hard checkpoint of the file, at n.
Anchor(i, n) ==
    /\ HardPair(slot, i, Floor) /\ slot[2*i] = n
    /\ HardPair(slot, 1 - i, Floor) => slot[2 * (1 - i)] <= n

\* A writer that holds the tail lock knows which pair is the last hard
\* checkpoint, and overwrites the other one only.
HolderInv(w) ==
    LET i == jr[w].hard_index
        n == jr[w].hard
    IN  Holds(w) =>
          /\ tail = w
          /\ pc[w] \in {"idle", "locked", "soft"} \cup Fixing => Anchor(i, n)
          /\ pc[w] = "hard1" => Anchor(1 - i, slot[2 * (1 - i)])
          /\ pc[w] \in {"hard2", "hard3"} =>
               HardPair(slot, 1 - i, Floor) /\ slot[2*i] = n
          /\ pc[w] \in {"hard1", "hard2", "hard3", "hard4"} =>
               jr[w].checkpoint = n /\ ack <= n /\ slot[2 * (1 - i)] < n
          /\ pc[w] \in {"hard3", "hard4"} => n <= dsize
          /\ pc[w] = "hard4" => slot[2*i] = n /\ slot[2*i + 1] = n

WriterInv(w) == OpenInv(w) /\ IdleInv(w) /\ HolderInv(w)

HardInv == HeadInv /\ \A w \in Writer : WriterInv(w)

============================================================================
