---------------------------- MODULE FileLayers ----------------------------
(***************************************************************************)
(* The layers between the bytes that a journal or a stream writes and the  *)
(* file that stores them: File_Buffer and filebuf, which buffer the        *)
(* accesses to an Abstract_File, and three such files: Memory_File,        *)
(* Encoded_File, which stores what is written as compressed blobs of a     *)
(* database, and Server_File, whose body is on a server.                   *)
(*                                                                         *)
(* Positions count from 0.  A buffer, a file or a result is the sequence   *)
(* of its bytes; encoding and decoding a blob give back the same bytes.    *)
(* The user never leaves a hole in the file, and follows the rule of       *)
(* File_Buffer.h:72 and of std::filebuf: a seek between writing and        *)
(* reading.                                                                *)
(***************************************************************************)
EXTENDS Integers, Sequences, FiniteSets, SequencesExt

CONSTANTS
  Setups,        \* users and files: pairs such as <<"journal", "encoded">>
  BufferSize,    \* Buffer::size
  ExtraSize,     \* Buffer::extra_size
  Capacity,      \* Encoded_File::write_buffer_capacity
  StreamSize,    \* size of the buffer of a filebuf
  HeadSize,      \* Header::size
  Payload,       \* values of the first byte of a compact integer: 0x20
  Integers_,     \* the integers that are written
  Lengths,       \* the lengths of reads and writes
  MaxSize,       \* bound on the size of the file
  MaxOps         \* bound on the number of writes

ASSUME SizeAssumption ==
  /\ {BufferSize, ExtraSize, Capacity, StreamSize, HeadSize, Payload} \subseteq Nat \ {0}
  /\ Lengths \subseteq Nat \ {0}
  /\ {MaxSize, MaxOps} \subseteq Nat
  /\ HeadSize <= MaxSize

(* Users and the files that they are used with *)
ASSUME SetupAssumption ==
  Setups \subseteq ({"journal"} \X {"memory", "encoded", "server"})
                  \union {<<"player", "memory">>, <<"stream", "memory">>}

VARIABLES
  setup,     \* the user and its file
  file,      \* the Abstract_File
  buf,       \* File_Buffer
  stream,    \* filebuf
  open,      \* whether the user has the file open
  cursor,    \* where the user reads and writes, in a file without buffers
  expected,  \* what that file would hold
  ints,      \* where it holds an integer: pairs of a position and the integer
  images,    \* what it held after each byte that was written
  checkpoint,\* what another process has published, for a player
  seen,      \* the last read: what it gave, and what that file holds there
  count      \* of the writes; each writes bytes of its own

vars == <<setup, file, buf, stream, open, cursor, expected, ints,
          images, checkpoint, seen, count>>

Smaller(a, b) == IF a < b THEN a ELSE b
Larger(a, b) == IF a < b THEN b ELSE a

(* The n bytes at position o, or those that there are *)
Slice(s, o, n) == SubSeq(s, o + 1, Smaller(o + n, Len(s)))

(* Memory_File::pwrite: the gap, if any, is filled with zeros *)
Patched(s, data, o) ==
  [i \in 1..Larger(Len(s), o + Len(data)) |->
    IF i - o \in DOMAIN data THEN data[i - o] ELSE IF i <= Len(s) THEN s[i] ELSE 0]

-----------------------------------------------------------------------------
(* Encoded_File: blocks are the buffers of its database, pending is its      *)
(* write buffer.                                                             *)

NoBlock == [offset |-> 0, data |-> <<>>]

(* write_blob: one record of the database, in its journal *)
write_blob(f, data, o) == [f EXCEPT !.blocks = Append(@, [offset |-> o, data |-> data])]

flush_write_buffer(f) ==
  IF f.pending.data = <<>> THEN f
  ELSE [write_blob(f, f.pending.data, f.pending.offset) EXCEPT !.pending.data = <<>>]

(* Blobs of the capacity of the buffer, one after the other; the rest stays  *)
(* in the buffer.                                                            *)
Blob(data, o, i) ==
  [offset |-> o + i * Capacity, data |-> Slice(data, i * Capacity, Capacity)]

WriteBlobs(f, data, o) ==
  LET n == Len(data) \div Capacity
      whole == [f EXCEPT !.blocks = @ \o [i \in 1..n |-> Blob(data, o, i - 1)]]
      rest == Blob(data, o, n)
  IN IF rest.data = <<>> THEN whole ELSE [whole EXCEPT !.pending = rest]

(* A mutant: what is not contiguous with the buffer is written before it. *)
EncodedPwriteUnordered(f, data, o) ==
  IF f.pending.data # <<>> /\ f.pending.offset + Len(f.pending.data) # o
  THEN write_blob(f, data, o)
  ELSE LET s == Slice(data, 0, Capacity - Len(f.pending.data))
           filled == IF f.pending.data = <<>> THEN f ELSE [f EXCEPT !.pending.data = @ \o s]
           rest == IF f.pending.data = <<>> THEN data ELSE Slice(data, Len(s), Len(data))
       IN IF rest = <<>> THEN filled
          ELSE WriteBlobs(flush_write_buffer(filled), rest, o + Len(data) - Len(rest))

(* All blobs of a call are one step: each is appended and checkpointed on    *)
(* its own, and a program that stops between two of them is not modelled.    *)
EncodedPwrite(f, data, o) ==
  LET contiguous == f.pending.data # <<>> /\ f.pending.offset + Len(f.pending.data) = o
      s == IF contiguous THEN Slice(data, 0, Capacity - Len(f.pending.data)) ELSE <<>>
      rest == Slice(data, Len(s), Len(data))
      filled == [f EXCEPT !.pending.data = @ \o s]
  IN IF rest = <<>> THEN filled ELSE WriteBlobs(flush_write_buffer(filled), rest, o + Len(s))

(* Readonly_Encoded_File::pread: the blocks in the order of their writing.   *)
(* One that does not touch what was read so far is left out, so that the     *)
(* result may be short.                                                      *)
ReadBlob(data, b, o, n) ==
  LET first == Larger(o, b.offset)
      last == Smaller(o + n, b.offset + Len(b.data))
  IN IF first < last /\ first <= o + Len(data)
     THEN Patched(data, Slice(b.data, first - b.offset, last - first), first - o)
     ELSE data

EncodedRead(blocks, o, n) ==
  LET data[i \in 0..Len(blocks)] ==
        IF i = 0 THEN <<>> ELSE ReadBlob(data[i - 1], blocks[i], o, n)
  IN data[Len(blocks)]

EncodedSize(f) ==
  LET ends == {0} \union {b.offset + Len(b.data) : b \in ToSet(Append(f.blocks, f.pending))}
  IN CHOOSE e \in ends : \A d \in ends : d <= e

-----------------------------------------------------------------------------
(* Abstract_File.  head, data and tail_offset: Server_File keeps its head    *)
(* and its tail (data) in memory, and reads the body from the server.        *)

NewFile(content) ==
  [data |-> content, blocks |-> <<>>, pending |-> NoBlock,
   head |-> <<>>, remote |-> <<>>, tail_offset |-> 0]

NewServerFile(content) ==
  [NewFile(<<>>) EXCEPT !.head = Slice(content, 0, HeadSize), !.remote = content,
                        !.tail_offset = Len(content)]

Kind == setup[2]

(* A mutant: the head is read from the server, which has another one. *)
ServerFileReadHead(f, o, n) ==
  IF o < f.tail_offset THEN Slice(f.remote, o, n) ELSE Slice(f.data, o - f.tail_offset, n)

(* Server_File::pread: from one of the three parts, never from two.  The     *)
(* server gives what it has.                                                 *)
ServerFileRead(f, o, n) ==
  CASE o < HeadSize -> Slice(f.head, o, n)
    [] o >= HeadSize /\ o < f.tail_offset -> Slice(f.remote, o, n)
    [] OTHER -> Slice(f.data, o - f.tail_offset, n)

(* The file after a read: Encoded_File flushes its buffer *)
AfterRead(f) == IF Kind = "encoded" THEN flush_write_buffer(f) ELSE f

pread(f, o, n) ==
  CASE Kind = "memory" -> Slice(f.data, o, n)
    [] Kind = "encoded" -> EncodedRead(flush_write_buffer(f).blocks, o, n)
    [] Kind = "server" -> ServerFileRead(f, o, n)

(* Server_File::pwrite to the body throws; the user does not do it *)
pwrite(f, data, o) ==
  CASE Kind = "memory" -> [f EXCEPT !.data = Patched(@, data, o)]
    [] Kind = "encoded" -> EncodedPwrite(f, data, o)
    [] Kind = "server" /\ o < HeadSize -> [f EXCEPT !.head = Patched(@, data, o)]
    [] Kind = "server" /\ o >= HeadSize ->
         [f EXCEPT !.data = Patched(@, data, o - f.tail_offset)]

get_size(f) ==
  CASE Kind = "memory" -> Len(f.data)
    [] Kind = "encoded" -> EncodedSize(f)
    [] Kind = "server" -> f.tail_offset + Len(f.data)

(* full_pread: until everything is read; a read of nothing throws *)
ReadMore(f, o, n, data) == data \o pread(f, o + Len(data), n - Len(data))

full_pread(f, o, n) ==
  LET data[i \in 0..n] == IF i = 0 THEN <<>> ELSE ReadMore(f, o, n, data[i - 1])
  IN data[n]

(* copy_to another file, by chunks of at most n bytes, until one is empty *)
CopyMore(f, n, copy) == Patched(copy, pread(f, Len(copy), n), Len(copy))

copy_to(f, n) ==
  LET copy[i \in 0..get_size(f)] == IF i = 0 THEN <<>> ELSE CopyMore(f, n, copy[i - 1])
  IN copy[get_size(f)]

-----------------------------------------------------------------------------
(* Compact integers: Buffer::compact_write and compact_read.  The first      *)
(* byte holds the number of the other ones, and the highest bits.            *)

Byte == 8 * Payload

Power[e \in 0..7] == IF e = 0 THEN 1 ELSE Byte * Power[e - 1]

ExtraBytes(x) ==
  CHOOSE e \in 0..7 : /\ e = 7 \/ x < Payload * Power[e]
                      /\ \A d \in 0..(e - 1) : x >= Payload * Power[d]

compact_write(x) ==
  LET e == ExtraBytes(x)
  IN IF x < 0 THEN <<0>>
     ELSE <<e * Payload + x \div Power[e]>> \o [i \in 1..e |-> (x \div Power[e - i]) % Byte]

CompactLength(first) == 1 + first \div Payload

compact_read(bytes) ==
  LET x[i \in 1..Len(bytes)] ==
        IF i = 1 THEN bytes[1] % Payload ELSE x[i - 1] * Byte + bytes[i]
  IN x[Len(bytes)]

(* Integers are not negative, and fit in the extra bytes of a Buffer. *)
ASSUME IntegerAssumption ==
  /\ Integers_ \subseteq 0..(Payload * Power[7] - 1)
  /\ \A i \in Integers_ : Len(compact_write(i)) <= ExtraSize

write_reference(id) == compact_write(id + 1)

read_reference(bytes) == compact_read(bytes) - 1

(* Buffer::compact_write and compact_read agree on both sides of every change *)
(* of length, up to the largest value that eight bytes hold, and references   *)
(* too, from the null one (-1) on.  TLC evaluates it for the Payload of a run. *)
ASSUME CompactRoundTrip ==
  \A e \in 0..7, d \in -2..1 :
    LET x == Payload * Power[e] + d IN
    (e = 7 => d < 0) =>
      /\ compact_read(compact_write(x)) = x
      /\ CompactLength(compact_write(x)[1]) = Len(compact_write(x))
      /\ read_reference(write_reference(x - 1)) = x - 1

-----------------------------------------------------------------------------
(* File_Buffer: the position of its iterator, the bytes of the buffer, how   *)
(* many of them were used, and whether they were read from the file.         *)

NewBuffer == [position |-> 0, data |-> <<>>, index |-> 0, reading |-> FALSE, overrun |-> FALSE]

get_position(b) ==
  b.position + b.index - (IF b.reading THEN Len(b.data) ELSE 0)

HasWriteData(b) == b.index > 0 /\ ~b.reading

(* A buffer and the file below it change together *)
Both(b, f) == [b |-> b, f |-> f]

write_buffer(x) ==
  Both([x.b EXCEPT !.position = @ + Len(x.b.data), !.data = <<>>, !.index = 0],
       pwrite(x.f, x.b.data, x.b.position))

check_write_buffer(x) == IF x.b.index >= BufferSize THEN write_buffer(x) ELSE x

flush(x) ==
  IF HasWriteData(x.b) THEN write_buffer(x)
  ELSE Both([x.b EXCEPT !.position = get_position(x.b), !.data = <<>>, !.index = 0,
                        !.reading = FALSE], x.f)

Moved(x, p) == Both([x.b EXCEPT !.position = p], x.f)

set_position(x, p) == Moved(flush(x), p)

Appended(x, data) ==
  Both([x.b EXCEPT !.data = @ \o data, !.index = @ + Len(data),
                   !.overrun = @ \/ x.b.index + Len(data) > BufferSize + ExtraSize], x.f)

(* File_Iterator::write *)
WriteDirectly(x, data) ==
  Both([x.b EXCEPT !.position = @ + Len(data)], pwrite(x.f, data, x.b.position))

(* A mutant: what is in the buffer is forgotten. *)
write_data_anywhere(x, data) ==
  IF Len(data) < BufferSize + ExtraSize THEN check_write_buffer(Appended(x, data))
  ELSE WriteDirectly(flush(x), data)

write_data(x, data) ==
  IF Len(data) <= ExtraSize \/ Len(data) < BufferSize + ExtraSize - x.b.index
  THEN check_write_buffer(Appended(x, data))
  ELSE WriteDirectly(flush(x), data)

Filled(x, data) ==
  Both([x.b EXCEPT !.data = data, !.index = 0, !.reading = data # <<>>,
                   !.position = @ + Len(data)], AfterRead(x.f))

read_buffer(x) == Filled(x, pread(x.f, x.b.position, BufferSize))

(* A read in progress: what it gave so far, and the layers *)
Reading(read, x) == [read |-> read, x |-> x]

(* From the buffer, at most until n bytes are read *)
TakeBuffered(r, n) ==
  LET k == Smaller(n - Len(r.read), Len(r.x.b.data) - r.x.b.index)
  IN Reading(r.read \o Slice(r.x.b.data, r.x.b.index, k),
             Both([r.x.b EXCEPT !.index = @ + k], r.x.f))

(* File_Iterator::full_read of data, the rest of the n bytes *)
TakeRest(r, data) ==
  IF data = <<>> THEN r
  ELSE Reading(r.read \o data,
               Both([r.x.b EXCEPT !.position = @ + Len(data)], AfterRead(r.x.f)))

TakeFromFile(r, n) == TakeRest(r, full_pread(r.x.f, r.x.b.position, n - Len(r.read)))

TakeNewBuffer(r, n) == TakeBuffered(Reading(r.read, read_buffer(r.x)), n)

(* read_data: from the buffer, then from a new one if n bytes fit in it,     *)
(* then directly from the file                                               *)
read_data(x, n) ==
  IF x.b.index + n <= Len(x.b.data) THEN TakeBuffered(Reading(<<>>, x), n)
  ELSE IF n <= BufferSize
  THEN TakeFromFile(TakeNewBuffer(TakeBuffered(Reading(<<>>, x), n), n), n)
  ELSE TakeFromFile(TakeBuffered(Reading(<<>>, x), n), n)

ThenReading(r, s) == Reading(r.read \o s.read, s.x)

(* File_Buffer::compact_read: the first byte tells how many follow *)
ReadByte(r) == ThenReading(r, read_data(r.x, 1))

ReadFollowing(r) ==
  LET n == CompactLength(r.read[1]) - 1
      s[k \in 0..n] == IF k = 0 THEN r ELSE ReadByte(s[k - 1])
  IN s[n]

ignore(x, n) ==
  IF x.b.index + n <= (IF x.b.reading THEN Len(x.b.data) ELSE 0)
  THEN Both([x.b EXCEPT !.index = @ + n], x.f)
  ELSE set_position(x, get_position(x.b) + n)

-----------------------------------------------------------------------------
(* filebuf: the get area and the put area share one buffer.  get is the get   *)
(* area, gptr the number of its bytes that were read, put what is in the put  *)
(* area.                                                                      *)

NewStream == [in_pos |-> 0, out_pos |-> 0, get |-> <<>>, gptr |-> 0, put |-> <<>>]

syncg(x) == Both([x.b EXCEPT !.in_pos = @ + x.b.gptr, !.get = <<>>, !.gptr = 0], x.f)

syncp(x) ==
  IF x.b.put = <<>> THEN x
  ELSE Both([x.b EXCEPT !.out_pos = @ + Len(x.b.put), !.put = <<>>],
            pwrite(x.f, x.b.put, x.b.out_pos))

sync(x) == syncp(syncg(x))

(* which is a subset of {"in", "out"} *)
seekpos(x, p, which) ==
  LET y == sync(x)
  IN Both([y.b EXCEPT !.in_pos = IF "in" \in which THEN p ELSE @,
                      !.out_pos = IF "out" \in which THEN p ELSE @], y.f)

(* seekoff from "cur", whose base is the get area for an iostream, and from   *)
(* "end", for which the put area is written first                             *)
seekoff(x, off, dir, which) ==
  LET y == IF dir = "end" THEN syncp(x) ELSE x
      base == CASE dir = "beg" -> 0
                [] dir = "cur" /\ "in" \in which -> x.b.in_pos + x.b.gptr
                [] dir = "cur" /\ "in" \notin which -> x.b.out_pos + Len(x.b.put)
                [] dir = "end" -> get_size(y.f)
  IN seekpos(y, base + off, which)

underflow(x) ==
  IF x.b.gptr < Len(x.b.get) THEN x
  ELSE LET p == x.b.in_pos + x.b.gptr
       IN Both([x.b EXCEPT !.in_pos = p, !.get = pread(x.f, p, StreamSize), !.gptr = 0],
               AfterRead(x.f))

(* sgetc and sbumpc of the standard library: one byte, or none at the end *)
NextByte(x) ==
  LET n == Smaller(1, Len(x.b.get) - x.b.gptr)
  IN Reading(Slice(x.b.get, x.b.gptr, n), Both([x.b EXCEPT !.gptr = @ + n], x.f))

sbumpc(x) == NextByte(underflow(x))

GetRest(r, data) ==
  Reading(r.read \o data, Both([r.x.b EXCEPT !.in_pos = @ + Len(data)], AfterRead(r.x.f)))

GetFromFile(r, n) == GetRest(r, full_pread(r.x.f, r.x.b.in_pos, n))

(* From the get area, then directly from the file until it gives nothing *)
xsgetn(x, n) ==
  LET n0 == Smaller(n, Len(x.b.get) - x.b.gptr)
      read == Slice(x.b.get, x.b.gptr, n0)
      y == Both([x.b EXCEPT !.gptr = @ + n0], x.f)
  IN IF n = n0 THEN Reading(read, y) ELSE GetFromFile(Reading(read, syncg(y)), n - n0)

PutDirectly(x, data) ==
  Both([x.b EXCEPT !.out_pos = @ + Len(data)], pwrite(x.f, data, x.b.out_pos))

xsputn(x, data) ==
  IF StreamSize - Len(x.b.put) >= Len(data) THEN Both([x.b EXCEPT !.put = @ \o data], x.f)
  ELSE PutDirectly(syncp(x), data)

PutByte(x, c) == Both([x.b EXCEPT !.put = Append(@, c)], x.f)

overflow(x, c) == PutByte(IF Len(x.b.put) >= StreamSize THEN syncp(x) ELSE x, c)

(* Back by one byte, which becomes c.  The get area, if it has nothing        *)
(* before its pointer, is replaced by that byte.                              *)
GetPrevious(x, previous) ==
  IF x.b.gptr = 0 /\ x.b.in_pos > 0 /\ previous # <<>>
  THEN Both([x.b EXCEPT !.in_pos = @ - 1, !.get = previous, !.gptr = 1], AfterRead(x.f))
  ELSE x

PutBackByte(x, c) ==
  LET p == x.b.gptr - 1
  IN IF x.b.gptr = 0 THEN x
     ELSE Both([x.b EXCEPT !.get[p + 1] = c, !.gptr = p],
               IF x.b.get[p + 1] = c THEN x.f ELSE pwrite(x.f, <<c>>, x.b.in_pos + p))

pbackfail(x, c) == PutBackByte(GetPrevious(x, pread(x.f, x.b.in_pos - 1, 1)), c)

-----------------------------------------------------------------------------
(* What each action does to the file that the user has in mind                *)

User == setup[1]

NoRead == [got |-> <<>>, want |-> <<>>]

(* The bytes of the next write *)
Data(n) == [i \in 1..n |-> 10 * (count + 1) + i]

Starts(content, c) ==
  /\ cursor = [in |-> c, out |-> c] /\ expected = content /\ images = {content}

Init ==
  /\ setup \in Setups
  /\ LET content == [i \in 1..(IF User = "stream" THEN 0 ELSE HeadSize) |-> 0]
     IN /\ file = CASE Kind = "memory" -> NewFile(content)
                    [] Kind = "encoded" ->
                         flush_write_buffer(WriteBlobs(NewFile(<<>>), content, 0))
                    [] Kind = "server" -> NewServerFile(content)
        /\ Starts(content, Len(content))
        /\ buf = [NewBuffer EXCEPT !.position = Len(content)]
        /\ checkpoint = [published |-> Len(content), pulled |-> Len(content)]
  /\ stream = NewStream /\ open = TRUE /\ ints = {} /\ seen = NoRead /\ count = 0

(* data, which holds the integers new, is written at o *)
Wrote(data, o, new) ==
  /\ expected' = Patched(expected, data, o)
  /\ ints' = new \union {i \in ints : i[1] + Len(compact_write(i[2])) <= o \/ i[1] >= o + Len(data)}
  /\ images' = IF Kind = "encoded"
               THEN images \union {Patched(expected, Slice(data, 0, k), o) : k \in 1..Len(data)}
               ELSE images
  /\ seen' = NoRead
  /\ count' = count + 1

Unwritten == UNCHANGED <<expected, ints, images, count>>

ReadGives(got, o) == seen' = [got |-> got, want |-> Slice(expected, o, Len(got))]

At(i, o) == cursor' = [in |-> i, out |-> o]

-----------------------------------------------------------------------------
(* A journal: its records go through the File_Buffer, after the head, and its *)
(* checkpoints directly to the file.                                          *)

Journal(x) ==
  /\ open /\ User = "journal"
  /\ buf' = x.b /\ file' = x.f
  /\ UNCHANGED <<setup, stream, open, checkpoint>>

Layers == Both(buf, file)

(* Server_File: this client has the lock, and has pulled *)
UpToDate == file.tail_offset = Len(file.remote)

MayWrite(n) ==
  /\ count < MaxOps /\ ~buf.reading /\ cursor.in + n <= MaxSize
  /\ Kind = "server" => UpToDate /\ cursor.in >= file.tail_offset

WriteData(n) ==
  /\ MayWrite(n)
  /\ Journal(write_data(Layers, Data(n)))
  /\ Wrote(Data(n), cursor.in, {})
  /\ At(cursor.in + n, cursor.in + n)

(* File_Buffer::compact_write; write<T>, of at most extra_size bytes, does    *)
(* the same                                                                   *)
WriteInteger(i) ==
  LET data == compact_write(i) IN
  /\ MayWrite(Len(data))
  /\ Journal(check_write_buffer(Appended(Layers, data)))
  /\ Wrote(data, cursor.in, {<<cursor.in, i>>})
  /\ At(cursor.in + Len(data), cursor.in + Len(data))

(* soft_checkpoint_at: what is in the buffer, then a word of the head *)
WriteWord(x, data) == Both(x.b, pwrite(x.f, data, 0))

WriteCheckpoint ==
  /\ count < MaxOps
  /\ Journal(WriteWord(flush(Layers), Data(1)))
  /\ Wrote(Data(1), 0, {})
  /\ UNCHANGED cursor

Flush ==
  /\ Journal(flush(Layers))
  /\ Unwritten /\ seen' = NoRead /\ UNCHANGED cursor

Seek(p) ==
  /\ p \in HeadSize..Len(expected)
  /\ Journal(set_position(Layers, p))
  /\ Unwritten /\ seen' = NoRead /\ At(p, p)

ReadData(n) ==
  /\ ~HasWriteData(buf) /\ cursor.in + n <= Len(expected)
  /\ \E r \in {read_data(Layers, n)} :
       /\ Journal(r.x)
       /\ seen' = [got |-> r.read, want |-> Slice(expected, cursor.in, n)]
  /\ Unwritten /\ At(cursor.in + n, cursor.in + n)

ReadInteger(i) ==
  /\ ~HasWriteData(buf) /\ <<cursor.in, i>> \in ints
  /\ \E r \in {ReadFollowing(read_data(Layers, 1))} :
       /\ Journal(r.x)
       /\ seen' = [got |-> <<compact_read(r.read)>>, want |-> <<i>>]
       /\ At(cursor.in + Len(r.read), cursor.in + Len(r.read))
  /\ Unwritten

Ignore(n) ==
  /\ ~HasWriteData(buf) /\ cursor.in + n <= Len(expected)
  /\ Journal(ignore(Layers, n))
  /\ Unwritten /\ seen' = NoRead /\ At(cursor.in + n, cursor.in + n)

(* read_checkpoint: the head, without the buffer *)
ReadHead ==
  /\ Journal(Both(buf, AfterRead(file)))
  /\ ReadGives(full_pread(file, 0, HeadSize), 0)
  /\ Unwritten /\ UNCHANGED cursor

(* Encoded_File::sync *)
Sync ==
  /\ Kind = "encoded"
  /\ Journal(Both(buf, flush_write_buffer(file)))
  /\ Unwritten /\ seen' = NoRead /\ UNCHANGED cursor

-----------------------------------------------------------------------------
(* Server_File: another client appends to the journal of the server while     *)
(* this one, which has not written anything, does not have the lock.          *)

RemoteAppend(n) ==
  /\ Kind = "server" /\ count < MaxOps /\ file.data = <<>> /\ ~HasWriteData(buf)
  /\ Len(file.remote) + n <= MaxSize
  /\ file' = [file EXCEPT !.remote = @ \o Data(n)]
  /\ count' = count + 1 /\ seen' = NoRead
  /\ UNCHANGED <<setup, buf, stream, open, cursor, expected, ints, images, checkpoint>>

(* Server_File::pull: write_checkpoint, then the new end of the body *)
Pull ==
  /\ Kind = "server" /\ file.data = <<>> /\ ~HasWriteData(buf)
  /\ Len(file.remote) > file.tail_offset
  /\ LET head == Patched(file.head, <<Len(file.remote)>>, 0)
     IN /\ file' = [file EXCEPT !.head = head, !.tail_offset = Len(file.remote)]
        /\ expected' = head \o SubSeq(file.remote, HeadSize + 1, Len(file.remote))
  /\ seen' = NoRead
  /\ UNCHANGED <<setup, buf, stream, open, cursor, ints, images, checkpoint, count>>

(* Server_File::push of everything, which empties the tail *)
Push ==
  /\ Kind = "server" /\ file.data # <<>> /\ ~HasWriteData(buf)
  /\ file' = [file EXCEPT !.remote = @ \o file.data, !.data = <<>>,
                          !.tail_offset = get_size(file)]
  /\ seen' = NoRead
  /\ UNCHANGED <<setup, buf, stream, open, cursor, expected, ints, images, checkpoint, count>>

-----------------------------------------------------------------------------
(* A reader of a journal that another process writes: play_until reads up to  *)
(* the checkpoint that was pulled.                                            *)

(* The other process writes after its checkpoint; one that crashed and came   *)
(* back overwrites what it had written there.                                 *)
ExternalWrite(o, n) ==
  /\ User = "player" /\ count < MaxOps
  /\ o \in checkpoint.published..Len(expected) /\ o + n <= MaxSize
  /\ file' = pwrite(file, Data(n), o)
  /\ Wrote(Data(n), o, {})
  /\ UNCHANGED <<setup, buf, stream, open, cursor, checkpoint>>

ExternalPublish ==
  /\ User = "player" /\ checkpoint.published < Len(expected)
  /\ checkpoint' = [checkpoint EXCEPT !.published = Len(expected)]
  /\ seen' = NoRead
  /\ Unwritten /\ UNCHANGED <<setup, file, buf, stream, open, cursor>>

PlayPull ==
  /\ User = "player" /\ checkpoint.pulled < checkpoint.published
  /\ cursor.in = checkpoint.pulled
  /\ checkpoint' = [checkpoint EXCEPT !.pulled = checkpoint.published]
  /\ seen' = NoRead
  /\ Unwritten /\ UNCHANGED <<setup, file, buf, stream, open, cursor>>

(* A mutant: what was read beyond the checkpoint stays in the buffer. *)
AfterPlayKept(x, end) == x

(* The end of play_until *)
AfterPlay(x, end) == IF end THEN flush(x) ELSE x

PlayRead(n) ==
  /\ User = "player" /\ cursor.in + n <= checkpoint.pulled
  /\ \E r \in {read_data(Layers, n)} :
       \E x \in {AfterPlay(r.x, cursor.in + n = checkpoint.pulled)} :
         /\ buf' = x.b /\ file' = x.f
         /\ ReadGives(r.read, cursor.in)
  /\ Unwritten /\ At(cursor.in + n, cursor.in + n)
  /\ UNCHANGED <<setup, stream, open, checkpoint>>

-----------------------------------------------------------------------------
(* A stream.  The get area is empty when it writes, the put area when it      *)
(* reads.                                                                     *)

Stream(x) ==
  /\ open /\ User = "stream"
  /\ stream' = x.b /\ file' = x.f
  /\ UNCHANGED <<setup, buf, open, checkpoint>>

Streams == Both(stream, file)

(* sbumpc and sgetn; at the end of the file they give less *)
Get(r, n) ==
  /\ stream.put = <<>>
  /\ Stream(r.x)
  /\ seen' = [got |-> r.read, want |-> Slice(expected, cursor.in, n)]
  /\ Unwritten /\ At(Smaller(cursor.in + n, Len(expected)), cursor.out)

GetOne == Get(sbumpc(Streams), 1)

GetMany(n) == Get(xsgetn(Streams, n), n)

Put(x, data) ==
  /\ stream.get = <<>> /\ count < MaxOps /\ cursor.out + Len(data) <= MaxSize
  /\ Stream(x)
  /\ Wrote(data, cursor.out, {})
  /\ At(cursor.in, cursor.out + Len(data))

PutOne == Put(overflow(Streams, Data(1)[1]), Data(1))

PutMany(n) == Put(xsputn(Streams, Data(n)), Data(n))

(* sungetc and sputbackc: the byte before the pointer, or another one *)
PutBack(same) ==
  LET c == IF same THEN expected[cursor.in] ELSE Data(1)[1] IN
  /\ stream.put = <<>> /\ cursor.in > 0 /\ count < MaxOps
  /\ Stream(pbackfail(Streams, c))
  /\ Wrote(<<c>>, cursor.in - 1, {})
  /\ At(cursor.in - 1, cursor.out)

StreamSeek(dir, off, which) ==
  LET base == CASE dir = "beg" -> 0
                [] dir = "end" -> Len(expected)
                [] dir = "cur" /\ "in" \in which -> cursor.in
                [] dir = "cur" /\ "in" \notin which -> cursor.out
      p == base + off
  IN /\ p \in 0..Len(expected)
     /\ Stream(seekoff(Streams, off, dir, which))
     /\ Unwritten /\ seen' = NoRead
     /\ At(IF "in" \in which THEN p ELSE cursor.in, IF "out" \in which THEN p ELSE cursor.out)

StreamSync ==
  /\ Stream(sync(Streams))
  /\ Unwritten /\ seen' = NoRead /\ UNCHANGED cursor

-----------------------------------------------------------------------------
(* Destructors: the buffers are written, then the Encoded_File.               *)

(* A mutant: the buffer of the Encoded_File is lost. *)
ClosedFileOnly(f) == f

ClosedFile(f) == IF Kind = "encoded" THEN flush_write_buffer(f) ELSE f

Close ==
  /\ open /\ User # "player" /\ Kind # "server"
  /\ open' = FALSE
  /\ file' = ClosedFile(IF User = "stream" THEN syncp(Streams).f
                        ELSE IF HasWriteData(buf) THEN write_buffer(Layers).f ELSE file)
  /\ buf' = NewBuffer /\ stream' = NewStream /\ At(0, 0) /\ seen' = NoRead
  /\ Unwritten /\ UNCHANGED <<setup, checkpoint>>

(* What is in the file, without what is in memory *)
Stored == IF Kind = "encoded" THEN EncodedRead(file.blocks, 0, MaxSize) ELSE file.data

(* The program is killed: the blobs that are written stay *)
Crash ==
  /\ open /\ Kind = "encoded"
  /\ open' = FALSE
  /\ file' = [file EXCEPT !.pending = NoBlock]
  /\ expected' = Stored /\ images' = {Stored}
  /\ ints' = {i \in ints : Slice(Stored, i[1], Len(compact_write(i[2]))) = compact_write(i[2])}
  /\ buf' = NewBuffer /\ stream' = NewStream /\ At(0, 0) /\ seen' = NoRead
  /\ UNCHANGED <<setup, checkpoint, count>>

Reopen ==
  /\ ~open
  /\ open' = TRUE
  /\ LET p == IF User = "stream" THEN 0 ELSE Smaller(HeadSize, Len(expected))
     IN buf' = [NewBuffer EXCEPT !.position = p] /\ At(p, p)
  /\ seen' = NoRead
  /\ Unwritten /\ UNCHANGED <<setup, file, stream, checkpoint>>

-----------------------------------------------------------------------------
Next ==
  \/ \E n \in Lengths : \/ WriteData(n) \/ ReadData(n) \/ Ignore(n)
                        \/ RemoteAppend(n) \/ PlayRead(n) \/ GetMany(n) \/ PutMany(n)
  \/ \E i \in Integers_ : WriteInteger(i) \/ ReadInteger(i)
  \/ \E p \in 0..MaxSize : Seek(p) \/ \E n \in Lengths : ExternalWrite(p, n)
  \/ WriteCheckpoint \/ ReadHead \/ Flush \/ Sync
  \/ Pull \/ Push \/ ExternalPublish \/ PlayPull
  \/ GetOne \/ PutOne \/ StreamSync \/ \E same \in BOOLEAN : PutBack(same)
  \/ \E dir \in {"beg", "cur", "end"}, off \in -1..0, which \in {{"in"}, {"out"}, {"in", "out"}} :
       StreamSeek(dir, off, which)
  \/ Close \/ Crash \/ Reopen

Spec == Init /\ [][Next]_vars

-----------------------------------------------------------------------------
(* Properties                                                                 *)

(* File_Buffer::write_data, write and compact_write never write past the end  *)
(* of the array of the Buffer, which has extra_size bytes after the size at   *)
(* which check_write_buffer empties it.                                       *)
NoOverrun == ~buf.overrun

(* Whatever the buffers, the blobs, the parts of a Server_File and the short  *)
(* reads between them and the file, a read gives what was last written        *)
(* there, by the user or by another process before the checkpoint that was    *)
(* pulled; a compact integer is read as it was written.                       *)
ReadsSeeWrites == seen.got = seen.want

(* Encoded_File keeps the order of the writes: if the program stops now, its  *)
(* blobs give what the file held at some moment since it was opened, so that  *)
(* a checkpoint is never stored before what it covers.                        *)
OrderKept == Kind = "encoded" => Stored \in images

(* The destructors leave nothing in memory: what was written is in the file   *)
(* when it is closed.                                                         *)
CloseKeepsAll == ~open => Stored = expected

(* Abstract_File::copy_to, by chunks that do not fall on the limits of the    *)
(* blobs or of the parts of a Server_File, copies the whole file once the     *)
(* buffers are flushed and, for a Server_File, nothing is left to pull.       *)
CopyFaithful ==
  /\ ~HasWriteData(buf) /\ stream.put = <<>>
  /\ Kind = "server" => UpToDate
  => copy_to(file, BufferSize) = expected
=============================================================================
