----------------------------- MODULE SharedLog -----------------------------
(***************************************************************************)
(* What a joedb file promises to the processes that share it: a log that   *)
(* only grows, by whole transactions, and readers that see a growing       *)
(* prefix of it.                                                           *)
(***************************************************************************)
EXTENDS Integers

CONSTANTS Reader, Byte, Blank, First, Last

VARIABLES
    length,    \* end of the published log
    content,   \* the published log; Blank from length on
    seen       \* end of the prefix that each reader knows of; 0 if none

vars == <<length, content, seen>>

Offset == First .. Last - 1

Init ==
    /\ length = First
    /\ content = [o \in Offset |-> Blank]
    /\ seen = [r \in Reader |-> 0]

\* A transaction is published: it extends the log and changes nothing else.
Publish ==
    /\ length' \in length + 1 .. Last
    /\ content' \in [Offset -> Byte]
    /\ \A o \in Offset : o \notin length .. length' - 1 => content'[o] = content[o]
    /\ UNCHANGED seen

\* A reader opens the log, or learns of everything published so far.
Observe(r) ==
    /\ seen' = [seen EXCEPT ![r] = length]
    /\ UNCHANGED <<length, content>>

Leave(r) ==
    /\ seen' = [seen EXCEPT ![r] = 0]
    /\ UNCHANGED <<length, content>>

Next == Publish \/ \E r \in Reader : Observe(r) \/ Leave(r)

Spec == Init /\ [][Next]_vars
============================================================================
