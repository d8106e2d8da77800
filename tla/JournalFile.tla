----------------------------- MODULE JournalFile -----------------------------
(***************************************************************************)
(* The journal file as its readers see it: a header, then one record after *)
(* the other, each a length, a payload and a checksum.  A write of the     *)
(* engine's buffered journal may end inside a record, and a record may     *)
(* read back damaged.  The file is cut into cells: one for the header and  *)
(* RecordCells for each record, so what is in the file is given by how     *)
(* many cells it holds and by the damage.                                  *)
(***************************************************************************)
EXTENDS Integers, Sequences, FiniteSetsExt

CONSTANTS
    MaxRecords,    \* records the engine writes
    Damages        \* [record, field] that may read back wrong; record 0 is none

ASSUME JournalConstants ==
    /\ MaxRecords \in Nat
    /\ Damages \subseteq [record : 0..MaxRecords,
                          field : {"none", "length", "longer", "shorter", "body"}]

VARIABLES
    cells,         \* cells in the file, -1 before it is created
    damage         \* what reads back wrong

RecordCells == 3

FileCells(records) == 1 + RecordCells * records

\* Cells record k takes according to its length field.
ClaimedCells(k) ==
    IF damage.record # k THEN RecordCells
    ELSE IF damage.field = "longer" THEN RecordCells + 2
    ELSE IF damage.field = "shorter" THEN RecordCells - 1 ELSE RecordCells

\* What a reader makes of record k when it holds `held' cells of the file.  A
\* length out of range shows at once, any other damage once the cells that the
\* length field asks for are there and the checksum does not match them.
Verdict(k, held) ==
    LET rest == held - FileCells(k - 1)
    IN  IF rest < 1 THEN "incomplete"
        ELSE IF damage = [record |-> k, field |-> "length"] THEN "corrupt"
        ELSE IF rest < ClaimedCells(k) THEN "incomplete"
        ELSE IF damage.record = k THEN "corrupt" ELSE "record"

\* How many records from record k on are whole.
WholeFrom(k, held) ==
    Max({n \in 0..MaxRecords : \A i \in k..(k + n - 1) : Verdict(i, held) = "record"})

\* read_journal: it stops at the first record that is not whole, cut off or
\* corrupt alike, and returns the ones before it.
Recovered(held) == WholeFrom(1, held)

-----------------------------------------------------------------------------
(* JournalTail: the next record to return and the cells read so far, the   *)
(* ones past that record held back in memory.                              *)

OpenedTail == [next |-> 1, read |-> 1]

\* A poll that keeps its place in the file although it drops what it decoded.
PollSkips(tail, limit) ==
    LET whole == Min({limit, WholeFrom(tail.next, cells)})
        failed == whole < limit /\ Verdict(tail.next + whole, cells) = "corrupt"
    IN  [ok |-> ~failed,
         events |-> IF failed THEN <<>> ELSE [i \in 1..whole |-> tail.next + i - 1],
         tail |-> [next |-> tail.next + whole, read |-> cells]]

\* poll reads what was appended, then decodes records until the limit or an
\* incomplete one.  A corrupt record fails the poll: what it decoded before is
\* not returned and its place in the file stays.
Poll(tail, limit) ==
    LET whole == Min({limit, WholeFrom(tail.next, cells)})
        failed == whole < limit /\ Verdict(tail.next + whole, cells) = "corrupt"
    IN  [ok |-> ~failed,
         events |-> IF failed THEN <<>> ELSE [i \in 1..whole |-> tail.next + i - 1],
         tail |-> [next |-> IF failed THEN tail.next ELSE tail.next + whole, read |-> cells]]

-----------------------------------------------------------------------------
(* The writer, as far as the file shows. *)

FileInit == cells = -1 /\ damage \in Damages

CreateFile ==
    /\ cells = -1
    /\ cells' = 0
    /\ UNCHANGED damage

\* Some of what the engine buffered reaches the file, not always whole records.
WriteOut ==
    /\ cells >= 0
    /\ \E more \in (cells + 1)..FileCells(MaxRecords) : cells' = more
    /\ UNCHANGED damage
==============================================================================
