-------------------------------- MODULE RunLog --------------------------------
(***************************************************************************)
(* The log of one node in one run (vertex/agent/runlog.py): rows are       *)
(* buffered, handed to the operating system in batches, and read back by   *)
(* recover_rows whatever ended the run; vertex/analysis/load.py makes      *)
(* columns of them.                                                        *)
(*                                                                         *)
(* A row is its number, and a file the sequence of the cells written, each *)
(* <<row, place>>; a line of text ends with the place Newline.             *)
(***************************************************************************)
EXTENDS Integers, Sequences

CONSTANTS
  Formats,     \* those of "binary", "csv" and "jsonl" a node may be launched with
  Cells,       \* ncols: cells of a row
  FlushEvery,  \* rows of a batch
  MaxRows,     \* bound: rows of the run
  MaxFaults    \* bound: writes the disk refuses

ASSUME RunLogAssumption ==
  /\ Formats \subseteq {"binary", "csv", "jsonl"}
  /\ Cells \in Nat \ {0} /\ FlushEvery \in Nat \ {0}
  /\ MaxRows \in Nat /\ MaxFaults \in Nat

VARIABLES
  fmt,      \* the format of the rows file
  phase,    \* "new", "open", "closed" and finalised, "killed", "off": power lost
  count,    \* _count: rows appended
  buffered, \* rows in _buf
  since,    \* _since_flush
  file,     \* the cells the operating system has
  samples,  \* meta.samples in the sidecar file
  final,    \* the rows of the columnar file
  faults,   \* writes refused so far
  intact    \* rows written before the first refusal

logVars == <<fmt, phase, count, buffered, since, file, samples, final, faults, intact>>

Newline == Cells + 1
Row(r) == [i \in 1 .. Cells |-> <<r, i>>]

\* What a row takes in a file, and the i-th cell of the rows in order.
Width(format) == IF format = "binary" THEN Cells ELSE Newline
Cell(width, i) == <<((i - 1) \div width) + 1, ((i - 1) % width) + 1>>

(* What the buffer holds when it has n rows, as it is written.             *)
BatchWith(n) ==
  [i \in 1 .. n * Width(fmt) |->
     Cell(Width(fmt), (count - buffered) * Width(fmt) + i)]

LogInit ==
  /\ fmt \in Formats /\ phase = "new"
  /\ count = 0 /\ buffered = 0 /\ since = 0
  /\ file = << >> /\ samples = 0 /\ final = << >>
  /\ faults = 0 /\ intact = 0

-----------------------------------------------------------------------------
(* recover_rows *)

(* Mutant of Records: a record the end of the file cuts is read as well.   *)
RecordsRoundedUp(f) ==
  [k \in 1 .. (Len(f) + Cells - 1) \div Cells |->
     SubSeq(f, (k - 1) * Cells + 1, IF k * Cells > Len(f) THEN Len(f) ELSE k * Cells)]

(* Mutant of Records: a file that is not a number of records is not read.  *)
RecordsStrict(f) ==
  [k \in 1 .. IF Len(f) % Cells = 0 THEN Len(f) \div Cells ELSE 0 |->
     SubSeq(f, (k - 1) * Cells + 1, k * Cells)]

Records(f) ==
  [k \in 1 .. Len(f) \div Cells |-> SubSeq(f, (k - 1) * Cells + 1, k * Cells)]

(* A line is one JSON value only if it is one whole row; a line of csv is  *)
(* whatever cells it has.                                                  *)
Parsed(format, line) ==
  /\ line # << >>
  /\ format = "jsonl" => line = Row(line[1][1])

Taken(format, rows, line) == IF Parsed(format, line) THEN Append(rows, line) ELSE rows

(* The lines of a file, one after the other: the rows read of its first i  *)
(* cells, and the line begun.                                              *)
Read(format, f) ==
  LET read[i \in 0 .. Len(f)] ==
        IF i = 0 THEN [rows |-> << >>, line |-> << >>]
        ELSE IF f[i][2] = Newline
             THEN [rows |-> Taken(format, read[i - 1].rows, read[i - 1].line), line |-> << >>]
             ELSE [read[i - 1] EXCEPT !.line = Append(@, f[i])]
  IN  read

\* The last line need not end.
Lines(format, f) ==
  Taken(format, Read(format, f)[Len(f)].rows, Read(format, f)[Len(f)].line)

Recovered(format, f) == IF format = "binary" THEN Records(f) ELSE Lines(format, f)

(* load_node: a column takes the cell of every row that reaches it; these  *)
(* are the rows of each column.                                            *)
Columns(rows) == [i \in 1 .. Cells |-> {k \in DOMAIN rows : i <= Len(rows[k])}]

-----------------------------------------------------------------------------
(* The log of a run *)

(* RunLog.start: the sidecar first, then an empty rows file.               *)
Start ==
  /\ phase = "new" /\ phase' = "open"
  /\ samples' = 0 /\ file' = << >>
  /\ UNCHANGED <<fmt, count, buffered, since, final, faults, intact>>

(* One more row in the buffer, as append leaves it to flush.               *)
Appended ==
  /\ count < MaxRows
  /\ count' = count + 1

Full(n) == n >= FlushEvery

(* append, with the flush a full batch asks for.                           *)
AppendRow ==
  /\ phase = "open" /\ Appended
  /\ IF Full(since + 1)
     THEN /\ file' = file \o BatchWith(buffered + 1)
          /\ buffered' = 0 /\ since' = 0
          /\ intact' = IF faults = 0 THEN count' ELSE intact
     ELSE /\ buffered' = buffered + 1 /\ since' = since + 1
          /\ UNCHANGED <<file, intact>>
  /\ UNCHANGED <<fmt, phase, samples, final, faults>>

(* The write is refused part of the way: the exception leaves the batch in *)
(* the buffer, to be written again.                                        *)
AppendRefused ==
  /\ phase = "open" /\ Appended /\ Full(since + 1) /\ faults < MaxFaults
  /\ \E n \in 0 .. Len(BatchWith(buffered + 1)) - 1 :
       file' = file \o SubSeq(BatchWith(buffered + 1), 1, n)
  /\ buffered' = buffered + 1 /\ since' = since + 1
  /\ faults' = faults + 1
  /\ UNCHANGED <<fmt, phase, samples, final, intact>>

(* finalize: the last batch, the sidecar, and the columnar file.           *)
Finalize ==
  /\ phase = "open" /\ phase' = "closed"
  /\ file' = file \o BatchWith(buffered)
  /\ buffered' = 0 /\ since' = 0 /\ samples' = count
  /\ final' = Recovered(fmt, file')
  /\ intact' = IF faults = 0 THEN count ELSE intact
  /\ UNCHANGED <<fmt, count, faults>>

(* The process is killed, within a write or between two; what the system   *)
(* was handed stays.                                                       *)
Killed ==
  /\ phase = "open" /\ phase' = "killed"
  /\ \E n \in 0 .. Len(BatchWith(buffered)) :
       file' = file \o SubSeq(BatchWith(buffered), 1, n)
  /\ UNCHANGED <<fmt, count, buffered, since, samples, final, faults, intact>>

(* The power goes: nothing is synced, so any end of the file may be gone.  *)
PowerLost ==
  /\ phase = "open" /\ phase' = "off"
  /\ \E n \in 0 .. Len(file) : file' = SubSeq(file, 1, n)
  /\ UNCHANGED <<fmt, count, buffered, since, samples, final, faults, intact>>

LogNext == Start \/ AppendRow \/ AppendRefused \/ Finalize \/ Killed \/ PowerLost

LogSpec == LogInit /\ [][LogNext]_logVars

-----------------------------------------------------------------------------
(* Properties *)

AllRows(n) == [r \in 1 .. n |-> Row(r)]

TypeOK ==
  /\ fmt \in Formats
  /\ phase \in {"new", "open", "closed", "killed", "off"}
  /\ count \in 0 .. MaxRows /\ buffered \in 0 .. count /\ since = buffered
  /\ samples \in 0 .. count /\ faults \in 0 .. MaxFaults /\ intact \in 0 .. count

(* recover_rows tolerates a truncated tail: whatever ended the run, the    *)
(* rows read back are the first rows appended, none altered and none made  *)
(* up.  A csv line that was cut may come last, with the cells it has.      *)
RecoveredIsPrefix ==
  LET rows == Recovered(fmt, file)
      whole == IF fmt = "csv" /\ rows # << >> THEN SubSeq(rows, 1, Len(rows) - 1) ELSE rows
  IN  faults = 0 => whole = AllRows(Len(whole)) /\ Len(rows) <= count

(* A process that dies loses less than one batch (flush_every), and its    *)
(* sidecar never promises rows that are not there (_write_meta).           *)
KillLosesLessThanABatch ==
  faults = 0 /\ phase \in {"open", "killed", "closed"} =>
    /\ count - Len(Recovered(fmt, file)) < FlushEvery
    /\ samples <= Len(Recovered(fmt, file))

(* A finalised run is whole: the columnar file has every row, and the      *)
(* sidecar counts them (RunLog.finalize).                                  *)
FinalIsWhole ==
  phase = "closed" /\ faults = 0 => final = AllRows(count) /\ samples = count

(* A refused write does not reach back: every row written before it is     *)
(* still read, in its place (RunLog.flush keeps the batch it failed to     *)
(* write and appends it again).                                            *)
RefusalSparesEarlierRows ==
  phase # "off" =>
    /\ Len(Recovered(fmt, file)) >= intact
    /\ SubSeq(Recovered(fmt, file), 1, intact) = AllRows(intact)

(* The columns analysis works on have one entry per row (load_node), except*)
(* where a csv line was cut.                                               *)
ColumnsAreAligned ==
  LET rows == Recovered(fmt, file)
  IN  fmt # "csv" => \A i \in 1 .. Cells : Columns(rows)[i] = DOMAIN rows

(* Whatever ends a run without a refused write, what is read back of it is *)
(* a prefix, aligned, less than a batch short and whole when finalised     *)
(* (RunLog, recover_rows, load_node).                                      *)
LogInv ==
  TypeOK /\ RecoveredIsPrefix /\ KillLosesLessThanABatch /\ FinalIsWhole /\ ColumnsAreAligned
===============================================================================
