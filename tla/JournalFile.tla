---------------------------- MODULE JournalFile ----------------------------
(***************************************************************************)
(* The JSON Lines file behind ghambla.journal.Journal, as its lines.  A    *)
(* line is a record of the decision log or Garbage, text json.loads        *)
(* rejects.  The file ends in a newline unless an append was cut short: it *)
(* is then `unterminated', and the next append is glued to its last line.  *)
(***************************************************************************)
EXTENDS Naturals, Sequences

CONSTANTS Record,       \* the decision records a cycle may write
          Garbage       \* a line that does not decode

ASSUME GarbageIsNoRecord == Garbage \notin Record

VARIABLES lines,        \* the lines of the file, oldest first
          unterminated  \* the last line has no newline yet

fileVars == <<lines, unterminated>>

FileTypeOK == /\ lines \in Seq(Record \cup {Garbage})
              /\ unterminated \in BOOLEAN
              /\ unterminated => lines # <<>>

FileInit == lines = <<>> /\ unterminated = FALSE

-----------------------------------------------------------------------------
(* Journal.append: text, then its newline, into a file opened with "a".    *)

\* A bug: a repair before each append, which writes the file anew from the
\* lines that read() decodes and so deletes the damaged ones.
PutRepairing(text, terminated) ==
  /\ lines' = Append(SelectSeq(lines, LAMBDA line : line # Garbage), text)
  /\ unterminated' = ~terminated

\* A second JSON document on one line is "extra data": the line is lost whole.
Put(text, terminated) ==
  /\ lines' = IF unterminated THEN [lines EXCEPT ![Len(lines)] = Garbage]
                              ELSE Append(lines, text)
  /\ unterminated' = ~terminated

\* A bug: truncate the file (mode "w") before writing.
AppendRecordTruncating(r) == lines' = <<r>> /\ unterminated' = FALSE

AppendRecord(r) == Put(r, TRUE)

\* The process dies, or the disk fills, inside the write: in the file is nothing
\* of the text, part of it, or all of it but the newline.
InterruptAppend(r) == \/ UNCHANGED fileVars
                      \/ \E text \in {r, Garbage} : Put(text, FALSE)

-----------------------------------------------------------------------------
(* Journal.read skips what does not decode; Journal.last keeps the newest. *)

Readable == {i \in DOMAIN lines : lines[i] # Garbage}

HasRecord == Readable # {}

LastRecord == lines[CHOOSE i \in Readable : \A j \in Readable : j <= i]

FirstRecord == lines[CHOOSE i \in Readable : \A j \in Readable : j >= i]

ReadRecords == {lines[i] : i \in Readable}
=============================================================================
