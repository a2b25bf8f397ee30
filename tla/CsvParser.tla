------------------------------ MODULE CsvParser ------------------------------
(***************************************************************************)
(* parallel_csv_parser, sframe/parallel_csv_parser.cpp: files are read in   *)
(* blocks, a block is cut into equal pieces that the tasks of read_group     *)
(* parse at the same time, and a task of write_group writes the rows of one  *)
(* block while the next one is read and parsed.                              *)
(*                                                                         *)
(* A character is kept by its place in the input, so that a row can be told  *)
(* from every other.  Of the tokenizer only its verdict on a line is left:   *)
(* a blank line is skipped, a line with a "b" does not parse.                *)
(***************************************************************************)
EXTENDS Integers, Sequences, FiniteSets, SequencesExt

CONSTANTS
  Inputs,                       \* the sequences of files that may be read
  SFRAME_CSV_PARSER_READ_SIZE,
  nthreads,
  RowLimits,                    \* values of row_limit, where 0 is no limit
  NumSegments,                  \* segments of the output frame
  MayCancel                     \* whether the user may cancel

Piece == 0..(nthreads - 1)
Segment == 0..(NumSegments - 1)
Pushed == <<0, 0>>              \* the '\n' that fill_buffer puts after a file

ASSUME CsvAssumption ==
  /\ SFRAME_CSV_PARSER_READ_SIZE \in Nat \ {0} /\ nthreads \in Nat \ {0}
  /\ NumSegments \in Nat \ {0} /\ RowLimits \subseteq Nat /\ MayCancel \in BOOLEAN
  /\ \A in \in Inputs : \A f \in 1..Len(in) : \A i \in 1..Len(in[f]) :
       in[f][i] \in {"x", "b", "\n", "\r"}

VARIABLES
  files, row_limit, continue_on_failure, \* what the user asked for
  fin,                 \* the open file: [file, read, good]
  fill_buffer_is_good, buffer,
  todo,                \* pieces whose task of read_group has not run
  last_parsed_token, threw, \* threw: a task of read_group did
  parsed_buffer, error_buffer,          \* of a piece, up to its last_elem
  writing_buffer, writing_error_buffer,
  writer,              \* of write_group: the next chunk, or nthreads + 1 when idle
  output_segment,      \* the segment that the writer was given
  current_output_segment, cumulative_file_read_sizes, lines_read,
  output_frame, errors, csv_pc

asked == <<files, row_limit, continue_on_failure>>
reading == <<fin, fill_buffer_is_good, buffer, todo, last_parsed_token, threw>>
parsed == <<parsed_buffer, error_buffer>>
writing == <<writing_buffer, writing_error_buffer, writer, output_segment>>
written == <<lines_read, output_frame, errors>>
segments == <<current_output_segment, cumulative_file_read_sizes>>
csvVars == <<asked, reading, parsed, writing, written, segments, csv_pc>>

Char(p) == IF p = Pushed THEN "\n" ELSE files[p[1]][p[2]]
is_end_line_char(p) == Char(p) \in {"\n", "\r"}
Blank == [t \in Piece |-> <<>>]

(* Offsets into the buffer count from 0: the offsets of line ends from lo up to *)
(* hi, and the first of them, or hi.                                            *)
LineEnds(b, lo, hi) == {i \in lo..(hi - 1) : is_end_line_char(b[i + 1])}
FirstEnd(b, lo, hi) == Min(LineEnds(b, lo, hi) \cup {hi})

(* The lines that end from lo up to hi, the first of which begins at lo, and   *)
(* where the line after them begins.                                          *)
RECURSIVE Lines(_, _, _), Rest(_, _, _)
Lines(b, lo, hi) ==
  LET i == FirstEnd(b, lo, hi)
  IN IF i = hi THEN <<>> ELSE <<SubSeq(b, lo + 1, i)>> \o Lines(b, i + 1, hi)
Rest(b, lo, hi) ==
  LET i == FirstEnd(b, lo, hi) IN IF i = hi THEN lo ELSE Rest(b, i + 1, hi)

Bad(line) == \E i \in 1..Len(line) : Char(line[i]) = "b"
Rows(lines) == SelectSeq(lines, LAMBDA l : l # <<>> /\ ~Bad(l))
Failures(lines) == SelectSeq(lines, Bad)

CsvInit ==
  /\ files \in Inputs /\ row_limit \in RowLimits /\ continue_on_failure \in BOOLEAN
  /\ fin = [file |-> 1, read |-> 0, good |-> TRUE] /\ fill_buffer_is_good = TRUE
  /\ buffer = <<>> /\ todo = {} /\ last_parsed_token = 0 /\ threw = FALSE
  /\ parsed_buffer = Blank /\ error_buffer = Blank
  /\ writing_buffer = Blank /\ writing_error_buffer = Blank
  /\ writer = nthreads + 1 /\ output_segment = 0
  /\ current_output_segment = 0 /\ cumulative_file_read_sizes = 0
  /\ lines_read = 0 /\ output_frame = [s \in Segment |-> <<>>] /\ errors = <<>>
  /\ csv_pc = "loop"

WriterIdle == writer = nthreads + 1
GoesOn == fin.good /\ fill_buffer_is_good /\ (row_limit = 0 \/ lines_read < row_limit)

(* The head of the loop of parse(): lines_read is looked at while the writer   *)
(* may still be adding to it. fill_buffer ends a file with a '\n'.             *)
fill_buffer ==
  LET size == Len(files[fin.file])
      gcount == LET left == size - fin.read
                IN IF left < SFRAME_CSV_PARSER_READ_SIZE THEN left ELSE SFRAME_CSV_PARSER_READ_SIZE
      more == gcount = SFRAME_CSV_PARSER_READ_SIZE
      full == buffer \o [i \in 1..gcount |-> <<fin.file, fin.read + i>>]
      ended == IF ~more /\ full # <<>> /\ Char(Last(full)) # "\n" THEN Append(full, Pushed) ELSE full
  IN /\ csv_pc = "loop" /\ GoesOn
     /\ fin' = [fin EXCEPT !.read = @ + gcount, !.good = more]
     /\ fill_buffer_is_good' = more
     /\ buffer' = ended
     /\ IF ended = <<>> THEN csv_pc' = "close" /\ UNCHANGED todo
                        ELSE csv_pc' = "parse" /\ todo' = Piece
     /\ last_parsed_token' = 0
     /\ UNCHANGED <<asked, threw, parsed, writing, written, segments>>

LoopEnds ==
  /\ csv_pc = "loop" /\ ~GoesOn /\ csv_pc' = "close"
  /\ UNCHANGED <<asked, reading, parsed, writing, written, segments>>

(* The piece of a task: from the line that begins after the first line end in  *)
(* it (the piece 0: from the start), to the end of the line that is open at    *)
(* its end. A '\r' stops the search for the start, whose test for a '\n' after *)
(* it never holds; the one at the end looks at the first character of the line *)
(* instead, and may take one character more.                                   *)
Pstart(t) == t * (Len(buffer) \div nthreads)
Pend(t) == IF t = nthreads - 1 THEN Len(buffer) ELSE (t + 1) * (Len(buffer) \div nthreads)
start_position_found(t) == t = 0 \/ LineEnds(buffer, Pstart(t), Pend(t)) # {}
FromPieceStart(t) == Pstart(t)
StartPosition(t) == IF t = 0 THEN 0 ELSE FirstEnd(buffer, Pstart(t), Pend(t)) + 1
EndPosition(t) ==
  LET halt == FirstEnd(buffer, Pend(t), Len(buffer))
      skip == /\ halt # Pend(t) /\ halt # Len(buffer)
              /\ Char(buffer[StartPosition(t) + 1]) = "\r" /\ Char(buffer[halt + 1]) = "\n"
      past == IF skip THEN halt + 1 ELSE halt
  IN IF past # Len(buffer) THEN past + 1 ELSE past

(* A task of read_group: parse_thread, and what it returns is noted. A line    *)
(* that does not parse is an error to store, or ends the task.                 *)
parse_thread(t) ==
  LET lines == IF start_position_found(t)
               THEN Lines(buffer, StartPosition(t), EndPosition(t)) ELSE <<>>
      ret == IF start_position_found(t)
             THEN Rest(buffer, StartPosition(t), EndPosition(t)) ELSE Pend(t)
      throws == ~continue_on_failure /\ Failures(lines) # <<>>
  IN /\ csv_pc = "parse" /\ t \in todo /\ todo' = todo \ {t}
     /\ parsed_buffer' = [parsed_buffer EXCEPT ![t] = @ \o Rows(lines)]
     /\ IF throws
        THEN threw' = TRUE /\ UNCHANGED <<error_buffer, last_parsed_token>>
        ELSE /\ error_buffer' = [error_buffer EXCEPT ![t] = @ \o Failures(lines)]
             /\ last_parsed_token' = IF last_parsed_token < ret THEN ret ELSE last_parsed_token
             /\ UNCHANGED threw
     /\ UNCHANGED <<asked, fin, fill_buffer_is_good, buffer, writing, written, segments, csv_pc>>

(* parsed_buffer_last_elem cut to what row_limit leaves.                       *)
Truncated ==
  LET remainder == IF row_limit > lines_read THEN row_limit - lines_read ELSE 0
      Before(t) == FoldLeft(LAMBDA n, i : n + Len(parsed_buffer[i - 1]), 0, [i \in 1..t |-> i])
      Kept(t) == IF Before(t) >= remainder THEN 0 ELSE remainder - Before(t)
  IN IF row_limit = 0 THEN parsed_buffer
     ELSE [t \in Piece |-> IF Len(parsed_buffer[t]) > Kept(t)
                           THEN SubSeq(parsed_buffer[t], 1, Kept(t)) ELSE parsed_buffer[t]]

(* get_bytes_read may not know the position.                                   *)
next_output_segment(known) ==
  LET read_pos == cumulative_file_read_sizes + (IF known THEN fin.read ELSE 0)
      total == FoldLeft(LAMBDA n, f : n + Len(f), 0, files)
      next == (read_pos * NumSegments) \div total
      bounded == IF next >= NumSegments THEN NumSegments - 1 ELSE next
  IN IF bounded > current_output_segment THEN bounded ELSE current_output_segment

(* read_group.join() returned, the buffer is shifted, write_group.join()       *)
(* returned: the buffers are swapped and the writer starts.                    *)
start_background_write(known) ==
  /\ csv_pc = "parse" /\ todo = {} /\ ~threw /\ WriterIdle
  /\ buffer' = SubSeq(buffer, last_parsed_token + 1, Len(buffer))
  /\ current_output_segment' = next_output_segment(known)
  /\ output_segment' = next_output_segment(known)
  /\ writing_buffer' = Truncated /\ parsed_buffer' = Blank
  /\ writing_error_buffer' = error_buffer /\ error_buffer' = writing_error_buffer
  /\ writer' = 0
  /\ csv_pc' = IF Truncated # parsed_buffer THEN "incomplete" ELSE "loop"
  /\ UNCHANGED <<asked, fin, fill_buffer_is_good, todo, last_parsed_token, threw, written,
                 cumulative_file_read_sizes>>

incomplete_write ==
  /\ csv_pc = "incomplete" /\ WriterIdle /\ csv_pc' = "loop"
  /\ UNCHANGED <<asked, reading, parsed, writing, written, segments>>

(* The task of write_group: a chunk at a time, then the errors.                *)
copy ==
  /\ writer < nthreads /\ writer' = writer + 1
  /\ output_frame' = [output_frame EXCEPT ![output_segment] = @ \o writing_buffer[writer]]
  /\ lines_read' = lines_read + Len(writing_buffer[writer])
  /\ UNCHANGED <<asked, reading, parsed, writing_buffer, writing_error_buffer, output_segment,
                 errors, segments, csv_pc>>

copy_errors ==
  /\ writer = nthreads /\ writer' = nthreads + 1
  /\ errors' = errors \o FlattenSeq([i \in 1..nthreads |-> writing_error_buffer[i - 1]])
  /\ writing_error_buffer' = Blank
  /\ UNCHANGED <<asked, reading, parsed, writing_buffer, output_segment, lines_read,
                 output_frame, segments, csv_pc>>

(* An exception of read_group, or must_cancel() after write_group.join(): the   *)
(* handler joins both groups and throws again.                                 *)
Throw ==
  /\ csv_pc = "parse" /\ todo = {} /\ (threw \/ (MayCancel /\ WriterIdle))
  /\ csv_pc' = "catch"
  /\ UNCHANGED <<asked, reading, parsed, writing, written, segments>>

Catch ==
  /\ csv_pc = "catch" /\ WriterIdle /\ csv_pc' = "failed"
  /\ cumulative_file_read_sizes' = cumulative_file_read_sizes + Len(files[fin.file])
  /\ UNCHANGED <<asked, reading, parsed, writing, written, current_output_segment>>

(* parse() returns, and parse_csvs_to_sframe goes on with the next file unless *)
(* enough rows were read.                                                      *)
Close ==
  /\ csv_pc = "close" /\ WriterIdle
  /\ cumulative_file_read_sizes' = cumulative_file_read_sizes + Len(files[fin.file])
  /\ IF fin.file < Len(files) /\ (lines_read < row_limit \/ row_limit = 0)
     THEN /\ fin' = [file |-> fin.file + 1, read |-> 0, good |-> TRUE]
          /\ fill_buffer_is_good' = TRUE /\ csv_pc' = "loop"
     ELSE csv_pc' = "done" /\ UNCHANGED <<fin, fill_buffer_is_good>>
  /\ UNCHANGED <<asked, buffer, todo, last_parsed_token, threw, parsed, writing, written,
                 current_output_segment>>

CsvNext == \/ fill_buffer \/ LoopEnds \/ incomplete_write \/ Throw \/ Catch \/ Close
           \/ \E t \in Piece : parse_thread(t)
           \/ \E known \in BOOLEAN : start_background_write(known)
           \/ copy \/ copy_errors

CsvSpec == CsvInit /\ [][CsvNext]_csvVars
CsvDone == csv_pc \in {"done", "failed"}

-----------------------------------------------------------------------------
(* Types.                                                                    *)
CsvTypeOK ==
  /\ row_limit \in RowLimits /\ continue_on_failure \in BOOLEAN
  /\ fin.file \in 1..Len(files) /\ fin.read \in 0..Len(files[fin.file]) /\ fin.good \in BOOLEAN
  /\ fill_buffer_is_good \in BOOLEAN /\ todo \subseteq Piece /\ threw \in BOOLEAN
  /\ last_parsed_token \in 0..(Len(buffer) + SFRAME_CSV_PARSER_READ_SIZE + nthreads)
  /\ writer \in 0..(nthreads + 1) /\ lines_read \in Nat /\ cumulative_file_read_sizes \in Nat
  /\ output_segment \in Segment /\ current_output_segment \in Segment
  /\ csv_pc \in {"loop", "parse", "incomplete", "catch", "close", "done", "failed"}

(* The lines of the input, as one thread would find them in each whole file.   *)
AllLines ==
  LET Text(f) == Append([i \in 1..Len(files[f]) |-> <<f, i>>], Pushed)
  IN FlattenSeq([f \in 1..Len(files) |-> Lines(Text(f), 0, Len(Text(f)))])
Written == FlattenSeq([s \in 1..NumSegments |-> output_frame[s - 1]])

(* However blocks and pieces cut the lines, the rows of the frame are always   *)
(* the first rows of the files, in their order across threads, blocks, segments *)
(* and files, each of them whole and once, and never more than row_limit; so   *)
(* too after a bad line or a cancellation ended the reading.                   *)
RowsInOrder ==
  /\ CsvTypeOK
  /\ IsPrefix(Written, Rows(AllLines)) /\ (row_limit > 0 => Len(Written) <= row_limit)
  /\ IsPrefix(errors, Failures(AllLines))
  /\ lines_read = Len(Written)

(* "This correctly takes care of all cases; even where a line spans multiple    *)
(* pieces": when the files were read, the frame has every row, or the first    *)
(* row_limit of them, and without a limit every bad line was stored.           *)
RowsComplete ==
  csv_pc = "done" =>
    /\ Len(Written) = IF row_limit = 0 \/ row_limit > Len(Rows(AllLines))
                      THEN Len(Rows(AllLines)) ELSE row_limit
    /\ row_limit = 0 => errors = Failures(AllLines)

(* The parser gives exactly the rows of its files, in order: what is true while  *)
(* it reads and when it ends, for lines shorter than a piece of a block.        *)
RowsExact == RowsInOrder /\ RowsComplete
=============================================================================
