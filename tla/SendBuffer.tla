----------------------------- MODULE SendBuffer -----------------------------
(* The way of a message to one target, up to the socket's output buffer: every *)
(* thread that sends (writer) has a thread_local_buffer, with the archive it   *)
(* appends calls to, a lock on it, a second archive for when the lock is held, *)
(* and a lock-free queue of full buffers; the sender thread (get_outgoing_data *)
(* of dc_buffered_stream_send2) extracts what the writers have.                *)
EXTENDS Integers, Sequences, FiniteSets, SequencesExt

CONSTANTS
  Writer,       \* the sending threads, in the order of send_buffers: 1..n
  Sends,        \* Sends[w]: what w sends, a sequence of "call" and "write"
  FullBuffer,   \* calls in an archive that reach FULL_BUFFER_SIZE_LIMIT
  MaxFlushes    \* bound: rounds of the sender while a writer is at work

VARIABLES
  current_archive, secondary_archive,
  archive_lock,   \* archive_lock[w]: free, writer or sender
  outbuf,         \* outbuf[w]: buffers in the order of the exchanges of tail
  joined,         \* buffers whose predecessor's next pointer has been set
  writer,         \* writer[w]: [pc, sent, buf], sent of its messages begun
  sender,         \* [pc, at, buf, list]: the writer it is at, what it holds
  calls_counted,  \* calls_counted[w]: what w has added to calls_sent
  outdata,        \* the messages handed to the socket
  flushes

sendVars == <<current_archive, secondary_archive, archive_lock, outbuf, joined, writer,
              sender, calls_counted, outdata, flushes>>
archives == <<current_archive, secondary_archive, archive_lock>>

SendInit ==
  /\ current_archive = [w \in Writer |-> <<>>]
  /\ secondary_archive = [w \in Writer |-> <<>>]
  /\ archive_lock = [w \in Writer |-> "free"]
  /\ outbuf = [w \in Writer |-> <<>>]
  /\ joined = {}
  /\ writer = [w \in Writer |-> [pc |-> "idle", sent |-> 0, buf |-> <<>>]]
  /\ sender = [pc |-> "idle", at |-> 1, buf |-> <<>>, list |-> <<>>]
  /\ calls_counted = [w \in Writer |-> 0]
  /\ outdata = <<>>
  /\ flushes = 0
-----------------------------------------------------------------------------
(* inplace_lf_queue2::enqueue in its two steps.                                *)
ExchangeTail(w, buf) == outbuf' = [outbuf EXCEPT ![w] = Append(@, buf)]
SetNext(buf) == joined' = joined \cup {buf}

Message(w) == <<w, writer[w].sent + 1>>
Begins(w, kind) ==
  /\ writer[w].pc = "idle"
  /\ writer[w].sent < Len(Sends[w])
  /\ Sends[w][writer[w].sent + 1] = kind

(* acquire, and the serialization of a call into the archive it returns.       *)
acquire(w) ==
  /\ Begins(w, "call")
  /\ IF archive_lock[w] = "free"
     THEN /\ archive_lock' = [archive_lock EXCEPT ![w] = "writer"]
          /\ current_archive' = [current_archive EXCEPT ![w] = Append(@, Message(w))]
          /\ writer' = [writer EXCEPT ![w].pc = "primary", ![w].sent = @ + 1]
          /\ UNCHANGED secondary_archive
     ELSE /\ secondary_archive' = [secondary_archive EXCEPT ![w] = Append(@, Message(w))]
          /\ writer' = [writer EXCEPT ![w].pc = "secondary", ![w].sent = @ + 1]
          /\ UNCHANGED <<archive_lock, current_archive>>
  /\ UNCHANGED <<outbuf, joined, sender, calls_counted, outdata, flushes>>

CountedFirst(w) == [calls_counted EXCEPT ![w] = @ + 1]

(* release counts the call before it lets go of the archive.                   *)
Count(w) ==
  /\ writer[w].pc \in {"primary", "secondary"}
  /\ calls_counted' = CountedFirst(w)
  /\ writer' = [writer EXCEPT ![w].pc = IF @ = "primary" THEN "release" ELSE "shift"]
  /\ UNCHANGED <<archives, outbuf, joined, sender, outdata, flushes>>

release(w) ==
  LET full == Len(current_archive[w]) >= FullBuffer
  IN  /\ writer[w].pc = "release"
      /\ archive_lock' = [archive_lock EXCEPT ![w] = "free"]
      /\ current_archive' = IF full THEN [current_archive EXCEPT ![w] = <<>>]
                                    ELSE current_archive
      /\ writer' = IF full THEN [writer EXCEPT ![w].pc = "queue", ![w].buf = current_archive[w]]
                           ELSE [writer EXCEPT ![w].pc = "idle"]
      /\ UNCHANGED <<secondary_archive, outbuf, joined, sender, calls_counted, outdata, flushes>>

(* release after the secondary archive was used: it becomes the current one.   *)
Shift(w) ==
  /\ writer[w].pc = "shift"
  /\ archive_lock[w] = "free"
  /\ current_archive' = [current_archive EXCEPT ![w] = secondary_archive[w]]
  /\ secondary_archive' = [secondary_archive EXCEPT ![w] = <<>>]
  /\ writer' = IF current_archive[w] = <<>> THEN [writer EXCEPT ![w].pc = "idle"]
               ELSE [writer EXCEPT ![w].pc = "queue", ![w].buf = current_archive[w]]
  /\ UNCHANGED <<archive_lock, outbuf, joined, sender, calls_counted, outdata, flushes>>

(* write sends a buffer of its own, after what is in the archive.              *)
write(w) ==
  /\ Begins(w, "write")
  /\ calls_counted' = CountedFirst(w)
  /\ writer' = IF current_archive[w] # <<>>
               THEN [writer EXCEPT ![w].pc = "empty", ![w].sent = @ + 1]
               ELSE [writer EXCEPT ![w] = [pc |-> "queue", sent |-> @.sent + 1,
                                           buf |-> <<Message(w)>>]]
  /\ UNCHANGED <<archives, outbuf, joined, sender, outdata, flushes>>

(* The archive is queued, under its lock ...                                   *)
EmptyArchive(w) ==
  /\ writer[w].pc = "empty"
  /\ archive_lock[w] = "free"
  /\ archive_lock' = [archive_lock EXCEPT ![w] = "writer"]
  /\ IF current_archive[w] # <<>>
     THEN /\ ExchangeTail(w, current_archive[w])
          /\ writer' = [writer EXCEPT ![w].pc = "link_archive", ![w].buf = current_archive[w]]
     ELSE /\ writer' = [writer EXCEPT ![w].pc = "unlock"]
          /\ UNCHANGED outbuf
  /\ UNCHANGED <<current_archive, secondary_archive, joined, sender, calls_counted, outdata,
                 flushes>>

LinkArchive(w) ==
  /\ writer[w].pc = "link_archive"
  /\ SetNext(writer[w].buf)
  /\ writer' = [writer EXCEPT ![w].pc = "unlock"]
  /\ UNCHANGED <<archives, outbuf, sender, calls_counted, outdata, flushes>>

(* Faulty variant: the archive keeps what was queued.                          *)
ArchiveKept(w) == current_archive
ArchiveReset(w) == [current_archive EXCEPT ![w] = <<>>]

(* ... then reset, and the buffer itself follows.                              *)
UnlockArchive(w) ==
  /\ writer[w].pc = "unlock"
  /\ current_archive' = ArchiveReset(w)
  /\ archive_lock' = [archive_lock EXCEPT ![w] = "free"]
  /\ writer' = [writer EXCEPT ![w].pc = "queue", ![w].buf = <<<<w, writer[w].sent>>>>]
  /\ UNCHANGED <<secondary_archive, outbuf, joined, sender, calls_counted, outdata, flushes>>

add_to_queue(w) ==
  /\ writer[w].pc = "queue"
  /\ ExchangeTail(w, writer[w].buf)
  /\ writer' = [writer EXCEPT ![w].pc = "link"]
  /\ UNCHANGED <<archives, joined, sender, calls_counted, outdata, flushes>>

LinkBuffer(w) ==
  /\ writer[w].pc = "link"
  /\ SetNext(writer[w].buf)
  /\ writer' = [writer EXCEPT ![w].pc = "idle", ![w].buf = <<>>]
  /\ UNCHANGED <<archives, outbuf, sender, calls_counted, outdata, flushes>>
-----------------------------------------------------------------------------
(* The sender.                                                                 *)
WritersDone == \A w \in Writer : writer[w].pc = "idle" /\ writer[w].sent = Len(Sends[w])

Begin ==
  /\ sender.pc = "idle"
  /\ IF WritersDone THEN \E w \in Writer : current_archive[w] # <<>> \/ outbuf[w] # <<>>
                    ELSE flushes < MaxFlushes
  /\ flushes' = IF WritersDone THEN flushes ELSE flushes + 1
  /\ sender' = [sender EXCEPT !.pc = "extract", !.at = 1]
  /\ UNCHANGED <<archives, outbuf, joined, writer, calls_counted, outdata>>

(* extract: off is read without the lock, which is then only tried.            *)
extract ==
  LET w == sender.at
      gets == current_archive[w] # <<>> /\ archive_lock[w] = "free"
  IN  /\ sender.pc = "extract"
      /\ archive_lock' = IF gets THEN [archive_lock EXCEPT ![w] = "sender"] ELSE archive_lock
      /\ sender' = [sender EXCEPT !.pc = IF gets THEN "take" ELSE "dequeue"]
      /\ UNCHANGED <<current_archive, secondary_archive, outbuf, joined, writer, calls_counted,
                     outdata, flushes>>

TakeArchive ==
  LET w == sender.at
  IN  /\ sender.pc = "take"
      /\ current_archive' = [current_archive EXCEPT ![w] = <<>>]
      /\ archive_lock' = [archive_lock EXCEPT ![w] = "free"]
      /\ sender' = [sender EXCEPT !.pc = "queue", !.buf = current_archive[w]]
      /\ UNCHANGED <<secondary_archive, outbuf, joined, writer, calls_counted, outdata, flushes>>

QueueTaken ==
  /\ sender.pc = "queue"
  /\ ExchangeTail(sender.at, sender.buf)
  /\ sender' = [sender EXCEPT !.pc = "link"]
  /\ UNCHANGED <<archives, joined, writer, calls_counted, outdata, flushes>>

LinkTaken ==
  /\ sender.pc = "link"
  /\ SetNext(sender.buf)
  /\ sender' = [sender EXCEPT !.pc = "dequeue", !.buf = <<>>]
  /\ UNCHANGED <<archives, outbuf, writer, calls_counted, outdata, flushes>>

NextWriter(s) == IF s.at = Cardinality(Writer)
                   THEN [s EXCEPT !.pc = "idle", !.list = <<>>]
                   ELSE [s EXCEPT !.pc = "extract", !.at = @ + 1, !.list = <<>>]

(* dequeue_all returns all that was exchanged in, if the first is linked.      *)
DequeueAll ==
  LET w == sender.at
      some == outbuf[w] # <<>> /\ Head(outbuf[w]) \in joined
  IN  /\ sender.pc = "dequeue"
      /\ outbuf' = IF some THEN [outbuf EXCEPT ![w] = <<>>] ELSE outbuf
      /\ sender' = IF some THEN [sender EXCEPT !.pc = "write", !.list = outbuf[w]]
                           ELSE NextWriter(sender)
      /\ UNCHANGED <<archives, joined, writer, calls_counted, outdata, flushes>>

(* The next buffer of the list is there only once its predecessor points to it.*)
Awaited(buf) == buf \in joined

get_outgoing_data ==
  LET buf == Head(sender.list)
  IN  /\ sender.pc = "write"
      /\ Awaited(buf)
      /\ outdata' = outdata \o buf
      /\ joined' = joined \ {buf}
      /\ sender' = IF Len(sender.list) = 1 THEN NextWriter(sender)
                   ELSE [sender EXCEPT !.list = Tail(@)]
      /\ UNCHANGED <<archives, outbuf, writer, calls_counted, flushes>>
-----------------------------------------------------------------------------
SendDone ==
  /\ WritersDone /\ sender.pc = "idle"
  /\ Len(outdata) = FoldFunction(LAMBDA s, n : Len(s) + n, 0, Sends)

SendNext ==
  \/ \E w \in Writer :
       \/ acquire(w) \/ Count(w) \/ release(w) \/ Shift(w) \/ write(w) \/ EmptyArchive(w)
       \/ LinkArchive(w) \/ UnlockArchive(w) \/ add_to_queue(w) \/ LinkBuffer(w)
  \/ Begin \/ extract \/ TakeArchive \/ QueueTaken \/ LinkTaken \/ DequeueAll
  \/ get_outgoing_data

SendSpec == SendInit /\ [][SendNext]_sendVars
-----------------------------------------------------------------------------
SendTypeOK ==
  /\ archive_lock \in [Writer -> {"free", "writer", "sender"}]
  /\ calls_counted \in [Writer -> Nat] /\ flushes \in 0..MaxFlushes
  /\ sender.at \in Writer

(* What is on its way from w, wherever it is.                                  *)
Pending(w) ==
  LET held == IF writer[w].pc = "queue" THEN writer[w].buf
              ELSE IF writer[w].pc \in {"empty", "link_archive", "unlock"}
                     THEN <<<<w, writer[w].sent>>>> ELSE <<>>
      archive == IF writer[w].pc \in {"link_archive", "unlock"} THEN <<>> ELSE current_archive[w]
      taken == IF sender.at = w /\ sender.pc = "queue" THEN sender.buf ELSE <<>>
      listed == IF sender.at = w THEN FlattenSeq(sender.list) ELSE <<>>
  IN  held \o archive \o secondary_archive[w] \o taken \o FlattenSeq(outbuf[w]) \o listed

Of(w) == SelectSeq(outdata, LAMBDA msg : msg[1] = w)

(* Every message a thread has sent is either on its way or handed to the       *)
(* socket, once, whatever the sender extracts meanwhile; and it has been       *)
(* counted in calls_sent before it is handed over, which full_barrier and      *)
(* async_consensus rest on ("Bytes sent must be incremented BEFORE the data is *)
(* transmitted", rpc/dc_send.hpp).                                             *)
SentOnce ==
  \A w \in Writer :
    LET all == Pending(w) \o Of(w)
    IN  /\ Len(all) = writer[w].sent
        /\ ToSet(all) = {<<w, i>> : i \in 1..writer[w].sent}
        /\ Len(Of(w)) <= calls_counted[w]
=============================================================================
