----------------------------- MODULE UartLines -----------------------------
(***************************************************************************)
(* The line framing of received UART bytes (uart_capture/line_buffer.py,   *)
(* uart_capture/processor.py and log_processing/patterns.py).              *)
(*                                                                         *)
(* Bytes arrive in events of any size.  A line buffer cuts them after each *)
(* newline; a line longer than MaxLine bytes, its newline included, is not *)
(* kept but measured, across as many events as it takes.  Three kinds of   *)
(* byte are told apart: the newline "n", the byte "P" that stands for a    *)
(* text the pattern detector looks for, and any other byte.                *)
(***************************************************************************)
EXTENDS Integers, Sequences, FiniteSets, SequencesExt

CONSTANT MaxLine   \* MAX_UART_LINE_BYTES

ASSUME MaxLineAssumption == MaxLine \in Nat \ {0}

(* One buffer: the bytes kept, or the number of bytes measured (0: no line  *)
(* is oversized); where the line began, and the event and the index of the  *)
(* line in it that touched it last.                                         *)
EmptyBuffer == [pending |-> <<>>, total |-> 0, start |-> <<0, 0>>, seq |-> 0, nth |-> 0]

HasUnterminatedLine(buf) == buf.pending # <<>> \/ buf.total > 0

(* _finish_oversized_line.                                                  *)
Oversized(buf, terminated) ==
    [total |-> buf.total, start |-> buf.start, seq |-> buf.seq, nth |-> buf.nth,
     terminated |-> terminated]

Line(raw, start, seq, nth) == [raw |-> raw, start |-> start, seq |-> seq, nth |-> nth]

(* The event cut after each of its newlines.                                *)
Pieces(data) ==
    LET ends == {i \in 1..Len(data) : data[i] = "n"} \union {Len(data)}
        cuts == <<0>> \o SetToSortSeq(ends, <)
    IN  [k \in 1..Len(cuts)-1 |-> SubSeq(data, cuts[k] + 1, cuts[k + 1])]

(* One turn of feed_result's loop: the next piece of event seq reaches the  *)
(* buffer.  acc also counts the bytes (off) and lines (nth) of the event.   *)
FeedPiece(acc, piece, seq) ==
    LET buf   == acc.buf
        ends  == Last(piece) = "n"
        total == (IF buf.total > 0 THEN buf.total ELSE Len(buf.pending)) + Len(piece)
        start == IF HasUnterminatedLine(buf) THEN buf.start ELSE <<seq, acc.off>>
        next  == [acc EXCEPT !.off = @ + Len(piece), !.nth = @ + (IF ends THEN 1 ELSE 0)]
        over  == [EmptyBuffer EXCEPT !.total = total, !.start = start, !.seq = seq,
                                     !.nth = acc.nth]
        newly == IF buf.total = 0 THEN 1 ELSE 0
    IN  IF buf.total > 0 \/ total > MaxLine
        THEN IF ends THEN [next EXCEPT !.buf = EmptyBuffer, !.newly = @ + newly,
                              !.oversized = Append(@, Oversized(over, TRUE))]
                     ELSE [next EXCEPT !.buf = over, !.newly = @ + newly]
        ELSE IF ends THEN [next EXCEPT !.buf = EmptyBuffer,
                              !.lines = Append(@, Line(buf.pending \o piece, start, seq, acc.nth))]
                     ELSE [next EXCEPT !.buf = [EmptyBuffer EXCEPT
                              !.pending = buf.pending \o piece, !.start = start,
                              !.seq = seq, !.nth = acc.nth]]

(* UartLineBuffer.feed_result.                                              *)
FeedResult(buf, data, seq) ==
    FoldLeft(LAMBDA acc, piece : FeedPiece(acc, piece, seq),
             [buf |-> buf, lines |-> <<>>, oversized |-> <<>>, newly |-> 0,
              off |-> 0, nth |-> 0],
             Pieces(data))

(* UartLineBuffer.flush_result, at the end of a segment or of a session.    *)
FlushResult(buf) ==
    [lines |-> IF buf.pending # <<>> THEN <<Line(buf.pending, buf.start, buf.seq, buf.nth)>>
                                     ELSE <<>>,
     oversized |-> IF buf.total > 0 THEN <<Oversized(buf, FALSE)>> ELSE <<>>]

(* PatternDetector.scan_lines: the lines in which the pattern is found.     *)
ScanLines(lines) == SelectSeq(lines, LAMBDA l : Contains(l.raw, "P"))

(***************************************************************************)
(* The capture processor: one buffer for each channel of the current       *)
(* segment (a segment's buffers are flushed and dropped when it ends), and *)
(* the index of the next event.                                            *)
(***************************************************************************)
NewProcessor(channels) == [next |-> 0, bufs |-> [c \in channels |-> EmptyBuffer]]

(* UartCaptureProcessor.process_event on a clone of the processor.          *)
ProcessEvent(proc, c, data) ==
    LET fed == FeedResult(proc.bufs[c], data, proc.next)
    IN  [proc |-> [next |-> proc.next + 1, bufs |-> [proc.bufs EXCEPT ![c] = fed.buf]],
         result |-> [matches |-> ScanLines(fed.lines), oversized |-> fed.oversized,
                     newly |-> fed.newly]]

(* flush_all: the oversized lines that end at the boundary, channel after   *)
(* channel.  The text lines the flush also returns are not admitted.        *)
FlushAll(proc) ==
    FoldLeft(LAMBDA acc, c : acc \o FlushResult(proc.bufs[c]).oversized, <<>>,
             SetToSortSeq(DOMAIN proc.bufs, <))
=============================================================================
