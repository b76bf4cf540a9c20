------------------------------ MODULE Observer ------------------------------
(***************************************************************************)
(* observingReader: internal/gateway/observe.go.  It hands a response on   *)
(* to the client and reads the vendor's usage out of it in passing.  Reads *)
(* cut the response anywhere, so most of its state is what a cut left      *)
(* over.                                                                   *)
(*                                                                         *)
(* A response is a sequence of symbols: the prefix "data:" of a line, its  *)
(* payload, the end of a line, and any other text.  A payload is one       *)
(* symbol, so that it is there as a whole or not at all: JSON that is cut  *)
(* short parses as nothing.  Lines end in a line feed alone.               *)
(***************************************************************************)
EXTENDS Integers, Sequences, SequencesExt

CONSTANTS
  MaxObserved   \* maxObservedBody, in symbols

VARIABLE
  reader        \* the observingReader of the response being copied

Prefix == [kind |-> "data:"]
Nl     == [kind |-> "line end"]
Text   == [kind |-> "text"]

(* A payload: what sort of event it is, and the usage object in it.        *)
Payload(kind, report) == [kind |-> kind, report |-> report]

IsPayload(x) == x \notin {Prefix, Nl, Text}

-----------------------------------------------------------------------------
(***************************************************************************)
(* Lines and events.                                                       *)
(***************************************************************************)

lineEnd        == <<Nl>>
eventSeparator == <<Nl, Nl>>

EndsWith(piece, end) ==
  Len(end) <= Len(piece) /\ SubSeq(piece, Len(piece) - Len(end) + 1, Len(piece)) = end

(* One more symbol: a piece that has its end is whole.                     *)
Cut(cut, x, end) ==
  LET piece == Append(cut.rest, x)
  IN  IF EndsWith(piece, end) THEN [whole |-> Append(cut.whole, piece), rest |-> << >>]
                              ELSE [whole |-> cut.whole, rest |-> piece]

(* s cut after each place where end is, and what is left over.             *)
Pieces(s, end) ==
  FoldLeft(LAMBDA cut, x : Cut(cut, x, end), [whole |-> << >>, rest |-> << >>], s)

(* The payload x that is handed to onEvent or onBody, << >> for nothing.   *)
Observed(x) == IF IsPayload(x) /\ x.kind # "done" THEN <<x>> ELSE << >>

Payloads(s) == FlattenSeq([i \in DOMAIN s |-> Observed(s[i])])

handleLine(line) == IF Len(line) >= 2 /\ line[1] = Prefix THEN Observed(line[2]) ELSE << >>

handleLines(lines) == FlattenSeq([i \in DOMAIN lines |-> handleLine(lines[i])])

DataLines(block) ==
  {i \in 1 .. Len(block) - 1 : /\ i = 1 \/ block[i - 1] = Nl
                               /\ block[i] = Prefix /\ block[i + 1] # Nl}

(* The data of the first line of an event that has any, payload or text.   *)
eventPayload(block) ==
  IF DataLines(block) = {} THEN << >> ELSE <<block[Min(DataLines(block)) + 1]>>

(* IsUsageOnlyEvent: the chunk the gateway's own change to the request     *)
(* brought about.                                                          *)
IsUsageOnlyEvent(payload) == payload.kind = "usage only"

Dropped(block) ==
  LET p == eventPayload(block) IN p # << >> /\ IsUsageOnlyEvent(p[1])

keep(block) == IF Dropped(block) THEN << >> ELSE block
see(block) == Payloads(eventPayload(block))

(* Of a payload: it is all of its line, and the line the last of its event.*)
PayloadEndsEvent(s) ==
  \A i \in DOMAIN s : IsPayload(s[i]) =>
    /\ i > 1 /\ s[i - 1] = Prefix
    /\ i > 2 => s[i - 2] = Nl
    /\ \A j \in {i + 1, i + 2} : j <= Len(s) => s[j] = Nl

(* An event ends between any two lines of data.                            *)
DataLinesApart(s) ==
  \A i, j \in DOMAIN s : i < j /\ s[i] = Prefix /\ s[j] = Prefix =>
    \E k \in i .. j - 1 : s[k] = Nl /\ s[k + 1] = Nl

(* The streams of the vendors: an event of the standard with one line of   *)
(* data, which is the last of its lines and within the cap.                *)
OneDataLine(s) == PayloadEndsEvent(s) /\ DataLinesApart(s)

Kept(blocks) == FlattenSeq([i \in DOMAIN blocks |-> keep(blocks[i])])
Seen(blocks) == FlattenSeq([i \in DOMAIN blocks |-> see(blocks[i])])

-----------------------------------------------------------------------------
(***************************************************************************)
(* The reader.                                                             *)
(***************************************************************************)

(* sent is the history of what the vendor sent, all of which it was going  *)
(* to send.                                                                *)
NewReader(response, streaming, filtering) ==
  [upstream  |-> response,    \* what is still to come
   streaming |-> streaming,
   filtering |-> filtering,   \* drop is set
   pending   |-> << >>,       \* the cut line or event
   out       |-> << >>,       \* kept, and not yet read by the client
   srcErr    |-> "none",      \* how the vendor's body ended
   body      |-> << >>,       \* what accumulate keeps of a body
   truncated |-> FALSE,
   events    |-> << >>,       \* the calls of onEvent and onBody
   done      |-> "no",        \* the one call of onDone
   received  |-> << >>,       \* what the client was given
   ended     |-> FALSE,       \* Read returned an error
   closed    |-> FALSE]

(* onDone, once.                                                           *)
finish(r, complete) ==
  IF r.done # "no" THEN r
  ELSE [r EXCEPT !.done = IF complete THEN "complete" ELSE "cut"]

(* Mutant: a cut line is not carried over to the next read.                *)
MutScanEvents(r, b) ==
  [r EXCEPT !.events = @ \o handleLines(Pieces(b, lineEnd).whole)]

(* A line that outgrew the cap is forgotten, and its rest is a line of its *)
(* own.                                                                    *)
scanEvents(r, b) ==
  LET over  == Len(r.pending) > MaxObserved
      lines == Pieces((IF over THEN << >> ELSE r.pending) \o b, lineEnd)
  IN  [r EXCEPT !.pending   = lines.rest,
                !.truncated = @ \/ over,
                !.events    = @ \o handleLines(lines.whole)]

accumulate(r, b) ==
  IF r.truncated THEN r
  ELSE IF Len(r.body) + Len(b) > MaxObserved THEN [r EXCEPT !.truncated = TRUE, !.body = << >>]
  ELSE [r EXCEPT !.body = @ \o b]

observe(r, b) == IF r.streaming THEN scanEvents(r, b) ELSE accumulate(r, b)

(* The last line may lack its end; a body is parsed as a whole.            *)
flush(r) ==
  IF r.streaming
  THEN [r EXCEPT !.pending = << >>, !.events = @ \o handleLine(r.pending)]
  ELSE [r EXCEPT !.events = @ \o IF r.truncated THEN << >> ELSE Payloads(r.body)]

(* Each event that is whole by now is observed, and kept or withheld.      *)
consumeEvents(r, b) ==
  LET cut == Pieces(r.pending \o b, eventSeparator)
  IN  [r EXCEPT !.pending = cut.rest, !.out = @ \o Kept(cut.whole), !.events = @ \o Seen(cut.whole)]

flushRemainder(r) ==
  [r EXCEPT !.pending = << >>, !.out = @ \o keep(r.pending), !.events = @ \o see(r.pending)]

-----------------------------------------------------------------------------
(***************************************************************************)
(* Steps.  ReverseProxy reads until an error or until the client does not  *)
(* take what it is given, and then closes the body.                        *)
(***************************************************************************)

(* What a read of the vendor's body returns: at most all of what is to     *)
(* come, and then possibly the end of it: a clean one only after all of    *)
(* it, a broken connection at any place.                                   *)
SourceReads(n, err) ==
  /\ err = "eof" => n = Len(reader.upstream)
  /\ err = "none" => n > 0

Reads == 0 .. Len(reader.upstream)
Errs  == {"none", "eof", "reset"}

Taken(n)  == SubSeq(reader.upstream, 1, n)
Source(n) == [reader EXCEPT !.upstream = SubSeq(@, n + 1, Len(@))]

(* Read, without a filter: the bytes go out as they came.                  *)
Read ==
  /\ ~reader.filtering /\ ~reader.ended /\ ~reader.closed
  /\ \E n \in Reads, err \in Errs :
       /\ SourceReads(n, err)
       /\ LET passed == [observe(Source(n), Taken(n)) EXCEPT !.received = @ \o Taken(n),
                                                             !.ended = err # "none"]
          IN  reader' = IF err = "eof" THEN finish(flush(passed), TRUE) ELSE passed

(* The rounds of readFiltered: it reads until an event is kept, and gives  *)
(* the client what it takes of that before it reads again.                 *)
FillFiltered ==
  /\ reader.filtering /\ ~reader.closed
  /\ reader.out = << >> /\ reader.srcErr = "none"
  /\ \E n \in Reads, err \in Errs :
       /\ SourceReads(n, err)
       /\ LET consumed == [consumeEvents(Source(n), Taken(n)) EXCEPT !.srcErr = err]
          IN  reader' = IF err = "none" THEN consumed ELSE flushRemainder(consumed)

TakeFiltered ==
  /\ reader.filtering /\ ~reader.closed
  /\ \E n \in 1 .. Len(reader.out) :
       reader' = [reader EXCEPT !.received = @ \o SubSeq(reader.out, 1, n),
                                !.out = SubSeq(@, n + 1, Len(@))]

EndFiltered ==
  /\ reader.filtering /\ ~reader.ended /\ ~reader.closed
  /\ reader.out = << >> /\ reader.srcErr # "none"
  /\ LET ended == [reader EXCEPT !.ended = TRUE]
     IN  reader' = IF reader.srcErr = "eof" THEN finish(ended, TRUE) ELSE ended

(* Close.  Before the end of the body it means that the client hung up, or *)
(* that the vendor did.                                                    *)
CloseBody ==
  /\ ~reader.closed
  /\ reader' = [finish(reader, reader.srcErr = "eof") EXCEPT !.closed = TRUE]

Copy == Read \/ FillFiltered \/ TakeFiltered \/ EndFiltered \/ CloseBody
=============================================================================
