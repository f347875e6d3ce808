------------------------------ MODULE Exchange ------------------------------
(***************************************************************************)
(* One direction of one exchange, from the Records that seals it to the    *)
(* one that opens it.  A request goes from a RequestEncoder to a           *)
(* ServerReader, record by record; a response goes from a ServerWriter to  *)
(* a ResponseDecoder (channel/stream.rs), which is fed any fragmentation.  *)
(*                                                                         *)
(* The network repeats, drops, reorders, splits and damages records, and   *)
(* ends the stream wherever it likes.  Sealing and opening may wait for a  *)
(* platform cipher and be cancelled there.                                 *)
(***************************************************************************)
EXTENDS Records

CONSTANTS
  Sizes,      \* the content sizes callers seal
  MaxCalls    \* bound: seal calls of one writer

ASSUME ExchangeAssumption == Sizes \subseteq Nat /\ MaxCalls \in Nat

VARIABLES
  writer,     \* the sealing Records
  sealing,    \* the seal whose cipher runs: a set of at most one record
  calls,      \* seal calls made so far; a call's number stands for its content
  uses,       \* history: which content each key has been applied to
  sealed,     \* history: the records sealed
  wire,       \* history: their bytes
  reader,     \* the opening Records
  started,    \* whether its first record has been accepted
  decoder,    \* ResponseDecoder: its reader, buffer and finished flag
  opening,    \* whether the decoder waits for the cipher
  emitted,    \* history: the records handed to the consumer
  outcome     \* what finish() or complete() answered

exchangeVars == <<writer, sealing, calls, uses, sealed, wire,
          reader, started, decoder, opening, emitted, outcome>>
sending == <<writer, sealing, calls, uses, sealed, wire>>
receiving == <<reader, started, decoder, opening, emitted, outcome>>

ExchangeInit ==
  /\ \E direction \in Directions : /\ writer = NewRecords(direction)
                                   /\ reader = NewRecords(direction)
  /\ sealing = {} /\ calls = 0 /\ uses = {} /\ sealed = <<>> /\ wire = 0
  /\ started = FALSE
  /\ decoder = [open |-> TRUE, buffer |-> <<>>, finished |-> FALSE]
  /\ opening = FALSE /\ emitted = <<>> /\ outcome = "Open"

Direction == writer.direction

-----------------------------------------------------------------------------
(* The sealing end.                                                        *)

\* seal_async() up to the cipher: a refused record closes the direction.
Seal(kind, size) ==
  /\ sealing = {} /\ calls < MaxCalls
  /\ calls' = calls + 1
  /\ IF SealResult(writer, kind, size) # "Ok"
     THEN /\ writer' = CloseRecords(writer)
          /\ UNCHANGED <<sealing, uses>>
     ELSE LET stepped == NextKey(writer)
          IN  /\ writer' = stepped
              /\ sealing' = {[content |-> calls', kind |-> kind, size |-> size,
                              key |-> stepped.chain]}
              /\ uses' = uses \cup {<<stepped.chain, calls'>>}
  /\ UNCHANGED <<sealed, wire>> /\ UNCHANGED receiving

\* The cipher answered.
SealDone ==
  /\ \E record \in sealing :
       /\ sealed' = Append(sealed, record)
       /\ wire' = wire + EncodedLength(writer, record.size)
       /\ writer' = AdvanceRecords(writer, record.kind, record.size)
  /\ sealing' = {}
  /\ UNCHANGED <<calls, uses>> /\ UNCHANGED receiving

\* The seal is cancelled at the cipher, or the cipher fails: Operation's drop.
SealDroppedUnguarded ==
  /\ sealing # {}
  /\ sealing' = {}
  /\ writer' = [writer EXCEPT
                  !.chain = SubSeq(writer.chain, 1, writer.sequence)]
  /\ UNCHANGED <<calls, uses, sealed, wire>> /\ UNCHANGED receiving
SealDropped ==
  /\ sealing # {}
  /\ sealing' = {}
  /\ writer' = CloseRecords(writer)
  /\ UNCHANGED <<calls, uses, sealed, wire>> /\ UNCHANGED receiving

\* close(), or the writer's drop.
CloseWriter ==
  /\ sealing = {}
  /\ writer' = CloseRecords(writer)
  /\ UNCHANGED <<sealing, calls, uses, sealed, wire>> /\ UNCHANGED receiving

-----------------------------------------------------------------------------
(* The opening end of a request: accept_start and ServerReader.            *)

\* A first record is accepted only if it is metadata; a refused one leaves the
\* number free, and the next candidate is tried from the same secret.
AcceptRequest(i) ==
  /\ Direction = "Request" /\ ~started
  /\ Opens(reader, sealed[i]) /\ sealed[i].kind = "Metadata"
  /\ started' = TRUE
  /\ reader' = AcceptOpen(reader, sealed[i])
  /\ emitted' = Append(emitted, sealed[i])
  /\ UNCHANGED <<decoder, opening, outcome>> /\ UNCHANGED sending

\* ServerReader::open.
ReadRequest(i) ==
  /\ Direction = "Request" /\ started /\ outcome = "Open"
  /\ IF Opens(reader, sealed[i])
     THEN /\ reader' = AcceptOpen(reader, sealed[i])
          /\ emitted' = Append(emitted, sealed[i])
     ELSE reader' = CloseRecords(reader) /\ UNCHANGED emitted
  /\ UNCHANGED <<started, decoder, opening, outcome>> /\ UNCHANGED sending

\* ServerReader::open of bytes that are no record, and ServerReader::close.
CloseReader ==
  /\ Direction = "Request" /\ started /\ outcome = "Open"
  /\ reader' = CloseRecords(reader)
  /\ UNCHANGED <<started, decoder, opening, emitted, outcome>>
  /\ UNCHANGED sending

\* ServerReader::complete, at the end of the upload.
CompleteRequest ==
  /\ Direction = "Request" /\ started /\ outcome = "Open"
  /\ IF reader.phase = "Finished"
     THEN outcome' = "Complete" /\ UNCHANGED reader
     ELSE outcome' = "Truncated" /\ reader' = CloseRecords(reader)
  /\ UNCHANGED <<started, decoder, opening, emitted>> /\ UNCHANGED sending

-----------------------------------------------------------------------------
(* The opening end of a response: ResponseReader in a ResponseDecoder.     *)

\* A record travels as its length prefix and the rest; record 0 stands for
\* bytes nobody sealed.
Pieces == [of : 0 .. Len(sealed), part : {"prefix", "rest"}]

\* close(), which a push that does not complete ends in.
Closed(d) == [d EXCEPT !.open = FALSE, !.buffer = <<>>]

FailDecoder ==
  /\ decoder' = Closed(decoder)
  /\ opening' = FALSE
  /\ reader' = CloseRecords(reader)
  /\ UNCHANGED <<started, emitted>>

Decoding == Direction = "Response" /\ outcome = "Open" /\ decoder.open

\* A frame is a record the writer sealed if both its pieces are that record's.
Frames(prefix, rest) ==
  {sealed[i] : i \in {j \in 1 .. Len(sealed) :
                        /\ prefix = [of |-> j, part |-> "prefix"]
                        /\ rest = [of |-> j, part |-> "rest"]}}

\* The record is handed on, and the buffer cleared for the next one.
EmitRecord(record) ==
  /\ started' = TRUE
  /\ reader' = AcceptOpen(reader, record)
  /\ emitted' = Append(emitted, record)
  /\ decoder' = [decoder EXCEPT !.buffer = <<>>,
                                !.finished = record.kind = "Finished"]
  /\ opening' = FALSE

\* fill() meets the next piece: bytes after the final record fail; a prefix
\* that is not one may still look like a length and be kept.
TakePrefix(piece) ==
  /\ Decoding /\ ~opening /\ decoder.buffer = <<>>
  /\ \/ /\ ~decoder.finished
        /\ decoder' = [decoder EXCEPT !.buffer = <<piece>>]
        /\ UNCHANGED <<reader, started, opening, emitted>>
     \/ /\ decoder.finished \/ piece.of = 0 \/ piece.part = "rest"
        /\ FailDecoder
  /\ UNCHANGED outcome /\ UNCHANGED sending

\* fill() completes a frame.  The first one is opened in place by start(),
\* where the ratchet may refuse it; a later one waits for the cipher.
TakeRest(piece) ==
  /\ Decoding /\ ~opening /\ Len(decoder.buffer) = 1
  /\ IF started
     THEN IF reader.sequence < MaxRecords /\ ~Over(reader)
          THEN /\ decoder' = [decoder EXCEPT !.buffer = Append(@, piece)]
               /\ opening' = TRUE
               /\ UNCHANGED <<reader, started, emitted>>
          ELSE FailDecoder
     ELSE \/ \E record \in Frames(decoder.buffer[1], piece) :
               Opens(reader, record) /\ EmitRecord(record)
          \/ FailDecoder
  /\ UNCHANGED outcome /\ UNCHANGED sending

\* The cipher answered.
OpenDone ==
  /\ opening
  /\ LET records == {f \in Frames(decoder.buffer[1], decoder.buffer[2]) :
                       Opens(reader, f)}
     IN  IF records = {} THEN FailDecoder ELSE \E f \in records : EmitRecord(f)
  /\ UNCHANGED outcome /\ UNCHANGED sending

\* The push is cancelled at the cipher, the cipher fails, or the consumer
\* refuses the record: DecodeOperation's drop.
PushDropped ==
  /\ opening
  /\ FailDecoder
  /\ UNCHANGED outcome /\ UNCHANGED sending

\* finish(), at the end of the outer stream.
FinishResponseWithoutFinal ==
  /\ Direction = "Response" /\ outcome = "Open" /\ ~opening
  /\ outcome' = IF ~decoder.open THEN "Closed"
                ELSE IF decoder.buffer = <<>> /\ started
                THEN "Complete" ELSE "Truncated"
  /\ decoder' = Closed(decoder)
  /\ reader' = CloseRecords(reader)
  /\ UNCHANGED <<started, opening, emitted>> /\ UNCHANGED sending
FinishResponse ==
  /\ Direction = "Response" /\ outcome = "Open" /\ ~opening
  /\ outcome' = IF ~decoder.open THEN "Closed"
                ELSE IF decoder.buffer = <<>> /\ reader.phase = "Finished"
                THEN "Complete" ELSE "Truncated"
  /\ decoder' = Closed(decoder)
  /\ reader' = CloseRecords(reader)
  /\ UNCHANGED <<started, opening, emitted>> /\ UNCHANGED sending

-----------------------------------------------------------------------------
ExchangeNext ==
  \/ \E kind \in Kinds, size \in Sizes : Seal(kind, size)
  \/ SealDone \/ SealDropped \/ CloseWriter
  \/ \E i \in 1 .. Len(sealed) : AcceptRequest(i) \/ ReadRequest(i)
  \/ CloseReader \/ CompleteRequest
  \/ \E piece \in Pieces : TakePrefix(piece) \/ TakeRest(piece)
  \/ OpenDone \/ PushDropped \/ FinishResponse

ExchangeSpec == ExchangeInit /\ [][ExchangeNext]_exchangeVars

-----------------------------------------------------------------------------
(* Properties.                                                             *)

\* Whatever the network repeats, drops, reorders, splits or damages, and wherever an
\* operation is cancelled, what open() and push() hand on is a prefix of what was sealed,
\* each record once and in order; and finish() and complete() succeed only for a whole
\* exchange, everything handed on and the final record sealed, however the stream was cut.
CompletionIsWhole ==
  /\ emitted = SubSeq(sealed, 1, Len(emitted))
  /\ outcome = "Complete" =>
       /\ emitted = sealed
       /\ sealed # <<>> /\ sealed[Len(sealed)].kind = "Finished"

\* A record key is applied to one content only: a seal that is cancelled after
\* next_key() took its key can never be repeated under that key, because the
\* Operation guard closes the direction.
KeyAppliedOnce == \A u, v \in uses : u[1] = v[1] => u[2] = v[2]

\* The wire limits that callers enforce before they allocate cover every
\* stream the writer can produce: full data records bound the number of
\* request records.
WireBounded ==
  /\ wire <= MaxWireBytes(Direction)
  /\ Direction = "Request" => Len(sealed) <= MaxRequestRecords
=============================================================================
