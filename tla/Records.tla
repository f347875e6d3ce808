------------------------------- MODULE Records -------------------------------
(***************************************************************************)
(* One direction of an encrypted exchange (channel/record.rs): the order,  *)
(* the sizes and the keys of its records, as operators on the fields of    *)
(* Records.  The sealing end and the opening end run the same rules.       *)
(*                                                                         *)
(* A chain (record/keys.rs) is the list of record numbers it was stepped   *)
(* with; the key a step releases is named by the chain it leaves, so two   *)
(* keys are equal only if all their steps were.                            *)
(***************************************************************************)
EXTENDS Integers, Sequences

CONSTANTS
  MaxRecordBytes,   \* MAX_RECORD_BYTES, 64 KiB in the code
  RecordOverhead,   \* RECORD_OVERHEAD: length prefix, kind and tag
  HeaderBytes,      \* HEADER_BYTES, the ratchet header of a first record
  MaxRecords,       \* MAX_RECORDS, 2^24 in the code
  MaxRequestBody,   \* MAX_REQUEST_BODY, 128 MiB in the code
  MaxResponseBody   \* MAX_RESPONSE_BODY, 64 MiB in the code

MaxPlaintext == MaxRecordBytes - RecordOverhead

ASSUME RecordsAssumption ==
  /\ {MaxRecordBytes, RecordOverhead, HeaderBytes} \subseteq Nat
  /\ {MaxRecords, MaxRequestBody, MaxResponseBody} \subseteq Nat
  /\ MaxPlaintext > 0

Kinds == {"Metadata", "Data", "Finished", "Keepalive"}
Directions == {"Request", "Response"}

MaxBody(direction) ==
  IF direction = "Request" THEN MaxRequestBody ELSE MaxResponseBody

\* Only the last data record of a request may be short, hence the count.
MaxRequestRecords == (MaxRequestBody + MaxPlaintext - 1) \div MaxPlaintext + 2

\* MAX_REQUEST_WIRE_BYTES without the fixed dispatch prefix, and
\* MAX_RESPONSE_WIRE_BYTES.
MaxWireBytes(direction) ==
  LET records == IF direction = "Request" THEN MaxRequestRecords ELSE MaxRecords
  IN  MaxBody(direction) + MaxPlaintext + records * RecordOverhead
        + 2 + HeaderBytes

NewRecords(direction) ==
  [direction |-> direction, phase |-> "Metadata", sequence |-> 0, body |-> 0,
   chain |-> <<>>]

Over(r) == r.phase \in {"Finished", "Failed"}

\* check(): may a record of this kind and size come next?
Check(r, kind, size) ==
  LET misplaced ==
        CASE kind = "Metadata" -> r.phase # "Metadata" \/ size = 0
          [] kind = "Data" -> r.phase # "Body" \/ size = 0
          [] kind = "Finished" -> r.phase = "Metadata" \/ size # 0
          [] kind = "Keepalive" -> r.direction # "Response" \/ size # 0
  IN  IF Over(r) THEN "Closed"
      ELSE IF r.sequence >= MaxRecords \/ size > MaxPlaintext THEN "Limit"
      ELSE IF misplaced THEN "Record"
      ELSE IF kind = "Data" /\ size > MaxBody(r.direction) - r.body THEN "Limit"
      ELSE "Ok"

\* encode(): the length of the record; the first one carries the header.
EncodedLength(r, size) ==
  RecordOverhead + size + IF r.sequence = 0 THEN 2 + HeaderBytes ELSE 0

SealResult(r, kind, size) ==
  IF Check(r, kind, size) # "Ok" THEN Check(r, kind, size)
  ELSE IF EncodedLength(r, size) > MaxRecordBytes THEN "Limit" ELSE "Ok"

\* next_key(): the chain steps before the cipher runs.
NextKey(r) == [r EXCEPT !.chain = Append(r.chain, r.sequence)]

\* advance(), after the cipher has run; the keys go with the last record.
AdvanceWithoutTail(r, kind, size) ==
  [r EXCEPT !.sequence = r.sequence + 1,
            !.body = IF kind = "Data" THEN r.body + size ELSE r.body,
            !.phase = CASE kind = "Metadata" -> "Body"
                        [] kind = "Finished" -> "Finished"
                        [] OTHER -> r.phase,
            !.chain = IF kind = "Finished" THEN <<>> ELSE r.chain]
AdvanceRecords(r, kind, size) ==
  LET short == r.direction = "Request" /\ size < MaxPlaintext
  IN  [r EXCEPT !.sequence = r.sequence + 1,
                !.body = IF kind = "Data" THEN r.body + size ELSE r.body,
                !.phase = CASE kind = "Metadata" -> "Body"
                            [] kind = "Data" -> IF short THEN "Tail" ELSE r.phase
                            [] kind = "Finished" -> "Finished"
                            [] kind = "Keepalive" -> r.phase,
                !.chain = IF kind = "Finished" THEN <<>> ELSE r.chain]

\* close(), which every operation that does not complete ends in.
CloseRecords(r) ==
  [r EXCEPT !.phase = "Failed", !.chain = <<>>]

\* open(): a record is authentic under exactly the key it was sealed with;
\* what authenticates must still be allowed here.
OpensAnyRecord(r, record) == Check(r, record.kind, record.size) = "Ok"
Opens(r, record) ==
  /\ ~Over(r) /\ r.sequence < MaxRecords
  /\ record.key = NextKey(r).chain
  /\ Check(r, record.kind, record.size) = "Ok"

AcceptOpen(r, record) == AdvanceRecords(NextKey(r), record.kind, record.size)
=============================================================================
