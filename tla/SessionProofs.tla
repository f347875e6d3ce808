--------------------------- MODULE SessionProofs ---------------------------
(***************************************************************************)
(* Proofs about a session: the records of its exchanges (Exchange), for    *)
(* every limit, every set of sizes and any number of calls; and how it is  *)
(* set up (Setup), for any number of attempts, gateways, dials and root    *)
(* decisions.                                                              *)
(***************************************************************************)
EXTENDS Exchange, Setup, TLAPS

USE ZenonT(5), SMTT(30)

-----------------------------------------------------------------------------
(* Exchange: the key chain and the records of one direction.               *)

\* The chain of a direction that has stepped for its first n records.
Steps(n) == [i \in 1 .. n |-> i - 1]

Phases == {"Metadata", "Body", "Tail", "Finished", "Failed"}
RecordsType == [direction : Directions, phase : Phases, sequence : Nat,
                body : Nat, chain : Seq(Nat)]
RecordType == [content : Nat, kind : Kinds, size : Nat, key : Seq(Nat)]

ExchangeTypeOK ==
  /\ writer \in RecordsType /\ reader \in RecordsType
  /\ sealing \in SUBSET RecordType /\ sealed \in Seq(RecordType)
  /\ calls \in Nat /\ uses \in SUBSET (Seq(Nat) \X Nat) /\ wire \in Nat
  /\ emitted \in Seq(RecordType)
  /\ outcome \in {"Open", "Complete", "Truncated", "Closed"}

\* The writer: while it lives, its chain has stepped once for every record it
\* sealed and for the one in the cipher, which check() has passed; the record
\* sealed i-th has the i-th key; only the last record can be the final one, and
\* it ends the direction.
Sending ==
  /\ sealing # {} =>
       \E r \in RecordType :
         /\ sealing = {r} /\ ~Over(writer)
         /\ Check(writer, r.kind, r.size) = "Ok" /\ r.key = writer.chain
  /\ ~Over(writer) =>
       /\ writer.sequence = Len(sealed)
       /\ writer.chain = Steps(IF sealing = {} THEN Len(sealed) ELSE Len(sealed) + 1)
  /\ \A i \in 1 .. Len(sealed) :
       /\ sealed[i].key = Steps(i)
       /\ sealed[i].kind = "Finished" => i = Len(sealed) /\ Over(writer)

\* No key of a living writer's past is longer than its chain.
KeysPast == ~Over(writer) => \A u \in uses : Len(u[1]) <= Len(writer.chain)

\* The reader: what it handed on is a prefix, its chain has stepped as often,
\* and it is finished, or has completed, on the final record only.
Receiving ==
  /\ Len(emitted) <= Len(sealed)
  /\ \A i \in 1 .. Len(emitted) : emitted[i] = sealed[i]
  /\ ~Over(reader) =>
       /\ reader.sequence = Len(emitted)
       /\ reader.chain = Steps(Len(emitted))
  /\ reader.phase = "Finished" \/ outcome = "Complete" =>
       /\ Over(reader)
       /\ Len(emitted) > 0 /\ sealed[Len(emitted)].kind = "Finished"

\* The bytes of a living writer, by what they are spent on; and the data
\* records of a request, which are full except for the last one.
Spent ==
  ~Over(writer) =>
    /\ writer.body <= MaxBody(Direction) /\ Len(sealed) <= MaxRecords
    /\ wire <= writer.body + (IF writer.phase = "Metadata" THEN 0 ELSE MaxPlaintext)
                 + Len(sealed) * RecordOverhead
                 + (IF Len(sealed) = 0 THEN 0 ELSE 2 + HeaderBytes)
    /\ writer.phase = "Metadata" => writer.body = 0
    /\ writer.phase = "Tail" => Direction = "Request"
    /\ Direction = "Request" =>
         /\ writer.phase = "Metadata" => Len(sealed) = 0
         /\ writer.phase = "Body" =>
              Len(sealed) >= 1 /\ (Len(sealed) - 1) * MaxPlaintext = writer.body
         /\ writer.phase = "Tail" =>
              Len(sealed) >= 2 /\ (Len(sealed) - 2) * MaxPlaintext < writer.body

ExchangeInv == ExchangeTypeOK /\ Sending /\ KeysPast /\ KeyAppliedOnce /\ Receiving /\ Spent /\ WireBounded

-----------------------------------------------------------------------------
(* Operators.                                                              *)

\* A chain is as long as the records it stepped for, and one more step is the
\* next chain.
LEMMA StepsFacts ==
  ASSUME NEW n \in Nat
  PROVE  /\ Steps(n) \in Seq(Nat) /\ Len(Steps(n)) = n
         /\ Append(Steps(n), n) = Steps(n + 1)
<1>1. Steps(n) \in Seq(Nat) /\ Len(Steps(n)) = n BY DEF Steps
<1>2. Append(Steps(n), n) = Steps(n + 1) BY DEF Steps
<1> QED BY <1>1, <1>2

LEMMA NewRecordsTyped ==
  ASSUME NEW d \in Directions
  PROVE  NewRecords(d) \in RecordsType /\ ~Over(NewRecords(d))
BY DEF NewRecords, RecordsType, Phases, Over

LEMMA CloseRecordsFacts ==
  ASSUME NEW r \in RecordsType
  PROVE  /\ CloseRecords(r) \in RecordsType
         /\ CloseRecords(r).phase = "Failed" /\ Over(CloseRecords(r))
         /\ CloseRecords(r).direction = r.direction
<1>1. <<>> \in Seq(Nat) /\ "Failed" \in Phases BY DEF Phases
<1>2. CloseRecords(r) \in RecordsType BY <1>1, ZenonT(30) DEF CloseRecords, RecordsType
<1>3. CloseRecords(r).phase = "Failed" /\ CloseRecords(r).direction = r.direction
  BY DEF CloseRecords, RecordsType
<1> QED BY <1>2, <1>3 DEF Over

\* next_key() steps the chain and nothing else.
LEMMA NextKeyFacts ==
  ASSUME NEW r \in RecordsType
  PROVE  /\ NextKey(r) \in RecordsType
         /\ NextKey(r).phase = r.phase /\ NextKey(r).direction = r.direction
         /\ NextKey(r).sequence = r.sequence /\ NextKey(r).body = r.body
         /\ NextKey(r).chain = Append(r.chain, r.sequence)
<1>1. Append(r.chain, r.sequence) \in Seq(Nat) BY DEF RecordsType
<1>2. NextKey(r) = [r EXCEPT !.chain = Append(r.chain, r.sequence)] BY DEF NextKey
<1>3. /\ NextKey(r).phase = r.phase /\ NextKey(r).direction = r.direction
      /\ NextKey(r).sequence = r.sequence /\ NextKey(r).body = r.body
      /\ NextKey(r).chain = Append(r.chain, r.sequence)
  BY <1>2 DEF RecordsType
<1>4. NextKey(r) \in RecordsType BY <1>1, <1>2, ZenonT(30) DEF RecordsType
<1> QED BY <1>3, <1>4

\* What check() has established of a record it lets through.
LEMMA CheckFacts ==
  ASSUME NEW r \in RecordsType, NEW kind \in Kinds, NEW size \in Nat,
         Check(r, kind, size) = "Ok"
  PROVE  /\ ~Over(r) /\ r.sequence < MaxRecords /\ size <= MaxPlaintext
         /\ kind = "Metadata" => r.phase = "Metadata"
         /\ kind = "Data" => /\ r.phase = "Body" /\ size > 0
                             /\ size + r.body <= MaxBody(r.direction)
         /\ kind = "Finished" => r.phase # "Metadata" /\ size = 0
         /\ kind = "Keepalive" => r.direction = "Response" /\ size = 0
<1>1. MaxBody(r.direction) \in Nat /\ r.body \in Nat /\ r.sequence \in Nat
  BY RecordsAssumption DEF MaxBody, RecordsType
<1>2. MaxRecords \in Nat /\ MaxPlaintext \in Int
  BY RecordsAssumption DEF MaxPlaintext
<1>3. ~Over(r) /\ ~(r.sequence >= MaxRecords \/ size > MaxPlaintext)
  BY ZenonT(30) DEF Check
<1>4. CASE kind = "Metadata" BY <1>1, <1>2, <1>3, <1>4 DEF Check
<1>5. CASE kind = "Data" BY <1>1, <1>2, <1>3, <1>5 DEF Check
<1>6. CASE kind = "Finished" BY <1>1, <1>2, <1>3, <1>6 DEF Check
<1>7. CASE kind = "Keepalive" BY <1>1, <1>2, <1>3, <1>7 DEF Check
<1> QED BY <1>4, <1>5, <1>6, <1>7 DEF Kinds

\* check() reads everything but the chain.
LEMMA CheckIgnoresChain ==
  ASSUME NEW r \in RecordsType, NEW kind, NEW size
  PROVE  Check(NextKey(r), kind, size) = Check(r, kind, size)
BY NextKeyFacts, ZenonT(30) DEF Check, Over

\* advance() counts the record, and only the final one ends the direction.
LEMMA AdvanceFacts ==
  ASSUME NEW r \in RecordsType, NEW kind \in Kinds, NEW size \in Nat, ~Over(r),
         NEW new, new = AdvanceRecords(r, kind, size)
  PROVE  /\ new \in RecordsType /\ new.direction = r.direction
         /\ new.sequence = r.sequence + 1
         /\ new.body = (IF kind = "Data" THEN r.body + size ELSE r.body)
         /\ new.phase # "Failed"
         /\ Over(new) <=> kind = "Finished"
         /\ ~Over(new) => new.chain = r.chain
         /\ kind = "Metadata" => new.phase = "Body"
         /\ kind = "Keepalive" => new.phase = r.phase
         /\ kind = "Data" => new.phase = (IF r.direction = "Request" /\ size < MaxPlaintext
                                         THEN "Tail" ELSE r.phase)
<1> DEFINE phase == CASE kind = "Metadata" -> "Body"
                      [] kind = "Data" ->
                           IF r.direction = "Request" /\ size < MaxPlaintext
                           THEN "Tail" ELSE r.phase
                      [] kind = "Finished" -> "Finished"
                      [] kind = "Keepalive" -> r.phase
           body == IF kind = "Data" THEN r.body + size ELSE r.body
           chain == IF kind = "Finished" THEN <<>> ELSE r.chain
<1>1. new = [r EXCEPT !.sequence = r.sequence + 1, !.body = body, !.phase = phase,
                      !.chain = chain]
  BY DEF AdvanceRecords
<1>2. /\ phase \in Phases \ {"Failed"}
      /\ kind = "Metadata" => phase = "Body"
      /\ kind = "Keepalive" => phase = r.phase
      /\ kind = "Data" => phase = (IF r.direction = "Request" /\ size < MaxPlaintext
                                   THEN "Tail" ELSE r.phase)
  BY DEF RecordsType, Phases, Kinds, Over
<1>3. phase = "Finished" <=> kind = "Finished"
  BY DEF RecordsType, Phases, Kinds, Over
<1>4. /\ body \in Nat /\ chain \in Seq(Nat) /\ r.sequence + 1 \in Nat
      /\ r.direction \in Directions
  BY DEF RecordsType
<1> HIDE DEF phase, body, chain
<1>5. new \in RecordsType BY <1>1, <1>2, <1>4, ZenonT(30) DEF RecordsType
<1>6. /\ new.direction = r.direction /\ new.sequence = r.sequence + 1
      /\ new.body = body /\ new.phase = phase /\ new.chain = chain
  BY <1>1 DEF RecordsType
<1>7. Over(new) <=> kind = "Finished" BY <1>2, <1>3, <1>6 DEF Over
<1> QED BY <1>2, <1>5, <1>6, <1>7 DEF body, chain

\* What both ends of a direction rely on.
LEMMA AdvanceKeeps ==
  ASSUME NEW r \in RecordsType, NEW kind \in Kinds, NEW size \in Nat, ~Over(r)
  PROVE  /\ AdvanceRecords(r, kind, size) \in RecordsType
         /\ AdvanceRecords(r, kind, size).sequence = r.sequence + 1
         /\ Over(AdvanceRecords(r, kind, size)) <=> kind = "Finished"
         /\ ~Over(AdvanceRecords(r, kind, size)) => AdvanceRecords(r, kind, size).chain = r.chain
<1> DEFINE new == AdvanceRecords(r, kind, size)
<1>1. new = AdvanceRecords(r, kind, size) OBVIOUS
<1> HIDE DEF new
<1>2. /\ new \in RecordsType /\ new.sequence = r.sequence + 1
      /\ Over(new) <=> kind = "Finished"
      /\ ~Over(new) => new.chain = r.chain
  BY <1>1, AdvanceFacts
<1> QED BY <1>1, <1>2

-----------------------------------------------------------------------------
(* The receiving end.                                                      *)

\* A record authenticates at one place only: the i-th record is the one the
\* reader opens next.
LEMMA OpensNext ==
  ASSUME ExchangeInv, NEW i \in 1 .. Len(sealed), Opens(reader, sealed[i])
  PROVE  i = Len(emitted) + 1
<1>1. /\ Len(emitted) \in Nat /\ reader.sequence = Len(emitted)
      /\ reader.chain = Steps(Len(emitted))
  BY DEF Opens, ExchangeInv, Receiving, ExchangeTypeOK
<1>2. sealed[i].key = Steps(Len(emitted) + 1)
  <2>1. reader \in RecordsType BY DEF ExchangeInv, ExchangeTypeOK
  <2>2. sealed[i].key = NextKey(reader).chain BY DEF Opens
  <2>3. NextKey(reader).chain = Append(Steps(Len(emitted)), Len(emitted))
    BY <1>1, <2>1, NextKeyFacts
  <2> QED BY <1>1, <2>2, <2>3, StepsFacts, ZenonT(30)
<1>3. sealed[i].key = Steps(i) BY DEF ExchangeInv, Sending
<1>4. i \in Nat BY DEF ExchangeInv, ExchangeTypeOK
<1>5. Len(Steps(i)) = i /\ Len(Steps(Len(emitted) + 1)) = Len(emitted) + 1
  BY <1>1, <1>4, StepsFacts
<1> QED BY <1>2, <1>3, <1>5

\* The reader's part of the state is fine after it has handed a record on.
LEMMA HandOn ==
  ASSUME ExchangeInv, NEW i \in 1 .. Len(sealed), Opens(reader, sealed[i]),
         reader' = AcceptOpen(reader, sealed[i]),
         emitted' = Append(emitted, sealed[i]),
         UNCHANGED <<sealed, outcome>>
  PROVE  Receiving' /\ reader' \in RecordsType /\ emitted' \in Seq(RecordType)
<1> DEFINE n == Len(emitted)
<1>1. i = n + 1 BY OpensNext
<1>2. /\ emitted \in Seq(RecordType) /\ sealed \in Seq(RecordType) /\ n \in Nat
      /\ reader \in RecordsType
  BY DEF ExchangeInv, ExchangeTypeOK
<1>3. sealed[i] \in RecordType BY <1>2
<1>4. sealed[i].kind \in Kinds /\ sealed[i].size \in Nat BY <1>3 DEF RecordType
<1>5. /\ ~Over(reader) /\ reader.sequence = n /\ reader.chain = Steps(n)
      /\ outcome # "Complete"
  BY DEF Opens, ExchangeInv, Receiving
<1>6. /\ NextKey(reader) \in RecordsType /\ ~Over(NextKey(reader))
      /\ NextKey(reader).sequence = n /\ NextKey(reader).chain = Steps(n + 1)
  BY <1>2, <1>5, NextKeyFacts, StepsFacts, ZenonT(30) DEF Over
<1>7. /\ reader' \in RecordsType /\ reader'.sequence = n + 1
      /\ Over(reader') <=> sealed[i].kind = "Finished"
      /\ ~Over(reader') => reader'.chain = Steps(n + 1)
  <2> DEFINE r == NextKey(reader)
             kind == sealed[i].kind
             size == sealed[i].size
  <2>1. reader' = AdvanceRecords(r, kind, size) BY DEF AcceptOpen
  <2>2. /\ r \in RecordsType /\ ~Over(r) /\ kind \in Kinds /\ size \in Nat
        /\ r.sequence = n /\ r.chain = Steps(n + 1)
    BY <1>4, <1>6
  <2> HIDE DEF r, kind, size, n
  <2>3. /\ reader' \in RecordsType /\ reader'.sequence = r.sequence + 1
        /\ Over(reader') <=> kind = "Finished"
        /\ ~Over(reader') => reader'.chain = r.chain
    BY <2>1, <2>2, AdvanceKeeps
  <2> QED BY <2>2, <2>3 DEF kind
<1>8. /\ emitted' \in Seq(RecordType) /\ Len(emitted') = n + 1
      /\ \A j \in 1 .. n + 1 : emitted'[j] = IF j = n + 1 THEN sealed[i] ELSE emitted[j]
  BY <1>2, <1>3
<1>9. \A j \in 1 .. n : emitted[j] = sealed[j] BY DEF ExchangeInv, Receiving
<1>10. \A j \in 1 .. Len(emitted') : emitted'[j] = sealed'[j]
  BY <1>1, <1>8, <1>9
<1>11. Len(emitted') <= Len(sealed') BY <1>1, <1>2, <1>8
<1>12. reader'.phase = "Finished" => Over(reader') BY DEF Over
<1> QED BY <1>1, <1>2, <1>5, <1>7, <1>8, <1>10, <1>11, <1>12 DEF Receiving

\* It is fine after the reader has closed, with whatever answer but a success
\* it does not deserve.
LEMMA CloseDown ==
  ASSUME ExchangeInv, reader' = CloseRecords(reader), UNCHANGED <<sealed, emitted>>,
         outcome' \in {outcome, "Closed", "Truncated"} \/ reader.phase = "Finished"
  PROVE  Receiving' /\ reader' \in RecordsType
<1>1. reader' \in RecordsType /\ reader'.phase = "Failed" /\ Over(reader')
  BY CloseRecordsFacts DEF ExchangeInv, ExchangeTypeOK
<1> QED BY <1>1 DEF ExchangeInv, Receiving

\* A step of the receiving end alone keeps what is said of the sending end.
LEMMA ReceiverStep ==
  ASSUME ExchangeInv, UNCHANGED sending, Receiving',
         reader' \in RecordsType, emitted' \in Seq(RecordType),
         outcome' \in {"Open", "Complete", "Truncated", "Closed"}
  PROVE  ExchangeInv'
<1> USE DEF sending
<1>1. ExchangeTypeOK' BY DEF ExchangeInv, ExchangeTypeOK
<1>2. Sending' /\ KeysPast' /\ KeyAppliedOnce' BY DEF ExchangeInv, Sending, KeysPast, KeyAppliedOnce
<1>3. Spent' /\ WireBounded' BY DEF ExchangeInv, Spent, WireBounded, Direction
<1> QED BY <1>1, <1>2, <1>3 DEF ExchangeInv

LEMMA FramesAreSealed ==
  ASSUME NEW prefix, NEW rest, NEW f \in Frames(prefix, rest)
  PROVE  \E i \in 1 .. Len(sealed) : f = sealed[i]
BY DEF Frames

\* EmitRecord() of a frame that opens, and DecodeOperation's failure.
LEMMA EmitStep ==
  ASSUME ExchangeInv, NEW prefix, NEW rest, NEW f \in Frames(prefix, rest),
         Opens(reader, f), EmitRecord(f), UNCHANGED outcome, UNCHANGED sending
  PROVE  ExchangeInv'
<1>1. PICK i \in 1 .. Len(sealed) : f = sealed[i] BY FramesAreSealed
<1>2. UNCHANGED <<sealed, outcome>> BY DEF sending
<1>3. Receiving' /\ reader' \in RecordsType /\ emitted' \in Seq(RecordType)
  BY <1>1, <1>2, HandOn DEF EmitRecord
<1> QED BY <1>3, ReceiverStep DEF ExchangeInv, ExchangeTypeOK

LEMMA FailStep ==
  ASSUME ExchangeInv, FailDecoder, UNCHANGED outcome, UNCHANGED sending
  PROVE  ExchangeInv'
<1>1. Receiving' /\ reader' \in RecordsType BY CloseDown DEF FailDecoder, sending
<1> QED BY <1>1, ReceiverStep DEF ExchangeInv, ExchangeTypeOK, FailDecoder

LEMMA IdleStep ==
  ASSUME ExchangeInv, UNCHANGED <<reader, emitted, outcome>>, UNCHANGED sending
  PROVE  ExchangeInv'
<1>1. Receiving' BY DEF ExchangeInv, Receiving, sending
<1> QED BY <1>1, ReceiverStep DEF ExchangeInv, ExchangeTypeOK

LEMMA CloseStep ==
  ASSUME ExchangeInv, reader' = CloseRecords(reader), UNCHANGED emitted, UNCHANGED sending,
         \/ outcome' = outcome
         \/ outcome' \in {"Closed", "Truncated"}
         \/ outcome' = "Complete" /\ reader.phase = "Finished"
  PROVE  ExchangeInv'
<1>1. Receiving' /\ reader' \in RecordsType BY CloseDown DEF sending
<1> QED BY <1>1, ReceiverStep DEF ExchangeInv, ExchangeTypeOK

LEMMA AcceptRequestStep ==
  ASSUME ExchangeInv, NEW i \in 1 .. Len(sealed), AcceptRequest(i)
  PROVE  ExchangeInv'
<1>1. Receiving' /\ reader' \in RecordsType /\ emitted' \in Seq(RecordType)
  BY HandOn DEF AcceptRequest, sending
<1> QED BY <1>1, ReceiverStep DEF ExchangeInv, ExchangeTypeOK, AcceptRequest

LEMMA ReadRequestStep ==
  ASSUME ExchangeInv, NEW i \in 1 .. Len(sealed), ReadRequest(i)
  PROVE  ExchangeInv'
<1>1. CASE Opens(reader, sealed[i])
  <2>1. Receiving' /\ reader' \in RecordsType /\ emitted' \in Seq(RecordType)
    BY <1>1, HandOn DEF ReadRequest, sending
  <2> QED BY <2>1, ReceiverStep DEF ExchangeInv, ExchangeTypeOK, ReadRequest
<1>2. CASE ~Opens(reader, sealed[i])
  BY <1>2, CloseStep DEF ReadRequest
<1> QED BY <1>1, <1>2

LEMMA CompleteRequestStep ==
  ASSUME ExchangeInv, CompleteRequest
  PROVE  ExchangeInv'
<1>1. CASE reader.phase = "Finished"
  <2>1. Receiving' BY <1>1, ZenonT(30) DEF CompleteRequest, sending, ExchangeInv, Receiving
  <2> QED BY <1>1, <2>1, ReceiverStep DEF ExchangeInv, ExchangeTypeOK, CompleteRequest
<1>2. CASE reader.phase # "Finished"
  BY <1>2, CloseStep DEF CompleteRequest
<1> QED BY <1>1, <1>2

LEMMA TakeRestStep ==
  ASSUME ExchangeInv, NEW piece, TakeRest(piece)
  PROVE  ExchangeInv'
<1>1. UNCHANGED outcome /\ UNCHANGED sending BY DEF TakeRest
<1>2. CASE FailDecoder BY <1>1, <1>2, FailStep
<1>3. CASE UNCHANGED <<reader, started, emitted>> BY <1>1, <1>3, IdleStep
<1>4. CASE \E record \in Frames(decoder.buffer[1], piece) :
             Opens(reader, record) /\ EmitRecord(record)
  BY <1>1, <1>4, EmitStep
<1> QED BY <1>2, <1>3, <1>4 DEF TakeRest

LEMMA OpenDoneStep ==
  ASSUME ExchangeInv, OpenDone
  PROVE  ExchangeInv'
<1>1. UNCHANGED outcome /\ UNCHANGED sending BY DEF OpenDone
<1>2. CASE FailDecoder BY <1>1, <1>2, FailStep
<1>3. CASE \E f \in Frames(decoder.buffer[1], decoder.buffer[2]) :
             Opens(reader, f) /\ EmitRecord(f)
  BY <1>1, <1>3, EmitStep
<1> QED BY <1>2, <1>3 DEF OpenDone

LEMMA FinishStep ==
  ASSUME ExchangeInv, FinishResponse
  PROVE  ExchangeInv'
<1>1. \/ outcome' \in {"Closed", "Truncated"}
      \/ outcome' = "Complete" /\ reader.phase = "Finished"
  BY DEF FinishResponse
<1> QED BY <1>1, CloseStep DEF FinishResponse

-----------------------------------------------------------------------------
(* The sending end.                                                        *)

\* The writer closes: a refused seal, a cancelled one, close().
LEMMA WriterCloses ==
  ASSUME ExchangeInv, writer' = CloseRecords(writer), sealing' = {}, calls' \in Nat,
         UNCHANGED <<uses, sealed, wire>>, UNCHANGED receiving
  PROVE  ExchangeInv'
<1> USE DEF receiving
<1>1. writer' \in RecordsType /\ Over(writer') /\ writer'.direction = writer.direction
  BY CloseRecordsFacts DEF ExchangeInv, ExchangeTypeOK
<1>2. ExchangeTypeOK' BY <1>1 DEF ExchangeInv, ExchangeTypeOK
<1>3. Sending' BY <1>1, ZenonT(30) DEF ExchangeInv, Sending
<1>4. KeysPast' /\ KeyAppliedOnce' /\ Spent'
  BY <1>1 DEF ExchangeInv, KeysPast, KeyAppliedOnce, Spent
<1>5. Receiving' BY ZenonT(30) DEF ExchangeInv, Receiving
<1>6. WireBounded' BY <1>1 DEF ExchangeInv, WireBounded, Direction
<1> QED BY <1>2, <1>3, <1>4, <1>5, <1>6 DEF ExchangeInv

\* A seal takes a key that no earlier one took: its chain is longer than all
\* of theirs.
LEMMA SealStep ==
  ASSUME ExchangeInv, NEW kind \in Kinds, NEW size \in Sizes, Seal(kind, size)
  PROVE  ExchangeInv'
<1>1. sealing = {} /\ calls' = calls + 1 /\ calls' \in Nat
      /\ UNCHANGED <<sealed, wire>> /\ UNCHANGED receiving
  BY DEF Seal, ExchangeInv, ExchangeTypeOK
<1>2. CASE SealResult(writer, kind, size) # "Ok"
  <2>1. writer' = CloseRecords(writer) /\ sealing' = {} /\ UNCHANGED uses
    BY <1>1, <1>2 DEF Seal
  <2> QED BY <1>1, <2>1, WriterCloses
<1>3. CASE SealResult(writer, kind, size) = "Ok"
  <2> DEFINE key == NextKey(writer).chain
             r == [content |-> calls', kind |-> kind, size |-> size, key |-> key]
  <2>1. /\ writer' = NextKey(writer) /\ sealing' = {r}
        /\ uses' = uses \cup {<<key, calls'>>}
    BY <1>3 DEF Seal
  <2>2. /\ writer \in RecordsType /\ sealed \in Seq(RecordType) /\ size \in Nat
        /\ uses \in SUBSET (Seq(Nat) \X Nat)
    BY ExchangeAssumption DEF ExchangeInv, ExchangeTypeOK
  <2>3. Check(writer, kind, size) = "Ok" BY <1>3 DEF SealResult
  <2>4. ~Over(writer) BY <2>2, <2>3, CheckFacts
  <2>5. writer.sequence = Len(sealed) /\ writer.chain = Steps(Len(sealed))
    BY <1>1, <2>4, ZenonT(30) DEF ExchangeInv, Sending
  <2>6. Len(sealed) \in Nat BY <2>2
  <2>7. key = Steps(Len(sealed) + 1) /\ key \in Seq(Nat) /\ Len(key) = Len(sealed) + 1
    <3>1. key = Append(Steps(Len(sealed)), Len(sealed)) BY <2>2, <2>5, NextKeyFacts
    <3>2. key = Steps(Len(sealed) + 1) BY <2>6, <3>1, StepsFacts, ZenonT(30)
    <3>3. Len(sealed) + 1 \in Nat BY <2>6
    <3> QED BY <3>2, <3>3, StepsFacts
  <2>8. /\ writer' \in RecordsType /\ ~Over(writer') /\ writer'.chain = key
        /\ writer'.phase = writer.phase /\ writer'.body = writer.body
        /\ writer'.direction = writer.direction /\ writer'.sequence = writer.sequence
    BY <2>1, <2>2, <2>4, NextKeyFacts DEF Over
  <2> HIDE DEF key
  <2>9. r \in RecordType BY <1>1, <2>2, <2>7 DEF RecordType
  <2>10. ExchangeTypeOK'
    <3>1. uses' \in SUBSET (Seq(Nat) \X Nat) BY <1>1, <2>1, <2>2, <2>7
    <3> QED BY <1>1, <2>1, <2>8, <2>9, <3>1 DEF ExchangeInv, ExchangeTypeOK, receiving
  <2>11. Check(writer', kind, size) = "Ok" BY <2>1, <2>2, <2>3, CheckIgnoresChain
  <2>12. Sending'
    <3>1. \E q \in RecordType :
            /\ sealing' = {q} /\ ~Over(writer')
            /\ Check(writer', q.kind, q.size) = "Ok" /\ q.key = writer'.chain
      BY <2>1, <2>8, <2>9, <2>11, ZenonT(30)
    <3>2. \A i \in 1 .. Len(sealed) :
            sealed[i].key = Steps(i) /\ sealed[i].kind # "Finished"
      BY <2>4, ZenonT(30) DEF ExchangeInv, Sending
    <3> QED BY <1>1, <2>1, <2>5, <2>7, <2>8, <3>1, <3>2, ZenonT(30) DEF Sending
  <2>13. \A u \in uses : Len(u[1]) <= Len(sealed)
    BY <2>4, <2>5, <2>6, StepsFacts, ZenonT(30) DEF ExchangeInv, KeysPast
  <2>14. KeysPast' /\ KeyAppliedOnce'
    <3>1. \A u \in uses : Len(u[1]) < Len(key)
      <4> TAKE u \in uses
      <4>1. Len(u[1]) \in Nat BY <2>2
      <4> QED BY <4>1, <2>6, <2>7, <2>13
    <3>2. \A u \in uses' : u \in uses \/ (u[1] = key /\ u[2] = calls')
      BY <2>1
    <3>3. KeysPast' BY <2>6, <2>7, <2>8, <3>1, <3>2 DEF KeysPast
    <3>4. \A u \in uses : u[1] # key BY <3>1, <2>6, <2>7
    <3>5. KeyAppliedOnce' BY <3>2, <3>4 DEF ExchangeInv, KeyAppliedOnce
    <3> QED BY <3>3, <3>5
  <2>15. Receiving' BY <1>1, ZenonT(30) DEF ExchangeInv, Receiving, receiving
  <2>16. Spent' /\ WireBounded'
    BY <1>1, <2>4, <2>8 DEF ExchangeInv, Spent, WireBounded, Direction
  <2> QED BY <2>10, <2>12, <2>14, <2>15, <2>16 DEF ExchangeInv
<1> QED BY <1>2, <1>3

\* A product grows with its factors.
LEMMA TimesMonotone ==
  ASSUME NEW a \in Nat, NEW b \in Nat, NEW o \in Nat, a <= b
  PROVE  a * o <= b * o
<1> DEFINE d == b - a
<1>1. d \in Nat /\ b = a + d OBVIOUS
<1>2. b * o = a * o + d * o BY <1>1
<1>3. d * o >= 0 /\ a * o \in Nat BY <1>1
<1> QED BY <1>2, <1>3

\* How many records of size m, all full but the last, a body of at most b needs.
LEMMA RecordsOfBody ==
  ASSUME NEW k \in Nat, NEW b \in Nat, NEW m \in Nat \ {0}, k * m < b + m
  PROVE  k <= (b + m - 1) \div m
<1> DEFINE t == b + m - 1
           q == t \div m
           r == t % m
<1>1. t \in Nat BY m >= 1
<1>2. t = m * q + r /\ q \in Nat /\ r \in 0 .. m - 1 BY <1>1
<1>3. k * m <= t BY <1>1
<1> HIDE DEF q, r
<1>4. CASE k >= q + 1
  <2>1. (q + 1) * m <= k * m BY <1>2, <1>4, TimesMonotone
  <2>2. (q + 1) * m = m * q + m BY <1>2
  <2>3. m * q \in Nat BY <1>2
  <2> QED BY <1>1, <1>2, <1>3, <2>1, <2>2, <2>3
<1>5. CASE k <= q BY <1>5 DEF q
<1> QED BY <1>2, <1>4, <1>5

\* The limits as natural numbers.
LEMMA Limits ==
  ASSUME NEW d \in Directions
  PROVE  /\ MaxPlaintext \in Nat \ {0} /\ MaxBody(d) \in Nat
         /\ {RecordOverhead, HeaderBytes, MaxRecords, MaxRequestBody} \subseteq Nat
         /\ MaxRequestRecords = (MaxRequestBody + MaxPlaintext - 1) \div MaxPlaintext + 2
         /\ (MaxRequestBody + MaxPlaintext - 1) \div MaxPlaintext \in Nat
<1>1. MaxPlaintext \in Nat \ {0} BY RecordsAssumption DEF MaxPlaintext
<1>2. MaxRequestBody + MaxPlaintext - 1 \in Nat BY <1>1, RecordsAssumption
<1>3. (MaxRequestBody + MaxPlaintext - 1) \div MaxPlaintext \in Nat BY <1>1, <1>2
<1> QED BY <1>1, <1>3, RecordsAssumption DEF MaxBody, MaxRequestRecords

\* What one more record adds to the account of a direction: its bytes, and its
\* place among the data records of a request.
LEMMA SpentAfter ==
  ASSUME ExchangeInv, NEW r \in RecordType, sealing = {r},
         writer' = AdvanceRecords(writer, r.kind, r.size),
         wire' = wire + EncodedLength(writer, r.size),
         sealed' = Append(sealed, r)
  PROVE  Spent' /\ WireBounded'
<1> DEFINE n == Len(sealed)
           M == MaxPlaintext
           O == RecordOverhead
           H == HeaderBytes
           B == MaxBody(Direction)
           kind == r.kind
           size == r.size
           body == writer.body
           phase == writer.phase
           Q == (MaxRequestBody + MaxPlaintext - 1) \div MaxPlaintext
<1>1. /\ writer \in RecordsType /\ kind \in Kinds /\ size \in Nat /\ n \in Nat
      /\ wire \in Nat /\ Len(sealed') = n + 1 /\ body \in Nat
      /\ Direction \in Directions
  BY DEF ExchangeInv, ExchangeTypeOK, RecordType, RecordsType, Direction
<1>2. ~Over(writer) /\ Check(writer, kind, size) = "Ok" BY DEF ExchangeInv, Sending
<1>3. writer.sequence = n BY <1>2, ZenonT(30) DEF ExchangeInv, Sending
<1>4. /\ M \in Nat \ {0} /\ B \in Nat /\ O \in Nat /\ H \in Nat /\ Q \in Nat
      /\ MaxRecords \in Nat /\ MaxRequestRecords = Q + 2 /\ MaxRequestBody \in Nat
  BY <1>1, Limits
<1>5. /\ n < MaxRecords /\ size <= M
      /\ kind = "Metadata" => phase = "Metadata"
      /\ kind = "Data" => phase = "Body" /\ size > 0 /\ size + body <= B
      /\ kind = "Finished" => phase # "Metadata" /\ size = 0
      /\ kind = "Keepalive" => Direction = "Response" /\ size = 0
  BY <1>1, <1>2, <1>3, CheckFacts DEF Direction
<1>6. /\ writer' \in RecordsType /\ writer'.direction = writer.direction
      /\ writer'.body = (IF kind = "Data" THEN body + size ELSE body)
      /\ Over(writer') <=> kind = "Finished"
      /\ kind = "Metadata" => writer'.phase = "Body"
      /\ kind = "Keepalive" => writer'.phase = phase
      /\ kind = "Data" => writer'.phase = (IF Direction = "Request" /\ size < M
                                           THEN "Tail" ELSE phase)
  <2>1. writer' = AdvanceRecords(writer, kind, size) OBVIOUS
  <2>2. kind \in Kinds /\ size \in Nat /\ writer \in RecordsType BY <1>1
  <2> HIDE DEF kind, size
  <2>3. /\ writer' \in RecordsType /\ writer'.direction = writer.direction
        /\ Over(writer') <=> kind = "Finished"
    BY <1>2, <2>1, <2>2, AdvanceFacts
  <2>4. writer'.body = (IF kind = "Data" THEN writer.body + size ELSE writer.body)
    BY <1>2, <2>1, <2>2, AdvanceFacts
  <2>5. /\ kind = "Metadata" => writer'.phase = "Body"
        /\ kind = "Keepalive" => writer'.phase = writer.phase
    BY <1>2, <2>1, <2>2, AdvanceFacts
  <2>6. kind = "Data" =>
          writer'.phase = (IF writer.direction = "Request" /\ size < MaxPlaintext
                           THEN "Tail" ELSE writer.phase)
    BY <1>2, <2>1, <2>2, AdvanceFacts
  <2> QED BY <2>3, <2>4, <2>5, <2>6 DEF Direction
<1>7. Direction' = Direction BY <1>6 DEF Direction
<1>8. /\ body <= B /\ n <= MaxRecords
      /\ wire <= body + (IF phase = "Metadata" THEN 0 ELSE M) + n * O
                   + (IF n = 0 THEN 0 ELSE 2 + H)
      /\ phase = "Metadata" => body = 0
      /\ phase = "Tail" => Direction = "Request"
      /\ Direction = "Request" =>
           /\ phase = "Metadata" => n = 0
           /\ phase = "Body" => n >= 1 /\ (n - 1) * M = body
           /\ phase = "Tail" => n >= 2 /\ (n - 2) * M < body
  BY <1>2 DEF ExchangeInv, Spent
<1>9. wire' = wire + O + size + (IF n = 0 THEN 2 + H ELSE 0)
  <2>1. EncodedLength(writer, size) = O + size + IF n = 0 THEN 2 + H ELSE 0
    BY <1>3 DEF EncodedLength
  <2> QED BY <1>1, <1>4, <2>1
<1>10. phase \in Phases \ {"Finished", "Failed"}
  BY <1>1, <1>2 DEF RecordsType, Over
<1>11. Direction = "Request" => B = MaxRequestBody BY DEF MaxBody
<1>12. /\ IF Direction = "Request" THEN MaxWireBytes(Direction) = B + M + MaxRequestRecords * O + 2 + H
          ELSE MaxWireBytes(Direction) = B + M + MaxRecords * O + 2 + H
  BY DEF MaxWireBytes
<1>13. /\ wire' \in Nat
       /\ WireBounded' <=> /\ wire' <= MaxWireBytes(Direction)
                           /\ Direction = "Request" => n + 1 <= MaxRequestRecords
  BY <1>1, <1>4, <1>7, <1>9 DEF WireBounded
<1>14. kind \in {"Metadata", "Data", "Finished", "Keepalive"} BY <1>1 DEF Kinds
<1>15. Spent' <=>
         (kind # "Finished" =>
            /\ writer'.body <= B /\ n + 1 <= MaxRecords
            /\ wire' <= writer'.body + (IF writer'.phase = "Metadata" THEN 0 ELSE M)
                          + (n + 1) * O + (2 + H)
            /\ writer'.phase = "Metadata" => writer'.body = 0
            /\ writer'.phase = "Tail" => Direction = "Request"
            /\ Direction = "Request" =>
                 /\ writer'.phase = "Metadata" => n + 1 = 0
                 /\ writer'.phase = "Body" => n + 1 >= 1 /\ n * M = writer'.body
                 /\ writer'.phase = "Tail" => n + 1 >= 2 /\ (n - 1) * M < writer'.body)
  <2>1. (n + 1) - 1 = n /\ (n + 1) - 2 = n - 1 /\ n + 1 # 0 BY <1>1
  <2> QED BY <1>1, <1>6, <1>7, <2>1 DEF Spent
<1> HIDE DEF n, M, O, H, B, kind, size, body, phase, Q
<1>16. (n + 1) * O = n * O + O /\ n * O \in Nat BY <1>1, <1>4
<1>17. wire' <= writer'.body + (IF kind = "Keepalive" /\ phase = "Metadata" THEN 0 ELSE M)
                  + (n + 1) * O + (2 + H)
  BY <1>1, <1>4, <1>5, <1>6, <1>8, <1>9, <1>14, <1>16
<1>18. writer'.body <= B /\ writer'.body \in Nat
  BY <1>1, <1>4, <1>5, <1>6, <1>8
<1>19. Direction = "Request" => n + 1 <= MaxRequestRecords
  <2> SUFFICES ASSUME Direction = "Request" PROVE n + 1 <= MaxRequestRecords OBVIOUS
  <2>1. CASE n = 0 BY <2>1, <1>4
  <2>2. CASE n > 0
    <3>1. (n - 1) * M < B + M
      <4>1. CASE phase = "Body" BY <4>1, <1>1, <1>4, <1>8
      <4>2. CASE phase = "Tail"
        <5>1. n - 2 \in Nat /\ (n - 2) * M < body BY <4>2, <1>1, <1>8
        <5>2. (n - 1) * M = (n - 2) * M + M BY <5>1, <1>1, <1>4
        <5>3. (n - 2) * M \in Nat BY <5>1, <1>4
        <5> QED BY <5>1, <5>2, <5>3, <1>1, <1>4, <1>8
      <4>3. CASE phase = "Metadata" BY <4>3, <2>2, <1>1, <1>8
      <4> QED BY <4>1, <4>2, <4>3, <1>10 DEF Phases
    <3>2. n - 1 \in Nat /\ B = MaxRequestBody BY <1>1, <1>11, <2>2
    <3>3. n - 1 <= (B + M - 1) \div M BY <3>1, <3>2, <1>4, RecordsOfBody
    <3>4. n - 1 <= Q BY <3>2, <3>3 DEF Q, M
    <3> QED BY <3>4, <1>1, <1>4
  <2> QED BY <2>1, <2>2, <1>1
<1>20. wire' <= MaxWireBytes(Direction)
  <2>1. wire' <= B + M + (n + 1) * O + (2 + H) BY <1>1, <1>4, <1>13, <1>16, <1>17, <1>18
  <2>2. CASE Direction = "Request"
    <3>1. (n + 1) * O <= MaxRequestRecords * O BY <2>2, <1>1, <1>4, <1>19, TimesMonotone
    <3>2. MaxRequestRecords * O \in Nat BY <1>4
    <3> QED BY <2>1, <2>2, <3>1, <3>2, <1>1, <1>4, <1>12, <1>13, <1>16
  <2>3. CASE Direction # "Request"
    <3>1. (n + 1) * O <= MaxRecords * O BY <1>1, <1>4, <1>5, TimesMonotone
    <3>2. MaxRecords * O \in Nat BY <1>4
    <3> QED BY <2>1, <2>3, <3>1, <3>2, <1>1, <1>4, <1>12, <1>13, <1>16
  <2> QED BY <2>2, <2>3
<1>21. WireBounded' BY <1>13, <1>19, <1>20
<1>22. Spent'
  <2> SUFFICES ASSUME kind # "Finished"
               PROVE /\ writer'.body <= B /\ n + 1 <= MaxRecords
                     /\ wire' <= writer'.body
                          + (IF writer'.phase = "Metadata" THEN 0 ELSE M)
                          + (n + 1) * O + (2 + H)
                     /\ writer'.phase = "Metadata" => writer'.body = 0
                     /\ writer'.phase = "Tail" => Direction = "Request"
                     /\ Direction = "Request" =>
                          /\ writer'.phase = "Metadata" => n + 1 = 0
                          /\ writer'.phase = "Body" => n + 1 >= 1 /\ n * M = writer'.body
                          /\ writer'.phase = "Tail" => n + 1 >= 2 /\ (n - 1) * M < writer'.body
    BY <1>15
  <2>1. n * M = (n - 1) * M + M BY <1>1, <1>4
  <2>2. 0 * M = 0 BY <1>4
  <2>3. CASE kind = "Metadata"
    BY <2>2, <2>3, <1>1, <1>4, <1>5, <1>6, <1>8, <1>17, <1>18
  <2>4. CASE kind = "Keepalive"
    BY <2>4, <1>1, <1>4, <1>5, <1>6, <1>8, <1>17, <1>18
  <2>5. CASE kind = "Data"
    BY <2>1, <2>5, <1>1, <1>4, <1>5, <1>6, <1>8, <1>17, <1>18
  <2> QED BY <2>3, <2>4, <2>5, <1>14, ZenonT(30)
<1> QED BY <1>21, <1>22

\* The cipher answered: the record is the next one, under the next key.
LEMMA SealDoneStep ==
  ASSUME ExchangeInv, SealDone
  PROVE  ExchangeInv'
<1>1. PICK r \in RecordType :
        /\ sealing = {r} /\ ~Over(writer)
        /\ Check(writer, r.kind, r.size) = "Ok" /\ r.key = writer.chain
  BY ZenonT(30) DEF SealDone, ExchangeInv, Sending
<1>2. /\ sealed' = Append(sealed, r)
      /\ wire' = wire + EncodedLength(writer, r.size)
      /\ writer' = AdvanceRecords(writer, r.kind, r.size)
      /\ sealing' = {} /\ UNCHANGED <<calls, uses>> /\ UNCHANGED receiving
  BY <1>1, ZenonT(30) DEF SealDone
<1> DEFINE n == Len(sealed)
<1>3. /\ writer \in RecordsType /\ r.kind \in Kinds /\ r.size \in Nat
      /\ sealed \in Seq(RecordType) /\ n \in Nat
  BY DEF ExchangeInv, ExchangeTypeOK, RecordType
<1>4. /\ writer' \in RecordsType /\ writer'.sequence = n + 1
      /\ Over(writer') <=> r.kind = "Finished"
      /\ ~Over(writer') => writer'.chain = writer.chain
  <2>1. writer.sequence = n BY <1>1, ZenonT(30) DEF ExchangeInv, Sending
  <2>2. /\ writer \in RecordsType /\ r.kind \in Kinds /\ r.size \in Nat /\ ~Over(writer)
        /\ writer' = AdvanceRecords(writer, r.kind, r.size)
    BY <1>1, <1>2, <1>3, ZenonT(30)
  <2>3. /\ writer' \in RecordsType /\ writer'.sequence = writer.sequence + 1
        /\ Over(writer') <=> r.kind = "Finished"
        /\ ~Over(writer') => writer'.chain = writer.chain
    BY <2>2, AdvanceKeeps, ZenonT(30)
  <2> QED BY <2>1, <2>3, ZenonT(30)
<1>5. /\ sealed' \in Seq(RecordType) /\ Len(sealed') = n + 1 /\ sealed'[n + 1] = r
      /\ \A i \in 1 .. n : sealed'[i] = sealed[i]
  BY <1>2, <1>3
<1>6. writer.chain = Steps(n + 1) BY <1>1, ZenonT(30) DEF ExchangeInv, Sending
<1>7. \A i \in 1 .. n : sealed[i].key = Steps(i) /\ sealed[i].kind # "Finished"
  BY <1>1, ZenonT(30) DEF ExchangeInv, Sending
<1>8. ExchangeTypeOK'
  <2>1. EncodedLength(writer, r.size) \in Nat
    <3>1. RecordOverhead \in Nat /\ HeaderBytes \in Nat BY RecordsAssumption, ZenonT(30)
    <3>2. r.size \in Nat BY <1>3
    <3> HIDE <1>3
    <3> QED BY <3>1, <3>2 DEF EncodedLength
  <2> QED BY <1>2, <1>4, <1>5, <2>1 DEF ExchangeInv, ExchangeTypeOK, receiving
<1>9. Sending'
  <2>1. \A i \in 1 .. n + 1 :
          /\ sealed'[i].key = Steps(i)
          /\ sealed'[i].kind = "Finished" => i = n + 1 /\ Over(writer')
    <3> TAKE i \in 1 .. n + 1
    <3>1. CASE i = n + 1 BY <3>1, <1>1, <1>4, <1>5, <1>6, ZenonT(30)
    <3>2. CASE i # n + 1
      <4>1. i \in 1 .. n BY <3>2, <1>3
      <4> QED BY <4>1, <1>5, <1>7, ZenonT(30)
    <3> QED BY <3>1, <3>2, ZenonT(30)
  <2> QED BY <2>1, <1>2, <1>4, <1>5, <1>6, ZenonT(30) DEF Sending
<1>10. KeysPast' /\ KeyAppliedOnce'
  BY <1>1, <1>2, <1>4, ZenonT(30) DEF ExchangeInv, KeysPast, KeyAppliedOnce
<1>11. Receiving'
  <2>1. /\ Len(emitted) \in Nat /\ Len(emitted) <= n
        /\ \A i \in 1 .. Len(emitted) : emitted[i] = sealed[i]
    BY DEF ExchangeInv, ExchangeTypeOK, Receiving
  <2>2. reader.phase # "Finished" /\ outcome # "Complete"
    <3> SUFFICES ASSUME reader.phase = "Finished" \/ outcome = "Complete" PROVE FALSE
      OBVIOUS
    <3>1. Len(emitted) > 0 /\ sealed[Len(emitted)].kind = "Finished"
      BY DEF ExchangeInv, Receiving
    <3> QED BY <3>1, <2>1, <1>3, <1>7
  <2>3. ~Over(reader) => reader.sequence = Len(emitted) /\ reader.chain = Steps(Len(emitted))
    BY ZenonT(30) DEF ExchangeInv, Receiving
  <2> QED BY <2>1, <2>2, <2>3, <1>2, <1>3, <1>5 DEF Receiving, receiving
<1>12. Spent' /\ WireBounded' BY <1>1, <1>2, SpentAfter, ZenonT(30)
<1> QED BY <1>8, <1>9, <1>10, <1>11, <1>12 DEF ExchangeInv

-----------------------------------------------------------------------------
(* The theorems.                                                           *)

LEMMA InitExchangeInv == ExchangeInit => ExchangeInv
<1> SUFFICES ASSUME ExchangeInit PROVE ExchangeInv OBVIOUS
<1>1. PICK d \in Directions : writer = NewRecords(d) /\ reader = NewRecords(d)
  BY DEF ExchangeInit
<1>2. /\ writer \in RecordsType /\ reader \in RecordsType
      /\ ~Over(writer) /\ ~Over(reader)
  BY <1>1, NewRecordsTyped
<1>3. /\ writer.sequence = 0 /\ writer.chain = <<>> /\ writer.phase = "Metadata"
      /\ reader.sequence = 0 /\ reader.chain = <<>> /\ reader.phase = "Metadata"
      /\ writer.body = 0 /\ Direction = d
  BY <1>1 DEF NewRecords, Direction
<1>4. Steps(0) = <<>> BY DEF Steps
<1>5. ExchangeTypeOK BY <1>2 DEF ExchangeInit, ExchangeTypeOK
<1>6. Sending BY <1>3, <1>4 DEF ExchangeInit, Sending
<1>7. KeysPast /\ KeyAppliedOnce BY DEF ExchangeInit, KeysPast, KeyAppliedOnce
<1>8. Receiving BY <1>3, <1>4 DEF ExchangeInit, Receiving
<1>9. /\ MaxBody(d) \in Nat /\ MaxPlaintext \in Nat \ {0} /\ MaxRecords \in Nat
      /\ RecordOverhead \in Nat /\ HeaderBytes \in Nat
      /\ MaxRequestRecords \in Nat
  BY Limits
<1>10. MaxRequestRecords * RecordOverhead \in Nat /\ MaxRecords * RecordOverhead \in Nat
  BY <1>9
<1>11. 0 <= MaxWireBytes(d) BY <1>9, <1>10 DEF MaxWireBytes
<1>12. WireBounded BY <1>3, <1>9, <1>11 DEF ExchangeInit, WireBounded
<1>13. Spent
  <2>1. 0 * RecordOverhead = 0 BY <1>9
  <2> QED BY <1>3, <1>9, <2>1 DEF ExchangeInit, Spent
<1> QED BY <1>5, <1>6, <1>7, <1>8, <1>12, <1>13 DEF ExchangeInv

LEMMA NextExchangeInv == ExchangeInv /\ [ExchangeNext]_exchangeVars => ExchangeInv'
<1> SUFFICES ASSUME ExchangeInv, [ExchangeNext]_exchangeVars PROVE ExchangeInv' OBVIOUS
<1>1. ASSUME NEW kind \in Kinds, NEW size \in Sizes, Seal(kind, size) PROVE ExchangeInv'
  BY <1>1, SealStep
<1>2. CASE SealDone BY <1>2, SealDoneStep
<1>3. CASE SealDropped
  BY <1>3, WriterCloses DEF SealDropped, ExchangeInv, ExchangeTypeOK
<1>4. CASE CloseWriter
  BY <1>4, WriterCloses DEF CloseWriter, ExchangeInv, ExchangeTypeOK
<1>5. ASSUME NEW i \in 1 .. Len(sealed), AcceptRequest(i) \/ ReadRequest(i) PROVE ExchangeInv'
  BY <1>5, AcceptRequestStep, ReadRequestStep
<1>6. CASE CloseReader BY <1>6, CloseStep DEF CloseReader
<1>7. CASE CompleteRequest BY <1>7, CompleteRequestStep
<1>8. ASSUME NEW piece \in Pieces, TakePrefix(piece) PROVE ExchangeInv'
  <2>1. UNCHANGED outcome /\ UNCHANGED sending BY <1>8 DEF TakePrefix
  <2>2. CASE FailDecoder BY <2>1, <2>2, FailStep
  <2>3. CASE UNCHANGED <<reader, started, opening, emitted>> BY <2>1, <2>3, IdleStep
  <2> QED BY <1>8, <2>2, <2>3 DEF TakePrefix
<1>9. ASSUME NEW piece \in Pieces, TakeRest(piece) PROVE ExchangeInv'
  BY <1>9, TakeRestStep
<1>10. CASE OpenDone BY <1>10, OpenDoneStep
<1>11. CASE PushDropped BY <1>11, FailStep DEF PushDropped
<1>12. CASE FinishResponse BY <1>12, FinishStep
<1>13. CASE UNCHANGED exchangeVars
  BY <1>13, IdleStep DEF exchangeVars, sending
<1> QED BY <1>1, <1>2, <1>3, <1>4, <1>5, <1>6, <1>7, <1>8, <1>9, <1>10, <1>11, <1>12,
           <1>13 DEF ExchangeNext

LEMMA ExchangeInvariant == ExchangeSpec => []ExchangeInv
BY InitExchangeInv, NextExchangeInv, PTL DEF ExchangeSpec

\* Whatever the network and cancellation do, what open() and push() hand on is
\* a prefix of what was sealed, and complete() and finish() succeed only for
\* the whole of it, final record included.
THEOREM WholeCompletion == ExchangeSpec => []CompletionIsWhole
<1>1. ExchangeInv => CompletionIsWhole
  <2> SUFFICES ASSUME ExchangeInv PROVE CompletionIsWhole OBVIOUS
  <2> DEFINE n == Len(emitted)
  <2>1. /\ emitted \in Seq(RecordType) /\ sealed \in Seq(RecordType) /\ n \in Nat
        /\ n <= Len(sealed) /\ \A i \in 1 .. n : emitted[i] = sealed[i]
    BY DEF ExchangeInv, ExchangeTypeOK, Receiving
  <2>2. emitted = SubSeq(sealed, 1, n) BY <2>1
  <2>3. ASSUME outcome = "Complete"
        PROVE  emitted = sealed /\ sealed # <<>> /\ sealed[Len(sealed)].kind = "Finished"
    <3>1. n > 0 /\ sealed[n].kind = "Finished" BY <2>3 DEF ExchangeInv, Receiving
    <3>2. n \in 1 .. Len(sealed) BY <2>1, <3>1
    <3>3. n = Len(sealed) BY <3>1, <3>2 DEF ExchangeInv, Sending
    <3> QED BY <2>1, <3>1, <3>3
  <2> QED BY <2>2, <2>3 DEF CompletionIsWhole
<1> QED BY <1>1, ExchangeInvariant, PTL

\* No record key is ever applied to two contents, whichever seals are cancelled
\* in the cipher.
THEOREM KeysOnce == ExchangeSpec => []KeyAppliedOnce
BY ExchangeInvariant, PTL DEF ExchangeInv

\* The wire limits cover every stream a writer can produce, for all limits.
THEOREM WireLimits == ExchangeSpec => []WireBounded
BY ExchangeInvariant, PTL DEF ExchangeInv

-----------------------------------------------------------------------------
(* Setup: what an attempt knows of what it holds.                          *)

\* What a suspended or finished attempt knows of what it holds.  The type
\* invariant alone says neither where a retained response came from nor that
\* an appraised peer quoted the challenge of the dial that is finishing.
AttemptInv(a) ==
  LET n == attempt[a]
  IN /\ n.at \in {"new", "sent", "complete"} => n.kind = "e2ee"
     /\ n.at \in {"dial", "hello", "finish"} => n.kind = "tls"
     /\ n.at # "idle" => n.kind \in {"e2ee", "tls"} /\ n.snapshot \in Generations
     /\ n.at = "complete" \/ (n.at = "recover" /\ n.kind = "e2ee") =>
          /\ n.response \in Responses
          /\ {n.response.prefix, n.response.confirmation, n.response.evidence} \subseteq setups
     /\ n.at = "recover" /\ n.kind = "tls" => n.response \in Failures \cup {None}
     /\ n.at = "finish" =>
          /\ n.peer \in Served \cap Approved[n.snapshot]
          /\ Certificate(Challenge(a), n.peer) \in certificates
     /\ n.at = "connected" /\ n.kind = "e2ee" =>
          n.session \in Exports /\ n.session.context.hello = a
     /\ n.at = "connected" /\ n.kind = "tls" => 
          n.session = Certificate(Challenge(a), n.peer)

IInv ==
  /\ TypeOK
  /\ \A s \in setups : s.gateway \in Served
  /\ \A a \in Attempts : AttemptInv(a)

-----------------------------------------------------------------------------

\* A step of attempt a, while the gateways only add to what they have made,
\* leaves what every other attempt knows true.
LEMMA OthersKept ==
  ASSUME IInv, NEW a \in Attempts, NEW r \in AttemptType,
         attempt' = [attempt EXCEPT ![a] = r],
         setups \subseteq setups', certificates \subseteq certificates'
  PROVE  /\ attempt' \in [Attempts -> AttemptType] /\ attempt'[a] = r
         /\ \A b \in Attempts \ {a} : AttemptInv(b)'
<1>1. attempt' \in [Attempts -> AttemptType] /\ attempt'[a] = r
  BY DEF IInv, TypeOK
<1>2. ASSUME NEW b \in Attempts \ {a}
      PROVE  AttemptInv(b)'
  <2>1. attempt'[b] = attempt[b]
    BY DEF IInv, TypeOK
  <2>2. AttemptInv(b)
    BY DEF IInv
  <2> QED BY <2>1, <2>2 DEF AttemptInv, Challenge
<1> QED BY <1>1, <1>2

\* The same for a step that changes no attempt.
LEMMA AllKept ==
  ASSUME IInv, UNCHANGED attempt, setups \subseteq setups', certificates \subseteq certificates'
  PROVE  \A b \in Attempts : AttemptInv(b)'
<1> SUFFICES ASSUME NEW b \in Attempts
             PROVE  AttemptInv(b)'
  OBVIOUS
<1>1. AttemptInv(b)
  BY DEF IInv
<1> QED BY <1>1 DEF AttemptInv, Challenge

\* An attempt's own step preserves the invariant if it preserves its part.
LEMMA OwnStep ==
  ASSUME IInv, NEW a \in Attempts, NEW r \in AttemptType,
         attempt' = [attempt EXCEPT ![a] = r],
         current' \in Generations \cup {None}, UNCHANGED <<root, setups, certificates>>,
         attempt'[a] = r => AttemptInv(a)'
  PROVE  IInv'
<1>1. /\ attempt' \in [Attempts -> AttemptType] /\ attempt'[a] = r
      /\ \A b \in Attempts \ {a} : AttemptInv(b)'
  BY OthersKept, ZenonT(60)
<1>2. TypeOK'
  BY <1>1 DEF IInv, TypeOK
<1> QED BY <1>1, <1>2 DEF IInv

\* recover() returns a generation.
LEMMA BeginStep ==
  ASSUME IInv, NEW a \in Attempts, NEW kind, NEW next, Begin(a, kind, next),
         <<kind, next>> \in {<<"e2ee", "new">>, <<"tls", "dial">>}
  PROVE  IInv'
<1> DEFINE R(s) == [attempt[a] EXCEPT !.kind = kind, !.at = next, !.snapshot = s]
<1>1. PICK s \in Generations : /\ attempt' = [attempt EXCEPT ![a] = R(s)]
                               /\ current' \in Generations \cup {None}
  BY ZenonT(60) DEF Begin, Recovered, IInv, TypeOK
<1>2. attempt[a] \in AttemptType /\ attempt[a].at = "idle"
  BY DEF IInv, TypeOK, Begin
<1>3. R(s) \in AttemptType
  BY <1>2, ZenonT(60) DEF AttemptType
<1>4. ASSUME attempt'[a] = R(s)
      PROVE  AttemptInv(a)'
  BY <1>2, <1>4 DEF AttemptInv, AttemptType
<1> QED BY <1>1, <1>3, <1>4, OwnStep, ZenonT(60) DEF Begin

\* connect()'s hello goes out with a fresh key, and some response comes back.
LEMMA ExchangeStep ==
  ASSUME IInv, NEW a \in Attempts, Hello(a) \/ Receive(a) \/ Fails(a)
  PROVE  IInv'
<1>1. attempt[a] \in AttemptType /\ AttemptInv(a)
  BY DEF IInv, TypeOK
<1>2. CASE Hello(a)
  <2> DEFINE r == [attempt[a] EXCEPT !.at = "sent", !.key = TRUE]
  <2>1. r \in AttemptType /\ attempt' = [attempt EXCEPT ![a] = r]
    BY <1>1, <1>2, ZenonT(60) DEF AttemptType, Hello
  <2>2. ASSUME attempt'[a] = r
        PROVE  AttemptInv(a)'
    <3>1. /\ attempt'[a].at = "sent" /\ attempt'[a].kind = attempt[a].kind
          /\ attempt'[a].snapshot = attempt[a].snapshot
      BY <1>1, <2>2 DEF AttemptType
    <3>2. attempt[a].kind \in {"e2ee"} /\ attempt[a].snapshot \in Generations
      BY <1>1, <1>2 DEF AttemptInv, Hello
    <3> QED BY <3>1, <3>2 DEF AttemptInv
  <2> QED BY <1>2, <2>1, <2>2, OwnStep, ZenonT(60) DEF Hello, IInv, TypeOK
<1>3. CASE Receive(a)
  <2>1. PICK prefix, confirmation, evidence \in setups :
          attempt' = [attempt EXCEPT ![a].at = "complete",
             ![a].response = [prefix |-> prefix, confirmation |-> confirmation,
                              evidence |-> evidence]]
    BY <1>3, ZenonT(60) DEF Receive
  <2> DEFINE m == [prefix |-> prefix, confirmation |-> confirmation, evidence |-> evidence]
             r == [attempt[a] EXCEPT !.at = "complete", !.response = m]
  <2>2. m \in Responses
    BY DEF IInv, TypeOK, Responses
  <2>3. r \in AttemptType /\ attempt' = [attempt EXCEPT ![a] = r]
    BY <1>1, <2>1, <2>2, ZenonT(60) DEF AttemptType
  <2>4. UNCHANGED <<root, current, setups, certificates>> /\ attempt[a].at = "sent"
    BY <1>3 DEF Receive
  <2>5. ASSUME attempt'[a] = r
        PROVE  AttemptInv(a)'
    <3>1. /\ attempt'[a].at = "complete" /\ attempt'[a].kind = attempt[a].kind
          /\ attempt'[a].response = m /\ attempt'[a].snapshot = attempt[a].snapshot
      BY <1>1, <2>5 DEF AttemptType
    <3>2. {m.prefix, m.confirmation, m.evidence} \subseteq setups'
      BY <2>4
    <3>3. attempt[a].kind = "e2ee" /\ attempt[a].snapshot \in Generations
      BY <1>1, <2>4 DEF AttemptInv
    <3> QED BY <2>2, <3>1, <3>2, <3>3 DEF AttemptInv
  <2> QED BY <2>3, <2>4, <2>5, OwnStep, ZenonT(60) DEF IInv, TypeOK
<1>4. CASE Fails(a)
  <2> DEFINE r == [attempt[a] EXCEPT !.at = "failed", !.key = FALSE]
  <2>1. r \in AttemptType /\ attempt' = [attempt EXCEPT ![a] = r]
    BY <1>1, <1>4, ZenonT(60) DEF AttemptType, Fails
  <2>2. ASSUME attempt'[a] = r
        PROVE  AttemptInv(a)'
    <3>1. /\ attempt'[a].at = "failed" /\ attempt'[a].kind = attempt[a].kind
          /\ attempt'[a].snapshot = attempt[a].snapshot
      BY <1>1, <2>2 DEF AttemptType
    <3>2. attempt[a].kind \in {"e2ee", "tls"} /\ attempt[a].snapshot \in Generations
      BY <1>1, <1>4 DEF AttemptInv, Fails
    <3> QED BY <3>1, <3>2 DEF AttemptInv
  <2> QED BY <1>4, <2>1, <2>2, OwnStep, ZenonT(60) DEF Fails, IInv, TypeOK
<1> QED BY <1>2, <1>3, <1>4

\* What complete() establishes: the response is the answer of one gateway to this
\* attempt's hello, and both ends derive the same session from it.
LEMMA CompleteFacts ==
  ASSUME IInv, NEW a \in Attempts, attempt[a].at = "complete",
         Inspect(a), Export(a) = Exported(attempt[a].response.confirmation)
  PROVE  LET s == attempt[a].response.confirmation
         IN /\ s \in setups /\ s.hello = a
            /\ s.gateway = attempt[a].response.evidence.gateway
            /\ Exported(s) = Export(a)
            /\ Export(a) \in Exports /\ Export(a).context.hello = a
<1> DEFINE m == attempt[a].response
<1>1. /\ m \in Responses /\ m.prefix \in setups /\ m.confirmation \in setups
      /\ m.evidence \in setups
  BY DEF IInv, AttemptInv
<1>2. m.evidence.hello = a /\ m.prefix.hello = m.evidence.hello
  BY DEF Inspect, Quoted, TranscriptOf, Transcript
<1>3. m.confirmation = m.prefix /\ Quoted(m.confirmation) = TranscriptOf(a)
  BY DEF Export, Exported
<1>4. m.confirmation.gateway = m.evidence.gateway
  BY <1>3 DEF Quoted, TranscriptOf, Transcript
<1>5. TranscriptOf(a) \in Transcripts /\ TranscriptOf(a).hello = a
  BY <1>1 DEF TranscriptOf, Transcript, Transcripts, Responses, Setups
<1>6. Export(a) \in Exports /\ Export(a).context.hello = a
  BY <1>1, <1>5 DEF Export, Exports, Responses
<1> QED BY <1>1, <1>2, <1>3, <1>4, <1>6

\* complete() preserves the invariant: a session is the exporter's for its own hello.
LEMMA CompleteStep ==
  ASSUME IInv, NEW a \in Attempts, Complete(a)
  PROVE  IInv'
<1> DEFINE m == attempt[a].response
           done == [attempt[a] EXCEPT !.key = FALSE]
           Failed == [done EXCEPT !.at = "failed"]
           Retained == [attempt[a] EXCEPT !.at = "recover"]
           Connected == [done EXCEPT !.at = "connected", !.session = Export(a),
                                     !.peer = m.evidence.gateway]
<1>1. /\ attempt[a] \in AttemptType /\ AttemptInv(a) /\ attempt[a].at = "complete"
      /\ UNCHANGED <<root, current, setups, certificates>>
      /\ current \in Generations \cup {None}
  BY DEF IInv, TypeOK, Complete
<1>2. \/ attempt' = [attempt EXCEPT ![a] = Failed]
      \/ attempt' = [attempt EXCEPT ![a] = Retained]
      \/ /\ attempt' = [attempt EXCEPT ![a] = Connected]
         /\ Inspect(a) /\ Export(a) = Exported(m.confirmation)
  BY ZenonT(60) DEF Complete
<1>3. m \in Responses /\ m.evidence.gateway \in Gateways
  BY <1>1 DEF AttemptInv, Responses, Setups
<1>4. CASE attempt' = [attempt EXCEPT ![a] = Failed]
  <2>1. Failed \in AttemptType
    BY <1>1, ZenonT(60) DEF AttemptType
  <2>2. attempt'[a] = Failed => AttemptInv(a)'
    BY <1>1 DEF AttemptInv, AttemptType
  <2> QED BY <1>1, <1>4, <2>1, <2>2, OwnStep, ZenonT(60)
<1>5. CASE attempt' = [attempt EXCEPT ![a] = Retained]
  <2>1. Retained \in AttemptType
    BY <1>1 DEF AttemptType
  <2>2. attempt'[a] = Retained => AttemptInv(a)'
    BY <1>1 DEF AttemptInv, AttemptType
  <2> QED BY <1>1, <1>5, <2>1, <2>2, OwnStep, ZenonT(60)
<1>6. CASE /\ attempt' = [attempt EXCEPT ![a] = Connected]
           /\ Inspect(a) /\ Export(a) = Exported(m.confirmation)
  <2>1. Export(a) \in Exports /\ Export(a).context.hello = a
    BY <1>1, <1>6, CompleteFacts
  <2>2. Connected \in AttemptType
    BY <1>1, <1>3, <2>1, ZenonT(60) DEF AttemptType
  <2>3. ASSUME attempt'[a] = Connected
        PROVE  AttemptInv(a)'
    <3>1. /\ attempt'[a].at = "connected" /\ attempt'[a].kind = attempt[a].kind
          /\ attempt'[a].snapshot = attempt[a].snapshot /\ attempt'[a].session = Export(a)
      BY <1>1, <2>3 DEF AttemptType
    <3>2. attempt[a].kind = "e2ee" /\ attempt[a].snapshot \in Generations
      BY <1>1 DEF AttemptInv
    <3> QED BY <2>1, <3>1, <3>2 DEF AttemptInv
  <2> QED BY <1>1, <1>6, <2>2, <2>3, OwnStep, ZenonT(60)
<1> QED BY <1>2, <1>4, <1>5, <1>6

\* Recovery gives the attempt another snapshot for what it retained.
LEMMA RecoverStep ==
  ASSUME IInv, NEW a \in Attempts, RecoverSetup(a) \/ RecoverDial(a)
  PROVE  IInv'
<1>1. attempt[a] \in AttemptType /\ AttemptInv(a) /\ attempt[a].at = "recover"
  BY ZenonT(60) DEF IInv, TypeOK, RecoverSetup, RecoverDial
<1>2. CASE RecoverSetup(a)
  <2> DEFINE R(s) == [attempt[a] EXCEPT !.at = "complete", !.snapshot = s, !.recovered = TRUE]
  <2>1. PICK s \in Generations :
          attempt' = [attempt EXCEPT ![a] = R(s)] /\ current' \in Generations \cup {None}
    BY <1>2, ZenonT(60) DEF RecoverSetup, Recovered
  <2>2. R(s) \in AttemptType
    BY <1>1, ZenonT(60) DEF AttemptType
  <2>3. ASSUME attempt'[a] = R(s)
        PROVE  AttemptInv(a)'
    <3>1. /\ attempt'[a].at = "complete" /\ attempt'[a].kind = attempt[a].kind
          /\ attempt'[a].snapshot = s /\ attempt'[a].response = attempt[a].response
      BY <1>1, <2>3 DEF AttemptType
    <3>2. attempt[a].kind = "e2ee" /\ UNCHANGED setups
      BY <1>2, ZenonT(60) DEF RecoverSetup
    <3> QED BY <1>1, <3>1, <3>2 DEF AttemptInv
  <2> QED BY <1>2, <2>1, <2>2, <2>3, OwnStep, ZenonT(60) DEF RecoverSetup
<1>3. CASE RecoverDial(a)
  <2> DEFINE R(s) == [attempt[a] EXCEPT !.at = "dial", !.snapshot = s, !.recovered = TRUE,
                                        !.peer = None]
  <2>1. PICK s \in Generations :
          attempt' = [attempt EXCEPT ![a] = R(s)] /\ current' \in Generations \cup {None}
    BY <1>3, ZenonT(60) DEF RecoverDial, Recovered
  <2>2. R(s) \in AttemptType
    BY <1>1, ZenonT(60) DEF AttemptType
  <2>3. ASSUME attempt'[a] = R(s)
        PROVE  AttemptInv(a)'
    <3>1. /\ attempt'[a].at = "dial" /\ attempt'[a].kind = attempt[a].kind
          /\ attempt'[a].snapshot = s
      BY <1>1, <2>3 DEF AttemptType
    <3>2. attempt[a].kind = "tls"
      BY <1>3, ZenonT(60) DEF RecoverDial
    <3> QED BY <3>1, <3>2 DEF AttemptInv
  <2> QED BY <1>3, <2>1, <2>2, <2>3, OwnStep, ZenonT(60) DEF RecoverDial
<1> QED BY <1>2, <1>3

\* The fields of an attempt that retains a failure.
LEMMA RetainingRecord ==
  ASSUME NEW r \in AttemptType, NEW f
  PROVE  LET n == [r EXCEPT !.at = "recover", !.response = f]
         IN n.at = "recover" /\ n.response = f /\ n.kind = r.kind /\ n.snapshot = r.snapshot
BY DEF AttemptType

\* A verification failure ends the attempt or retains what recovery will check.
LEMMA RejectedStep ==
  ASSUME IInv, NEW a \in Attempts, NEW f \in Failures \cup {None},
         attempt[a].at \in {"dial", "hello", "finish"},
         attempt' = [attempt EXCEPT ![a] = Rejected(a, f)],
         UNCHANGED <<root, current, setups, certificates>>
  PROVE  IInv'
<1>1. attempt[a] \in AttemptType /\ attempt[a].kind = "tls" /\ attempt[a].snapshot \in Generations
  BY DEF IInv, TypeOK, AttemptInv
<1>2. Rejected(a, f) \in AttemptType
  BY <1>1, ZenonT(60) DEF Rejected, AttemptType
<1>3. ASSUME attempt'[a] = Rejected(a, f)
      PROVE  AttemptInv(a)'
  <2>1. /\ attempt'[a].kind = "tls" /\ attempt'[a].snapshot \in Generations
        /\ \/ attempt'[a].at = "failed"
           \/ attempt'[a].at = "recover" /\ attempt'[a].response = f
    <3>1. \/ attempt'[a] = [attempt[a] EXCEPT !.at = "failed"]
          \/ attempt'[a] = [attempt[a] EXCEPT !.at = "recover", !.response = f]
      BY <1>3, ZenonT(60) DEF Rejected
    <3>2. CASE attempt'[a] = [attempt[a] EXCEPT !.at = "failed"]
      BY <1>1, <3>2 DEF AttemptType
    <3>3. CASE attempt'[a] = [attempt[a] EXCEPT !.at = "recover", !.response = f]
      <4> DEFINE n == [attempt[a] EXCEPT !.at = "recover", !.response = f]
      <4>1. /\ n.at = "recover" /\ n.response = f
            /\ n.kind = attempt[a].kind /\ n.snapshot = attempt[a].snapshot
        BY <1>1, RetainingRecord
      <4>2. attempt'[a] = n
        BY <3>3
      <4> HIDE DEF n
      <4> QED BY <1>1, <4>1, <4>2
    <3> QED BY <3>1, <3>2, <3>3
  <2> QED BY <2>1 DEF AttemptInv
<1> QED BY <1>2, <1>3, OwnStep, ZenonT(60) DEF IInv, TypeOK

\* A dial draws a challenge, an accepted certificate quotes that challenge, and the
\* connection's session is that certificate.
LEMMA TlsStep ==
  ASSUME IInv, NEW a \in Attempts, Dial(a) \/ VerifyServerCert(a) \/ Finish(a)
  PROVE  IInv'
<1>1. /\ attempt[a] \in AttemptType /\ AttemptInv(a)
      /\ attempt[a].at \in {"dial", "hello", "finish"}
      /\ UNCHANGED <<root, current, setups, certificates>>
      /\ current \in Generations \cup {None}
  BY ZenonT(60) DEF IInv, TypeOK, Dial, VerifyServerCert, Finish
<1>2. attempt[a].kind = "tls" /\ attempt[a].snapshot \in Generations
  BY <1>1 DEF AttemptInv
<1>3. ASSUME attempt' = [attempt EXCEPT ![a] = Rejected(a, None)]
      PROVE  IInv'
  BY <1>1, <1>3, RejectedStep, ZenonT(60)
<1>4. CASE Dial(a)
  <2> DEFINE r == [attempt[a] EXCEPT !.at = "hello", !.dials = @ + 1]
  <2>1. r \in AttemptType
    <3>1. attempt[a].dials + 1 \in Nat
      BY <1>1 DEF AttemptType
    <3>2. r = [attempt[a] EXCEPT !.at = "hello", !.dials = attempt[a].dials + 1]
      BY <1>1 DEF AttemptType
    <3> HIDE DEF r
    <3> QED BY <1>1, <3>1, <3>2, ZenonT(60) DEF AttemptType
  <2>2. ASSUME attempt'[a] = r
        PROVE  AttemptInv(a)'
    <3>1. /\ attempt'[a].at = "hello" /\ attempt'[a].kind = attempt[a].kind
          /\ attempt'[a].snapshot = attempt[a].snapshot
      BY <1>1, <2>2 DEF AttemptType
    <3> QED BY <1>2, <3>1 DEF AttemptInv
  <2>3. CASE attempt' = [attempt EXCEPT ![a] = r]
    BY <1>1, <2>1, <2>2, <2>3, OwnStep, ZenonT(60)
  <2> QED BY <1>3, <1>4, <2>3, ZenonT(60) DEF Dial
<1>5. CASE VerifyServerCert(a)
  <2> DEFINE R(c) == [attempt[a] EXCEPT !.at = "finish", !.peer = c.gateway]
             F(c) == [certificate |-> c, challenge |-> Challenge(a)]
  <2>1. PICK c \in certificates :
          \/ /\ VerifyNativeCertificate(attempt[a].snapshot, c, Challenge(a))
             /\ attempt' = [attempt EXCEPT ![a] = R(c)]
          \/ attempt' = [attempt EXCEPT ![a] = Rejected(a, F(c))]
    BY <1>5, ZenonT(60) DEF VerifyServerCert
  <2>2. c \in Certificates /\ Challenge(a) \in Challenges
    BY <1>1 DEF IInv, TypeOK, Challenge, Challenges, AttemptType
  <2>3. F(c) \in Failures
    BY <2>2 DEF Failures
  <2>4. CASE attempt' = [attempt EXCEPT ![a] = Rejected(a, F(c))]
    BY <1>1, <2>3, <2>4, RejectedStep, ZenonT(60)
  <2>5. CASE /\ VerifyNativeCertificate(attempt[a].snapshot, c, Challenge(a))
             /\ attempt' = [attempt EXCEPT ![a] = R(c)]
    <3>1. R(c) \in AttemptType
      BY <1>1, <2>2, ZenonT(60) DEF AttemptType, Certificates
    <3>2. c.gateway \in Served \cap Approved[attempt[a].snapshot] /\ c.challenge = Challenge(a)
      BY <2>5 DEF VerifyNativeCertificate, Appraises
    <3>3. Certificate(Challenge(a), c.gateway) \in certificates'
      BY <1>1, <2>2, <3>2 DEF Certificate, Certificates
    <3>4. ASSUME attempt'[a] = R(c)
          PROVE  AttemptInv(a)'
      <4>1. /\ attempt'[a].at = "finish" /\ attempt'[a].kind = attempt[a].kind
            /\ attempt'[a].snapshot = attempt[a].snapshot /\ attempt'[a].peer = c.gateway
            /\ attempt'[a].dials = attempt[a].dials
        BY <1>1, <3>4 DEF AttemptType
      <4> QED BY <1>2, <3>2, <3>3, <4>1 DEF AttemptInv, Challenge
    <3> QED BY <1>1, <2>5, <3>1, <3>4, OwnStep, ZenonT(60)
  <2> QED BY <2>1, <2>4, <2>5
<1>6. CASE Finish(a)
  <2> DEFINE c == Certificate(Challenge(a), attempt[a].peer)
             r == [attempt[a] EXCEPT !.at = "connected", !.session = c]
  <2>1. c \in Certificates
    BY <1>1, <1>6 DEF IInv, TypeOK, AttemptInv, Finish
  <2>2. r \in AttemptType
    BY <1>1, <2>1, ZenonT(60) DEF AttemptType
  <2>3. ASSUME attempt'[a] = r
        PROVE  AttemptInv(a)'
    <3>1. /\ attempt'[a].at = "connected" /\ attempt'[a].kind = attempt[a].kind
          /\ attempt'[a].snapshot = attempt[a].snapshot /\ attempt'[a].session = c
          /\ attempt'[a].peer = attempt[a].peer /\ attempt'[a].dials = attempt[a].dials
      BY <1>1, <2>3 DEF AttemptType
    <3> QED BY <1>2, <3>1 DEF AttemptInv, Challenge
  <2>4. CASE attempt' = [attempt EXCEPT ![a] = r]
    BY <1>1, <2>2, <2>3, <2>4, OwnStep, ZenonT(60)
  <2> QED BY <1>3, <1>6, <2>4, ZenonT(60) DEF Finish
<1> QED BY <1>4, <1>5, <1>6

\* The root's decisions, a refresh and the gateways' answers touch no attempt.
LEMMA PeerStep ==
  ASSUME IInv,
         \/ LearnRoot \/ Refresh
         \/ \E a \in Attempts, g \in Gateways : PrepareServerSetup(g, a) \/ IssueCertificate(g, a)
  PROVE  IInv'
<1>1. CASE LearnRoot \/ Refresh
  <2>1. TypeOK' /\ UNCHANGED <<attempt, setups, certificates>>
    BY <1>1, SetupAssumption DEF LearnRoot, Refresh, IInv, TypeOK, Generations
  <2> QED BY <2>1, AllKept DEF IInv
<1>2. ASSUME NEW a \in Attempts, NEW g \in Gateways, PrepareServerSetup(g, a)
      PROVE  IInv'
  <2>1. UNCHANGED <<root, current, attempt, certificates>>
    BY <1>2 DEF PrepareServerSetup
  <2>2. PICK id \in 1 .. MaxSetups :
          setups' = setups \cup {[hello |-> a, id |-> id, gateway |-> g]}
    BY <1>2, ZenonT(30) DEF PrepareServerSetup
  <2>3. /\ [hello |-> a, id |-> id, gateway |-> g] \in Setups
        /\ [hello |-> a, id |-> id, gateway |-> g].gateway \in Served
    BY <1>2, SetupAssumption DEF Setups, PrepareServerSetup
  <2>4. TypeOK'
    BY <2>1, <2>2, <2>3 DEF IInv, TypeOK
  <2>5. \A x \in setups' : x.gateway \in Served
    BY <2>2, <2>3 DEF IInv
  <2>6. \A b \in Attempts : AttemptInv(b)'
    BY <2>1, <2>2, AllKept
  <2> QED BY <2>4, <2>5, <2>6 DEF IInv
<1>3. ASSUME NEW a \in Attempts, NEW g \in Gateways, IssueCertificate(g, a)
      PROVE  IInv'
  <2>1. /\ certificates' = certificates \cup {Certificate(Challenge(a), g)}
        /\ UNCHANGED <<root, current, attempt, setups>>
    BY <1>3 DEF IssueCertificate
  <2>2. Certificate(Challenge(a), g) \in Certificates
    BY DEF IInv, TypeOK, AttemptType, Challenge, Challenges, Certificate, Certificates
  <2>3. TypeOK'
    BY <2>1, <2>2 DEF IInv, TypeOK
  <2>4. \A b \in Attempts : AttemptInv(b)'
    BY <2>1, AllKept
  <2> QED BY <2>1, <2>3, <2>4 DEF IInv
<1> QED BY <1>1, <1>2, <1>3

\* Every step preserves the invariant.
LEMMA SetupStep ==
  ASSUME IInv, [Next]_vars
  PROVE  IInv'
<1>1. CASE UNCHANGED vars
  <2>1. \A b \in Attempts : AttemptInv(b)'
    BY <1>1, AllKept DEF vars
  <2> QED BY <1>1, <2>1 DEF vars, IInv, TypeOK
<1>2. ASSUME NEW a \in Attempts, Connect(a) \/ ConnectWithEvidence(a)
      PROVE  IInv'
  BY <1>2, BeginStep DEF Connect, ConnectWithEvidence
<1> QED BY <1>1, <1>2, ExchangeStep, CompleteStep, RecoverStep, TlsStep, PeerStep DEF Next

\* The invariant holds throughout.
LEMMA SetupAlways == Spec => []IInv
<1>1. Init => IInv
  <2> SUFFICES ASSUME Init
               PROVE  IInv
    OBVIOUS
  <2>1. NewAttempt \in AttemptType
    BY DEF NewAttempt, AttemptType
  <2>2. TypeOK
    BY <2>1, SetupAssumption DEF Init, TypeOK, Generations
  <2>3. \A a \in Attempts : attempt[a].at = "idle"
    BY ZenonT(30) DEF Init, NewAttempt
  <2>4. \A a \in Attempts : AttemptInv(a)
    BY <2>3, ZenonT(30) DEF AttemptInv
  <2> QED BY <2>2, <2>4 DEF Init, IInv
<1>2. IInv /\ [Next]_vars => IInv'
  BY SetupStep
<1> QED BY <1>1, <1>2, PTL DEF Spec

\* A verification failure does not connect.
LEMMA RejectedIsClosed ==
  ASSUME NEW b \in Attempts, attempt[b] \in AttemptType, NEW f
  PROVE  Rejected(b, f).at # "connected"
<1>1. [attempt[b] EXCEPT !.at = "failed"].at # "connected"
  BY DEF AttemptType
<1>2. [attempt[b] EXCEPT !.at = "recover", !.response = f].at # "connected"
  BY RetainingRecord
<1> QED BY <1>1, <1>2, ZenonT(60) DEF Rejected

\* Only complete() and the end of a TLS handshake establish a channel, and each
\* after its last check.
LEMMA OnlyTwoWays ==
  ASSUME IInv, [Next]_vars, NEW a \in Attempts,
         attempt[a].at # "connected", attempt'[a].at = "connected"
  PROVE  \/ /\ Complete(a) /\ Inspect(a)
            /\ Appraises(attempt[a].snapshot, attempt[a].response.evidence.gateway)
            /\ Export(a) = Exported(attempt[a].response.confirmation)
         \/ Finish(a) /\ RequireCurrentKeys(attempt[a].snapshot)
<1>1. attempt \in [Attempts -> AttemptType]
  BY DEF IInv, TypeOK
<1>2. ASSUME NEW b \in Attempts, \/ Connect(b) \/ ConnectWithEvidence(b) \/ Hello(b) \/ Receive(b)
                                 \/ RecoverSetup(b) \/ RecoverDial(b) \/ Fails(b)
      PROVE  FALSE
  <2>1. CASE Connect(b) \/ ConnectWithEvidence(b)
    BY <1>1, <2>1 DEF Connect, ConnectWithEvidence, Begin, AttemptType
  <2>2. CASE Hello(b)
    BY <1>1, <2>2 DEF Hello, AttemptType
  <2>3. CASE Receive(b)
    BY <1>1, <2>3 DEF Receive, AttemptType
  <2>4. CASE RecoverSetup(b)
    BY <1>1, <2>4 DEF RecoverSetup, AttemptType
  <2>5. CASE RecoverDial(b)
    BY <1>1, <2>5 DEF RecoverDial, AttemptType
  <2>6. CASE Fails(b)
    BY <1>1, <2>6 DEF Fails, AttemptType
  <2> QED BY <1>2, <2>1, <2>2, <2>3, <2>4, <2>5, <2>6
<1>3. ASSUME NEW b \in Attempts, Dial(b) \/ VerifyServerCert(b)
      PROVE  FALSE
  <2>1. ASSUME NEW f, attempt' = [attempt EXCEPT ![b] = Rejected(b, f)]
        PROVE  FALSE
    BY <1>1, <2>1, RejectedIsClosed
  <2>2. ASSUME NEW r, attempt' = [attempt EXCEPT ![b] = r], r.at # "connected"
        PROVE  FALSE
    BY <1>1, <2>2
  <2>3. CASE Dial(b)
    <3>1. [attempt[b] EXCEPT !.at = "hello", !.dials = @ + 1].at # "connected"
      BY <1>1 DEF AttemptType
    <3> QED BY <2>1, <2>2, <2>3, <3>1, ZenonT(60) DEF Dial
  <2>4. CASE VerifyServerCert(b)
    <3>1. \A c : [attempt[b] EXCEPT !.at = "finish", !.peer = c.gateway].at # "connected"
      BY <1>1 DEF AttemptType
    <3> QED BY <2>1, <2>2, <2>4, <3>1, ZenonT(60) DEF VerifyServerCert
  <2> QED BY <1>3, <2>3, <2>4
<1>4. ASSUME NEW b \in Attempts, Finish(b)
      PROVE  b = a /\ RequireCurrentKeys(attempt[a].snapshot)
  BY <1>1, <1>4 DEF Finish, Rejected, AttemptType
<1>5. ASSUME NEW b \in Attempts, Complete(b)
      PROVE  /\ b = a /\ Inspect(a)
             /\ Appraises(attempt[a].snapshot, attempt[a].response.evidence.gateway)
             /\ Export(a) = Exported(attempt[a].response.confirmation)
  BY <1>1, <1>5 DEF Complete, AttemptType
<1>6. ASSUME UNCHANGED attempt PROVE FALSE
  BY <1>6
<1>7. ASSUME NEW b \in Attempts,
             \/ Connect(b) \/ ConnectWithEvidence(b) \/ Hello(b) \/ Receive(b)
             \/ RecoverSetup(b) \/ RecoverDial(b) \/ Fails(b)
             \/ Dial(b) \/ VerifyServerCert(b) \/ Finish(b) \/ Complete(b)
      PROVE  \/ /\ Complete(a) /\ Inspect(a)
                /\ Appraises(attempt[a].snapshot, attempt[a].response.evidence.gateway)
                /\ Export(a) = Exported(attempt[a].response.confirmation)
             \/ Finish(a) /\ RequireCurrentKeys(attempt[a].snapshot)
  BY <1>2, <1>3, <1>4, <1>5, <1>7, ZenonT(60)
<1> QED BY <1>6, <1>7, ZenonT(60) DEF Next, vars, LearnRoot, Refresh, PrepareServerSetup, IssueCertificate

\* An encrypted session is verified when complete() hands it out.
LEMMA CompleteVerifies ==
  ASSUME IInv, NEW a \in Attempts, Complete(a), Inspect(a),
         Appraises(attempt[a].snapshot, attempt[a].response.evidence.gateway),
         Export(a) = Exported(attempt[a].response.confirmation)
  PROVE  Verified(a)
<1> DEFINE m == attempt[a].response
           n == attempt'[a]
<1>1. attempt \in [Attempts -> AttemptType] /\ attempt[a].at = "complete" /\ AttemptInv(a)
  BY DEF IInv, TypeOK, Complete
<1>2. attempt' = [attempt EXCEPT ![a] =
        [attempt[a] EXCEPT !.key = FALSE, !.at = "connected", !.session = Export(a),
                           !.peer = m.evidence.gateway]]
  BY <1>1 DEF Complete, AttemptType
<1>3. /\ n.snapshot = attempt[a].snapshot /\ n.peer = m.evidence.gateway
      /\ n.session = Export(a) /\ n.kind = "e2ee"
  BY <1>1, <1>2 DEF AttemptType, AttemptInv
<1>4. /\ m.confirmation \in setups /\ m.confirmation.hello = a
      /\ m.confirmation.gateway = m.evidence.gateway /\ Exported(m.confirmation) = Export(a)
      /\ Export(a).context.hello = a
  BY <1>1, CompleteFacts
<1>5. m.evidence.gateway \in Served
  BY <1>1 DEF IInv, AttemptInv
<1>6. ASSUME NEW b \in Attempts \ {a}, attempt[b].at = "connected", attempt[b].kind = "e2ee"
      PROVE  attempt[b].session # Export(a)
  BY <1>4, <1>6 DEF IInv, AttemptInv
<1> QED BY <1>3, <1>4, <1>5, <1>6 DEF Verified, Appraises

\* A TLS connection is verified when connect() hands it out.
LEMMA FinishVerifies ==
  ASSUME IInv, NEW a \in Attempts, Finish(a), RequireCurrentKeys(attempt[a].snapshot)
  PROVE  Verified(a)
<1> DEFINE n == attempt'[a]
           c == Certificate(Challenge(a), attempt[a].peer)
<1>1. attempt \in [Attempts -> AttemptType] /\ attempt[a].at = "finish" /\ AttemptInv(a)
  BY DEF IInv, TypeOK, Finish
<1>2. attempt' = [attempt EXCEPT ![a] =
        [attempt[a] EXCEPT !.at = "connected", !.session = c]]
  BY DEF Finish
<1>3. /\ n.snapshot = attempt[a].snapshot /\ n.peer = attempt[a].peer
      /\ n.session = c /\ n.kind = "tls"
  BY <1>1, <1>2 DEF AttemptType, AttemptInv
<1>4. c \in certificates /\ attempt[a].peer \in Served \cap Approved[attempt[a].snapshot]
  BY <1>1 DEF AttemptInv
<1>5. ASSUME NEW b \in Attempts \ {a}, attempt[b].at = "connected", attempt[b].kind = "tls"
      PROVE  attempt[b].session # c
  <2>1. attempt[b].session = Certificate(Challenge(b), attempt[b].peer)
    BY <1>5 DEF IInv, AttemptInv
  <2>2. Challenge(b) # Challenge(a)
    BY DEF Challenge
  <2> QED BY <2>1, <2>2 DEF Certificate
<1> QED BY <1>3, <1>4, <1>5 DEF Verified

\* Every channel that connect() or connect_with_evidence() hands out was verified
\* as a whole, whatever the number of attempts, the responses and certificates
\* that reach them, and the root decisions learned in between.
THEOREM SetupVerified == Spec => EstablishedIsVerified
<1>1. ASSUME IInv, [Next]_vars, NEW a \in Attempts,
             attempt[a].at # "connected", attempt'[a].at = "connected"
      PROVE  Verified(a)
  BY <1>1, OnlyTwoWays, CompleteVerifies, FinishVerifies
<1>2. IInv /\ [Next]_vars =>
        [\A a \in Attempts :
           (attempt[a].at # "connected" /\ attempt'[a].at = "connected") => Verified(a)]_vars
  BY <1>1
<1>3. Spec => [][\A a \in Attempts :
           (attempt[a].at # "connected" /\ attempt'[a].at = "connected") => Verified(a)]_vars
  BY <1>2, SetupAlways, PTL DEF Spec
<1> QED BY <1>3 DEF EstablishedIsVerified

\* The state of the attempts and of the gateways stays well typed.
THEOREM SetupTyped == Spec => []TypeOK
<1>1. IInv => TypeOK
  BY DEF IInv
<1> QED BY <1>1, SetupAlways, PTL

-----------------------------------------------------------------------------
(* Recovery.                                                               *)

\* An attempt that awaits recovery kept what its second check needs: the private key and a
\* transcript that was inspected, or a certificate with the challenge of its own dial.
Retains(a) ==
  attempt[a].at = "recover" =>
    IF attempt[a].kind = "e2ee" THEN Inspect(a)
    ELSE attempt[a].response # None => attempt[a].response.challenge = Challenge(a)
Retaining == \A a \in Attempts : Retains(a)

\* Material is retained where complete() or a TLS handshake fails for the first time, and
\* no other step touches it.
LEMMA RetainsStep ==
  ASSUME IInv, [Next]_vars, NEW a \in Attempts, Retains(a) PROVE Retains(a)'
<1>1. attempt \in [Attempts -> AttemptType] /\ attempt[a] \in AttemptType BY DEF IInv, TypeOK
<1>2. CASE attempt'[a] = attempt[a]
  BY <1>2 DEF Retains, Inspect, Quoted, TranscriptOf, Transcript, Challenge
<1>3. ASSUME NEW r, attempt' = [attempt EXCEPT ![a] = r], r.at # "recover" PROVE Retains(a)'
  BY <1>1, <1>3 DEF Retains
<1>4. ASSUME NEW b \in Attempts, NEW r, attempt' = [attempt EXCEPT ![b] = r], b # a
      PROVE  Retains(a)'
  BY <1>1, <1>2, <1>4
<1>5. ASSUME NEW f, attempt' = [attempt EXCEPT ![a] = Rejected(a, f)],
             attempt[a].kind = "tls", f # None => f.challenge = Challenge(a)
      PROVE  Retains(a)'
  <2>1. CASE attempt[a].recovered
    <3>1. attempt' = [attempt EXCEPT ![a] = [attempt[a] EXCEPT !.at = "failed"]]
      BY <1>5, <2>1 DEF Rejected
    <3>2. [attempt[a] EXCEPT !.at = "failed"].at = "failed" BY <1>1 DEF AttemptType
    <3> QED BY <1>3, <3>1, <3>2, ZenonT(30)
  <2>2. CASE ~attempt[a].recovered
    <3>1. PICK n : n = [attempt[a] EXCEPT !.at = "recover", !.response = f] OBVIOUS
    <3>2. attempt'[a] = n BY <1>1, <1>5, <2>2, <3>1 DEF Rejected
    <3>3. n.kind = "tls" /\ n.response = f BY <1>1, <1>5, <3>1, RetainingRecord
    <3>4. n.dials = attempt[a].dials BY <1>1, <3>1 DEF AttemptType
    <3>5. Challenge(a)' = Challenge(a) BY <3>2, <3>4 DEF Challenge
    <3> QED BY <1>5, <3>2, <3>3, <3>5 DEF Retains
  <2> QED BY <2>1, <2>2
<1>6. CASE Complete(a)
  <2> DEFINE done == [attempt[a] EXCEPT !.key = FALSE]
             n == [attempt[a] EXCEPT !.at = "recover"]
  <2>1. /\ [done EXCEPT !.at = "failed"].at = "failed"
        /\ [done EXCEPT !.at = "connected", !.session = Export(a),
              !.peer = attempt[a].response.evidence.gateway].at = "connected"
    BY <1>1 DEF AttemptType
  <2>2. /\ n.at = "recover" /\ n.kind = attempt[a].kind /\ n.key = attempt[a].key
        /\ n.response = attempt[a].response
    BY <1>1 DEF AttemptType
  <2>3. attempt[a].kind = "e2ee" BY <1>6 DEF Complete, IInv, AttemptInv
  <2>4. \/ attempt' = [attempt EXCEPT ![a] = [done EXCEPT !.at = "failed"]]
        \/ Inspect(a) /\ attempt' = [attempt EXCEPT ![a] = n]
        \/ attempt' = [attempt EXCEPT ![a] =
             [done EXCEPT !.at = "connected", !.session = Export(a),
                          !.peer = attempt[a].response.evidence.gateway]]
    BY <1>6, ZenonT(60) DEF Complete
  <2> HIDE DEF done, n
  <2>5. CASE Inspect(a) /\ attempt' = [attempt EXCEPT ![a] = n]
    <3>1. attempt'[a] = n BY <1>1, <2>5
    <3>2. attempt'[a].key = attempt[a].key /\ attempt'[a].response = attempt[a].response
      BY <2>2, <3>1
    <3>3. Inspect(a)' BY <2>5, <3>2, ZenonT(30) DEF Inspect, Quoted, TranscriptOf, Transcript
    <3> QED BY <2>2, <2>3, <3>1, <3>3 DEF Retains
  <2> QED BY <1>3, <2>1, <2>4, <2>5, ZenonT(30)
<1>7. CASE Dial(a)
  <2>1. attempt[a].kind = "tls" BY <1>7 DEF Dial, IInv, AttemptInv
  <2>2. [attempt[a] EXCEPT !.at = "hello", !.dials = @ + 1].at = "hello"
    BY <1>1 DEF AttemptType
  <2>3. CASE RequireCurrentKeys(attempt[a].snapshot) BY <1>3, <1>7, <2>2, <2>3, ZenonT(30) DEF Dial
  <2>4. CASE ~RequireCurrentKeys(attempt[a].snapshot) BY <1>5, <1>7, <2>1, <2>4, ZenonT(30) DEF Dial
  <2> QED BY <2>3, <2>4
<1>8. CASE VerifyServerCert(a)
  <2>1. attempt[a].kind = "tls" BY <1>8 DEF VerifyServerCert, IInv, AttemptInv
  <2>2. PICK c \in certificates :
          attempt' = [attempt EXCEPT ![a] =
            IF VerifyNativeCertificate(attempt[a].snapshot, c, Challenge(a))
            THEN [attempt[a] EXCEPT !.at = "finish", !.peer = c.gateway]
            ELSE Rejected(a, [certificate |-> c, challenge |-> Challenge(a)])]
    BY <1>8, ZenonT(30) DEF VerifyServerCert
  <2>3. [attempt[a] EXCEPT !.at = "finish", !.peer = c.gateway].at = "finish"
    BY <1>1 DEF AttemptType
  <2>4. PICK f : f = [certificate |-> c, challenge |-> Challenge(a)] BY ZenonT(30)
  <2>5. f.challenge = Challenge(a) BY <2>4
  <2>6. CASE VerifyNativeCertificate(attempt[a].snapshot, c, Challenge(a))
    BY <1>3, <2>2, <2>3, <2>6, ZenonT(30)
  <2>7. CASE ~VerifyNativeCertificate(attempt[a].snapshot, c, Challenge(a))
    <3>1. attempt' = [attempt EXCEPT ![a] = Rejected(a, f)] BY <2>2, <2>4, <2>7
    <3> QED BY <1>5, <2>1, <2>5, <3>1, ZenonT(30)
  <2> QED BY <2>6, <2>7
<1>9. CASE Finish(a)
  <2>1. attempt[a].kind = "tls" BY <1>9 DEF Finish, IInv, AttemptInv
  <2>2. [attempt[a] EXCEPT !.at = "connected",
           !.session = Certificate(Challenge(a), attempt[a].peer)].at = "connected"
    BY <1>1 DEF AttemptType
  <2>3. CASE RequireCurrentKeys(attempt[a].snapshot) BY <1>3, <1>9, <2>2, <2>3, ZenonT(30) DEF Finish
  <2>4. CASE ~RequireCurrentKeys(attempt[a].snapshot) BY <1>5, <1>9, <2>1, <2>4, ZenonT(30) DEF Finish
  <2> QED BY <2>3, <2>4
<1>10. CASE \/ Connect(a) \/ ConnectWithEvidence(a) \/ Hello(a) \/ Receive(a)
            \/ RecoverSetup(a) \/ RecoverDial(a) \/ Fails(a)
  <2>1. CASE Connect(a) \/ ConnectWithEvidence(a)
    BY <1>1, <2>1 DEF Connect, ConnectWithEvidence, Begin, AttemptType, Retains
  <2>2. CASE Hello(a) BY <1>1, <2>2 DEF Hello, AttemptType, Retains
  <2>3. CASE Receive(a) BY <1>1, <2>3 DEF Receive, AttemptType, Retains
  <2>4. CASE RecoverSetup(a) BY <1>1, <2>4 DEF RecoverSetup, AttemptType, Retains
  <2>5. CASE RecoverDial(a) BY <1>1, <2>5 DEF RecoverDial, AttemptType, Retains
  <2>6. CASE Fails(a) BY <1>1, <2>6 DEF Fails, AttemptType, Retains
  <2> QED BY <1>10, <2>1, <2>2, <2>3, <2>4, <2>5, <2>6
<1>11. CASE UNCHANGED attempt BY <1>2, <1>11
<1>12. ASSUME NEW b \in Attempts, b # a,
              \/ Connect(b) \/ Hello(b) \/ Receive(b) \/ Complete(b) \/ RecoverSetup(b)
              \/ ConnectWithEvidence(b) \/ Dial(b) \/ VerifyServerCert(b) \/ Finish(b)
              \/ RecoverDial(b) \/ Fails(b)
       PROVE  attempt'[a] = attempt[a]
  <2>1. CASE Connect(b) \/ ConnectWithEvidence(b)
    BY <1>1, <1>12, <2>1 DEF Connect, ConnectWithEvidence, Begin
  <2>2. CASE Hello(b) \/ Receive(b) \/ Fails(b)
    BY <1>1, <1>12, <2>2 DEF Hello, Receive, Fails
  <2>3. CASE RecoverSetup(b) BY <1>1, <1>12, <2>3, ZenonT(30) DEF RecoverSetup
  <2>4. CASE RecoverDial(b) BY <1>1, <1>12, <2>4, ZenonT(30) DEF RecoverDial
  <2>5. CASE Complete(b)
    <3>1. \E r : attempt' = [attempt EXCEPT ![b] = r] BY <2>5, ZenonT(60) DEF Complete
    <3> QED BY <1>1, <1>12, <3>1
  <2>6. CASE Dial(b) \/ Finish(b)
    <3>1. \E r : attempt' = [attempt EXCEPT ![b] = r] BY <2>6, ZenonT(60) DEF Dial, Finish
    <3> QED BY <1>1, <1>12, <3>1
  <2>7. CASE VerifyServerCert(b)
    <3>1. \E r : attempt' = [attempt EXCEPT ![b] = r] BY <2>7, ZenonT(60) DEF VerifyServerCert
    <3> QED BY <1>1, <1>12, <3>1
  <2> QED BY <1>12, <2>1, <2>2, <2>3, <2>4, <2>5, <2>6, <2>7
<1>13. CASE Next
  <2>1. CASE LearnRoot \/ Refresh BY <1>11, <2>1 DEF LearnRoot, Refresh
  <2>2. ASSUME NEW b \in Attempts, NEW g, PrepareServerSetup(g, b) \/ IssueCertificate(g, b)
        PROVE  Retains(a)'
    BY <1>11, <2>2 DEF PrepareServerSetup, IssueCertificate
  <2>3. ASSUME NEW b \in Attempts,
               \/ Connect(b) \/ Hello(b) \/ Receive(b) \/ Complete(b) \/ RecoverSetup(b)
               \/ ConnectWithEvidence(b) \/ Dial(b) \/ VerifyServerCert(b) \/ Finish(b)
               \/ RecoverDial(b) \/ Fails(b)
        PROVE  Retains(a)'
    <3>1. CASE b = a BY <1>6, <1>7, <1>8, <1>9, <1>10, <2>3, <3>1
    <3>2. CASE b # a BY <1>2, <1>12, <2>3, <3>2
    <3> QED BY <3>1, <3>2
  <2> QED BY <1>13, <2>1, <2>2, <2>3 DEF Next
<1> QED BY <1>11, <1>13 DEF vars

\* As long as the latest snapshot approves the boot, what an attempt retained for recovery
\* passes against it, however many attempts and root decisions come between (Attempt's
\* check() and VerificationFailure::check()): no second setup is needed to find out.
THEOREM RecoverySucceeds == Spec => []RecoveryCanSucceed
<1>1. Init => Retaining BY DEF Init, NewAttempt, Retains, Retaining
<1>2. IInv /\ Retaining /\ [Next]_vars => Retaining' BY RetainsStep DEF Retaining
<1>3. IInv /\ Retaining => RecoveryCanSucceed
  <2> SUFFICES ASSUME IInv, Retaining, NEW a \in Attempts,
                      attempt[a].at = "recover"
               PROVE  LET r == attempt[a].response
                      IN IF attempt[a].kind = "e2ee"
                         THEN r.evidence.gateway \in Approved[root] => CheckEvidence(a, root)
                         ELSE (r # None /\ r.certificate.challenge = Challenge(a)
                                 /\ r.certificate.gateway \in Served \cap Approved[root])
                              => CheckFailure(a, root)
    BY DEF RecoveryCanSucceed
  <2>1. Retains(a) /\ RequireCurrentKeys(root) BY DEF RequireCurrentKeys, Retaining
  <2>2. CASE attempt[a].kind = "e2ee"
    BY <2>1, <2>2 DEF Retains, CheckEvidence, Appraises
  <2>3. CASE attempt[a].kind # "e2ee"
    BY <2>1, <2>3 DEF Retains, CheckFailure, VerifyNativeCertificate, Appraises
  <2> QED BY <2>2, <2>3, ZenonT(30)
<1> QED BY <1>1, <1>2, <1>3, SetupAlways, PTL DEF Spec
=============================================================================
