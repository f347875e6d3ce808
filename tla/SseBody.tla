------------------------------ MODULE SseBody ------------------------------
(***************************************************************************)
(* The SSE receipt filter (receipt/http.rs).  A stream is a sequence of    *)
(* bytes of a reduced alphabet: "n" is the newline, and each prefix the    *)
(* filter looks for is a few bytes long and shares its beginning with      *)
(* ordinary events, as the real ones do.                                   *)
(***************************************************************************)
EXTENDS Naturals, Sequences, FiniteSetsExt, SequencesExt

CONSTANTS
  MaxProofBytes,    \* MAX_PROOF_BYTES
  MaxStreamBytes,   \* the byte limit of push()
  PartBytes,        \* the pieces in which push() copies a chunk
  None

ReceiptPrefix == <<"c", "r">>
ChatPrefix == <<"d", "t">>
ResponsesPrefix == <<"e", "f", "n">>
IncompletePrefix == <<"e", "g", "n">>
EventEnd == <<"n", "n">>
Keepalive == <<"c", "k", "n", "n">>

NewBody(required) ==
  [hashed |-> <<>>, buffer |-> <<>>, state |-> "Boundary", proof |-> None, frame |-> None,
   failed |-> FALSE, received |-> 0, required |-> required]

\* find_bytes(bytes, SSE_EVENT_END): where the first event in bytes ends.
EventEnds(bytes) == {i \in 2..Len(bytes) : SubSeq(bytes, i - 1, i) = EventEnd}
HasEnd(bytes) == EventEnds(bytes) # {}
EndOf(bytes) == Min(EventEnds(bytes))

BoundaryKind ==
  <<[prefix |-> ReceiptPrefix, kind |-> "Receipt"],
    [prefix |-> Keepalive, kind |-> "Keepalive"],
    [prefix |-> ChatPrefix, kind |-> "ChatTerminal"],
    [prefix |-> ResponsesPrefix, kind |-> "ResponsesTerminal"],
    [prefix |-> IncompletePrefix, kind |-> "ResponsesTerminal"]>>

Classify(buffer) ==
  LET found == SelectSeq(BoundaryKind, LAMBDA b : IsPrefix(b.prefix, buffer))
  IN IF found # <<>> THEN Head(found).kind
     ELSE IF \E i \in DOMAIN BoundaryKind : IsPrefix(buffer, BoundaryKind[i].prefix)
          THEN "NeedMore" ELSE "Regular"

(***************************************************************************)
(* One turn of push_part()'s loop takes r = [body, output, action] to the  *)
(* next one; "Fail" is an error return.                                    *)
(***************************************************************************)
Stop(r) == [r EXCEPT !.action = "Stop"]
Fail(r) == [r EXCEPT !.action = "Fail"]
Enter(r, state) == [r EXCEPT !.body.state = state]

\* take_buffer_prefix(): the taken bytes are a SubSeq of the buffer before.
Drop(r, length) ==
  [r EXCEPT !.body.buffer = SubSeq(@, length + 1, Len(@))]
Emit(r, bytes) == [r EXCEPT !.output = Append(@, bytes)]
Hash(r, bytes) == [r EXCEPT !.body.hashed = @ \o bytes]
HashAndForward(r, length) ==
  LET bytes == SubSeq(r.body.buffer, 1, length)
  IN Drop(Emit(Hash(r, bytes), bytes), length)

SafeIncompleteAll(buffer) == Len(buffer)
SafeIncompleteLength(buffer) ==
  IF buffer # <<>> /\ Last(buffer) = "n" THEN Len(buffer) - 1 ELSE Len(buffer)
ForwardSafe(r) ==
  LET safe == SafeIncompleteLength(r.body.buffer)
  IN Stop(IF safe > 0 THEN HashAndForward(r, safe) ELSE r)

BeginTerminal(r, state) ==
  IF r.body.frame # None
  THEN Enter([Emit(r, r.body.frame) EXCEPT !.body.frame = None], state)
  ELSE IF r.body.required THEN Fail(r) ELSE Enter(r, state)

PushBoundary(r) ==
  LET kind == Classify(r.body.buffer)
  IN CASE r.body.buffer = <<>> \/ kind = "NeedMore" -> Stop(r)
       [] kind \in {"ChatTerminal", "ResponsesTerminal"} -> BeginTerminal(r, kind)
       [] OTHER -> IF r.body.proof # None THEN Fail(r) ELSE Enter(r, kind)

PushRegular(r) ==
  IF HasEnd(r.body.buffer)
  THEN Enter(HashAndForward(r, EndOf(r.body.buffer)), "Boundary")
  ELSE ForwardSafe(r)

PushKeepalive(r) ==
  Enter(Drop(Emit(r, SubSeq(r.body.buffer, 1, Len(Keepalive))), Len(Keepalive)), "Boundary")

PushReceipt(r) ==
  LET buffer == r.body.buffer
      end == EndOf(buffer)
      proof == SubSeq(buffer, Len(ReceiptPrefix) + 1, end - Len(EventEnd))
  IN IF ~HasEnd(buffer)
     THEN IF Len(buffer) > Len(ReceiptPrefix) + MaxProofBytes + Len(EventEnd)
          THEN Fail(r) ELSE Stop(r)
     ELSE IF proof = <<>> \/ Len(proof) > MaxProofBytes \/ Contains(proof, "n")
          THEN Fail(r)
          ELSE Enter([Drop(r, end) EXCEPT !.body.proof = proof,
                                          !.body.frame = SubSeq(buffer, 1, end)],
                     "Boundary")

PushAfterTerminal(r) == IF r.body.buffer # <<>> THEN Fail(r) ELSE Stop(r)

\* The frame is hashed whole and forwarded without its delimiter.
FinishTerminalWhole(r, length) ==
  PushAfterTerminal(Enter(HashAndForward(r, length), "AfterTerminal"))
FinishTerminalFrame(r, length) ==
  LET frame == SubSeq(r.body.buffer, 1, length)
  IN PushAfterTerminal(
       Enter(Drop(Emit(Hash(r, frame), SubSeq(frame, 1, length - Len(EventEnd))), length),
             "AfterTerminal"))

PushChatTerminal(r) ==
  LET expected == ChatPrefix \o EventEnd
  IN IF IsStrictPrefix(r.body.buffer, expected) THEN Stop(r)
     ELSE IF IsPrefix(expected, r.body.buffer) THEN FinishTerminalFrame(r, Len(expected))
     ELSE Fail(r)

PushResponsesTerminal(r) ==
  IF HasEnd(r.body.buffer) THEN FinishTerminalFrame(r, EndOf(r.body.buffer))
  ELSE ForwardSafe(r)

Turn(r) ==
  CASE r.body.state = "Boundary" -> PushBoundary(r)
    [] r.body.state = "Regular" -> PushRegular(r)
    [] r.body.state = "Keepalive" -> PushKeepalive(r)
    [] r.body.state = "Receipt" -> PushReceipt(r)
    [] r.body.state = "ChatTerminal" -> PushChatTerminal(r)
    [] r.body.state = "ResponsesTerminal" -> PushResponsesTerminal(r)
    [] r.body.state = "AfterTerminal" -> PushAfterTerminal(r)

RECURSIVE Loop(_)
Loop(r) == IF r.action = "Continue" THEN Loop(Turn(r)) ELSE r

PushPart(r, part) ==
  IF r.action = "Fail" \/ (r.body.state = "AfterTerminal" /\ part # <<>>) THEN Fail(r)
  ELSE Loop([r EXCEPT !.body.buffer = @ \o part, !.action = "Continue"])

Parts(chunk) ==
  [i \in 1..((Len(chunk) + PartBytes - 1) \div PartBytes) |->
     SubSeq(chunk, (i - 1) * PartBytes + 1,
            IF i * PartBytes < Len(chunk) THEN i * PartBytes ELSE Len(chunk))]

\* push(): an error loses the output of the whole chunk and ends the filter.
Push(body, chunk) ==
  LET start == [body |-> [body EXCEPT !.received = @ + Len(chunk)], output |-> <<>>,
                action |-> "Stop"]
      end == FoldLeft(PushPart, start, Parts(chunk))
  IN IF body.failed \/ Len(chunk) > MaxStreamBytes - body.received
     THEN [body |-> [body EXCEPT !.failed = TRUE], output |-> <<>>]
     ELSE IF end.action = "Fail"
     THEN [body |-> [end.body EXCEPT !.failed = TRUE, !.buffer = <<>>], output |-> <<>>]
     ELSE [body |-> end.body, output |-> end.output]

RequireComplete(body) ==
  ~body.failed /\ body.state = "AfterTerminal" /\ body.buffer = <<>>
=============================================================================
