--------------------------- MODULE ReceiptStream ---------------------------
(***************************************************************************)
(* The body of a streamed response on its way to the caller.  An encrypted *)
(* response passes Incoming with its StreamCompletion (encrypted_http.rs); *)
(* a response whose request asked for a receipt passes StreamState         *)
(* (receipt_http.rs); one that is both passes them in this order.  Each is *)
(* polled for one piece at a time and asks its source when it has none.    *)
(***************************************************************************)
EXTENDS SseBody

CONSTANTS
  Streams,      \* what the gateway may send
  ChunkBytes    \* the largest chunk, or record, that arrives at once

VARIABLES
  sent,         \* the gateway's stream, of which "taken" bytes have arrived
  taken,
  signed,       \* the content the receipt's signature covers
  encrypted,    \* the response is encrypted
  receipted,    \* a receipt was requested
  incoming,     \* Incoming: [body, pending, open]
  stream,       \* StreamState: [body, pending, open]
  delivered,    \* the bytes the caller has read
  result        \* "open", "complete", "failed" or "deadline"

input == <<sent, signed, encrypted, receipted>>
vars == <<sent, taken, signed, encrypted, receipted, incoming, stream, delivered, result>>

Stage(required) == [body |-> NewBody(required), pending |-> <<>>, open |-> TRUE]

(***************************************************************************)
(* The reference: a stream is a sequence of events, each of which ends at  *)
(* its first empty line.                                                   *)
(***************************************************************************)
\* An event ends where a run of newlines has even length: the next newline is
\* already the next event's.
SplitEnds(bytes) ==
  LET Run(i) == i - Max({0} \cup {j \in 1..i : bytes[j] # "n"})
  IN {i \in 1..Len(bytes) : Run(i) > 0 /\ Run(i) % 2 = 0}
Split(bytes) ==
  LET ends == SplitEnds(bytes)
      End(k) == IF k = 0 THEN 0
                ELSE CHOOSE e \in ends : Cardinality({f \in ends : f <= e}) = k
      n == Cardinality(ends)
  IN [events |-> [k \in 1..n |-> SubSeq(bytes, End(k - 1) + 1, End(k))],
      rest |-> SubSeq(bytes, End(n) + 1, Len(bytes))]

IsReceipt(event) ==
  LET proof == SubSeq(event, Len(ReceiptPrefix) + 1, Len(event) - Len(EventEnd))
  IN /\ IsPrefix(ReceiptPrefix, event)
     /\ Len(proof) \in 1..MaxProofBytes /\ ~Contains(proof, "n")
IsTerminal(event) ==
  \/ event = ChatPrefix \o EventEnd
  \/ IsPrefix(ResponsesPrefix, event) \/ IsPrefix(IncompletePrefix, event)
IsOrdinary(event) ==
  \A prefix \in {ReceiptPrefix, ChatPrefix, ResponsesPrefix, IncompletePrefix} :
    ~IsPrefix(prefix, event)

WellFormed(bytes, required) ==
  LET split == Split(bytes)
      n == Len(split.events)
  IN /\ Len(bytes) <= MaxStreamBytes
     /\ split.rest = <<>> /\ n > 0
     /\ IsTerminal(split.events[n])
     /\ \A i \in 1..n - 1 : IsOrdinary(split.events[i]) \/ (i = n - 1 /\ IsReceipt(split.events[i]))
     /\ required => n > 1 /\ IsReceipt(split.events[n - 1])

Content(bytes) ==
  FlattenSeq(SelectSeq(Split(bytes).events, LAMBDA e : e # Keepalive /\ ~IsReceipt(e)))

Init ==
  /\ sent \in Streams
  /\ signed \in {Content(sent), <<"x">>}
  /\ encrypted \in BOOLEAN /\ receipted \in BOOLEAN
  /\ encrypted \/ receipted
  /\ taken = 0
  /\ incoming = Stage(FALSE) /\ stream = Stage(TRUE)
  /\ delivered = <<>> /\ result = "open"

\* The caller reads; each source is asked only when what it gave is used up.
Polled == result = "open" /\ stream.pending = <<>> /\ stream.open
IncomingPolled == Polled /\ incoming.pending = <<>> /\ incoming.open

\* A source hands a chunk to its stage; an error ends the response.
Accept(stage, filtered, chunk, new) ==
  LET pushed == Push(stage.body, chunk)
  IN IF ~filtered
     THEN new = [stage EXCEPT !.pending = <<chunk>>] /\ UNCHANGED result
     ELSE /\ new = [stage EXCEPT !.body = pushed.body, !.pending = pushed.output]
          /\ result' = IF pushed.body.failed THEN "failed" ELSE result

\* Incoming::advance() with a record of data, or the chunk of a plain response.
\* Several records in one chunk are filtered as one: a failure loses all output.
Receive ==
  /\ IncomingPolled
  /\ \E n \in 1..ChunkBytes :
       /\ taken + n <= Len(sent)
       /\ taken' = taken + n
       /\ Accept(incoming, encrypted, SubSeq(sent, taken + 1, taken + n), incoming')
  /\ UNCHANGED <<input, stream, delivered>>

\* The source ends, perhaps early: the decoder has already accepted the final
\* record of an encrypted response.
EndOfSource ==
  /\ IncomingPolled
  /\ IF ~encrypted
     THEN incoming' = [incoming EXCEPT !.open = FALSE] /\ UNCHANGED result
     ELSE IF RequireComplete(incoming.body)
     THEN incoming' = [incoming EXCEPT !.open = FALSE, !.pending = <<EventEnd>>] /\ UNCHANGED result
     ELSE result' = "failed" /\ UNCHANGED incoming
  /\ UNCHANGED <<input, taken, stream, delivered>>

\* StreamState::next() takes the next piece of its source.
Pass ==
  /\ Polled /\ incoming.pending # <<>>
  /\ incoming' = [incoming EXCEPT !.pending = Tail(@)]
  /\ Accept(stream, receipted, Head(incoming.pending), stream')
  /\ UNCHANGED <<input, taken, delivered>>

\* Stream::finish(): complete framing, then a receipt over exactly what was hashed.
Verify(body) == RequireComplete(body) /\ body.proof # None /\ body.hashed = signed

EndOfStream ==
  /\ Polled /\ incoming.pending = <<>> /\ ~incoming.open
  /\ IF ~receipted
     THEN stream' = [stream EXCEPT !.open = FALSE] /\ UNCHANGED result
     ELSE IF Verify(stream.body)
     THEN stream' = [stream EXCEPT !.open = FALSE, !.pending = <<EventEnd>>] /\ UNCHANGED result
     ELSE result' = "failed" /\ UNCHANGED stream
  /\ UNCHANGED <<input, taken, incoming, delivered>>

Deliver ==
  /\ result = "open" /\ stream.pending # <<>>
  /\ delivered' = delivered \o Head(stream.pending)
  /\ stream' = [stream EXCEPT !.pending = Tail(@)]
  /\ UNCHANGED <<input, taken, incoming, result>>

Complete ==
  /\ result = "open" /\ stream.pending = <<>> /\ ~stream.open
  /\ result' = "complete"
  /\ UNCHANGED <<input, taken, incoming, stream, delivered>>

\* Every poll checks the deadline first.
Deadline ==
  /\ result = "open"
  /\ result' = "deadline"
  /\ UNCHANGED <<input, taken, incoming, stream, delivered>>

Next == Receive \/ EndOfSource \/ Pass \/ EndOfStream \/ Deliver \/ Complete \/ Deadline

Spec == Init /\ [][Next]_vars

(***************************************************************************)
(* Properties                                                              *)
(***************************************************************************)
Arrived == SubSeq(sent, 1, taken)

\* However the stream was cut into records, chunks and pieces, the caller sees
\* it complete exactly when its framing is well formed and, if a receipt was
\* requested, the signature covers its content; and then has read every byte.
CompleteExactly ==
  /\ result = "complete" =>
       /\ WellFormed(Arrived, receipted) /\ delivered = Arrived
       /\ receipted => Content(Arrived) = signed
  /\ result = "failed" =>
       \/ ~WellFormed(Arrived, receipted)
       \/ receipted /\ Content(Arrived) # signed

\* What the caller has is a prefix of the stream.  No terminal event in it is
\* whole before the end of the transport was seen and, if requested, the
\* receipt verified: an SSE parser cannot have dispatched it.
TerminalWithheld ==
  /\ IsPrefix(delivered, Arrived)
  /\ incoming.open \/ (receipted /\ stream.open) =>
       \A i \in DOMAIN Split(delivered).events : ~IsTerminal(Split(delivered).events[i])

=============================================================================
