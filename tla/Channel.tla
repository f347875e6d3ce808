------------------------------- MODULE Channel -------------------------------
(***************************************************************************)
(* An encrypted session between a ClientSession and a ServerSession: the   *)
(* two windows of StartWindow and the two ends of the Ratchet, joined the  *)
(* way request_with, ResponseReader::start, PendingStart's drop and        *)
(* accept_start join them.  Each action takes the corresponding step of    *)
(* StartWindow and says what the ratchets do in it, so every behaviour of  *)
(* this module is one of StartWindow (ChannelProofs).                      *)
(*                                                                         *)
(* The network keeps every first record sealed: a record can arrive late,  *)
(* out of order, again or never.                                           *)
(***************************************************************************)
EXTENDS StartWindow, Ratchet

CONSTANT Times   \* the clock values callers of the server may pass

\* They are milliseconds, unsigned.
ASSUME TimesAssumption == Times \subseteq Nat

\* Outstanding starts, replay distance and retained keys share one bound.
ASSUME OneBound == ReplayWindow = MaxSkippedKeys

VARIABLES
  client,     \* the client's Peer
  gateway,    \* the server's Peer
  requests,   \* the first request record sealed under each number
  responses   \* the first response record sealed for each number

vars == <<starts, owners, started, sealed, clientOpen, server, admissions,
          client, gateway, requests, responses>>

Init ==
  /\ WindowInit
  /\ client = Initiator
  /\ gateway = Responder
  /\ requests = <<>>
  /\ responses = <<>>

\* A record more on the network, under the number of its request.
Put(records, n, record) ==
  [k \in {n} \cup DOMAIN records |-> IF k = n THEN record ELSE records[k]]

-----------------------------------------------------------------------------
(* The client.                                                             *)

Request ==
  /\ TakeNumber
  /\ CanSend(client)
  /\ client' = AfterSend(client)
  /\ requests' = Put(requests, starts.next, SealedStart(client))
  /\ UNCHANGED <<gateway, responses>>

RequestFails ==
  /\ TakeNumberFails
  /\ UNCHANGED <<client, gateway, requests, responses>>

\* ResponseReader::start() on the response the server sealed for n.
StartResponse(n) ==
  /\ ConfirmNumber(n)
  /\ LET received == Receive(client, responses[n], 0)
     IN  /\ received.result = "Ok"
         /\ client' = received.peer
  /\ UNCHANGED <<gateway, requests, responses>>

ReleaseStart(n) ==
  /\ DropNumber(n)
  /\ client' = IF starts'.firstPending = starts'.next
               THEN DiscardDelayed(client) ELSE client
  /\ UNCHANGED <<gateway, requests, responses>>

CloseClient ==
  /\ LeaveClient
  /\ UNCHANGED <<client, gateway, requests, responses>>

-----------------------------------------------------------------------------
(* The server.                                                             *)

AcceptStart(n, now) ==
  /\ AdmitNumber(n)
  /\ LET received == Receive(gateway, requests[n], now)
     IN  /\ received.result = "Ok"
         /\ CanSend(received.peer)
         /\ gateway' = AfterSend(received.peer)
         /\ responses' = Put(responses, n, SealedStart(received.peer))
  /\ UNCHANGED <<client, requests>>

\* accept_start() of a record that is not the client's for n.
RejectStart(n, now) ==
  /\ TurnAwayNumber(n)
  /\ gateway' = Expire(gateway, now)
  /\ UNCHANGED <<client, requests, responses>>

\* accept_start() of the client's record for n when its key is gone, its gap
\* too large, or when no response header can be sealed.
RefuseStart(n, now) ==
  /\ n \in sealed
  /\ TurnAwayNumber(n)
  /\ LET received == Receive(gateway, requests[n], now)
     IN  /\ received.result = "Ok" => ~CanSend(received.peer)
         /\ gateway' = received.peer
  /\ UNCHANGED <<client, requests, responses>>

ExpireServer(now) ==
  /\ server.open
  /\ gateway' = Expire(gateway, now)
  /\ UNCHANGED <<window, client, requests, responses>>

CloseServer ==
  /\ LeaveServer
  /\ UNCHANGED <<client, gateway, requests, responses>>

-----------------------------------------------------------------------------
Next ==
  \/ Request \/ RequestFails \/ CloseClient \/ CloseServer
  \/ \E n \in Numbers : StartResponse(n) \/ ReleaseStart(n)
  \/ \E n \in Numbers, now \in Times :
       AcceptStart(n, now) \/ RejectStart(n, now) \/ RefuseStart(n, now)
  \/ \E now \in Times : ExpireServer(now)

Spec == Init /\ [][Next]_vars

-----------------------------------------------------------------------------
(* Properties.                                                             *)

\* The two windows keep step without seeing each other: no request number is admitted
\* twice, a waiting request is never turned away by the server's window, and the client's
\* bitmap is exactly the starts that still wait (StartWindow), ratchets included.
WindowsHold ==
  /\ NoStartAdmittedTwice
  /\ LiveStartsAdmissible
  /\ PendingBitmapExact

\* While no delayed key can have run out of time, the server opens every record
\* that a waiting request has on the network: skipping and evicting keys for
\* newer or abandoned requests never costs a waiting one its own.
LiveStartsAuthenticate ==
  \A n \in owners :
    server.open /\ admissions[n] = 0 /\ gateway.lastNow < KeyLifetime =>
      Receive(gateway, requests[n], gateway.lastNow).result = "Ok"

\* A key is gone once it is used or out of time.  The server's ratchet itself refuses the
\* record of an admitted request again, whatever the window would say; and expire(), which
\* trims the store from its oldest end only, leaves no key past its deadline, even when
\* callers' clocks disagree.
KeysGone ==
  /\ \A n \in DOMAIN requests :
       admissions[n] > 0 => Receive(gateway, requests[n], gateway.lastNow).result # "Ok"
  /\ \A k \in Range(gateway.skipped) : k.expires > gateway.lastNow

\* As long as no request is given up before its first response, every waiting
\* request's response opens, in whatever order responses are read and starts
\* were admitted: one bound for outstanding starts, gaps and retained keys is
\* then enough.
ResponsesOpenUnlessCancelled ==
  sealed \ owners \subseteq started =>
    \A n \in owners \ started :
      n \in DOMAIN responses => Receive(client, responses[n], 0).result = "Ok"

\* The session's own account of retention: the key of a response that the
\* client has skipped over is kept for as long as its request waits.
OwnedKeysRetained ==
  \A n \in owners \ started :
    n \in DOMAIN responses =>
      Receive(client, responses[n], 0).result \notin {"Record", "Authentication"}
=============================================================================
