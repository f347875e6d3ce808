------------------------------- MODULE Ratchet -------------------------------
(***************************************************************************)
(* One endpoint of the session's double ratchet (channel/ratchet/peer.rs), *)
(* as operators from the endpoint's fields to the fields a method leaves.  *)
(*                                                                         *)
(* Cryptography is symbolic.  A key pair is the count of key pairs its     *)
(* owner has made (0 for none); a root is the sequence of key agreements   *)
(* it was derived from, so two roots are equal only if both ends agreed on *)
(* the same keys in the same order; the secret of a message is its chain's *)
(* root and its number.  A header opens only under the cipher it was       *)
(* sealed with, and a record authenticates only under its own secret.      *)
(***************************************************************************)
EXTENDS Integers, Sequences, FiniteSetsExt

CONSTANTS
  MaxSkippedKeys,    \* MAX_SKIPPED_KEYS, 256 in the code
  MaxChainMessages,  \* MAX_CHAIN_MESSAGES, 2^24 in the code
  KeyLifetime        \* SKIPPED_KEY_LIFETIME_MS

ASSUME RatchetAssumption ==
  /\ MaxSkippedKeys \in Nat \ {0}
  /\ MaxChainMessages \in Nat \ {0}
  /\ KeyLifetime \in Nat \ {0}

\* The header cipher that a root step yields for the next turn.
CipherOf(root) == <<"Root", root>>

\* Option::None for a chain: a chain's root is never empty.
NoChain == [root |-> <<>>]
IsNone(chain) == chain.root = <<>>

\* Peer::new, for the initiator and for the responder.
NewPeer(client, local, remote) ==
  LET alice == <<"Alice", <<>>>>
      bob == <<"Bob", <<>>>>
  IN  [client |-> client, keys |-> local, local |-> local, remote |-> remote,
       root |-> <<>>, send |-> NoChain, receive |-> NoChain,
       nextSend |-> IF client THEN alice ELSE bob,
       nextReceive |-> IF client THEN bob ELSE alice,
       previousSent |-> 0, skipped |-> <<>>, lastNow |-> 0]

Initiator == NewPeer(TRUE, 0, 1)

Responder == NewPeer(FALSE, 1, 0)

\* Active::advance: the root after one more key agreement.
Advance(p, local, remote) ==
  Append(p.root, IF p.client THEN <<local, remote>> ELSE <<remote, local>>)

-----------------------------------------------------------------------------
(* Sending.                                                                *)

\* send_with(), the part that opens a turn with a fresh key pair and tells the
\* other end how many records the previous turn had.
OpenTurnAfter(p, previous) ==
  LET local == p.keys + 1
      root == Advance(p, local, p.remote)
  IN  [p EXCEPT !.keys = local, !.local = local, !.root = root,
                !.nextSend = CipherOf(root),
                !.send = [root |-> root, count |-> 0, cipher |-> p.nextSend,
                          public |-> local, previous |-> previous]]
OpenTurnForgetsPrevious(p) == OpenTurnAfter(p, 0)
OpenTurn(p) == OpenTurnAfter(p, p.previousSent)

Sending(p) == IF IsNone(p.send) THEN OpenTurn(p) ELSE p

\* send() fails with Pending or Limit, and then changes nothing.
CanSend(p) ==
  /\ IsNone(p.send) => p.remote # 0
  /\ Sending(p).send.count < MaxChainMessages

\* The first record of a request or response as it travels: its header, and
\* the secret that authenticates the record behind it.
SealedStart(p) ==
  LET s == Sending(p).send
  IN  [cipher |-> s.cipher, public |-> s.public, previous |-> s.previous,
       number |-> s.count, secret |-> <<s.root, s.count>>]

AfterSend(p) == [Sending(p) EXCEPT !.send.count = @ + 1]

-----------------------------------------------------------------------------
(* The store of skipped keys, oldest first.                                *)

\* Keys of an initiator have no deadline (Retention::Owned).
Expired(p, key, now) == ~p.client /\ key.expires <= now

\* expire(): the clock never goes back, and the store is trimmed from its
\* oldest key up to the first that is still alive.
ExpireAt(p, clock) ==
  LET alive == {i \in DOMAIN p.skipped : ~Expired(p, p.skipped[i], clock)}
  IN  [p EXCEPT !.lastNow = clock,
                !.skipped = IF alive = {} THEN <<>>
                            ELSE SubSeq(@, Min(alive), Len(@))]
ExpireAtCallersClock(p, now) == ExpireAt(p, now)
Expire(p, now) == ExpireAt(p, Max({p.lastNow, now}))

DiscardDelayed(p) == [p EXCEPT !.skipped = <<>>]

\* stored(): where the store holds the key, if it does.
Stored(p, epoch, number) ==
  {i \in DOMAIN p.skipped : /\ p.skipped[i].epoch = epoch
                            /\ p.skipped[i].number = number
                            /\ ~Expired(p, p.skipped[i], p.lastNow)}

WithoutNothing(seq, i) == seq
Without(seq, i) == SubSeq(seq, 1, i - 1) \o SubSeq(seq, i + 1, Len(seq))

-----------------------------------------------------------------------------
(* Receiving.                                                              *)

\* skip(): the keys of a chain from where it stands up to number until.
NextKeys(chain, count) ==
  [i \in 1 .. count |->
     [epoch |-> chain.epoch, cipher |-> chain.cipher, turn |-> chain.turn,
      number |-> chain.count + i - 1,
      secret |-> <<chain.root, chain.count + i - 1>>]]
SkippedKeysButLast(chain, until) == NextKeys(chain, until - chain.count - 1)
SkippedKeys(chain, until) == NextKeys(chain, until - chain.count)

\* header.turn().
TurnOf(m) == <<m.public, m.previous>>

\* open_header(): which cipher opens the header of message m, tried in the
\* code's order, and the epoch it belongs to.
OpenHeader(p, m) ==
  LET current == ~IsNone(p.receive) /\ m.cipher = p.receive.cipher
      next == ~current /\ m.cipher = p.nextReceive
      old == {k \in Range(p.skipped) : k.cipher = m.cipher}
      group == IF current THEN p.receive ELSE CHOOSE k \in old : TRUE
      opened(kind, epoch) == [kind |-> kind, epoch |-> epoch]
  IN  CASE next -> opened("Next", 0)
        [] ~next /\ ~current /\ old = {} -> opened("Authentication", 0)
        [] ~next /\ (current \/ old # {}) ->
             IF TurnOf(m) # group.turn THEN opened("Record", 0)
             ELSE opened(IF current THEN "Current" ELSE "Skipped", group.epoch)

\* skipped_count(), and skip()'s check that a first turn has no predecessor:
\* what is checked before any key is derived.
GapResult(p, m, next) ==
  LET received == IF IsNone(p.receive) THEN 0 ELSE p.receive.count
      previous == IF next THEN m.previous - received ELSE 0
      current == IF next THEN m.number ELSE m.number - received
  IN  CASE m.number >= MaxChainMessages -> "Limit"
        [] m.number < MaxChainMessages ->
             IF \/ next /\ p.local = 0
                \/ next /\ ~IsNone(p.receive) /\ IsNone(p.send)
                \/ next /\ IsNone(p.receive) /\ m.previous > 0
                \/ previous < 0 \/ current < 0
             THEN "Record"
             ELSE IF previous + current > MaxSkippedKeys THEN "Limit" ELSE "Ok"

\* receive_key(), the part that takes up the remote's next turn.
TakeTurn(p, m) ==
  LET root == Advance(p, p.local, m.public)
  IN  [p EXCEPT !.root = root, !.local = 0, !.remote = m.public,
                !.nextReceive = CipherOf(root),
                !.receive = [root |-> root, count |-> 0,
                             cipher |-> p.nextReceive, turn |-> TurnOf(m),
                             epoch |-> IF IsNone(p.receive) THEN 0
                                       ELSE p.receive.epoch + 1],
                !.previousSent = IF IsNone(p.send) THEN 0 ELSE p.send.count,
                !.send = NoChain]

\* receive(), once the record has authenticated: the oldest keys make room
\* for the ones this message skipped.
Excess(p, pending) == Max({0, Len(p.skipped) + Len(pending) - MaxSkippedKeys})
Dated(p, pending) ==
  [i \in DOMAIN pending |->
     [epoch |-> pending[i].epoch, cipher |-> pending[i].cipher,
      turn |-> pending[i].turn, number |-> pending[i].number,
      secret |-> pending[i].secret,
      expires |-> IF p.client THEN 0 ELSE p.lastNow + KeyLifetime]]
Store(p, pending) ==
  SubSeq(p.skipped, Excess(p, pending) + 1, Len(p.skipped)) \o Dated(p, pending)

\* receive() of message m: the result, and the peer it leaves.  "Mismatch" is
\* a record that does not authenticate under the key derived for it.
Receive(before, m, now) ==
  LET p == Expire(before, now)
      opened == OpenHeader(p, m)
      late == \/ opened.kind = "Skipped"
              \/ opened.kind = "Current" /\ m.number < p.receive.count
      found == Stored(p, opened.epoch, m.number)
      next == opened.kind = "Next"
      gap == GapResult(p, m, next)
      turned == IF next THEN TakeTurn(p, m) ELSE p
      left == IF next /\ ~IsNone(p.receive)
              THEN SkippedKeys(p.receive, m.previous) ELSE <<>>
      pending == left \o SkippedKeys(turned.receive, m.number)
      result(r, q) == [result |-> r, peer |-> q]
  IN  IF opened.kind \notin {"Current", "Next", "Skipped"}
      THEN result(opened.kind, p)
      ELSE IF late
      THEN IF found = {} THEN result("Record", p)
           ELSE LET i == CHOOSE i \in found : TRUE
                IN  IF p.skipped[i].secret # m.secret THEN result("Mismatch", p)
                    ELSE result("Ok", [p EXCEPT !.skipped = Without(@, i)])
      ELSE IF gap # "Ok" THEN result(gap, p)
      ELSE IF <<turned.receive.root, m.number>> # m.secret
           THEN result("Mismatch", p)
           ELSE result("Ok", [turned EXCEPT !.receive.count = m.number + 1,
                                            !.skipped = Store(p, pending)])
=============================================================================
