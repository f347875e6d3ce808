------------------------------ MODULE MCStreams ------------------------------
(***************************************************************************)
(* The two layers of a streamed body, each for the model checker: the      *)
(* records of one direction of an exchange (Exchange), and the events of a *)
(* response once its records are opened (ReceiptStream), in streams of a   *)
(* few events of every kind, well formed or not, in every order.  Neither  *)
(* layer reads what the other changes, so that each is explored alone.     *)
(***************************************************************************)
EXTENDS Exchange, ReceiptStream

Chat == ChatPrefix \o EventEnd
Receipt == ReceiptPrefix \o <<"p">> \o EventEnd

\* Events that share their first bytes with the special ones.
Ordinary == {<<"d", "x">> \o EventEnd, <<"c", "k", "n", "x">> \o EventEnd, Keepalive, <<"n">>}
Receipts ==
  {Receipt, ReceiptPrefix \o EventEnd, ReceiptPrefix \o <<"p", "n", "p">> \o EventEnd,
   ReceiptPrefix \o <<"p", "p">> \o EventEnd}
Terminals ==
  {Chat, ChatPrefix \o <<"x">> \o EventEnd, ResponsesPrefix \o <<"x">> \o EventEnd,
   IncompletePrefix \o <<"n">>}

MCEvents ==
  {FlattenSeq(s) : s \in BoundedSeq(Ordinary \cup Receipts \cup Terminals, 2)}
    \cup {FlattenSeq(s) : s \in BoundedSeq({<<"d", "x">> \o EventEnd, Keepalive, Receipt, Chat}, 4)}
    \cup {a \o b \o c : a \in Ordinary, b \in Receipts, c \in Terminals}

VARIABLE layer

\* The layer that is not explored starts in one of its states and stays there.
MCInit ==
  /\ Init /\ ExchangeInit
  /\ \/ layer = "records" /\ sent = <<>> /\ signed = <<>> /\ encrypted /\ receipted
     \/ layer = "events" /\ Direction = "Request"

MCNext ==
  \/ layer = "records" /\ ExchangeNext /\ UNCHANGED <<layer, vars>>
  \/ layer = "events" /\ Next /\ UNCHANGED <<layer, exchangeVars>>

MCSpec == MCInit /\ [][MCNext]_<<layer, exchangeVars, vars>>
=============================================================================
