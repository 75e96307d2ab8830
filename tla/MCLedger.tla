------------------------------ MODULE MCLedger ------------------------------
(***************************************************************************)
(* Ledger with two wallets, one of which the node mines for.               *)
(***************************************************************************)
EXTENDS Ledger

CONSTANTS a1, a2

AnyAmounts == {-1, 0, 3}

\* Payments of peers that spent the reward of block 1 and an output of a
\* payment on their chains, whatever those places are on this one.
PeerPayment(point) ==
    [ins |-> <<point>>, signed |-> TRUE, id |-> NoId,
     outs |-> <<[address |-> a2, amount |-> 1], [address |-> a1, amount |-> 1]>>]

MovedPayments == {PeerPayment(<<1, 0, 0>>), PeerPayment(<<1, 1, 0>>)}
NoPayments == {}
=============================================================================
