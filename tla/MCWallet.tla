------------------------------ MODULE MCWallet ------------------------------
(* Constants of Wallet for TLC: keystores that differ in one thing each.       *)
EXTENDS Wallet, TLC

Pub(v) == [len |-> 48, v |-> v]
Priv(v) == [len |-> 32, v |-> v]
Two(a, b) == [readable |-> TRUE, disabled |-> TRUE, pubs |-> <<Pub(a), Pub(b)>>,
              privs |-> <<Priv(a), Priv(b)>>]

MCKeystores ==
    {Two(1, 2), Two(2, 1),
     [Two(2, 1) EXCEPT !.privs[2] = Priv(0)],           \* a zero secret key
     [Two(1, 2) EXCEPT !.pubs[2] = [len |-> 49, v |-> 1], !.privs[2] = Priv(1)],
     [Two(1, 2) EXCEPT !.privs = <<Priv(1)>>],
     [Two(1, 2) EXCEPT !.readable = FALSE],
     [Two(1, 2) EXCEPT !.disabled = FALSE],
     Empty}

\* nothing tells keymanagers or objects apart but what they hold
Symmetry == Permutations(Managers) \cup Permutations(Refs)

MCMessages == {"keccak()"}
=============================================================================
