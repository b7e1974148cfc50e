-------------------------------- MODULE Bls ---------------------------------
(***************************************************************************)
(* BLS keys and signatures as bls/herumi uses them.  The curve library is    *)
(* external and taken at its algebra: the points of a group of prime order Q *)
(* are named by their discrete logarithms, so the public key of secret s is  *)
(* the number s, and a signature is the function that gives for each message *)
(* the factor of the point that message is hashed to.  Points add, scale and *)
(* are compared; pairing equations compare signatures.                       *)
(*                                                                         *)
(* A byte string is [len, v].  Operators that may fail return the set of     *)
(* their results.                                                           *)
(***************************************************************************)
EXTENDS Naturals, Sequences

CONSTANTS
    Q,          \* the order of the group, a prime
    Messages    \* message hashes

ASSUME OrderAssumption == Q \in Nat /\ Q > 1

ByteString == [len : Nat, v : Nat]
Points == 0..Q - 1
ZeroSig == [m \in Messages |-> 0]

\* SecretKeyFromBytes: 32 bytes below the order, and not zero.
SecretKeyFromBytes(b) == IF b.len = 32 /\ b.v \in 1..Q - 1 THEN {b.v} ELSE {}

\* PublicKeyFromBytes without its cache: 48 bytes that are a point, not infinity.
DeserializePublicKey(b) == IF b.len = 48 /\ b.v \in 1..Q - 1 THEN {b.v} ELSE {}

\* bytesutil.ToBytes48 truncates a longer slice and pads a shorter one with zeros,
\* which gives the encoding of no point.
ToBytes48(b) == IF b.len >= 48 THEN b.v ELSE b.v + Q

AddPoint(p, k) == (p + k) % Q
AddSig(s, t) == [m \in Messages |-> (s[m] + t[m]) % Q]
MulSig(s, r) == [m \in Messages |-> (s[m] * r) % Q]

\* bls12SecretKey.Sign.
SignMsg(s, msg) == [ZeroSig EXCEPT ![msg] = s]

\* Signature.Verify rejects the infinite key.
Verify(sig, p, msg) == p # 0 /\ sig = SignMsg(p, msg)

\* The pairing product of the keys and their messages.
Pairing(ps, msgs) ==
    LET part[k \in 0..Len(ps)] ==
            IF k = 0 THEN ZeroSig ELSE AddSig(part[k - 1], SignMsg(ps[k], msgs[k]))
    IN part[Len(ps)]

\* Signature.AggregateVerify.
AggregateVerify(sig, ps, msgs) ==
    /\ Len(ps) > 0 /\ Len(ps) = Len(msgs)
    /\ sig = Pairing(ps, msgs)

\* Signature.FastAggregateVerify.
FastAggregateVerify(sig, ps, msg) == Len(ps) > 0 /\ sig = Pairing(ps, [i \in DOMAIN ps |-> msg])

\* VerifyMultipleSignatures with the factors rs it draws; each is any uint64, zero
\* included (rand.NewGenerator).
VerifyMultipleSignatures(sigs, msgs, ps, rs) ==
    LET sum[k \in 0..Len(sigs)] ==
            IF k = 0 THEN ZeroSig ELSE AddSig(sum[k - 1], MulSig(sigs[k], rs[k]))
    IN /\ Len(sigs) > 0 /\ Len(sigs) = Len(ps) /\ Len(sigs) = Len(msgs)
       /\ sum[Len(sigs)] = Pairing([i \in DOMAIN ps |-> (ps[i] * rs[i]) % Q], msgs)
=============================================================================
