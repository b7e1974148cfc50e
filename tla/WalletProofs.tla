---------------------------- MODULE WalletProofs ----------------------------
(***************************************************************************)
(* Opening a wallet, its keymanagers and the caches they share, for any     *)
(* group order, any keystores, keymanagers and objects, and any number of   *)
(* changes by others: WalletInv of Wallet is inductive.                      *)
(***************************************************************************)
EXTENDS Wallet, FiniteSetTheorems, WellFoundedInduction, TLAPS

-----------------------------------------------------------------------------
(* Keystores: the loop of initializeKeysCachesFromKeystore.                  *)

\* A set of numbers that is not empty has a least element.
LEMMA LeastNat ==
    ASSUME NEW S, S \subseteq Nat, S # {}
    PROVE  \E x \in S : \A y \in S : x <= y
<1> DEFINE R == {ss \in Nat \X Nat : ss[1] < ss[2]}
<1>1. IsWellFoundedOn(R, Nat)
  BY NatLessThanWellFounded DEF OpToRel
<1>2. PICK x \in S : \A y \in S : ~(<<y, x>> \in R)
  BY <1>1, WFMin
<1>3. \A y \in S : ~(y < x)
  BY <1>2
<1>4. QED
  BY <1>3

\* A set of numbers up to n that is not empty has a greatest element.
LEMMA GreatestNat ==
    ASSUME NEW n \in Nat, NEW S, S \subseteq 0..n, S # {}
    PROVE  \E x \in S : \A y \in S : y <= x
<1> DEFINE T == {k \in Nat : n - k \in S}
<1>1. T # {}
  <2>1. PICK x \in S : TRUE
    OBVIOUS
  <2>2. x \in 0..n /\ n - x \in Nat /\ n - (n - x) = x
    OBVIOUS
  <2>3. QED
    BY <2>1, <2>2
<1>2. PICK k \in T : \A y \in T : k <= y
  BY <1>1, LeastNat
<1>3. \A y \in S : n - y \in T /\ y <= n - k
  <2> SUFFICES ASSUME NEW y \in S PROVE n - y \in T /\ y <= n - k
    OBVIOUS
  <2>1. y \in 0..n /\ n - y \in Nat /\ n - (n - y) = y
    OBVIOUS
  <2>2. n - y \in T
    BY <2>1
  <2>3. k \in Nat /\ k <= n - y
    BY <1>2, <2>2
  <2>4. QED
    BY <2>1, <2>2, <2>3
<1>4. QED
  <2>1. n - k \in S
    BY <1>2
  <2>2. QED
    BY <1>3, <2>1

\* The keystores, and what a keymanager holds of them.
LEMMA KeystoreType ==
    ASSUME NEW f \in Keystores \cup {Empty}
    PROVE  f.pubs \in Seq(ByteString) /\ f.privs \in Seq(ByteString)
<1>1. Empty.pubs = <<>> /\ Empty.privs = <<>>
  BY DEF Empty
<1>2. <<>> \in Seq(ByteString)
  OBVIOUS
<1>3. CASE f \in Keystores
  BY <1>3, WalletAssumption
<1>4. QED
  BY <1>1, <1>2, <1>3

\* FirstBad is the first secret key that does not convert: the loop stops there.
LEMMA FirstBadRight ==
    ASSUME NEW f, f.privs \in Seq(ByteString)
    PROVE  /\ FirstBad(f) \in 1..Len(f.privs) + 1
           /\ \A i \in 1..FirstBad(f) - 1 : Good(f.privs[i])
           /\ FirstBad(f) <= Len(f.privs) => ~Good(f.privs[FirstBad(f)])
<1> DEFINE L == Len(f.privs)
           S == {n \in 1..L : ~Good(f.privs[n])} \cup {L + 1}
           P(n) == /\ \A i \in 1..n - 1 : Good(f.privs[i])
                   /\ n <= L => ~Good(f.privs[n])
<1>1. L \in Nat
  OBVIOUS
<1>2. PICK n \in S : \A y \in S : n <= y
  <2>1. S \subseteq Nat /\ L + 1 \in S
    BY <1>1
  <2> HIDE DEF S
  <2>2. QED
    BY <2>1, LeastNat
<1>3. n \in 1..L + 1 /\ P(n)
  <2>1. n \in 1..L + 1
    BY <1>1
  <2>2. \A i \in 1..n - 1 : Good(f.privs[i])
    BY <1>1, <1>2, <2>1
  <2>3. n <= L => ~Good(f.privs[n])
    BY <1>1
  <2>4. QED
    BY <2>1, <2>2, <2>3
<1>4. FirstBad(f) = CHOOSE m \in 1..L + 1 : P(m)
  BY DEF FirstBad, Good
<1> HIDE DEF P
<1>5. FirstBad(f) \in 1..L + 1 /\ P(FirstBad(f))
  BY <1>3, <1>4
<1>6. QED
  BY <1>5 DEF P

\* A key of the cache is the encoding of a public key of the keystore, its value the
\* secret key at the same place.
LEMMA SecretKeysRight ==
    ASSUME NEW f, NEW n \in Nat \ {0}
    PROVE  /\ \A i \in 1..n - 1 : ToBytes48(f.pubs[i]) \in DOMAIN SecretKeys(f, n)
           /\ \A x \in DOMAIN SecretKeys(f, n) : \E i \in 1..n - 1 :
                 ToBytes48(f.pubs[i]) = x /\ SecretKeys(f, n)[x] = f.privs[i].v
<1>1. DOMAIN SecretKeys(f, n) = {ToBytes48(f.pubs[i]) : i \in 1..n - 1}
  BY DEF SecretKeys
<1>2. ASSUME NEW x \in DOMAIN SecretKeys(f, n)
      PROVE  \E i \in 1..n - 1 : ToBytes48(f.pubs[i]) = x /\ SecretKeys(f, n)[x] = f.privs[i].v
  <2> DEFINE S == {i \in 1..n - 1 : ToBytes48(f.pubs[i]) = x}
             P(i) == /\ ToBytes48(f.pubs[i]) = x
                     /\ \A j \in i + 1..n - 1 : ToBytes48(f.pubs[j]) # x
             c == CHOOSE i \in 1..n - 1 : P(i)
  <2>1. S # {}
    BY <1>1, <1>2
  <2>2. PICK i \in S : \A j \in S : j <= i
    <3>1. n - 1 \in Nat /\ S \subseteq 0..n - 1
      OBVIOUS
    <3>2. QED
      BY <2>1, <3>1, GreatestNat
  <2>3. i \in 1..n - 1 /\ P(i)
    BY <2>2
  <2>4. SecretKeys(f, n)[x] = f.privs[c].v
    BY <1>1, <1>2 DEF SecretKeys
  <2> HIDE DEF P
  <2>5. c \in 1..n - 1 /\ P(c)
    BY <2>3
  <2>6. QED
    BY <2>4, <2>5 DEF P
<1>3. QED
  BY <1>1, <1>2

\* In a keystore whose pairs belong together a good secret key is its public key's.
LEMMA PairedKeys ==
    ASSUME Paired, NEW f \in Keystores \cup {Empty}, Len(f.pubs) = Len(f.privs),
           NEW i \in 1..Len(f.privs), Good(f.privs[i])
    PROVE  f.pubs[i].v = f.privs[i].v /\ f.pubs[i].v \in 1..Q - 1
<1>1. f.pubs \in Seq(ByteString) /\ f.privs \in Seq(ByteString)
  BY KeystoreType
<1>2. f \in Keystores
  BY DEF Empty
<1>3. i \in DOMAIN f.pubs \cap DOMAIN f.privs
  BY <1>1
<1>4. f.pubs[i].v = f.privs[i].v
  BY <1>2, <1>3 DEF Paired, Good
<1>5. f.privs[i].v \in 1..Q - 1
  BY DEF Good, SecretKeyFromBytes
<1>6. QED
  BY <1>4, <1>5

-----------------------------------------------------------------------------
(* Keymanagers and the caches.                                              *)

\* initializeKeysCachesFromKeystore leaves the caches with the keys of one keystore
\* up to the first bad one.
LEMMA CachesStep ==
    ASSUME TypeOK, Loaded, NEW k \in Managers, InitializeKeysCaches(k)
    PROVE  /\ DOMAIN secrets' \subseteq {ordered'[i] : i \in DOMAIN ordered'}
           /\ \A x \in DOMAIN secrets' : secrets'[x] \in 1..Q - 1
           /\ kpc' \in [Managers -> {"none", "mkdir", "glob", "read", "caches", "ready", "failed"}]
           /\ Loaded' /\ KeysMatch' /\ LatestCanSign'
<1> DEFINE f == store[k]
           n == FirstBad(f)
           L == Len(f.privs)
<1>1. f \in Keystores \cup {Empty} /\ f.pubs \in Seq(ByteString) /\ f.privs \in Seq(ByteString)
  <2>1. f \in Keystores \cup {Empty}
    BY DEF TypeOK
  <2>2. QED
    BY <2>1, KeystoreType
<1>2. /\ kpc[k] = "caches" /\ cacheBy' = k /\ store' = store
      /\ ordered' = [i \in DOMAIN f.pubs |-> IF i <= n THEN ToBytes48(f.pubs[i]) ELSE 0]
      /\ secrets' = SecretKeys(f, n)
      /\ kpc' = [kpc EXCEPT ![k] = IF n > L THEN "ready" ELSE "failed"]
  BY DEF InitializeKeysCaches
<1>3. Len(f.pubs) = L /\ L \in Nat /\ DOMAIN f.pubs = 1..L /\ DOMAIN f.privs = 1..L
  BY <1>1, <1>2 DEF Loaded
<1>4. /\ n \in 1..L + 1 /\ n \in Nat \ {0}
      /\ \A i \in 1..n - 1 : Good(f.privs[i])
      /\ n <= L => ~Good(f.privs[n])
  BY <1>1, <1>3, FirstBadRight
<1>5. /\ \A i \in 1..n - 1 : ToBytes48(f.pubs[i]) \in DOMAIN secrets'
      /\ \A x \in DOMAIN secrets' : \E i \in 1..n - 1 :
            ToBytes48(f.pubs[i]) = x /\ secrets'[x] = f.privs[i].v
  BY <1>2, <1>4, SecretKeysRight
<1>6. \A i \in 1..n - 1 : i \in DOMAIN ordered' /\ ordered'[i] = ToBytes48(f.pubs[i])
  BY <1>2, <1>3, <1>4
<1>7. DOMAIN secrets' \subseteq {ordered'[i] : i \in DOMAIN ordered'}
  BY <1>5, <1>6
<1>8. \A x \in DOMAIN secrets' : secrets'[x] \in 1..Q - 1
  BY <1>4, <1>5 DEF Good, SecretKeyFromBytes
<1>9. /\ \A l \in Managers : l # k => kpc'[l] = kpc[l]
      /\ kpc'[k] = IF n > L THEN "ready" ELSE "failed"
      /\ kpc' \in [Managers -> {"none", "mkdir", "glob", "read", "caches", "ready", "failed"}]
  BY <1>2 DEF TypeOK
<1>10. Loaded'
  <2>1. kpc'[k] = "ready" => \A i \in DOMAIN f.privs : Good(f.privs[i])
    BY <1>3, <1>4, <1>9
  <2>2. ASSUME NEW l \in Managers, l # k
        PROVE  /\ kpc'[l] = kpc[l] /\ store'[l] = store[l] /\ cacheBy' # l
    BY <1>2, <1>9, <2>2
  <2>3. kpc'[k] \in {"ready", "failed"}
    BY <1>9
  <2>4. QED
    BY <1>2, <1>3, <2>1, <2>2, <2>3 DEF Loaded
<1>11. KeysMatch'
  <2> SUFFICES ASSUME Paired, NEW x \in DOMAIN secrets'
               PROVE  secrets'[x] = IF x < Q THEN x ELSE x - Q
    BY DEF KeysMatch, Paired
  <2>1. PICK i \in 1..n - 1 : ToBytes48(f.pubs[i]) = x /\ secrets'[x] = f.privs[i].v
    BY <1>5
  <2>2. i \in 1..L /\ Good(f.privs[i])
    BY <1>3, <1>4
  <2>3. f.pubs[i].v = f.privs[i].v /\ f.pubs[i].v \in 1..Q - 1
    BY <1>1, <1>3, <2>2, PairedKeys
  <2>4. QED
    BY <2>1, <2>3, OrderAssumption DEF ToBytes48
<1>12. LatestCanSign'
  <2>1. ASSUME n > L
        PROVE  /\ ordered' = [i \in DOMAIN f.pubs |-> ToBytes48(f.pubs[i])]
               /\ \A i \in DOMAIN ordered' : ordered'[i] \in DOMAIN secrets'
    <3>1. n = L + 1
      BY <1>3, <1>4, <2>1
    <3>2. ordered' = [i \in DOMAIN f.pubs |-> ToBytes48(f.pubs[i])]
      BY <1>2, <1>3, <3>1
    <3>3. \A i \in DOMAIN ordered' : i \in 1..n - 1
      BY <1>3, <3>1, <3>2
    <3>4. QED
      BY <1>5, <1>6, <3>2, <3>3
  <2>2. \A l \in Managers : cacheBy' = l /\ kpc'[l] = "ready" => l = k /\ n > L
    BY <1>2, <1>9
  <2>3. QED
    BY <1>2, <2>1, <2>2 DEF LatestCanSign
<1>13. QED
  BY <1>7, <1>8, <1>9, <1>10, <1>11, <1>12

\* ReadFileAtPath and ReadKeystore hand on a keystore with as many secret keys as
\* public ones.
LEMMA LoadStep ==
    ASSUME TypeOK, Loaded, LatestCanSign, NEW k \in Managers,
           HasAccounts(k) \/ MkdirAll(k) \/ AccountsFail(k) \/ Glob(k) \/ ReadKeystore(k)
    PROVE  /\ kpc' \in [Managers -> {"none", "mkdir", "glob", "read", "caches", "ready", "failed"}]
           /\ store' \in [Managers -> Keystores \cup {Empty}]
           /\ Loaded' /\ LatestCanSign'
<1>1. /\ kpc[k] \in {"none", "mkdir", "glob", "read"} /\ UNCHANGED <<cacheBy, ordered, secrets>>
      /\ \/ /\ store' = store
            /\ \E x \in {"mkdir", "glob", "read", "ready", "failed"} : kpc' = [kpc EXCEPT ![k] = x]
         \/ /\ file # NoFile /\ Len(file.pubs) = Len(file.privs)
            /\ store' = [store EXCEPT ![k] = file]
            /\ \E x \in {"caches", "failed"} : kpc' = [kpc EXCEPT ![k] = x]
  BY DEF HasAccounts, MkdirAll, AccountsFail, Glob, ReadKeystore
<1>2. file \in Keystores \cup {NoFile}
  BY DEF TypeOK
<1>3. /\ kpc' \in [Managers -> {"none", "mkdir", "glob", "read", "caches", "ready", "failed"}]
      /\ store' \in [Managers -> Keystores \cup {Empty}]
  BY <1>1, <1>2 DEF TypeOK
<1>4. /\ \A l \in Managers : l # k => kpc'[l] = kpc[l] /\ store'[l] = store[l]
      /\ \/ store'[k] = store[k] /\ kpc'[k] \in {"mkdir", "glob", "read", "ready", "failed"}
         \/ Len(store'[k].pubs) = Len(store'[k].privs) /\ kpc'[k] \in {"caches", "failed"}
  BY <1>1, <1>2 DEF TypeOK
<1>5. store[k] = Empty /\ cacheBy # k
  BY <1>1 DEF Loaded
<1>6. Loaded'
  <2>1. /\ Len(Empty.pubs) = Len(Empty.privs)
        /\ \A i \in DOMAIN Empty.privs : Good(Empty.privs[i])
    BY DEF Empty
  <2>2. QED
    BY <1>1, <1>4, <1>5, <2>1 DEF Loaded
<1>7. LatestCanSign'
  BY <1>1, <1>4, <1>5 DEF LatestCanSign
<1>8. QED
  BY <1>3, <1>6, <1>7

-----------------------------------------------------------------------------
(* Signatures.                                                              *)

\* What the arithmetic of the group returns.
LEMMA GroupType ==
    /\ \A x \in Nat : x % Q \in Points
    /\ \A x \in Points : x \in Nat /\ x % Q = x
    /\ \A x \in 1..Q - 1 : x \in Points
<1> USE OrderAssumption DEF Points
<1>1. \A x \in Nat : x % Q \in Points
  OBVIOUS
<1>2. \A x \in Points : x \in Nat /\ x % Q = x
  OBVIOUS
<1>3. QED
  BY <1>1, <1>2

\* Signatures are functions from messages to points.
LEMMA SigType ==
    /\ \A s \in Points : \A m : SignMsg(s, m) \in [Messages -> Points]
    /\ \A s, t \in [Messages -> Points] : AddSig(s, t) \in [Messages -> Points]
<1>1. ASSUME NEW s \in Points, NEW m PROVE SignMsg(s, m) \in [Messages -> Points]
  <2>1. 0 \in Points
    BY OrderAssumption DEF Points
  <2>2. ZeroSig \in [Messages -> Points]
    BY <2>1 DEF ZeroSig
  <2>3. QED
    BY <2>2 DEF SignMsg
<1>2. ASSUME NEW s \in [Messages -> Points], NEW t \in [Messages -> Points]
      PROVE  AddSig(s, t) \in [Messages -> Points]
  <2>1. \A m \in Messages : s[m] + t[m] \in Nat
    BY GroupType
  <2>2. QED
    BY <2>1, GroupType DEF AddSig
<1>3. QED
  BY <1>1, <1>2

\* Sign adds the signature of the key it was asked for.
LEMMA SignStep ==
    ASSUME TypeOK, Loaded, KeysMatch, Signed, NEW k \in Managers,
           NEW n \in DOMAIN store[k].pubs, NEW slot \in Slots, Sign(k, n, slot)
    PROVE  sigs' \in Seq(Sig) /\ Len(sigs') <= MaxSigs /\ Signed'
<1> DEFINE f == store[k]
           b == f.pubs[n]
           x == ToBytes48(b)
           new == [pub |-> b, slot |-> slot, parts |-> <<>>, val |-> SignMsg(secrets[x], Hash(slot))]
<1>1. f \in Keystores \cup {Empty} /\ f.pubs \in Seq(ByteString) /\ f.privs \in Seq(ByteString)
  <2>1. f \in Keystores \cup {Empty}
    BY DEF TypeOK
  <2>2. QED
    BY <2>1, KeystoreType
<1>2. /\ kpc[k] = "ready" /\ Len(sigs) < MaxSigs /\ x \in DOMAIN secrets
      /\ sigs' = Append(sigs, new)
  BY DEF Sign
<1>3. b \in ByteString
  BY <1>1
<1>4. secrets[x] \in 1..Q - 1 /\ sigs \in Seq(Sig)
  BY <1>2 DEF TypeOK
<1>5. new \in Sig
  <2>1. SignMsg(secrets[x], Hash(slot)) \in [Messages -> Points]
    BY <1>4, GroupType, SigType
  <2>2. <<>> \in Seq(Nat)
    OBVIOUS
  <2>3. QED
    BY <1>3, <2>1, <2>2 DEF Sig
<1>6. /\ sigs' \in Seq(Sig) /\ Len(sigs') = Len(sigs) + 1 /\ Len(sigs) \in Nat
      /\ DOMAIN sigs = 1..Len(sigs) /\ DOMAIN sigs' = 1..Len(sigs) + 1
      /\ sigs'[Len(sigs) + 1] = new
      /\ \A i \in DOMAIN sigs : sigs'[i] = sigs[i]
  <2> HIDE DEF new
  <2>1. QED
    BY <1>2, <1>4, <1>5
<1>7. Len(sigs') <= MaxSigs
  BY <1>2, <1>6, WalletAssumption
<1>8. Paired => b.v \in 1..Q - 1 /\ secrets[x] = b.v
  <2> SUFFICES ASSUME Paired PROVE b.v \in 1..Q - 1 /\ secrets[x] = b.v
    OBVIOUS
  <2>1. Len(f.pubs) = Len(f.privs) /\ n \in 1..Len(f.privs) /\ Good(f.privs[n])
    BY <1>1, <1>2 DEF Loaded
  <2>2. b.v \in 1..Q - 1
    BY <1>1, <2>1, PairedKeys
  <2>3. secrets[x] = IF x < Q THEN x ELSE x - Q
    BY <1>2 DEF KeysMatch
  <2>4. QED
    BY <2>2, <2>3, OrderAssumption DEF ToBytes48
<1>9. Signed'
  <2> SUFFICES ASSUME NEW a \in DOMAIN sigs'
               PROVE  /\ sigs'[a].parts = <<>> /\ Paired =>
                            /\ sigs'[a].pub.v \in 1..Q - 1
                            /\ sigs'[a].val = SignMsg(sigs'[a].pub.v, Hash(sigs'[a].slot))
                      /\ sigs'[a].parts # <<>> => \E i, j \in DOMAIN sigs' :
                            /\ sigs'[a].parts = <<i, j>> /\ sigs'[i].parts = <<>> /\ sigs'[j].parts = <<>>
                            /\ sigs'[a].val = AddSig(sigs'[i].val, sigs'[j].val)
    BY DEF Signed, Paired
  <2>1. CASE a \in DOMAIN sigs
    BY <1>6, <2>1 DEF Signed
  <2>2. CASE a = Len(sigs) + 1
    BY <1>6, <1>8, <2>2
  <2>3. QED
    BY <1>6, <2>1, <2>2
<1>10. QED
  BY <1>6, <1>7, <1>9

\* AggregateSignatures adds the sum of two signatures it leaves alone.
LEMMA AggregateStep ==
    ASSUME TypeOK, Signed, NEW p \in DOMAIN sigs, NEW q \in DOMAIN sigs, AggregateSignatures(p, q)
    PROVE  sigs' \in Seq(Sig) /\ Len(sigs') <= MaxSigs /\ Signed'
<1> DEFINE new == [sigs[p] EXCEPT !.val = AddSig(sigs[p].val, sigs[q].val), !.parts = <<p, q>>]
<1>1. /\ Len(sigs) < MaxSigs /\ sigs[p].parts = <<>> /\ sigs[q].parts = <<>>
      /\ sigs' = Append(sigs, new)
  BY DEF AggregateSignatures
<1>2. sigs \in Seq(Sig) /\ sigs[p] \in Sig /\ sigs[q] \in Sig /\ p \in Nat /\ q \in Nat
  <2>1. sigs \in Seq(Sig)
    BY DEF TypeOK
  <2>2. QED
    BY <2>1
<1>3. /\ new \in Sig /\ new.parts = <<p, q>> /\ new.val = AddSig(sigs[p].val, sigs[q].val)
  <2>1. AddSig(sigs[p].val, sigs[q].val) \in [Messages -> Points]
    BY <1>2, SigType DEF Sig
  <2>2. <<p, q>> \in Seq(Nat)
    BY <1>2
  <2>3. QED
    BY <1>2, <2>1, <2>2 DEF Sig
<1>4. /\ sigs' \in Seq(Sig) /\ Len(sigs') = Len(sigs) + 1 /\ Len(sigs) \in Nat
      /\ DOMAIN sigs = 1..Len(sigs) /\ DOMAIN sigs' = 1..Len(sigs) + 1
      /\ sigs'[Len(sigs) + 1] = new
      /\ \A i \in DOMAIN sigs : sigs'[i] = sigs[i]
  <2> HIDE DEF new
  <2>1. QED
    BY <1>1, <1>2, <1>3
<1>5. Len(sigs') <= MaxSigs
  BY <1>1, <1>4, WalletAssumption
<1>6. Signed'
  <2> SUFFICES ASSUME NEW a \in DOMAIN sigs'
               PROVE  /\ sigs'[a].parts = <<>> /\ Paired =>
                            /\ sigs'[a].pub.v \in 1..Q - 1
                            /\ sigs'[a].val = SignMsg(sigs'[a].pub.v, Hash(sigs'[a].slot))
                      /\ sigs'[a].parts # <<>> => \E i, j \in DOMAIN sigs' :
                            /\ sigs'[a].parts = <<i, j>> /\ sigs'[i].parts = <<>> /\ sigs'[j].parts = <<>>
                            /\ sigs'[a].val = AddSig(sigs'[i].val, sigs'[j].val)
    BY DEF Signed, Paired
  <2>1. CASE a \in DOMAIN sigs
    BY <1>4, <2>1 DEF Signed
  <2>2. CASE a = Len(sigs) + 1
    <3>1. sigs'[a].parts = <<p, q>>
      BY <1>3, <1>4, <2>2
    <3>2. /\ p \in DOMAIN sigs' /\ q \in DOMAIN sigs'
          /\ sigs'[p].parts = <<>> /\ sigs'[q].parts = <<>>
          /\ sigs'[a].val = AddSig(sigs'[p].val, sigs'[q].val)
      BY <1>1, <1>3, <1>4, <2>2
    <3>3. <<p, q>> # <<>>
      OBVIOUS
    <3>4. QED
      BY <3>1, <3>2, <3>3
  <2>3. QED
    BY <1>4, <2>1, <2>2
<1>7. QED
  BY <1>4, <1>5, <1>6

-----------------------------------------------------------------------------
(* Public key objects.                                                      *)

\* PublicKeyFromBytes with its cache gives a key its own point, and keeps an object of
\* its own for it at most.
LEMMA CacheSetRight ==
    ASSUME TypeOK, Unshared, CacheClean, NEW b, DeserializePublicKey(b) # {}, CacheSet(b)
    PROVE  /\ b.v \in 1..Q - 1 /\ PublicKeyValue(b) = b.v /\ b.v \in Points
           /\ DOMAIN cached \subseteq DOMAIN cached'
           /\ DOMAIN cached' \subseteq DOMAIN cached \cup {b.v}
           /\ \A v \in DOMAIN cached : cached'[v] = cached[v]
           /\ \A v \in DOMAIN cached' : cached'[v] \in Refs /\ (acc \in Refs => cached'[v] # acc)
           /\ \A v, w \in DOMAIN cached' : cached'[v] = cached'[w] => v = w
<1>1. b.v \in 1..Q - 1
  BY DEF DeserializePublicKey
<1>2. PublicKeyValue(b) = b.v /\ b.v \in Points
  BY <1>1, GroupType DEF PublicKeyValue, CacheClean
<1>3. CASE cached' = cached
  BY <1>1, <1>2, <1>3 DEF TypeOK, Unshared
<1>4. ASSUME b.v \notin DOMAIN cached, NEW r \in Refs \ InUse,
             cached' = [x \in DOMAIN cached \cup {b.v} |-> IF x = b.v THEN r ELSE cached[x]]
      PROVE  /\ DOMAIN cached' = DOMAIN cached \cup {b.v}
             /\ \A v \in DOMAIN cached : cached'[v] = cached[v]
             /\ \A v \in DOMAIN cached' : cached'[v] \in Refs /\ cached'[v] # acc
             /\ \A v, w \in DOMAIN cached' : cached'[v] = cached'[w] => v = w
  <2>1. r \in Refs /\ r # acc /\ \A v \in DOMAIN cached : cached[v] # r
    BY <1>4 DEF InUse
  <2>2. /\ DOMAIN cached' = DOMAIN cached \cup {b.v} /\ cached'[b.v] = r
        /\ \A v \in DOMAIN cached : cached'[v] = cached[v]
    BY <1>4
  <2>3. QED
    BY <2>1, <2>2 DEF TypeOK, Unshared
<1>5. QED
  <2>1. b.v \in DOMAIN cached => cached' = cached
    BY DEF CacheSet
  <2>2. b.v \notin DOMAIN cached =>
           \/ cached' = cached
           \/ \E r \in Refs \ InUse : cached' = [x \in DOMAIN cached \cup {b.v} |->
                                                    IF x = b.v THEN r ELSE cached[x]]
    BY DEF CacheSet
  <2>3. QED
    BY <1>1, <1>2, <1>3, <1>4, <2>1, <2>2

\* Aggregating keys changes no object but the aggregate's own.
LEMMA KeyStep ==
    ASSUME TypeOK, Unshared, CacheClean, NEW b, FirstKey(b) \/ NextKey(b)
    PROVE  /\ objs' \in [Refs -> Points] /\ acc' \in Refs \cup {None}
           /\ \A v \in DOMAIN cached' : cached'[v] \in Refs
           /\ Unshared' /\ CacheClean'
<1>1. DeserializePublicKey(b) # {} /\ CacheSet(b)
  BY DEF FirstKey, NextKey
<1>2. /\ PublicKeyValue(b) = b.v /\ b.v \in Points
      /\ DOMAIN cached \subseteq DOMAIN cached'
      /\ DOMAIN cached' \subseteq DOMAIN cached \cup {b.v}
      /\ \A v \in DOMAIN cached : cached'[v] = cached[v]
      /\ \A v \in DOMAIN cached' : cached'[v] \in Refs /\ (acc \in Refs => cached'[v] # acc)
      /\ \A v, w \in DOMAIN cached' : cached'[v] = cached'[w] => v = w
  BY <1>1, CacheSetRight
<1>3. acc \in Refs \cup {None} /\ None \notin Refs /\ objs \in [Refs -> Points]
  BY WalletAssumption DEF TypeOK
<1>4. PICK p \in Refs, z \in Points :
         /\ acc' = p /\ \A v \in DOMAIN cached' : cached'[v] # p
         /\ objs' = [r \in Refs |-> IF r = p THEN z
                                    ELSE IF b.v \in DOMAIN cached' /\ r = cached'[b.v] THEN b.v
                                    ELSE objs[r]]
  <2>1. CASE FirstKey(b)
    BY <1>2, <2>1 DEF FirstKey
  <2>2. CASE NextKey(b)
    <3> DEFINE z == AddPoint(objs[acc], b.v)
    <3>1. acc \in Refs /\ acc' = acc
      BY <1>3, <2>2 DEF NextKey
    <3>2. z \in Points
      <4>1. objs[acc] + b.v \in Nat
        BY <1>2, <1>3, <3>1, GroupType
      <4>2. QED
        BY <4>1, GroupType DEF AddPoint
    <3>3. objs' = [r \in Refs |-> IF r = acc THEN z
                                  ELSE IF b.v \in DOMAIN cached' /\ r = cached'[b.v] THEN b.v
                                  ELSE objs[r]]
      BY <1>2, <2>2 DEF NextKey
    <3> HIDE DEF z
    <3>4. QED
      BY <1>2, <3>1, <3>2, <3>3
  <2>3. QED
    BY <2>1, <2>2
<1>5. objs' \in [Refs -> Points]
  BY <1>2, <1>3, <1>4
<1>6. Unshared'
  BY <1>2, <1>4 DEF Unshared
<1>7. CacheClean'
  <2> SUFFICES ASSUME NEW v \in DOMAIN cached' PROVE objs'[cached'[v]] = v
    BY DEF CacheClean
  <2>1. CASE v = b.v
    BY <1>2, <1>4, <2>1
  <2>2. CASE v # b.v
    <3>1. v \in DOMAIN cached /\ cached'[v] = cached[v] /\ cached'[v] \in Refs
      BY <1>2, <2>2
    <3>2. b.v \in DOMAIN cached' => cached'[v] # cached'[b.v]
      BY <1>2, <2>2
    <3>3. QED
      BY <1>4, <3>1, <3>2 DEF CacheClean
  <2>3. QED
    BY <2>1, <2>2
<1>8. QED
  BY <1>2, <1>4, <1>5, <1>6, <1>7

\* An aggregate or a cache entry that goes takes only its own object along.
LEMMA DropStep ==
    ASSUME TypeOK, Unshared, CacheClean, Release \/ \E v \in DOMAIN cached : Evict(v)
    PROVE  /\ objs' \in [Refs -> Points] /\ acc' \in Refs \cup {None}
           /\ \A v \in DOMAIN cached' : cached'[v] \in Refs
           /\ Unshared' /\ CacheClean'
<1>1. /\ acc \in Refs \cup {None} /\ None \notin Refs /\ objs \in [Refs -> Points]
      /\ \A v \in DOMAIN cached : cached[v] \in Refs
      /\ 0 \in Points
  BY WalletAssumption, OrderAssumption DEF TypeOK, Points
<1>2. CASE Release
  <2>1. acc' = None /\ cached' = cached /\ acc \in Refs /\ objs' = [objs EXCEPT ![acc] = 0]
    BY <1>1, <1>2 DEF Release, Unshared
  <2>2. Unshared'
    BY <1>1, <2>1 DEF Unshared
  <2>3. CacheClean'
    BY <1>1, <2>1 DEF Unshared, CacheClean
  <2>4. QED
    BY <1>1, <2>1, <2>2, <2>3
<1>3. ASSUME NEW v \in DOMAIN cached, Evict(v)
      PROVE  /\ objs' \in [Refs -> Points] /\ acc' \in Refs \cup {None}
             /\ \A w \in DOMAIN cached' : cached'[w] \in Refs
             /\ Unshared' /\ CacheClean'
  <2>1. /\ cached' = [x \in DOMAIN cached \ {v} |-> cached[x]] /\ acc' = acc
        /\ objs' = [objs EXCEPT ![cached[v]] = 0]
    BY <1>3 DEF Evict, Drop, Unshared
  <2>2. /\ DOMAIN cached' = DOMAIN cached \ {v}
        /\ \A w \in DOMAIN cached' : cached'[w] = cached[w] /\ cached[w] # cached[v]
    BY <2>1 DEF Unshared
  <2>3. Unshared'
    BY <2>1, <2>2 DEF Unshared
  <2>4. CacheClean'
    BY <1>1, <2>1, <2>2 DEF CacheClean
  <2>5. QED
    BY <1>1, <2>1, <2>2, <2>3, <2>4
<1>4. QED
  BY <1>2, <1>3

-----------------------------------------------------------------------------
(* OpenWallet and the directory.                                            *)

\* The types of OpenWallet, of the directory and of the keystore file.
DirType ==
    /\ plain \in BOOLEAN
    /\ dir \subseteq Kinds \cup {".", "file"} /\ (dir # {} => "." \in dir)
    /\ changes \in 0..MaxChanges /\ steady \in BOOLEAN
    /\ opc \in {"stat", "exists", "isValid", "readKind", "opened", "failed"}
    /\ kind \in Kinds \cup {None} /\ (opc = "opened" => kind \in Kinds)
    /\ file \in Keystores \cup {NoFile}

\* A directory without names holds no kind of wallet.
LEMMA NoKinds == \A d : d \cap Kinds = {} => ~IsValid(d)
<1>1. Cardinality({}) # 1
  BY FS_EmptySet
<1>2. QED
  BY <1>1, Zenon DEF IsValid

\* What others do to the directory, and each listing of OpenWallet.
LEMMA DirStep ==
    ASSUME TypeOK, Looked, OpensTheWallet,
           \/ ChangeDir \/ ChangeFile \/ HasDir \/ CheckValid \/ ReadKeymanagerKind \/ OpenFails
           \/ \E k \in Managers : MkdirAll(k)
    PROVE  DirType' /\ Looked' /\ OpensTheWallet'
<1>0. DirType
  BY DEF TypeOK, DirType
<1> USE DEF Looked, DirType
<1>1. CASE ChangeDir
  <2>1. UNCHANGED <<plain, opc, kind>> /\ ~steady' /\ steady' \in BOOLEAN
    BY <1>1 DEF ChangeDir
  <2>2. Looked' /\ OpensTheWallet'
    BY <2>1 DEF OpensTheWallet
  <2>3. dir' \subseteq Kinds \cup {".", "file"} /\ (dir' # {} => "." \in dir')
    BY <1>0, <1>1 DEF ChangeDir, Kinds
  <2>4. changes' \in 0..MaxChanges
    BY <1>0, <1>1, WalletAssumption DEF ChangeDir
  <2>5. file' \in Keystores \cup {NoFile}
    BY <1>0, <1>1 DEF ChangeDir
  <2>6. QED
    BY <1>0, <2>1, <2>2, <2>3, <2>4, <2>5
<1>2. CASE ChangeFile
  <2>1. UNCHANGED <<plain, dir, opc, kind, steady>>
    BY <1>2 DEF ChangeFile
  <2>2. Looked' /\ OpensTheWallet'
    BY <2>1 DEF OpensTheWallet, IsValid
  <2>3. changes' \in 0..MaxChanges
    BY <1>0, <1>2, WalletAssumption DEF ChangeFile
  <2>4. file' \in Keystores \cup {NoFile}
    BY <1>2 DEF ChangeFile
  <2>5. QED
    BY <1>0, <2>1, <2>2, <2>3, <2>4
<1>3. CASE HasDir
  <2>1. UNCHANGED <<plain, dir, changes, kind, file>> /\ steady'
        /\ opc' = IF "." \in dir THEN "exists" ELSE "failed"
    BY <1>3 DEF HasDir
  <2>2. steady' \in BOOLEAN
    BY <1>3 DEF HasDir
  <2>3. opc' = "failed" => ~IsValid(dir)
    BY <1>0, <2>1, NoKinds
  <2>4. Looked' /\ OpensTheWallet'
    BY <2>1, <2>3 DEF OpensTheWallet, IsValid
  <2>5. QED
    BY <1>0, <2>1, <2>2, <2>4
<1>4. CASE CheckValid
  <2>1. /\ UNCHANGED <<plain, dir, changes, kind, steady, file>> /\ opc \in {"exists", "isValid"}
        /\ opc' = IF ~IsValid(dir) THEN "failed" ELSE IF opc = "exists" THEN "isValid" ELSE "readKind"
    BY <1>4 DEF CheckValid
  <2>2. Looked' /\ OpensTheWallet'
    BY <2>1 DEF OpensTheWallet, IsValid
  <2>3. QED
    BY <1>0, <2>1, <2>2
<1>5. CASE ReadKeymanagerKind
  <2>1. UNCHANGED <<plain, dir, changes, steady, file>> /\ opc = "readKind"
    BY <1>5 DEF ReadKeymanagerKind
  <2>2. CASE ~plain \/ dir \cap Kinds = {}
    <3>1. opc' = "failed" /\ kind' = kind
      BY <1>5, <2>2 DEF ReadKeymanagerKind
    <3>2. ~plain \/ ~IsValid(dir)
      BY <2>2, NoKinds
    <3>3. QED
      BY <1>0, <2>1, <3>1, <3>2 DEF OpensTheWallet, IsValid
  <2>3. CASE plain /\ dir \cap Kinds # {}
    <3>1. opc' = "opened" /\ kind' \in dir \cap Kinds
      BY <1>5, <2>3 DEF ReadKeymanagerKind
    <3>2. steady => IsValid(dir)
      BY <2>1
    <3>3. QED
      BY <1>0, <2>1, <2>3, <3>1, <3>2 DEF OpensTheWallet, IsValid
  <2>4. QED
    BY <2>2, <2>3
<1>6. CASE OpenFails
  BY <1>0, <1>6 DEF OpenFails, OpensTheWallet
<1>7. ASSUME NEW k \in Managers, MkdirAll(k) PROVE DirType' /\ Looked' /\ OpensTheWallet'
  <2>1. /\ UNCHANGED <<plain, changes, opc, kind, steady, file>> /\ opc = "opened" /\ kind \in Kinds
        /\ dir' = dir \cup {".", kind}
    BY <1>0, <1>7 DEF MkdirAll
  <2>2. steady => IsValid(dir) /\ kind \in dir
    BY <2>1 DEF OpensTheWallet, IsValid
  <2>3. steady => dir' = dir
    BY <1>0, <2>1, <2>2
  <2>4. Looked' /\ OpensTheWallet'
    BY <2>1, <2>3 DEF OpensTheWallet
  <2>5. QED
    BY <1>0, <2>1, <2>4
<1>8. QED
  BY <1>1, <1>2, <1>3, <1>4, <1>5, <1>6, <1>7

\* Nothing else concerns the directory.
LEMMA DirSame ==
    ASSUME TypeOK, Looked, OpensTheWallet, UNCHANGED dirVars
    PROVE  DirType' /\ Looked' /\ OpensTheWallet'
  BY DEF TypeOK, DirType, Looked, OpensTheWallet, IsValid, dirVars

-----------------------------------------------------------------------------
(* The invariant.                                                           *)

\* WalletInv holds of every reachable state.
THEOREM WalletInvariant == Spec => []WalletInv
<1>1. Init => WalletInv
  <2> SUFFICES ASSUME Init PROVE WalletInv
    OBVIOUS
  <2>1. /\ sigs = <<>> /\ secrets = <<>> /\ ordered = <<>> /\ cached = <<>>
        /\ cacheBy = None /\ acc = None
        /\ \A k \in Managers : kpc[k] = "none" /\ store[k] = Empty
    BY DEF Init
  <2>2. /\ DOMAIN sigs = {} /\ DOMAIN secrets = {} /\ DOMAIN cached = {}
        /\ sigs \in Seq(Sig) /\ Len(sigs) = 0
    BY <2>1
  <2>3. DirType
    BY WalletAssumption DEF Init, DirType, Kinds
  <2>4. TypeOK
    <3>1. objs \in [Refs -> Points]
      BY OrderAssumption DEF Init, Points
    <3>2. kpc \in [Managers -> {"none", "mkdir", "glob", "read", "caches", "ready", "failed"}]
          /\ store \in [Managers -> Keystores \cup {Empty}]
      BY DEF Init
    <3>3. QED
      BY <2>1, <2>2, <2>3, <3>1, <3>2, WalletAssumption DEF TypeOK, DirType
  <2>5. Loaded /\ LatestCanSign
    BY <2>1, WalletAssumption DEF Loaded, LatestCanSign
  <2>6. KeysMatch /\ Signed /\ Unshared /\ CacheClean
    BY <2>2 DEF KeysMatch, Signed, Unshared, CacheClean
  <2>7. Looked /\ OpensTheWallet
    BY DEF Init, Looked, OpensTheWallet
  <2>8. QED
    BY <2>4, <2>5, <2>6, <2>7 DEF WalletInv
<1>2. WalletInv /\ [Next]_vars => WalletInv'
  <2> SUFFICES ASSUME WalletInv, [Next]_vars PROVE WalletInv'
    OBVIOUS
  <2> DEFINE KeyPart ==
                /\ kpc \in [Managers -> {"none", "mkdir", "glob", "read", "caches", "ready", "failed"}]
                /\ store \in [Managers -> Keystores \cup {Empty}]
                /\ DOMAIN secrets \subseteq {ordered[i] : i \in DOMAIN ordered}
                /\ \A v \in DOMAIN secrets : secrets[v] \in 1..Q - 1
                /\ cacheBy \in Managers \cup {None}
                /\ Loaded /\ KeysMatch /\ LatestCanSign
             SigPart == sigs \in Seq(Sig) /\ Len(sigs) <= MaxSigs /\ Signed
             ObjPart ==
                /\ objs \in [Refs -> Points] /\ acc \in Refs \cup {None}
                /\ \A v \in DOMAIN cached : cached[v] \in Refs
                /\ Unshared /\ CacheClean
             DirPart == DirType /\ Looked /\ OpensTheWallet
  <2>0. KeyPart /\ SigPart /\ ObjPart /\ DirPart
    BY DEF WalletInv, TypeOK, DirType
  <2>1. KeyPart' /\ SigPart' /\ ObjPart' /\ DirPart' => WalletInv'
    BY DEF WalletInv, TypeOK, DirType
  <2>2. ASSUME UNCHANGED keyVars PROVE KeyPart'
    <3>1. UNCHANGED <<kpc, store, ordered, secrets, cacheBy>>
      BY <2>2 DEF keyVars
    <3>2. Loaded'
      BY <2>0, <3>1 DEF Loaded
    <3>3. LatestCanSign'
      BY <2>0, <3>1 DEF LatestCanSign
    <3>4. KeysMatch'
      BY <2>0, <3>1 DEF KeysMatch, Paired
    <3>5. QED
      BY <2>0, <3>1, <3>2, <3>3, <3>4
  <2>3. ASSUME UNCHANGED sigs PROVE SigPart'
    <3>1. Signed'
      BY <2>0, <2>3 DEF Signed, Paired
    <3>2. QED
      BY <2>0, <2>3, <3>1
  <2>4. UNCHANGED blsVars => ObjPart'
    BY <2>0 DEF blsVars, Unshared, CacheClean
  <2>5. UNCHANGED dirVars => DirPart'
    BY DirSame DEF WalletInv
  <2> HIDE DEF KeyPart, SigPart, ObjPart, DirPart
  <2>6. CASE ChangeDir \/ ChangeFile \/ HasDir \/ CheckValid \/ ReadKeymanagerKind \/ OpenFails
    <3>1. UNCHANGED <<keyVars, sigs, blsVars>>
      BY <2>6 DEF ChangeDir, ChangeFile, HasDir, CheckValid, ReadKeymanagerKind, OpenFails
    <3>2. DirPart'
      BY <2>6, DirStep DEF WalletInv, DirPart
    <3>3. QED
      BY <2>1, <2>2, <2>3, <2>4, <3>1, <3>2
  <2>7. ASSUME NEW k \in Managers,
               HasAccounts(k) \/ MkdirAll(k) \/ AccountsFail(k) \/ Glob(k) \/ ReadKeystore(k)
        PROVE  WalletInv'
    <3>1. UNCHANGED <<ordered, secrets, cacheBy, sigs, blsVars>>
      BY <2>7 DEF HasAccounts, MkdirAll, AccountsFail, Glob, ReadKeystore
    <3>2. /\ kpc' \in [Managers -> {"none", "mkdir", "glob", "read", "caches", "ready", "failed"}]
          /\ store' \in [Managers -> Keystores \cup {Empty}]
          /\ Loaded' /\ LatestCanSign'
      BY <2>7, LoadStep DEF WalletInv
    <3>3. KeyPart'
      BY <2>0, <3>1, <3>2 DEF KeyPart, KeysMatch, Paired
    <3>4. DirPart'
      <4>1. CASE MkdirAll(k)
        BY <4>1, DirStep DEF WalletInv, DirPart
      <4>2. CASE HasAccounts(k) \/ AccountsFail(k) \/ Glob(k) \/ ReadKeystore(k)
        BY <2>5, <4>2 DEF HasAccounts, AccountsFail, Glob, ReadKeystore
      <4>3. QED
        BY <2>7, <4>1, <4>2
    <3>5. QED
      BY <2>1, <2>3, <2>4, <3>1, <3>3, <3>4
  <2>8. ASSUME NEW k \in Managers, InitializeKeysCaches(k) PROVE WalletInv'
    <3>1. UNCHANGED <<dirVars, store, sigs, blsVars>> /\ cacheBy' = k
      BY <2>8 DEF InitializeKeysCaches
    <3>2. KeyPart'
      BY <2>0, <2>8, <3>1, CachesStep DEF WalletInv, KeyPart
    <3>3. QED
      BY <2>1, <2>3, <2>4, <2>5, <3>1, <3>2
  <2>9. ASSUME NEW k \in Managers, NEW i \in DOMAIN store[k].pubs, NEW slot \in Slots,
               Sign(k, i, slot)
        PROVE  WalletInv'
    <3>1. UNCHANGED <<dirVars, keyVars, blsVars>>
      BY <2>9 DEF Sign
    <3>2. SigPart'
      BY <2>9, SignStep DEF WalletInv, SigPart
    <3>3. QED
      BY <2>1, <2>2, <2>4, <2>5, <3>1, <3>2
  <2>10. ASSUME NEW i \in DOMAIN sigs, NEW j \in DOMAIN sigs, AggregateSignatures(i, j)
         PROVE  WalletInv'
    <3>1. UNCHANGED <<dirVars, keyVars, blsVars>>
      BY <2>10 DEF AggregateSignatures
    <3>2. SigPart'
      BY <2>10, AggregateStep DEF WalletInv, SigPart
    <3>3. QED
      BY <2>1, <2>2, <2>4, <2>5, <3>1, <3>2
  <2>11. ASSUME NEW b \in Bytes, FirstKey(b) \/ NextKey(b) PROVE WalletInv'
    <3>1. UNCHANGED <<dirVars, keyVars, sigs>>
      BY <2>11 DEF FirstKey, NextKey
    <3>2. ObjPart'
      BY <2>11, KeyStep DEF WalletInv, ObjPart
    <3>3. QED
      BY <2>1, <2>2, <2>3, <2>5, <3>1, <3>2
  <2>12. CASE Release \/ \E v \in DOMAIN cached : Evict(v)
    <3>1. UNCHANGED <<dirVars, keyVars, sigs>>
      BY <2>12 DEF Release, Evict
    <3>2. ObjPart'
      BY <2>12, DropStep DEF WalletInv, ObjPart
    <3>3. QED
      BY <2>1, <2>2, <2>3, <2>5, <3>1, <3>2
  <2>13. CASE UNCHANGED vars
    BY <2>1, <2>2, <2>3, <2>4, <2>5, <2>13 DEF vars
  <2>14. QED
    BY <2>6, <2>7, <2>8, <2>9, <2>10, <2>11, <2>12, <2>13 DEF Next
<1>3. QED
  BY <1>1, <1>2, PTL DEF Spec

\* The variables of the wallet package keep their types.
THEOREM WalletTypeCorrect == Spec => []TypeOK
<1>1. WalletInv => TypeOK
  BY DEF WalletInv
<1>2. QED
  BY <1>1, WalletInvariant, PTL

\* No aggregation changes a key in pubkeyCache.
THEOREM KeysUncorrupted == Spec => []CacheClean
<1>1. WalletInv => CacheClean
  BY DEF WalletInv
<1>2. QED
  BY <1>1, WalletInvariant, PTL

\* The keymanager created last finds all of its keys in the shared caches.
THEOREM LatestManagerSigns == Spec => []LatestCanSign
<1>1. WalletInv => LatestCanSign
  BY DEF WalletInv
<1>2. QED
  BY <1>1, WalletInvariant, PTL

\* OpenWallet opens the one wallet there is, if its path needs no expansion, and
\* nothing else, unless somebody changes the directory or it cannot be read.
THEOREM OpensTheRightWallet == Spec => []OpensTheWallet
<1>1. WalletInv => OpensTheWallet
  BY DEF WalletInv
<1>2. QED
  BY <1>1, WalletInvariant, PTL

\* Every signature handed out verifies under the key it was asked for, at any later
\* time, whatever happened to the shared caches.
THEOREM SignaturesVerify == Spec => []SignVerifies
<1>1. ASSUME CacheClean, Signed PROVE SignVerifies
  <2> SUFFICES ASSUME Paired, NEW i \in DOMAIN sigs, sigs[i].parts = <<>>, sigs[i].pub.len = 48
               PROVE  Verifies(sigs[i].pub, sigs[i].slot, sigs[i].val)
    BY DEF SignVerifies
  <2> DEFINE b == sigs[i].pub
  <2>1. b.v \in 1..Q - 1 /\ sigs[i].val = SignMsg(b.v, Hash(sigs[i].slot))
    BY <1>1 DEF Signed
  <2>2. PublicKeyValue(b) = b.v
    BY <1>1 DEF CacheClean, PublicKeyValue
  <2>3. DeserializePublicKey(b) # {}
    BY <2>1 DEF DeserializePublicKey
  <2>4. Verify(sigs[i].val, PublicKeyValue(b), Hash(sigs[i].slot))
    BY <2>1, <2>2 DEF Verify
  <2>5. QED
    BY <2>3, <2>4 DEF Verifies
<1>2. WalletInv => SignVerifies
  BY <1>1 DEF WalletInv
<1>3. QED
  BY <1>2, WalletInvariant, PTL

-----------------------------------------------------------------------------
(* Aggregates.                                                              *)

\* The pairing product of two keys and their messages.
LEMMA PairingTwo ==
    ASSUME NEW ps, NEW msgs, Len(ps) = 2
    PROVE  Pairing(ps, msgs) =
              AddSig(AddSig(ZeroSig, SignMsg(ps[1], msgs[1])), SignMsg(ps[2], msgs[2]))
<1> DEFINE P(f) == f = [k \in 0..Len(ps) |->
                           IF k = 0 THEN ZeroSig ELSE AddSig(f[k - 1], SignMsg(ps[k], msgs[k]))]
           one == AddSig(ZeroSig, SignMsg(ps[1], msgs[1]))
           two == AddSig(one, SignMsg(ps[2], msgs[2]))
           g == [k \in 0..2 |-> IF k = 0 THEN ZeroSig ELSE IF k = 1 THEN one ELSE two]
           h == CHOOSE f : P(f)
<1>1. P(g)
  <2>1. g[0] = ZeroSig /\ g[1] = one /\ g[2] = two
    OBVIOUS
  <2> HIDE DEF g, one, two
  <2>2. \A k \in 0..2 : g[k] = IF k = 0 THEN ZeroSig ELSE AddSig(g[k - 1], SignMsg(ps[k], msgs[k]))
    BY <2>1 DEF one, two
  <2>3. QED
    BY <2>2 DEF g
<1>2. Pairing(ps, msgs) = h[2]
  BY DEF Pairing
<1>3. P(h)
  BY <1>1
<1>4. h[0] = ZeroSig /\ h[1] = AddSig(h[0], SignMsg(ps[1], msgs[1]))
      /\ h[2] = AddSig(h[1], SignMsg(ps[2], msgs[2]))
  <2> HIDE DEF h
  <2>1. QED
    BY <1>3
<1>5. QED
  BY <1>2, <1>4

\* Adding the zero signature, and scaling a signature.
LEMMA SigAlgebra ==
    /\ \A s \in [Messages -> Points] : AddSig(ZeroSig, s) = s
    /\ \A p \in Nat, r \in Nat : \A m : MulSig(SignMsg(p, m), r) = SignMsg((p * r) % Q, m)
<1>1. ASSUME NEW s \in [Messages -> Points] PROVE AddSig(ZeroSig, s) = s
  <2>1. \A m \in Messages : (ZeroSig[m] + s[m]) % Q = s[m]
    BY GroupType DEF ZeroSig
  <2>2. QED
    BY <2>1 DEF AddSig
<1>2. ASSUME NEW p \in Nat, NEW r \in Nat, NEW m
      PROVE  MulSig(SignMsg(p, m), r) = SignMsg((p * r) % Q, m)
  <2>1. \A s : SignMsg(s, m) = [x \in Messages |-> IF x = m THEN s ELSE 0]
    BY DEF SignMsg, ZeroSig
  <2>2. (0 * r) % Q = 0
    BY OrderAssumption
  <2>3. MulSig(SignMsg(p, m), r) = [x \in Messages |-> IF x = m THEN (p * r) % Q ELSE 0]
    BY <2>1, <2>2 DEF MulSig
  <2>4. QED
    BY <2>1, <2>3
<1>3. QED
  BY <1>1, <1>2

\* VerifyMultipleSignatures of two signatures.
LEMMA VerifyTwo ==
    ASSUME NEW ss, NEW msgs, NEW ps, NEW rs, Len(ss) = 2, Len(ps) = 2, Len(msgs) = 2,
           DOMAIN ps = 1..2,
           AddSig(AddSig(ZeroSig, MulSig(ss[1], rs[1])), MulSig(ss[2], rs[2]))
              = AddSig(AddSig(ZeroSig, SignMsg((ps[1] * rs[1]) % Q, msgs[1])),
                       SignMsg((ps[2] * rs[2]) % Q, msgs[2]))
    PROVE  VerifyMultipleSignatures(ss, msgs, ps, rs)
<1> DEFINE P(f) == f = [k \in 0..Len(ss) |->
                           IF k = 0 THEN ZeroSig ELSE AddSig(f[k - 1], MulSig(ss[k], rs[k]))]
           one == AddSig(ZeroSig, MulSig(ss[1], rs[1]))
           two == AddSig(one, MulSig(ss[2], rs[2]))
           g == [k \in 0..2 |-> IF k = 0 THEN ZeroSig ELSE IF k = 1 THEN one ELSE two]
           h == CHOOSE f : P(f)
           qs == [i \in DOMAIN ps |-> (ps[i] * rs[i]) % Q]
<1>1. P(g)
  <2>1. g[0] = ZeroSig /\ g[1] = one /\ g[2] = two
    OBVIOUS
  <2> HIDE DEF g, one, two
  <2>2. \A k \in 0..2 : g[k] = IF k = 0 THEN ZeroSig ELSE AddSig(g[k - 1], MulSig(ss[k], rs[k]))
    BY <2>1 DEF one, two
  <2>3. QED
    BY <2>2 DEF g
<1>2. P(h)
  BY <1>1
<1>3. h[2] = two
  <2> HIDE DEF h
  <2>1. h[0] = ZeroSig /\ h[1] = AddSig(h[0], MulSig(ss[1], rs[1]))
        /\ h[2] = AddSig(h[1], MulSig(ss[2], rs[2]))
    BY <1>2
  <2>2. QED
    BY <2>1
<1>4. Pairing(qs, msgs) = two
  <2>1. Len(qs) = 2 /\ qs[1] = (ps[1] * rs[1]) % Q /\ qs[2] = (ps[2] * rs[2]) % Q
    OBVIOUS
  <2> HIDE DEF qs
  <2>2. QED
    BY <2>1, PairingTwo
<1>5. VerifyMultipleSignatures(ss, msgs, ps, rs) <=> h[2] = Pairing(qs, msgs)
  BY DEF VerifyMultipleSignatures
<1>6. QED
  BY <1>3, <1>4, <1>5

\* An aggregate of any two signatures verifies in each of the three ways there are.
THEOREM AggregatesRight == Spec => []AggregatesVerify
<1>1. ASSUME TypeOK, Signed PROVE AggregatesVerify
  <2> SUFFICES ASSUME Paired, NEW a \in DOMAIN sigs, sigs[a].parts # <<>>
               PROVE  LET part == [n \in DOMAIN sigs[a].parts |-> sigs[sigs[a].parts[n]]]
                          pubs == [n \in DOMAIN part |-> part[n].pub.v]
                          msgs == [n \in DOMAIN part |-> Hash(part[n].slot)]
                      IN /\ AggregateVerify(sigs[a].val, pubs, msgs)
                         /\ msgs[1] = msgs[2] => FastAggregateVerify(sigs[a].val, pubs, msgs[1])
                         /\ \A rs \in [DOMAIN pubs -> Points] :
                               VerifyMultipleSignatures([n \in DOMAIN part |-> part[n].val], msgs, pubs, rs)
    BY DEF AggregatesVerify
  <2>1. PICK i, j \in DOMAIN sigs :
            /\ sigs[a].parts = <<i, j>> /\ sigs[i].parts = <<>> /\ sigs[j].parts = <<>>
            /\ sigs[a].val = AddSig(sigs[i].val, sigs[j].val)
    BY <1>1 DEF Signed
  <2> DEFINE part == [n \in DOMAIN sigs[a].parts |-> sigs[sigs[a].parts[n]]]
             pubs == [n \in DOMAIN part |-> part[n].pub.v]
             msgs == [n \in DOMAIN part |-> Hash(part[n].slot)]
             vals == [n \in DOMAIN part |-> part[n].val]
             p == sigs[i].pub.v
             q == sigs[j].pub.v
             m == Hash(sigs[i].slot)
             l == Hash(sigs[j].slot)
  <2>2. /\ p \in 1..Q - 1 /\ sigs[i].val = SignMsg(p, m)
        /\ q \in 1..Q - 1 /\ sigs[j].val = SignMsg(q, l)
    BY <1>1, <2>1 DEF Signed
  <2>3. p \in Points /\ q \in Points /\ p \in Nat /\ q \in Nat
    BY <2>2, GroupType
  <2>4. /\ DOMAIN part = 1..2 /\ part[1] = sigs[i] /\ part[2] = sigs[j]
    BY <2>1
  <2>5. /\ pubs = <<p, q>> /\ msgs = <<m, l>> /\ vals = <<SignMsg(p, m), SignMsg(q, l)>>
    <3> HIDE DEF part
    <3>1. QED
      BY <2>2, <2>4
  <2>6. sigs[a].val = AddSig(AddSig(ZeroSig, SignMsg(p, m)), SignMsg(q, l))
    BY <2>1, <2>2, <2>3, SigType, SigAlgebra
  <2> HIDE DEF part, pubs, msgs, vals, p, q, m, l
  <2>7. AggregateVerify(sigs[a].val, pubs, msgs)
    <3>1. Pairing(pubs, msgs) = sigs[a].val
      BY <2>5, <2>6, PairingTwo
    <3>2. QED
      BY <2>5, <3>1 DEF AggregateVerify
  <2>8. ASSUME msgs[1] = msgs[2] PROVE FastAggregateVerify(sigs[a].val, pubs, msgs[1])
    <3> DEFINE same == [n \in DOMAIN pubs |-> msgs[1]]
    <3>1. same[1] = m /\ same[2] = l /\ pubs[1] = p /\ pubs[2] = q /\ Len(pubs) = 2
      BY <2>5, <2>8
    <3> HIDE DEF same
    <3>2. Pairing(pubs, same) = sigs[a].val
      BY <2>6, <3>1, PairingTwo
    <3>3. QED
      BY <3>1, <3>2 DEF FastAggregateVerify, same
  <2>9. ASSUME NEW rs \in [DOMAIN pubs -> Points]
        PROVE  VerifyMultipleSignatures(vals, msgs, pubs, rs)
    <3>1. rs[1] \in Nat /\ rs[2] \in Nat
      BY <2>5, GroupType
    <3>2. /\ MulSig(SignMsg(p, m), rs[1]) = SignMsg((p * rs[1]) % Q, m)
          /\ MulSig(SignMsg(q, l), rs[2]) = SignMsg((q * rs[2]) % Q, l)
      BY <2>3, <3>1, SigAlgebra
    <3>3. /\ Len(vals) = 2 /\ Len(pubs) = 2 /\ Len(msgs) = 2 /\ DOMAIN pubs = 1..2
          /\ vals[1] = SignMsg(p, m) /\ vals[2] = SignMsg(q, l)
          /\ pubs[1] = p /\ pubs[2] = q /\ msgs[1] = m /\ msgs[2] = l
      BY <2>5
    <3>4. QED
      BY <3>2, <3>3, VerifyTwo
  <2>10. QED
    BY <2>7, <2>8, <2>9 DEF part, pubs, msgs, vals
<1>2. WalletInv => AggregatesVerify
  BY <1>1 DEF WalletInv
<1>3. QED
  BY <1>2, WalletInvariant, PTL
=============================================================================
