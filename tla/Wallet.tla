------------------------------- MODULE Wallet -------------------------------
(***************************************************************************)
(* Opening a wallet and signing with its keys: OpenWallet and ReadFileAtPath  *)
(* (wallet/wallet.go), keymanagers and the key caches of the package that     *)
(* they all share (wallet/keymanager.go), and the cache of public keys        *)
(* (bls/herumi/public_key.go), whose entries are objects that Aggregate       *)
(* changes in place.  The wallet directory and the keystore file may be       *)
(* changed by others between any two steps.                                  *)
(***************************************************************************)
EXTENDS Bls, FiniteSets

CONSTANTS
    Managers,   \* keymanagers, created by goroutines of their own
    Keystores,  \* contents of the keystore file: [readable, disabled, pubs, privs]
    NoFile,     \* there is no keystore file
    Slots,      \* SlotInfos to be signed
    Refs,       \* public key objects
    None,       \* no object, no keymanager
    MaxChanges, \* bound: changes of the directory and the file by others
    MaxSigs     \* bound: signatures held

ASSUME WalletAssumption ==
    /\ Keystores \subseteq [readable : BOOLEAN, disabled : BOOLEAN,
                             pubs : Seq(ByteString), privs : Seq(ByteString)]
    /\ NoFile \notin Keystores /\ None \notin Refs /\ None \notin Managers
    /\ MaxChanges \in Nat /\ MaxSigs \in Nat

VARIABLES
    plain,      \* Config.WalletDir has no ~ and no $VAR: ExpandPath names the same directory
    dir,        \* names in the wallet directory; "." says that it exists
    changes,
    opc, kind,  \* OpenWallet: the listing it is at, the kind it found
    steady,     \* history: the directory has neither changed nor failed to be read since
    file,       \* the keystore file
    kpc, store, \* NewKeymanager: where it is; accountsStore
    ordered,    \* orderedPublicKeys, 0 for a zero key
    secrets,    \* secretKeysCache
    cacheBy,    \* history: the keymanager that wrote the caches last
    sigs,       \* signatures: [pub, slot, val, parts]
    objs,       \* the point of each object
    cached,     \* pubkeyCache: the object kept for a public key
    acc         \* the p of AggregatePublicKeys

dirVars == <<plain, dir, changes, opc, kind, steady, file>>
keyVars == <<kpc, store, ordered, secrets, cacheBy>>
blsVars == <<objs, cached, acc>>
vars == <<dirVars, keyVars, sigs, blsVars>>

Kinds == {"derived", "direct", "remote"}
Empty == [readable |-> TRUE, disabled |-> TRUE, pubs |-> <<>>, privs |-> <<>>]

\* parts names the signatures an aggregate was made of
Sig == [pub : ByteString, slot : Slots, val : [Messages -> Points], parts : Seq(Nat)]

TypeOK ==
    /\ plain \in BOOLEAN
    /\ dir \subseteq Kinds \cup {".", "file"} /\ (dir # {} => "." \in dir)
    /\ changes \in 0..MaxChanges /\ steady \in BOOLEAN
    /\ opc \in {"stat", "exists", "isValid", "readKind", "opened", "failed"}
    /\ kind \in Kinds \cup {None} /\ (opc = "opened" => kind \in Kinds)
    /\ file \in Keystores \cup {NoFile}
    /\ kpc \in [Managers -> {"none", "mkdir", "glob", "read", "caches", "ready", "failed"}]
    /\ store \in [Managers -> Keystores \cup {Empty}]
    /\ DOMAIN secrets \subseteq {ordered[i] : i \in DOMAIN ordered}
    /\ \A v \in DOMAIN secrets : secrets[v] \in 1..Q - 1
    /\ cacheBy \in Managers \cup {None}
    /\ sigs \in Seq(Sig)
    /\ Len(sigs) <= MaxSigs
    /\ objs \in [Refs -> Points]
    /\ \A v \in DOMAIN cached : cached[v] \in Refs
    /\ acc \in Refs \cup {None}

Init ==
    /\ plain \in BOOLEAN
    /\ dir \in {{}, {"."}, {".", "direct"}, {".", "direct", "file"}, {".", "direct", "remote"}}
    /\ changes = 0 /\ opc = "stat" /\ kind = None /\ steady = TRUE
    /\ file \in IF "direct" \in dir THEN Keystores \cup {NoFile} ELSE {NoFile}
    /\ kpc = [k \in Managers |-> "none"] /\ store = [k \in Managers |-> Empty]
    /\ ordered = <<>> /\ secrets = <<>> /\ cacheBy = None
    /\ sigs = <<>>
    /\ objs = [r \in Refs |-> 0] /\ cached = <<>> /\ acc = None

-----------------------------------------------------------------------------
(* The file system, changed by others.                                      *)

\* A directory or file appears, or goes with all that is in it.  "file" is any name
\* that ParseKind refuses, "imported" too; a kind's directory has the accounts in it.
ChangeDir ==
    /\ changes < MaxChanges
    /\ changes' = changes + 1
    /\ \E n \in Kinds \cup {"file"} :
          dir' = IF n \in dir THEN dir \ {n} ELSE dir \cup {".", n}
    /\ file' = IF kind \in dir \ dir' THEN NoFile ELSE file
    /\ steady' = FALSE
    /\ UNCHANGED <<plain, opc, kind, keyVars, sigs, blsVars>>

ChangeFile ==
    /\ changes < MaxChanges /\ kind \in dir
    /\ changes' = changes + 1
    /\ \E f \in Keystores : f # file /\ file' = f
    /\ UNCHANGED <<plain, dir, opc, kind, steady, keyVars, sigs, blsVars>>

-----------------------------------------------------------------------------
(* OpenWallet.                                                              *)

\* Mutant of IsValid: any number of kinds is fine.
IsValidAny(names) == names \cap Kinds # {}

\* IsValid: ParseKind accepts exactly one of the names.
IsValid(names) == Cardinality(names \cap Kinds) = 1

\* Exists: fileutil.HasDir, which expands the path, ...
HasDir ==
    /\ opc = "stat"
    /\ opc' = IF "." \in dir THEN "exists" ELSE "failed"
    /\ steady' = TRUE
    /\ UNCHANGED <<plain, dir, changes, kind, file, keyVars, sigs, blsVars>>

\* ... and IsValid, which expands it too; OpenWallet then calls IsValid once more.
CheckValid ==
    /\ opc \in {"exists", "isValid"}
    /\ opc' = IF ~IsValid(dir) THEN "failed" ELSE IF opc = "exists" THEN "isValid" ELSE "readKind"
    /\ UNCHANGED <<plain, dir, changes, kind, steady, file, keyVars, sigs, blsVars>>

\* readKeymanagerKindFromWalletPath opens the path as it was given (nothing is taken
\* to be there if that has a ~ or a $VAR), and takes the first kind in directory order.
ReadKeymanagerKind ==
    /\ opc = "readKind"
    /\ IF ~plain \/ dir \cap Kinds = {} THEN opc' = "failed" /\ UNCHANGED kind
       ELSE opc' = "opened" /\ kind' \in dir \cap Kinds
    /\ UNCHANGED <<plain, dir, changes, steady, file, keyVars, sigs, blsVars>>

\* Stat, Open or Readdirnames returns an error that is not "no such file".
OpenFails ==
    /\ opc \in {"stat", "exists", "isValid", "readKind"}
    /\ opc' = "failed" /\ steady' = FALSE
    /\ UNCHANGED <<plain, dir, changes, kind, file, keyVars, sigs, blsVars>>

-----------------------------------------------------------------------------
(* Keymanagers.                                                             *)

\* ReadFileAtPath: HasDir of the accounts directory, ...
HasAccounts(k) ==
    /\ opc = "opened" /\ kpc[k] = "none"
    /\ kpc' = [kpc EXCEPT ![k] = IF kind \in dir THEN "glob" ELSE "mkdir"]
    /\ UNCHANGED <<dirVars, store, ordered, secrets, cacheBy, sigs, blsVars>>

\* ... MkdirAll if it is not there, ...
MkdirAll(k) ==
    /\ opc = "opened" /\ kpc[k] = "mkdir"
    /\ kpc' = [kpc EXCEPT ![k] = "glob"]
    /\ dir' = dir \cup {".", kind}
    /\ UNCHANGED <<plain, changes, opc, kind, steady, file, store, ordered, secrets, cacheBy,
                   sigs, blsVars>>

\* ... either of which may fail, ...
AccountsFail(k) ==
    /\ opc = "opened" /\ kpc[k] \in {"none", "mkdir"}
    /\ kpc' = [kpc EXCEPT ![k] = "failed"]
    /\ UNCHANGED <<dirVars, store, ordered, secrets, cacheBy, sigs, blsVars>>

\* ... and Glob.  No match means a keymanager without keys; a directory that Glob
\* cannot read has no match either.
Glob(k) ==
    /\ kpc[k] = "glob"
    /\ \/ kpc' = [kpc EXCEPT ![k] = "ready"]
       \/ kind \in dir /\ file # NoFile /\ kpc' = [kpc EXCEPT ![k] = "read"]
    /\ UNCHANGED <<dirVars, store, ordered, secrets, cacheBy, sigs, blsVars>>

\* ReadFile, and initializeAccountKeystore up to its use of the caches.  A file that
\* is gone again or cannot be read, decoded or decrypted, unequal numbers of keys
\* and a malformed disabled key mean no keymanager, no keys one without keys.
ReadKeystore(k) ==
    /\ kpc[k] = "read"
    /\ IF file = NoFile \/ ~file.readable \/ Len(file.pubs) # Len(file.privs)
       THEN kpc' = [kpc EXCEPT ![k] = "failed"] /\ UNCHANGED store
       ELSE IF file.pubs = <<>>
       THEN kpc' = [kpc EXCEPT ![k] = "ready"] /\ UNCHANGED store
       ELSE /\ kpc' = [kpc EXCEPT ![k] = IF file.disabled THEN "caches" ELSE "failed"]
            /\ store' = [store EXCEPT ![k] = file]
    /\ UNCHANGED <<dirVars, ordered, secrets, cacheBy, sigs, blsVars>>

\* Mutant of FirstBad: the error of SecretKeyFromBytes is ignored.
FirstBadNever(f) == Len(f.privs) + 1

\* the index of the first secret key that does not convert, or one past the last
FirstBad(f) ==
    CHOOSE n \in 1..Len(f.privs) + 1 :
        /\ \A i \in 1..n - 1 : SecretKeyFromBytes(f.privs[i]) # {}
        /\ n <= Len(f.privs) => SecretKeyFromBytes(f.privs[n]) = {}

\* Mutant of SecretKeys: every public key gets the first secret key.
SecretKeysShifted(f, n) ==
    [v \in {ToBytes48(f.pubs[i]) : i \in 1..n - 1} |-> f.privs[1].v]

\* secretKeysCache after n - 1 keys; a later duplicate replaces an earlier one.
SecretKeys(f, n) ==
    [v \in {ToBytes48(f.pubs[i]) : i \in 1..n - 1} |->
        LET i == CHOOSE i \in 1..n - 1 : /\ ToBytes48(f.pubs[i]) = v
                                         /\ \A j \in i + 1..n - 1 : ToBytes48(f.pubs[j]) # v
        IN f.privs[i].v]

\* Mutant of InitializeKeysCaches: the last key is left out.
InitializeKeysCachesShort(k) ==
    /\ kpc[k] = "caches"
    /\ LET f == store[k]
           n == FirstBad(f)
       IN /\ ordered' = [i \in DOMAIN f.pubs |-> IF i <= n THEN ToBytes48(f.pubs[i]) ELSE 0]
          /\ secrets' = SecretKeys(f, IF n > Len(f.privs) THEN n - 1 ELSE n)
          /\ kpc' = [kpc EXCEPT ![k] = IF n > Len(f.privs) THEN "ready" ELSE "failed"]
    /\ cacheBy' = k
    /\ UNCHANGED <<dirVars, store, sigs, blsVars>>

\* initializeKeysCachesFromKeystore, under the lock of the package: the caches of
\* all keymanagers are replaced; a bad secret key leaves them half filled.
InitializeKeysCaches(k) ==
    /\ kpc[k] = "caches"
    /\ LET f == store[k]
           n == FirstBad(f)
       IN /\ ordered' = [i \in DOMAIN f.pubs |-> IF i <= n THEN ToBytes48(f.pubs[i]) ELSE 0]
          /\ secrets' = SecretKeys(f, n)
          /\ kpc' = [kpc EXCEPT ![k] = IF n > Len(f.privs) THEN "ready" ELSE "failed"]
    /\ cacheBy' = k
    /\ UNCHANGED <<dirVars, store, sigs, blsVars>>

\* SlotInfo.Hash: EncodeRLP passes a SlotInfo by value to rlp.Encode, which refuses
\* it (EncodeRLP is a method of the pointer); rlpHash ignores the error and returns
\* the hash of no input.
Hash(slot) == "keccak()"

\* Keymanager.Sign; it fails if another keymanager has replaced the key.
Sign(k, i, slot) ==
    /\ kpc[k] = "ready" /\ Len(sigs) < MaxSigs
    /\ ToBytes48(store[k].pubs[i]) \in DOMAIN secrets
    /\ sigs' = Append(sigs, [pub |-> store[k].pubs[i], slot |-> slot, parts |-> <<>>,
                             val |-> SignMsg(secrets[ToBytes48(store[k].pubs[i])], Hash(slot))])
    /\ UNCHANGED <<dirVars, keyVars, blsVars>>

\* Mutant of AggregateSignatures: the first signature is not copied.
AggregateSignaturesInPlace(i, j) ==
    /\ Len(sigs) < MaxSigs /\ sigs[i].parts = <<>> /\ sigs[j].parts = <<>>
    /\ LET sum == AddSig(sigs[i].val, sigs[j].val)
       IN sigs' = Append([sigs EXCEPT ![i].val = sum], [sigs[i] EXCEPT !.val = sum, !.parts = <<i, j>>])
    /\ UNCHANGED <<dirVars, keyVars, blsVars>>

\* AggregateSignatures of two signatures.
AggregateSignatures(i, j) ==
    /\ Len(sigs) < MaxSigs /\ sigs[i].parts = <<>> /\ sigs[j].parts = <<>>
    /\ sigs' = Append(sigs, [sigs[i] EXCEPT !.val = AddSig(sigs[i].val, sigs[j].val),
                                            !.parts = <<i, j>>])
    /\ UNCHANGED <<dirVars, keyVars, blsVars>>

-----------------------------------------------------------------------------
(* Public keys.                                                             *)

InUse == {cached[v] : v \in DOMAIN cached} \cup {acc}
Drop(f, v) == [x \in DOMAIN f \ {v} |-> f[x]]

\* what PublicKeyFromBytes returns for valid bytes
PublicKeyValue(b) == IF b.v \in DOMAIN cached THEN objs[cached[b.v]] ELSE b.v

\* PublicKeyFromBytes for the first key of AggregatePublicKeys.  A miss keeps a
\* copy; ristretto may also refuse it.
CacheSet(b) ==
    IF b.v \in DOMAIN cached THEN cached' = cached
    ELSE \/ cached' = cached
         \/ \E r \in Refs \ InUse : cached' = [x \in DOMAIN cached \cup {b.v} |->
                                                  IF x = b.v THEN r ELSE cached[x]]

\* Mutant of FirstKey: the cached object itself is returned.
FirstKeyShared(b) ==
    /\ acc = None /\ DeserializePublicKey(b) # {}
    /\ CacheSet(b)
    /\ objs' = [r \in Refs |-> IF b.v \in DOMAIN cached' /\ r = cached'[b.v] /\ b.v \notin DOMAIN cached
                               THEN b.v ELSE objs[r]]
    /\ b.v \in DOMAIN cached' /\ acc' = cached'[b.v]
    /\ UNCHANGED <<dirVars, keyVars, sigs>>

\* AggregatePublicKeys: p is a new object with a copy of the point.
FirstKey(b) ==
    /\ acc = None /\ DeserializePublicKey(b) # {}
    /\ CacheSet(b)
    /\ \E p \in Refs : /\ p \notin {cached'[v] : v \in DOMAIN cached'}
                       /\ acc' = p
                       /\ objs' = [r \in Refs |->
                             IF r = p THEN PublicKeyValue(b)
                             ELSE IF b.v \in DOMAIN cached' /\ r = cached'[b.v] THEN PublicKeyValue(b)
                             ELSE objs[r]]
    /\ UNCHANGED <<dirVars, keyVars, sigs>>

\* p.Aggregate of the next key, in place.
NextKey(b) ==
    /\ acc # None /\ DeserializePublicKey(b) # {}
    /\ CacheSet(b)
    /\ objs' = [r \in Refs |-> IF r = acc THEN AddPoint(objs[r], PublicKeyValue(b))
                               ELSE IF b.v \in DOMAIN cached' /\ r = cached'[b.v] THEN PublicKeyValue(b)
                               ELSE objs[r]]
    /\ UNCHANGED <<dirVars, keyVars, sigs, acc>>

\* The caller is done with the aggregate.
Release ==
    /\ acc # None
    /\ acc' = None
    /\ objs' = IF acc \in {cached[v] : v \in DOMAIN cached} THEN objs ELSE [objs EXCEPT ![acc] = 0]
    /\ UNCHANGED <<dirVars, keyVars, sigs, cached>>

\* ristretto evicts an entry.
Evict(v) ==
    /\ v \in DOMAIN cached
    /\ cached' = Drop(cached, v)
    /\ objs' = IF cached[v] = acc THEN objs ELSE [objs EXCEPT ![cached[v]] = 0]
    /\ UNCHANGED <<dirVars, keyVars, sigs, acc>>

Bytes == UNION {{f.pubs[i] : i \in DOMAIN f.pubs} : f \in Keystores}

Next ==
    \/ ChangeDir \/ ChangeFile \/ HasDir \/ CheckValid \/ ReadKeymanagerKind \/ OpenFails
    \/ \E k \in Managers :
          \/ HasAccounts(k) \/ MkdirAll(k) \/ AccountsFail(k) \/ Glob(k) \/ ReadKeystore(k)
          \/ InitializeKeysCaches(k)
          \/ \E i \in DOMAIN store[k].pubs, slot \in Slots : Sign(k, i, slot)
    \/ \E i, j \in DOMAIN sigs : AggregateSignatures(i, j)
    \/ \E b \in Bytes : FirstKey(b) \/ NextKey(b)
    \/ Release
    \/ \E v \in DOMAIN cached : Evict(v)

Spec == Init /\ [][Next]_vars

-----------------------------------------------------------------------------
(* Properties.                                                              *)

\* every pair of keys a keystore offers belongs together
Paired == \A f \in Keystores : \A i \in DOMAIN f.pubs \cap DOMAIN f.privs :
              SecretKeyFromBytes(f.privs[i]) # {} => f.pubs[i].v = f.privs[i].v

\* Keymanager.VerifySignature for the key with these bytes
Verifies(b, slot, val) ==
    DeserializePublicKey(b) # {} /\ Verify(val, PublicKeyValue(b), Hash(slot))

\* A signature verifies under the public key of the keymanager that was asked for
\* it, then and later, whichever keymanager filled the shared caches in between or
\* failed to (secretKeysCache is keyed by public key), whoever aggregates it or its
\* key meanwhile.
SignVerifies ==
    Paired => \A i \in DOMAIN sigs :
        sigs[i].parts = <<>> /\ sigs[i].pub.len = 48 => Verifies(sigs[i].pub, sigs[i].slot, sigs[i].val)

\* An aggregate verifies against the keys and messages of its parts, one by one, as
\* a group when they sign the same message, and as a batch whatever numbers
\* VerifyMultipleSignatures draws.
AggregatesVerify ==
    Paired => \A a \in DOMAIN sigs : sigs[a].parts # <<>> =>
        LET part == [n \in DOMAIN sigs[a].parts |-> sigs[sigs[a].parts[n]]]
            pubs == [n \in DOMAIN part |-> part[n].pub.v]
            msgs == [n \in DOMAIN part |-> Hash(part[n].slot)]
        IN /\ AggregateVerify(sigs[a].val, pubs, msgs)
           /\ msgs[1] = msgs[2] => FastAggregateVerify(sigs[a].val, pubs, msgs[1])
           /\ \A rs \in [DOMAIN pubs -> Points] :
                 VerifyMultipleSignatures([n \in DOMAIN part |-> part[n].val], msgs, pubs, rs)

\* The cache returns for a public key its own point, however often keys taken from
\* it are aggregated in place (PublicKeyFromBytes copies on the way in and out).
CacheClean == \A v \in DOMAIN cached : objs[cached[v]] = v

\* The keymanager that filled the caches last, if it could be created, finds all of
\* its keys there.
LatestCanSign ==
    \A k \in Managers : cacheBy = k /\ kpc[k] = "ready" =>
        /\ ordered = [i \in DOMAIN store[k].pubs |-> ToBytes48(store[k].pubs[i])]
        /\ \A i \in DOMAIN ordered : ordered[i] \in DOMAIN secrets

\* If nobody changes the directory while OpenWallet runs and it can be read,
\* OpenWallet opens the wallet if and only if the directory holds a single kind of
\* wallet and its path needs no expansion, and opens that kind.  (With a ~ or a $VAR
\* in the path Exists and IsValid find the wallet and the last step refuses it.)
OpensTheWallet ==
    steady /\ opc \in {"opened", "failed"} =>
        IF plain /\ Cardinality(dir \cap Kinds) = 1 THEN opc = "opened" /\ kind \in dir
        ELSE opc = "failed"

-----------------------------------------------------------------------------
(* The invariant behind these properties.                                   *)

Good(b) == SecretKeyFromBytes(b) # {}

\* a keystore gets as far as the caches only with as many secret keys as public
\* ones, and a keymanager is created only if all of them convert
Loaded ==
    \A k \in Managers :
        LET f == store[k] IN
        /\ kpc[k] \in {"none", "mkdir", "glob", "read"} => f = Empty
        /\ kpc[k] \in {"caches", "ready"} => Len(f.pubs) = Len(f.privs)
        /\ kpc[k] = "ready" => \A i \in DOMAIN f.privs : Good(f.privs[i])
        /\ cacheBy = k => kpc[k] \in {"ready", "failed"}

\* secretKeysCache gives the secret key of the public key it is asked for, whoever
\* filled it; a padded key encodes a number from Q on
KeysMatch ==
    Paired => \A x \in DOMAIN secrets : secrets[x] = IF x < Q THEN x ELSE x - Q

\* a signature is its key's, an aggregate the sum of two earlier signatures
Signed ==
    \A a \in DOMAIN sigs :
        LET s == sigs[a] IN
        /\ s.parts = <<>> /\ Paired => s.pub.v \in 1..Q - 1 /\ s.val = SignMsg(s.pub.v, Hash(s.slot))
        /\ s.parts # <<>> => \E i, j \in DOMAIN sigs :
              /\ s.parts = <<i, j>> /\ sigs[i].parts = <<>> /\ sigs[j].parts = <<>>
              /\ s.val = AddSig(sigs[i].val, sigs[j].val)

\* objects are not shared: no two cache entries have one, nor does the aggregate
Unshared ==
    /\ \A v, w \in DOMAIN cached : cached[v] = cached[w] => v = w
    /\ \A v \in DOMAIN cached : cached[v] # acc

\* what OpenWallet knows of a directory nobody changes
Looked ==
    /\ steady /\ opc \in {"exists", "isValid", "readKind"} => "." \in dir
    /\ steady /\ opc \in {"isValid", "readKind"} => IsValid(dir)

WalletInv ==
    /\ TypeOK /\ Loaded /\ KeysMatch /\ Signed /\ Unshared /\ Looked
    /\ CacheClean /\ LatestCanSign /\ OpensTheWallet
=============================================================================
