----------------------------- MODULE PartsProofs -----------------------------
(***************************************************************************)
(* What RateLimiter promises, for any addresses, rate, burst and cap, what *)
(* WalletStore promises, for any keys, labels and passphrases, and what    *)
(* NeuroVM promises, for any headers, programs and sizes.                  *)
(***************************************************************************)
EXTENDS RateLimiter, WalletStore, NeuroVM, Induction

-----------------------------------------------------------------------------
(***************************************************************************)
(* The rate limiter.                                                       *)
(***************************************************************************)

Bucket == [tokens : 0..burst, last : 0..now]

\* The inductive invariant: what is bounded, and what no limit loses.
LimiterInv ==
  /\ now \in Nat
  /\ DOMAIN b \subseteq IP
  /\ \A ip \in DOMAIN b : b[ip] \in Bucket
  /\ ideal \in [IP -> Bucket]
  /\ NoLimitLost

\* What a bucket gains in some time.
LEMMA Gain ==
  ASSUME NEW d \in Nat, NEW r \in Nat
  PROVE  d * r \in Nat /\ 0 * r = 0 /\ (d + 1) * r = d * r + r
BY SMT

\* A bucket holds no more than its capacity, and what it was left with if no time passed.
LEMMA RefilledIsBounded ==
  ASSUME now \in Nat, NEW tb \in Bucket
  PROVE  /\ refilled(tb) \in 0..burst
         /\ tb.last = now => refilled(tb) = tb.tokens
<1> DEFINE d == now - tb.last
<1>1. d \in Nat /\ tb.tokens \in 0..burst /\ burst \in Nat /\ rate \in Nat
  BY LimiterAssumption DEF Bucket
<1>2. d * rate \in Nat /\ 0 * rate = 0
  BY <1>1, Gain
<1>3. refilled(tb) = atMost(tb.tokens + d * rate, burst)
  BY DEF refilled
<1>4. tb.last = now => d = 0
  BY <1>1
<1>5. tb.last = now => d * rate = 0
  BY <1>2, <1>4
<1> HIDE DEF d
<1>6. d * rate \in Nat
  BY <1>2
<1> QED
  BY <1>1, <1>3, <1>5, <1>6 DEF atMost

\* Time refills every bucket alike.
LEMMA PassRefills ==
  ASSUME now \in Nat, Pass, NEW tb \in Bucket
  PROVE  refilled(tb)' = atMost(refilled(tb) + rate, burst)
<1> DEFINE d == now - tb.last
<1>1. d \in Nat /\ tb.tokens \in 0..burst /\ burst \in Nat /\ rate \in Nat
  BY LimiterAssumption DEF Bucket
<1>2. now' - tb.last = d + 1
  BY <1>1 DEF Pass, Bucket
<1>3. (now' - tb.last) * rate = d * rate + rate
  BY <1>1, <1>2, Gain
<1>4. refilled(tb)' = atMost(tb.tokens + (d * rate + rate), burst)
  BY <1>3 DEF refilled, atMost
<1>5. refilled(tb) = atMost(tb.tokens + d * rate, burst)
  BY DEF refilled
<1>6. d * rate \in Nat
  BY <1>1, Gain
<1> HIDE DEF d
<1> QED
  BY <1>1, <1>4, <1>5, <1>6 DEF atMost

\* What gcLocked removes is idle or counts as trimmed, and a bucket in use by the
\* request at hand stays.
LEMMA WhatRemains ==
  ASSUME NEW ip \in IP, NEW kept \in remaining(ip)
  PROVE  kept \subseteq DOMAIN b /\ (ip \in DOMAIN b => kept = DOMAIN b)
BY DEF remaining, gcLocked, idle

\* The invariant holds at the start.
LEMMA LimiterStarts == LimiterInit => LimiterInv
<1> SUFFICES ASSUME LimiterInit PROVE LimiterInv
  OBVIOUS
<1>1. now \in Nat /\ DOMAIN b = {} /\ ideal \in [IP -> Bucket]
  BY LimiterAssumption DEF LimiterInit, Bucket
<1>2. \A ip \in IP : refilled(ideal[ip]) = burst
  BY <1>1, RefilledIsBounded DEF LimiterInit
<1>3. NoLimitLost
  BY <1>1, <1>2, LimiterAssumption DEF NoLimitLost, held
<1> QED
  BY <1>1, <1>3 DEF LimiterInv

\* It is kept while time passes.
LEMMA PassKeeps == LimiterInv /\ Pass => LimiterInv'
<1> SUFFICES ASSUME LimiterInv, Pass PROVE LimiterInv'
  OBVIOUS
<1>1. now \in Nat /\ now' \in Nat /\ now' = now + 1 /\ UNCHANGED <<b, ideal, trimmed>>
  BY DEF LimiterInv, Pass
<1>2. \A tb \in Bucket : tb \in Bucket'
  BY <1>1 DEF Bucket
<1>3. burst \in Nat /\ rate \in Nat
  BY LimiterAssumption
<1>4. ASSUME NEW ip \in IP
      PROVE  /\ held(ip)' >= refilled(ideal[ip])'
             /\ ip \notin trimmed => held(ip)' = refilled(ideal[ip])'
  <2>1. ideal[ip] \in Bucket
    BY DEF LimiterInv
  <2>2. refilled(ideal[ip]) \in 0..burst
    BY <1>1, <2>1, RefilledIsBounded
  <2>3. refilled(ideal[ip])' = atMost(refilled(ideal[ip]) + rate, burst)
    <3> DEFINE t == ideal[ip]
    <3>1. t \in Bucket /\ t' = t
      BY <1>1, <2>1
    <3> QED
      BY <1>1, <3>1, PassRefills DEF refilled
  <2>4. held(ip) \in 0..burst /\ held(ip)' = atMost(held(ip) + rate, burst)
    <3>1. CASE ip \in DOMAIN b
      <4>1. b[ip] \in Bucket
        BY <3>1 DEF LimiterInv
      <4>2. refilled(b[ip])' = atMost(refilled(b[ip]) + rate, burst)
        BY <1>1, <4>1, PassRefills DEF refilled
      <4> QED
        BY <1>1, <3>1, <4>1, <4>2, RefilledIsBounded DEF held
    <3>2. CASE ip \notin DOMAIN b
      BY <1>1, <1>3, <3>2 DEF held, atMost
    <3> QED
      BY <3>1, <3>2
  <2>5. /\ held(ip) >= refilled(ideal[ip])
        /\ ip \notin trimmed => held(ip) = refilled(ideal[ip])
    BY DEF LimiterInv, NoLimitLost
  <2> QED
    BY <1>3, <2>2, <2>3, <2>4, <2>5 DEF atMost
<1>5. NoLimitLost'
  BY <1>1, <1>4 DEF NoLimitLost
<1> QED
  BY <1>1, <1>2, <1>5 DEF LimiterInv

\* It is kept by a request.
LEMMA AllowKeeps ==
  ASSUME LimiterInv, NEW ip \in IP, allow(ip)
  PROVE  LimiterInv'
<1>1. now \in Nat /\ now' = now /\ burst \in Nat /\ burst >= 1
  BY LimiterAssumption DEF LimiterInv, allow
<1>2. Bucket' = Bucket
  BY <1>1 DEF Bucket
<1>3. PICK kept \in remaining(ip) :
        /\ b' = [i \in kept \cup {ip} |-> IF i = ip THEN spent(held(ip)) ELSE b[i]]
        /\ trimmed' = trimmed \cup ((DOMAIN b \ idle) \ kept)
  BY DEF allow
<1>4. kept \subseteq DOMAIN b /\ (ip \in DOMAIN b => kept = DOMAIN b)
  BY <1>3, WhatRemains
<1>5. ideal' = [ideal EXCEPT ![ip] = spent(refilled(ideal[ip]))]
  BY DEF allow
<1>6. \A tb \in Bucket : refilled(tb)' = refilled(tb) /\ refilled(tb) \in 0..burst
  BY <1>1, RefilledIsBounded DEF refilled
<1>7. \A j \in IP : ideal[j] \in Bucket /\ held(j) \in 0..burst
  BY <1>1, <1>6 DEF LimiterInv, held
<1>8. ASSUME NEW x \in 0..burst
      PROVE  /\ spent(x) \in Bucket
             /\ refilled(spent(x)) = IF x < 1 THEN x ELSE x - 1
  <2>1. spent(x) \in Bucket /\ spent(x).last = now /\ spent(x).tokens = IF x < 1 THEN x ELSE x - 1
    BY <1>1 DEF spent, Bucket
  <2> QED
    BY <1>1, <2>1, RefilledIsBounded
<1>9. refilled(ideal[ip]) \in 0..burst
  BY <1>6, <1>7
<1>10. \A j \in DOMAIN b' : b'[j] \in Bucket
  BY <1>3, <1>4, <1>7, <1>8 DEF LimiterInv
<1>11. ideal' \in [IP -> Bucket]
  BY <1>5, <1>8, <1>9 DEF LimiterInv
<1>12. ASSUME NEW j \in IP
       PROVE  /\ held(j)' >= refilled(ideal[j])'
              /\ j \notin trimmed' => held(j)' = refilled(ideal[j])'
  <2>1. /\ held(j) >= refilled(ideal[j])
        /\ j \notin trimmed => held(j) = refilled(ideal[j])
    BY DEF LimiterInv, NoLimitLost
  <2>2. held(j)' = IF j \in DOMAIN b' THEN refilled(b'[j]) ELSE burst
    BY <1>1 DEF held, refilled
  <2>3. refilled(ideal[j])' = refilled(ideal'[j])
    BY <1>1 DEF refilled
  <2>4. j \notin trimmed' => j \notin trimmed
    BY <1>3
  <2>5. CASE j = ip
    <3>1. held(j)' = refilled(spent(held(ip)))
      BY <1>3, <2>2, <2>5
    <3>2. refilled(ideal[j])' = refilled(spent(refilled(ideal[ip])))
      BY <1>5, <2>3, <2>5 DEF LimiterInv
    <3>3. held(ip) \in 0..burst
      BY <1>7
    <3>4. refilled(spent(held(ip))) = IF held(ip) < 1 THEN held(ip) ELSE held(ip) - 1
      BY <1>8, <3>3
    <3>5. refilled(spent(refilled(ideal[ip])))
            = IF refilled(ideal[ip]) < 1 THEN refilled(ideal[ip]) ELSE refilled(ideal[ip]) - 1
      BY <1>8, <1>9
    <3> QED
      BY <1>9, <2>1, <2>4, <2>5, <3>1, <3>2, <3>3, <3>4, <3>5
  <2>6. CASE j # ip
    <3>1. refilled(ideal[j])' = refilled(ideal[j])
      BY <1>5, <2>3, <2>6 DEF LimiterInv
    <3>2. refilled(ideal[j]) \in 0..burst /\ held(j) \in 0..burst
      BY <1>6, <1>7
    <3>3. CASE j \in kept
      BY <1>3, <1>4, <2>1, <2>2, <2>4, <2>6, <3>1, <3>3 DEF held
    <3>4. CASE j \notin kept
      <4>1. held(j)' = burst
        BY <1>3, <2>2, <2>6, <3>4
      <4>2. j \notin trimmed' => held(j) = burst
        <5>1. CASE j \in DOMAIN b
          <6>1. j \notin trimmed' => j \in idle
            BY <1>3, <3>4, <5>1
          <6>2. j \in idle => held(j) >= burst
            BY <5>1 DEF idle, held
          <6> QED
            BY <1>1, <3>2, <6>1, <6>2
        <5>2. CASE j \notin DOMAIN b
          BY <5>2 DEF held
        <5> QED
          BY <5>1, <5>2
      <4> QED
        BY <1>1, <2>1, <2>4, <3>1, <3>2, <4>1, <4>2
    <3> QED
      BY <3>3, <3>4
  <2> QED
    BY <2>5, <2>6
<1>13. NoLimitLost'
  BY <1>12 DEF NoLimitLost
<1> QED
  BY <1>1, <1>2, <1>3, <1>4, <1>10, <1>11, <1>13 DEF LimiterInv

-----------------------------------------------------------------------------
\* No limit is lost: whatever the limiter drops, an address is never held to less
\* than its bucket would allow, nor allowed more unless that bucket was trimmed.
THEOREM LimitsAreKept == LimiterSpec => []NoLimitLost
<1>1. LimiterInit => LimiterInv
  BY LimiterStarts
<1>2. LimiterInv /\ [LimiterNext]_limiterVars => LimiterInv'
  <2> SUFFICES ASSUME LimiterInv, [LimiterNext]_limiterVars PROVE LimiterInv'
    OBVIOUS
  <2>1. CASE Pass
    BY <2>1, PassKeeps
  <2>2. CASE \E ip \in IP : allow(ip)
    BY <2>2, AllowKeeps
  <2>3. CASE UNCHANGED limiterVars
    BY <2>3 DEF limiterVars, LimiterInv, NoLimitLost, held, refilled, Bucket
  <2> QED
    BY <2>1, <2>2, <2>3 DEF LimiterNext
<1>3. LimiterInv => NoLimitLost
  BY DEF LimiterInv
<1> QED
  BY <1>1, <1>2, <1>3, PTL DEF LimiterSpec

BucketsInv == IsFiniteSet(DOMAIN b) /\ BucketsBounded

\* What remains when a new bucket is needed is within the cap.
LEMMA RemainsWithinCap ==
  ASSUME IsFiniteSet(DOMAIN b), NEW ip \in IP, ip \notin DOMAIN b, NEW kept \in remaining(ip)
  PROVE  IsFiniteSet(kept) /\ Cardinality(kept) <= rlMaxBuckets
<1> DEFINE active == DOMAIN b \ idle
           excess == Cardinality(active) - rlMaxBuckets
<1>1. rlMaxBuckets \in Nat /\ Cardinality(DOMAIN b) \in Nat
  BY LimiterAssumption, FS_CardinalityType
<1>2. IsFiniteSet(active) /\ Cardinality(active) \in Nat
  BY FS_Subset, FS_CardinalityType
<1>3. CASE Cardinality(DOMAIN b) < rlMaxBuckets
  BY <1>1, <1>3 DEF remaining
<1>4. CASE ~(Cardinality(DOMAIN b) < rlMaxBuckets) /\ excess <= 0
  <2>1. kept = active
    BY <1>4 DEF remaining, gcLocked
  <2> QED
    BY <1>1, <1>2, <1>4, <2>1
<1>5. CASE ~(Cardinality(DOMAIN b) < rlMaxBuckets) /\ ~(excess <= 0)
  <2>1. PICK gone \in SUBSET active : Cardinality(gone) = excess /\ kept = active \ gone
    BY <1>5 DEF remaining, gcLocked
  <2>2. active \cap gone = gone
    BY <2>1
  <2>3. IsFiniteSet(kept) /\ Cardinality(kept) = Cardinality(active) - Cardinality(gone)
    BY <1>2, <2>1, <2>2, FS_Difference
  <2> QED
    BY <1>1, <1>2, <2>1, <2>3
<1> QED
  BY <1>3, <1>4, <1>5

\* The buckets in memory never number more than the cap and one.
THEOREM MemoryIsBounded == LimiterSpec => []BucketsBounded
<1>1. LimiterInit => BucketsInv
  <2> SUFFICES ASSUME LimiterInit PROVE BucketsInv
    OBVIOUS
  <2>1. DOMAIN b = {}
    BY DEF LimiterInit
  <2> QED
    BY <2>1, FS_EmptySet, LimiterAssumption DEF BucketsInv, BucketsBounded
<1>2. BucketsInv /\ [LimiterNext]_limiterVars => BucketsInv'
  <2> SUFFICES ASSUME BucketsInv, [LimiterNext]_limiterVars PROVE BucketsInv'
    OBVIOUS
  <2>1. CASE UNCHANGED b
    BY <2>1 DEF BucketsInv, BucketsBounded
  <2>2. ASSUME NEW ip \in IP, allow(ip) PROVE BucketsInv'
    <3>1. PICK kept \in remaining(ip) : DOMAIN b' = kept \cup {ip}
      BY <2>2 DEF allow
    <3>2. CASE ip \in DOMAIN b
      <4>1. DOMAIN b' = DOMAIN b
        BY <3>1, <3>2, WhatRemains
      <4> QED
        BY <4>1 DEF BucketsInv, BucketsBounded
    <3>3. CASE ip \notin DOMAIN b
      <4>1. IsFiniteSet(kept) /\ Cardinality(kept) <= rlMaxBuckets /\ ip \notin kept
        BY <3>3, RemainsWithinCap, WhatRemains DEF BucketsInv
      <4>2. IsFiniteSet(kept \cup {ip}) /\ Cardinality(kept \cup {ip}) = Cardinality(kept) + 1
        BY <4>1, FS_AddElement
      <4>3. Cardinality(kept) \in Nat /\ rlMaxBuckets \in Nat
        BY <4>1, FS_CardinalityType, LimiterAssumption
      <4> QED
        BY <3>1, <4>1, <4>2, <4>3 DEF BucketsInv, BucketsBounded
    <3> QED
      BY <3>2, <3>3
  <2> QED
    BY <2>1, <2>2 DEF LimiterNext, Pass, limiterVars
<1> QED
  BY <1>1, <1>2, PTL DEF LimiterSpec, BucketsInv

-----------------------------------------------------------------------------
(***************************************************************************)
(* The wallet's keys.                                                      *)
(***************************************************************************)

IsKeys(keys) == keys \in Seq(ToSet(keys))
IsWallet(file) == file = FileOf(file.keys, file.pass) /\ IsKeys(file.keys)

IsShell ==
  \/ shell = Closed
  \/ shell = Prompt(shell.keys, shell.pass)
  \/ /\ shell.pc \in {"write", "rename"}
     /\ shell = [pc |-> shell.pc, keys |-> shell.keys, pass |-> shell.pass, answer |-> shell.answer]

\* A shell has every key the user was told of, and the passphrase.
ShellKnows ==
  shell # Closed =>
    /\ IsKeys(shell.keys)
    /\ told \subseteq keysIn(shell.keys)
    /\ toldEncrypted # Plain => shell.pass = toldEncrypted

\* What is being saved holds what the user will be told, and is in the temporary file
\* before that is renamed.
SaveKnows ==
  /\ shell.pc \in {"write", "rename"} => shell.answer \subseteq keysIn(shell.keys)
  /\ shell.pc = "rename" => disk["tmp"] = FileOf(shell.keys, shell.pass)

\* And so does the file, if there is one.
FileKnows ==
  /\ disk = [path |-> disk["path"], tmp |-> disk["tmp"]]
  /\ \/ /\ disk["path"] = NoFile
        /\ told = {} /\ toldEncrypted = Plain
     \/ /\ IsWallet(disk["path"])
        /\ told \subseteq keysIn(disk["path"].keys)
        /\ toldEncrypted # Plain => disk["path"].pass = toldEncrypted

StoreInv == IsShell /\ ShellKnows /\ SaveKnows /\ FileKnows

\* An entry more is a key more.
LEMMA AppendedKey ==
  ASSUME NEW keys, IsKeys(keys), NEW label, NEW key
  PROVE  /\ IsKeys(Append(keys, entry(label, key)))
         /\ keysIn(Append(keys, entry(label, key))) = keysIn(keys) \cup {key}
<1> DEFINE e == entry(label, key)
           S == ToSet(keys) \cup {e}
           s == Append(keys, e)
<1>1. keys \in Seq(S) /\ e \in S
  BY DEF IsKeys
<1>2. /\ Len(keys) \in Nat /\ DOMAIN keys = 1..Len(keys)
      /\ DOMAIN s = 1..(Len(keys) + 1)
      /\ s[Len(keys) + 1] = e
      /\ \A i \in 1..Len(keys) : s[i] = keys[i]
      /\ s \in Seq(S)
  BY <1>1
<1>3. ToSet(s) = S
  <2>1. ToSet(s) = {s[i] : i \in 1..(Len(keys) + 1)}
    BY <1>2 DEF ToSet
  <2>2. ToSet(keys) = {keys[i] : i \in 1..Len(keys)}
    BY <1>2 DEF ToSet
  <2>3. 1..(Len(keys) + 1) = 1..Len(keys) \cup {Len(keys) + 1}
    BY <1>2
  <2> HIDE DEF s, e
  <2> QED
    BY <1>2, <2>1, <2>2, <2>3
<1>4. e.key = key
  BY DEF entry
<1> QED
  BY <1>2, <1>3, <1>4 DEF IsKeys, keysIn

\* No file, no shell, nothing told.
LEMMA StoreStarts == WalletInit => StoreInv
BY DEF WalletInit, StoreInv, IsShell, ShellKnows, SaveKnows, FileKnows, Closed, NoFile, Plain

\* Opening brings what the file holds.
LEMMA LoadKeeps ==
  ASSUME StoreInv, NEW typed, loadStore(typed)
  PROVE  StoreInv'
<1>1. UNCHANGED <<disk, generated, imported, told, toldEncrypted>>
  BY DEF loadStore
<1>2. FileKnows'
  BY <1>1 DEF StoreInv, FileKnows, IsWallet
<1>3. CASE disk["path"] = NoFile /\ shell' = Prompt(<<>>, Plain)
  <2>1. told = {} /\ toldEncrypted = Plain
    BY <1>3 DEF StoreInv, FileKnows, IsWallet, NoFile, FileOf
  <2>2. shell'.pc = "prompt" /\ shell'.keys = <<>> /\ shell'.pass = Plain
    BY <1>3 DEF Prompt
  <2>3. IsKeys(<<>>)
    BY DEF IsKeys
  <2> QED
    BY <1>1, <1>2, <1>3, <2>1, <2>2, <2>3 DEF StoreInv, IsShell, ShellKnows, SaveKnows
<1>4. CASE disk["path"].is = "wallet" /\ shell' = opened(disk["path"])
  <2>1. /\ IsWallet(disk["path"])
        /\ told \subseteq keysIn(disk["path"].keys)
        /\ toldEncrypted # Plain => disk["path"].pass = toldEncrypted
    BY <1>4 DEF StoreInv, FileKnows, NoFile
  <2>2. /\ shell' = Prompt(disk["path"].keys, disk["path"].pass)
        /\ shell'.pc = "prompt" /\ shell'.keys = disk["path"].keys /\ shell'.pass = disk["path"].pass
    BY <1>4 DEF opened, Prompt
  <2> QED
    BY <1>1, <1>2, <2>1, <2>2 DEF StoreInv, IsShell, ShellKnows, SaveKnows, IsWallet
<1> QED
  BY <1>3, <1>4 DEF loadStore

\* A command that adds keys or sets a passphrase where there was none.
LEMMA CommandKeeps ==
  ASSUME StoreInv, shell.pc = "prompt", NEW keys, NEW pass, NEW answer,
         saving(keys, pass, answer), UNCHANGED <<disk, told, toldEncrypted>>,
         IsKeys(keys), keysIn(shell.keys) \subseteq keysIn(keys), answer \subseteq keysIn(keys),
         pass = shell.pass \/ shell.pass = Plain
  PROVE  StoreInv'
<1>1. /\ shell'.pc = "write" /\ shell'.keys = keys /\ shell'.pass = pass /\ shell'.answer = answer
      /\ shell' = [pc |-> "write", keys |-> keys, pass |-> pass, answer |-> answer]
  BY DEF saving
<1>2. shell # Closed
  BY DEF Closed
<1>3. ShellKnows'
  BY <1>1, <1>2 DEF StoreInv, ShellKnows
<1>4. FileKnows'
  BY DEF StoreInv, FileKnows
<1> QED
  BY <1>1, <1>3, <1>4 DEF StoreInv, IsShell, SaveKnows

\* A new key is in memory before the user is told.
LEMMA AddKeeps ==
  ASSUME StoreInv, shell.pc = "prompt", NEW label, add(label)
  PROVE  StoreInv'
<1> DEFINE keys == Append(shell.keys, entry(label, nextKey))
<1>1. IsKeys(shell.keys)
  BY DEF StoreInv, ShellKnows, Closed
<1>2. IsKeys(keys) /\ keysIn(keys) = keysIn(shell.keys) \cup {nextKey}
  BY <1>1, AppendedKey
<1>3. saving(keys, shell.pass, {nextKey}) /\ UNCHANGED <<disk, told, toldEncrypted>>
  BY DEF add
<1> HIDE DEF keys
<1> QED
  BY <1>2, <1>3, CommandKeeps

\* So is an imported one.
LEMMA ImportKeeps ==
  ASSUME StoreInv, NEW key, NEW label, cmdImport(key, label)
  PROVE  StoreInv'
<1> DEFINE given == IF label \in labelsIn(shell.keys) THEN suffixed(label) ELSE label
           keys == Append(shell.keys, entry(given, key))
<1>1. shell.pc = "prompt" /\ IsKeys(shell.keys)
  BY DEF StoreInv, ShellKnows, Closed, cmdImport
<1>2. IsKeys(keys) /\ keysIn(keys) = keysIn(shell.keys) \cup {key}
  BY <1>1, AppendedKey
<1>3. saving(keys, shell.pass, {key}) /\ UNCHANGED <<disk, told, toldEncrypted>>
  BY DEF cmdImport
<1> HIDE DEF keys
<1> QED
  BY <1>1, <1>2, <1>3, CommandKeeps

\* A passphrase is set where there was none.
LEMMA EncryptKeeps ==
  ASSUME StoreInv, NEW pass, cmdEncrypt(pass)
  PROVE  StoreInv'
<1>1. shell.pc = "prompt" /\ IsKeys(shell.keys)
  BY DEF StoreInv, ShellKnows, Closed, cmdEncrypt
<1>2. saving(shell.keys, {pass}, {}) /\ UNCHANGED <<disk, told, toldEncrypted>> /\ shell.pass = Plain
  BY DEF cmdEncrypt
<1> QED
  BY <1>1, <1>2, CommandKeeps

\* A file system step that leaves the wallet's own file alone.
LEMMA PathStays ==
  ASSUME StoreInv, UNCHANGED <<told, toldEncrypted>>,
         disk' = [path |-> disk["path"], tmp |-> disk'["tmp"]]
  PROVE  FileKnows'
<1>1. disk'["path"] = disk["path"]
  OBVIOUS
<1> QED
  BY <1>1 DEF StoreInv, FileKnows, IsWallet

\* What is written is what the shell has; a failed write leaves the old file.
LEMMA WriteKeeps ==
  ASSUME StoreInv, WriteFile
  PROVE  StoreInv'
<1>1. /\ disk = [path |-> disk["path"], tmp |-> disk["tmp"]]
      /\ shell = [pc |-> "write", keys |-> shell.keys, pass |-> shell.pass, answer |-> shell.answer]
      /\ shell # Closed /\ UNCHANGED <<told, toldEncrypted>>
  BY DEF StoreInv, FileKnows, IsShell, WriteFile, Closed, Prompt
<1>2. CASE /\ disk' = [disk EXCEPT ![written] = FileOf(shell.keys, shell.pass)]
           /\ shell' = [shell EXCEPT !.pc = "rename"]
  <2>1. /\ disk' = [path |-> disk["path"], tmp |-> disk'["tmp"]]
        /\ disk'["tmp"] = FileOf(shell.keys, shell.pass)
    BY <1>1, <1>2 DEF written
  <2>2. /\ shell' = [pc |-> "rename", keys |-> shell.keys, pass |-> shell.pass, answer |-> shell.answer]
        /\ shell'.pc = "rename" /\ shell'.keys = shell.keys /\ shell'.pass = shell.pass
        /\ shell'.answer = shell.answer
    BY <1>1, <1>2
  <2>3. shell.answer \subseteq keysIn(shell.keys)
    BY <1>1 DEF StoreInv, SaveKnows
  <2>4. FileKnows'
    BY <1>1, <2>1, PathStays
  <2>5. ShellKnows'
    BY <1>1, <2>2 DEF StoreInv, ShellKnows
  <2>6. IsShell' /\ SaveKnows'
    BY <2>1, <2>2, <2>3 DEF IsShell, SaveKnows
  <2> QED
    BY <2>4, <2>5, <2>6 DEF StoreInv
<1>3. CASE disk' \in {disk, torn(disk)} /\ failed
  <2>1. disk' = [path |-> disk["path"], tmp |-> disk'["tmp"]]
    BY <1>1, <1>3 DEF torn, written
  <2>2. /\ shell' = Prompt(shell.keys, shell.pass)
        /\ shell'.pc = "prompt" /\ shell'.keys = shell.keys /\ shell'.pass = shell.pass
    BY <1>3 DEF failed, Prompt
  <2>3. FileKnows'
    BY <1>1, <2>1, PathStays
  <2>4. ShellKnows'
    BY <1>1, <2>2 DEF StoreInv, ShellKnows
  <2> QED
    BY <2>2, <2>3, <2>4 DEF StoreInv, IsShell, SaveKnows
<1> QED
  BY <1>2, <1>3 DEF WriteFile

\* The user is told once the new file is in place.
LEMMA RenameKeeps ==
  ASSUME StoreInv, Rename
  PROVE  StoreInv'
<1>1. /\ disk = [path |-> disk["path"], tmp |-> disk["tmp"]]
      /\ shell # Closed /\ shell.pc = "rename"
      /\ disk["tmp"] = FileOf(shell.keys, shell.pass)
      /\ IsKeys(shell.keys) /\ told \subseteq keysIn(shell.keys)
      /\ toldEncrypted # Plain => shell.pass = toldEncrypted
      /\ shell.answer \subseteq keysIn(shell.keys)
  BY DEF StoreInv, FileKnows, ShellKnows, SaveKnows, Rename, Closed
<1>2. /\ shell' = Prompt(shell.keys, shell.pass)
      /\ shell'.pc = "prompt" /\ shell'.keys = shell.keys /\ shell'.pass = shell.pass
  BY DEF Rename, failed, Prompt
<1>3. CASE /\ disk' = [disk EXCEPT !["path"] = disk[written], !["tmp"] = NoFile]
           /\ told' = told \cup shell.answer
           /\ toldEncrypted' = IF shell.answer = {} THEN shell.pass ELSE toldEncrypted
  <2>1. disk' = [path |-> FileOf(shell.keys, shell.pass), tmp |-> NoFile]
    BY <1>1, <1>3 DEF written
  <2>2. /\ disk'["path"] = FileOf(shell.keys, shell.pass)
        /\ disk'["path"].keys = shell.keys /\ disk'["path"].pass = shell.pass
        /\ IsWallet(disk'["path"])
    BY <1>1, <2>1 DEF FileOf, IsWallet
  <2>3. told' \subseteq keysIn(shell.keys) /\ (toldEncrypted' # Plain => shell.pass = toldEncrypted')
    BY <1>1, <1>3
  <2>4. FileKnows'
    BY <2>1, <2>2, <2>3 DEF FileKnows
  <2> QED
    BY <1>1, <1>2, <2>3, <2>4 DEF StoreInv, IsShell, ShellKnows, SaveKnows
<1>4. CASE disk' = leftBehind /\ UNCHANGED <<told, toldEncrypted>>
  <2>1. disk' = [path |-> disk["path"], tmp |-> disk'["tmp"]]
    BY <1>1, <1>4 DEF leftBehind
  <2>2. FileKnows'
    BY <1>4, <2>1, PathStays
  <2> QED
    BY <1>1, <1>2, <1>4, <2>2 DEF StoreInv, IsShell, ShellKnows, SaveKnows
<1> QED
  BY <1>3, <1>4 DEF Rename

\* A shell that ends or dies leaves the file.
LEMMA EndsKeeps ==
  ASSUME StoreInv, Ends
  PROVE  StoreInv'
<1>1. shell' = Closed /\ shell'.pc = "closed" /\ UNCHANGED <<told, toldEncrypted>>
  BY DEF Ends, Closed
<1>2. disk = [path |-> disk["path"], tmp |-> disk["tmp"]]
  BY DEF StoreInv, FileKnows
<1>3. disk' = [path |-> disk["path"], tmp |-> disk'["tmp"]]
  BY <1>2 DEF Ends, torn, leftBehind, written
<1>4. FileKnows'
  BY <1>1, <1>3, PathStays
<1> QED
  BY <1>1, <1>4 DEF StoreInv, IsShell, ShellKnows, SaveKnows

\* Every command, save and death of a shell keeps the invariant.
LEMMA StoreInvariant == WalletSpec => []StoreInv
<1>1. StoreInv /\ [WalletNext]_walletVars => StoreInv'
  <2> SUFFICES ASSUME StoreInv, [WalletNext]_walletVars PROVE StoreInv'
    OBVIOUS
  <2>1. CASE cmdNew
    BY <2>1, AddKeeps DEF cmdNew
  <2>2. CASE save
    BY <2>2, WriteKeeps, RenameKeeps DEF save
  <2>3. CASE Ends
    BY <2>3, EndsKeeps
  <2>4. CASE \E key \in Key, label \in Label \cup {<<"imported">>} : cmdImport(key, label)
    BY <2>4, ImportKeeps
  <2>5. CASE \E pass \in Passphrase : cmdEncrypt(pass) \/ loadStore(pass)
    BY <2>5, EncryptKeeps, LoadKeeps
  <2>6. CASE UNCHANGED walletVars
    BY <2>6 DEF walletVars, StoreInv, IsShell, ShellKnows, SaveKnows, FileKnows
  <2> QED
    BY <2>1, <2>2, <2>3, <2>4, <2>5, <2>6 DEF WalletNext
<1> QED
  BY <1>1, StoreStarts, PTL DEF WalletSpec

-----------------------------------------------------------------------------
\* No key the user was told of is ever missing from the file, and the file is never
\* a torn one: for any keys, labels and passphrases, wherever a shell dies.
THEOREM ToldKeysAreKept == WalletSpec => []KeysAreKept
<1>1. StoreInv => KeysAreKept
  <2> SUFFICES ASSUME StoreInv PROVE KeysAreKept
    OBVIOUS
  <2>1. CASE disk["path"] = NoFile /\ told = {}
    BY <2>1 DEF KeysAreKept, NoFile, Torn
  <2>2. CASE IsWallet(disk["path"]) /\ told \subseteq keysIn(disk["path"].keys)
    <3>1. disk["path"].is = "wallet"
      BY <2>2 DEF IsWallet, FileOf
    <3> QED
      BY <2>2, <3>1 DEF KeysAreKept, Torn
  <2> QED
    BY <2>1, <2>2 DEF StoreInv, FileKnows
<1> QED
  BY <1>1, StoreInvariant, PTL

\* A wallet that the user was told is encrypted is never saved in the clear again.
THEOREM EncryptedWalletStays == WalletSpec => []StaysEncrypted
<1>1. StoreInv => StaysEncrypted
  <2> SUFFICES ASSUME StoreInv, toldEncrypted # Plain
               PROVE  disk["path"].is = "wallet" /\ disk["path"].pass = toldEncrypted
    BY DEF StaysEncrypted
  <2>1. IsWallet(disk["path"]) /\ disk["path"].pass = toldEncrypted
    BY DEF StoreInv, FileKnows
  <2> QED
    BY <2>1 DEF IsWallet, FileOf
<1> QED
  BY <1>1, StoreInvariant, PTL

-----------------------------------------------------------------------------
(***************************************************************************)
(* Names.  A new key is new because keys are numbered as they turn up; an  *)
(* imported key may be one that was made here and whose entry was lost.    *)
(***************************************************************************)

\* What NamesFindKeys says of a list, whose keys are among ks; those of `imp`
\* were imported.
Named(keys, ks, imp) ==
  /\ keysIn(keys) \subseteq ks
  /\ \A i, j \in DOMAIN keys :
       i < j => /\ keys[i].key # keys[j].key
                /\ keys[i].label = keys[j].label => keys[j].key \in imp

NamesInv ==
  /\ \E n \in Nat : known = 1 .. n
  /\ shell # Closed => Named(shell.keys, known, imported)
  /\ disk["path"].is = "wallet" => Named(disk["path"].keys, known, imported)

\* A list stays named when keys turn up or are imported.
LEMMA StaysNamed ==
  ASSUME NEW keys, NEW ks, NEW imp, Named(keys, ks, imp),
         NEW ks2, ks \subseteq ks2, NEW imp2, imp \subseteq imp2
  PROVE  Named(keys, ks2, imp2)
BY DEF Named

\* The next number is new, and the numbers go on.
LEMMA NextKeyIsNew ==
  ASSUME \E n \in Nat : known = 1 .. n
  PROVE  nextKey \notin known /\ \E n \in Nat : known \cup {nextKey} = 1 .. n
<1>1. PICK n \in Nat : known = 1 .. n
  OBVIOUS
<1>2. Cardinality(1 .. n) = n
  <2>1. n - 1 + 1 = (IF 1 > n THEN 0 ELSE n - 1 + 1)
    OBVIOUS
  <2> QED
    BY <2>1, FS_Interval
<1>3. nextKey = n + 1
  BY <1>1, <1>2 DEF nextKey
<1>4. known \cup {nextKey} = 1 .. n + 1
  BY <1>1, <1>3
<1> QED
  BY <1>1, <1>3, <1>4

\* An entry more, with a key the list does not have, and a label it does not have
\* unless the key is imported.
LEMMA AppendedName ==
  ASSUME NEW keys, IsKeys(keys), NEW ks, NEW imp, Named(keys, ks, imp),
         NEW key, key \in ks, key \notin keysIn(keys),
         NEW label, label \notin labelsIn(keys) \/ key \in imp
  PROVE  Named(Append(keys, entry(label, key)), ks, imp)
<1> DEFINE e == entry(label, key)
           s == Append(keys, e)
           S == ToSet(keys) \cup {e}
<1>1. e.key = key /\ e.label = label
  BY DEF entry
<1>2. /\ Len(keys) \in Nat /\ DOMAIN keys = 1 .. Len(keys)
      /\ DOMAIN s = 1 .. Len(keys) + 1
      /\ s[Len(keys) + 1] = e
      /\ \A i \in 1 .. Len(keys) : s[i] = keys[i]
  <2>1. keys \in Seq(S) /\ e \in S
    BY DEF IsKeys
  <2> QED
    BY <2>1
<1>3. \A i \in 1 .. Len(keys) : keys[i].key \in keysIn(keys) /\ keys[i].label \in labelsIn(keys)
  BY <1>2 DEF keysIn, labelsIn, ToSet
<1>4. keysIn(s) = keysIn(keys) \cup {key}
  BY AppendedKey
<1> HIDE DEF e, s
<1>5. ASSUME NEW i \in DOMAIN s, NEW j \in DOMAIN s, i < j
      PROVE  s[i].key # s[j].key /\ (s[i].label = s[j].label => s[j].key \in imp)
  <2>1. i \in 1 .. Len(keys) /\ s[i] = keys[i]
    BY <1>2, <1>5
  <2>2. CASE j = Len(keys) + 1
    BY <1>1, <1>2, <1>3, <2>1, <2>2
  <2>3. CASE j # Len(keys) + 1
    <3>1. j \in 1 .. Len(keys) /\ s[j] = keys[j]
      BY <1>2, <2>3
    <3> QED
      BY <1>2, <1>5, <2>1, <3>1 DEF Named
  <2> QED
    BY <2>2, <2>3
<1>6. keysIn(s) \subseteq ks
  BY <1>4 DEF Named
<1> QED
  BY <1>5, <1>6 DEF Named, s, e

\* A command that makes the list longer.
LEMMA LongerIsNamed ==
  ASSUME NamesInv, shell # Closed, NEW keys, NEW pass, NEW answer, saving(keys, pass, answer),
         UNCHANGED disk, known \subseteq known', imported \subseteq imported',
         (\E n \in Nat : known = 1 .. n)', Named(keys, known', imported')
  PROVE  NamesInv'
<1>1. shell'.keys = keys
  BY DEF saving
<1>2. disk'["path"].is = "wallet" => Named(disk'["path"].keys, known', imported')
  BY StaysNamed DEF NamesInv
<1> QED
  BY <1>1, <1>2 DEF NamesInv

\* A key made here is new, and so is its label.
LEMMA AddNames ==
  ASSUME StoreInv, NamesInv, shell.pc = "prompt", NEW label, add(label)
  PROVE  NamesInv'
<1> DEFINE keys == Append(shell.keys, entry(label, nextKey))
<1>1. shell # Closed /\ IsKeys(shell.keys) /\ Named(shell.keys, known, imported)
  BY DEF StoreInv, ShellKnows, NamesInv, Closed
<1>2. /\ known' = known \cup {nextKey} /\ imported' = imported /\ UNCHANGED disk
      /\ saving(keys, shell.pass, {nextKey}) /\ label \notin labelsIn(shell.keys)
  BY DEF add, mayName, known
<1>3. nextKey \notin known /\ \E n \in Nat : known \cup {nextKey} = 1 .. n
  BY NextKeyIsNew DEF NamesInv
<1>4. Named(shell.keys, known', imported') /\ nextKey \notin keysIn(shell.keys)
  BY <1>1, <1>2, <1>3, StaysNamed DEF Named
<1>5. Named(keys, known', imported')
  BY <1>1, <1>2, <1>4, AppendedName
<1> HIDE DEF keys
<1> QED
  BY <1>1, <1>2, <1>3, <1>5, LongerIsNamed

\* An imported key is not in the list yet; its label may be.
LEMMA ImportNames ==
  ASSUME StoreInv, NamesInv, NEW key, NEW label, cmdImport(key, label)
  PROVE  NamesInv'
<1> DEFINE given == IF label \in labelsIn(shell.keys) THEN suffixed(label) ELSE label
           keys == Append(shell.keys, entry(given, key))
<1>1. shell # Closed /\ IsKeys(shell.keys) /\ Named(shell.keys, known, imported)
  BY DEF StoreInv, ShellKnows, NamesInv, Closed, cmdImport
<1>2. /\ known' = known \cup {key} /\ imported' = imported \cup {key} /\ UNCHANGED disk
      /\ saving(keys, shell.pass, {key}) /\ key \notin keysIn(shell.keys)
      /\ key \in known \cup {nextKey}
  BY DEF cmdImport, known
<1>3. \E n \in Nat : known' = 1 .. n
  <2>1. CASE key \in known
    BY <1>2, <2>1 DEF NamesInv
  <2>2. CASE key = nextKey
    BY <1>2, <2>2, NextKeyIsNew DEF NamesInv
  <2> QED
    BY <1>2, <2>1, <2>2
<1>4. Named(shell.keys, known', imported')
  BY <1>1, <1>2, StaysNamed
<1> HIDE DEF given
<1>5. Named(keys, known', imported')
  BY <1>1, <1>2, <1>4, AppendedName
<1> HIDE DEF keys
<1> QED
  BY <1>1, <1>2, <1>3, <1>5, LongerIsNamed

\* A step that neither adds a key nor changes the list, except to that of the file.
LEMMA SameNames ==
  ASSUME NamesInv, UNCHANGED <<generated, imported>>,
         \/ shell' = Closed
         \/ shell # Closed /\ shell'.keys = shell.keys
         \/ disk["path"].is = "wallet" /\ shell'.keys = disk["path"].keys
         \/ shell'.keys = <<>>,
         \/ disk'["path"] = disk["path"]
         \/ shell # Closed /\ disk'["path"].keys = shell.keys
  PROVE  NamesInv'
<1>1. known' = known
  BY DEF known
<1>2. Named(<<>>, known, imported)
  BY DEF Named, keysIn, ToSet
<1> QED
  BY <1>1, <1>2 DEF NamesInv

\* Every command keeps the names.
LEMMA NamesInvNext == StoreInv /\ NamesInv /\ [WalletNext]_walletVars => NamesInv'
<1> SUFFICES ASSUME StoreInv, NamesInv, [WalletNext]_walletVars PROVE NamesInv'
  OBVIOUS
<1>1. CASE cmdNew
  BY <1>1, AddNames DEF cmdNew
<1>2. CASE WriteFile
  <2>1. shell # Closed /\ UNCHANGED <<generated, imported>>
    BY <1>2 DEF WriteFile, Closed
  <2>2. shell'.keys = shell.keys
    BY <1>2 DEF WriteFile, failed, Prompt, StoreInv, IsShell, Closed
  <2>3. disk'["path"] = disk["path"]
    BY <1>2 DEF WriteFile, torn, written, StoreInv, FileKnows
  <2> QED
    BY <2>1, <2>2, <2>3, SameNames
<1>3. CASE Rename
  <2>1. shell # Closed /\ UNCHANGED <<generated, imported>> /\ shell'.keys = shell.keys
    BY <1>3 DEF Rename, Closed, failed, Prompt
  <2>2. disk'["path"] = disk["path"] \/ disk'["path"].keys = shell.keys
    <3>1. disk["tmp"].keys = shell.keys
      BY <1>3 DEF Rename, StoreInv, SaveKnows, FileOf
    <3> QED
      BY <1>3, <3>1 DEF Rename, leftBehind, written, StoreInv, FileKnows
  <2> QED
    BY <2>1, <2>2, SameNames
<1>4. CASE Ends
  <2>1. disk'["path"] = disk["path"]
    BY <1>4 DEF Ends, torn, leftBehind, written, StoreInv, FileKnows
  <2> QED
    BY <1>4, <2>1, SameNames DEF Ends
<1>5. ASSUME NEW key, NEW label, cmdImport(key, label) PROVE NamesInv'
  BY <1>5, ImportNames
<1>6. ASSUME NEW pass, cmdEncrypt(pass) PROVE NamesInv'
  <2>1. shell # Closed /\ shell'.keys = shell.keys /\ UNCHANGED <<disk, generated, imported>>
    BY <1>6 DEF cmdEncrypt, saving, Closed
  <2> QED
    BY <2>1, SameNames
<1>7. ASSUME NEW pass, loadStore(pass) PROVE NamesInv'
  <2>1. UNCHANGED <<disk, generated, imported>>
    BY <1>7 DEF loadStore
  <2>2. \/ disk["path"].is = "wallet" /\ shell'.keys = disk["path"].keys
        \/ shell'.keys = <<>>
    BY <1>7 DEF loadStore, opened, Prompt
  <2> QED
    BY <2>1, <2>2, SameNames
<1>8. CASE UNCHANGED walletVars
  BY <1>8, SameNames DEF walletVars, Closed, NamesInv, known
<1> QED
  BY <1>1, <1>2, <1>3, <1>4, <1>5, <1>6, <1>7, <1>8 DEF WalletNext, save

\* For any keys, labels and commands, across failed saves and restarts: no list has a
\* key twice, and a label names one key but for an import whose numbered label was
\* taken too.
THEOREM NamesAreFound == WalletSpec => []NamesFindKeys
<1>1. WalletInit => NamesInv
  <2> SUFFICES ASSUME WalletInit PROVE NamesInv
    OBVIOUS
  <2>1. known = 1 .. 0
    BY DEF WalletInit, known
  <2> QED
    BY <2>1 DEF WalletInit, NamesInv, NoFile
<1>2. WalletSpec => []NamesInv
  BY <1>1, NamesInvNext, StoreInvariant, PTL DEF WalletSpec
<1>3. NamesInv => NamesFindKeys
  BY DEF NamesInv, Named, NamesFindKeys
<1> QED
  BY <1>2, <1>3, PTL

-----------------------------------------------------------------------------
(***************************************************************************)
(* The hashing machine.  What it has under way is one value, which the     *)
(* next instruction takes to the next; the counters of the last hash that  *)
(* a loop has yet to clear are left out of it.                             *)
(***************************************************************************)

Word == 0 .. wordSize - 1
Registers == [Register -> Word]
Scratchpad == [0 .. scratchWords - 1 -> Word]
Programs == [Places -> Instructions]
Counters == [Places -> 0 .. maxTaken]

Hashing ==
  [at : {"loop", "run"}, header : Header, loop : Nat, pc : Nat, r : Registers]

Run == [hash : Hashing, prog : Programs, scratch : Scratchpad, taken : Counters]

run(ha, p, sc, t) == [hash |-> ha, prog |-> p, scratch |-> sc, taken |-> t]

begun(x) ==
  run([x.hash EXCEPT !.at = "run", !.pc = 0], x.prog, x.scratch, NoTaken(x.prog))

branching(x, ins) ==
  /\ ins.op = "CBRANCH"
  /\ word(x.hash.r[ins.d] + ins.imm) % branchMask = 0
  /\ x.taken[x.hash.pc] < maxTaken

registersOf(x, ins) ==
  CASE ins.op = "IADD" -> mixed(x.hash.r, ins.d, x.hash.r[ins.s] + ins.imm)
    [] ins.op = "LOAD" -> mixed(x.hash.r, ins.d, x.scratch[address(x.hash.r[ins.s] + ins.imm)])
    [] OTHER           -> x.hash.r

scratchOf(x, ins) ==
  IF ins.op = "STORE"
  THEN mixed(x.scratch, address(x.hash.r[ins.d] + ins.imm), x.hash.r[ins.s] + x.hash.loop)
  ELSE x.scratch

jumped(x, ins) ==
  run([x.hash EXCEPT !.pc = IF @ > back(ins) THEN @ - back(ins) ELSE 0], x.prog, x.scratch,
      [x.taken EXCEPT ![x.hash.pc] = @ + 1])

computed(x, ins) ==
  run([x.hash EXCEPT !.pc = @ + 1, !.r = registersOf(x, ins)], x.prog,
      scratchOf(x, ins), x.taken)

instructed(x, ins) == IF branching(x, ins) THEN jumped(x, ins) ELSE computed(x, ins)

mixedIn(x) ==
  IF x.hash.header \in usesDataset THEN mixed(x.hash.r, 0, datasetWord(x.hash.r[1])) ELSE x.hash.r

folded(x, r, base) == mixed(mixed(x.scratch, base, r[0]), address(base + 1), r[1])

looped(x, r) ==
  run([x.hash EXCEPT !.at = "loop", !.loop = @ + 1, !.r = r], x.prog,
      folded(x, r, address(r[0] + x.hash.loop)), NoTaken(x.prog))

isDone(x) == x.hash.at = "loop" /\ x.hash.loop >= Loops

\* What the machine does next, which nothing but the run decides.
after(x) ==
  IF isDone(x) THEN x
  ELSE IF x.hash.at = "loop" THEN begun(x)
  ELSE IF x.hash.pc \in Places THEN instructed(x, x.prog[x.hash.pc])
  ELSE looped(x, mixedIn(x))

begins(h) ==
  run([at |-> "loop", header |-> h, loop |-> 0, pc |-> 0,
       r |-> [i \in Register |-> word(h + fillScratch(h)[i])]],
      programOf[h], fillScratch(h), NoTaken(programOf[h]))

underWay == run(hash, vm.prog, vm.scratch, IF hash.at = "run" THEN vm.taken ELSE NoTaken(vm.prog))

\* A word is what is left of a number.
LEMMA WordTyped == ASSUME NEW x \in Int PROVE word(x) \in Word
BY VMAssumption DEF word, Word

\* An address is one of the scratchpad's.
LEMMA AddressTyped == ASSUME NEW x \in Int PROVE address(x) \in 0 .. scratchWords - 1
BY VMAssumption DEF address

\* Mixing a number into one word leaves words.
LEMMA MixedTyped ==
  ASSUME NEW D, NEW f \in [D -> Word], NEW i \in D, NEW x \in Int
  PROVE  mixed(f, i, x) \in [D -> Word]
<1>1. f[i] \in Int
  BY DEF Word
<1>2. word(f[i] + x) \in Word
  BY <1>1, WordTyped
<1> QED
  BY <1>2 DEF mixed

\* A run has the types of its parts.
LEMMA RunTyped ==
  ASSUME NEW ha \in Hashing, NEW p \in Programs, NEW sc \in Scratchpad, NEW t \in Counters
  PROVE  run(ha, p, sc, t) \in Run
BY DEF run, Run

\* The parts of a run.
LEMMA RunParts ==
  ASSUME NEW x \in Run
  PROVE  /\ x.hash \in Hashing /\ x.prog \in Programs
         /\ x.scratch \in Scratchpad /\ x.taken \in Counters
BY DEF Run

\* The counters of a loop that begins.
LEMMA NoTakenTyped == ASSUME NEW p \in Programs PROVE NoTaken(p) \in Counters
BY VMAssumption DEF NoTaken, Counters, Programs

\* The parts of a hash.
LEMMA HashingParts ==
  ASSUME NEW ha \in Hashing
  PROVE  /\ ha.at \in {"loop", "run"} /\ ha.header \in Header /\ ha.loop \in Nat
         /\ ha.pc \in Nat /\ ha.r \in Registers
         /\ ha.r[0] \in Nat /\ ha.r[1] \in Nat
BY DEF Hashing, Registers, Register, Word

\* A word of the scratchpad, and the scratchpad with a number mixed in.
LEMMA ScratchMixed ==
  ASSUME NEW sc \in Scratchpad, NEW a \in 0 .. scratchWords - 1, NEW x \in Int
  PROVE  sc[a] \in Nat /\ mixed(sc, a, x) \in Scratchpad
<1> DEFINE D == 0 .. scratchWords - 1
<1>1. sc \in [D -> Word] /\ a \in D
  BY DEF Scratchpad
<1> HIDE DEF D
<1>2. mixed(sc, a, x) \in [D -> Word] /\ sc[a] \in Word
  BY <1>1, MixedTyped
<1> QED
  BY <1>2 DEF Scratchpad, D, Word

\* A hash with other registers stays one, wherever it is.
LEMMA OtherRegisters ==
  ASSUME NEW ha \in Hashing, NEW n \in Nat, NEW r \in Registers
  PROVE  /\ [ha EXCEPT !.pc = n, !.r = r] \in Hashing
         /\ [ha EXCEPT !.at = "loop", !.loop = n, !.r = r] \in Hashing
<1> DEFINE u == [ha EXCEPT !.pc = n]
           v == [ha EXCEPT !.at = "loop", !.loop = n]
<1>1. u \in Hashing
  BY DEF Hashing
<1>2. v \in Hashing
  BY DEF Hashing
<1>3. [ha EXCEPT !.pc = n, !.r = r] = [u EXCEPT !.r = r]
  OBVIOUS
<1>4. [ha EXCEPT !.at = "loop", !.loop = n, !.r = r] = [v EXCEPT !.r = r]
  OBVIOUS
<1> HIDE DEF u, v
<1>5. [u EXCEPT !.r = r] \in Hashing
  BY <1>1 DEF Hashing
<1>6. [v EXCEPT !.r = r] \in Hashing
  BY <1>2 DEF Hashing
<1> QED
  BY <1>3, <1>4, <1>5, <1>6, Zenon

\* An instruction and what it reads.
LEMMA InstructionParts ==
  ASSUME NEW x \in Run, x.hash.pc \in Places
  PROVE  LET ins == x.prog[x.hash.pc]
         IN  /\ ins \in Instructions /\ ins.d \in Register /\ ins.s \in Register
             /\ ins.imm \in Nat /\ x.hash.r[ins.d] \in Nat /\ x.hash.r[ins.s] \in Nat
<1> DEFINE ins == x.prog[x.hash.pc]
<1>1. ins \in Instructions /\ x.hash.r \in Registers
  BY RunParts, HashingParts DEF Programs
<1>2. ins.d \in Register /\ ins.s \in Register /\ ins.imm \in Nat
  BY <1>1 DEF Instructions
<1> QED
  BY <1>1, <1>2 DEF Registers, Word

\* A loop begins with no branch taken.
LEMMA BegunTyped == ASSUME NEW x \in Run PROVE begun(x) \in Run
<1>1. [x.hash EXCEPT !.at = "run", !.pc = 0] \in Hashing
  BY RunParts DEF Hashing
<1> QED
  BY <1>1, RunParts, RunTyped, NoTakenTyped DEF begun

\* A branch goes back to an address, and is counted.
LEMMA JumpedTyped ==
  ASSUME NEW x \in Run, x.hash.pc \in Places, branching(x, x.prog[x.hash.pc])
  PROVE  jumped(x, x.prog[x.hash.pc]) \in Run
<1> DEFINE ins == x.prog[x.hash.pc]
           to == IF x.hash.pc > back(ins) THEN x.hash.pc - back(ins) ELSE 0
<1>1. ins.imm \in Nat /\ x.hash \in Hashing /\ x.hash.pc \in Nat
  BY InstructionParts, RunParts, HashingParts
<1>2. back(ins) \in Nat
  BY <1>1 DEF back
<1> HIDE DEF ins
<1>3. to \in Nat
  BY <1>1, <1>2
<1> HIDE DEF to
<1>4. [x.hash EXCEPT !.pc = to] \in Hashing
  BY <1>1, <1>3 DEF Hashing
<1>5. x.taken \in Counters /\ x.taken[x.hash.pc] < maxTaken
  BY RunParts DEF branching, ins
<1>6. [x.taken EXCEPT ![x.hash.pc] = @ + 1] \in Counters
  BY <1>5, VMAssumption DEF Counters
<1>7. run([x.hash EXCEPT !.pc = to], x.prog, x.scratch,
          [x.taken EXCEPT ![x.hash.pc] = @ + 1]) \in Run
  BY <1>4, <1>6, RunParts, RunTyped
<1> QED
  BY <1>7 DEF jumped, to, ins

\* Any other instruction leaves words in the registers and in the scratchpad.
LEMMA ComputedTyped ==
  ASSUME NEW x \in Run, x.hash.pc \in Places
  PROVE  computed(x, x.prog[x.hash.pc]) \in Run
<1> DEFINE ins == x.prog[x.hash.pc]
<1>1. /\ ins.d \in Register /\ ins.s \in Register /\ ins.imm \in Nat
      /\ x.hash.r[ins.d] \in Nat /\ x.hash.r[ins.s] \in Nat
  BY InstructionParts
<1>2. /\ x.hash \in Hashing /\ x.hash.pc \in Nat /\ x.hash.loop \in Nat
      /\ x.hash.r \in Registers /\ x.scratch \in Scratchpad
  BY RunParts, HashingParts
<1> HIDE DEF ins
<1>3. registersOf(x, ins) \in Registers
  <2>1. mixed(x.hash.r, ins.d, x.hash.r[ins.s] + ins.imm) \in Registers
    BY <1>1, <1>2, MixedTyped DEF Registers
  <2>2. address(x.hash.r[ins.s] + ins.imm) \in 0 .. scratchWords - 1
    BY <1>1, AddressTyped
  <2>3. x.scratch[address(x.hash.r[ins.s] + ins.imm)] \in Int
    BY <1>2, <2>2, ScratchMixed
  <2>4. mixed(x.hash.r, ins.d, x.scratch[address(x.hash.r[ins.s] + ins.imm)]) \in Registers
    BY <1>1, <1>2, <2>3, MixedTyped DEF Registers
  <2> QED
    BY <1>2, <2>1, <2>4 DEF registersOf
<1>4. scratchOf(x, ins) \in Scratchpad
  <2>1. address(x.hash.r[ins.d] + ins.imm) \in 0 .. scratchWords - 1
    BY <1>1, AddressTyped
  <2>2. mixed(x.scratch, address(x.hash.r[ins.d] + ins.imm), x.hash.r[ins.s] + x.hash.loop)
          \in Scratchpad
    BY <1>1, <1>2, <2>1, ScratchMixed
  <2> QED
    BY <1>2, <2>2 DEF scratchOf
<1>5. [x.hash EXCEPT !.pc = @ + 1, !.r = registersOf(x, ins)] \in Hashing
  <2>1. x.hash.pc + 1 \in Nat
    BY <1>2
  <2> QED
    BY <1>2, <1>3, <2>1, OtherRegisters
<1>6. computed(x, ins) \in Run
  BY <1>4, <1>5, RunParts, RunTyped DEF computed
<1> QED
  BY <1>6 DEF ins

\* What the dataset adds are words.
LEMMA MixedInTyped == ASSUME NEW x \in Run PROVE mixedIn(x) \in Registers
<1>1. x.hash.r \in Registers /\ x.hash.r[1] \in Nat
  BY RunParts, HashingParts
<1>2. x.hash.r[1] * x.hash.r[1] \in Int
  BY <1>1
<1>3. datasetWord(x.hash.r[1]) \in Int
  BY <1>2, WordTyped DEF datasetWord, Word
<1>4. mixed(x.hash.r, 0, datasetWord(x.hash.r[1])) \in Registers
  BY <1>1, <1>3, MixedTyped DEF Registers, Register
<1> QED
  BY <1>1, <1>4 DEF mixedIn

\* The end of a loop leaves words in the scratchpad.
LEMMA LoopedTyped ==
  ASSUME NEW x \in Run, NEW r \in Registers
  PROVE  looped(x, r) \in Run
<1> DEFINE base == address(r[0] + x.hash.loop)
<1>1. r[0] \in Nat /\ r[1] \in Nat /\ x.hash.loop \in Nat /\ x.hash \in Hashing
  BY RunParts, HashingParts DEF Registers, Register, Word
<1>2. base \in 0 .. scratchWords - 1
  BY <1>1, AddressTyped
<1> HIDE DEF base
<1>3. address(base + 1) \in 0 .. scratchWords - 1
  BY <1>2, AddressTyped
<1>4. mixed(x.scratch, base, r[0]) \in Scratchpad
  BY <1>1, <1>2, RunParts, ScratchMixed
<1>5. folded(x, r, base) \in Scratchpad
  BY <1>1, <1>3, <1>4, ScratchMixed DEF folded
<1>6. [x.hash EXCEPT !.at = "loop", !.loop = @ + 1, !.r = r] \in Hashing
  <2>1. x.hash.loop + 1 \in Nat
    BY <1>1
  <2> QED
    BY <1>1, <2>1, OtherRegisters
<1> QED
  BY <1>5, <1>6, RunParts, RunTyped, NoTakenTyped DEF looped, base

\* What comes after a run is a run.
LEMMA AfterTyped == ASSUME NEW x \in Run PROVE after(x) \in Run
BY BegunTyped, JumpedTyped, ComputedTyped, LoopedTyped, MixedInTyped DEF after, instructed

\* What a header begins with is a run.
LEMMA BeginsTyped ==
  ASSUME NEW h \in Header, programOf[h] \in Programs
  PROVE  begins(h) \in Run
<1>1. h \in Nat
  BY VMAssumption
<1>2. fillScratch(h) \in Scratchpad
  BY <1>1, WordTyped DEF fillScratch, Scratchpad
<1>3. \A i \in Register : fillScratch(h)[i] \in Nat
  BY <1>2, VMAssumption DEF Scratchpad, Word
<1> DEFINE r == [i \in Register |-> word(h + fillScratch(h)[i])]
<1>4. r \in Registers
  BY <1>1, <1>3, WordTyped DEF Registers
<1> HIDE DEF r
<1>5. [at |-> "loop", header |-> h, loop |-> 0, pc |-> 0, r |-> r] \in Hashing
  BY <1>4 DEF Hashing
<1> QED
  BY <1>2, <1>5, RunTyped, NoTakenTyped DEF begins, r

-----------------------------------------------------------------------------
(***************************************************************************)
(* The machine as it runs.  Its steps are those of `after`, so what a      *)
(* header comes to is fixed by what it begins with.                        *)
(***************************************************************************)

\* The buffers are these three.
Buffers == vm = [prog |-> vm.prog, scratch |-> vm.scratch, taken |-> vm.taken]

VMTyped ==
  /\ programOf \in [Header -> Programs]
  /\ Buffers
  /\ hash # Idle => underWay \in Run /\ vm.prog = programOf[hash.header]

\* What is under way, part by part.
LEMMA UnderWayParts ==
  /\ underWay.hash = hash /\ underWay.prog = vm.prog /\ underWay.scratch = vm.scratch
  /\ hash.at = "run" => underWay.taken = vm.taken
  /\ hash.at # "run" => underWay.taken = NoTaken(vm.prog)
BY DEF underWay, run

\* A hash is under way or not.
LEMMA HashTyped ==
  ASSUME VMTyped
  PROVE  /\ hash # Idle => hash \in Hashing
         /\ hash = Idle => hash.at = "idle"
         /\ hash # Idle => hash.at # "idle"
<1>1. hash # Idle => hash \in Hashing
  BY UnderWayParts, RunParts DEF VMTyped
<1> QED
  BY <1>1 DEF Idle, Hashing

\* What changes one buffer leaves the others.
LEMMA BufferSet ==
  ASSUME Buffers, NEW a
  PROVE  /\ [vm EXCEPT !.taken = a] = [prog |-> vm.prog, scratch |-> vm.scratch, taken |-> a]
         /\ [vm EXCEPT !.scratch = a] = [prog |-> vm.prog, scratch |-> a, taken |-> vm.taken]
<1> DEFINE p == vm.prog
           s == vm.scratch
           t == vm.taken
<1>1. vm = [prog |-> p, scratch |-> s, taken |-> t]
  BY DEF Buffers
<1> HIDE DEF p, s, t
<1>2. /\ [vm EXCEPT !.taken = a] = [prog |-> p, scratch |-> s, taken |-> a]
      /\ [vm EXCEPT !.scratch = a] = [prog |-> p, scratch |-> a, taken |-> t]
  BY <1>1
<1> QED
  BY <1>2 DEF p, s, t

\* A loop begins as `after` says.
LEMMA BeginLoopIsAfter ==
  ASSUME VMTyped, BeginLoop
  PROVE  /\ underWay' = after(underWay) /\ hash' # Idle /\ Buffers' /\ UNCHANGED vm.prog
         /\ hash'.header = hash.header
<1>1. hash \in Hashing /\ hash.at = "loop" /\ ~ hash.loop >= Loops
  BY HashTyped, HashingParts, VMAssumption DEF BeginLoop
<1>2. vm' = [prog |-> vm.prog, scratch |-> vm.scratch, taken |-> NoTaken(vm.prog)]
  BY BufferSet DEF BeginLoop, VMTyped
<1>3. hash' = [hash EXCEPT !.at = "run", !.pc = 0]
  BY DEF BeginLoop
<1>4. hash'.at = "run" /\ hash'.header = hash.header
  BY <1>1, <1>3 DEF Hashing
<1>5. underWay' = run(hash', vm.prog, vm.scratch, NoTaken(vm.prog))
  BY <1>2, <1>4 DEF underWay
<1>6. begun(underWay) = run([hash EXCEPT !.at = "run", !.pc = 0], vm.prog, vm.scratch,
                            NoTaken(vm.prog))
  BY UnderWayParts, Zenon DEF begun
<1>7. after(underWay) = begun(underWay)
  BY <1>1, UnderWayParts DEF after, isDone
<1>8. underWay' = after(underWay)
  BY <1>3, <1>5, <1>6, <1>7
<1>9. Buffers' /\ vm'.prog = vm.prog
  BY <1>2 DEF Buffers
<1> QED
  BY <1>4, <1>8, <1>9 DEF Idle

\* An instruction does what `after` says.
LEMMA InstructionIsAfter ==
  ASSUME VMTyped, Instruction
  PROVE  /\ underWay' = after(underWay) /\ hash' # Idle /\ Buffers' /\ UNCHANGED vm.prog
         /\ hash'.header = hash.header /\ hash'.at = "run"
<1> DEFINE ins == vm.prog[hash.pc]
<1>1. hash \in Hashing /\ hash.at = "run" /\ hash.pc \in Nat
  BY HashTyped, HashingParts DEF Instruction
<1>2. /\ underWay \in Run /\ underWay.taken = vm.taken
      /\ vm.prog \in Programs /\ vm.scratch \in Scratchpad
  <2>1. underWay \in Run
    BY <1>1, HashTyped DEF VMTyped
  <2> QED
    BY <1>1, <2>1, UnderWayParts, RunParts
<1>3. hash.pc \in Places
  BY <1>2 DEF Instruction, Programs
<1>4. after(underWay) = instructed(underWay, ins)
  BY <1>1, <1>3, UnderWayParts DEF after, isDone
<1>5. branching(underWay, ins) <=> branches(ins)
  BY <1>2, UnderWayParts DEF branching, branches
<1>6. CASE branches(ins)
  <2> DEFINE t == [vm.taken EXCEPT ![hash.pc] = @ + 1]
             n == IF hash.pc > back(ins) THEN hash.pc - back(ins) ELSE 0
  <2>1. hash' = [hash EXCEPT !.pc = n] /\ vm' = [vm EXCEPT !.taken = t]
    BY <1>6, Zenon DEF Instruction
  <2>2. vm' = [prog |-> vm.prog, scratch |-> vm.scratch, taken |-> t]
    BY <2>1, BufferSet DEF VMTyped
  <2> HIDE DEF t, n
  <2>3. hash'.at = "run" /\ hash'.header = hash.header
    BY <1>1, <2>1 DEF Hashing
  <2>4. underWay' = run(hash', vm.prog, vm.scratch, t)
    BY <2>2, <2>3 DEF underWay
  <2>5. jumped(underWay, ins) = run([hash EXCEPT !.pc = n], vm.prog, vm.scratch, t)
    BY <1>2, UnderWayParts, Zenon DEF jumped, t, n
  <2>6. Buffers' /\ vm'.prog = vm.prog
    BY <2>2 DEF Buffers
  <2> QED
    BY <1>4, <1>5, <1>6, <2>1, <2>3, <2>4, <2>5, <2>6 DEF instructed, Idle
<1>7. CASE ~ branches(ins)
  <2> DEFINE sc == scratchAfter(ins)
             r == registersAfter(ins)
  <2>1. hash' = [hash EXCEPT !.pc = @ + 1, !.r = r] /\ vm' = [vm EXCEPT !.scratch = sc]
    BY <1>7, Zenon DEF Instruction
  <2>2. sc = scratchOf(underWay, ins) /\ r = registersOf(underWay, ins)
    BY UnderWayParts, Zenon DEF scratchAfter, scratchOf, registersAfter, registersOf
  <2> HIDE DEF sc, r
  <2>3. vm' = [prog |-> vm.prog, scratch |-> sc, taken |-> vm.taken]
    BY <2>1, BufferSet DEF VMTyped
  <2>4. hash'.at = "run" /\ hash'.header = hash.header
    BY <1>1, <2>1 DEF Hashing
  <2>5. underWay' = run(hash', vm.prog, sc, vm.taken)
    BY <2>3, <2>4 DEF underWay
  <2>6. computed(underWay, ins) = run([hash EXCEPT !.pc = @ + 1, !.r = r], vm.prog, sc, vm.taken)
    BY <1>2, <2>2, UnderWayParts, Zenon DEF computed
  <2>7. Buffers' /\ vm'.prog = vm.prog
    BY <2>3 DEF Buffers
  <2>8. underWay' = after(underWay)
    BY <1>4, <1>5, <1>7, <2>1, <2>5, <2>6, Zenon DEF instructed
  <2> QED
    BY <2>4, <2>7, <2>8 DEF Idle
<1> QED
  BY <1>6, <1>7

\* A loop ends as `after` says.
LEMMA EndLoopIsAfter ==
  ASSUME VMTyped, EndLoop
  PROVE  /\ underWay' = after(underWay) /\ hash' # Idle /\ Buffers' /\ UNCHANGED vm.prog
         /\ hash'.header = hash.header
<1>1. hash \in Hashing /\ hash.at = "run" /\ hash.pc \in Nat
  BY HashTyped, HashingParts DEF EndLoop
<1>2. vm.prog \in Programs
  BY <1>1, HashTyped, UnderWayParts, RunParts DEF VMTyped
<1>3. hash.pc \notin Places
  BY <1>2 DEF EndLoop, Programs
<1> DEFINE r == mixedIn(underWay)
           base == address(r[0] + hash.loop)
           sc == mixed(mixed(vm.scratch, base, r[0]), address(base + 1), r[1])
<1>4. r = IF hash.header \in usesDataset THEN mixed(hash.r, 0, datasetWord(hash.r[1])) ELSE hash.r
  BY UnderWayParts, Zenon DEF mixedIn
<1>5. /\ hash' = [hash EXCEPT !.at = "loop", !.loop = @ + 1, !.r = r]
      /\ vm' = [vm EXCEPT !.scratch = sc]
  BY <1>4, Zenon DEF EndLoop
<1> HIDE DEF r
<1>6. folded(underWay, r, base) = sc
  BY UnderWayParts, Zenon DEF folded
<1> HIDE DEF sc
<1>7. vm' = [prog |-> vm.prog, scratch |-> sc, taken |-> vm.taken]
  BY <1>5, BufferSet DEF VMTyped
<1>8. hash'.at = "loop" /\ hash'.header = hash.header
  BY <1>1, <1>5 DEF Hashing
<1>9. underWay' = run(hash', vm.prog, sc, NoTaken(vm.prog))
  BY <1>7, <1>8 DEF underWay
<1>10. looped(underWay, r) = run([hash EXCEPT !.at = "loop", !.loop = @ + 1, !.r = r], vm.prog,
                                 sc, NoTaken(vm.prog))
  BY <1>6, UnderWayParts, Zenon DEF looped
<1>11. after(underWay) = looped(underWay, r)
  BY <1>1, <1>3, UnderWayParts DEF after, isDone, r
<1>12. underWay' = after(underWay)
  BY <1>5, <1>9, <1>10, <1>11, Zenon
<1>13. Buffers' /\ vm'.prog = vm.prog
  BY <1>7 DEF Buffers
<1> QED
  BY <1>8, <1>12, <1>13 DEF Idle

\* A hash begins with what belongs to its header.
LEMMA HashBegins ==
  ASSUME VMTyped, NEW h \in Header, Hash(h)
  PROVE  /\ underWay' = begins(h) /\ hash' # Idle /\ Buffers' /\ vm'.prog = programOf[h]
         /\ hash'.header = h
<1>1. vm' = [prog |-> programOf[h], scratch |-> fillScratch(h), taken |-> vm.taken]
  <2> DEFINE t == vm.taken
             sc == fillScratch(h)
             p == programOf[h]
  <2>1. vm = [prog |-> vm.prog, scratch |-> vm.scratch, taken |-> t]
    BY DEF VMTyped, Buffers
  <2>2. vm' = [vm EXCEPT !.prog = p, !.scratch = sc]
    BY DEF Hash, expanded
  <2> HIDE DEF t, sc, p
  <2>3. [vm EXCEPT !.prog = p] = [prog |-> p, scratch |-> vm.scratch, taken |-> t]
    BY <2>1
  <2>4. [vm EXCEPT !.prog = p, !.scratch = sc] = [[vm EXCEPT !.prog = p] EXCEPT !.scratch = sc]
    OBVIOUS
  <2> DEFINE u == [vm EXCEPT !.prog = p]
  <2>5. u = [prog |-> p, scratch |-> vm.scratch, taken |-> t] /\ vm' = [u EXCEPT !.scratch = sc]
    BY <2>2, <2>3, <2>4, Zenon
  <2> HIDE DEF u
  <2> QED
    BY <2>5 DEF t, sc, p
<1> DEFINE ha == [at |-> "loop", header |-> h, loop |-> 0, pc |-> 0,
                  r |-> [i \in Register |-> word(h + fillScratch(h)[i])]]
<1>2. hash' = ha
  BY DEF Hash
<1>3. ha.at = "loop" /\ ha.header = h
  OBVIOUS
<1> HIDE DEF ha
<1>4. underWay' = run(ha, programOf[h], fillScratch(h), NoTaken(programOf[h]))
  BY <1>1, <1>2, <1>3 DEF underWay
<1>5. Buffers' /\ vm'.prog = programOf[h]
  BY <1>1 DEF Buffers
<1> QED
  BY <1>2, <1>3, <1>4, <1>5 DEF begins, ha, Idle

\* A new machine.
LEMMA VMStarts == VMInit => VMTyped
<1> SUFFICES ASSUME VMInit PROVE VMTyped
  OBVIOUS
<1>1. programOf \in [Header -> Programs]
  BY VMAssumption DEF VMInit, Programs
<1>2. Buffers
  BY DEF VMInit, NewVM, Buffers
<1> QED
  BY <1>1, <1>2 DEF VMTyped, VMInit

\* Every step keeps the types.
LEMMA VMKeeps == VMTyped /\ [VMNext]_vmVars => VMTyped'
<1> SUFFICES ASSUME VMTyped, [VMNext]_vmVars PROVE VMTyped'
  OBVIOUS
<1>1. programOf' = programOf /\ programOf' \in [Header -> Programs]
  BY DEF VMNext, VMStep, Hash, BeginLoop, Instruction, EndLoop, Finish, vmVars, VMTyped
<1>2. CASE BeginLoop \/ Instruction \/ EndLoop
  <2>1. /\ underWay' = after(underWay) /\ Buffers' /\ vm'.prog = vm.prog
        /\ hash'.header = hash.header
    BY <1>2, BeginLoopIsAfter, InstructionIsAfter, EndLoopIsAfter
  <2>2. hash # Idle
    BY <1>2, HashTyped DEF BeginLoop, Instruction, EndLoop
  <2>3. underWay' \in Run
    BY <2>1, <2>2, AfterTyped DEF VMTyped
  <2> QED
    BY <1>1, <2>1, <2>2, <2>3 DEF VMTyped
<1>3. CASE Finish
  <2>1. hash' = Idle /\ vm' = vm
    BY <1>3 DEF Finish
  <2> QED
    BY <1>1, <2>1 DEF VMTyped, Buffers
<1>4. ASSUME NEW h \in Header, Hash(h) PROVE VMTyped'
  <2>1. underWay' = begins(h) /\ Buffers' /\ vm'.prog = programOf[h] /\ hash'.header = h
    BY <1>4, HashBegins
  <2>2. underWay' \in Run
    BY <2>1, BeginsTyped DEF VMTyped
  <2> QED
    BY <1>1, <2>1, <2>2 DEF VMTyped
<1>5. CASE UNCHANGED vmVars
  BY <1>5 DEF vmVars, VMTyped, Buffers, underWay
<1> QED
  BY <1>2, <1>3, <1>4, <1>5 DEF VMNext, VMStep

-----------------------------------------------------------------------------
(***************************************************************************)
(* One digest.  A run reaches another when every set of runs that `after`  *)
(* does not leave has the second with the first.                           *)
(***************************************************************************)

Reaches(x, y) ==
  \A T \in SUBSET Run : x \in T /\ (\A z \in T : after(z) \in T) => y \in T

resultOf(x) == <<x.hash.r, x.scratch>>

\* The inductive invariant: a header's results are of runs that it reached and that
\* were done, and the run under way is one that its header reached.
DigestInv ==
  /\ digests \in [Header -> SUBSET (Registers \X Scratchpad)]
  /\ hash # Idle => Reaches(begins(hash.header), underWay)
  /\ \A h \in Header : \A d \in digests[h] :
       \E x \in Run : isDone(x) /\ Reaches(begins(h), x) /\ d = resultOf(x)

\* One more step.
LEMMA ReachesNext ==
  ASSUME NEW x \in Run, NEW y \in Run, Reaches(x, y)
  PROVE  Reaches(x, after(y))
BY DEF Reaches

\* Nothing comes after the run where a header ends, so there is one such run.
LEMMA OneEnd ==
  ASSUME NEW x \in Run, NEW y \in Run, NEW z \in Run, Reaches(x, y), Reaches(x, z),
         isDone(y), isDone(z)
  PROVE  y = z
<1> DEFINE S == {w \in Run : Reaches(w, y)}
<1>1. after(y) = y /\ after(z) = z
  BY DEF after
<1>2. ASSUME NEW w \in S PROVE after(w) \in S
  <2>1. after(w) \in Run
    BY AfterTyped
  <2>2. CASE w = y
    BY <1>1, <2>2
  <2>3. CASE w # y
    <3> SUFFICES ASSUME NEW T \in SUBSET Run, after(w) \in T, \A v \in T : after(v) \in T
                 PROVE  y \in T
      BY <2>1 DEF Reaches
    <3>1. T \cup {w} \in SUBSET Run /\ \A v \in T \cup {w} : after(v) \in T \cup {w}
      OBVIOUS
    <3>2. y \in T \cup {w}
      BY <3>1 DEF Reaches
    <3> QED
      BY <2>3, <3>2
  <2> QED
    BY <2>2, <2>3
<1>3. z \in S
  BY <1>2 DEF Reaches
<1>4. Reaches(z, y)
  BY <1>3
<1>5. {z} \in SUBSET Run /\ z \in {z} /\ \A w \in {z} : after(w) \in {z}
  BY <1>1
<1>6. y \in {z}
  BY <1>4, <1>5 DEF Reaches
<1> QED
  BY <1>6

\* Every step keeps it.
LEMMA DigestKeeps == VMTyped /\ DigestInv /\ [VMNext]_vmVars => DigestInv'
<1> SUFFICES ASSUME VMTyped, DigestInv, [VMNext]_vmVars PROVE DigestInv'
  OBVIOUS
<1>1. programOf' = programOf
  BY DEF VMNext, VMStep, Hash, BeginLoop, Instruction, EndLoop, Finish, vmVars
<1>2. \A h : begins(h)' = begins(h)
  BY <1>1 DEF begins
<1>3. hash # Idle => /\ underWay \in Run /\ hash.header \in Header
                     /\ begins(hash.header) \in Run
  <2> SUFFICES ASSUME hash # Idle PROVE /\ underWay \in Run /\ hash.header \in Header
                                        /\ begins(hash.header) \in Run
    OBVIOUS
  <2>1. underWay \in Run /\ hash.header \in Header
    BY HashTyped, HashingParts DEF VMTyped
  <2> QED
    BY <2>1, BeginsTyped DEF VMTyped
<1>4. CASE BeginLoop \/ Instruction \/ EndLoop
  <2>1. underWay' = after(underWay) /\ hash'.header = hash.header
    BY <1>4, BeginLoopIsAfter, InstructionIsAfter, EndLoopIsAfter
  <2>2. hash # Idle
    BY <1>4, HashTyped DEF BeginLoop, Instruction, EndLoop
  <2>3. digests' = digests
    BY <1>4 DEF BeginLoop, Instruction, EndLoop
  <2>4. Reaches(begins(hash.header), underWay')
    BY <1>3, <2>1, <2>2, ReachesNext DEF DigestInv
  <2>5. Reaches(begins(hash.header), underWay)'
    BY <1>2, <2>1, <2>4 DEF Reaches
  <2> QED
    BY <1>2, <2>3, <2>5 DEF DigestInv
<1>5. CASE Finish
  <2> DEFINE h == hash.header
             d == <<hash.r, vm.scratch>>
  <2>1. hash.at = "loop" /\ hash.loop = Loops /\ hash' = Idle
    BY <1>5 DEF Finish
  <2>2. hash # Idle
    BY <2>1, HashTyped
  <2>3. isDone(underWay) /\ d = resultOf(underWay) /\ Reaches(begins(h), underWay)
    BY <2>1, <2>2, UnderWayParts, VMAssumption DEF isDone, resultOf, DigestInv
  <2>4. h \in Header /\ underWay \in Run
    BY <1>3, <2>2
  <2>5. d \in Registers \X Scratchpad
    BY <2>4, UnderWayParts, RunParts, HashingParts
  <2>6. digests' = [digests EXCEPT ![h] = @ \cup {d}]
    BY <1>5 DEF Finish
  <2> HIDE DEF h, d
  <2>7. digests' \in [Header -> SUBSET (Registers \X Scratchpad)]
    BY <2>4, <2>5, <2>6 DEF DigestInv
  <2>8. ASSUME NEW g \in Header, NEW e \in digests'[g]
        PROVE  \E x \in Run : isDone(x) /\ Reaches(begins(g), x) /\ e = resultOf(x)
    <3>1. e \in digests[g] \/ (g = h /\ e = d)
      BY <2>4, <2>6 DEF DigestInv
    <3> QED
      BY <2>3, <2>4, <3>1 DEF DigestInv
  <2> QED
    BY <1>2, <2>1, <2>7, <2>8 DEF DigestInv
<1>6. ASSUME NEW h \in Header, Hash(h) PROVE DigestInv'
  <2>1. underWay' = begins(h) /\ hash'.header = h
    BY <1>6, HashBegins
  <2>2. digests' = digests
    BY <1>6 DEF Hash
  <2>3. Reaches(begins(h), begins(h))
    BY DEF Reaches
  <2>4. Reaches(begins(hash.header), underWay)'
    BY <1>2, <2>1, <2>3 DEF Reaches
  <2> QED
    BY <1>2, <2>2, <2>4 DEF DigestInv
<1>7. CASE UNCHANGED vmVars
  <2>1. underWay' = underWay /\ hash' = hash /\ digests' = digests
    BY <1>7 DEF vmVars, underWay
  <2> QED
    BY <1>2, <2>1 DEF DigestInv, Reaches
<1> QED
  BY <1>4, <1>5, <1>6, <1>7 DEF VMNext, VMStep

\* For any headers, programs, sizes and numbers of loops, and whatever the machine
\* hashed before, a header has one hash.
THEOREM HashesAreOne == VMSpec => []OneDigest
<1>1. VMInit => DigestInv
  BY DEF VMInit, DigestInv
<1>2. VMSpec => [](VMTyped /\ DigestInv)
  BY <1>1, VMStarts, VMKeeps, DigestKeeps, PTL DEF VMSpec
<1>3. VMTyped /\ DigestInv => OneDigest
  <2> SUFFICES ASSUME VMTyped, DigestInv, NEW h \in Header PROVE Cardinality(digests[h]) <= 1
    BY DEF OneDigest
  <2>1. begins(h) \in Run
    BY BeginsTyped DEF VMTyped
  <2>2. \A d, e \in digests[h] : d = e
    <3> SUFFICES ASSUME NEW d \in digests[h], NEW e \in digests[h] PROVE d = e
      OBVIOUS
    <3>1. PICK x \in Run : isDone(x) /\ Reaches(begins(h), x) /\ d = resultOf(x)
      BY DEF DigestInv
    <3>2. PICK y \in Run : isDone(y) /\ Reaches(begins(h), y) /\ e = resultOf(y)
      BY DEF DigestInv
    <3> QED
      BY <2>1, <3>1, <3>2, OneEnd
  <2>3. CASE digests[h] = {}
    BY <2>3, FS_EmptySet
  <2>4. CASE digests[h] # {}
    <3>1. PICK d \in digests[h] : TRUE
      BY <2>4
    <3>2. digests[h] = {d}
      BY <2>2, <3>1
    <3>3. Cardinality({d}) = 1
      BY FS_Singleton
    <3> QED
      BY <3>2, <3>3
  <2> QED
    BY <2>3, <2>4
<1> QED
  BY <1>2, <1>3, PTL

-----------------------------------------------------------------------------
(***************************************************************************)
(* The work of a loop.                                                     *)
(***************************************************************************)

branchesOf(p) == {i \in DOMAIN p : p[i].op = "CBRANCH"}

sizes(p, times) == [i \in DOMAIN p |-> times[i] * (back(p[i]) + 1)]

\* The inductive invariant: what was not counted as repeated lies below the place that
\* is next.
LoopInv ==
  hash.at = "run" =>
    /\ steps \in Nat /\ hash.pc <= ProgSize
    /\ steps <= hash.pc + repeated(vm.prog, vm.taken)

\* Branches are finitely many, and each goes back by some number.
LEMMA BranchesAreFinite ==
  ASSUME NEW p \in Programs
  PROVE  /\ IsFiniteSet(branchesOf(p)) /\ branchesOf(p) \subseteq Places /\ DOMAIN p = Places
         /\ \A i \in Places : back(p[i]) \in Nat
<1>1. IsFiniteSet(Places)
  BY VMAssumption, FS_Interval DEF Places
<1>2. DOMAIN p = Places /\ branchesOf(p) \subseteq Places
  BY DEF Programs, branchesOf
<1>3. ASSUME NEW i \in Places PROVE back(p[i]) \in Nat
  <2>1. p[i].imm \in Nat
    BY DEF Programs, Instructions
  <2> QED
    BY <2>1 DEF back
<1> QED
  BY <1>1, <1>2, <1>3, FS_Subset

\* More times is more work.
LEMMA TimesGrow ==
  ASSUME NEW k \in Nat, NEW t \in Nat, NEW m \in Nat, t <= m
  PROVE  t * k \in Nat /\ m * k \in Nat /\ t * k <= m * k
<1>1. PICK n \in Nat : m = t + n
  BY m - t \in Nat, m = t + (m - t)
<1>2. m * k = t * k + n * k /\ t * k \in Nat /\ n * k \in Nat
  BY <1>1
<1> QED
  BY <1>2

\* What is repeated is bounded by what may be.
LEMMA RepeatedIsBounded ==
  ASSUME NEW p \in Programs, NEW t \in Counters
  PROVE  /\ repeated(p, t) \in Nat /\ repeated(p, [i \in DOMAIN p |-> maxTaken]) \in Nat
         /\ repeated(p, t) <= repeated(p, [i \in DOMAIN p |-> maxTaken])
<1> DEFINE S == branchesOf(p)
           m == [i \in DOMAIN p |-> maxTaken]
           f == sizes(p, t)
           g == sizes(p, m)
<1>1. IsFiniteSet(S) /\ S \in SUBSET S /\ S \subseteq Places /\ DOMAIN p = Places
  BY BranchesAreFinite
<1>2. ASSUME NEW i \in S PROVE f[i] \in Nat /\ g[i] \in Nat /\ f[i] <= g[i]
  <2>1. back(p[i]) \in Nat /\ i \in Places
    BY <1>1, BranchesAreFinite
  <2>2. t[i] \in Nat /\ t[i] <= maxTaken /\ maxTaken \in Nat
    BY <2>1, VMAssumption DEF Counters
  <2>3. f[i] = t[i] * (back(p[i]) + 1) /\ g[i] = maxTaken * (back(p[i]) + 1)
    BY <1>1, <2>1 DEF sizes
  <2>4. PICK k \in Nat : k = back(p[i]) + 1
    BY <2>1
  <2>5. PICK u \in Nat : u = t[i]
    BY <2>2
  <2>6. u * k \in Nat /\ maxTaken * k \in Nat /\ u * k <= maxTaken * k
    BY <2>2, <2>5, TimesGrow
  <2> QED
    BY <2>3, <2>4, <2>5, <2>6
<1>3. repeated(p, t) = SumFunctionOnSet(f, S) /\ repeated(p, m) = SumFunctionOnSet(g, S)
  BY DEF repeated, sizes, branchesOf
<1> HIDE DEF S, m, f, g
<1>4. /\ SumFunctionOnSet(f, S) \in Nat /\ SumFunctionOnSet(g, S) \in Nat
      /\ SumFunctionOnSet(f, S) <= SumFunctionOnSet(g, S)
  BY <1>1, <1>2, SumMonotone
<1> QED
  BY <1>3, <1>4 DEF m

\* Nothing is repeated at first.
LEMMA NoneRepeated == ASSUME NEW p \in Programs PROVE repeated(p, NoTaken(p)) = 0
<1> DEFINE S == branchesOf(p)
           f == sizes(p, NoTaken(p))
<1>1. IsFiniteSet(S) /\ S \subseteq Places /\ DOMAIN p = Places
  BY BranchesAreFinite
<1>2. ASSUME NEW i \in S PROVE f[i] = 0
  <2>1. back(p[i]) \in Nat /\ i \in Places
    BY <1>1, BranchesAreFinite
  <2>2. f[i] = 0 * (back(p[i]) + 1)
    BY <1>1, <2>1 DEF sizes, NoTaken
  <2> QED
    BY <2>1, <2>2
<1>3. repeated(p, NoTaken(p)) = SumFunctionOnSet(f, S)
  BY DEF repeated, sizes, branchesOf
<1> HIDE DEF S, f
<1> QED
  BY <1>1, <1>2, <1>3, SumZeros

\* One more branch repeats what lies between its target and itself, and itself.
LEMMA RepeatedNext ==
  ASSUME NEW p \in Programs, NEW t \in Counters, NEW a \in Places, p[a].op = "CBRANCH"
  PROVE  repeated(p, [t EXCEPT ![a] = @ + 1]) = repeated(p, t) + back(p[a]) + 1
<1> DEFINE S == branchesOf(p)
           u == [t EXCEPT ![a] = @ + 1]
           f == sizes(p, t)
           g == sizes(p, u)
<1>1. IsFiniteSet(S) /\ S \subseteq Places /\ DOMAIN p = Places /\ a \in S
  BY BranchesAreFinite DEF branchesOf
<1>2. /\ \A i \in Places : t[i] \in Nat
      /\ u[a] = t[a] + 1 /\ \A i \in Places \ {a} : u[i] = t[i]
  BY DEF Counters
<1>3. \A i \in Places : f[i] = t[i] * (back(p[i]) + 1) /\ g[i] = u[i] * (back(p[i]) + 1)
  BY <1>1 DEF sizes
<1>4. \A i \in Places : back(p[i]) \in Nat
  BY BranchesAreFinite
<1> HIDE DEF u, f, g
<1>5. ASSUME NEW i \in S PROVE f[i] \in Int /\ g[i] \in Int
  <2>1. PICK k \in Nat, m \in Nat, n \in Nat : k = back(p[i]) + 1 /\ m = t[i] /\ n = u[i]
    <3>1. back(p[i]) + 1 \in Nat /\ t[i] \in Nat /\ u[i] \in Nat
      BY <1>1, <1>2, <1>4
    <3> QED
      BY <3>1
  <2>2. m * k \in Int /\ n * k \in Int
    OBVIOUS
  <2> QED
    BY <1>1, <1>3, <2>1, <2>2
<1>6. \A i \in S \ {a} : g[i] = f[i]
  BY <1>1, <1>2, <1>3
<1>7. g[a] = f[a] + back(p[a]) + 1
  <2>1. PICK k \in Nat, m \in Nat : k = back(p[a]) + 1 /\ m = t[a]
    <3>1. back(p[a]) + 1 \in Nat /\ t[a] \in Nat
      BY <1>2, <1>4
    <3> QED
      BY <3>1
  <2>2. (m + 1) * k = m * k + k /\ m * k \in Nat
    OBVIOUS
  <2>3. f[a] = m * k /\ g[a] = (m + 1) * k
    BY <1>2, <1>3, <2>1
  <2>4. back(p[a]) \in Nat
    BY <1>4
  <2> QED
    BY <2>1, <2>2, <2>3, <2>4
<1>8. repeated(p, t) = SumFunctionOnSet(f, S) /\ repeated(p, u) = SumFunctionOnSet(g, S)
  BY DEF repeated, sizes, branchesOf, f, g
<1> HIDE DEF S
<1>9. SumFunctionOnSet(g, S) = SumFunctionOnSet(f, S) - f[a] + g[a]
  BY <1>1, <1>5, <1>6, SumUpdate
<1>10. SumFunctionOnSet(f, S) \in Int
  BY <1>1, <1>5, SumSame
<1>11. f[a] \in Int /\ back(p[a]) \in Nat
  BY <1>1, <1>4, <1>5
<1>12. repeated(p, u) = repeated(p, t) + back(p[a]) + 1
  BY <1>7, <1>8, <1>9, <1>10, <1>11
<1> QED
  BY <1>12 DEF u

\* A step of a loop is new, or is counted as repeated.
LEMMA InstructionCounts ==
  ASSUME VMTyped, LoopInv, Instruction
  PROVE  /\ steps' \in Nat /\ hash'.pc <= ProgSize
         /\ steps' <= hash'.pc + repeated(vm'.prog, vm'.taken)
<1> DEFINE ins == vm.prog[hash.pc]
<1>1. hash \in Hashing /\ hash.at = "run" /\ hash # Idle
  BY HashTyped DEF Instruction
<1>2. underWay \in Run /\ vm.prog \in Programs /\ vm.taken \in Counters
  <2>1. underWay \in Run
    BY <1>1 DEF VMTyped
  <2> QED
    BY <1>1, <2>1, UnderWayParts, RunParts
<1>3. hash.pc \in Places /\ hash.pc \in Nat
  BY <1>1, <1>2, HashingParts DEF Instruction, Programs
<1>4. PICK pc \in Nat : pc = hash.pc /\ pc < ProgSize /\ pc \in Places
  BY <1>3, VMAssumption DEF Places
<1>5. PICK n \in Nat : n = steps
  BY <1>1 DEF LoopInv
<1>6. PICK sum \in Nat : sum = repeated(vm.prog, vm.taken)
  BY <1>2, RepeatedIsBounded
<1>7. n <= pc + sum /\ steps' = n + 1 /\ ProgSize \in Nat
  BY <1>1, <1>4, <1>5, <1>6, VMAssumption DEF LoopInv, Instruction
<1>8. PICK bk \in Nat : bk = back(ins)
  BY <1>2, <1>3, BranchesAreFinite
<1>9. CASE branches(ins)
  <2> DEFINE t == [vm.taken EXCEPT ![hash.pc] = @ + 1]
  <2>1. hash' = [hash EXCEPT !.pc = IF @ > back(ins) THEN @ - back(ins) ELSE 0]
        /\ vm' = [vm EXCEPT !.taken = t]
    BY <1>9, Zenon DEF Instruction
  <2>2. vm' = [prog |-> vm.prog, scratch |-> vm.scratch, taken |-> t]
    BY <2>1, BufferSet DEF VMTyped
  <2>3. vm'.prog = vm.prog /\ vm'.taken = t
    BY <2>2
  <2>4. repeated(vm.prog, t) = sum + bk + 1
    BY <1>2, <1>3, <1>6, <1>8, <1>9, RepeatedNext DEF branches
  <2> HIDE DEF t
  <2>5. hash'.pc = IF hash.pc > back(ins) THEN hash.pc - back(ins) ELSE 0
    BY <1>1, <2>1 DEF Hashing
  <2>6. hash'.pc = IF pc > bk THEN pc - bk ELSE 0
    BY <1>4, <1>8, <2>5
  <2> QED
    BY <1>4, <1>7, <2>3, <2>4, <2>6
<1>10. CASE ~ branches(ins)
  <2> DEFINE r == registersAfter(ins)
             sc == scratchAfter(ins)
  <2>1. hash' = [hash EXCEPT !.pc = @ + 1, !.r = r] /\ vm' = [vm EXCEPT !.scratch = sc]
    BY <1>10, Zenon DEF Instruction
  <2> HIDE DEF r, sc
  <2>2. vm' = [prog |-> vm.prog, scratch |-> sc, taken |-> vm.taken]
    BY <2>1, BufferSet DEF VMTyped
  <2>3. vm'.prog = vm.prog /\ vm'.taken = vm.taken
    BY <2>2
  <2>4. hash'.pc = hash.pc + 1
    BY <1>1, <2>1 DEF Hashing
  <2> QED
    BY <1>4, <1>6, <1>7, <2>3, <2>4
<1> QED
  BY <1>9, <1>10

\* Every step keeps it.
LEMMA LoopKeeps == VMTyped /\ LoopInv /\ [VMNext]_vmVars => LoopInv'
<1> SUFFICES ASSUME VMTyped, LoopInv, [VMNext]_vmVars PROVE LoopInv'
  OBVIOUS
<1>1. CASE Instruction
  BY <1>1, InstructionCounts DEF LoopInv
<1>2. CASE BeginLoop
  <2>1. hash \in Hashing /\ underWay \in Run
    BY <1>2, HashTyped DEF BeginLoop, VMTyped
  <2>2. vm.prog \in Programs
    BY <2>1, UnderWayParts, RunParts
  <2>3. vm' = [prog |-> vm.prog, scratch |-> vm.scratch, taken |-> NoTaken(vm.prog)]
    BY <1>2, BufferSet DEF BeginLoop, VMTyped
  <2>4. vm'.prog = vm.prog /\ vm'.taken = NoTaken(vm.prog)
    BY <2>3
  <2>5. hash'.pc = 0 /\ steps' = 0
    BY <1>2, <2>1 DEF BeginLoop, Hashing
  <2>6. repeated(vm'.prog, vm'.taken) = 0
    BY <2>2, <2>4, NoneRepeated
  <2> QED
    BY <2>5, <2>6, VMAssumption DEF LoopInv
<1>3. CASE EndLoop
  <2>1. hash \in Hashing
    BY <1>3, HashTyped DEF EndLoop
  <2>2. hash'.at = "loop"
    BY <1>3, <2>1 DEF EndLoop, Hashing
  <2> QED
    BY <2>2 DEF LoopInv
<1>4. CASE Finish
  BY <1>4 DEF Finish, Idle, LoopInv
<1>5. ASSUME NEW h \in Header, Hash(h) PROVE LoopInv'
  <2>1. hash'.at = "loop"
    BY <1>5 DEF Hash
  <2> QED
    BY <2>1 DEF LoopInv
<1>6. CASE UNCHANGED vmVars
  BY <1>6 DEF vmVars, LoopInv
<1> QED
  BY <1>1, <1>2, <1>3, <1>4, <1>5, <1>6 DEF VMNext, VMStep

\* For every program, whatever its data, no loop is longer than the program and what
\* its branches may repeat.
THEOREM LoopsHalt == VMSpec => []WorkIsBounded
<1>1. VMInit => LoopInv
  BY DEF VMInit, LoopInv, Idle
<1>2. VMSpec => [](VMTyped /\ LoopInv)
  BY <1>1, VMStarts, VMKeeps, LoopKeeps, PTL DEF VMSpec
<1>3. VMTyped /\ LoopInv => WorkIsBounded
  <2> SUFFICES ASSUME VMTyped, LoopInv, hash.at = "run"
               PROVE  steps <= ProgSize + repeated(vm.prog, [i \in DOMAIN vm.prog |-> maxTaken])
    BY DEF WorkIsBounded
  <2>1. hash \in Hashing /\ underWay \in Run
    BY HashTyped DEF VMTyped
  <2>2. vm.prog \in Programs /\ vm.taken \in Counters
    BY <2>1, UnderWayParts, RunParts
  <2>3. PICK pc \in Nat : pc = hash.pc
    BY <2>1, HashingParts
  <2>4. /\ repeated(vm.prog, vm.taken) \in Nat
        /\ repeated(vm.prog, [i \in DOMAIN vm.prog |-> maxTaken]) \in Nat
        /\ repeated(vm.prog, vm.taken) <= repeated(vm.prog, [i \in DOMAIN vm.prog |-> maxTaken])
    BY <2>2, RepeatedIsBounded
  <2>5. /\ steps \in Nat /\ pc <= ProgSize /\ steps <= pc + repeated(vm.prog, vm.taken)
    BY <2>3 DEF LoopInv
  <2> HIDE DEF LoopInv
  <2> QED
    BY <2>4, <2>5, VMAssumption
<1> QED
  BY <1>2, <1>3, PTL
=============================================================================
