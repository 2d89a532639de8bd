------------------------------- MODULE Faucet -------------------------------
(***************************************************************************)
(* The faucet (cmd/cereblix-faucet/main.go): a claimant takes a challenge, *)
(* mines a share and claims; a claim reserves its address and its network  *)
(* address for the cooldown, then pays, and gives the reservation back if  *)
(* the payment fails.  Claims run at the same time; the store of the       *)
(* reservations is locked for single changes, its file is written after.   *)
(* An entry of time 0 is no entry, as the code reads it.                   *)
(***************************************************************************)
EXTENDS Payer

CONSTANTS
  Tap,        \* the faucet as a service of the wallet
  Claim,      \* requests of claimants
  Claimant,   \* claim -> [addr, ip] it comes from
  Challenge,  \* ids of challenges
  Grant,      \* what a claim is paid
  Cooldown,
  Lifetime,   \* of a challenge
  MaxTime     \* bound of the model: the clock

ASSUME FaucetAssumption ==
  /\ Tap \in Service
  /\ {Grant, Cooldown, Lifetime, MaxTime} \subseteq Nat \ {0}

VARIABLES
  now,         \* the clock, never 0
  Addr,        \* address -> when it was last paid
  IP,          \* network address -> when it was last paid
  limits,      \* both on disk
  challenges,  \* challenge -> when it expires, Unissued or Gone
  claim,       \* claim -> its handler
  grants       \* history: what the node took, [claim, at, paid]

store == <<Addr, IP>>
faucetVars == <<now, store, limits, challenges, claim, grants>>

Unissued == -1
Gone == 0

addrOf(c) == Claimant[c].addr
ipOf(c) == Claimant[c].ip

does(c, r) == claim' = [claim EXCEPT ![c] = r]

End == [pc |-> "end"]

-----------------------------------------------------------------------------
(***************************************************************************)
(* The store.                                                              *)
(***************************************************************************)

\* Entries older than the cooldown are dropped whenever one is looked up.
purged(f, t) == [k \in DOMAIN f |-> IF f[k] < t - Cooldown THEN 0 ELSE f[k]]

coolingDown(c, t) == \E last \in {Addr[addrOf(c)], IP[ipOf(c)]} : last # 0 /\ last + Cooldown > t

\* Seeded fault: a claim looks whether it may be paid and reserves nothing.
reserve_later(c, t) ==
  /\ ~coolingDown(c, t)
  /\ Addr' = purged(Addr, t) /\ IP' = purged(IP, t)

\* Look and reserve under one lock.
reserve(c, t) ==
  /\ ~coolingDown(c, t)
  /\ Addr' = [purged(Addr, t) EXCEPT ![addrOf(c)] = t]
  /\ IP' = [purged(IP, t) EXCEPT ![ipOf(c)] = t]

\* The handler of claim c writes the store to the file and goes on as `next`:
\* it reads both maps, without the lock, and writes.
saving(c, at, next) == does(c, [pc |-> "saveAddr", at |-> at, next |-> next])

SaveAddr(c) ==
  /\ claim[c].pc = "saveAddr"
  /\ does(c, [pc |-> "saveIP", at |-> claim[c].at, next |-> claim[c].next, addr |-> Addr])
  /\ UNCHANGED <<payerVars, now, store, limits, challenges, grants>>

SaveIP(c) ==
  /\ claim[c].pc = "saveIP"
  /\ does(c, [pc |-> "saveWrite", at |-> claim[c].at, next |-> claim[c].next,
              addr |-> claim[c].addr, ip |-> IP])
  /\ UNCHANGED <<payerVars, now, store, limits, challenges, grants>>

WriteLimits(c) ==
  /\ claim[c].pc = "saveWrite"
  /\ limits' = [addr |-> claim[c].addr, ip |-> claim[c].ip]
  /\ does(c, IF claim[c].next = "send" THEN [pc |-> "send", at |-> claim[c].at] ELSE End)
  /\ UNCHANGED <<payerVars, now, store, challenges, grants>>

-----------------------------------------------------------------------------
(***************************************************************************)
(* The handlers of challenge and claim.                                    *)
(***************************************************************************)

\* The claimant of c asks for the challenge k.
IssueChallenge(k, c) ==
  /\ challenges[k] = Unissued
  /\ Addr' = purged(Addr, now) /\ IP' = purged(IP, now)
  /\ ~coolingDown(c, now)
  /\ challenges' = [j \in Challenge |->
                      CASE j = k                                   -> now + Lifetime
                        [] j # k /\ challenges[j] \in 1 .. now - 1 -> Gone
                        [] j # k /\ challenges[j] \notin 1 .. now - 1 -> challenges[j]]
  /\ UNCHANGED <<payerVars, now, limits, claim, grants>>

\* Claim c comes in with a share mined for challenge k, which is used up.
Present(c, k) ==
  /\ claim[c].pc = "new"
  /\ challenges[k] > 0
  /\ challenges' = [challenges EXCEPT ![k] = Gone]
  /\ does(c, IF challenges[k] < now THEN End ELSE [pc |-> "reserve", at |-> now])
  /\ UNCHANGED <<payerVars, now, store, limits, grants>>

Reserve(c) ==
  /\ claim[c].pc = "reserve"
  /\ LET t == claim[c].at
     IN  \/ reserve(c, t) /\ saving(c, t, "send")
         \/ /\ coolingDown(c, t)
            /\ Addr' = purged(Addr, t) /\ IP' = purged(IP, t)
            /\ does(c, End)
  /\ UNCHANGED <<payerVars, now, limits, challenges, grants>>

\* sendCRB, when no other claim is in it.
Begin(c) ==
  /\ claim[c].pc = "send" /\ ready(Tap)
  /\ become(Tap, calling(addrOf(c), Grant))
  /\ does(c, [pc |-> "pay", at |-> claim[c].at])
  /\ UNCHANGED <<node, nextNonce, taken, disturbances, now, store, limits, challenges, grants>>

Granting(c) ==
  /\ claim[c].pc = "pay"
  /\ Send(Tap)
  /\ grants' = IF taken' # taken THEN grants \cup {[claim |-> c, at |-> claim[c].at, paid |-> now]}
               ELSE grants
  /\ UNCHANGED <<now, store, limits, challenges, claim>>

\* Seeded fault: only one half of the reservation is given back.
released_addr(c) == Addr' = [Addr EXCEPT ![addrOf(c)] = 0] /\ UNCHANGED IP

released(c) == /\ Addr' = [Addr EXCEPT ![addrOf(c)] = 0]
               /\ IP' = [IP EXCEPT ![ipOf(c)] = 0]

\* sendCRB returns and lets another claim in.
Finish(c) ==
  /\ claim[c].pc = "pay" /\ sending[Tap].pc = "done"
  /\ does(c, IF sending[Tap].ok THEN End ELSE [pc |-> "release", at |-> claim[c].at])
  /\ become(Tap, NoCall)
  /\ UNCHANGED <<node, nextNonce, taken, disturbances, now, store, limits, challenges, grants>>

\* A payment that failed gives the reservation back.
Release(c) ==
  /\ claim[c].pc = "release"
  /\ released(c) /\ saving(c, claim[c].at, "end")
  /\ UNCHANGED <<payerVars, now, limits, challenges, grants>>

\* Payments take less than the cooldown.
Tick ==
  /\ now < MaxTime
  /\ \A c \in Claim : "at" \in DOMAIN claim[c] => now + 1 < claim[c].at + Cooldown
  /\ now' = now + 1
  /\ UNCHANGED <<payerVars, store, limits, challenges, claim, grants>>

RestartFaucet ==
  /\ disturbed
  /\ Addr' = limits.addr /\ IP' = limits.ip
  /\ challenges' = [k \in Challenge |-> IF challenges[k] = Unissued THEN Unissued ELSE Gone]
  /\ claim' = [c \in Claim |-> IF claim[c].pc = "new" THEN claim[c] ELSE End]
  /\ become(Tap, NoCall)
  /\ nextNonce' = [nextNonce EXCEPT ![Tap] = 0]
  /\ UNCHANGED <<node, taken, now, limits, grants>>

FaucetInit ==
  /\ PayerInit
  /\ now = 1
  /\ Addr = [a \in {addrOf(c) : c \in Claim} |-> 0]
  /\ IP = [i \in {ipOf(c) : c \in Claim} |-> 0]
  /\ limits = [addr |-> Addr, ip |-> IP]
  /\ challenges = [k \in Challenge |-> Unissued]
  /\ claim = [c \in Claim |-> [pc |-> "new"]]
  /\ grants = {}

FaucetNext ==
  \/ \E c \in Claim :
       \/ \E k \in Challenge : IssueChallenge(k, c) \/ Present(c, k)
       \/ Reserve(c) \/ Begin(c) \/ Granting(c) \/ Finish(c) \/ Release(c)
       \/ SaveAddr(c) \/ SaveIP(c) \/ WriteLimits(c)
  \/ Unreached(Tap) /\ UNCHANGED faucetVars
  \/ Tick

FaucetSpec ==
  /\ FaucetInit
  /\ [][FaucetNext \/ (NodeNext /\ UNCHANGED faucetVars)]_<<payerVars, faucetVars>>

\* A faucet that may stop at any moment, and answers that may be lost.
FaultyFaucetSpec ==
  /\ FaucetInit
  /\ [][\/ FaucetNext
        \/ NodeNext /\ UNCHANGED faucetVars
        \/ AnswerLost(Tap) /\ UNCHANGED faucetVars
        \/ RestartFaucet]_<<payerVars, faucetVars>>

-----------------------------------------------------------------------------
near(c, d) == addrOf(c) = addrOf(d) \/ ipOf(c) = ipOf(d)

\* The faucet's own words: it "gives a tiered amount once per 3h per address AND
\* per IP", however claims interleave (reserve "closes the
\* check-then-send-then-record race") and whatever fails between.  A claim's own
\* time may be earlier by what the claim had to wait for the store, so nobody is
\* paid before the cooldown of the claim that was paid has passed on the clock.
GrantsSpaced ==
  \A g, h \in grants :
    g.claim # h.claim /\ near(g.claim, h.claim)
    => g.at + Cooldown <= h.paid \/ h.at + Cooldown <= g.paid

\* The comment of release: "a transient send error does not lock the user out for
\* the whole cooldown".  Who has to wait was paid or has a claim under way, from
\* the same address or the same network address.
WaitsForAReason ==
  \A c \in Claim : coolingDown(c, now) =>
    \E d \in Claim :
      /\ near(c, d)
      /\ \/ \E g \in grants : g.claim = d /\ g.at + Cooldown > now
         \/ claim[d].pc \in {"saveAddr", "saveIP", "saveWrite", "send", "pay", "release"}
=============================================================================
