----------------------- MODULE SignedRequestsProofs -------------------------
(***************************************************************************)
(* Theorems about SignedRequests, for any number of requests and threads   *)
(* and all windows, lifetimes, delays and clocks of clients.               *)
(*                                                                         *)
(* A request that has been accepted is refused for its nonce as long as    *)
(* the cache remembers it, and for its timestamp afterwards: unless it is  *)
(* early, no moment lies between the two.  EntryInv and MemoryInv say so:  *)
(* when its entry is forgotten a used request is Expired, and no thread    *)
(* that is past the timestamp verifies an intact copy of an expired one.   *)
(***************************************************************************)
EXTENDS SignedRequests, TLAPS

\* No thread that has compared the timestamp of r may still be on its way to the cache.
Expired(r) == now >= stamp[r] + Window + Second + MaxStall

\* What a thread that verifies a copy knows of it; the timestamp only if the copy is intact.
CallInv ==
    \A t \in Threads :
        /\ pc[t] # "idle" => stamp[copy[t]] # None
        /\ pc[t] = "nonce" => now <= begun[t] + MaxStall
        /\ pc[t] = "nonce" /\ intact[t] => begun[t] < stamp[copy[t]] + Window + Second

\* t is about to accept r.
Accepts(t, r) == pc[t] = "signature" /\ intact[t] /\ copy[t] = r

Used(r) == accepted[r] >= 1 \/ \E t \in Threads : Accepts(t, r)

\* What is used has expired by the time its entry is forgotten, ...
EntryInv ==
    \A r \in Requests \ early : Used(r) /\ entries[r] # None =>
        stamp[r] # None /\ stamp[r] + Window + Second + MaxStall <= entries[r] + TTL

\* ... and what is used and not in the cache has expired.
MemoryInv ==
    \A r \in Requests \ early : Used(r) /\ entries[r] = None => stamp[r] # None /\ Expired(r)

\* One intact copy at a time gets past the cache, and none after the one that was accepted.
OnceInv ==
    /\ \A r \in Requests \ early : accepted[r] <= 1
    /\ \A r \in Requests \ early, t \in Threads : Accepts(t, r) => accepted[r] = 0
    /\ \A r \in Requests \ early, t, u \in Threads : Accepts(t, r) /\ Accepts(u, r) => t = u

\* What is in the cache is spent; a copy that will fail has been noted as spoilt.
SpentInv ==
    /\ \A r \in Requests : entries[r] # None => Spent(r)
    /\ \A t \in Threads : pc[t] = "signature" /\ ~intact[t] => copy[t] \in spoilt

IInv == TypeOK /\ CallInv /\ EntryInv /\ MemoryInv /\ OnceInv /\ SpentInv

USE DEF Times
-----------------------------------------------------------------------------
\* Every variable keeps its type.
LEMMA TypeInit == Init => TypeOK
  BY TimeAssumption DEF Init, TypeOK

LEMMA TypeNext == TypeOK /\ [Next]_vars => TypeOK'
<1> SUFFICES ASSUME TypeOK, [Next]_vars PROVE TypeOK'
  OBVIOUS
<1> USE TimeAssumption
<1>1. CASE Tick
  BY <1>1 DEF Tick, TypeOK, cache
<1>2. CASE Restart
  BY <1>2 DEF Restart, TypeOK
<1>3. ASSUME NEW r \in Requests, Sign(r) PROVE TypeOK'
  BY <1>3 DEF Sign, TypeOK, cache
<1>4. ASSUME NEW r \in Requests, NEW t \in Threads, Receive(t, r) PROVE TypeOK'
  BY <1>4 DEF Receive, TypeOK
<1>5. ASSUME NEW t \in Threads, CheckNonce(t) PROVE TypeOK'
  <2>1. copy[t] \in Requests
    BY <1>5 DEF CheckNonce, TypeOK
  <2>2. CASE Remembered(copy[t])
    BY <1>5, <2>1, <2>2 DEF CheckNonce, TypeOK
  <2>3. CASE ~Remembered(copy[t])
    BY <1>5, <2>1, <2>3 DEF CheckNonce, TypeOK
  <2> QED
    BY <2>2, <2>3
<1>6. ASSUME NEW t \in Threads, CheckSignature(t) PROVE TypeOK'
  BY <1>6 DEF CheckSignature, TypeOK
<1>7. CASE UNCHANGED vars
  BY <1>7 DEF vars, cache, TypeOK
<1> QED
  BY <1>1, <1>2, <1>3, <1>4, <1>5, <1>6, <1>7 DEF Next

\* Nothing is signed, recorded or accepted at first.
LEMMA RestInit == Init => CallInv /\ EntryInv /\ MemoryInv /\ OnceInv /\ SpentInv
  BY DEF Init, CallInv, EntryInv, MemoryInv, Used, Accepts, OnceInv, SpentInv

\* A timestamp that was within the window is too old only after the window and a second more.
LEMMA CallNext == TypeOK /\ CallInv /\ [Next]_vars => CallInv'
<1> SUFFICES ASSUME TypeOK, CallInv, [Next]_vars PROVE CallInv'
  OBVIOUS
<1> USE TimeAssumption
<1>1. CASE Tick
  BY <1>1 DEF Tick, TypeOK, CallInv, cache
<1>2. CASE Restart
  BY <1>2 DEF Restart, CallInv
<1>3. ASSUME NEW r \in Requests, Sign(r) PROVE CallInv'
  BY <1>3 DEF Sign, TypeOK, CallInv, cache
<1>4. ASSUME NEW r \in Requests, NEW t \in Threads, Receive(t, r) PROVE CallInv'
  <2>1. stamp[r] # None /\ stamp[r] \in Int
    BY <1>4 DEF Receive, TypeOK
  <2>2. intact'[t] => now < stamp[r] + Window + Second
    BY <1>4, <2>1 DEF Receive, Skew, TypeOK
  <2> QED
    BY <1>4, <2>1, <2>2 DEF Receive, CallInv, TypeOK
<1>5. ASSUME NEW t \in Threads, CheckNonce(t) PROVE CallInv'
  BY <1>5 DEF CheckNonce, CallInv, TypeOK
<1>6. ASSUME NEW t \in Threads, CheckSignature(t) PROVE CallInv'
  BY <1>6 DEF CheckSignature, CallInv, TypeOK
<1>7. CASE UNCHANGED vars
  BY <1>7 DEF vars, cache, CallInv
<1> QED
  BY <1>1, <1>2, <1>3, <1>4, <1>5, <1>6, <1>7 DEF Next

\* What the cache does not remember and is used is too old.
LEMMA ForgottenIsExpired ==
    ASSUME TypeOK, EntryInv, MemoryInv, NEW r \in Requests \ early, Used(r), ~Remembered(r)
    PROVE  stamp[r] # None /\ Expired(r)
<1> USE TimeAssumption
<1>1. CASE entries[r] = None
  BY <1>1 DEF MemoryInv
<1>2. CASE entries[r] # None
  <2>1. stamp[r] # None /\ stamp[r] + Window + Second + MaxStall <= entries[r] + TTL
    BY <1>2 DEF EntryInv
  <2>2. entries[r] \in Nat /\ stamp[r] \in Int /\ now \in Nat
    BY <1>2, <2>1 DEF TypeOK
  <2>3. now >= entries[r] + TTL
    BY <1>2, <2>2 DEF Remembered
  <2> QED
    BY <2>1, <2>2, <2>3 DEF Expired
<1> QED
  BY <1>1, <1>2

\* So a nonce the cache takes for fresh has not been used, if the copy is intact.
LEMMA FreshIsUnused ==
    ASSUME TypeOK, CallInv, EntryInv, MemoryInv,
           NEW t \in Threads, pc[t] = "nonce", intact[t], copy[t] \notin early,
           ~Remembered(copy[t])
    PROVE  copy[t] \in Requests /\ ~Used(copy[t])
<1> USE TimeAssumption
<1>1. copy[t] \in Requests
  BY DEF TypeOK
<1>2. stamp[copy[t]] \in Int /\ begun[t] \in Nat /\ now \in Nat
  BY <1>1 DEF TypeOK, CallInv
<1>3. ~Expired(copy[t])
  BY <1>1, <1>2 DEF CallInv, Expired
<1> QED
  BY <1>1, <1>3, ForgottenIsExpired

\* How a step can make a request used: an intact copy of it gets past the cache.
LEMMA UsedNext ==
    ASSUME TypeOK, [Next]_vars, NEW r \in Requests, Used(r)'
    PROVE  \/ Used(r)
           \/ \E t \in Threads : /\ CheckNonce(t) /\ copy[t] = r /\ intact[t]
                                 /\ ~Remembered(r)
<1>1. CASE Restart
  BY <1>1 DEF Restart, Used, Accepts
<1>2. ASSUME NEW q \in Requests, NEW t \in Threads, Receive(t, q) PROVE Used(r)
  BY <1>2 DEF Receive, TypeOK, Used, Accepts
<1>3. ASSUME NEW t \in Threads, CheckNonce(t), ~(copy[t] = r /\ intact[t] /\ ~Remembered(r))
      PROVE  Used(r)
  <2>1. \A u \in Threads : Accepts(u, r)' => Accepts(u, r)
    BY <1>3 DEF CheckNonce, TypeOK, Accepts
  <2> QED
    BY <1>3, <2>1 DEF CheckNonce, Used
<1>4. ASSUME NEW t \in Threads, CheckSignature(t) PROVE Used(r)
  BY <1>4 DEF CheckSignature, TypeOK, Used, Accepts
<1>5. CASE UNCHANGED <<pc, copy, intact, accepted>>
  BY <1>5 DEF Used, Accepts
<1> QED
  BY <1>1, <1>2, <1>3, <1>4, <1>5 DEF Next, Tick, Sign, vars, cache

\* The exceptions are never taken back, but by a restart, after which nothing is used.
LEMMA EarlyNext ==
    ASSUME TypeOK, [Next]_vars, NEW r \in Requests, Used(r)', r \notin early'
    PROVE  r \notin early /\ ~Restart
<1>1. ~Restart
  BY DEF Restart, Used, Accepts
<1> QED
  BY <1>1 DEF Next, Tick, Sign, Receive, CheckNonce, CheckSignature, vars, cache

\* An entry is made when its request is not early, or when the request has expired.
LEMMA EntryNext ==
    TypeOK /\ CallInv /\ EntryInv /\ MemoryInv /\ [Next]_vars => EntryInv'
<1> SUFFICES ASSUME TypeOK, CallInv, EntryInv, MemoryInv, [Next]_vars,
                    NEW r \in Requests, r \notin early', Used(r)', entries'[r] # None
             PROVE  stamp'[r] # None
                    /\ stamp'[r] + Window + Second + MaxStall <= entries'[r] + TTL
  BY DEF EntryInv
<1> USE TimeAssumption
<1>1. r \notin early /\ ~Restart
  BY EarlyNext
<1>2. stamp[r] # None => stamp'[r] = stamp[r]
  BY DEF Next, Restart, Tick, Sign, Receive, CheckNonce, CheckSignature, TypeOK, vars
<1>3. CASE entries'[r] = entries[r]
  <2>1. CASE Used(r)
    BY <1>1, <1>2, <1>3, <2>1 DEF EntryInv
  <2>2. CASE ~Used(r)
    <3>1. PICK t \in Threads : CheckNonce(t) /\ copy[t] = r /\ intact[t] /\ ~Remembered(r)
      BY <2>2, UsedNext
    <3>2. entries'[r] = now /\ entries[r] = now
      BY <1>3, <3>1 DEF CheckNonce
    <3>3. stamp[r] # None /\ ~Outlives(r)
      BY <1>1, <3>1 DEF CheckNonce, CallInv, TypeOK
    <3> QED
      BY <1>2, <3>2, <3>3 DEF Outlives, TypeOK
  <2> QED
    BY <2>1, <2>2
<1>4. CASE entries'[r] # entries[r]
  <2>1. PICK t \in Threads : CheckNonce(t)
    BY <1>1, <1>4 DEF Next, Tick, Sign, Receive, CheckSignature, vars, cache
  <2>2. entries'[r] = now /\ copy[t] = r /\ ~Remembered(r)
    BY <1>4, <2>1 DEF CheckNonce, TypeOK
  <2>3. stamp[r] # None /\ stamp[r] \in Int /\ now \in Nat
    BY <2>1, <2>2 DEF CheckNonce, CallInv, TypeOK
  <2>4. CASE intact[t]
    <3>1. ~Outlives(r)
      BY <2>1, <2>2, <2>4 DEF CheckNonce
    <3> QED
      BY <1>2, <2>2, <2>3, <3>1 DEF Outlives
  <2>5. CASE ~intact[t]
    <3>1. Used(r)
      BY <2>1, <2>2, <2>5 DEF CheckNonce, Used, Accepts, TypeOK
    <3>2. Expired(r)
      BY <1>1, <2>2, <3>1, ForgottenIsExpired
    <3> QED
      BY <1>2, <2>2, <2>3, <3>2 DEF Expired
  <2> QED
    BY <2>4, <2>5
<1> QED
  BY <1>3, <1>4

\* What has expired stays so, and what is forgotten has.
LEMMA MemoryNext ==
    TypeOK /\ CallInv /\ EntryInv /\ MemoryInv /\ [Next]_vars => MemoryInv'
<1> SUFFICES ASSUME TypeOK, CallInv, EntryInv, MemoryInv, [Next]_vars,
                    NEW r \in Requests, r \notin early', Used(r)', entries'[r] = None
             PROVE  stamp'[r] # None /\ Expired(r)'
  BY DEF MemoryInv
<1> USE TimeAssumption
<1>1. r \notin early /\ ~Restart
  BY EarlyNext
<1>2. Used(r)
  <2>1. ~\E t \in Threads : CheckNonce(t) /\ copy[t] = r /\ ~Remembered(r)
    BY DEF CheckNonce, TypeOK
  <2> QED
    BY <2>1, UsedNext
<1>3. ~Remembered(r)
  <2>1. CASE entries[r] = None
    BY <2>1 DEF Remembered
  <2>2. CASE entries[r] # None
    <3>1. PICK t \in Threads : CheckNonce(t)
      BY <1>1, <2>2 DEF Next, Tick, Sign, Receive, CheckSignature, vars, cache
    <3> QED
      BY <2>2, <3>1 DEF CheckNonce
  <2> QED
    BY <2>1, <2>2
<1>4. stamp[r] # None /\ stamp[r] \in Int /\ Expired(r)
  BY <1>1, <1>2, <1>3, ForgottenIsExpired DEF TypeOK
<1>5. stamp'[r] = stamp[r] /\ now' \in Nat /\ now' >= now
  BY <1>4 DEF Next, Restart, Tick, Sign, Receive, CheckNonce, CheckSignature, TypeOK, vars
<1> QED
  BY <1>4, <1>5 DEF Expired, TypeOK

\* Only a nonce that has not been used gets an intact copy past the cache.
LEMMA OnceNext ==
    TypeOK /\ CallInv /\ EntryInv /\ MemoryInv /\ OnceInv /\ [Next]_vars => OnceInv'
<1> SUFFICES ASSUME TypeOK, CallInv, EntryInv, MemoryInv, OnceInv, [Next]_vars
             PROVE OnceInv'
  OBVIOUS
<1>1. CASE Restart
  BY <1>1 DEF Restart, OnceInv, Accepts
<1>2. ASSUME NEW r \in Requests, NEW t \in Threads, Receive(t, r) PROVE OnceInv'
  <2>1. \A q \in Requests, u \in Threads : Accepts(u, q)' => Accepts(u, q)
    BY <1>2 DEF Receive, TypeOK, Accepts
  <2> QED
    BY <1>2, <2>1 DEF Receive, OnceInv
<1>3. ASSUME NEW t \in Threads, CheckNonce(t) PROVE OnceInv'
  <2>1. early \subseteq early' /\ accepted' = accepted
    BY <1>3 DEF CheckNonce
  <2>2. \A q \in Requests, u \in Threads :
            Accepts(u, q)' => Accepts(u, q) \/ (u = t /\ q = copy[t])
    BY <1>3 DEF CheckNonce, TypeOK, Accepts
  <2>3. ASSUME NEW q \in Requests, q \notin early, q = copy[t], Accepts(t, q)'
        PROVE  accepted[q] = 0 /\ \A u \in Threads : ~Accepts(u, q)
    <3>1. ~Remembered(q) /\ intact[t]
      BY <1>3, <2>3 DEF CheckNonce, TypeOK, Accepts
    <3>2. ~Used(q)
      BY <1>3, <2>3, <3>1, FreshIsUnused DEF CheckNonce
    <3> QED
      BY <3>2 DEF Used, TypeOK
  <2>4. \A q \in Requests \ early, u \in Threads : Accepts(u, q)' => accepted[q] = 0
    BY <2>2, <2>3 DEF OnceInv
  <2>5. \A q \in Requests \ early, u, v \in Threads : Accepts(u, q)' /\ Accepts(v, q)' => u = v
    <3> SUFFICES ASSUME NEW q \in Requests \ early, NEW u \in Threads, NEW v \in Threads,
                        Accepts(u, q)', Accepts(v, q)'
                 PROVE  u = v
      OBVIOUS
    <3>1. (u = t /\ q = copy[t]) \/ Accepts(u, q)
      BY <2>2
    <3>2. (v = t /\ q = copy[t]) \/ Accepts(v, q)
      BY <2>2
    <3> QED
      BY <2>3, <3>1, <3>2 DEF OnceInv
  <2> QED
    BY <2>1, <2>4, <2>5 DEF OnceInv
<1>4. ASSUME NEW t \in Threads, CheckSignature(t) PROVE OnceInv'
  <2>1. \A q \in Requests, u \in Threads : Accepts(u, q)' => u # t /\ Accepts(u, q)
    BY <1>4 DEF CheckSignature, TypeOK, Accepts
  <2>2. \A q \in Requests : q # copy[t] \/ ~intact[t] => accepted'[q] = accepted[q]
    BY <1>4 DEF CheckSignature, TypeOK
  <2>3. intact[t] => Accepts(t, copy[t]) /\ accepted'[copy[t]] = accepted[copy[t]] + 1
    BY <1>4 DEF CheckSignature, TypeOK, Accepts
  <2>4. early' = early
    BY <1>4 DEF CheckSignature
  <2>5. \A q \in Requests \ early : accepted'[q] <= 1
    BY <2>2, <2>3 DEF OnceInv
  <2>6. \A q \in Requests \ early, u \in Threads : Accepts(u, q)' => accepted'[q] = 0
    BY <2>1, <2>2, <2>3 DEF OnceInv
  <2> QED
    BY <2>1, <2>4, <2>5, <2>6 DEF OnceInv
<1>5. CASE UNCHANGED <<pc, copy, intact, accepted, early>>
  BY <1>5 DEF OnceInv, Accepts
<1> QED
  BY <1>1, <1>2, <1>3, <1>4, <1>5 DEF Next, Tick, Sign, vars, cache

\* The entry and the copy past the cache are made in one step.
LEMMA SpentNext == TypeOK /\ SpentInv /\ [Next]_vars => SpentInv'
<1> SUFFICES ASSUME TypeOK, SpentInv, [Next]_vars PROVE SpentInv'
  OBVIOUS
<1>1. CASE Restart
  BY <1>1 DEF Restart, SpentInv
<1>2. ASSUME NEW r \in Requests, NEW t \in Threads, Receive(t, r) PROVE SpentInv'
  BY <1>2 DEF Receive, TypeOK, SpentInv, Spent
<1>3. ASSUME NEW t \in Threads, CheckNonce(t) PROVE SpentInv'
  <2>1. copy[t] \in Requests
    BY <1>3 DEF CheckNonce, TypeOK
  <2>2. CASE Remembered(copy[t])
    BY <1>3, <2>1, <2>2 DEF CheckNonce, TypeOK, SpentInv, Spent
  <2>3. CASE ~Remembered(copy[t])
    <3>1. ASSUME NEW q \in Requests, entries'[q] # None PROVE Spent(q)'
      <4>1. CASE q = copy[t]
        BY <1>3, <2>3, <4>1 DEF CheckNonce, TypeOK, Spent
      <4>2. CASE q # copy[t]
        <5>1. Spent(q)
          BY <1>3, <3>1, <4>2 DEF CheckNonce, SpentInv, Remembered
        <5> QED
          BY <1>3, <2>3, <5>1 DEF CheckNonce, TypeOK, Spent
      <4> QED
        BY <4>1, <4>2
    <3>2. \A u \in Threads : pc'[u] = "signature" /\ ~intact'[u] => copy'[u] \in spoilt'
      BY <1>3, <2>3 DEF CheckNonce, TypeOK, SpentInv
    <3> QED
      BY <3>1, <3>2 DEF SpentInv
  <2> QED
    BY <2>2, <2>3
<1>4. ASSUME NEW t \in Threads, CheckSignature(t) PROVE SpentInv'
  <2>1. copy[t] \in Requests
    BY <1>4 DEF CheckSignature, TypeOK
  <2>2. ASSUME NEW q \in Requests, entries'[q] # None PROVE Spent(q)'
    <3>1. Spent(q)
      BY <1>4, <2>2 DEF CheckSignature, SpentInv
    <3> QED
      BY <1>4, <2>1, <3>1 DEF CheckSignature, TypeOK, SpentInv, Spent
  <2> QED
    BY <1>4, <2>2 DEF CheckSignature, TypeOK, SpentInv
<1>5. CASE UNCHANGED cache
  BY <1>5 DEF cache, SpentInv, Spent
<1> QED
  BY <1>1, <1>2, <1>3, <1>4, <1>5 DEF Next, Tick, Sign, vars
-----------------------------------------------------------------------------
(***************************************************************************)
(* The inductive invariant.                                                *)
(***************************************************************************)
THEOREM Inductive == Spec => []IInv
<1>1. Init => IInv
  BY TypeInit, RestInit DEF IInv
<1>2. IInv /\ [Next]_vars => IInv'
  BY TypeNext, CallNext, EntryNext, MemoryNext, OnceNext, SpentNext DEF IInv
<1> QED
  BY <1>1, <1>2, PTL DEF Spec

(***************************************************************************)
(* Every variable keeps its type.                                          *)
(***************************************************************************)
THEOREM TypeCorrect == Spec => []TypeOK
<1>1. IInv => TypeOK
  BY DEF IInv
<1> QED
  BY <1>1, Inductive, PTL

(***************************************************************************)
(* A signed request is accepted at most once in the life of a server,      *)
(* unless an intact copy of it was recorded so long before its timestamp   *)
(* that the timestamp may still pass when the nonce is forgotten.          *)
(***************************************************************************)
THEOREM AcceptedOnce == Spec => []AtMostOnce
<1>1. IInv => AtMostOnce
  BY DEF IInv, OnceInv, AtMostOnce
<1> QED
  BY <1>1, Inductive, PTL

(***************************************************************************)
(* A request is refused as a replay only if its nonce is spent.            *)
(***************************************************************************)
THEOREM RefusedAsReplay == Spec => []ReplayIsReal
<1>1. IInv => ReplayIsReal
  BY DEF IInv, SpentInv, ReplayIsReal, Remembered, TypeOK
<1> QED
  BY <1>1, Inductive, PTL
=============================================================================
