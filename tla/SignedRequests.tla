--------------------------- MODULE SignedRequests ---------------------------
(***************************************************************************)
(* Signed requests and the server that takes each at most once             *)
(* (core/identity/signer.rs, netra-api/middleware/auth.rs).  A client      *)
(* signs a request with a timestamp and a nonce; the network delivers      *)
(* copies of it late, often, out of order or spoilt.  The server compares  *)
(* the timestamp with its clock, looks the nonce up in a cache that        *)
(* forgets, and verifies the signature, in this order.                     *)
(*                                                                         *)
(* The three checks belong to one call of verify_request_signature() and   *)
(* calls run on several threads: the clock is read before the cache's      *)
(* mutex is taken and again under it.  No route calls the function yet,    *)
(* and clients are those of its tests.  A signature verifies exactly if    *)
(* nothing that was signed has changed.                                    *)
(*                                                                         *)
(* Time is counted in ticks.  Utc::now().timestamp() is the time of the    *)
(* last whole second, Instant::now() the time itself.                      *)
(***************************************************************************)
EXTENDS Integers

CONSTANTS
    Requests, \* requests; each has a nonce of its own
    Threads,  \* threads that run verify_request_signature()
    Window,   \* how far a timestamp may be off the clock, 300 seconds
    TTL,      \* NonceCache.ttl, 600 seconds: twice the window
    Second,   \* ticks in a second
    MaxAhead, \* bound: how far the clock of a client is ahead of the server's
    MaxStall, \* how long a thread takes from the first check to the second
    None,     \* no time and no request
    MaxTime   \* bound: where the clock stops

ASSUME TimeAssumption ==
    /\ Window \in Nat /\ TTL \in Nat /\ MaxAhead \in Nat /\ MaxStall \in Nat
    /\ Second \in Nat \ {0}
    /\ MaxTime \in Nat
    /\ None \notin Int /\ None \notin Requests

VARIABLES
    now, wall,  \* the clock, and its last whole second
    stamp,      \* the timestamp each request was signed with
    entries,    \* NonceCache.entries: when each nonce was recorded
    pc,         \* where each thread is
    copy,       \* the request it verifies a copy of
    intact,     \* whether the copy is what was signed
    begun,      \* when it compared the timestamp, until it has looked the nonce up
    accepted,   \* how often each request has been accepted since the server started
    spoilt,     \* requests of which a copy that was not intact has been recorded since
    early       \* those of which an intact one was recorded long before its timestamp

cache == <<entries, pc, copy, intact, begun, accepted, spoilt, early>>
vars == <<now, wall, stamp, cache>>

Times == Nat \cup {None}

TypeOK ==
    /\ now \in Nat /\ wall \in Nat
    /\ wall <= now /\ now < wall + Second
    /\ stamp \in [Requests -> Int \cup {None}]
    /\ entries \in [Requests -> Times]
    /\ pc \in [Threads -> {"idle", "nonce", "signature"}]
    /\ copy \in [Threads -> Requests \cup {None}]
    /\ \A t \in Threads : pc[t] = "idle" <=> copy[t] = None
    /\ intact \in [Threads -> BOOLEAN]
    /\ begun \in [Threads -> Nat]
    /\ accepted \in [Requests -> Nat]
    /\ spoilt \subseteq Requests /\ early \subseteq Requests

Init ==
    /\ now = 0 /\ wall = 0
    /\ stamp = [r \in Requests |-> None]
    /\ entries = [r \in Requests |-> None]
    /\ pc = [t \in Threads |-> "idle"]
    /\ copy = [t \in Threads |-> None]
    /\ intact = [t \in Threads |-> TRUE]
    /\ begun = [t \in Threads |-> 0]
    /\ accepted = [r \in Requests |-> 0]
    /\ spoilt = {} /\ early = {}

\* A thread is not held up between the two checks for longer than MaxStall.
Tick ==
    /\ now < MaxTime
    /\ \A t \in Threads : pc[t] = "nonce" => now < begun[t] + MaxStall
    /\ now' = now + 1
    /\ wall' = IF now + 1 = wall + Second THEN now + 1 ELSE wall
    /\ UNCHANGED <<stamp, cache>>

\* CanonicalRequest::new() and sign(), with the client's clock: anything up to MaxAhead.
Sign(r) ==
    /\ stamp[r] = None
    /\ \E s \in (wall - Window - 1)..(wall + MaxAhead) : stamp' = [stamp EXCEPT ![r] = s]
    /\ UNCHANGED <<now, wall, cache>>
-----------------------------------------------------------------------------
(* verify_request_signature() *)
Skew(r) == IF wall >= stamp[r] THEN wall - stamp[r] ELSE stamp[r] - wall

\* Mutant: the nonce is recorded before the timestamp is compared.
Receive_RecordsFirst(t, r) ==
    /\ pc[t] = "idle"
    /\ stamp[r] # None
    /\ entries' = [entries EXCEPT ![r] = IF Skew(r) > Window THEN now ELSE @]
    /\ IF Skew(r) > Window
       THEN UNCHANGED <<pc, copy, intact, begun>>
       ELSE /\ \E i \in BOOLEAN : intact' = [intact EXCEPT ![t] = i]
            /\ copy' = [copy EXCEPT ![t] = r]
            /\ begun' = [begun EXCEPT ![t] = now]
            /\ pc' = [pc EXCEPT ![t] = "nonce"]
    /\ UNCHANGED <<now, wall, stamp, accepted, spoilt, early>>

\* A copy arrives, the first or one of many, and the timestamp in its header is compared: the
\* one that was signed, or whatever a spoilt copy has instead.  One that lost a header, or
\* whose timestamp is off, is refused here and leaves no trace.
Receive(t, r) ==
    /\ pc[t] = "idle"
    /\ stamp[r] # None
    /\ \E i \in BOOLEAN :
           /\ i => Skew(r) <= Window
           /\ intact' = [intact EXCEPT ![t] = i]
    /\ copy' = [copy EXCEPT ![t] = r]
    /\ begun' = [begun EXCEPT ![t] = now]
    /\ pc' = [pc EXCEPT ![t] = "nonce"]
    /\ UNCHANGED <<now, wall, stamp, entries, accepted, spoilt, early>>

\* NonceCache::check_and_record() is one step under its mutex: prune, look up, record.
\* Mutant: an entry is kept for as long as a timestamp may be off, and not for twice that.
Remembered_Window(r) == entries[r] # None /\ now - entries[r] < Window

Remembered(r) == entries[r] # None /\ now - entries[r] < TTL

\* The timestamp of r may still pass when a nonce recorded now is forgotten: it is ahead of
\* the clock by nearly TTL - Window, with TTL twice the window by the window itself.
Outlives(r) == stamp[r] + Window + Second + MaxStall > now + TTL

CheckNonce(t) ==
    LET r == copy[t] IN
    /\ pc[t] = "nonce"
    /\ entries' = [q \in Requests |-> IF Remembered(q) THEN entries[q]
                                      ELSE IF q = r THEN now ELSE None]
    /\ IF Remembered(r)
       THEN /\ pc' = [pc EXCEPT ![t] = "idle"]
            /\ copy' = [copy EXCEPT ![t] = None]
            /\ intact' = [intact EXCEPT ![t] = TRUE]
            /\ UNCHANGED <<spoilt, early>>
       ELSE /\ pc' = [pc EXCEPT ![t] = "signature"]
            /\ spoilt' = IF intact[t] THEN spoilt ELSE spoilt \cup {r}
            /\ early' = IF intact[t] /\ Outlives(r) THEN early \cup {r} ELSE early
            /\ UNCHANGED <<copy, intact>>
    /\ begun' = [begun EXCEPT ![t] = 0]
    /\ UNCHANGED <<now, wall, stamp, accepted>>

\* CanonicalRequest::verify().  The nonce stays recorded when it fails.
CheckSignature(t) ==
    /\ pc[t] = "signature"
    /\ accepted' = [accepted EXCEPT ![copy[t]] = IF intact[t] THEN @ + 1 ELSE @]
    /\ pc' = [pc EXCEPT ![t] = "idle"]
    /\ copy' = [copy EXCEPT ![t] = None]
    /\ intact' = [intact EXCEPT ![t] = TRUE]
    /\ UNCHANGED <<now, wall, stamp, entries, begun, spoilt, early>>
-----------------------------------------------------------------------------
\* The cache lives in memory, and so does every call in progress.
Restart ==
    /\ entries' = [r \in Requests |-> None]
    /\ pc' = [t \in Threads |-> "idle"]
    /\ copy' = [t \in Threads |-> None]
    /\ intact' = [t \in Threads |-> TRUE]
    /\ begun' = [t \in Threads |-> 0]
    /\ accepted' = [r \in Requests |-> 0]
    /\ spoilt' = {} /\ early' = {}
    /\ UNCHANGED <<now, wall, stamp>>

Next ==
    \/ Tick \/ Restart
    \/ \E r \in Requests : Sign(r) \/ \E t \in Threads : Receive(t, r)
    \/ \E t \in Threads : CheckNonce(t) \/ CheckSignature(t)

Spec == Init /\ [][Next]_vars
-----------------------------------------------------------------------------
(***************************************************************************)
(* A signed request is accepted at most once in the life of a server       *)
(* (docs/TRD.md:143), however many copies arrive, in whatever order, on    *)
(* however many threads, although the cache forgets: a nonce is forgotten  *)
(* only when its timestamp has become too old.  The exception is a request *)
(* recorded almost a whole window before its timestamp.  One stamped 300   *)
(* seconds ahead passes (auth.rs:113), is forgotten 600 seconds later      *)
(* (:36), and passes again until that second is over.                      *)
(***************************************************************************)
AtMostOnce == \A r \in Requests \ early : accepted[r] <= 1

\* A request has used its nonce up: it was accepted or is about to be, or a copy was spoilt.
Spent(r) ==
    \/ accepted[r] >= 1
    \/ r \in spoilt
    \/ \E t \in Threads : pc[t] = "signature" /\ copy[t] = r

(***************************************************************************)
(* A request is called a replay only if it is one (auth.rs:121): a copy    *)
(* with its nonce got as far as the signature before.  One that was        *)
(* refused for its timestamp may be sent again and is then taken.          *)
(***************************************************************************)
ReplayIsReal ==
    \A t \in Threads : pc[t] = "nonce" /\ Remembered(copy[t]) => Spent(copy[t])
=============================================================================
