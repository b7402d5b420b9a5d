--------------------------- MODULE GatewaySession ---------------------------
(***************************************************************************)
(* Frontend sessions of nexal-gateway (crates/nexal-gateway/src/server/    *)
(* session.rs): the signed gateway/hello, the nonce cache that all         *)
(* sessions share, the gate in front of every other method and the         *)
(* forwarding of agent/notify.                                             *)
(*                                                                         *)
(* A hello is a record: ts and nonce are the signed fields, "known" says   *)
(* that its access key is configured, "signed" that its signature          *)
(* verifies.  verify_hello reads the clock (line 60) before it waits for   *)
(* the lock of the nonce cache (line 66), so the check is two actions, and *)
(* nothing bounds how old the time used under the lock is.                 *)
(***************************************************************************)
EXTENDS Integers

CONSTANTS
    Sessions,       \* connections of frontends
    Nonces,
    Hellos,         \* the hello requests clients may send, more than once
    MaxSkew,        \* HELLO_MAX_SKEW_SECS
    MaxClock        \* bound of the model

ASSUME HellosAssumption ==
    Hellos \subseteq [ts : Int, nonce : Nonces, known : BOOLEAN, signed : BOOLEAN]

ASSUME TimeAssumption ==
    MaxSkew \in Nat /\ MaxClock \in Nat

VARIABLES
    clock,          \* unix seconds
    open,           \* sessions whose connection is up
    authenticated,  \* sessions with the authenticated flag set
    verifying,      \* hellos past the skew check, waiting for the cache lock
    nonceCache,     \* nonce -> first-seen seconds, as a set of pairs
    purgedAt,       \* history: the latest time with which the cache was purged
    accepts,        \* history: how often each hello was accepted
    overtaken,      \* history: hellos accepted with a time older than purgedAt
    via,            \* history: hellos accepted on the current connection
    told            \* history: frames that were sent on the current connection

sessionVars == <<clock, open, authenticated, verifying, nonceCache, purgedAt, accepts, overtaken, via, told>>

\* What only an authenticated session may get; rejections and denials are not kept.
Served == {"result", "notify"}

Abs(x) == IF x < 0 THEN -x ELSE x

SessionTypeOK ==
    /\ clock \in Nat
    /\ open \subseteq Sessions
    /\ authenticated \subseteq open
    /\ verifying \subseteq [session : open, hello : Hellos, now : Nat]
    /\ nonceCache \subseteq [nonce : Nonces, seen : Nat]
    /\ purgedAt \in Nat
    /\ accepts \in [Hellos -> Nat]
    /\ overtaken \subseteq Hellos
    /\ via \in [Sessions -> SUBSET Hellos]
    /\ told \in [Sessions -> SUBSET Served]

SessionInit ==
    /\ clock = 0
    /\ open = {}
    /\ authenticated = {}
    /\ verifying = {}
    /\ nonceCache = {}
    /\ purgedAt = 0
    /\ accepts = [h \in Hellos |-> 0]
    /\ overtaken = {}
    /\ via = [s \in Sessions |-> {}]
    /\ told = [s \in Sessions |-> {}]

(***************************************************************************)
(* run() handles one frame at a time: a session is free when it is not in  *)
(* the middle of verify_hello.                                             *)
(***************************************************************************)
Free(s) == s \in open /\ \A v \in verifying : v.session # s

Reply(s, frame) == told' = [told EXCEPT ![s] = @ \cup ({frame} \cap Served)]

Connect(s) ==
    /\ s \notin open
    /\ open' = open \cup {s}
    /\ UNCHANGED <<clock, authenticated, verifying, nonceCache, purgedAt, accepts, overtaken, via, told>>

\* The loop of run() sees Disconnected only between two frames.
Disconnect(s) ==
    /\ Free(s)
    /\ open' = open \ {s}
    /\ authenticated' = authenticated \ {s}
    /\ via' = [via EXCEPT ![s] = {}]
    /\ told' = [told EXCEPT ![s] = {}]
    /\ UNCHANGED <<clock, verifying, nonceCache, purgedAt, accepts, overtaken>>

\* Lines 55-63: unknown key or a timestamp outside the window.
InWindow(now, h) == Abs(now - h.ts) <= MaxSkew

HelloRefused(s, h) ==
    /\ Free(s)
    /\ ~h.known \/ ~InWindow(clock, h)
    /\ Reply(s, "rejected")
    /\ UNCHANGED <<clock, open, authenticated, verifying, nonceCache, purgedAt, accepts, overtaken, via>>

HelloReadClock(s, h) ==
    /\ Free(s)
    /\ h.known
    /\ InWindow(clock, h)
    /\ verifying' = verifying \cup {[session |-> s, hello |-> h, now |-> clock]}
    /\ UNCHANGED <<clock, open, authenticated, nonceCache, purgedAt, accepts, overtaken, via, told>>

\* Mutant of Retained: a nonce is kept for one window instead of two.
RetainedOneWindow(cache, now) == {e \in cache : now - e.seen <= MaxSkew}

Retained(cache, now) == {e \in cache : now - e.seen <= 2 * MaxSkew}

Cached(cache, nonce) == \E e \in cache : e.nonce = nonce

(***************************************************************************)
(* Under the lock: purge, look up, insert (lines 65-72).  The signature is *)
(* verified afterwards, so a hello with a bad one still uses its nonce up. *)
(***************************************************************************)
Purged(now) == purgedAt' = IF purgedAt < now THEN now ELSE purgedAt

HelloReplayed(v) ==
    /\ v \in verifying
    /\ Cached(Retained(nonceCache, v.now), v.hello.nonce)
    /\ nonceCache' = Retained(nonceCache, v.now)
    /\ Purged(v.now)
    /\ verifying' = verifying \ {v}
    /\ Reply(v.session, "rejected")
    /\ UNCHANGED <<clock, open, authenticated, accepts, overtaken, via>>

InsertNonce(v) ==
    /\ v \in verifying
    /\ ~Cached(Retained(nonceCache, v.now), v.hello.nonce)
    /\ nonceCache' = Retained(nonceCache, v.now)
                        \cup {[nonce |-> v.hello.nonce, seen |-> v.now]}
    /\ Purged(v.now)
    /\ verifying' = verifying \ {v}

HelloBadSignature(v) ==
    /\ InsertNonce(v)
    /\ ~v.hello.signed
    /\ Reply(v.session, "rejected")
    /\ UNCHANGED <<clock, open, authenticated, accepts, overtaken, via>>

HelloAccepted(v) ==
    /\ InsertNonce(v)
    /\ v.hello.signed
    /\ authenticated' = authenticated \cup {v.session}
    /\ accepts' = [accepts EXCEPT ![v.hello] = @ + 1]
    /\ overtaken' = IF v.now < purgedAt THEN overtaken \cup {v.hello} ELSE overtaken
    /\ via' = [via EXCEPT ![v.session] = @ \cup {v.hello}]
    /\ Reply(v.session, "result")
    /\ UNCHANGED <<clock, open>>

\* handle_value, lines 181-204: any request that is not a hello.
HandleRequest(s) ==
    /\ Free(s)
    /\ Reply(s, IF s \in authenticated THEN "result" ELSE "denied")
    /\ UNCHANGED <<clock, open, authenticated, verifying, nonceCache, purgedAt, accepts, overtaken, via>>

\* Mutant of Notify: the notify task does not ask whether the session is
\* authenticated.
NotifyUngated(s) ==
    /\ s \in open
    /\ Reply(s, "notify")
    /\ UNCHANGED <<clock, open, authenticated, verifying, nonceCache, purgedAt, accepts, overtaken, via>>

\* The notify task of run() drops what arrives before the handshake.
Notify(s) ==
    /\ s \in open
    /\ s \in authenticated
    /\ Reply(s, "notify")
    /\ UNCHANGED <<clock, open, authenticated, verifying, nonceCache, purgedAt, accepts, overtaken, via>>

\* unix_now() does not run backwards.  Time passes while a check waits for the lock.
Tick ==
    /\ clock < MaxClock
    /\ clock' = clock + 1
    /\ UNCHANGED <<open, authenticated, verifying, nonceCache, purgedAt, accepts, overtaken, via, told>>

SessionNext ==
    \/ Tick
    \/ \E s \in Sessions :
          \/ Connect(s)
          \/ Disconnect(s)
          \/ HandleRequest(s)
          \/ Notify(s)
          \/ \E h \in Hellos : HelloRefused(s, h) \/ HelloReadClock(s, h)
    \/ \E v \in verifying : HelloReplayed(v) \/ HelloBadSignature(v) \/ HelloAccepted(v)

SessionSpec == SessionInit /\ [][SessionNext]_sessionVars

-----------------------------------------------------------------------------

(***************************************************************************)
(* A signed hello authenticates at most once in the life of the gateway    *)
(* process, on whichever sessions and whenever it is sent again, unless    *)
(* its check waited for the lock while one with a later time went first:   *)
(* the cache keeps nonces for exactly two windows (session.rs:67), so by   *)
(* the time a nonce is purged its hello is out of the window of every      *)
(* check that reads the clock from then on.                                *)
(***************************************************************************)
SingleUse == \A h \in Hellos : accepts[h] <= 1 \/ h \in overtaken

(***************************************************************************)
(* What protocol.rs:117 says of the nonce: "Single-use random hex string   *)
(* (replay guard)".  verify_hello reads the clock before it waits for the  *)
(* lock, and a check that another one overtakes finds the nonce purged.    *)
(***************************************************************************)
NonceOnce == \A h \in Hellos : accepts[h] <= 1

(***************************************************************************)
(* A connection is sent a method's result or an agent notification only if *)
(* a hello with a known key and a valid signature was accepted on this     *)
(* very connection (the gate of handle_value and of the notify task).      *)
(***************************************************************************)
ServedOnlyAfterHello ==
    \A s \in Sessions :
        told[s] # {} =>
            \E h \in via[s] : h.known /\ h.signed /\ accepts[h] > 0

(***************************************************************************)
(* The inductive strengthening.  An accepted hello is either still in the  *)
(* cache with a first-seen time inside its window, or the cache was purged *)
(* with a time beyond its window.                                          *)
(***************************************************************************)
VerifyingFresh == \A v \in verifying : v.hello.known /\ InWindow(v.now, v.hello)

AcceptedRemembered ==
    \A h \in Hellos : accepts[h] > 0 =>
        \/ \E e \in nonceCache : e.nonce = h.nonce /\ e.seen >= h.ts - MaxSkew
        \/ purgedAt > h.ts + MaxSkew

ViaAccepted ==
    \A s \in Sessions :
        /\ \A h \in via[s] : h.known /\ h.signed /\ accepts[h] > 0
        /\ s \in authenticated => via[s] # {}

SessionInv ==
    /\ SessionTypeOK
    /\ VerifyingFresh
    /\ AcceptedRemembered
    /\ SingleUse
    /\ ViaAccepted
    /\ ServedOnlyAfterHello

=============================================================================
