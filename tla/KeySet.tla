------------------------------- MODULE KeySet -------------------------------
(***************************************************************************)
(* The signing keys of the data plane (bridge/dataplane/oidc_keyset.go):   *)
(* requests verify tokens against a cached key set, at most one detached   *)
(* goroutine fetches the JWKS, and requests that meet an unknown key wait  *)
(* for it.  Every critical section of the mutex, the answer of the issuer  *)
(* and the close of the done channel is one action.                        *)
(*                                                                         *)
(* A key stands for its key ID.  Time is counted in coarse units from 1; 0 *)
(* is the zero time.  The goroutine's own steps take less than a unit, so  *)
(* the clock does not pass a fetch's deadline while it runs.               *)
(***************************************************************************)
EXTENDS Integers, Sequences

CONSTANTS
    Keys,          \* signing keys of the issuer
    FirstKeys,     \* the ones published at start
    NoKid,         \* the key ID of a token that names none
    Tokens,        \* tokens presented to the bridge
    Requests,      \* requests being served at the same time
    Primer,        \* the call NewValidator makes at startup
    MinRefresh,    \* jwksMinRefresh
    MaxAge,        \* jwksMaxAge
    FetchTimeout,  \* jwksFetchTimeout
    MaxTime        \* bound: the clock

Callers == Requests \cup {Primer}

\* signer = NoKid: none of the issuer's keys signed it.
Token == [kid: Keys \cup {NoKid}, signer: Keys \cup {NoKid}]

NoToken == [kid |-> NoKid, signer |-> NoKid]

ASSUME KeySetAssumption ==
    /\ Tokens \subseteq Token /\ NoKid \notin Keys /\ Primer \notin Requests
    /\ FirstKeys \subseteq Keys /\ FirstKeys # {}
    /\ MinRefresh \in Nat \ {0} /\ MaxAge \in Nat /\ FetchTimeout \in Nat

VARIABLES
    now,        \* the clock
    since,      \* when the issuer published each key, 0 if not yet
    gone,       \* the keys it withdrew
    keys, fetchedAt, doneAt, lastErr, inflight,  \* cachedKeySet; inflight = 0: nil
    fetches,    \* every keyFetch so far, with its goroutine
    seen,       \* history: keys gone before a successful fetch began
    calls,      \* the calls of VerifySignature and of prime in progress
    primed,     \* NewValidator returned: requests are served only then
    answer      \* history: the last answer to a request

issuerVars == <<since, gone>>
cacheVars == <<keys, fetchedAt, doneAt, lastErr, seen>>
callVars == <<calls, primed, answer>>
vars == <<now, issuerVars, cacheVars, inflight, fetches, callVars>>

\* ks is the field keys; until it is set, got holds the issuer's answer and
\* past (history) the keys gone when the fetch began.  end is history.
Fetch == [at: {"running", "got", "stored", "closed"}, deadline: Nat, end: Nat,
          past: SUBSET Keys, got: SUBSET Keys, err: BOOLEAN, ks: SUBSET Keys]

\* aged, lost (history): when the call began, the issuer had published the
\* token's key for long, or a completed fetch had seen it withdrawn.
Call == [at: {"idle", "cached", "refresh", "wait"}, tok: Token, cached: SUBSET Keys,
         f: Nat, aged: BOOLEAN, lost: BOOLEAN]

NoCall == [at |-> "idle", tok |-> NoToken, cached |-> {}, f |-> 0,
           aged |-> FALSE, lost |-> FALSE]

Published == {k \in Keys : since[k] # 0} \ gone

(***************************************************************************)
(* The pure parts.                                                         *)
(***************************************************************************)
verifyWith(t, ks) == \E k \in ks : t.kid \in {NoKid, k} /\ t.signer = k

holdsKey(ks, kid) == kid # NoKid /\ kid \in ks

\* VerifySignature after refreshedKeys returned ks and err.
Verdict(call, ks, err) ==
    CASE verifyWith(call.tok, ks) -> "ok"
      [] ~verifyWith(call.tok, ks) ->
            IF err /\ ~holdsKey(call.cached, call.tok.kid) /\ ~holdsKey(ks, call.tok.kid)
            THEN "unavailable" ELSE "bad"

Return(c, out) == calls' = [calls EXCEPT ![c] = NoCall] /\ answer' = out

\* refreshedKeys returns; prime only looks at the error.
Refreshed(c, ks, err) ==
    IF c = Primer
    THEN Return(c, answer) /\ primed' = ~err
    ELSE Return(c, Verdict(calls[c], ks, err)) /\ UNCHANGED primed

\* Mutant: the rate limit counts from the last success.
mayFetchAfterSuccess ==
    inflight = 0 /\ (fetchedAt = 0 \/ now - fetchedAt >= MinRefresh)

mayFetchLocked ==
    inflight = 0 /\ (doneAt = 0 \/ now - doneAt >= MinRefresh)

\* Mutant: the goroutine is not started.
startFetchNoGoroutine == inflight' = Len(fetches) + 1 /\ UNCHANGED fetches

startFetchLocked ==
    /\ fetches' = Append(fetches, [at |-> "running", deadline |-> now + FetchTimeout,
                                   end |-> 0, past |-> gone, got |-> {}, err |-> FALSE,
                                   ks |-> {}])
    /\ inflight' = Len(fetches) + 1

(***************************************************************************)
(* A request.                                                              *)
(***************************************************************************)
\* VerifySignature begins; cachedKeys refreshes stale keys in the background.
cachedKeys(c, t) ==
    LET k == t.signer
        stale == fetchedAt = 0 \/ now - fetchedAt > MaxAge IN
    /\ primed /\ c # Primer /\ calls[c].at = "idle"
    /\ IF stale /\ mayFetchLocked THEN startFetchLocked ELSE UNCHANGED <<fetches, inflight>>
    /\ calls' = [calls EXCEPT ![c] =
                   [at |-> "cached", tok |-> t, cached |-> keys, f |-> 0,
                    aged |-> /\ k \in Published /\ t.kid \in {NoKid, k}
                             /\ now >= since[k] + MinRefresh + FetchTimeout,
                    lost |-> k \in seen]]
    /\ UNCHANGED <<now, issuerVars, cacheVars, primed, answer>>

VerifySignature(c) ==
    /\ calls[c].at = "cached"
    /\ IF verifyWith(calls[c].tok, calls[c].cached) THEN Return(c, "ok")
       ELSE calls' = [calls EXCEPT ![c].at = "refresh"] /\ UNCHANGED answer
    /\ UNCHANGED <<now, issuerVars, cacheVars, inflight, fetches, primed>>

\* Mutant: a caller does not wait for a fetch another one started.
refreshedKeysNoJoin(c) ==
    /\ calls[c].at = "refresh"
    /\ \/ /\ mayFetchLocked
          /\ startFetchLocked
          /\ calls' = [calls EXCEPT ![c].at = "wait", ![c].f = Len(fetches) + 1]
          /\ UNCHANGED <<primed, answer>>
       \/ /\ ~mayFetchLocked
          /\ Refreshed(c, keys, lastErr) /\ UNCHANGED <<fetches, inflight>>
    /\ UNCHANGED <<now, issuerVars, cacheVars>>

\* refreshedKeys: join the running fetch, start one, or be rate-limited.
refreshedKeys(c) ==
    /\ calls[c].at = "refresh"
    /\ \/ /\ inflight # 0
          /\ calls' = [calls EXCEPT ![c].at = "wait", ![c].f = inflight]
          /\ UNCHANGED <<fetches, inflight, primed, answer>>
       \/ /\ mayFetchLocked
          /\ startFetchLocked
          /\ calls' = [calls EXCEPT ![c].at = "wait", ![c].f = Len(fetches) + 1]
          /\ UNCHANGED <<primed, answer>>
       \/ /\ inflight = 0 /\ ~mayFetchLocked
          /\ Refreshed(c, keys, lastErr) /\ UNCHANGED <<fetches, inflight>>
    /\ UNCHANGED <<now, issuerVars, cacheVars>>

\* The two branches of its select.
fetchDone(c) ==
    /\ calls[c].at = "wait" /\ fetches[calls[c].f].at = "closed"
    /\ Refreshed(c, fetches[calls[c].f].ks, fetches[calls[c].f].err)
    /\ UNCHANGED <<now, issuerVars, cacheVars, inflight, fetches>>

contextDone(c) ==
    /\ calls[c].at = "wait"
    /\ Refreshed(c, {}, TRUE)
    /\ UNCHANGED <<now, issuerVars, cacheVars, inflight, fetches>>

(***************************************************************************)
(* The goroutine of a fetch.                                               *)
(***************************************************************************)
\* fetch: the issuer's keys, or an error (no answer in time, a bad status,
\* a response without a public key).
fetch(f) ==
    /\ fetches[f].at = "running"
    /\ \/ fetches' = [fetches EXCEPT ![f].at = "got", ![f].got = Published]
       \/ fetches' = [fetches EXCEPT ![f].at = "got", ![f].err = TRUE]
    /\ UNCHANGED <<now, issuerVars, cacheVars, inflight, callVars>>

\* The end of runFetch's critical section: f reports ks.
Stored(f, ks) ==
    /\ fetches' = [fetches EXCEPT ![f] =
                     [@ EXCEPT !.at = "stored", !.deadline = 0, !.end = now,
                               !.past = {}, !.got = {}, !.ks = ks]]
    /\ inflight' = 0
    /\ UNCHANGED <<now, issuerVars, callVars>>

\* Mutants: a failed fetch replaces the keys; a fetch only adds keys.
runFetchReplaces(f) ==
    /\ fetches[f].at = "got"
    /\ doneAt' = now /\ lastErr' = fetches[f].err
    /\ keys' = fetches[f].got /\ fetchedAt' = now /\ seen' = seen \cup fetches[f].past
    /\ Stored(f, keys')

runFetchAdds(f) ==
    /\ fetches[f].at = "got"
    /\ doneAt' = now /\ lastErr' = fetches[f].err
    /\ IF fetches[f].err THEN UNCHANGED <<keys, fetchedAt, seen>>
       ELSE /\ keys' = keys \cup fetches[f].got /\ fetchedAt' = now
            /\ seen' = seen \cup fetches[f].past
    /\ Stored(f, keys')

\* runFetch: its critical section.
runFetch(f) ==
    /\ fetches[f].at = "got"
    /\ doneAt' = now /\ lastErr' = fetches[f].err
    /\ IF fetches[f].err THEN UNCHANGED <<keys, fetchedAt, seen>>
       ELSE /\ keys' = fetches[f].got /\ fetchedAt' = now
            /\ seen' = seen \cup fetches[f].past
    /\ Stored(f, keys')

\* Mutant: the channel of a failed fetch stays open.
closeOnSuccess(f) ==
    /\ fetches[f].at = "stored" /\ ~fetches[f].err
    /\ fetches' = [fetches EXCEPT ![f].at = "closed"]
    /\ UNCHANGED <<now, issuerVars, cacheVars, inflight, callVars>>

close(f) ==
    /\ fetches[f].at = "stored"
    /\ fetches' = [fetches EXCEPT ![f].at = "closed"]
    /\ UNCHANGED <<now, issuerVars, cacheVars, inflight, callVars>>

(***************************************************************************)
(* The issuer and the clock.                                               *)
(***************************************************************************)
Publish(k) ==
    /\ since[k] = 0
    /\ since' = [since EXCEPT ![k] = now]
    /\ UNCHANGED <<now, gone, cacheVars, inflight, fetches, callVars>>

Withdraw(k) ==
    /\ k \in Published /\ Published # {k}
    /\ gone' = gone \cup {k}
    /\ UNCHANGED <<now, since, cacheVars, inflight, fetches, callVars>>

Tick ==
    /\ now < MaxTime
    /\ \A f \in 1..Len(fetches) :
          fetches[f].at \in {"running", "got"} => now < fetches[f].deadline
    /\ now' = now + 1
    /\ UNCHANGED <<issuerVars, cacheVars, inflight, fetches, callVars>>

Init ==
    /\ now = 1
    /\ since = [k \in Keys |-> IF k \in FirstKeys THEN 1 ELSE 0]
    /\ gone = {} /\ seen = {}
    /\ keys = {} /\ fetchedAt = 0 /\ doneAt = 0 /\ lastErr = FALSE /\ inflight = 0
    /\ fetches = <<>>
    /\ calls = [c \in Callers |-> IF c = Primer THEN [NoCall EXCEPT !.at = "refresh"] ELSE NoCall]
    /\ primed = FALSE /\ answer = "none"

Goroutine == \E f \in 1..Len(fetches) : fetch(f) \/ runFetch(f) \/ close(f)

Progress(c) == VerifySignature(c) \/ refreshedKeys(c) \/ fetchDone(c)

Next ==
    \/ \E c \in Callers : Progress(c) \/ contextDone(c) \/ \E t \in Tokens : cachedKeys(c, t)
    \/ Goroutine
    \/ \E k \in Keys : Publish(k) \/ Withdraw(k)
    \/ Tick

Spec == Init /\ [][Next]_vars

\* Goroutines are scheduled, and a fetch returns (its timeout).
LiveSpec == Spec /\ WF_vars(Goroutine) /\ \A c \in Callers : WF_vars(Progress(c))

(***************************************************************************)
(* Properties.                                                             *)
(***************************************************************************)
\* Every variable holds values of its type; who waits, waits for a fetch.
TypeOK ==
    /\ now \in Nat \ {0} /\ since \in [Keys -> Nat] /\ gone \subseteq Keys
    /\ keys \subseteq Keys /\ fetchedAt \in Nat /\ doneAt \in Nat /\ lastErr \in BOOLEAN
    /\ fetches \in Seq(Fetch) /\ inflight \in 0..Len(fetches) /\ seen \subseteq Keys
    /\ calls \in [Callers -> Call] /\ primed \in BOOLEAN
    /\ answer \in {"none", "ok", "bad", "unavailable"}
    /\ \A c \in Callers : calls[c].at = "wait" => calls[c].f \in 1..Len(fetches)

\* A fetch starts only when no other runs and the last one ended at least
\* jwksMinRefresh ago, however many requests ask for it (mayFetchLocked).
FetchesSpaced ==
    [][\A g \in 1..Len(fetches) :
         Len(fetches') > Len(fetches) =>
            fetches[g].end # 0 /\ now - fetches[g].end >= MinRefresh]_vars

\* The data plane never serves requests without a signing key: prime got
\* some, and no failed fetch takes the last good ones away.
ServingHasKeys == primed => keys # {}

Answered(c) == calls[c].at # "idle" /\ calls'[c].at = "idle"

\* A new key is picked up in time: a genuine token is not called a bad one
\* when the issuer had published its key for jwksMinRefresh plus one fetch
\* when the request began, and still does.
PickedUpInTime ==
    [][\A c \in Requests :
         Answered(c) /\ calls[c].aged /\ calls[c].tok.signer \in Published
             => answer' # "bad"]_vars

\* A withdrawn key is not accepted again once a fetch that began after the
\* withdrawal brought the current keys, for requests that begin after it.
WithdrawnStaysOut ==
    [][\A c \in Requests : Answered(c) /\ calls[c].lost => answer' # "ok"]_vars

\* Every request, and prime, gets its answer also if its context never ends.
EveryCallReturns ==
    \A c \in Callers : calls[c].at # "idle" ~> calls[c].at = "idle"
=============================================================================
