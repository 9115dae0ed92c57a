---------------------------- MODULE KeySetProofs ----------------------------
(***************************************************************************)
(* Proofs about the key set, for any number of requests, tokens and keys   *)
(* and any timeouts: fetches of the JWKS are spaced, the data plane serves *)
(* only with keys, a withdrawn key stays out and a new one is picked up.   *)
(***************************************************************************)
EXTENDS KeySet, TLAPS

Active == {"running", "got"}

\* What the rate limit rests on: inflight names the one fetch that runs, and
\* doneAt is not before the end of any other.
SpacingInv ==
    /\ now \in Nat \ {0} /\ doneAt \in 0..now
    /\ gone \subseteq Keys /\ keys \subseteq Keys
    /\ fetches \in Seq(Fetch) /\ inflight \in 0..Len(fetches)
    /\ inflight # 0 => fetches[inflight].at \in Active
    /\ \A f \in 1..Len(fetches) :
          \/ f = inflight
          \/ /\ fetches[f].at \notin Active
             /\ fetches[f].end # 0 /\ fetches[f].end <= doneAt

Resting == UNCHANGED <<fetches, inflight, doneAt, keys>>

LEMMA RestingInv ==
    ASSUME SpacingInv, Resting, now' \in Nat, now <= now', gone' \subseteq Keys
    PROVE  SpacingInv'
BY DEF SpacingInv, Resting

\* startFetchLocked, called with the lock and mayFetchLocked.
LEMMA StartInv ==
    ASSUME SpacingInv, mayFetchLocked, startFetchLocked,
           UNCHANGED <<now, gone, doneAt, keys>>
    PROVE  SpacingInv'
<1> DEFINE r == [at |-> "running", deadline |-> now + FetchTimeout, end |-> 0,
                 past |-> gone, got |-> {}, err |-> FALSE, ks |-> {}]
<1>1. r \in Fetch /\ r.at = "running"
  BY KeySetAssumption DEF SpacingInv, Fetch
<1>2. fetches' = Append(fetches, r) /\ inflight' = Len(fetches) + 1 /\ inflight = 0
  BY Zenon DEF startFetchLocked, mayFetchLocked
<1> HIDE DEF r
<1>3. /\ fetches' \in Seq(Fetch) /\ Len(fetches') = Len(fetches) + 1
      /\ fetches'[Len(fetches) + 1] = r
      /\ \A f \in 1..Len(fetches) : fetches'[f] = fetches[f]
  BY <1>1, <1>2 DEF SpacingInv
<1> QED
  BY <1>1, <1>2, <1>3 DEF SpacingInv, Active

LEMMA FetchInv ==
    ASSUME SpacingInv, NEW f \in 1..Len(fetches), fetch(f)
    PROVE  SpacingInv'
<1>1. PICK r : fetches' = [fetches EXCEPT ![f] = r] /\ r.at = "got" /\ r.end = fetches[f].end
               /\ r \in Fetch
  <2>1. fetches[f] \in Fetch /\ Published \subseteq Keys
    BY DEF SpacingInv, Published
  <2>2. CASE fetches' = [fetches EXCEPT ![f].at = "got", ![f].got = Published]
    <3> DEFINE r == [fetches[f] EXCEPT !.at = "got", !.got = Published]
    <3>1. fetches' = [fetches EXCEPT ![f] = r]
      BY Zenon, <2>2 DEF SpacingInv
    <3>2. r.at = "got" /\ r.end = fetches[f].end /\ r \in Fetch
      BY Zenon, <2>1 DEF Fetch
    <3> QED
      BY Zenon, <3>1, <3>2
  <2>3. CASE fetches' = [fetches EXCEPT ![f].at = "got", ![f].err = TRUE]
    <3> DEFINE r == [fetches[f] EXCEPT !.at = "got", !.err = TRUE]
    <3>1. fetches' = [fetches EXCEPT ![f] = r]
      BY Zenon, <2>3 DEF SpacingInv
    <3>2. r.at = "got" /\ r.end = fetches[f].end /\ r \in Fetch
      BY Zenon, <2>1 DEF Fetch
    <3> QED
      BY Zenon, <3>1, <3>2
  <2> QED
    BY Zenon, <2>2, <2>3 DEF fetch
<1>2. /\ fetches' \in Seq(Fetch) /\ Len(fetches') = Len(fetches)
      /\ fetches'[f] = r /\ \A g \in 1..Len(fetches) : g # f => fetches'[g] = fetches[g]
  BY <1>1 DEF SpacingInv
<1>3. UNCHANGED <<now, gone, doneAt, keys, inflight>>
  BY Zenon DEF fetch, issuerVars, cacheVars
<1>4. f = inflight
  BY Zenon DEF SpacingInv, fetch, Active
<1> QED
  BY Zenon, <1>1, <1>2, <1>3, <1>4 DEF SpacingInv, Active

\* The critical section of runFetch: doneAt moves past the fetch's end.
LEMMA RunFetchInv ==
    ASSUME SpacingInv, NEW f \in 1..Len(fetches), runFetch(f)
    PROVE  SpacingInv'
<1> DEFINE r == [fetches[f] EXCEPT !.at = "stored", !.deadline = 0, !.end = now,
                                   !.past = {}, !.got = {}, !.ks = keys']
<1>1. fetches[f] \in Fetch /\ now \in Nat \ {0}
  BY DEF SpacingInv
<1>2. keys' \subseteq Keys
  BY Zenon, <1>1 DEF runFetch, SpacingInv, Fetch
<1>3. r \in Fetch /\ r.end = now /\ r.at = "stored"
  BY Zenon, <1>1, <1>2 DEF Fetch
<1>4. fetches' = [fetches EXCEPT ![f] = r] /\ inflight' = 0 /\ doneAt' = now
      /\ UNCHANGED <<now, gone>>
  BY Zenon DEF runFetch, Stored, issuerVars
<1> HIDE DEF r
<1>5. /\ fetches' \in Seq(Fetch) /\ Len(fetches') = Len(fetches)
      /\ fetches'[f] = r /\ \A g \in 1..Len(fetches) : g # f => fetches'[g] = fetches[g]
  BY <1>3, <1>4 DEF SpacingInv
<1>6. f = inflight
  BY Zenon DEF SpacingInv, runFetch, Active
<1> QED
  <2>1. doneAt \in Nat /\ doneAt <= now /\ gone' \subseteq Keys
    BY <1>1, <1>4 DEF SpacingInv
  <2>2. ASSUME NEW g \in 1..Len(fetches)
        PROVE  /\ fetches'[g].at \notin Active
               /\ fetches'[g].end # 0 /\ fetches'[g].end <= now
    <3>1. CASE g = f
      BY <1>1, <1>3, <1>5, <3>1 DEF Active
    <3>2. CASE g # f
      <4>1. fetches[g] \in Fetch
        BY DEF SpacingInv
      <4>2. fetches[g].end \in Nat
        BY Zenon, <4>1 DEF Fetch
      <4> QED
        BY <1>1, <1>5, <1>6, <2>1, <3>2, <4>2 DEF SpacingInv
    <3> QED
      BY Zenon, <3>1, <3>2
  <2> QED
    BY <1>1, <1>2, <1>4, <1>5, <2>1, <2>2 DEF SpacingInv

LEMMA CloseInv ==
    ASSUME SpacingInv, NEW f \in 1..Len(fetches), close(f)
    PROVE  SpacingInv'
<1> DEFINE r == [fetches[f] EXCEPT !.at = "closed"]
<1>1. fetches[f] \in Fetch
  BY DEF SpacingInv
<1>2. r \in Fetch /\ r.at = "closed" /\ r.end = fetches[f].end
  BY Zenon, <1>1 DEF Fetch
<1>3. fetches' = [fetches EXCEPT ![f] = r]
  BY Zenon DEF close
<1> HIDE DEF r
<1>4. /\ fetches' \in Seq(Fetch) /\ Len(fetches') = Len(fetches)
      /\ fetches'[f] = r /\ \A g \in 1..Len(fetches) : g # f => fetches'[g] = fetches[g]
  BY <1>2, <1>3 DEF SpacingInv
<1>5. UNCHANGED <<now, gone, doneAt, keys, inflight>>
  BY Zenon DEF close, issuerVars, cacheVars
<1>6. f # inflight
  BY DEF SpacingInv, close, Active
<1> QED
  BY <1>2, <1>4, <1>5, <1>6 DEF SpacingInv, Active

\* A step of a caller either starts a fetch or leaves the fetches alone.
LEMMA CallerStep ==
    ASSUME NEW c \in Callers,
           Progress(c) \/ contextDone(c) \/ \E t \in Tokens : cachedKeys(c, t)
    PROVE  /\ UNCHANGED <<now, gone, doneAt, keys>>
           /\ (mayFetchLocked /\ startFetchLocked) \/ UNCHANGED <<fetches, inflight>>
<1>1. CASE VerifySignature(c)
  BY Zenon, <1>1 DEF VerifySignature, issuerVars, cacheVars
<1>2. CASE refreshedKeys(c)
  BY Zenon, <1>2 DEF refreshedKeys, issuerVars, cacheVars
<1>3. CASE fetchDone(c)
  BY Zenon, <1>3 DEF fetchDone, issuerVars, cacheVars
<1>4. CASE contextDone(c)
  BY Zenon, <1>4 DEF contextDone, issuerVars, cacheVars
<1>5. ASSUME NEW t \in Tokens, cachedKeys(c, t)
      PROVE  /\ UNCHANGED <<now, gone, doneAt, keys>>
             /\ (mayFetchLocked /\ startFetchLocked) \/ UNCHANGED <<fetches, inflight>>
  BY Zenon, <1>5 DEF cachedKeys, issuerVars, cacheVars
<1> QED
  BY Zenon, <1>1, <1>2, <1>3, <1>4, <1>5 DEF Progress

LEMMA SpacingStep ==
    ASSUME SpacingInv, [Next]_vars
    PROVE  SpacingInv'
<1>0. now \in Nat /\ gone \subseteq Keys
  BY Zenon DEF SpacingInv
<1>1. ASSUME NEW c \in Callers,
             Progress(c) \/ contextDone(c) \/ \E t \in Tokens : cachedKeys(c, t)
      PROVE  SpacingInv'
  BY <1>0, <1>1, CallerStep, StartInv, RestingInv DEF Resting
<1>2. CASE Goroutine
  BY Zenon, <1>2, FetchInv, RunFetchInv, CloseInv DEF Goroutine
<1>3. ASSUME NEW k \in Keys, Publish(k) \/ Withdraw(k)
      PROVE  SpacingInv'
  <2>1. Resting /\ now' = now /\ gone' \subseteq Keys
    BY Zenon, <1>0, <1>3 DEF Publish, Withdraw, Resting, cacheVars
  <2> QED
    BY <1>0, <2>1, RestingInv
<1>4. CASE Tick
  <2>1. Resting /\ now' = now + 1 /\ gone' = gone
    BY Zenon, <1>4 DEF Tick, Resting, cacheVars, issuerVars
  <2> QED
    BY <1>0, <2>1, RestingInv
<1>5. CASE UNCHANGED vars
  <2>1. Resting /\ now' = now /\ gone' = gone
    BY Zenon, <1>5 DEF vars, Resting, cacheVars, issuerVars
  <2> QED
    BY <1>0, <2>1, RestingInv
<1> QED
  BY Zenon, <1>1, <1>2, <1>3, <1>4, <1>5 DEF Next

\* A step that makes the fetches longer found none running and the rate
\* limit expired.
LEMMA StepSpaced ==
    ASSUME SpacingInv, [Next]_vars, NEW g \in 1..Len(fetches), Len(fetches') > Len(fetches)
    PROVE  fetches[g].end # 0 /\ now - fetches[g].end >= MinRefresh
<1>1. mayFetchLocked
  <2>1. ASSUME NEW c \in Callers,
               Progress(c) \/ contextDone(c) \/ \E t \in Tokens : cachedKeys(c, t)
        PROVE  mayFetchLocked
    BY <2>1, CallerStep DEF SpacingInv
  <2>2. ASSUME NEW f \in 1..Len(fetches), fetch(f) \/ runFetch(f) \/ close(f)
        PROVE  Len(fetches') = Len(fetches)
    BY <2>2 DEF SpacingInv, fetch, runFetch, Stored, close
  <2>3. ASSUME NEW k \in Keys, Publish(k) \/ Withdraw(k)
        PROVE  fetches' = fetches
    BY Zenon, <2>3 DEF Publish, Withdraw
  <2>4. CASE Tick \/ UNCHANGED vars
    BY <2>4 DEF Tick, vars, SpacingInv
  <2> QED
    BY <2>1, <2>2, <2>3, <2>4 DEF Next, Goroutine, SpacingInv
<1>2. fetches[g].end # 0 /\ fetches[g].end <= doneAt /\ inflight = 0
  BY <1>1 DEF SpacingInv, mayFetchLocked
<1>3. fetches[g].end \in Nat /\ doneAt \in Nat /\ now \in Nat
  <2>1. fetches[g] \in Fetch
    BY DEF SpacingInv
  <2> QED
    BY <2>1 DEF SpacingInv, Fetch
<1> QED
  BY <1>1, <1>2, <1>3, KeySetAssumption DEF mayFetchLocked

LEMMA SpacingInit == Init => SpacingInv
BY DEF Init, SpacingInv

\* A fetch starts only when no other runs and the last one ended at least
\* jwksMinRefresh ago (mayFetchLocked under the mutex).
THEOREM FetchSpacing == Spec => FetchesSpaced
<1>1. Init => SpacingInv
  BY Zenon, SpacingInit
<1>2. SpacingInv /\ [Next]_vars => SpacingInv'
  BY Zenon, SpacingStep
<1>3. SpacingInv /\ [Next]_vars =>
        [\A g \in 1..Len(fetches) :
           Len(fetches') > Len(fetches) =>
             fetches[g].end # 0 /\ now - fetches[g].end >= MinRefresh]_vars
  BY Zenon, StepSpaced
<1> QED
  BY <1>1, <1>2, <1>3, PTL DEF Spec, FetchesSpaced

-----------------------------------------------------------------------------
(***************************************************************************)
(* What the keys are worth, and what a waiting request may rely on.        *)
(***************************************************************************)
Done == {"stored", "closed"}

\* ks holds every key the issuer had published when a fetch that ended at t
\* can have begun at the latest, the withdrawn ones aside.
HoldsAll(ks, t) ==
    \A k \in Keys : since[k] # 0 /\ since[k] + FetchTimeout < t /\ k \notin gone => k \in ks

FetchFacts(x) ==
    /\ x.at \in Active =>
          /\ x.ks = {} /\ x.past \subseteq gone
          /\ now <= x.deadline /\ x.deadline <= now + FetchTimeout
    /\ x.at = "got" /\ ~x.err =>
          /\ x.got # {} /\ x.got \cap (x.past \cup seen) = {}
          /\ HoldsAll(x.got, x.deadline)
    /\ x.at \in Done /\ ~x.err => keys # {} /\ HoldsAll(x.ks, x.end)

AllFetches == \A f \in 1..Len(fetches) : FetchFacts(fetches[f])

CacheFacts ==
    /\ Published # {} /\ seen \subseteq gone /\ keys \cap seen = {}
    /\ doneAt # 0 /\ ~lastErr => keys # {} /\ HoldsAll(keys, doneAt)
    /\ primed => keys # {}

\* k had been published for the rate limit and a fetch at time t.
Aged(k, t) == k \in Keys /\ since[k] # 0 /\ since[k] + MinRefresh + FetchTimeout <= t

CallFacts(c) ==
    LET x == calls[c]
        k == x.tok.signer IN
    /\ x.at # "idle" /\ x.lost => k \in seen /\ k \notin x.cached
    /\ x.at # "idle" /\ x.aged => Aged(k, now) /\ x.tok.kid \in {NoKid, k}
    /\ x.at \in {"refresh", "wait"} => ~verifyWith(x.tok, x.cached)
    /\ x.at = "wait" /\ x.lost => k \notin fetches[x.f].ks
    /\ x.at = "wait" /\ x.aged /\ fetches[x.f].at \in Done => Aged(k, fetches[x.f].end)

AllCalls == \A c \in Callers : CallFacts(c)

KeyInv == TypeOK /\ SpacingInv /\ AllFetches /\ CacheFacts /\ AllCalls

LEMMA KeyInit == Init => KeyInv
<1> SUFFICES ASSUME Init PROVE KeyInv
  OBVIOUS
<1>1. NoCall \in Call /\ [NoCall EXCEPT !.at = "refresh"] \in Call
  BY Zenon, KeySetAssumption DEF NoCall, NoToken, Token, Call
<1>0. since = [k \in Keys |-> IF k \in FirstKeys THEN 1 ELSE 0]
  BY Zenon DEF Init
<1>a. /\ now = 1 /\ gone = {} /\ seen = {} /\ keys = {} /\ fetchedAt = 0 /\ doneAt = 0
      /\ lastErr = FALSE /\ inflight = 0 /\ fetches = <<>> /\ primed = FALSE
      /\ answer = "none"
  BY Zenon DEF Init
<1>2. TypeOK
  <2>1. calls \in [Callers -> Call] /\ \A c \in Callers : calls[c].at # "wait"
    BY Zenon, <1>1 DEF Init, NoCall
  <2>2. since \in [Keys -> Nat]
    BY Zenon, <1>0
  <2>3. fetches \in Seq(Fetch) /\ inflight \in 0..Len(fetches) /\ now \in Nat \ {0}
        /\ fetchedAt \in Nat /\ doneAt \in Nat
    BY <1>a
  <2>4. gone \subseteq Keys /\ keys \subseteq Keys /\ seen \subseteq Keys /\ lastErr \in BOOLEAN
        /\ primed \in BOOLEAN /\ answer \in {"none", "ok", "bad", "unavailable"}
    BY <1>a, Zenon
  <2> QED
    BY <2>1, <2>2, <2>3, <2>4, Zenon DEF TypeOK
<1>3. AllFetches /\ CacheFacts
  <2>1. \A k \in FirstKeys : k \in Published
    <3>1. \A k \in FirstKeys : k \in Keys
      BY Zenon, KeySetAssumption
    <3>2. \A k \in FirstKeys : since[k] = 1
      BY Zenon, <1>0, <3>1
    <3> QED
      BY <1>a, <3>1, <3>2 DEF Published
  <2>2. Published # {}
    BY Zenon, <2>1, KeySetAssumption
  <2>3. AllFetches
    BY <1>a DEF AllFetches
  <2> QED
    BY Zenon, <1>a, <2>2, <2>3 DEF CacheFacts
<1>4. AllCalls
  BY Zenon, KeySetAssumption DEF Init, AllCalls, CallFacts, NoCall, NoToken, Callers, verifyWith
<1> QED
  BY Zenon, <1>2, <1>3, <1>4, SpacingInit DEF KeyInv

\* What a caller does to the fetches: nothing, or one more.
LEMMA CallerKeeps ==
    ASSUME KeyInv, UNCHANGED <<now, issuerVars, cacheVars>>,
           (mayFetchLocked /\ startFetchLocked) \/ UNCHANGED <<fetches, inflight>>
    PROVE  /\ SpacingInv' /\ AllFetches'
           /\ fetches' \in Seq(Fetch) /\ Len(fetches') >= Len(fetches)
           /\ \A f \in 1..Len(fetches) : fetches'[f] = fetches[f]
           /\ inflight' # 0 => fetches'[inflight'].at \in Active /\ fetches'[inflight'].ks = {}
<1>1. UNCHANGED <<now, since, gone, keys, seen, doneAt>> /\ SpacingInv /\ AllFetches
      /\ fetches \in Seq(Fetch) /\ now \in Nat
  BY Zenon DEF KeyInv, SpacingInv, issuerVars, cacheVars
<1>2. CASE UNCHANGED <<fetches, inflight>>
  <2>1. SpacingInv' /\ AllFetches'
    BY Zenon, <1>1, <1>2 DEF SpacingInv, AllFetches, FetchFacts, HoldsAll
  <2> QED
    BY <1>1, <1>2, <2>1 DEF SpacingInv, AllFetches, FetchFacts
<1>3. CASE mayFetchLocked /\ startFetchLocked
  <2> DEFINE r == [at |-> "running", deadline |-> now + FetchTimeout, end |-> 0,
                   past |-> gone, got |-> {}, err |-> FALSE, ks |-> {}]
  <2>1. SpacingInv'
    BY Zenon, <1>1, <1>3, StartInv
  <2>2. /\ r.at = "running" /\ r.deadline = now + FetchTimeout /\ r.past = gone /\ r.ks = {}
        /\ r \in Fetch
    BY <1>1, KeySetAssumption DEF SpacingInv, Fetch
  <2>3. fetches' = Append(fetches, r) /\ inflight' = Len(fetches) + 1
    BY Zenon, <1>3 DEF startFetchLocked
  <2> HIDE DEF r
  <2>4. /\ fetches' \in Seq(Fetch) /\ Len(fetches') = Len(fetches) + 1
        /\ fetches'[Len(fetches) + 1] = r
        /\ \A f \in 1..Len(fetches) : fetches'[f] = fetches[f]
    BY <1>1, <2>2, <2>3
  <2>5. FetchFacts(fetches[Len(fetches)])'
    <3>1. fetches'[Len(fetches')] = r
      BY Zenon, <2>4
    <3> QED
      BY <1>1, <2>2, <3>1, KeySetAssumption DEF FetchFacts, Active, Done
  <2>6. \A f \in 1..Len(fetches) : FetchFacts(fetches[f])'
    BY ZenonT(30), <1>1, <2>4 DEF AllFetches, FetchFacts, HoldsAll
  <2>7. AllFetches'
    BY <2>4, <2>5, <2>6, <1>1 DEF AllFetches
  <2> QED
    BY <1>1, <2>1, <2>2, <2>3, <2>4, <2>7 DEF Active
<1> QED
  BY Zenon, <1>2, <1>3

\* A call that this step leaves alone keeps its facts.
LEMMA OtherCalls ==
    ASSUME KeyInv, UNCHANGED <<now, since, seen>>,
           \A f \in 1..Len(fetches) : fetches'[f] = fetches[f],
           NEW c \in Callers, calls'[c] = calls[c]
    PROVE  CallFacts(c)'
<1>1. CallFacts(c) /\ (calls[c].at = "wait" => calls[c].f \in 1..Len(fetches))
  BY Zenon DEF KeyInv, AllCalls, TypeOK
<1>2. calls[c].at = "wait" => fetches'[calls[c].f] = fetches[calls[c].f]
  BY Zenon, <1>1
<1> QED
  BY Zenon, <1>1, <1>2 DEF CallFacts, Aged, verifyWith

\* A step of caller c that leaves a fitting record is safe.
LEMMA CallerInv ==
    ASSUME KeyInv, NEW c \in Callers, NEW x \in Call, calls' = [calls EXCEPT ![c] = x],
           UNCHANGED <<now, issuerVars, cacheVars>>,
           (mayFetchLocked /\ startFetchLocked) \/ UNCHANGED <<fetches, inflight>>,
           primed' \in BOOLEAN, primed' => primed \/ keys # {},
           answer' \in {"none", "ok", "bad", "unavailable"},
           x.at = "wait" => x.f \in 1..Len(fetches'),
           CallFacts(c)'
    PROVE  KeyInv'
<1>1. UNCHANGED <<now, since, gone, keys, fetchedAt, doneAt, lastErr, seen>>
  BY Zenon DEF issuerVars, cacheVars
<1>2. /\ SpacingInv' /\ AllFetches'
      /\ fetches' \in Seq(Fetch) /\ Len(fetches') >= Len(fetches)
      /\ \A f \in 1..Len(fetches) : fetches'[f] = fetches[f]
  BY Zenon, CallerKeeps
<1>3. calls \in [Callers -> Call] /\ fetches \in Seq(Fetch)
      /\ \A d \in Callers : calls[d].at = "wait" => calls[d].f \in 1..Len(fetches)
  BY Zenon DEF KeyInv, TypeOK
<1>4. calls' \in [Callers -> Call] /\ calls'[c] = x
      /\ \A d \in Callers : d # c => calls'[d] = calls[d]
  BY Zenon, <1>3
<1>5. AllCalls'
  <2> SUFFICES ASSUME NEW d \in Callers PROVE CallFacts(d)'
    BY Zenon DEF AllCalls
  <2> QED
    BY Zenon, <1>1, <1>2, <1>4, OtherCalls
<1>6. CacheFacts'
  BY Zenon, <1>1 DEF KeyInv, CacheFacts, HoldsAll, Published
<1>7. \A d \in Callers : calls'[d].at = "wait" => calls'[d].f \in 1..Len(fetches')
  BY <1>2, <1>3, <1>4
<1>8. TypeOK'
  BY Zenon, <1>1, <1>2, <1>4, <1>7 DEF KeyInv, TypeOK, SpacingInv
<1> QED
  BY Zenon, <1>2, <1>5, <1>6, <1>8 DEF KeyInv

LEMMA NoCallTyped == NoCall \in Call /\ NoCall.at = "idle"
BY KeySetAssumption DEF NoCall, NoToken, Token, Call

\* A call returns.
LEMMA ReturnInv ==
    ASSUME KeyInv, NEW c \in Callers, NEW ks, NEW err \in BOOLEAN, Refreshed(c, ks, err),
           c = Primer /\ ~err => keys # {},
           UNCHANGED <<now, issuerVars, cacheVars, inflight, fetches>>
    PROVE  KeyInv'
<1>1. calls' = [calls EXCEPT ![c] = NoCall] /\ calls \in [Callers -> Call]
  BY Zenon DEF Refreshed, Return, KeyInv, TypeOK
<1>2. calls'[c] = NoCall
  BY Zenon, <1>1
<1>3. CallFacts(c)'
  BY Zenon, <1>2, NoCallTyped DEF CallFacts
<1>4. /\ primed' \in BOOLEAN /\ (primed' => primed \/ keys # {})
      /\ answer' \in {"none", "ok", "bad", "unavailable"}
  <2>1. CASE c = Primer
    BY Zenon, <2>1 DEF Refreshed, Return, KeyInv, TypeOK
  <2>2. CASE c # Primer
    <3>1. answer' = Verdict(calls[c], ks, err) /\ primed' = primed
      BY Zenon, <2>2 DEF Refreshed, Return
    <3>2. Verdict(calls[c], ks, err) \in {"ok", "bad", "unavailable"}
      BY Zenon DEF Verdict
    <3> QED
      BY Zenon, <3>1, <3>2 DEF KeyInv, TypeOK
  <2> QED
    BY Zenon, <2>1, <2>2
<1> QED
  BY Zenon, <1>1, <1>3, <1>4, NoCallTyped, CallerInv

LEMMA CachedKeysInv ==
    ASSUME KeyInv, NEW c \in Callers, NEW t \in Tokens, cachedKeys(c, t)
    PROVE  KeyInv'
<1> DEFINE k == t.signer
           aged == /\ k \in Published /\ t.kid \in {NoKid, k}
                   /\ now >= since[k] + MinRefresh + FetchTimeout
           x == [at |-> "cached", tok |-> t, cached |-> keys, f |-> 0, aged |-> aged,
                 lost |-> k \in seen]
<1>1. /\ calls' = [calls EXCEPT ![c] = x] /\ UNCHANGED <<now, issuerVars, cacheVars, primed, answer>>
      /\ (mayFetchLocked /\ startFetchLocked) \/ UNCHANGED <<fetches, inflight>>
  BY Zenon DEF cachedKeys
<1>2. t \in Token
  BY Zenon, KeySetAssumption
<1>3. keys \subseteq Keys /\ calls \in [Callers -> Call] /\ primed \in BOOLEAN
      /\ answer \in {"none", "ok", "bad", "unavailable"} /\ since \in [Keys -> Nat]
  BY Zenon DEF KeyInv, TypeOK
<1>4. x \in Call /\ x.at = "cached" /\ x.tok = t /\ x.cached = keys
      /\ x.aged = aged /\ x.lost = (k \in seen)
  BY <1>2, <1>3 DEF Call
<1>5. aged => Aged(k, now) /\ t.kid \in {NoKid, k}
  BY Zenon, <1>3, KeySetAssumption DEF Aged, Published
<1> HIDE DEF x, aged
<1>6. calls'[c] = x
  BY Zenon, <1>1, <1>3
<1>7. UNCHANGED <<now, since, keys, seen>>
  BY Zenon, <1>1 DEF issuerVars, cacheVars
<1>8. CallFacts(c)'
  <2>1. k \in seen => k \notin keys
    BY Zenon DEF KeyInv, CacheFacts
  <2> QED
    BY Zenon, <1>4, <1>5, <1>6, <1>7, <2>1 DEF CallFacts, Aged
<1> QED
  BY Zenon, <1>1, <1>3, <1>4, <1>8, CallerInv

LEMMA VerifySignatureInv ==
    ASSUME KeyInv, NEW c \in Callers, VerifySignature(c)
    PROVE  KeyInv'
<1>0. /\ calls \in [Callers -> Call] /\ calls[c] \in Call /\ calls[c].at = "cached"
      /\ primed \in BOOLEAN /\ answer \in {"none", "ok", "bad", "unavailable"}
      /\ UNCHANGED <<now, issuerVars, cacheVars, inflight, fetches, primed>>
  BY Zenon DEF KeyInv, TypeOK, VerifySignature
<1>1. CASE Return(c, "ok")
  <2>1. calls' = [calls EXCEPT ![c] = NoCall] /\ answer' = "ok"
    BY Zenon, <1>1 DEF Return
  <2>2. calls'[c] = NoCall
    BY Zenon, <1>0, <2>1
  <2>3. CallFacts(c)'
    BY Zenon, <2>2, NoCallTyped DEF CallFacts
  <2> QED
    BY Zenon, <1>0, <2>1, <2>3, NoCallTyped, CallerInv
<1>2. CASE ~verifyWith(calls[c].tok, calls[c].cached) /\ UNCHANGED answer
           /\ calls' = [calls EXCEPT ![c].at = "refresh"]
  <2> DEFINE x == [calls[c] EXCEPT !.at = "refresh"]
  <2>1. x \in Call /\ x.at = "refresh" /\ x.tok = calls[c].tok /\ x.cached = calls[c].cached
        /\ x.aged = calls[c].aged /\ x.lost = calls[c].lost
    BY Zenon, <1>0 DEF Call
  <2>2. calls' = [calls EXCEPT ![c] = x] /\ calls'[c] = x
    BY Zenon, <1>0, <1>2
  <2> HIDE DEF x
  <2>3. UNCHANGED <<now, since, seen>> /\ CallFacts(c)
    BY Zenon, <1>0 DEF issuerVars, cacheVars, KeyInv, AllCalls
  <2>4. CallFacts(c)'
    BY ZenonT(30), <1>0, <1>2, <2>1, <2>2, <2>3 DEF CallFacts, Aged, verifyWith
  <2> QED
    BY Zenon, <1>0, <1>2, <2>1, <2>2, <2>4, CallerInv
<1> QED
  BY Zenon, <1>1, <1>2 DEF VerifySignature

\* c waits for the fetch in flight, its own or one it joined.
LEMMA WaitInv ==
    ASSUME KeyInv, NEW c \in Callers, calls[c].at = "refresh",
           UNCHANGED <<now, issuerVars, cacheVars, primed, answer>>,
           (mayFetchLocked /\ startFetchLocked) \/ UNCHANGED <<fetches, inflight>>,
           inflight' # 0,
           calls' = [calls EXCEPT ![c].at = "wait", ![c].f = inflight']
    PROVE  KeyInv'
<1> DEFINE x == [calls[c] EXCEPT !.at = "wait", !.f = inflight']
<1>1. /\ fetches'[inflight'].at \in Active /\ fetches'[inflight'].ks = {} /\ SpacingInv'
  BY Zenon, CallerKeeps
<1>2. inflight' \in 1..Len(fetches') /\ inflight' \in Nat
  BY <1>1 DEF SpacingInv
<1>3. calls \in [Callers -> Call] /\ calls[c] \in Call /\ primed \in BOOLEAN
      /\ answer \in {"none", "ok", "bad", "unavailable"}
  BY Zenon DEF KeyInv, TypeOK
<1>4. x \in Call /\ x.at = "wait" /\ x.tok = calls[c].tok /\ x.cached = calls[c].cached
      /\ x.aged = calls[c].aged /\ x.lost = calls[c].lost /\ x.f = inflight'
  BY Zenon, <1>2, <1>3 DEF Call
<1>5. calls' = [calls EXCEPT ![c] = x] /\ calls'[c] = x
  BY Zenon, <1>3
<1> HIDE DEF x
<1>6. UNCHANGED <<now, since, seen>> /\ CallFacts(c)
  BY Zenon DEF issuerVars, cacheVars, KeyInv, AllCalls
<1>7. CallFacts(c)'
  BY ZenonT(30), <1>1, <1>4, <1>5, <1>6 DEF CallFacts, Aged, verifyWith, Active, Done
<1> QED
  BY Zenon, <1>2, <1>3, <1>4, <1>5, <1>7, CallerInv

LEMMA RefreshedKeysInv ==
    ASSUME KeyInv, NEW c \in Callers, refreshedKeys(c)
    PROVE  KeyInv'
<1>0. /\ calls[c].at = "refresh" /\ UNCHANGED <<now, issuerVars, cacheVars>>
      /\ lastErr \in BOOLEAN /\ fetches \in Seq(Fetch)
  BY Zenon DEF refreshedKeys, KeyInv, TypeOK
<1>1. CASE /\ inflight # 0
           /\ calls' = [calls EXCEPT ![c].at = "wait", ![c].f = inflight]
           /\ UNCHANGED <<fetches, inflight, primed, answer>>
  BY Zenon, <1>0, <1>1, WaitInv
<1>2. CASE /\ mayFetchLocked /\ startFetchLocked
           /\ calls' = [calls EXCEPT ![c].at = "wait", ![c].f = Len(fetches) + 1]
           /\ UNCHANGED <<primed, answer>>
  <2>1. inflight' = Len(fetches) + 1 /\ inflight' # 0
    BY <1>0, <1>2 DEF startFetchLocked
  <2>2. calls' = [calls EXCEPT ![c].at = "wait", ![c].f = inflight']
    BY Zenon, <1>2, <2>1
  <2> QED
    BY Zenon, <1>0, <1>2, <2>1, <2>2, WaitInv
<1>3. CASE /\ inflight = 0 /\ ~mayFetchLocked
           /\ Refreshed(c, keys, lastErr) /\ UNCHANGED <<fetches, inflight>>
  <2>1. ~lastErr => keys # {}
    BY Zenon, <1>3 DEF mayFetchLocked, KeyInv, CacheFacts
  <2> QED
    BY Zenon, <1>0, <1>3, <2>1, ReturnInv
<1> QED
  BY Zenon, <1>1, <1>2, <1>3 DEF refreshedKeys

LEMMA SelectInv ==
    ASSUME KeyInv, NEW c \in Callers, fetchDone(c) \/ contextDone(c)
    PROVE  KeyInv'
<1>1. CASE fetchDone(c)
  <2> DEFINE g == calls[c].f
  <2>1. g \in 1..Len(fetches) /\ fetches[g].at = "closed" /\ fetches[g] \in Fetch
    BY <1>1 DEF fetchDone, KeyInv, TypeOK
  <2>2. FetchFacts(fetches[g])
    BY Zenon, <2>1 DEF KeyInv, AllFetches
  <2>3. fetches[g].err \in BOOLEAN /\ (~fetches[g].err => keys # {})
    BY Zenon, <2>1, <2>2 DEF Fetch, FetchFacts, Done
  <2> QED
    BY Zenon, <1>1, <2>3, ReturnInv DEF fetchDone
<1>2. CASE contextDone(c)
  <2>1. Refreshed(c, {}, TRUE) /\ UNCHANGED <<now, issuerVars, cacheVars, inflight, fetches>>
    BY Zenon, <1>2 DEF contextDone
  <2> QED
    BY Zenon, <2>1, ReturnInv
<1> QED
  BY Zenon, <1>1, <1>2

\* The steps that leave the calls alone and replace fetch f by r.
LEMMA FetchReplaced ==
    ASSUME KeyInv, NEW f \in 1..Len(fetches), NEW r \in Fetch,
           fetches' = [fetches EXCEPT ![f] = r], UNCHANGED <<now, issuerVars, callVars>>,
           SpacingInv', CacheFacts', fetchedAt' \in Nat, lastErr' \in BOOLEAN,
           seen' \subseteq Keys, seen \subseteq seen', keys # {} => keys' # {},
           \A g \in 1..Len(fetches) : g # f => fetches[g].at \notin Active,
           FetchFacts(fetches[f])',
           \A c \in Callers : calls[c].at = "wait" /\ calls[c].f = f /\ CallFacts(c)
              => CallFacts(c)'
    PROVE  KeyInv'
<1>1. fetches \in Seq(Fetch) /\ fetches' \in Seq(Fetch) /\ Len(fetches') = Len(fetches)
      /\ fetches'[f] = r /\ \A g \in 1..Len(fetches) : g # f => fetches'[g] = fetches[g]
  BY DEF KeyInv, TypeOK
<1>2. UNCHANGED <<now, since, gone, calls, primed, answer>>
  BY Zenon DEF issuerVars, callVars
<1>3. AllFetches'
  <2> SUFFICES ASSUME NEW g \in 1..Len(fetches) PROVE FetchFacts(fetches[g])'
    BY Zenon, <1>1 DEF AllFetches
  <2>1. CASE g = f
    BY Zenon, <2>1
  <2>2. CASE g # f
    <3>1. fetches'[g] = fetches[g] /\ FetchFacts(fetches[g]) /\ fetches[g].at \notin Active
      BY Zenon, <1>1, <2>2 DEF KeyInv, AllFetches
    <3> QED
      BY Zenon, <1>2, <3>1 DEF FetchFacts, HoldsAll, Active
  <2> QED
    BY Zenon, <2>1, <2>2
<1>4. AllCalls'
  <2> SUFFICES ASSUME NEW c \in Callers PROVE CallFacts(c)'
    BY Zenon DEF AllCalls
  <2>1. CallFacts(c) /\ (calls[c].at = "wait" => calls[c].f \in 1..Len(fetches))
    BY Zenon DEF KeyInv, AllCalls, TypeOK
  <2>2. CASE calls[c].at = "wait" /\ calls[c].f = f
    BY Zenon, <2>1, <2>2
  <2>3. CASE ~(calls[c].at = "wait" /\ calls[c].f = f)
    <3>1. calls[c].at = "wait" => fetches'[calls[c].f] = fetches[calls[c].f]
      BY Zenon, <1>1, <2>1, <2>3
    <3> QED
      BY Zenon, <1>2, <2>1, <3>1 DEF CallFacts, Aged, verifyWith
  <2> QED
    BY Zenon, <2>2, <2>3
<1>5. TypeOK'
  <2>1. now' \in Nat \ {0} /\ gone' \subseteq Keys /\ keys' \subseteq Keys /\ doneAt' \in Nat
        /\ inflight' \in 0..Len(fetches')
    BY DEF SpacingInv
  <2> QED
    BY Zenon, <1>1, <1>2, <2>1 DEF KeyInv, TypeOK
<1> QED
  BY Zenon, <1>3, <1>4, <1>5 DEF KeyInv

LEMMA FetchKeyInv ==
    ASSUME KeyInv, NEW f \in 1..Len(fetches), fetch(f)
    PROVE  KeyInv'
<1>0. /\ fetches[f] \in Fetch /\ FetchFacts(fetches[f]) /\ fetches[f].at = "running"
      /\ Published \subseteq Keys /\ seen \subseteq gone /\ SpacingInv /\ now \in Nat
  BY DEF KeyInv, TypeOK, AllFetches, CacheFacts, fetch, Published
<1>1. PICK r \in Fetch :
        /\ fetches' = [fetches EXCEPT ![f] = r] /\ r.at = "got" /\ r.ks = fetches[f].ks
        /\ r.past = fetches[f].past /\ r.deadline = fetches[f].deadline
        /\ r.err \/ r.got = Published
  <2>1. CASE fetches' = [fetches EXCEPT ![f].at = "got", ![f].got = Published]
    <3> DEFINE r == [fetches[f] EXCEPT !.at = "got", !.got = Published]
    <3>1. fetches' = [fetches EXCEPT ![f] = r]
      BY Zenon, <2>1 DEF SpacingInv
    <3>2. /\ r \in Fetch /\ r.at = "got" /\ r.ks = fetches[f].ks /\ r.past = fetches[f].past
          /\ r.deadline = fetches[f].deadline /\ r.got = Published
      BY Zenon, <1>0 DEF Fetch
    <3> QED
      BY Zenon, <3>1, <3>2
  <2>2. CASE fetches' = [fetches EXCEPT ![f].at = "got", ![f].err = TRUE]
    <3> DEFINE r == [fetches[f] EXCEPT !.at = "got", !.err = TRUE]
    <3>1. fetches' = [fetches EXCEPT ![f] = r]
      BY Zenon, <2>2 DEF SpacingInv
    <3>2. /\ r \in Fetch /\ r.at = "got" /\ r.ks = fetches[f].ks /\ r.past = fetches[f].past
          /\ r.deadline = fetches[f].deadline /\ r.err
      BY Zenon, <1>0 DEF Fetch
    <3> QED
      BY Zenon, <3>1, <3>2
  <2> QED
    BY Zenon, <2>1, <2>2 DEF fetch
<1>2. fetches'[f] = r
  BY <1>1 DEF KeyInv, TypeOK
<1>3. UNCHANGED <<now, issuerVars, callVars, cacheVars, inflight>>
  BY Zenon DEF fetch
<1>4. UNCHANGED <<now, since, gone, keys, seen, fetchedAt, doneAt, lastErr, calls, primed>>
  BY Zenon, <1>3 DEF issuerVars, callVars, cacheVars
<1>5. SpacingInv'
  BY Zenon, <1>0, FetchInv
<1>6. CacheFacts'
  BY Zenon, <1>4 DEF KeyInv, CacheFacts, HoldsAll, Published
<1>7. FetchFacts(fetches[f])'
  <2>1. HoldsAll(Published, r.deadline)'
    BY Zenon, <1>4 DEF HoldsAll, Published
  <2>2. Published # {} /\ Published \cap (r.past \cup seen) = {}
    BY Zenon, <1>0, <1>1 DEF Published, KeyInv, CacheFacts, FetchFacts, Active
  <2>3. HoldsAll(r.got, r.deadline)' \/ r.err
    BY Zenon, <1>1, <1>4 DEF HoldsAll, Published
  <2> QED
    BY Zenon, <1>0, <1>1, <1>2, <1>4, <2>2, <2>3 DEF FetchFacts, Active, Done
<1>8. \A g \in 1..Len(fetches) : g # f => fetches[g].at \notin Active
  BY Zenon, <1>0 DEF SpacingInv, Active
<1>9. ASSUME NEW c \in Callers, calls[c].at = "wait", calls[c].f = f, CallFacts(c)
      PROVE  CallFacts(c)'
  BY Zenon, <1>0, <1>1, <1>2, <1>4, <1>9 DEF CallFacts, Aged, verifyWith, Done
<1>10. fetchedAt' \in Nat /\ lastErr' \in BOOLEAN /\ seen' \subseteq Keys /\ seen \subseteq seen'
       /\ (keys # {} => keys' # {})
  BY Zenon, <1>4 DEF KeyInv, TypeOK
<1> QED
  BY Zenon, <1>1, <1>3, <1>5, <1>6, <1>7, <1>8, <1>9, <1>10, FetchReplaced

LEMMA CloseKeyInv ==
    ASSUME KeyInv, NEW f \in 1..Len(fetches), close(f)
    PROVE  KeyInv'
<1> DEFINE r == [fetches[f] EXCEPT !.at = "closed"]
<1>0. /\ fetches[f] \in Fetch /\ FetchFacts(fetches[f]) /\ fetches[f].at = "stored"
      /\ SpacingInv
  BY DEF KeyInv, TypeOK, AllFetches, close
<1>1. /\ r \in Fetch /\ r.at = "closed" /\ r.end = fetches[f].end /\ r.err = fetches[f].err
      /\ r.ks = fetches[f].ks
  BY Zenon, <1>0 DEF Fetch
<1>2. fetches' = [fetches EXCEPT ![f] = r] /\ UNCHANGED <<now, issuerVars, callVars, cacheVars, inflight>>
  BY Zenon DEF close
<1> HIDE DEF r
<1>3. fetches'[f] = r
  BY <1>2 DEF KeyInv, TypeOK
<1>4. UNCHANGED <<now, since, gone, keys, seen, fetchedAt, doneAt, lastErr, calls, primed>>
  BY Zenon, <1>2 DEF issuerVars, callVars, cacheVars
<1>5. SpacingInv'
  BY Zenon, <1>0, CloseInv
<1>6. CacheFacts'
  BY Zenon, <1>4 DEF KeyInv, CacheFacts, HoldsAll, Published
<1>7. FetchFacts(fetches[f])'
  BY Zenon, <1>0, <1>1, <1>3, <1>4 DEF FetchFacts, HoldsAll, Active, Done
<1>8. AllFetches'
  <2> SUFFICES ASSUME NEW g \in 1..Len(fetches), g # f PROVE FetchFacts(fetches[g])'
    BY <1>2, <1>7 DEF AllFetches, KeyInv, TypeOK
  <2>1. fetches'[g] = fetches[g] /\ FetchFacts(fetches[g])
    BY <1>2 DEF KeyInv, AllFetches, TypeOK
  <2> QED
    BY Zenon, <1>4, <2>1 DEF FetchFacts, HoldsAll
<1>9. AllCalls'
  <2> SUFFICES ASSUME NEW c \in Callers PROVE CallFacts(c)'
    BY Zenon DEF AllCalls
  <2>1. CallFacts(c) /\ (calls[c].at = "wait" => calls[c].f \in 1..Len(fetches))
    BY Zenon DEF KeyInv, AllCalls, TypeOK
  <2>2. calls[c].at = "wait" =>
          /\ fetches'[calls[c].f].ks = fetches[calls[c].f].ks
          /\ fetches'[calls[c].f].end = fetches[calls[c].f].end
          /\ fetches'[calls[c].f].at \in Done => fetches[calls[c].f].at \in Done
    BY <1>0, <1>1, <1>2, <2>1 DEF KeyInv, TypeOK, Done
  <2> QED
    BY Zenon, <1>4, <2>1, <2>2 DEF CallFacts, Aged, verifyWith
<1>10. TypeOK'
  <2>1. fetches' \in Seq(Fetch) /\ Len(fetches') = Len(fetches) /\ UNCHANGED answer
    BY <1>1, <1>2 DEF KeyInv, TypeOK, callVars
  <2> QED
    BY Zenon, <1>2, <1>4, <2>1 DEF KeyInv, TypeOK
<1> QED
  BY Zenon, <1>5, <1>6, <1>8, <1>9, <1>10 DEF KeyInv

LEMMA RunFetchKeyInv ==
    ASSUME KeyInv, NEW f \in 1..Len(fetches), runFetch(f)
    PROVE  KeyInv'
<1> DEFINE r == [fetches[f] EXCEPT !.at = "stored", !.deadline = 0, !.end = now,
                                   !.past = {}, !.got = {}, !.ks = keys']
<1>0. /\ fetches[f] \in Fetch /\ FetchFacts(fetches[f]) /\ fetches[f].at = "got"
      /\ SpacingInv /\ now \in Nat \ {0} /\ seen \subseteq Keys /\ gone \subseteq Keys
      /\ since \in [Keys -> Nat] /\ fetchedAt \in Nat /\ fetches[f].err \in BOOLEAN
      /\ fetches[f].past \subseteq Keys /\ fetches[f].got \subseteq Keys /\ keys \subseteq Keys
      /\ fetches[f].deadline \in Nat
  <2>1. fetches[f] \in Fetch
    BY DEF KeyInv, TypeOK
  <2> QED
    BY Zenon, <2>1 DEF KeyInv, TypeOK, AllFetches, runFetch, Fetch
<1>1. UNCHANGED <<now, issuerVars, callVars>> /\ UNCHANGED <<since, gone, calls, primed>>
  BY Zenon DEF runFetch, Stored, issuerVars, callVars
<1>2. /\ doneAt' = now /\ lastErr' = fetches[f].err
      /\ fetches[f].err => UNCHANGED <<keys, fetchedAt, seen>>
      /\ ~fetches[f].err => /\ keys' = fetches[f].got /\ fetchedAt' = now
                            /\ seen' = seen \cup fetches[f].past
  BY Zenon DEF runFetch
<1>3. keys' \subseteq Keys
  BY Zenon, <1>0, <1>2
<1>4. /\ r \in Fetch /\ r.at = "stored" /\ r.end = now /\ r.err = fetches[f].err /\ r.ks = keys'
  BY Zenon, <1>0, <1>3 DEF Fetch
<1>5. fetches' = [fetches EXCEPT ![f] = r]
  BY Zenon DEF runFetch, Stored
<1> HIDE DEF r
<1>6. fetches'[f] = r
  BY <1>5 DEF KeyInv, TypeOK
<1>7. SpacingInv'
  BY Zenon, <1>0, RunFetchInv
<1>8. ~fetches[f].err => keys' # {} /\ HoldsAll(keys, now)'
  <2> SUFFICES ASSUME ~fetches[f].err PROVE keys' # {} /\ HoldsAll(keys, now)'
    OBVIOUS
  <2>1. HoldsAll(fetches[f].got, fetches[f].deadline) /\ fetches[f].got # {}
        /\ now <= fetches[f].deadline
    BY Zenon, <1>0 DEF FetchFacts, Active
  <2> QED
    BY <1>0, <1>1, <1>2, <2>1, KeySetAssumption DEF HoldsAll
<1>9. seen' \subseteq gone /\ keys' \cap seen' = {} /\ (keys # {} => keys' # {})
  BY Zenon, <1>0, <1>2 DEF FetchFacts, Active, KeyInv, CacheFacts
<1>10. CacheFacts'
  BY Zenon, <1>1, <1>2, <1>8, <1>9 DEF CacheFacts, HoldsAll, Published, KeyInv
<1>11. FetchFacts(fetches[f])'
  BY Zenon, <1>1, <1>4, <1>6, <1>8 DEF FetchFacts, HoldsAll, Active, Done
<1>12. \A g \in 1..Len(fetches) : g # f => fetches[g].at \notin Active
  BY Zenon, <1>0 DEF SpacingInv, Active
<1>13. ASSUME NEW c \in Callers, calls[c].at = "wait", calls[c].f = f, CallFacts(c)
       PROVE  CallFacts(c)'
  BY Zenon, <1>1, <1>2, <1>4, <1>6, <1>9, <1>13 DEF CallFacts, Aged, verifyWith, Done
<1>14. fetchedAt' \in Nat /\ lastErr' \in BOOLEAN /\ seen' \subseteq Keys /\ seen \subseteq seen'
  BY Zenon, <1>0, <1>2
<1> QED
  BY Zenon, <1>1, <1>4, <1>5, <1>7, <1>9, <1>10, <1>11, <1>12, <1>13, <1>14, FetchReplaced

\* The issuer and the clock leave the cache, the fetches and the calls alone;
\* no key published now counts for what ended by now.
LEMMA OutsideInv ==
    ASSUME KeyInv, UNCHANGED <<cacheVars, inflight, fetches, callVars>>,
           now' \in Nat, now <= now', now' <= now + 1,
           gone \subseteq gone', gone' \subseteq Keys, Published' # {},
           since' \in [Keys -> Nat],
           \A k \in Keys : since'[k] = since[k] \/ (since[k] = 0 /\ since'[k] = now),
           \A f \in 1..Len(fetches) : fetches[f].at \in Active => now' <= fetches[f].deadline
    PROVE  KeyInv'
<1>0. /\ UNCHANGED <<keys, fetchedAt, doneAt, lastErr, seen, calls, primed, answer>>
      /\ UNCHANGED <<inflight, fetches>>
  BY Zenon DEF cacheVars, callVars
<1>1. SpacingInv /\ TypeOK /\ now \in Nat \ {0} /\ since \in [Keys -> Nat] /\ doneAt \in Nat
      /\ doneAt <= now /\ FetchTimeout \in Nat /\ MinRefresh \in Nat
  BY KeySetAssumption DEF KeyInv, TypeOK, SpacingInv
<1>2. SpacingInv'
  BY Zenon, <1>0, <1>1, RestingInv DEF Resting
<1>3. ASSUME NEW ks, NEW t \in Nat, t <= now + FetchTimeout, HoldsAll(ks, t)
      PROVE  HoldsAll(ks, t)'
  BY <1>1, <1>3 DEF HoldsAll
<1>4. ASSUME NEW ks, NEW t \in Nat, t <= now, HoldsAll(ks, t)
      PROVE  HoldsAll(ks, t)'
  BY <1>1, <1>4 DEF HoldsAll
<1>5. AllFetches'
  <2> SUFFICES ASSUME NEW f \in 1..Len(fetches) PROVE FetchFacts(fetches[f])'
    BY Zenon, <1>0 DEF AllFetches
  <2>1. fetches[f] \in Fetch /\ FetchFacts(fetches[f])
    BY <1>1 DEF KeyInv, TypeOK, AllFetches
  <2>2. fetches[f].deadline \in Nat /\ fetches[f].end \in Nat
    BY Zenon, <2>1 DEF Fetch
  <2>3. fetches[f].at \in Active =>
          /\ fetches[f].ks = {} /\ fetches[f].past \subseteq gone'
          /\ now' <= fetches[f].deadline /\ fetches[f].deadline <= now' + FetchTimeout
          /\ fetches[f].deadline <= now + FetchTimeout
    BY <1>1, <2>1, <2>2 DEF FetchFacts
  <2>4. fetches[f].at = "got" /\ ~fetches[f].err =>
          HoldsAll(fetches[f].got, fetches[f].deadline)'
    <3>1. fetches[f].at = "got" => fetches[f].at \in Active
      BY Zenon DEF Active
    <3> QED
      BY Zenon, <1>0, <1>3, <2>1, <2>2, <2>3, <3>1 DEF FetchFacts, HoldsAll
  <2>5. fetches[f].at \in Done /\ ~fetches[f].err => HoldsAll(fetches[f].ks, fetches[f].end)'
    <3>1. fetches[f].at \in Done => fetches[f].end <= now
      BY <1>1, <2>2 DEF SpacingInv, Active, Done
    <3> QED
      BY Zenon, <1>0, <1>4, <2>1, <2>2, <3>1 DEF FetchFacts, HoldsAll
  <2> QED
    BY Zenon, <1>0, <2>1, <2>3, <2>4, <2>5 DEF FetchFacts
<1>6. CacheFacts'
  <2>1. doneAt # 0 /\ ~lastErr => HoldsAll(keys, doneAt)'
    BY Zenon, <1>0, <1>1, <1>4 DEF KeyInv, CacheFacts, HoldsAll
  <2> QED
    BY Zenon, <1>0, <2>1 DEF KeyInv, CacheFacts
<1>7. AllCalls'
  <2> SUFFICES ASSUME NEW c \in Callers PROVE CallFacts(c)'
    BY Zenon DEF AllCalls
  <2>1. CallFacts(c) /\ calls[c] \in Call /\ calls'[c] = calls[c]
    BY Zenon, <1>0 DEF KeyInv, AllCalls, TypeOK
  <2>2. \A k, t : Aged(k, t) => since'[k] = since[k]
    BY Zenon DEF Aged
  <2>3. \A k : Aged(k, now) => Aged(k, now)'
    BY <1>1, <2>2 DEF Aged
  <2>4. \A k, t : Aged(k, t) =>
            k \in Keys /\ since'[k] # 0 /\ since'[k] + MinRefresh + FetchTimeout <= t
    BY Zenon, <2>2 DEF Aged
  <2> DEFINE k == calls[c].tok.signer
             e == fetches[calls[c].f].end
  <2>5. Aged(k, e) => Aged(k, e)'
    BY Zenon, <1>0, <2>1, <2>4 DEF Aged
  <2> QED
    BY Zenon, <1>0, <2>1, <2>3, <2>5 DEF CallFacts, verifyWith
<1>8. TypeOK'
  BY <1>0, <1>1 DEF TypeOK
<1> QED
  BY Zenon, <1>2, <1>5, <1>6, <1>7, <1>8 DEF KeyInv

LEMMA KeyStep ==
    ASSUME KeyInv, [Next]_vars
    PROVE  KeyInv'
<1>0. /\ now \in Nat /\ since \in [Keys -> Nat] /\ gone \subseteq Keys /\ Published # {}
      /\ \A f \in 1..Len(fetches) : fetches[f].at \in Active => now <= fetches[f].deadline
  BY Zenon DEF KeyInv, TypeOK, CacheFacts, AllFetches, FetchFacts
<1>1. ASSUME NEW c \in Callers,
             Progress(c) \/ contextDone(c) \/ \E t \in Tokens : cachedKeys(c, t)
      PROVE  KeyInv'
  BY Zenon, <1>1, VerifySignatureInv, RefreshedKeysInv, SelectInv, CachedKeysInv DEF Progress
<1>2. CASE Goroutine
  BY Zenon, <1>2, FetchKeyInv, RunFetchKeyInv, CloseKeyInv DEF Goroutine
<1>3. ASSUME NEW k \in Keys, Publish(k)
      PROVE  KeyInv'
  <2>1. /\ UNCHANGED <<cacheVars, inflight, fetches, callVars>> /\ UNCHANGED <<now, gone>>
        /\ since' = [since EXCEPT ![k] = now] /\ since[k] = 0
    BY Zenon, <1>3 DEF Publish
  <2>2. /\ since' \in [Keys -> Nat]
        /\ \A l \in Keys : since'[l] = since[l] \/ (since[l] = 0 /\ since'[l] = now)
    BY Zenon, <1>0, <2>1
  <2>3. Published' # {}
    BY Zenon, <1>0, <2>1, <2>2 DEF Published
  <2> QED
    BY <1>0, <2>1, <2>2, <2>3, OutsideInv
<1>4. ASSUME NEW k \in Keys, Withdraw(k)
      PROVE  KeyInv'
  <2>1. /\ UNCHANGED <<cacheVars, inflight, fetches, callVars>> /\ UNCHANGED <<now, since>>
        /\ gone' = gone \cup {k} /\ k \in Published /\ Published # {k}
    BY Zenon, <1>4 DEF Withdraw
  <2>2. Published' # {}
    BY Zenon, <2>1 DEF Published
  <2> QED
    BY <1>0, <2>1, <2>2, OutsideInv
<1>5. CASE Tick
  <2>1. /\ UNCHANGED <<cacheVars, inflight, fetches, callVars>> /\ UNCHANGED <<since, gone>>
        /\ now' = now + 1
        /\ \A f \in 1..Len(fetches) : fetches[f].at \in Active => now < fetches[f].deadline
    BY Zenon, <1>5 DEF Tick, issuerVars, Active
  <2>2. \A f \in 1..Len(fetches) : fetches[f].deadline \in Nat
    <3> SUFFICES ASSUME NEW f \in 1..Len(fetches) PROVE fetches[f].deadline \in Nat
      OBVIOUS
    <3>1. fetches[f] \in Fetch
      BY DEF KeyInv, TypeOK
    <3> QED
      BY Zenon, <3>1 DEF Fetch
  <2>3. \A f \in 1..Len(fetches) : fetches[f].at \in Active => now' <= fetches[f].deadline
    BY <1>0, <2>1, <2>2
  <2>4. Published' # {}
    BY Zenon, <1>0, <2>1 DEF Published
  <2> QED
    BY <1>0, <2>1, <2>3, <2>4, OutsideInv
<1>6. CASE UNCHANGED vars
  <2>1. /\ UNCHANGED <<cacheVars, inflight, fetches, callVars>> /\ UNCHANGED <<since, gone, now>>
    BY Zenon, <1>6 DEF vars, issuerVars
  <2>2. Published' # {}
    BY Zenon, <1>0, <2>1 DEF Published
  <2> QED
    BY <1>0, <2>1, <2>2, OutsideInv
<1> QED
  BY Zenon, <1>1, <1>2, <1>3, <1>4, <1>5, <1>6 DEF Next

(***************************************************************************)
(* The answers.                                                            *)
(***************************************************************************)
\* What refreshedKeys may hand to the call x: no key x saw withdrawn, and
\* without an error the key of x if it was published long enough.
Fits(x, ks, err) ==
    /\ x.lost => x.tok.signer \notin ks
    /\ x.aged /\ x.tok.signer \in Published /\ ~err => x.tok.signer \in ks

\* A request is answered by the cached keys or by what refreshedKeys brought.
AnsweredWith(c) ==
    \/ calls[c].at = "cached" /\ verifyWith(calls[c].tok, calls[c].cached) /\ answer' = "ok"
    \/ /\ calls[c].at \in {"refresh", "wait"}
       /\ \E ks \in SUBSET Keys, err \in BOOLEAN :
             Fits(calls[c], ks, err) /\ answer' = Verdict(calls[c], ks, err)

LEMMA AgedHeld ==
    ASSUME KeyInv, NEW k, NEW t \in Nat, NEW ks, Aged(k, t), HoldsAll(ks, t), k \in Published
    PROVE  k \in ks
<1>1. k \in Keys /\ since[k] \in Nat
  BY Zenon DEF Aged, KeyInv, TypeOK
<1> QED
  BY <1>1, KeySetAssumption DEF Aged, HoldsAll, Published

LEMMA RefreshFits ==
    ASSUME KeyInv, NEW c \in Requests, refreshedKeys(c), calls'[c].at = "idle"
    PROVE  AnsweredWith(c)
<1>0. /\ c \in Callers /\ c # Primer /\ calls[c].at = "refresh" /\ CallFacts(c)
      /\ calls \in [Callers -> Call] /\ keys \subseteq Keys /\ lastErr \in BOOLEAN
      /\ now \in Nat /\ doneAt \in Nat /\ since \in [Keys -> Nat]
  BY Zenon, KeySetAssumption DEF Callers, KeyInv, AllCalls, TypeOK, refreshedKeys
<1>1. inflight = 0 /\ ~mayFetchLocked /\ Refreshed(c, keys, lastErr)
  <2>1. ASSUME NEW n, calls' = [calls EXCEPT ![c].at = "wait", ![c].f = n]
        PROVE  calls'[c].at = "wait"
    <3>1. calls[c] \in Call
      BY Zenon, <1>0
    <3> QED
      BY Zenon, <1>0, <2>1, <3>1 DEF Call
  <2> QED
    BY <2>1, Zenon DEF refreshedKeys
<1>2. answer' = Verdict(calls[c], keys, lastErr)
  BY Zenon, <1>0, <1>1 DEF Refreshed, Return
<1>3. doneAt # 0 /\ now - doneAt < MinRefresh
  BY <1>0, <1>1, KeySetAssumption DEF mayFetchLocked
<1>4. ~lastErr => HoldsAll(keys, doneAt)
  BY Zenon, <1>3 DEF KeyInv, CacheFacts
<1>5. calls[c].aged => Aged(calls[c].tok.signer, now)
  BY Zenon, <1>0 DEF CallFacts
<1>6. Fits(calls[c], keys, lastErr)
  <2>1. calls[c].lost => calls[c].tok.signer \notin keys
    BY Zenon, <1>0 DEF CallFacts, KeyInv, CacheFacts
  <2>2. calls[c].aged /\ calls[c].tok.signer \in Published /\ ~lastErr
           => calls[c].tok.signer \in keys
    BY <1>0, <1>3, <1>4, <1>5, KeySetAssumption DEF HoldsAll, Aged, Published
  <2> QED
    BY Zenon, <2>1, <2>2 DEF Fits
<1> QED
  BY Zenon, <1>0, <1>2, <1>6 DEF AnsweredWith

LEMMA SelectFits ==
    ASSUME KeyInv, NEW c \in Requests, fetchDone(c) \/ contextDone(c)
    PROVE  AnsweredWith(c)
<1>0. /\ c \in Callers /\ c # Primer /\ calls[c].at = "wait" /\ CallFacts(c)
      /\ calls[c].f \in 1..Len(fetches) /\ fetches \in Seq(Fetch) /\ since \in [Keys -> Nat]
  BY Zenon, KeySetAssumption DEF Callers, KeyInv, AllCalls, TypeOK, fetchDone, contextDone
<1>1. CASE contextDone(c)
  <2>1. answer' = Verdict(calls[c], {}, TRUE)
    BY Zenon, <1>0, <1>1 DEF contextDone, Refreshed, Return
  <2>2. Fits(calls[c], {}, TRUE)
    BY Zenon DEF Fits
  <2>3. {} \in SUBSET Keys /\ TRUE \in BOOLEAN
    OBVIOUS
  <2> QED
    BY <1>0, <2>1, <2>2, <2>3, Zenon DEF AnsweredWith
<1>2. CASE fetchDone(c)
  <2> DEFINE x == fetches[calls[c].f]
  <2>1. x \in Fetch /\ x.at = "closed" /\ FetchFacts(x)
    BY <1>0, <1>2 DEF fetchDone, KeyInv, AllFetches
  <2>2. x.ks \subseteq Keys /\ x.err \in BOOLEAN /\ x.end \in Nat
    BY Zenon, <2>1 DEF Fetch
  <2>3. answer' = Verdict(calls[c], x.ks, x.err)
    BY Zenon, <1>0, <1>2 DEF fetchDone, Refreshed, Return
  <2>4. calls[c].lost => calls[c].tok.signer \notin x.ks
    BY Zenon, <1>0 DEF CallFacts
  <2>5. calls[c].aged => Aged(calls[c].tok.signer, x.end)
    BY Zenon, <1>0, <2>1 DEF CallFacts, Done
  <2>6. ~x.err => HoldsAll(x.ks, x.end)
    BY Zenon, <2>1 DEF FetchFacts, Done
  <2> HIDE DEF x
  <2>7. calls[c].aged /\ calls[c].tok.signer \in Published /\ ~x.err
           => calls[c].tok.signer \in x.ks
    BY Zenon, <2>2, <2>5, <2>6, AgedHeld
  <2> QED
    BY Zenon, <1>0, <2>2, <2>3, <2>4, <2>7 DEF AnsweredWith, Fits
<1> QED
  BY Zenon, <1>1, <1>2

LEMMA EveryAnswer ==
    ASSUME KeyInv, [Next]_vars, NEW c \in Requests, Answered(c)
    PROVE  AnsweredWith(c)
<1>0. c \in Callers /\ calls \in [Callers -> Call] /\ calls'[c] # calls[c]
  BY Zenon DEF Callers, KeyInv, TypeOK, Answered
<1>1. ASSUME NEW d \in Callers,
             Progress(d) \/ contextDone(d) \/ \E t \in Tokens : cachedKeys(d, t)
      PROVE  AnsweredWith(c)
  <2>1. d = c
    <3> SUFFICES ASSUME d # c PROVE calls'[c] = calls[c]
      BY Zenon, <1>0
    <3>1. CASE VerifySignature(d)
      BY Zenon, <1>0, <3>1 DEF VerifySignature, Return
    <3>2. CASE refreshedKeys(d)
      BY Zenon, <1>0, <3>2 DEF refreshedKeys, Refreshed, Return
    <3>3. CASE fetchDone(d) \/ contextDone(d)
      BY Zenon, <1>0, <3>3 DEF fetchDone, contextDone, Refreshed, Return
    <3>4. ASSUME NEW t \in Tokens, cachedKeys(d, t) PROVE calls'[c] = calls[c]
      <4>1. \E y : calls' = [calls EXCEPT ![d] = y]
        BY Zenon, <3>4 DEF cachedKeys
      <4> QED
        BY Zenon, <1>0, <4>1
    <3> QED
      BY Zenon, <1>1, <3>1, <3>2, <3>3, <3>4 DEF Progress
  <2>2. CASE VerifySignature(c)
    <3>1. calls[c] \in Call /\ calls[c].at = "cached"
      BY Zenon, <1>0, <2>2 DEF VerifySignature
    <3>2. ASSUME calls' = [calls EXCEPT ![c].at = "refresh"]
          PROVE  calls'[c].at = "refresh"
      BY Zenon, <1>0, <3>1, <3>2 DEF Call
    <3>3. verifyWith(calls[c].tok, calls[c].cached) /\ answer' = "ok"
      BY <2>2, <3>2, Zenon DEF VerifySignature, Return, Answered
    <3> QED
      BY Zenon, <3>1, <3>3 DEF AnsweredWith
  <2>3. CASE refreshedKeys(c)
    BY Zenon, <2>3, RefreshFits DEF Answered
  <2>4. CASE fetchDone(c) \/ contextDone(c)
    BY Zenon, <2>4, SelectFits
  <2>5. ~\E t \in Tokens : cachedKeys(c, t)
    BY Zenon DEF cachedKeys, Answered
  <2> QED
    BY Zenon, <1>1, <2>1, <2>2, <2>3, <2>4, <2>5 DEF Progress
<1>2. ASSUME NEW f \in 1..Len(fetches), fetch(f) \/ runFetch(f) \/ close(f)
      PROVE  calls' = calls
  BY Zenon, <1>2 DEF fetch, runFetch, Stored, close, callVars
<1>3. ASSUME NEW k \in Keys, Publish(k) \/ Withdraw(k)
      PROVE  calls' = calls
  BY Zenon, <1>3 DEF Publish, Withdraw, callVars
<1>4. Tick \/ UNCHANGED vars => calls' = calls
  BY Zenon DEF Tick, vars, callVars
<1> QED
  BY Zenon, <1>0, <1>1, <1>2, <1>3, <1>4 DEF Next, Goroutine

LEMMA LostNotOk ==
    ASSUME KeyInv, [Next]_vars, NEW c \in Requests, Answered(c), calls[c].lost
    PROVE  answer' # "ok"
<1>1. CallFacts(c) /\ calls[c].at # "idle"
  BY Zenon DEF KeyInv, AllCalls, Callers, Answered
<1>2. ~verifyWith(calls[c].tok, calls[c].cached)
  BY Zenon, <1>1 DEF CallFacts, verifyWith
<1>3. PICK ks \in SUBSET Keys, err \in BOOLEAN :
         Fits(calls[c], ks, err) /\ answer' = Verdict(calls[c], ks, err)
  BY Zenon, <1>2, EveryAnswer DEF AnsweredWith
<1>4. ~verifyWith(calls[c].tok, ks)
  BY Zenon, <1>3 DEF Fits, verifyWith
<1> QED
  BY Zenon, <1>3, <1>4 DEF Verdict

LEMMA AgedNotBad ==
    ASSUME KeyInv, [Next]_vars, NEW c \in Requests, Answered(c), calls[c].aged,
           calls[c].tok.signer \in Published
    PROVE  answer' # "bad"
<1>1. CallFacts(c) /\ calls[c].at # "idle"
  BY Zenon DEF KeyInv, AllCalls, Callers, Answered
<1> DEFINE k == calls[c].tok.signer
<1>2. k \in Keys /\ k # NoKid /\ calls[c].tok.kid \in {NoKid, k}
  BY Zenon, <1>1, KeySetAssumption DEF CallFacts, Aged
<1>3. CASE calls[c].at \in {"refresh", "wait"} /\ \E ks \in SUBSET Keys, err \in BOOLEAN :
             Fits(calls[c], ks, err) /\ answer' = Verdict(calls[c], ks, err)
  <2>1. PICK ks \in SUBSET Keys, err \in BOOLEAN :
          Fits(calls[c], ks, err) /\ answer' = Verdict(calls[c], ks, err)
    BY Zenon, <1>3
  <2>2. ~verifyWith(calls[c].tok, calls[c].cached)
    BY Zenon, <1>1, <1>3 DEF CallFacts
  <2>3. ~holdsKey(calls[c].cached, calls[c].tok.kid)
    BY Zenon, <1>2, <2>2 DEF verifyWith, holdsKey
  <2>4. ~verifyWith(calls[c].tok, ks) => err /\ ~holdsKey(ks, calls[c].tok.kid)
    BY Zenon, <1>2, <2>1 DEF Fits, verifyWith, holdsKey
  <2> QED
    BY Zenon, <2>1, <2>3, <2>4 DEF Verdict
<1> QED
  BY Zenon, <1>3, EveryAnswer DEF AnsweredWith

\* Every variable of the key set keeps its type, and a waiting caller waits
\* for a fetch that exists (refreshedKeys).
THEOREM KeySetTypes == Spec => []TypeOK
<1>1. Init => KeyInv
  BY KeyInit
<1>2. KeyInv /\ [Next]_vars => KeyInv'
  BY KeyStep
<1>3. KeyInv => TypeOK
  BY Zenon DEF KeyInv
<1> QED
  BY <1>1, <1>2, <1>3, PTL DEF Spec

\* Once NewValidator returned, the cache holds a signing key: prime returns
\* without error only with keys, and runFetch keeps the old keys on failure.
THEOREM ServingKeys == Spec => []ServingHasKeys
<1>1. Init => KeyInv
  BY KeyInit
<1>2. KeyInv /\ [Next]_vars => KeyInv'
  BY KeyStep
<1>3. KeyInv => ServingHasKeys
  BY Zenon DEF KeyInv, CacheFacts, ServingHasKeys
<1> QED
  BY <1>1, <1>2, <1>3, PTL DEF Spec

\* A request that began after a fetch had seen its key withdrawn is never
\* answered "ok" (runFetch replaces the keys; the waiting request gets ks of
\* the fetch it waited for).
THEOREM WithdrawnKeys == Spec => WithdrawnStaysOut
<1>1. Init => KeyInv
  BY KeyInit
<1>2. KeyInv /\ [Next]_vars => KeyInv'
  BY KeyStep
<1>3. KeyInv /\ [Next]_vars =>
        [\A c \in Requests : Answered(c) /\ calls[c].lost => answer' # "ok"]_vars
  BY Zenon, LostNotOk
<1> QED
  BY <1>1, <1>2, <1>3, PTL DEF Spec, WithdrawnStaysOut

\* A genuine token whose key the issuer had published for jwksMinRefresh and
\* one fetch is not called a bad one (VerifySignature, refreshedKeys).
THEOREM NewKeysPickedUp == Spec => PickedUpInTime
<1>1. Init => KeyInv
  BY KeyInit
<1>2. KeyInv /\ [Next]_vars => KeyInv'
  BY KeyStep
<1>3. KeyInv /\ [Next]_vars =>
        [\A c \in Requests :
           Answered(c) /\ calls[c].aged /\ calls[c].tok.signer \in Published
               => answer' # "bad"]_vars
  BY Zenon, AgedNotBad
<1> QED
  BY <1>1, <1>2, <1>3, PTL DEF Spec, PickedUpInTime
=============================================================================
