---------------------------- MODULE HarborClient ----------------------------
(***************************************************************************)
(* Reading robots from Harbor (bridge/controlplane/harbor/client.go: List  *)
(* and GetByName) with the admin credentials of the mounted Secret         *)
(* (bridge/controlplane/admincreds.go), while others create and delete     *)
(* robots and kubelet replaces the Secret's files.                         *)
(*                                                                         *)
(* Every page is a request of its own, and every request first reads the   *)
(* credentials: Readlink of ..data, the username, the password and, after  *)
(* a failed read, Readlink again, each one a step.                         *)
(*                                                                         *)
(* A name is a sequence of the parts that prefixes and names are made of;  *)
(* Sigil stands for the characters a robot name may not contain.           *)
(***************************************************************************)
EXTENDS Integers, Sequences, FiniteSetsExt

CONSTANTS
    Plans,        \* Harbor, its robots at first, and what happens to the two
    robotPrefix,  \* the configured prefix
    Sigil,        \* a part that robotNameRegex refuses
    Names,        \* names that robots are stored under
    Wanted,       \* the names GetByName is asked for
    pageSize, maxPages, adminCredsReadAttempts,
    Incomplete,   \* versions of the Secret that lack a key
    MaxID,        \* bound: Harbor's robot IDs
    MaxVersion,   \* bound: versions of the Secret
    MaxChanges    \* bound: robots created and deleted by others

\* What Harbor prepends to names, and which parameters of a listing it honours.
Harbor == [prefix: Seq(STRING), filter: BOOLEAN, range: BOOLEAN, sort: BOOLEAN]

\* A robot as Harbor stores it; one from before 2.2 is not editable.
Stored == [id: 1..MaxID, name: Names, editable: BOOLEAN]

Plan == [harbor: Harbor, robots: SUBSET Stored,
         versions: 1..MaxVersion, changes: 0..MaxChanges]

NoRobot == [id |-> 0, name |-> <<>>, editable |-> FALSE]
NoName == <<>>

ASSUME HarborClientAssumption ==
    /\ Plans \subseteq Plan /\ Wanted \subseteq Names
    /\ Names \subseteq Seq(STRING) \ {NoName} /\ robotPrefix \in Seq(STRING)
    /\ pageSize \in Nat \ {0} /\ maxPages \in Nat \ {0}
    /\ adminCredsReadAttempts \in Nat \ {0}
    /\ MaxID \in Nat /\ MaxVersion \in Nat /\ MaxChanges \in Nat

\* Harbor's IDs and names are unique, and robotNameRegex matches the name of an
\* editable robot.  A Harbor that honours the range honours the sort.
ASSUME HarborAssumption ==
    \A p \in Plans :
       /\ \A r, s \in p.robots : r.id = s.id \/ r.name = s.name => r = s
       /\ \A r \in p.robots : r.editable => Sigil \notin Range(r.name)
       /\ p.harbor.range => p.harbor.sort

VARIABLES
    plan,     \* the plan; its changes count down
    robots,   \* the robots Harbor stores
    lastID,   \* the highest ID it gave out
    link,     \* the version ..data points to
    dirs,     \* the versions whose directories exist
    call      \* the call of the client

harborVars == <<robots, lastID>>
volumeVars == <<link, dirs>>
vars == <<plan, harborVars, volumeVars, call>>

harbor == plan.harbor

\* name = NoName: List.  A call is one or more listings: the robots whose name
\* is filter (NoName: all), a page at a time.  History: since and walked are
\* the robots there since the call and since the listing began, first the
\* version current when the request began, moved the changes of ..data and
\* faults the failures of Readlink since then.
Call == [at: {"idle", "resolve", "username", "password", "again", "request",
              "listed", "found", "notFound", "mismatch", "refused", "failed"},
         name: Names \cup {NoName}, lookup: {"filtered", "suffix", "scan"},
         filter: Seq(STRING), cursor: 0..MaxID, page: 1..maxPages,
         out: Seq(Stored), hit: Stored \cup {NoRobot},
         attempt: 1..adminCredsReadAttempts, base: 0..MaxVersion,
         user: 0..MaxVersion, pass: 0..MaxVersion,
         since: SUBSET Stored, walked: SUBSET Stored,
         first: 0..MaxVersion, moved: 0..MaxVersion, faults: 0..adminCredsReadAttempts]

Reading == {"resolve", "username", "password", "again"}
Busy == call.at \in Reading \cup {"request"}

-----------------------------------------------------------------------------
(* Names as Harbor reports them and as the client understands them.        *)

WireName(r) == IF r.editable THEN harbor.prefix \o r.name ELSE r.name

\* strings.HasPrefix, HasSuffix and TrimPrefix
HasPrefix(s, prefix) == Len(prefix) <= Len(s) /\ SubSeq(s, 1, Len(prefix)) = prefix

HasSuffix(s, suffix) ==
    Len(suffix) <= Len(s) /\ SubSeq(s, Len(s) - Len(suffix) + 1, Len(s)) = suffix

TrimPrefix(name, prefix) ==
    IF HasPrefix(name, prefix) THEN SubSeq(name, Len(prefix) + 1, Len(name)) ELSE name

Name(r) == TrimPrefix(WireName(r), robotPrefix)

\* fromHarborRobot: Harbor's prefix may be the configured one.
knownPrefix(r) ==
    r.editable => /\ HasPrefix(WireName(r), robotPrefix)
                  /\ Name(r) # <<>> /\ Sigil \notin Range(Name(r))

\* GetByName asks for names without the prefix.
ASSUME WantedAssumption == \A n \in Wanted : TrimPrefix(n, robotPrefix) = n

\* The places in rs of the robots with a name; the first counts.
matchName(rs, name) == {i \in DOMAIN rs : Name(rs[i]) = name}

\* The places of those checkSuffixHit takes for the one stored as name.
suffixHits(rs, name) ==
    {i \in DOMAIN rs : /\ WireName(rs[i]) # robotPrefix \o name
                       /\ HasSuffix(WireName(rs[i]), name)}

-----------------------------------------------------------------------------
(* Harbor (external): the first page of the robots that match.             *)

Matching(filter, cursor) ==
    {r \in robots : /\ harbor.filter /\ filter # NoName => r.name = filter
                    /\ harbor.range => r.id > cursor}

\* Sorted: what has a lower ID than a robot of the page comes before it.  One
\* that ignores sort=id orders as it likes.
Pages(rs) ==
    LET places == 1..Min({pageSize, Cardinality(rs)})
    IN {page \in [places -> rs] :
           /\ \A i, j \in places : page[i] = page[j] => i = j
           /\ harbor.sort => \A i \in places : \A r \in rs :
                 r.id < page[i].id => \E j \in 1..(i - 1) : page[j] = r}

create(name) ==
    /\ plan.changes > 0 /\ lastID < MaxID /\ Sigil \notin Range(name)
    /\ \A r \in robots : r.name # name
    /\ lastID' = lastID + 1
    /\ robots' = robots \cup {[id |-> lastID + 1, name |-> name, editable |-> TRUE]}
    /\ plan' = [plan EXCEPT !.changes = @ - 1]
    /\ UNCHANGED <<volumeVars, call>>

delete(r) ==
    /\ plan.changes > 0
    /\ robots' = robots \ {r}
    /\ call' = IF Busy THEN [call EXCEPT !.since = @ \ {r}, !.walked = @ \ {r}] ELSE call
    /\ plan' = [plan EXCEPT !.changes = @ - 1]
    /\ UNCHANGED <<lastID, volumeVars>>

-----------------------------------------------------------------------------
(* kubelet (external): the new version's directory, ..data by a rename,    *)
(* and only then the old directory.                                        *)

replaceVersion ==
    /\ link < plan.versions /\ dirs = {link}
    /\ link' = link + 1
    /\ dirs' = dirs \cup {link + 1}
    /\ call' = IF Busy THEN [call EXCEPT !.moved = @ + 1] ELSE call
    /\ UNCHANGED <<plan, harborVars>>

removeVersion ==
    /\ dirs # {link}
    /\ dirs' = {link}
    /\ UNCHANGED <<plan, harborVars, link, call>>

-----------------------------------------------------------------------------
(* The credentials of a request.                                           *)

\* listPage: the request asks for the credentials first (sourcedBasicAuth).
Request(c) == [c EXCEPT !.at = "resolve", !.attempt = 1, !.base = 0, !.user = 0,
                        !.pass = 0, !.first = link, !.moved = 0, !.faults = 0]

\* Mutant: one attempt too many.
nextAttemptMore(c) ==
    IF c.attempt <= adminCredsReadAttempts
    THEN [c EXCEPT !.at = "resolve", !.attempt = @ + 1, !.user = 0]
    ELSE [c EXCEPT !.at = "failed"]
\* The loop of readAdminCredsDir.
nextAttempt(c) ==
    IF c.attempt < adminCredsReadAttempts
    THEN [c EXCEPT !.at = "resolve", !.attempt = @ + 1, !.user = 0]
    ELSE [c EXCEPT !.at = "failed"]

resolveDataDir ==
    /\ call.at = "resolve"
    /\ call' = [call EXCEPT !.at = "username", !.base = link]
    /\ UNCHANGED <<plan, harborVars, volumeVars>>

\* Readlink fails for another reason than a missing ..data: before the files are
\* read, or after a failed read, where it is no reason to stop either.
resolveFails ==
    /\ call.at \in {"resolve", "again"}
    /\ call' = nextAttempt([call EXCEPT !.faults = @ + 1])
    /\ UNCHANGED <<plan, harborVars, volumeVars>>

\* Mutant: the files are read through the key symlinks.
readVersionLinked(c) == link
\* readAdminCredsFrom: the version the files are read from.
readVersion(c) == c.base

readUsername ==
    /\ call.at = "username"
    /\ call' = IF readVersion(call) \in dirs
               THEN [call EXCEPT !.at = "password", !.user = readVersion(call)]
               ELSE [call EXCEPT !.at = "again"]
    /\ UNCHANGED <<plan, harborVars, volumeVars>>

readPassword ==
    /\ call.at = "password"
    /\ call' = IF readVersion(call) \in dirs \ Incomplete
               THEN [call EXCEPT !.at = "request", !.pass = readVersion(call)]
               ELSE [call EXCEPT !.at = "again"]
    /\ UNCHANGED <<plan, harborVars, volumeVars>>

\* Mutant: a failed read is reported whatever ..data points to now.
resolveAgainOnce ==
    /\ call.at = "again"
    /\ call' = [call EXCEPT !.at = "failed"]
    /\ UNCHANGED <<plan, harborVars, volumeVars>>
\* After a failed read: the error is reported when ..data is what it was.
resolveAgain ==
    /\ call.at = "again"
    /\ call' = IF link = call.base THEN [call EXCEPT !.at = "failed"]
               ELSE nextAttempt(call)
    /\ UNCHANGED <<plan, harborVars, volumeVars>>

-----------------------------------------------------------------------------
(* The calls of the client.                                                *)

\* list, at its first page
listing(c, lookup, filter) ==
    Request([c EXCEPT !.lookup = lookup, !.filter = filter, !.cursor = 0, !.page = 1,
                      !.out = <<>>, !.walked = robots])

NoCall == [at |-> "idle", name |-> NoName, lookup |-> "scan", filter |-> NoName,
           cursor |-> 0, page |-> 1, out |-> <<>>, hit |-> NoRobot, attempt |-> 1,
           base |-> 0, user |-> 0, pass |-> 0, since |-> {}, walked |-> {},
           first |-> 0, moved |-> 0, faults |-> 0]

List ==
    /\ ~Busy
    /\ call' = listing([NoCall EXCEPT !.since = robots], "scan", NoName)
    /\ UNCHANGED <<plan, harborVars, volumeVars>>

GetByName(name) ==
    /\ ~Busy
    /\ call' = listing([NoCall EXCEPT !.name = name, !.since = robots], "filtered", name)
    /\ UNCHANGED <<plan, harborVars, volumeVars>>

\* The call returns: at says what, hit or out is the robot or the listing.
Return(c, at) == [NoCall EXCEPT !.at = at, !.name = c.name, !.out = c.out, !.hit = c.hit,
                                !.since = c.since, !.walked = c.walked]

scan(c) == listing(c, "scan", NoName)

\* Mutant: the first hit is taken as proof.
checkSuffixHitOnce(c) ==
    LET hits == suffixHits(c.out, c.name)
    IN IF hits = {} THEN scan(c)
       ELSE Return([c EXCEPT !.hit = c.out[Min(hits)]], "mismatch")
\* Mutant: no hit is looked at.
checkSuffixHitNever(c) == scan(c)
\* The filtered listing held no exact match.
checkSuffixHit(c) ==
    LET hits == suffixHits(c.out, c.name)
    IN IF hits = {} THEN scan(c)
       ELSE listing([c EXCEPT !.hit = c.out[Min(hits)]], "suffix", Name(c.out[Min(hits)]))

\* list returned c.out.
listed(c) ==
    LET exact == matchName(c.out, c.name) IN
    IF c.name = NoName THEN Return(c, "listed")
    ELSE CASE c.lookup = "suffix" ->
                 IF \E r \in Range(c.out) : r.id = c.hit.id THEN scan(c)
                 ELSE Return(c, "mismatch")
           [] c.lookup # "suffix" /\ exact # {} ->
                 Return([c EXCEPT !.hit = c.out[Min(exact)]], "found")
           [] c.lookup = "filtered" /\ exact = {} -> checkSuffixHit(c)
           [] c.lookup = "scan" /\ exact = {} -> Return(c, "notFound")

Increasing(page, cursor, i) ==
    page[i].id > IF i = 1 THEN cursor ELSE page[i - 1].id

\* The places of a page where list gives up.
Bad(c, page) ==
    {i \in DOMAIN page : ~Increasing(page, c.cursor, i) \/ ~knownPrefix(page[i])}

giveUp(c, page) ==
    LET i == Min(Bad(c, page))
    IN Return([c EXCEPT !.hit = page[i]],
              IF Increasing(page, c.cursor, i) THEN "mismatch" ELSE "refused")

Add(c, page) ==
    [c EXCEPT !.out = @ \o page, !.cursor = IF page = <<>> THEN @ ELSE page[Len(page)].id]

NextPage(c) == Request([c EXCEPT !.page = @ + 1])

\* Mutant: a page that does not increase is taken all the same.
readPageAnyOrder(c, page) ==
    CASE Len(page) < pageSize -> listed(Add(c, page))
      [] Len(page) >= pageSize /\ c.page = maxPages -> Return(c, "refused")
      [] Len(page) >= pageSize /\ c.page < maxPages -> NextPage(Add(c, page))
\* Mutant: past maxPages the listing starts over.
readPageStartsOver(c, page) ==
    CASE Bad(c, page) # {} -> giveUp(c, page)
      [] Bad(c, page) = {} /\ Len(page) < pageSize -> listed(Add(c, page))
      [] Bad(c, page) = {} /\ Len(page) >= pageSize /\ c.page = maxPages ->
            listing(c, c.lookup, c.filter)
      [] Bad(c, page) = {} /\ Len(page) >= pageSize /\ c.page < maxPages ->
            NextPage(Add(c, page))
\* The loop of list over one answer.
readPage(c, page) ==
    CASE Bad(c, page) # {} -> giveUp(c, page)
      [] Bad(c, page) = {} /\ Len(page) < pageSize -> listed(Add(c, page))
      [] Bad(c, page) = {} /\ Len(page) >= pageSize /\ c.page = maxPages ->
            Return(c, "refused")
      [] Bad(c, page) = {} /\ Len(page) >= pageSize /\ c.page < maxPages ->
            NextPage(Add(c, page))

listPage ==
    /\ call.at = "request"
    /\ \E page \in Pages(Matching(call.filter, call.cursor)) :
          call' = readPage(call, page)
    /\ UNCHANGED <<plan, harborVars, volumeVars>>

\* The request is not answered in time, or with an error.
listFails ==
    /\ call.at = "request"
    /\ call' = [call EXCEPT !.at = "failed"]
    /\ UNCHANGED <<plan, harborVars, volumeVars>>

-----------------------------------------------------------------------------

Init ==
    /\ plan \in Plans
    /\ robots = plan.robots
    /\ lastID = Max({r.id : r \in robots} \cup {0})
    /\ link = 1 /\ dirs = {1}
    /\ call = NoCall

Client == \/ resolveDataDir \/ readUsername \/ readPassword \/ resolveAgain
          \/ resolveFails \/ listPage \/ listFails

Next == \/ Client
        \/ List
        \/ \E n \in Wanted : GetByName(n)
        \/ \E n \in Names : create(n)
        \/ \E r \in robots : delete(r)
        \/ replaceVersion
        \/ removeVersion

Spec == Init /\ [][Next]_vars

\* The goroutine of a call keeps running, and DefaultCallTimeout ends a request
\* that is not answered.
LiveSpec == Spec /\ WF_vars(Client)

-----------------------------------------------------------------------------

\* The variables keep their types.
TypeOK ==
    /\ plan \in Plan
    /\ robots \subseteq Stored /\ lastID \in 0..MaxID
    /\ link \in 1..MaxVersion /\ dirs \subseteq 1..MaxVersion
    /\ call \in Call

\* A listing that list returns holds every robot that was there all the time it
\* took, and none twice, whatever was created and deleted meanwhile: the cursor
\* is why.  A Harbor that ignores the range, or the range and the sort, makes
\* the listing fail; one that ignores the sort alone can go unnoticed.
ListingComplete ==
    call.at = "listed" =>
       /\ call.walked \subseteq Range(call.out)
       /\ \A i, j \in DOMAIN call.out : call.out[i].id = call.out[j].id => i = j

\* GetByName says a name is not found only if no robot was stored under it all
\* the time of the call: otherwise ensureRobot creates it and gets a 409, again
\* and again.  Nothing tells the robot from others where Harbor ignores the
\* filter and prepends another prefix.
NotFoundMeansAbsent ==
    call.at = "notFound" /\ (harbor.filter \/ harbor.prefix = robotPrefix) =>
       \A r \in call.since : r.editable => r.name # call.name

\* A prefix mismatch, which tells the operator to change the configuration, is
\* reported only where Harbor's prefix is another one, or when the robot the
\* second lookup missed was deleted between the two.
MismatchIsReal ==
    call.at = "mismatch" => \/ harbor.prefix # robotPrefix
                            \/ call.hit \notin call.since

\* A request is authenticated with a username and a password of one version of
\* the Secret, and one that was current at some moment of the request.
CredentialsOfOneVersion ==
    call.at = "request" => call.user = call.pass /\ call.user >= call.first

\* Reading the credentials fails for a swap of the volume only after a swap (or
\* a failed Readlink) for every attempt.
ReadSurvivesSwaps ==
    call.at = "failed" /\ call.pass = 0 /\ call.base \notin Incomplete =>
       call.moved + call.faults >= adminCredsReadAttempts

\* Every call of the client returns: the listings of a call end, however many
\* robots are created behind the cursor.
CallReturns == Busy ~> ~Busy
=============================================================================
