------------------------- MODULE HarborClientProofs -------------------------
(***************************************************************************)
(* The safety properties of HarborClient for any page size, any number of  *)
(* robots, pages, attempts and versions.  A listing is complete because    *)
(* what has an ID up to the cursor was listed (WalkInv), an answer of      *)
(* GetByName is right because of what the listings before it left out      *)
(* (LookupInv), and the credentials are those of one version because only  *)
(* the directory that ..data named is read (VolumeInv).                    *)
(***************************************************************************)
EXTENDS HarborClient, FiniteSetTheorems, SequenceTheorems, TLAPS

(***************************************************************************)
(* Least and greatest numbers.                                             *)
(***************************************************************************)
Less == {p \in Nat \X Nat : p[1] < p[2]}

LEMMA LessWellFounded == IsWellFoundedOn(Less, Nat)
  BY NatLessThanWellFounded DEF OpToRel, Less

\* Every set of numbers has a least one.
LEMMA Least ==
    ASSUME NEW S \in SUBSET Nat, S # {}
    PROVE  \E m \in S : \A n \in S : m <= n
  <1>1. PICK m \in S : \A n \in S : <<n, m>> \notin Less
    BY Zenon, LessWellFounded, WFMin
  <1>2. ASSUME NEW n \in S, n < m PROVE FALSE
    <2>1. <<n, m>> \in Less
      BY <1>2 DEF Less
    <2> QED BY <1>1, <2>1
  <1> QED BY <1>2

LEMMA MinIsLeast ==
    ASSUME NEW S \in SUBSET Nat, S # {}
    PROVE  Min(S) \in S /\ \A n \in S : Min(S) <= n
  <1>1. \E m \in S : \A n \in S : m =< n
    BY Least
  <1> QED BY Zenon, <1>1 DEF Min

LEMMA MinOfTwo ==
    ASSUME NEW a \in Nat, NEW b \in Nat
    PROVE  Min({a, b}) = IF a <= b THEN a ELSE b
  <1>1. Min({a, b}) \in {a, b} /\ \A n \in {a, b} : Min({a, b}) <= n
    BY MinIsLeast
  <1> QED BY <1>1

LEMMA MaxIsGreatest ==
    ASSUME NEW k \in Nat, NEW S \in SUBSET (0..k), S # {}
    PROVE  Max(S) \in S /\ \A n \in S : n <= Max(S)
  <1> DEFINE T == {n \in 0..k : k - n \in S}
  <1>1. T \in SUBSET Nat /\ T # {}
    <2>1. PICK x \in S : TRUE
      BY Zenon
    <2>2. k - x \in T /\ T \subseteq Nat
      BY <2>1
    <2> HIDE DEF T
    <2> QED BY Zenon, <2>2
  <1>2. PICK m \in T : \A n \in T : m <= n
    BY Zenon, <1>1, Least
  <1>3. ASSUME NEW y \in S PROVE k - m >= y
    <2>1. k - y \in T
      OBVIOUS
    <2>2. m <= k - y
      BY Zenon, <1>2, <2>1
    <2> QED BY <2>2
  <1>4. \E x \in S : \A y \in S : x >= y
    BY <1>3
  <1>5. Max(S) \in S /\ \A y \in S : Max(S) >= y
    BY Zenon, <1>4 DEF Max
  <1> QED BY <1>5

LEMMA IDTypes ==
    /\ \A r \in Stored : r.id \in Nat /\ r.id \in 0..MaxID
    /\ \A c \in Call : c.cursor \in Nat
  <1>1. \A r \in Stored : r.id \in Nat /\ r.id \in 0..MaxID
    BY HarborClientAssumption DEF Stored
  <1>2. \A c \in Call : c.cursor \in Nat
    BY HarborClientAssumption DEF Call
  <1> QED BY Zenon, <1>1, <1>2

\* A sequence of robots whose IDs grow at every place grows from any place to
\* any later one.
LEMMA Ascends ==
    ASSUME NEW s \in Seq(Stored),
           \A i \in 2..Len(s) : s[i - 1].id < s[i].id
    PROVE  \A i, j \in DOMAIN s : i < j => s[i].id < s[j].id
  <1> DEFINE Wrong(i, j) == i < j /\ ~(s[i].id < s[j].id)
             B == {j \in DOMAIN s : \E i \in DOMAIN s : Wrong(i, j)}
  <1>a. DOMAIN s = 1..Len(s) /\ Len(s) \in Nat /\ \A i \in 1..Len(s) : s[i] \in Stored
    OBVIOUS
  <1>0. DOMAIN s = 1..Len(s) /\ Len(s) \in Nat /\ \A i \in DOMAIN s : s[i].id \in Nat
    BY Zenon, <1>a, IDTypes
  <1>1. SUFFICES ASSUME B # {} PROVE FALSE
    OBVIOUS
  <1>2. B \in SUBSET Nat
    BY <1>0
  <1>3. PICK j \in B : \A k \in B : j <= k
    <2> HIDE DEF B
    <2> QED BY <1>1, <1>2, Least
  <1>4. PICK i \in DOMAIN s : Wrong(i, j)
    OBVIOUS
  <1>5. i \in Nat /\ j \in 2..Len(s) /\ j - 1 \in DOMAIN s /\ ~(j <= j - 1)
    BY <1>0, <1>3, <1>4
  <1>6. j - 1 \notin B
    <2> HIDE DEF B
    <2> QED BY <1>3, <1>5
  <1>7. ~Wrong(i, j - 1) /\ s[j - 1].id < s[j].id
    BY <1>4, <1>5, <1>6
  <1>8. i # j - 1
    BY <1>4, <1>7
  <1> QED BY <1>0, <1>4, <1>5, <1>7, <1>8

(***************************************************************************)
(* What a page holds.                                                      *)
(***************************************************************************)
Unique(rs) == \A r, s \in rs : r.id = s.id \/ r.name = s.name => r = s

LEMMA FiniteRobots ==
    ASSUME NEW rs \in SUBSET Stored, Unique(rs)
    PROVE  IsFiniteSet(rs) /\ Cardinality(rs) \in Nat
  <1> DEFINE f == [r \in rs |-> r.id]
  <1>1. f \in Injection(rs, 1..MaxID)
    BY DEF Injection, IsInjective, Unique, Stored
  <1>2. IsFiniteSet(1..MaxID)
    BY HarborClientAssumption, FS_Interval
  <1> QED BY Zenon, <1>1, <1>2, FS_Injection, FS_CardinalityType

\* A short page holds all of rs; a sorted one all up to its last robot.
LEMMA PageFacts ==
    ASSUME NEW rs \in SUBSET Stored, Unique(rs), NEW page \in Pages(rs)
    PROVE  /\ page \in Seq(Stored) /\ Range(page) \subseteq rs
           /\ Len(page) < pageSize => rs \subseteq Range(page)
           /\ page # <<>> /\ harbor.sort =>
                 \A r \in rs : r.id <= page[Len(page)].id => r \in Range(page)
  <1> DEFINE n == Min({pageSize, Cardinality(rs)})
  <1>1. IsFiniteSet(rs) /\ Cardinality(rs) \in Nat /\ pageSize \in Nat
    BY FiniteRobots, HarborClientAssumption
  <1>2. n = IF pageSize <= Cardinality(rs) THEN pageSize ELSE Cardinality(rs)
    BY <1>1, MinOfTwo
  <1>3. n \in Nat
    BY <1>1, <1>2
  <1>4. /\ page \in [1..n -> rs]
        /\ \A i, j \in 1..n : page[i] = page[j] => i = j
        /\ harbor.sort => \A i \in 1..n : \A r \in rs :
              r.id < page[i].id => \E j \in 1..(i - 1) : page[j] = r
    BY Zenon DEF Pages
  <1> HIDE DEF n
  <1>5. page \in Seq(rs) /\ page \in Seq(Stored) /\ Len(page) = n /\ DOMAIN page = 1..n
    BY <1>3, <1>4
  <1>6. Range(page) \subseteq rs
    BY <1>4, <1>5 DEF Range
  <1>7. ASSUME Len(page) < pageSize PROVE rs \subseteq Range(page)
    <2>1. n = Cardinality(rs)
      BY <1>1, <1>2, <1>3, <1>5, <1>7
    <2>2. page \in Injection(1..n, rs)
      BY Zenon, <1>4 DEF Injection, IsInjective
    <2>3. Cardinality(1..n) = n
      BY <1>3, FS_Interval
    <2>4. page \in Surjection(1..n, rs)
      BY Zenon, <1>1, <2>1, <2>2, <2>3, FS_Injection
    <2> QED BY Zenon, <1>5, <2>4 DEF Surjection, Range
  <1>8. ASSUME page # <<>>, harbor.sort, NEW r \in rs, r.id <= page[Len(page)].id
        PROVE  r \in Range(page)
    <2>1. n \in 1..n /\ page[Len(page)] = page[n] /\ page[n] \in rs
      BY <1>3, <1>4, <1>5, <1>8
    <2>2. CASE r.id = page[n].id
      BY Zenon, <1>5, <2>1, <2>2 DEF Unique, Range
    <2>3. CASE r.id # page[n].id
      <3>1. r.id < page[n].id
        BY <1>8, <2>1, <2>3 DEF Stored
      <3>2. PICK j \in 1..(n - 1) : page[j] = r
        BY Zenon, <1>4, <1>8, <2>1, <3>1
      <3>3. j \in 1..n
        BY <1>3
      <3> QED BY Zenon, <1>5, <3>2, <3>3 DEF Range
    <2> QED BY Zenon, <2>2, <2>3
  <1> QED BY Zenon, <1>5, <1>6, <1>7, <1>8
(***************************************************************************)
(* The invariant.                                                          *)
(***************************************************************************)
\* Harbor.
StoreInv ==
    /\ harbor.range => harbor.sort
    /\ Unique(robots)
    /\ \A r \in robots : r.id <= lastID /\ (r.editable => Sigil \notin Range(r.name))

\* A swap moves ..data from a directory to a later one, and a read through ..data
\* fails only after a swap, for a version without a key, or for a fault.
VolumeInv ==
    /\ link <= plan.versions /\ link \in dirs
    /\ Busy => /\ call.first \in 1..link /\ call.first + call.moved = link
               /\ call.faults < call.attempt
    /\ call.at = "resolve" => call.attempt - 1 <= call.faults + call.moved
    /\ Busy /\ call.at # "resolve" =>
          /\ call.base \in call.first..link
          /\ call.attempt - 1 <= call.faults + (call.base - call.first)
    /\ call.at = "password" => call.user = call.base
    /\ call.at = "again" => call.base # link \/ call.base \in Incomplete
    /\ call.at = "request" => call.user = call.base /\ call.pass = call.base

Matches(r, c) == harbor.filter /\ c.filter # NoName => r.name = c.filter

\* h was stored, and no robot since has its ID.
Seen(h) == h \in Stored /\ h.id <= lastID /\ \A r \in robots : r.id = h.id => r = h

\* The listing of c so far.
WalkInv(c) ==
    /\ c.since \subseteq c.walked /\ c.walked \subseteq robots
    /\ harbor.range => \A r \in c.walked : r.id <= c.cursor /\ Matches(r, c) => r \in Range(c.out)
    /\ \A i, j \in DOMAIN c.out : i < j => c.out[i].id < c.out[j].id
    /\ \A h \in Range(c.out) : /\ h.id <= c.cursor /\ Seen(h)
                               /\ knownPrefix(h) /\ Matches(h, c)
                               /\ \A r \in c.since : h.name = r.name => h = r

\* What the lookups of c before this one found out.
HitInv(c) ==
    /\ Seen(c.hit) /\ knownPrefix(c.hit) /\ Name(c.hit) # c.name
    /\ c.filter = Name(c.hit)
    /\ harbor.filter => c.hit.name = c.name
    /\ \A r \in c.since : c.hit.name = r.name => c.hit = r
    /\ \A h \in Range(c.out) : h.id = c.hit.id => h = c.hit

NoneStored(c) == \A r \in c.since : r.editable => r.name # c.name

LookupInv(c) ==
    /\ c.name \in Wanted \cup {NoName}
    /\ c.name = NoName => c.lookup = "scan"
    /\ c.lookup = "scan" => c.filter = NoName
    /\ c.lookup = "filtered" => c.filter = c.name
    /\ c.lookup = "suffix" => HitInv(c)
    /\ c.name # NoName /\ c.lookup = "scan" /\ harbor.filter => NoneStored(c)

\* What c returned.
AnswerInv(c) ==
    /\ c.at = "listed" =>
          /\ c.walked \subseteq Range(c.out)
          /\ \A i, j \in DOMAIN c.out : c.out[i].id = c.out[j].id => i = j
    /\ c.at = "notFound" /\ (harbor.filter \/ harbor.prefix = robotPrefix) => NoneStored(c)
    /\ c.at = "mismatch" => harbor.prefix # robotPrefix \/ c.hit \notin c.since

BusyAt(c) == c.at \in Reading \cup {"request"}

CallInv(c) == c \in Call /\ AnswerInv(c) /\ (BusyAt(c) => WalkInv(c) /\ LookupInv(c))

ClientInv ==
    /\ TypeOK /\ StoreInv /\ VolumeInv /\ CallInv(call)
    /\ CredentialsOfOneVersion /\ ReadSurvivesSwaps

(***************************************************************************)
(* Names.                                                                  *)
(***************************************************************************)
LEMMA Trimmed ==
    ASSUME NEW p \in Seq(STRING), NEW n \in Seq(STRING)
    PROVE  HasPrefix(p \o n, p) /\ TrimPrefix(p \o n, p) = n
  <1>1. HasPrefix(p \o n, p)
    BY DEF HasPrefix
  <1>2. SubSeq(p \o n, Len(p) + 1, Len(p \o n)) = n
    OBVIOUS
  <1> QED BY Zenon, <1>1, <1>2 DEF TrimPrefix

LEMMA Suffixed ==
    ASSUME NEW p \in Seq(STRING), NEW n \in Seq(STRING)
    PROVE  HasSuffix(p \o n, n)
  BY DEF HasSuffix

LEMMA NameTypes ==
    ASSUME TypeOK, NEW r \in Stored
    PROVE  WireName(r) \in Seq(STRING) /\ Name(r) \in Seq(STRING) /\ r.name \in Seq(STRING)
  <1>1. harbor.prefix \in Seq(STRING) /\ robotPrefix \in Seq(STRING) /\ r.name \in Seq(STRING)
    BY HarborClientAssumption DEF TypeOK, Plan, Harbor, harbor, Stored
  <1>2. WireName(r) \in Seq(STRING)
    BY Zenon, <1>1, ConcatProperties DEF WireName
  <1>3. ASSUME NEW w \in Seq(STRING) PROVE TrimPrefix(w, robotPrefix) \in Seq(STRING)
    <2>1. \A i \in (Len(robotPrefix) + 1)..Len(w) : w[i] \in STRING
      BY <1>1
    <2>2. Len(robotPrefix) + 1 \in Int /\ Len(w) \in Int
      BY <1>1
    <2>3. SubSeq(w, Len(robotPrefix) + 1, Len(w)) \in Seq(STRING)
      BY Zenon, <2>1, <2>2, SubSeqProperties
    <2> QED BY Zenon, <2>3 DEF TrimPrefix
  <1> QED BY Zenon, <1>1, <1>2, <1>3 DEF Name

\* With Harbor's prefix configured, a name is the one stored.
LEMMA SamePrefix ==
    ASSUME TypeOK, StoreInv, harbor.prefix = robotPrefix, NEW r \in Stored, r.editable
    PROVE  /\ Name(r) = r.name
           /\ r \in robots => knownPrefix(r)
  <1>1. robotPrefix \in Seq(STRING) /\ r.name \in Seq(STRING) /\ r.name # <<>>
    BY HarborClientAssumption DEF Stored, NoName
  <1>2. WireName(r) = robotPrefix \o r.name
    BY Zenon DEF WireName
  <1>3. Name(r) = r.name /\ HasPrefix(WireName(r), robotPrefix)
    BY Zenon, <1>1, <1>2, Trimmed DEF Name
  <1> QED BY Zenon, <1>1, <1>3 DEF knownPrefix, StoreInv

\* A robot that carries name after Harbor's prefix is an exact match or a hit.
LEMMA MatchOrHit ==
    ASSUME TypeOK, NEW r \in Stored, r.editable, r.name \in Wanted, Name(r) # r.name
    PROVE  WireName(r) # robotPrefix \o r.name /\ HasSuffix(WireName(r), r.name)
  <1>1. robotPrefix \in Seq(STRING) /\ r.name \in Seq(STRING) /\ harbor.prefix \in Seq(STRING)
    BY HarborClientAssumption DEF Stored, TypeOK, Plan, Harbor, harbor
  <1>2. WireName(r) = harbor.prefix \o r.name
    BY Zenon DEF WireName
  <1>3. WireName(r) # robotPrefix \o r.name
    BY Zenon, <1>1, Trimmed DEF Name
  <1> QED BY Zenon, <1>1, <1>2, <1>3, Suffixed

(***************************************************************************)
(* The client's updates of a call.                                         *)
(***************************************************************************)
\* d has the listing and the lookup of c.
Kept(d, c) ==
    /\ d.name = c.name /\ d.lookup = c.lookup /\ d.filter = c.filter /\ d.cursor = c.cursor
    /\ d.out = c.out /\ d.hit = c.hit
    /\ d.since = c.since /\ d.walked = c.walked

LEMMA KeptInv ==
    ASSUME NEW c, NEW d, Kept(d, c), WalkInv(c), LookupInv(c)
    PROVE  WalkInv(d) /\ LookupInv(d)
  <1>1. WalkInv(d)
    BY Zenon DEF WalkInv, Kept, Matches
  <1>2. HitInv(c) => HitInv(d)
    BY Zenon DEF HitInv, Kept
  <1>3. NoneStored(c) => NoneStored(d)
    BY Zenon DEF NoneStored, Kept
  <1>4. LookupInv(d)
    BY Zenon, <1>2, <1>3 DEF LookupInv, Kept
  <1> QED BY Zenon, <1>1, <1>4

\* c is about to read the credentials.
Fresh(c) ==
    /\ c.at = "resolve" /\ c.attempt = 1 /\ c.first = link
    /\ c.moved = 0 /\ c.faults = 0

Answers == {"listed", "found", "notFound", "mismatch", "refused"}

LEMMA NoCallType == NoCall \in Call
  <1>1. 0 \in 0..MaxID /\ 0 \in 0..MaxVersion /\ 1 \in 1..maxPages
        /\ 1 \in 1..adminCredsReadAttempts /\ 0 \in 0..adminCredsReadAttempts
    BY HarborClientAssumption
  <1>2. NoName \in Seq(STRING) /\ <<>> \in Seq(Stored)
    BY DEF NoName
  <1> QED BY ZenonT(30), <1>1, <1>2 DEF NoCall, Call

LEMMA RequestFacts ==
    ASSUME TypeOK, NEW c \in Call
    PROVE  Request(c) \in Call /\ Kept(Request(c), c) /\ Fresh(Request(c))
  <1>1. 0 \in 0..MaxVersion /\ link \in 0..MaxVersion
        /\ 1 \in 1..adminCredsReadAttempts /\ 0 \in 0..adminCredsReadAttempts
    BY HarborClientAssumption DEF TypeOK
  <1> QED BY ZenonT(20), <1>1 DEF Request, Call, Kept, Fresh

LEMMA ReturnFacts ==
    ASSUME NEW c \in Call, NEW at \in Answers
    PROVE  /\ Return(c, at) \in Call /\ Return(c, at).at = at
           /\ Return(c, at).name = c.name /\ Return(c, at).out = c.out
           /\ Return(c, at).hit = c.hit /\ Return(c, at).since = c.since
           /\ Return(c, at).walked = c.walked
  BY ZenonT(20), NoCallType DEF Return, Call, Answers

LEMMA NumberFacts ==
    ASSUME NEW c \in Call, NEW n \in 1..maxPages
    PROVE  [c EXCEPT !.page = n] \in Call /\ Kept([c EXCEPT !.page = n], c)
  BY ZenonT(20) DEF Call, Kept

LEMMA HitFacts ==
    ASSUME NEW c \in Call, NEW h \in Stored
    PROVE  LET d == [c EXCEPT !.hit = h]
           IN  /\ d \in Call /\ d.hit = h /\ d.name = c.name /\ d.out = c.out
               /\ d.since = c.since /\ d.walked = c.walked /\ d.lookup = c.lookup
  BY ZenonT(20) DEF Call

\* d is a listing of c that begins.
Begun(d, c, l, f) ==
    /\ d \in Call /\ Fresh(d)
    /\ d.name = c.name /\ d.hit = c.hit /\ d.since = c.since
    /\ d.lookup = l /\ d.filter = f /\ d.cursor = 0
    /\ d.out = <<>> /\ d.walked = robots

LEMMA ListingFacts ==
    ASSUME TypeOK, NEW c \in Call, NEW l \in {"filtered", "suffix", "scan"},
           NEW f \in Seq(STRING)
    PROVE  Begun(listing(c, l, f), c, l, f)
  <1> DEFINE e == [c EXCEPT !.lookup = l, !.filter = f, !.cursor = 0, !.page = 1,
                            !.out = <<>>, !.walked = robots]
  <1>1. 0 \in 0..MaxID /\ 1 \in 1..maxPages /\ <<>> \in Seq(Stored) /\ robots \in SUBSET Stored
    BY HarborClientAssumption DEF TypeOK
  <1>2. /\ e \in Call /\ e.name = c.name /\ e.hit = c.hit /\ e.since = c.since
        /\ e.lookup = l /\ e.filter = f /\ e.cursor = 0
        /\ e.out = <<>> /\ e.walked = robots
    BY ZenonT(20), <1>1 DEF Call
  <1>3. listing(c, l, f) = Request(e)
    BY Zenon DEF listing
  <1> HIDE DEF e
  <1>4. Request(e) \in Call /\ Kept(Request(e), e) /\ Fresh(Request(e))
    BY Zenon, <1>2, RequestFacts
  <1> QED BY Zenon, <1>2, <1>3, <1>4 DEF Kept, Begun

\* A listing starts: nothing was listed yet.
LEMMA ListingWalk ==
    ASSUME TypeOK, NEW d \in Call, d.since \subseteq robots, d.walked = robots,
           d.cursor = 0, d.out = <<>>
    PROVE  WalkInv(d)
  <1>1. \A r \in robots : ~(r.id <= 0)
    BY HarborClientAssumption DEF TypeOK, Stored
  <1>2. DOMAIN d.out = {} /\ Range(d.out) = {}
    BY DEF Range
  <1> QED BY Zenon, <1>1, <1>2 DEF WalkInv

(***************************************************************************)
(* A page is added to a listing.                                           *)
(***************************************************************************)
LEMMA ConcatSet ==
    ASSUME NEW s \in Seq(Stored), NEW t \in Seq(Stored)
    PROVE  Range(s \o t) = Range(s) \cup Range(t)
  <1>1. DOMAIN s = 1..Len(s) /\ DOMAIN t = 1..Len(t) /\ DOMAIN (s \o t) = 1..(Len(s) + Len(t))
        /\ Len(s) \in Nat /\ Len(t) \in Nat
    OBVIOUS
  <1>2. \A i \in 1..(Len(s) + Len(t)) :
           (s \o t)[i] = IF i <= Len(s) THEN s[i] ELSE t[i - Len(s)]
    BY Zenon, ConcatProperties
  <1>3. ASSUME NEW x \in Range(s \o t) PROVE x \in Range(s) \cup Range(t)
    BY <1>1, <1>2 DEF Range
  <1>4. ASSUME NEW x \in Range(s) PROVE x \in Range(s \o t)
    BY <1>1, <1>2 DEF Range
  <1>5. ASSUME NEW x \in Range(t) PROVE x \in Range(s \o t)
    <2>1. PICK i \in 1..Len(t) : x = t[i]
      BY <1>1 DEF Range
    <2>2. i + Len(s) \in 1..(Len(s) + Len(t)) /\ ~(i + Len(s) <= Len(s)) /\ (i + Len(s)) - Len(s) = i
      BY <1>1
    <2>3. (s \o t)[i + Len(s)] = t[i]
      BY <1>2, <2>2
    <2> QED BY Zenon, <1>1, <2>1, <2>2, <2>3 DEF Range
  <1> QED BY Zenon, <1>3, <1>4, <1>5

\* A page without a bad place: its IDs grow from the cursor on.
LEMMA PageAscends ==
    ASSUME NEW c \in Call, NEW page \in Seq(Stored), Bad(c, page) = {}
    PROVE  /\ \A i, j \in DOMAIN page : i < j => page[i].id < page[j].id
           /\ \A i \in DOMAIN page : c.cursor < page[i].id /\ page[i].id <= page[Len(page)].id
           /\ \A h \in Range(page) : knownPrefix(h)
           /\ page # <<>> => page[Len(page)].id \in 0..MaxID
  <1>1. /\ DOMAIN page = 1..Len(page) /\ Len(page) \in Nat
        /\ \A i \in 1..Len(page) : page[i] \in Stored
    OBVIOUS
  <1>2. \A i \in 1..Len(page) : Increasing(page, c.cursor, i) /\ knownPrefix(page[i])
    BY Zenon, <1>1 DEF Bad
  <1>3. \A i \in 1..Len(page) : page[i].id > IF i = 1 THEN c.cursor ELSE page[i - 1].id
    BY Zenon, <1>2 DEF Increasing
  <1>4. \A r \in Stored : r.id \in Nat /\ r.id \in 0..MaxID
    BY Zenon, IDTypes
  <1>5. c.cursor \in Nat
    BY Zenon, IDTypes
  <1>6. \A i \in 1..Len(page) : page[i].id \in Nat
    BY Zenon, <1>1, <1>4
  <1>7. ASSUME NEW i \in 2..Len(page) PROVE page[i - 1].id < page[i].id
    <2>1. i \in 1..Len(page) /\ i - 1 \in 1..Len(page) /\ i # 1
      BY <1>1
    <2> QED BY <1>3, <1>6, <2>1
  <1>8. \A i, j \in DOMAIN page : i < j => page[i].id < page[j].id
    BY Zenon, <1>7, Ascends
  <1>9. ASSUME NEW i \in DOMAIN page
        PROVE  c.cursor < page[i].id /\ page[i].id <= page[Len(page)].id
    <2>1. i \in 1..Len(page) /\ 1 \in 1..Len(page) /\ Len(page) \in 1..Len(page)
      BY <1>1
    <2>2. c.cursor < page[1].id /\ page[1].id \in Nat /\ page[i].id \in Nat
          /\ page[Len(page)].id \in Nat
      BY <1>3, <1>5, <1>6, <2>1
    <2>3. i = 1 \/ page[1].id < page[i].id
      BY <1>1, <1>8, <2>1
    <2>4. i = Len(page) \/ page[i].id < page[Len(page)].id
      BY <1>1, <1>8, <2>1
    <2> QED BY <1>5, <2>2, <2>3, <2>4
  <1>10. ASSUME page # <<>> PROVE page[Len(page)].id \in 0..MaxID
    <2>1. Len(page) \in 1..Len(page)
      BY <1>1, <1>10
    <2> QED BY Zenon, <1>1, <1>4, <2>1
  <1> QED BY Zenon, <1>1, <1>2, <1>8, <1>9, <1>10 DEF Range

LEMMA AddFacts ==
    ASSUME NEW c \in Call, NEW page \in Seq(Stored), Bad(c, page) = {}
    PROVE  LET d == Add(c, page)
           IN  /\ d \in Call /\ d.out = c.out \o page
               /\ d.cursor = IF page = <<>> THEN c.cursor ELSE page[Len(page)].id
               /\ d.name = c.name /\ d.lookup = c.lookup /\ d.filter = c.filter
               /\ d.page = c.page /\ d.hit = c.hit /\ d.since = c.since /\ d.walked = c.walked
  <1> DEFINE o == c.out \o page
             k == IF page = <<>> THEN c.cursor ELSE page[Len(page)].id
  <1>1. k \in 0..MaxID
    BY ZenonT(20), PageAscends DEF Call
  <1>2. c.out \in Seq(Stored)
    BY Zenon DEF Call
  <1>3. o \in Seq(Stored)
    BY Zenon, <1>2, ConcatProperties
  <1>4. Add(c, page) = [c EXCEPT !.out = o, !.cursor = k]
    BY DEF Add, Call
  <1> HIDE DEF o, k
  <1>5. LET d == [c EXCEPT !.out = o, !.cursor = k]
        IN  /\ d \in Call /\ d.out = o /\ d.cursor = k
            /\ d.name = c.name /\ d.lookup = c.lookup /\ d.filter = c.filter
            /\ d.page = c.page /\ d.hit = c.hit /\ d.since = c.since /\ d.walked = c.walked
    BY ZenonT(20), <1>1, <1>3 DEF Call
  <1> QED BY Zenon, <1>4, <1>5 DEF o, k

\* The robots of a page are there when it is answered.
LEMMA PageSeen ==
    ASSUME TypeOK, StoreInv, NEW c \in Call,
           NEW page \in Pages(Matching(c.filter, c.cursor))
    PROVE  /\ page \in Seq(Stored)
           /\ \A h \in Range(page) : h \in robots /\ Seen(h) /\ Matches(h, c)
           /\ \A r \in robots :
                 Matches(r, c) /\ (harbor.range => r.id > c.cursor)
                    /\ (Len(page) < pageSize
                          \/ (harbor.sort /\ page # <<>> /\ r.id <= page[Len(page)].id))
                 => r \in Range(page)
  <1> DEFINE rs == Matching(c.filter, c.cursor)
  <1>1. rs \in SUBSET robots /\ robots \in SUBSET Stored
    BY Zenon DEF Matching, TypeOK
  <1>2. rs \in SUBSET Stored /\ Unique(rs)
    BY Zenon, <1>1 DEF Unique, StoreInv
  <1>3. \A r \in robots : Matches(r, c) /\ (harbor.range => r.id > c.cursor) <=> r \in rs
    BY Zenon DEF Matching, Matches
  <1> HIDE DEF rs
  <1>4. /\ page \in Seq(Stored) /\ Range(page) \subseteq rs
        /\ Len(page) < pageSize => rs \subseteq Range(page)
        /\ page # <<>> /\ harbor.sort =>
              \A r \in rs : r.id <= page[Len(page)].id => r \in Range(page)
    BY Zenon, <1>2, PageFacts DEF rs
  <1>5. \A h \in robots : Seen(h)
    BY Zenon, <1>1 DEF Seen, StoreInv, Unique
  <1> QED BY Zenon, <1>1, <1>3, <1>4, <1>5

LEMMA AddWalk ==
    ASSUME TypeOK, StoreInv, NEW c \in Call, WalkInv(c), LookupInv(c),
           NEW page \in Pages(Matching(c.filter, c.cursor)), Bad(c, page) = {}
    PROVE  /\ WalkInv(Add(c, page)) /\ LookupInv(Add(c, page))
           /\ Len(page) < pageSize =>
                 \A r \in c.walked : Matches(r, c) => r \in Range(c.out \o page)
  <1> DEFINE d == Add(c, page)
  <1>1. page \in Seq(Stored) /\ c.out \in Seq(Stored)
    BY Zenon, PageSeen DEF Call
  <1>2. /\ d \in Call /\ d.out = c.out \o page
        /\ d.cursor = IF page = <<>> THEN c.cursor ELSE page[Len(page)].id
        /\ d.name = c.name /\ d.lookup = c.lookup /\ d.filter = c.filter
        /\ d.hit = c.hit /\ d.since = c.since /\ d.walked = c.walked
    BY Zenon, <1>1, AddFacts
  <1> HIDE DEF d
  <1>3. Range(d.out) = Range(c.out) \cup Range(page)
    BY Zenon, <1>1, <1>2, ConcatSet
  <1>4. c.since \subseteq c.walked /\ c.walked \subseteq robots /\ robots \subseteq Stored
    BY Zenon DEF WalkInv, TypeOK
  <1>5. \A r : Matches(r, d) <=> Matches(r, c)
    BY Zenon, <1>2 DEF Matches
  <1>6. /\ c.cursor \in Nat /\ d.cursor \in Nat /\ \A r \in Stored : r.id \in Nat
        /\ \A i \in DOMAIN page : page[i] \in Stored
        /\ \A i \in DOMAIN c.out : c.out[i] \in Stored
    <2>1. c.cursor \in Nat /\ d.cursor \in Nat /\ \A r \in Stored : r.id \in Nat
      BY Zenon, <1>2, IDTypes
    <2> QED BY ZenonT(30), <1>1, <2>1, ElementOfSeq, LenProperties
  <1>7. /\ \A i, j \in DOMAIN page : i < j => page[i].id < page[j].id
        /\ \A i \in DOMAIN page : c.cursor < page[i].id /\ page[i].id <= page[Len(page)].id
        /\ \A h \in Range(page) : knownPrefix(h)
    BY Zenon, <1>1, PageAscends
  <1>8. \A h \in Range(page) : h \in robots /\ Seen(h) /\ Matches(h, c)
    BY Zenon, PageSeen
  <1>9. /\ \A i, j \in DOMAIN c.out : i < j => c.out[i].id < c.out[j].id
        /\ \A i \in DOMAIN c.out : c.out[i].id <= c.cursor
    BY Zenon DEF WalkInv, Range
  <1>10. ASSUME Len(page) < pageSize, NEW r \in c.walked, Matches(r, c)
         PROVE  r \in Range(d.out)
    <2>1. CASE harbor.range /\ r.id <= c.cursor
      BY Zenon, <1>3, <1>10, <2>1 DEF WalkInv
    <2>2. CASE ~(harbor.range /\ r.id <= c.cursor)
      <3>1. harbor.range => r.id > c.cursor
        BY <1>4, <1>6, <2>2
      <3> QED BY Zenon, <1>3, <1>4, <1>10, <3>1, PageSeen
    <2> QED BY Zenon, <2>1, <2>2
  <1>11. ASSUME harbor.range, NEW r \in c.walked, r.id <= d.cursor, Matches(r, c)
         PROVE  r \in Range(d.out)
    <2>1. CASE r.id <= c.cursor
      BY Zenon, <1>3, <1>11, <2>1 DEF WalkInv
    <2>2. CASE ~(r.id <= c.cursor)
      <3>1. page # <<>> /\ r.id <= page[Len(page)].id /\ r.id > c.cursor
        <4>1. page # <<>> /\ r.id <= page[Len(page)].id
          BY Zenon, <1>2, <1>11, <2>2
        <4> QED BY <1>4, <1>6, <2>2, <4>1
      <3> QED BY Zenon, <1>3, <1>4, <1>11, <3>1, PageSeen DEF StoreInv
    <2> QED BY Zenon, <2>1, <2>2
  <1>12. ASSUME NEW i \in DOMAIN d.out, NEW j \in DOMAIN d.out, i < j
         PROVE  d.out[i].id < d.out[j].id
    <2>1. /\ DOMAIN c.out = 1..Len(c.out) /\ DOMAIN page = 1..Len(page)
          /\ Len(c.out) \in Nat /\ Len(page) \in Nat
          /\ DOMAIN d.out = 1..(Len(c.out) + Len(page))
      BY <1>1, <1>2
    <2>2. \A n \in 1..(Len(c.out) + Len(page)) :
             d.out[n] = IF n <= Len(c.out) THEN c.out[n] ELSE page[n - Len(c.out)]
      <3>1. \A n \in 1..(Len(c.out) + Len(page)) :
               (c.out \o page)[n] = IF n <= Len(c.out) THEN c.out[n] ELSE page[n - Len(c.out)]
        BY Zenon, <1>1, ConcatProperties
      <3> QED BY Zenon, <1>2, <3>1
    <2>3. CASE j <= Len(c.out)
      <3>1. i \in DOMAIN c.out /\ j \in DOMAIN c.out /\ i <= Len(c.out)
        BY <1>12, <2>1, <2>3
      <3> QED BY <1>9, <1>12, <2>1, <2>2, <2>3, <3>1
    <2>4. CASE i <= Len(c.out) /\ ~(j <= Len(c.out))
      <3>1. i \in DOMAIN c.out /\ j - Len(c.out) \in DOMAIN page
        BY <1>12, <2>1, <2>4
      <3>2. d.out[i] = c.out[i] /\ d.out[j] = page[j - Len(c.out)]
        BY Zenon, <2>1, <2>2, <2>4
      <3>3. /\ c.out[i].id <= c.cursor /\ c.cursor < page[j - Len(c.out)].id
            /\ c.out[i].id \in Nat /\ page[j - Len(c.out)].id \in Nat
        BY Zenon, <1>6, <1>7, <1>9, <3>1
      <3> QED BY <1>6, <3>2, <3>3
    <2>5. CASE ~(i <= Len(c.out)) /\ ~(j <= Len(c.out))
      <3>1. /\ i - Len(c.out) \in DOMAIN page /\ j - Len(c.out) \in DOMAIN page
            /\ i - Len(c.out) < j - Len(c.out)
        BY <1>12, <2>1, <2>5
      <3>2. d.out[i] = page[i - Len(c.out)] /\ d.out[j] = page[j - Len(c.out)]
        BY Zenon, <2>1, <2>2, <2>5
      <3> QED BY Zenon, <1>7, <3>1, <3>2
    <2>6. i <= Len(c.out) \/ ~(j <= Len(c.out))
      BY <1>12, <2>1
    <2> QED BY Zenon, <2>3, <2>4, <2>5, <2>6
  <1>13. c.cursor <= d.cursor
    <2>1. CASE page = <<>>
      BY <1>2, <1>6, <2>1
    <2>2. CASE page # <<>>
      <3>1. Len(page) \in DOMAIN page
        BY <1>1, <2>2
      <3> QED BY <1>2, <1>6, <1>7, <2>2, <3>1
    <2> QED BY Zenon, <2>1, <2>2
  <1>14. ASSUME NEW h \in Range(d.out)
         PROVE  /\ h.id <= d.cursor /\ Seen(h) /\ knownPrefix(h) /\ Matches(h, c)
                /\ \A r \in c.since : h.name = r.name => h = r
                /\ c.lookup = "suffix" => (h.id = c.hit.id => h = c.hit)
    <2>1. CASE h \in Range(c.out)
      <3>1. h.id <= c.cursor /\ Seen(h)
        BY Zenon, <2>1 DEF WalkInv
      <3>2. h.id <= d.cursor
        BY <1>6, <1>13, <3>1 DEF Seen
      <3> QED BY Zenon, <2>1, <3>1, <3>2 DEF WalkInv, LookupInv, HitInv
    <2>2. CASE h \in Range(page)
      <3>1. PICK i \in DOMAIN page : h = page[i]
        BY Zenon, <2>2 DEF Range
      <3>2. page # <<>>
        BY <3>1
      <3>3. h.id <= d.cursor
        BY Zenon, <1>2, <1>7, <3>1, <3>2
      <3>4. \A r \in c.since : h.name = r.name => h = r
        BY Zenon, <1>4, <1>8, <2>2 DEF StoreInv, Unique
      <3>5. c.lookup = "suffix" => (h.id = c.hit.id => h = c.hit)
        BY Zenon, <1>8, <2>2 DEF LookupInv, HitInv, Seen
      <3> QED BY Zenon, <1>7, <1>8, <2>2, <3>3, <3>4, <3>5
    <2> QED BY Zenon, <1>3, <1>14, <2>1, <2>2
  <1>15. WalkInv(d)
    BY Zenon, <1>2, <1>4, <1>5, <1>11, <1>12, <1>14 DEF WalkInv
  <1>16. LookupInv(d)
    BY Zenon, <1>2, <1>14 DEF LookupInv, HitInv, NoneStored
  <1> QED BY Zenon, <1>2, <1>10, <1>15, <1>16 DEF d

(***************************************************************************)
(* A listing ended, and the call goes on or returns.                       *)
(***************************************************************************)
Complete(c) == \A r \in c.walked : Matches(r, c) => r \in Range(c.out)

Result(c) == CallInv(c) /\ (Fresh(c) \/ c.at \in Answers)

LEMMA FreshBusy ==
    ASSUME NEW c \in Call, Fresh(c), WalkInv(c), LookupInv(c)
    PROVE  Result(c)
  BY Zenon DEF Result, CallInv, AnswerInv, Fresh

LEMMA AnswerResult ==
    ASSUME NEW c \in Call, c.at \in Answers, AnswerInv(c)
    PROVE  Result(c)
  BY Zenon DEF Result, CallInv, BusyAt, Reading, Answers

LEMMA ScanResult ==
    ASSUME TypeOK, NEW c \in Call, c.since \subseteq robots, c.name \in Wanted,
           harbor.filter => NoneStored(c)
    PROVE  Result(scan(c))
  <1> DEFINE d == listing(c, "scan", NoName)
  <1>1. NoName \in Seq(STRING)
    BY DEF NoName
  <1>2. /\ d \in Call /\ Fresh(d) /\ d.name = c.name /\ d.since = c.since
        /\ d.lookup = "scan" /\ d.filter = NoName /\ d.cursor = 0
        /\ d.out = <<>> /\ d.walked = robots
    <2>1. Begun(d, c, "scan", NoName)
      BY Zenon, <1>1, ListingFacts
    <2> QED BY Zenon, <2>1 DEF Begun
  <1>3. scan(c) = d
    BY Zenon DEF scan
  <1> HIDE DEF d
  <1>4. WalkInv(d)
    BY Zenon, <1>2, ListingWalk
  <1>5. LookupInv(d)
    BY Zenon, <1>2 DEF LookupInv, NoneStored
  <1> QED BY Zenon, <1>2, <1>3, <1>4, <1>5, FreshBusy

\* The first of some places.
LEMMA FirstPlace ==
    ASSUME NEW s \in Seq(Stored), NEW S \in SUBSET DOMAIN s, S # {}
    PROVE  Min(S) \in S /\ Min(S) \in DOMAIN s /\ s[Min(S)] \in Stored /\ s[Min(S)] \in Range(s)
  <1>1. DOMAIN s = 1..Len(s) /\ Len(s) \in Nat /\ \A i \in DOMAIN s : s[i] \in Stored
    OBVIOUS
  <1>2. S \in SUBSET Nat
    BY <1>1
  <1>3. Min(S) \in S
    BY Zenon, <1>2, MinIsLeast
  <1> QED BY Zenon, <1>1, <1>3 DEF Range

LEMMA SuffixHitResult ==
    ASSUME TypeOK, StoreInv, NEW c \in Call, WalkInv(c), LookupInv(c), Complete(c),
           c.name \in Wanted, c.lookup = "filtered", matchName(c.out, c.name) = {}
    PROVE  Result(checkSuffixHit(c))
  <1> DEFINE hits == suffixHits(c.out, c.name)
  <1>1. /\ c.out \in Seq(Stored) /\ c.filter = c.name /\ c.since \subseteq c.walked
        /\ c.walked \subseteq robots /\ robots \subseteq Stored /\ c.name # NoName
        /\ \A i \in DOMAIN c.out : Name(c.out[i]) # c.name
    <2>1. c.name # NoName
      BY HarborClientAssumption
    <2> QED BY Zenon, <2>1 DEF Call, LookupInv, WalkInv, TypeOK, matchName
  <1>2. CASE hits = {}
    <2>1. ASSUME harbor.filter, NEW r \in c.since, r.editable, r.name = c.name PROVE FALSE
      <3>1. r \in Stored /\ r \in Range(c.out)
        BY Zenon, <1>1, <2>1 DEF Complete, Matches
      <3>2. PICK i \in DOMAIN c.out : c.out[i] = r
        BY Zenon, <3>1 DEF Range
      <3>3. WireName(r) # robotPrefix \o c.name /\ HasSuffix(WireName(r), c.name)
        BY Zenon, <1>1, <2>1, <3>1, <3>2, MatchOrHit
      <3> QED BY Zenon, <1>2, <3>2, <3>3 DEF suffixHits
    <2>2. checkSuffixHit(c) = scan(c)
      BY Zenon, <1>2 DEF checkSuffixHit
    <2> QED BY Zenon, <1>1, <2>1, <2>2, ScanResult DEF NoneStored
  <1>3. CASE hits # {}
    <2> DEFINE h == c.out[Min(hits)]
               e == [c EXCEPT !.hit = h]
               d == listing(e, "suffix", Name(h))
    <2>1. h \in Stored /\ h \in Range(c.out) /\ Name(h) # c.name
      <3>1. hits \in SUBSET DOMAIN c.out
        BY Zenon DEF suffixHits
      <3> QED BY Zenon, <1>1, <1>3, <3>1, FirstPlace
    <2>2. checkSuffixHit(c) = d
      BY Zenon, <1>3 DEF checkSuffixHit
    <2>3. Name(h) \in Seq(STRING)
      BY Zenon, <2>1, NameTypes
    <2> HIDE DEF h
    <2>4. e \in Call /\ e.hit = h /\ e.name = c.name /\ e.since = c.since
      BY Zenon, <2>1, HitFacts
    <2> HIDE DEF e
    <2>5. /\ d \in Call /\ Fresh(d) /\ d.name = e.name /\ d.hit = e.hit /\ d.since = e.since
          /\ d.lookup = "suffix" /\ d.filter = Name(h) /\ d.cursor = 0
          /\ d.out = <<>> /\ d.walked = robots
      <3>1. Begun(d, e, "suffix", Name(h))
        BY Zenon, <2>3, <2>4, ListingFacts
      <3> QED BY Zenon, <3>1 DEF Begun
    <2> HIDE DEF d
    <2>6. WalkInv(d)
      BY Zenon, <1>1, <2>4, <2>5, ListingWalk
    <2>7. /\ Seen(h) /\ knownPrefix(h) /\ (harbor.filter => h.name = c.name)
          /\ \A r \in c.since : h.name = r.name => h = r
      BY Zenon, <1>1, <2>1 DEF WalkInv, Matches
    <2>8. Range(d.out) = {}
      BY <2>5 DEF Range
    <2>9. HitInv(d)
      BY Zenon, <2>1, <2>4, <2>5, <2>7, <2>8 DEF HitInv
    <2>10. LookupInv(d)
      BY Zenon, <1>1, <2>4, <2>5, <2>9 DEF LookupInv
    <2> QED BY Zenon, <2>2, <2>5, <2>6, <2>10, FreshBusy
  <1> QED BY Zenon, <1>2, <1>3

LEMMA ListedResult ==
    ASSUME TypeOK, StoreInv, NEW c \in Call, WalkInv(c), LookupInv(c), Complete(c)
    PROVE  Result(listed(c))
  <1>1. /\ c.out \in Seq(Stored) /\ c.since \subseteq c.walked /\ c.walked \subseteq robots
        /\ robots \subseteq Stored /\ c.name \in Wanted \cup {NoName} /\ NoName \notin Wanted
        /\ \A i, j \in DOMAIN c.out : i < j => c.out[i].id < c.out[j].id
        /\ c.lookup \in {"filtered", "suffix", "scan"}
    <2>1. NoName \notin Wanted
      BY HarborClientAssumption
    <2> QED BY Zenon, <2>1 DEF Call, LookupInv, WalkInv, TypeOK
  <1>2. CASE c.name = NoName
    <2> DEFINE d == Return(c, "listed")
    <2>1. d \in Call /\ d.at = "listed" /\ d.out = c.out /\ d.walked = c.walked
      BY Zenon, ReturnFacts DEF Answers
    <2>2. listed(c) = d
      BY Zenon, <1>2 DEF listed
    <2> HIDE DEF d
    <2>3. c.walked \subseteq Range(c.out)
      BY Zenon, <1>2 DEF Complete, Matches, LookupInv
    <2>4. ASSUME NEW i \in DOMAIN c.out, NEW j \in DOMAIN c.out, c.out[i].id = c.out[j].id
          PROVE  i = j
      <3>1. c.out[i].id \in Nat /\ c.out[j].id \in Nat /\ i \in Nat /\ j \in Nat
        <4>1. c.out[i] \in Stored /\ c.out[j] \in Stored /\ i \in Nat /\ j \in Nat
          BY <1>1
        <4> QED BY Zenon, <4>1, IDTypes
      <3>2. ~(c.out[i].id < c.out[j].id) /\ ~(c.out[j].id < c.out[i].id)
        BY <2>4, <3>1
      <3>3. ~(i < j) /\ ~(j < i)
        BY Zenon, <1>1, <3>2
      <3> QED BY <3>1, <3>3
    <2>5. AnswerInv(d)
      BY Zenon, <2>1, <2>3, <2>4 DEF AnswerInv
    <2> QED BY Zenon, <2>1, <2>2, <2>5, AnswerResult DEF Answers
  <1>3. CASE c.name # NoName /\ c.lookup = "suffix"
    <2>1. listed(c) = IF \E r \in Range(c.out) : r.id = c.hit.id THEN scan(c)
                      ELSE Return(c, "mismatch")
      BY Zenon, <1>3 DEF listed
    <2>2. HitInv(c) /\ c.name \in Wanted
      BY Zenon, <1>1, <1>3 DEF LookupInv
    <2>3. CASE \E r \in Range(c.out) : r.id = c.hit.id
      <3>1. c.hit \in Range(c.out) /\ c.hit \in Stored
        BY Zenon, <2>2, <2>3 DEF HitInv, Seen
      <3>2. ASSUME harbor.filter PROVE NoneStored(c)
        <4>1. c.hit.name = c.name /\ c.filter = Name(c.hit) /\ Name(c.hit) # c.name
          BY Zenon, <2>2, <3>2 DEF HitInv
        <4>2. c.filter = NoName
          BY Zenon, <3>1, <3>2, <4>1 DEF WalkInv, Matches
        <4>3. ~c.hit.editable
          BY Zenon, <2>2, <4>1, <4>2 DEF HitInv, knownPrefix, NoName
        <4> QED BY Zenon, <2>2, <4>1, <4>3 DEF HitInv, NoneStored
      <3> QED BY Zenon, <1>1, <2>1, <2>2, <2>3, <3>2, ScanResult
    <2>4. CASE ~\E r \in Range(c.out) : r.id = c.hit.id
      <3> DEFINE d == Return(c, "mismatch")
      <3>1. d \in Call /\ d.at = "mismatch" /\ d.hit = c.hit /\ d.since = c.since
        BY Zenon, ReturnFacts DEF Answers
      <3> HIDE DEF d
      <3>2. ASSUME harbor.prefix = robotPrefix, c.hit \in c.since PROVE FALSE
        <4>1. c.hit \in Stored /\ c.hit \in c.walked /\ ~Matches(c.hit, c)
          BY Zenon, <1>1, <2>4, <3>2 DEF Complete
        <4>2. harbor.filter /\ c.hit.name # Name(c.hit) /\ c.hit.name = c.name
          BY Zenon, <2>2, <4>1 DEF Matches, HitInv
        <4>3. ~c.hit.editable
          BY Zenon, <3>2, <4>1, <4>2, SamePrefix
        <4>4. Name(c.hit) = c.name
          BY Zenon, <2>2, <4>2, <4>3, WantedAssumption DEF Name, WireName
        <4> QED BY Zenon, <4>2, <4>4
      <3>3. AnswerInv(d)
        BY Zenon, <3>1, <3>2 DEF AnswerInv
      <3> QED BY Zenon, <2>1, <2>4, <3>1, <3>3, AnswerResult DEF Answers, d
    <2> QED BY Zenon, <2>3, <2>4
  <1>4. CASE c.name # NoName /\ c.lookup # "suffix" /\ matchName(c.out, c.name) # {}
    <2> DEFINE h == c.out[Min(matchName(c.out, c.name))]
               e == [c EXCEPT !.hit = h]
               d == Return(e, "found")
    <2>1. h \in Stored
      <3>1. matchName(c.out, c.name) \in SUBSET DOMAIN c.out
        BY Zenon DEF matchName
      <3> QED BY Zenon, <1>1, <1>4, <3>1, FirstPlace
    <2>2. listed(c) = d
      BY Zenon, <1>4 DEF listed
    <2> HIDE DEF h
    <2>3. e \in Call
      BY Zenon, <2>1, HitFacts
    <2> HIDE DEF e
    <2>4. d \in Call /\ d.at = "found"
      BY Zenon, <2>3, ReturnFacts DEF Answers
    <2> HIDE DEF d
    <2>5. AnswerInv(d)
      BY Zenon, <2>4 DEF AnswerInv
    <2> QED BY Zenon, <2>2, <2>4, <2>5, AnswerResult DEF Answers
  <1>5. CASE c.name # NoName /\ c.lookup = "filtered" /\ matchName(c.out, c.name) = {}
    <2>1. listed(c) = checkSuffixHit(c)
      BY Zenon, <1>5 DEF listed
    <2> QED BY Zenon, <1>1, <1>5, <2>1, SuffixHitResult
  <1>6. CASE c.name # NoName /\ c.lookup = "scan" /\ matchName(c.out, c.name) = {}
    <2> DEFINE d == Return(c, "notFound")
    <2>1. d \in Call /\ d.at = "notFound" /\ d.since = c.since /\ d.name = c.name
      BY Zenon, ReturnFacts DEF Answers
    <2>2. listed(c) = d
      BY Zenon, <1>6 DEF listed
    <2> HIDE DEF d
    <2>3. harbor.filter => NoneStored(c)
      BY Zenon, <1>6 DEF LookupInv
    <2>4. ASSUME harbor.prefix = robotPrefix, NEW r \in c.since, r.editable, r.name = c.name
          PROVE  FALSE
      <3>1. r \in Stored /\ r \in Range(c.out)
        BY Zenon, <1>1, <1>6 DEF Complete, Matches, LookupInv
      <3>2. Name(r) = c.name
        BY Zenon, <2>4, <3>1, SamePrefix
      <3> QED BY Zenon, <1>6, <3>1, <3>2 DEF matchName, Range
    <2>5. AnswerInv(d)
      BY Zenon, <2>1, <2>3, <2>4 DEF AnswerInv, NoneStored
    <2> QED BY Zenon, <2>1, <2>2, <2>5, AnswerResult DEF Answers
  <1> QED BY Zenon, <1>1, <1>2, <1>3, <1>4, <1>5, <1>6

\* The answer to a request.
LEMMA PageResult ==
    ASSUME TypeOK, StoreInv, NEW c \in Call, WalkInv(c), LookupInv(c),
           NEW page \in Pages(Matching(c.filter, c.cursor))
    PROVE  Result(readPage(c, page))
  <1>1. page \in Seq(Stored) /\ Len(page) \in Nat /\ pageSize \in Nat
        /\ DOMAIN page = 1..Len(page) /\ c.page \in 1..maxPages /\ maxPages \in Nat
    <2>1. page \in Seq(Stored)
      BY Zenon, PageSeen
    <2>2. c.page \in 1..maxPages
      BY Zenon DEF Call
    <2> QED BY <2>1, <2>2, HarborClientAssumption
  <1>2. CASE Bad(c, page) # {}
    <2> DEFINE i == Min(Bad(c, page))
               e == [c EXCEPT !.hit = page[i]]
               at == IF Increasing(page, c.cursor, i) THEN "mismatch" ELSE "refused"
               d == Return(e, at)
    <2>1. i \in Bad(c, page) /\ page[i] \in Stored /\ page[i] \in Range(page)
      <3>1. Bad(c, page) \in SUBSET DOMAIN page
        BY Zenon DEF Bad
      <3> QED BY Zenon, <1>1, <1>2, <3>1, FirstPlace
    <2>2. readPage(c, page) = d
      <3>1. readPage(c, page) = giveUp(c, page)
        BY Zenon, <1>2 DEF readPage
      <3> QED BY Zenon, <3>1 DEF giveUp
    <2>3. at \in Answers /\ (at = "mismatch" => ~knownPrefix(page[i])) /\ at # "listed"
          /\ at # "notFound"
      BY Zenon, <2>1 DEF Bad, Answers
    <2> HIDE DEF i
    <2>4. e \in Call /\ e.hit = page[i] /\ e.since = c.since
      BY Zenon, <2>1, HitFacts
    <2> HIDE DEF e, at
    <2>5. d \in Call /\ d.at = at /\ d.hit = page[i] /\ d.since = c.since
      BY Zenon, <2>3, <2>4, ReturnFacts
    <2> HIDE DEF d
    <2>6. ASSUME at = "mismatch", harbor.prefix = robotPrefix PROVE FALSE
      <3>1. page[i] \in robots
        BY Zenon, <2>1, PageSeen
      <3>2. page[i].editable
        BY Zenon, <2>3, <2>6 DEF knownPrefix
      <3> QED BY Zenon, <2>1, <2>3, <2>6, <3>1, <3>2, SamePrefix
    <2>7. AnswerInv(d)
      BY Zenon, <2>3, <2>5, <2>6 DEF AnswerInv
    <2> QED BY Zenon, <2>2, <2>3, <2>5, <2>7, AnswerResult
  <1>3. CASE Bad(c, page) = {}
    <2> DEFINE a == Add(c, page)
    <2>1. /\ a \in Call /\ a.out = c.out \o page /\ a.filter = c.filter
          /\ a.walked = c.walked /\ a.page = c.page
      BY Zenon, <1>1, <1>3, AddFacts
    <2>2. /\ WalkInv(a) /\ LookupInv(a)
          /\ Len(page) < pageSize =>
                \A r \in c.walked : Matches(r, c) => r \in Range(c.out \o page)
      BY Zenon, <1>3, AddWalk
    <2>3. CASE Len(page) < pageSize
      <3>1. ~(Len(page) >= pageSize)
        BY <1>1, <2>3
      <3>2. readPage(c, page) = listed(a)
        BY Zenon, <1>3, <2>3, <3>1 DEF readPage
      <3> HIDE DEF a
      <3>3. Complete(a)
        BY Zenon, <2>1, <2>2, <2>3 DEF Complete, Matches
      <3> QED BY Zenon, <2>1, <2>2, <3>2, <3>3, ListedResult
    <2>4. CASE ~(Len(page) < pageSize)
      <3>1. Len(page) >= pageSize
        BY <1>1, <2>4
      <3>2. CASE c.page = maxPages
        <4> DEFINE d == Return(c, "refused")
        <4>1. ~(c.page < maxPages)
          BY <1>1, <3>2
        <4>2. readPage(c, page) = d
          BY Zenon, <1>3, <2>4, <3>1, <3>2, <4>1 DEF readPage
        <4>3. d \in Call /\ d.at = "refused"
          BY Zenon, ReturnFacts DEF Answers
        <4> HIDE DEF d
        <4> QED BY Zenon, <4>2, <4>3, AnswerResult DEF Answers, AnswerInv
      <3>3. CASE c.page # maxPages
        <4> DEFINE n == c.page + 1
                   e == [a EXCEPT !.page = n]
                   d == Request(e)
        <4>1. c.page < maxPages /\ n \in 1..maxPages
          BY <1>1, <3>3
        <4>2. readPage(c, page) = NextPage(a)
          BY Zenon, <1>3, <2>4, <3>1, <3>3, <4>1 DEF readPage
        <4> HIDE DEF a
        <4>3. NextPage(a) = d
          BY Zenon, <2>1 DEF NextPage
        <4> HIDE DEF n
        <4>4. e \in Call /\ Kept(e, a)
          BY Zenon, <2>1, <4>1, NumberFacts
        <4> HIDE DEF e
        <4>5. d \in Call /\ Kept(d, e) /\ Fresh(d)
          BY Zenon, <4>4, RequestFacts
        <4> HIDE DEF d
        <4> QED BY Zenon, <2>2, <4>2, <4>3, <4>4, <4>5, KeptInv, FreshBusy
      <3> QED BY Zenon, <3>2, <3>3
    <2> QED BY Zenon, <2>3, <2>4
  <1> QED BY Zenon, <1>2, <1>3

(***************************************************************************)
(* The steps.  First what a call depends on besides itself.                *)
(***************************************************************************)
LEMMA ChangeFrame ==
    ASSUME harbor' = harbor, CallInv(call'),
           BusyAt(call') => call'.walked \subseteq robots' /\ \A h \in Stored : Seen(h) => Seen(h)'
    PROVE  CallInv(call)'
  <1>1. ASSUME NEW r PROVE Name(r)' = Name(r) /\ (knownPrefix(r)' <=> knownPrefix(r))
    <2>1. WireName(r)' = WireName(r)
      BY Zenon DEF WireName
    <2>2. Name(r)' = Name(r)
      BY Zenon, <2>1 DEF Name
    <2> QED BY Zenon, <2>1, <2>2 DEF knownPrefix
  <1>2. AnswerInv(call)'
    BY Zenon DEF CallInv, AnswerInv, NoneStored
  <1>3. ASSUME BusyAt(call'), NEW h, Seen(h) PROVE Seen(h)'
    BY Zenon, <1>3 DEF Seen
  <1>4. BusyAt(call') /\ WalkInv(call') => WalkInv(call)'
    BY Zenon, <1>1, <1>3 DEF WalkInv, Matches
  <1>5. BusyAt(call') /\ HitInv(call') => HitInv(call)'
    BY Zenon, <1>1, <1>3 DEF HitInv
  <1>6. BusyAt(call') /\ LookupInv(call') => LookupInv(call)'
    BY Zenon, <1>5 DEF LookupInv, NoneStored
  <1> QED BY Zenon, <1>2, <1>4, <1>6 DEF CallInv, BusyAt

LEMMA CallFrame ==
    ASSUME UNCHANGED <<plan, harborVars>>, CallInv(call')
    PROVE  CallInv(call)'
  <1>1. harbor' = harbor /\ robots' = robots /\ lastID' = lastID
    BY Zenon DEF harbor, harborVars
  <1>2. ASSUME NEW h \in Stored, Seen(h) PROVE Seen(h)'
    BY Zenon, <1>1, <1>2 DEF Seen
  <1>3. BusyAt(call') => call'.walked \subseteq robots'
    BY Zenon, <1>1 DEF CallInv, WalkInv
  <1> QED BY Zenon, <1>1, <1>2, <1>3, ChangeFrame

LEMMA StoreFrame ==
    ASSUME TypeOK, StoreInv, UNCHANGED <<plan, harborVars>>
    PROVE  StoreInv' /\ (plan \in Plan)' /\ (robots \subseteq Stored)' /\ (lastID \in 0..MaxID)'
  BY Zenon DEF StoreInv, Unique, TypeOK, harbor, harborVars

\* Harbor answered, or a call begins.
LEMMA ResultStep ==
    ASSUME ClientInv, Result(call'), UNCHANGED <<plan, harborVars, volumeVars>>
    PROVE  ClientInv'
  <1>1. CallInv(call') /\ call' \in Call
    BY Zenon DEF Result, CallInv
  <1>2. CallInv(call)' /\ StoreInv' /\ TypeOK'
    BY Zenon, <1>1, CallFrame, StoreFrame DEF ClientInv, TypeOK, volumeVars
  <1>3. link \in Nat \ {0} /\ link <= plan.versions /\ link \in dirs
        /\ link' = link /\ plan' = plan /\ dirs' = dirs
    BY DEF ClientInv, TypeOK, VolumeInv, volumeVars
  <1>4. CASE Fresh(call')
    BY <1>2, <1>3, <1>4
       DEF ClientInv, VolumeInv, Fresh, Busy, Reading, CredentialsOfOneVersion, ReadSurvivesSwaps
  <1>5. CASE call'.at \in Answers
    BY <1>2, <1>3, <1>5
       DEF ClientInv, VolumeInv, Answers, Busy, Reading, CredentialsOfOneVersion, ReadSurvivesSwaps
  <1> QED BY Zenon, <1>4, <1>5 DEF Result

LEMMA BeginStep ==
    ASSUME ClientInv, List \/ \E n \in Wanted : GetByName(n)
    PROVE  ClientInv'
  <1>1. TypeOK /\ NoCall \in Call /\ NoName \in Seq(STRING) /\ robots \in SUBSET Stored
        /\ NoName \notin Wanted /\ Wanted \subseteq Names /\ Names \subseteq Seq(STRING)
    BY NoCallType, HarborClientAssumption DEF ClientInv, TypeOK, NoName
  <1>2. ASSUME NEW n \in Wanted \cup {NoName}, NEW l \in {"filtered", "scan"},
               NEW e \in Call, e.name = n, e.since = robots, call' = listing(e, l, n),
               (n = NoName) <=> (l = "scan"),
               UNCHANGED <<plan, harborVars, volumeVars>>
        PROVE  ClientInv'
    <2>2. Begun(call', e, l, n)
      BY Zenon, <1>1, <1>2, ListingFacts
    <2>3. /\ call' \in Call /\ Fresh(call') /\ call'.name = n /\ call'.since = robots
          /\ call'.lookup = l /\ call'.filter = n /\ call'.cursor = 0
          /\ call'.out = <<>> /\ call'.walked = robots
      BY Zenon, <1>2, <2>2 DEF Begun
    <2>4. WalkInv(call')
      BY Zenon, <1>1, <2>3, ListingWalk
    <2>5. LookupInv(call')
      BY Zenon, <1>1, <1>2, <2>3 DEF LookupInv
    <2> QED BY Zenon, <1>2, <2>3, <2>4, <2>5, FreshBusy, ResultStep
  <1>3. CASE List
    <2> DEFINE e == [NoCall EXCEPT !.since = robots]
    <2>1. e \in Call /\ e.since = robots /\ e.name = NoCall.name
      BY ZenonT(20), <1>1 DEF Call
    <2>2. NoCall.name = NoName
      BY Zenon DEF NoCall
    <2>3. call' = listing(e, "scan", NoName) /\ UNCHANGED <<plan, harborVars, volumeVars>>
      BY Zenon, <1>3 DEF List
    <2> HIDE DEF e
    <2> QED BY Zenon, <1>1, <1>2, <2>1, <2>2, <2>3
  <1>4. CASE \E n \in Wanted : GetByName(n)
    <2>1. PICK n \in Wanted : GetByName(n)
      BY <1>4
    <2> DEFINE e == [NoCall EXCEPT !.name = n, !.since = robots]
    <2>2. e \in Call /\ e.since = robots /\ e.name = n
      BY ZenonT(20), <1>1 DEF Call
    <2>3. call' = listing(e, "filtered", n) /\ UNCHANGED <<plan, harborVars, volumeVars>>
      BY Zenon, <2>1 DEF GetByName
    <2>4. n # NoName /\ n \in Wanted \cup {NoName}
      BY Zenon, <1>1
    <2> HIDE DEF e
    <2> QED BY Zenon, <1>2, <2>2, <2>3, <2>4
  <1> QED BY Zenon, <1>3, <1>4

LEMMA AnswerStep ==
    ASSUME ClientInv, listPage
    PROVE  ClientInv'
  <1>1. /\ call \in Call /\ WalkInv(call) /\ LookupInv(call)
        /\ UNCHANGED <<plan, harborVars, volumeVars>>
    BY Zenon DEF ClientInv, CallInv, BusyAt, listPage
  <1>2. PICK page \in Pages(Matching(call.filter, call.cursor)) : call' = readPage(call, page)
    BY Zenon DEF listPage
  <1>3. Result(call')
    BY Zenon, <1>1, <1>2, PageResult DEF ClientInv
  <1> QED BY Zenon, <1>1, <1>3, ResultStep

LEMMA CallNumbers ==
    ASSUME NEW c \in Call
    PROVE  /\ c.attempt \in 1..adminCredsReadAttempts /\ c.faults \in 0..adminCredsReadAttempts
           /\ c.base \in 0..MaxVersion /\ c.user \in 0..MaxVersion /\ c.pass \in 0..MaxVersion
           /\ c.first \in 0..MaxVersion /\ c.moved \in 0..MaxVersion
  BY ZenonT(20) DEF Call

\* A step that leaves the listing alone.
LEMMA KeptStep ==
    ASSUME ClientInv, Busy, UNCHANGED <<plan, harborVars>>,
           call' \in Call, Kept(call', call), call'.at \in Reading \cup {"request", "failed"},
           (link \in 1..MaxVersion /\ dirs \subseteq 1..MaxVersion)',
           VolumeInv', CredentialsOfOneVersion', ReadSurvivesSwaps'
    PROVE  ClientInv'
  <1>1. WalkInv(call) /\ LookupInv(call)
    BY Zenon DEF ClientInv, CallInv, BusyAt, Busy
  <1>2. WalkInv(call') /\ LookupInv(call')
    BY Zenon, <1>1, KeptInv
  <1>3. call'.at \notin {"listed", "notFound", "mismatch"}
    BY DEF Reading
  <1>4. CallInv(call')
    BY Zenon, <1>2, <1>3 DEF CallInv, AnswerInv
  <1>5. CallInv(call)'
    BY Zenon, <1>4, CallFrame
  <1> QED BY Zenon, <1>5, StoreFrame DEF ClientInv, TypeOK

\* d is c where the read of the credentials has moved on.
Moved(d, c, at, attempt, base, user, pass, faults) ==
    /\ d \in Call /\ Kept(d, c) /\ d.first = c.first /\ d.moved = c.moved
    /\ d.at = at /\ d.attempt = attempt /\ d.base = base
    /\ d.user = user /\ d.pass = pass /\ d.faults = faults

LEMMA NextAttemptFacts ==
    ASSUME NEW c \in Call
    PROVE  IF c.attempt < adminCredsReadAttempts
           THEN Moved(nextAttempt(c), c, "resolve", c.attempt + 1, c.base, 0, c.pass, c.faults)
           ELSE Moved(nextAttempt(c), c, "failed", c.attempt, c.base, c.user, c.pass, c.faults)
  <1>1. CASE c.attempt < adminCredsReadAttempts
    <2> DEFINE n == c.attempt + 1
               d == [c EXCEPT !.at = "resolve", !.attempt = n, !.user = 0]
    <2>1. n \in 1..adminCredsReadAttempts /\ 0 \in 0..MaxVersion
      BY <1>1, CallNumbers, HarborClientAssumption
    <2>2. nextAttempt(c) = d
      BY Zenon, <1>1 DEF nextAttempt
    <2> HIDE DEF n
    <2>3. Moved(d, c, "resolve", n, c.base, 0, c.pass, c.faults)
      BY ZenonT(20), <2>1 DEF Moved, Call, Kept
    <2> HIDE DEF d
    <2> QED BY Zenon, <1>1, <2>2, <2>3 DEF n
  <1>2. CASE ~(c.attempt < adminCredsReadAttempts)
    <2> DEFINE d == [c EXCEPT !.at = "failed"]
    <2>1. nextAttempt(c) = d
      BY Zenon, <1>2 DEF nextAttempt
    <2>2. Moved(d, c, "failed", c.attempt, c.base, c.user, c.pass, c.faults)
      BY ZenonT(20) DEF Moved, Call, Kept
    <2> HIDE DEF d
    <2> QED BY Zenon, <1>2, <2>1, <2>2
  <1> QED BY Zenon, <1>1, <1>2

\* The steps of the goroutine that reads the credentials.
ReadStep == \/ resolveDataDir \/ readUsername \/ readPassword \/ resolveAgain
            \/ resolveFails \/ listFails

LEMMA CredentialStep ==
    ASSUME ClientInv, ReadStep
    PROVE  ClientInv'
  <1> DEFINE c == call
  <1>1. Busy /\ UNCHANGED <<plan, harborVars, volumeVars>> /\ c \in Call
    BY DEF ReadStep, resolveDataDir, readUsername, readPassword, resolveAgain,
           resolveFails, listFails, Busy, Reading, ClientInv, CallInv
  <1>2. /\ plan' = plan /\ link' = link /\ dirs' = dirs
        /\ link \in 1..MaxVersion /\ dirs \subseteq 1..MaxVersion
    BY Zenon, <1>1 DEF volumeVars, ClientInv, TypeOK
  <1>a. adminCredsReadAttempts \in Nat \ {0} /\ MaxVersion \in Nat
    BY Zenon, HarborClientAssumption
  <1>b. /\ c.attempt \in 1..adminCredsReadAttempts /\ c.faults \in 0..adminCredsReadAttempts
        /\ c.base \in 0..MaxVersion /\ c.user \in 0..MaxVersion /\ c.pass \in 0..MaxVersion
        /\ c.first \in 0..MaxVersion /\ c.moved \in 0..MaxVersion
    BY Zenon, <1>1, CallNumbers
  <1>c. /\ c.attempt \in Int /\ c.faults \in Int /\ c.base \in Int /\ c.first \in Int
        /\ c.moved \in Int /\ link \in Int /\ adminCredsReadAttempts \in Int
        /\ c.attempt <= adminCredsReadAttempts
    BY <1>2, <1>a, <1>b
  <1>3. VolumeInv /\ CredentialsOfOneVersion
    BY Zenon DEF ClientInv
  <1> DEFINE Good == VolumeInv' /\ CredentialsOfOneVersion' /\ ReadSurvivesSwaps'
  <1>4. ASSUME NEW at \in Reading \cup {"request", "failed"},
               NEW t, NEW b, NEW u, NEW p, NEW f, Moved(call', c, at, t, b, u, p, f), Good
        PROVE  ClientInv'
    BY Zenon, <1>1, <1>2, <1>4, KeptStep DEF Moved
  <1> HIDE DEF Good
  <1>5. CASE resolveDataDir
    <2>1. call' = [call EXCEPT !.at = "username", !.base = link] /\ link \in 0..MaxVersion
      BY <1>2, <1>5, <1>a DEF resolveDataDir
    <2>2. Moved(call', c, "username", c.attempt, link, c.user, c.pass, c.faults)
      BY ZenonT(20), <1>1, <2>1 DEF Moved, Call, Kept
    <2>3. Good
      BY <1>1, <1>2, <1>3, <1>c, <1>5, <2>2
         DEF Good, Moved, resolveDataDir, VolumeInv, CredentialsOfOneVersion,
             ReadSurvivesSwaps, Busy, Reading
    <2> QED BY Zenon, <1>4, <2>2, <2>3 DEF Reading
  <1>6. CASE readUsername
    <2>1. CASE c.base \in dirs
      <3>1. call' = [call EXCEPT !.at = "password", !.user = c.base]
        BY Zenon, <1>6, <2>1 DEF readUsername, readVersion
      <3>3. Moved(call', c, "password", c.attempt, c.base, c.base, c.pass, c.faults)
        BY ZenonT(20), <1>1, <1>b, <3>1 DEF Moved, Call, Kept
      <3>4. Good
        BY <1>1, <1>2, <1>3, <1>c, <1>6, <3>3
           DEF Good, Moved, readUsername, VolumeInv, CredentialsOfOneVersion,
               ReadSurvivesSwaps, Busy, Reading
      <3> QED BY Zenon, <1>4, <3>3, <3>4 DEF Reading
    <2>2. CASE c.base \notin dirs
      <3>1. call' = [call EXCEPT !.at = "again"]
        BY Zenon, <1>6, <2>2 DEF readUsername, readVersion
      <3>2. Moved(call', c, "again", c.attempt, c.base, c.user, c.pass, c.faults)
        BY ZenonT(20), <1>1, <3>1 DEF Moved, Call, Kept
      <3>3. Good
        BY <1>1, <1>2, <1>3, <1>c, <1>6, <2>2, <3>2
           DEF Good, Moved, readUsername, VolumeInv, CredentialsOfOneVersion,
               ReadSurvivesSwaps, Busy, Reading
      <3> QED BY Zenon, <1>4, <3>2, <3>3 DEF Reading
    <2> QED BY Zenon, <2>1, <2>2
  <1>7. CASE readPassword
    <2>1. CASE c.base \in dirs \ Incomplete
      <3>1. call' = [call EXCEPT !.at = "request", !.pass = c.base]
        BY Zenon, <1>7, <2>1 DEF readPassword, readVersion
      <3>3. Moved(call', c, "request", c.attempt, c.base, c.user, c.base, c.faults)
        BY ZenonT(20), <1>1, <1>b, <3>1 DEF Moved, Call, Kept
      <3>4. Good
        BY <1>1, <1>2, <1>3, <1>c, <1>7, <3>3
           DEF Good, Moved, readPassword, VolumeInv, CredentialsOfOneVersion,
               ReadSurvivesSwaps, Busy, Reading
      <3> QED BY Zenon, <1>4, <3>3, <3>4 DEF Reading
    <2>2. CASE c.base \notin dirs \ Incomplete
      <3>1. call' = [call EXCEPT !.at = "again"]
        BY Zenon, <1>7, <2>2 DEF readPassword, readVersion
      <3>2. Moved(call', c, "again", c.attempt, c.base, c.user, c.pass, c.faults)
        BY ZenonT(20), <1>1, <3>1 DEF Moved, Call, Kept
      <3>3. Good
        BY <1>1, <1>2, <1>3, <1>c, <1>7, <2>2, <3>2
           DEF Good, Moved, readPassword, VolumeInv, CredentialsOfOneVersion,
               ReadSurvivesSwaps, Busy, Reading
      <3> QED BY Zenon, <1>4, <3>2, <3>3 DEF Reading
    <2> QED BY Zenon, <2>1, <2>2
  <1>8. CASE resolveAgain
    <2>1. CASE link = c.base
      <3>1. call' = [call EXCEPT !.at = "failed"]
        BY Zenon, <1>8, <2>1 DEF resolveAgain
      <3>2. Moved(call', c, "failed", c.attempt, c.base, c.user, c.pass, c.faults)
        BY ZenonT(20), <1>1, <3>1 DEF Moved, Call, Kept
      <3>3. Good
        BY Zenon, <1>1, <1>2, <1>3, <1>c, <1>8, <2>1, <3>2
           DEF Good, Moved, resolveAgain, VolumeInv, CredentialsOfOneVersion,
               ReadSurvivesSwaps, Busy, Reading
      <3> QED BY Zenon, <1>4, <3>2, <3>3
    <2>2. CASE link # c.base /\ c.attempt < adminCredsReadAttempts
      <3>1. Moved(call', c, "resolve", c.attempt + 1, c.base, 0, c.pass, c.faults)
        BY Zenon, <1>1, <1>8, <2>2, NextAttemptFacts DEF resolveAgain
      <3>2. Good
        BY <1>1, <1>2, <1>3, <1>c, <1>8, <2>2, <3>1
           DEF Good, Moved, resolveAgain, VolumeInv, CredentialsOfOneVersion,
               ReadSurvivesSwaps, Busy, Reading
      <3> QED BY Zenon, <1>4, <3>1, <3>2 DEF Reading
    <2>3. CASE link # c.base /\ ~(c.attempt < adminCredsReadAttempts)
      <3>1. Moved(call', c, "failed", c.attempt, c.base, c.user, c.pass, c.faults)
        BY Zenon, <1>1, <1>8, <2>3, NextAttemptFacts DEF resolveAgain
      <3>2. Good
        BY <1>1, <1>2, <1>3, <1>c, <1>8, <2>3, <3>1
           DEF Good, Moved, resolveAgain, VolumeInv, CredentialsOfOneVersion,
               ReadSurvivesSwaps, Busy, Reading
      <3> QED BY Zenon, <1>4, <3>1, <3>2
    <2> QED BY Zenon, <2>1, <2>2, <2>3
  <1>9. CASE resolveFails
    <2> DEFINE n == c.faults + 1
               e == [call EXCEPT !.faults = n]
    <2>0. c.at \in {"resolve", "again"} /\ call' = nextAttempt(e)
      BY Zenon, <1>9 DEF resolveFails
    <2>1. n \in 0..adminCredsReadAttempts
      BY <1>1, <1>3, <1>a, <1>b DEF VolumeInv
    <2> HIDE DEF n
    <2>2. Moved(e, c, c.at, c.attempt, c.base, c.user, c.pass, n)
      BY ZenonT(20), <1>1, <2>1 DEF Moved, Call, Kept
    <2> HIDE DEF e
    <2>e. /\ e \in Call /\ e.attempt = c.attempt /\ e.base = c.base /\ e.user = c.user
          /\ e.pass = c.pass /\ e.faults = n
      BY Zenon, <2>2 DEF Moved
    <2>3. CASE c.attempt < adminCredsReadAttempts
      <3>1. Moved(call', e, "resolve", c.attempt + 1, c.base, 0, c.pass, n)
        BY Zenon, <2>0, <2>e, <2>3, NextAttemptFacts
      <3>2. Moved(call', c, "resolve", c.attempt + 1, c.base, 0, c.pass, n)
        BY Zenon, <2>2, <3>1 DEF Moved, Kept
      <3>3. Good
        BY <1>1, <1>2, <1>3, <1>c, <2>0, <2>3, <3>2
           DEF Good, Moved, VolumeInv, CredentialsOfOneVersion,
               ReadSurvivesSwaps, Busy, Reading, n
      <3> QED BY Zenon, <1>4, <3>2, <3>3 DEF Reading
    <2>4. CASE ~(c.attempt < adminCredsReadAttempts)
      <3>1. Moved(call', e, "failed", c.attempt, c.base, c.user, c.pass, n)
        BY Zenon, <2>0, <2>e, <2>4, NextAttemptFacts
      <3>2. Moved(call', c, "failed", c.attempt, c.base, c.user, c.pass, n)
        BY Zenon, <2>2, <3>1 DEF Moved, Kept
      <3>3. Good
        BY <1>1, <1>2, <1>3, <1>c, <2>0, <2>4, <3>2
           DEF Good, Moved, VolumeInv, CredentialsOfOneVersion,
               ReadSurvivesSwaps, Busy, Reading, n
      <3> QED BY Zenon, <1>4, <3>2, <3>3
    <2> QED BY Zenon, <2>3, <2>4
  <1>10. CASE listFails
    <2>1. call' = [call EXCEPT !.at = "failed"]
      BY Zenon, <1>10 DEF listFails
    <2>2. Moved(call', c, "failed", c.attempt, c.base, c.user, c.pass, c.faults)
      BY ZenonT(20), <1>1, <2>1 DEF Moved, Call, Kept
    <2>3. Good
      BY <1>1, <1>2, <1>3, <1>c, <1>10, <2>2
         DEF Good, Moved, listFails, VolumeInv, CredentialsOfOneVersion,
             ReadSurvivesSwaps, Busy, Reading
    <2> QED BY Zenon, <1>4, <2>2, <2>3
  <1> QED BY Zenon, <1>5, <1>6, <1>7, <1>8, <1>9, <1>10 DEF ReadStep

\* kubelet replaces the Secret's volume.
LEMMA VersionStep ==
    ASSUME ClientInv, replaceVersion \/ removeVersion
    PROVE  ClientInv'
  <1>1. /\ VolumeInv /\ CredentialsOfOneVersion /\ ReadSurvivesSwaps /\ call \in Call
        /\ plan.versions \in 1..MaxVersion /\ MaxVersion \in Nat
        /\ link \in 1..MaxVersion /\ dirs \subseteq 1..MaxVersion
    BY Zenon, HarborClientAssumption DEF ClientInv, TypeOK, Plan
  <1>2. /\ call.first \in 0..MaxVersion /\ call.moved \in 0..MaxVersion
        /\ call.base \in 0..MaxVersion /\ call.faults \in Int /\ call.attempt \in Int
        /\ adminCredsReadAttempts \in Int
    <2>1. /\ call.first \in 0..MaxVersion /\ call.moved \in 0..MaxVersion
          /\ call.base \in 0..MaxVersion /\ call.faults \in 0..adminCredsReadAttempts
          /\ call.attempt \in 1..adminCredsReadAttempts
      BY Zenon, <1>1, CallNumbers
    <2> QED BY <2>1, HarborClientAssumption
  <1>3. UNCHANGED <<plan, harborVars>>
    BY Zenon DEF replaceVersion, removeVersion
  <1>4. ASSUME ~Busy, call' = call, VolumeInv', (link \in 1..MaxVersion /\ dirs \subseteq 1..MaxVersion)'
        PROVE  ClientInv'
    <2>1. CallInv(call')
      BY Zenon, <1>4 DEF ClientInv
    <2>2. CredentialsOfOneVersion' /\ ReadSurvivesSwaps'
      BY Zenon, <1>1, <1>4 DEF CredentialsOfOneVersion, ReadSurvivesSwaps
    <2> QED BY Zenon, <1>3, <1>4, <2>1, <2>2, CallFrame, StoreFrame DEF ClientInv, TypeOK, CallInv
  <1>5. CASE replaceVersion
    <2>1. link' \in 1..MaxVersion /\ dirs' \subseteq 1..MaxVersion /\ link' = link + 1
          /\ link' <= plan'.versions /\ link' \in dirs'
      BY <1>1, <1>3, <1>5 DEF replaceVersion
    <2>2. CASE ~Busy
      <3>1. call' = call
        BY Zenon, <1>5, <2>2 DEF replaceVersion
      <3>2. VolumeInv'
        BY <2>1, <2>2, <3>1 DEF VolumeInv, Busy, Reading
      <3> QED BY Zenon, <1>4, <2>1, <2>2, <3>1, <3>2
    <2>3. CASE Busy
      <3> DEFINE n == call.moved + 1
                 d == [call EXCEPT !.moved = n]
      <3>1. n \in 0..MaxVersion /\ n = call.moved + 1
        BY <1>1, <1>2, <1>5, <2>3 DEF replaceVersion, VolumeInv
      <3>2. call' = d
        BY Zenon, <1>5, <2>3 DEF replaceVersion
      <3> HIDE DEF n
      <3>3. /\ d \in Call /\ Kept(d, call) /\ d.at = call.at /\ d.attempt = call.attempt
            /\ d.base = call.base /\ d.user = call.user /\ d.pass = call.pass
            /\ d.first = call.first /\ d.faults = call.faults /\ d.moved = n
        BY ZenonT(20), <1>1, <3>1 DEF Call, Kept
      <3> HIDE DEF d
      <3>4. VolumeInv'
        BY <1>1, <1>2, <2>1, <2>3, <3>1, <3>2, <3>3 DEF VolumeInv, Busy, Reading
      <3>5. CredentialsOfOneVersion' /\ ReadSurvivesSwaps'
        BY <1>1, <2>3, <3>2, <3>3 DEF Busy, Reading, CredentialsOfOneVersion, ReadSurvivesSwaps
      <3>6. call.at \in Reading \cup {"request", "failed"}
        BY Zenon, <2>3 DEF Busy
      <3> QED BY Zenon, <1>3, <2>1, <2>3, <3>2, <3>3, <3>4, <3>5, <3>6, KeptStep
    <2> QED BY Zenon, <2>2, <2>3
  <1>6. CASE removeVersion
    <2>1. link' = link /\ dirs' = {link} /\ call' = call /\ plan' = plan
      BY Zenon, <1>6 DEF removeVersion
    <2>2. link' \in 1..MaxVersion /\ dirs' \subseteq 1..MaxVersion
      BY Zenon, <1>1, <2>1
    <2>3. VolumeInv'
      BY <1>1, <2>1 DEF VolumeInv, Busy, Reading
    <2>4. CASE Busy
      <3>1. CredentialsOfOneVersion' /\ ReadSurvivesSwaps'
        BY Zenon, <1>1, <2>1 DEF CredentialsOfOneVersion, ReadSurvivesSwaps
      <3>2. Kept(call', call) /\ call'.at \in Reading \cup {"request", "failed"}
        BY Zenon, <2>1, <2>4 DEF Kept, Busy
      <3> QED BY Zenon, <1>1, <1>3, <2>1, <2>2, <2>3, <2>4, <3>1, <3>2, KeptStep
    <2> QED BY Zenon, <1>4, <2>1, <2>2, <2>3, <2>4
  <1> QED BY Zenon, <1>5, <1>6

\* Others create and delete robots.
LEMMA ChangeFacts ==
    ASSUME TypeOK, plan.changes > 0, plan' = [plan EXCEPT !.changes = @ - 1]
    PROVE  plan' \in Plan /\ harbor' = harbor /\ plan'.versions = plan.versions
  <1> DEFINE n == plan.changes - 1
  <1>1. plan.changes \in 0..MaxChanges /\ MaxChanges \in Nat /\ plan \in Plan
    BY Zenon, HarborClientAssumption DEF TypeOK, Plan
  <1>2. n \in 0..MaxChanges
    BY <1>1
  <1>3. plan' = [plan EXCEPT !.changes = n]
    OBVIOUS
  <1> HIDE DEF n
  <1> QED BY ZenonT(20), <1>1, <1>2, <1>3 DEF Plan, harbor

LEMMA VolumeFrame ==
    ASSUME ClientInv, plan'.versions = plan.versions, UNCHANGED volumeVars,
           \A f \in {"at", "attempt", "base", "user", "pass", "first", "moved", "faults"} :
              call'[f] = call[f]
    PROVE  VolumeInv' /\ CredentialsOfOneVersion' /\ ReadSurvivesSwaps'
  <1>1. link' = link /\ dirs' = dirs
    BY Zenon DEF volumeVars
  <1>2. /\ call'.at = call.at /\ call'.attempt = call.attempt /\ call'.base = call.base
        /\ call'.user = call.user /\ call'.pass = call.pass /\ call'.first = call.first
        /\ call'.moved = call.moved /\ call'.faults = call.faults
    BY Zenon
  <1> QED BY Zenon, <1>1, <1>2
          DEF ClientInv, VolumeInv, CredentialsOfOneVersion, ReadSurvivesSwaps, Busy

LEMMA CreateStep ==
    ASSUME ClientInv, NEW n \in Names, create(n)
    PROVE  ClientInv'
  <1> DEFINE q == [id |-> lastID + 1, name |-> n, editable |-> TRUE]
  <1>1. TypeOK /\ StoreInv /\ robots \subseteq Stored /\ lastID \in 0..MaxID /\ MaxID \in Nat
    BY Zenon, HarborClientAssumption DEF ClientInv, TypeOK
  <1>2. plan' \in Plan /\ harbor' = harbor /\ plan'.versions = plan.versions
    BY Zenon, <1>1, ChangeFacts DEF create
  <1>3. robots' = robots \cup {q} /\ lastID' = lastID + 1 /\ call' = call
        /\ UNCHANGED volumeVars /\ Sigil \notin Range(n)
    BY Zenon DEF create
  <1>4. q \in Stored /\ lastID' \in 0..MaxID
    BY <1>1, <1>3 DEF create, Stored
  <1>5. q.id = lastID + 1 /\ q.name = n /\ q.editable
    OBVIOUS
  <1> HIDE DEF q
  <1>6. \A r \in robots : r.id # q.id /\ r.name # q.name /\ r.id <= lastID'
    <2>1. \A r \in robots : r.id \in 1..MaxID /\ r.id <= lastID /\ r.name # n
      BY Zenon, <1>1 DEF create, StoreInv, Stored
    <2> QED BY <1>1, <1>3, <1>5, <2>1
  <1>7. StoreInv'
    <2>1. Unique(robots')
      BY Zenon, <1>1, <1>3, <1>6 DEF StoreInv, Unique
    <2>2. q.id <= lastID'
      BY <1>1, <1>3, <1>5
    <2> QED BY Zenon, <1>1, <1>2, <1>3, <1>5, <1>6, <2>1, <2>2 DEF StoreInv, Unique
  <1>8. ASSUME NEW h \in Stored, Seen(h) PROVE Seen(h)'
    <2>1. h.id \in 1..MaxID /\ h.id <= lastID
      BY Zenon, <1>8 DEF Stored, Seen
    <2>2. h.id <= lastID' /\ q.id # h.id
      BY <1>1, <1>3, <1>5, <2>1
    <2> QED BY Zenon, <1>3, <1>8, <2>2 DEF Seen
  <1>9. CallInv(call')
    BY Zenon, <1>3 DEF ClientInv
  <1>10. CallInv(call)'
    <2>1. BusyAt(call') => call'.walked \subseteq robots'
      BY Zenon, <1>3, <1>9 DEF CallInv, WalkInv
    <2> QED BY Zenon, <1>2, <1>8, <1>9, <2>1, ChangeFrame
  <1>11. VolumeInv' /\ CredentialsOfOneVersion' /\ ReadSurvivesSwaps'
    BY Zenon, <1>2, <1>3, VolumeFrame
  <1>12. TypeOK'
    BY Zenon, <1>1, <1>2, <1>3, <1>4 DEF TypeOK, volumeVars
  <1> QED BY Zenon, <1>7, <1>10, <1>11, <1>12 DEF ClientInv

LEMMA DeleteStep ==
    ASSUME ClientInv, NEW q \in robots, delete(q)
    PROVE  ClientInv'
  <1>1. TypeOK /\ StoreInv /\ CallInv(call) /\ call \in Call
    BY Zenon DEF ClientInv, CallInv
  <1>2. plan' \in Plan /\ harbor' = harbor /\ plan'.versions = plan.versions
    BY Zenon, <1>1, ChangeFacts DEF delete
  <1>3. robots' = robots \ {q} /\ lastID' = lastID /\ UNCHANGED volumeVars
    BY Zenon DEF delete
  <1>4. StoreInv'
    BY Zenon, <1>1, <1>2, <1>3 DEF StoreInv, Unique
  <1>5. ASSUME NEW h \in Stored, Seen(h) PROVE Seen(h)'
    BY Zenon, <1>3, <1>5 DEF Seen
  <1>6. \A f \in {"at", "attempt", "base", "user", "pass", "first", "moved", "faults"} :
           call'[f] = call[f]
    BY ZenonT(20), <1>1 DEF delete, Call
  <1>7. CallInv(call') /\ (BusyAt(call') => call'.walked \subseteq robots')
    <2>1. CASE ~Busy
      BY Zenon, <1>1, <2>1 DEF delete, BusyAt, Busy
    <2>2. CASE Busy
      <3>1. /\ call' \in Call /\ call'.since = call.since \ {q}
            /\ call'.walked = call.walked \ {q} /\ call'.at = call.at
            /\ call'.name = call.name /\ call'.lookup = call.lookup
            /\ call'.filter = call.filter /\ call'.cursor = call.cursor
            /\ call'.out = call.out /\ call'.hit = call.hit
        BY ZenonT(20), <1>1, <2>2 DEF delete, Call
      <3>2. WalkInv(call) /\ LookupInv(call)
        BY Zenon, <1>1, <2>2 DEF CallInv, BusyAt, Busy
      <3>3. WalkInv(call')
        BY Zenon, <3>1, <3>2 DEF WalkInv, Matches
      <3>4. HitInv(call) => HitInv(call')
        BY Zenon, <3>1 DEF HitInv
      <3>5. NoneStored(call) => NoneStored(call')
        BY Zenon, <3>1 DEF NoneStored
      <3>6. LookupInv(call')
        BY Zenon, <3>1, <3>2, <3>4, <3>5 DEF LookupInv
      <3>7. call'.at \notin {"listed", "notFound", "mismatch"}
        BY <2>2, <3>1 DEF Busy, Reading
      <3>8. AnswerInv(call')
        BY Zenon, <3>7 DEF AnswerInv
      <3>9. call'.walked \subseteq robots'
        BY Zenon, <1>3, <3>1, <3>2 DEF WalkInv
      <3> QED BY Zenon, <3>1, <3>3, <3>6, <3>8, <3>9 DEF CallInv
    <2> QED BY Zenon, <2>1, <2>2
  <1>8. CallInv(call)'
    BY Zenon, <1>2, <1>5, <1>7, ChangeFrame
  <1>9. VolumeInv' /\ CredentialsOfOneVersion' /\ ReadSurvivesSwaps'
    BY Zenon, <1>2, <1>3, <1>6, VolumeFrame
  <1>10. TypeOK'
    BY Zenon, <1>1, <1>2, <1>3, <1>7 DEF TypeOK, volumeVars, CallInv
  <1> QED BY Zenon, <1>4, <1>8, <1>9, <1>10 DEF ClientInv

-----------------------------------------------------------------------------
LEMMA ClientInit == Init => ClientInv
  <1> SUFFICES ASSUME Init PROVE ClientInv
    OBVIOUS
  <1>1. /\ plan \in Plan /\ plan \in Plans /\ robots = plan.robots /\ robots \subseteq Stored
        /\ link = 1 /\ dirs = {1} /\ call = NoCall /\ plan.versions \in 1..MaxVersion
    BY Zenon, HarborClientAssumption DEF Init, Plan
  <1> DEFINE S == {r.id : r \in robots} \cup {0}
  <1>2. S \in SUBSET (0..MaxID) /\ 0 \in S /\ MaxID \in Nat
    BY <1>1, HarborClientAssumption DEF Stored
  <1>3. lastID = Max(S)
    BY Zenon DEF Init
  <1>4. \A r \in robots : r.id \in S
    BY Zenon
  <1> HIDE DEF S
  <1>5. lastID \in S /\ \A i \in S : i <= lastID
    BY Zenon, <1>2, <1>3, MaxIsGreatest
  <1>6. StoreInv
    BY Zenon, <1>1, <1>4, <1>5, HarborAssumption DEF StoreInv, Unique, harbor
  <1>7. link \in 1..MaxVersion /\ dirs \subseteq 1..MaxVersion /\ link <= plan.versions
    BY <1>1, HarborClientAssumption
  <1>8. TypeOK
    BY Zenon, <1>1, <1>2, <1>5, <1>7, NoCallType DEF TypeOK
  <1>9. call.at = "idle" /\ call.at \notin Reading \cup {"request"}
    BY <1>1 DEF NoCall, Reading
  <1>10. CallInv(call)
    BY <1>8, <1>9 DEF CallInv, AnswerInv, BusyAt, TypeOK
  <1>11. VolumeInv /\ CredentialsOfOneVersion /\ ReadSurvivesSwaps
    BY <1>1, <1>7, <1>9 DEF VolumeInv, CredentialsOfOneVersion, ReadSurvivesSwaps, Busy, Reading
  <1> QED BY Zenon, <1>6, <1>8, <1>10, <1>11 DEF ClientInv

LEMMA ClientNext ==
    ASSUME ClientInv, [Next]_vars
    PROVE  ClientInv'
  <1>1. CASE ReadStep
    BY Zenon, <1>1, CredentialStep
  <1>2. CASE listPage
    BY Zenon, <1>2, AnswerStep
  <1>3. CASE List \/ \E n \in Wanted : GetByName(n)
    BY Zenon, <1>3, BeginStep
  <1>4. CASE \E n \in Names : create(n)
    BY Zenon, <1>4, CreateStep
  <1>5. CASE \E r \in robots : delete(r)
    BY Zenon, <1>5, DeleteStep
  <1>6. CASE replaceVersion \/ removeVersion
    BY Zenon, <1>6, VersionStep
  <1>7. CASE UNCHANGED vars
    <2>1. UNCHANGED <<plan, harborVars>> /\ UNCHANGED volumeVars /\ call' = call
      BY Zenon, <1>7 DEF vars
    <2>2. CallInv(call') /\ plan'.versions = plan.versions
      BY Zenon, <2>1 DEF ClientInv
    <2>3. VolumeInv' /\ CredentialsOfOneVersion' /\ ReadSurvivesSwaps'
      BY Zenon, <2>1, <2>2, VolumeFrame
    <2> QED BY Zenon, <2>1, <2>2, <2>3, CallFrame, StoreFrame
            DEF ClientInv, TypeOK, volumeVars
  <1> QED BY Zenon, <1>1, <1>2, <1>3, <1>4, <1>5, <1>6, <1>7 DEF Next, Client, ReadStep

LEMMA ClientInvariant == Spec => []ClientInv
  <1>1. ClientInv /\ [Next]_vars => ClientInv'
    BY Zenon, ClientNext
  <1> QED BY ClientInit, <1>1, PTL DEF Spec

\* The state of the client, Harbor and the volume keeps its types, however many
\* robots, versions of the Secret and pages there are.
THEOREM ClientTypes == Spec => []TypeOK
  <1>1. ClientInv => TypeOK
    BY Zenon DEF ClientInv
  <1> QED BY <1>1, ClientInvariant, PTL

\* What List returns holds every robot stored all the time the listing took, and
\* none twice, for every page size and every interleaving with other users of
\* Harbor: the cursor on the ID never skips one (list, listPage).
THEOREM ListingIsComplete == Spec => []ListingComplete
  <1>1. ClientInv => ListingComplete
    BY Zenon DEF ClientInv, CallInv, AnswerInv, ListingComplete
  <1> QED BY <1>1, ClientInvariant, PTL

\* GetByName reports a name as not found only if no robot was stored under it
\* all the time of its three lookups, so that ensureRobot creates none in vain.
THEOREM NotFoundIsAbsent == Spec => []NotFoundMeansAbsent
  <1>1. ClientInv => NotFoundMeansAbsent
    BY Zenon DEF ClientInv, CallInv, AnswerInv, NoneStored, NotFoundMeansAbsent
  <1> QED BY <1>1, ClientInvariant, PTL

\* ErrPrefixMismatch is reported only where Harbor's prefix is another one than
\* the configured one, or the robot of the hit was deleted meanwhile.
THEOREM MismatchesAreReal == Spec => []MismatchIsReal
  <1>1. ClientInv => MismatchIsReal
    BY Zenon DEF ClientInv, CallInv, AnswerInv, MismatchIsReal
  <1> QED BY <1>1, ClientInvariant, PTL

\* readAdminCredsDir never pairs the username of one version of the Secret with
\* the password of another, whenever kubelet replaces and removes versions.
THEOREM OneVersion == Spec => []CredentialsOfOneVersion
  <1>1. ClientInv => CredentialsOfOneVersion
    BY Zenon DEF ClientInv
  <1> QED BY <1>1, ClientInvariant, PTL

\* readAdminCredsDir gives up on a complete version only after as many swaps and
\* failures of Readlink as it makes attempts.
THEOREM ReadsSurviveSwaps == Spec => []ReadSurvivesSwaps
  <1>1. ClientInv => ReadSurvivesSwaps
    BY Zenon DEF ClientInv
  <1> QED BY <1>1, ClientInvariant, PTL
=============================================================================
