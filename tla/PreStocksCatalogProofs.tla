------------------------ MODULE PreStocksCatalogProofs ------------------------
(***************************************************************************)
(* Theorems about the catalogue's cache and its shared fetch, for any number *)
(* of callers and promises, any lifetime of the cache and any timeout.       *)
(*                                                                           *)
(* The code keeps two variables; what makes them safe is who still waits.    *)
(* WaitInv ties inFlightFetch to the one caller that started the fetch and   *)
(* will clear it, and every promise that is under way or has settled to      *)
(* somebody who waits for it, so that no result grows old unread.  AgeInv    *)
(* adds up the ages: a response ages under its timer, then in the cache.     *)
(***************************************************************************)
EXTENDS PreStocksCatalog, TLAPS

CacheRecord == [age : 0 .. CATALOG_CACHE_TTL, copy : Copies]
FetchRecord == [phase : {"unused", "sent", "replied", "resolved", "rejected"},
                left : 0 .. FETCH_TIMEOUT, copy : Copies \cup {NoCatalog},
                settledFor : 0 .. 1]
CallerRecord == [phase : {"idle", "waiting", "answered"},
                 on : Fetches \cup {NoFetch}, starter : BOOLEAN,
                 status : {"none", "OBSERVED", "UNAVAILABLE"},
                 copy : Copies \cup {NoCatalog}, failureAge : 0 .. 1]

ShapeInv ==
    /\ upstream \in Entries
    /\ catalogCache \in CacheRecord \cup {NoCatalog}
    /\ inFlightFetch \in Fetches \cup {NoFetch}
    /\ fetches \in [Fetches -> FetchRecord]
    /\ callers \in [Callers -> CallerRecord]

Waits(c, f) == callers[c].phase = "waiting" /\ callers[c].on = f
Starts(c, f) == Waits(c, f) /\ callers[c].starter = TRUE

\* Who waits for what: the fetch to join is the one whose starter waits, there
\* is one such caller, no other fetch is under way, and every promise that is
\* not garbage has somebody waiting for it.
WaitInv ==
    /\ \A c \in Callers : callers[c].phase = "waiting" =>
           callers[c].on \in Fetches /\ fetches[callers[c].on].phase # "unused"
    /\ inFlightFetch # NoFetch => \E c \in Callers : Starts(c, inFlightFetch)
    /\ \A c \in Callers, f \in Fetches : Starts(c, f) => inFlightFetch = f
    /\ \A c, d \in Callers, f \in Fetches : Starts(c, f) /\ Starts(d, f) => c = d
    /\ \A f \in Fetches : Pending(f) => inFlightFetch = f
    /\ \A f \in Fetches : Settled(f) => \E c \in Callers : Waits(c, f)

\* How far behind PreStocks a copy can be, by where it is and for how long.
AgeInv ==
    /\ \A f \in Fetches : fetches[f].phase \in {"replied", "resolved"} =>
           fetches[f].copy \in Copies /\ fetches[f].copy.behind + fetches[f].left <= 1 + FETCH_TIMEOUT
    /\ catalogCache # NoCatalog /\ catalogCache.age < CATALOG_CACHE_TTL =>
           catalogCache.copy.behind <= 1 + FETCH_TIMEOUT + catalogCache.age
    /\ \A f \in Fetches : fetches[f].settledFor = 0
    /\ AnswersAreRecent
    /\ \A c \in Callers : callers[c].failureAge = 0

CatalogInv == ShapeInv /\ WaitInv /\ AgeInv

-----------------------------------------------------------------------------
(* The operators on copies and promises. *)

\* The constants, and a promise is never "none".
LEMMA Bounds == CATALOG_CACHE_TTL \in Nat /\ FETCH_TIMEOUT \in Nat /\ MaxBehind \in Nat /\ NoFetch \notin Fetches
  BY CatalogAssumption DEF MaxBehind

\* A copy that is replaced upstream is one behind from then on.
LEMMA ReplaceCopy ==
    ASSUME NEW copy \in Copies
    PROVE  /\ Replace(copy) \in Copies
           /\ Replace(copy).behind <= 1 \/ Replace(copy).behind <= copy.behind
  <1>1. copy.behind \in 0 .. MaxBehind /\ 1 \in 0 .. MaxBehind
    BY Bounds DEF Copies, MaxBehind
  <1>2. CASE copy = NoCatalog \/ copy.behind > 0
    <2>1. Replace(copy) = copy
      BY <1>2 DEF Replace
    <2> QED BY <1>1, <2>1
  <1>3. CASE ~(copy = NoCatalog \/ copy.behind > 0)
    <2>1. Replace(copy) = [copy EXCEPT !.behind = 1]
      BY <1>3 DEF Replace
    <2> QED BY <1>1, <2>1 DEF Copies
  <1> QED BY <1>2, <1>3

\* In a tick it falls behind by one more, if it is behind at all.
LEMMA AgeCopy ==
    ASSUME NEW copy \in Copies
    PROVE  /\ Age(copy) \in Copies
           /\ Age(copy).behind <= copy.behind + 1
  <1>1. copy.behind \in 0 .. MaxBehind /\ MaxBehind \in Nat
    BY Bounds DEF Copies
  <1>2. CASE copy = NoCatalog \/ copy.behind = 0
    <2>1. Age(copy) = copy
      BY <1>2 DEF Age
    <2> QED BY <1>1, <2>1
  <1>3. CASE ~(copy = NoCatalog \/ copy.behind = 0)
    <2>1. Age(copy) = [copy EXCEPT !.behind = Older(copy.behind, MaxBehind)]
      BY <1>3 DEF Age
    <2>2. Older(copy.behind, MaxBehind) \in 0 .. MaxBehind /\ Older(copy.behind, MaxBehind) <= copy.behind + 1
      BY <1>1 DEF Older
    <2> QED BY <2>1, <2>2 DEF Copies
  <1> QED BY <1>2, <1>3

\* No copy stays none.
LEMMA NoCopy == Replace(NoCatalog) = NoCatalog /\ Age(NoCatalog) = NoCatalog
  BY DEF Replace, Age

\* The records the actions make.
LEMMA Records ==
    /\ Unused \in FetchRecord
    /\ Idle \in CallerRecord
    /\ \A entry \in Entries : [entry |-> entry, behind |-> 0] \in Copies
  <1>1. 0 \in 0 .. FETCH_TIMEOUT /\ 0 \in 0 .. 1 /\ 0 \in 0 .. MaxBehind
    BY Bounds
  <1>2. Unused \in FetchRecord
    BY <1>1 DEF Unused, FetchRecord
  <1>3. Idle \in CallerRecord
    BY <1>1 DEF Idle, CallerRecord
  <1>4. ASSUME NEW entry \in Entries PROVE [entry |-> entry, behind |-> 0] \in Copies
    BY <1>1 DEF Copies
  <1> QED BY <1>2, <1>3, <1>4

\* The evidence of a copy is an answer that carries it.
LEMMA EvidenceRecord ==
    ASSUME NEW copy \in Copies
    PROVE  /\ Evidence(copy) \in CallerRecord
           /\ Evidence(copy).phase = "answered" /\ Evidence(copy).copy = copy /\ Evidence(copy).failureAge = 0
  <1> DEFINE status == IF copy.entry = "priced" THEN "OBSERVED" ELSE "UNAVAILABLE"
  <1>1. Evidence(copy) = [Idle EXCEPT !.phase = "answered", !.copy = copy, !.status = status]
    BY DEF Evidence
  <1>2. status \in {"OBSERVED", "UNAVAILABLE"}
    OBVIOUS
  <1>3. Idle \in CallerRecord /\ Idle.failureAge = 0
    BY Records DEF Idle
  <1> HIDE DEF status
  <1> QED BY <1>1, <1>2, <1>3 DEF CallerRecord

\* What the elements of the state are.
LEMMA TypesOfState ==
    ASSUME ShapeInv, NEW f \in Fetches, NEW c \in Callers
    PROVE  fetches[f] \in FetchRecord /\ callers[c] \in CallerRecord
  BY DEF ShapeInv

\* The module is loaded: nothing cached, nothing under way, nobody waiting.
LEMMA CatalogInitInv == Init => CatalogInv
  <1> SUFFICES ASSUME Init PROVE CatalogInv
    OBVIOUS
  <1>1. ShapeInv
    BY Records DEF Init, ShapeInv
  <1>2. /\ \A f \in Fetches : fetches[f].phase = "unused" /\ fetches[f].settledFor = 0
        /\ \A c \in Callers : callers[c].phase = "idle" /\ callers[c].failureAge = 0
        /\ inFlightFetch = NoFetch /\ catalogCache = NoCatalog
    BY DEF Init, Unused, Idle
  <1>3. WaitInv
    BY <1>2 DEF WaitInv, Waits, Starts, Pending, Settled
  <1>4. AgeInv
    BY <1>2 DEF AgeInv, AnswersAreRecent
  <1> QED BY <1>1, <1>3, <1>4 DEF CatalogInv

-----------------------------------------------------------------------------
(* One lemma for each action. *)

\* One caller that was idle or answered goes on, and nobody's promise changes:
\* it waits for nothing, before or after.
LEMMA CallerChanges ==
    ASSUME CatalogInv, NEW c \in Callers, NEW r \in CallerRecord,
           callers[c].phase # "waiting", r.phase # "waiting", r.failureAge = 0,
           r.phase = "answered" /\ r.copy # NoCatalog =>
               \/ r.copy.behind <= 1 + FETCH_TIMEOUT
               \/ r.copy.behind <= CATALOG_CACHE_TTL + FETCH_TIMEOUT,
           callers' = [callers EXCEPT ![c] = r],
           UNCHANGED <<upstream, catalogCache, inFlightFetch, fetches>>
    PROVE  CatalogInv'
  <1>1. callers \in [Callers -> CallerRecord]
    BY DEF CatalogInv, ShapeInv
  <1>2. \A d \in Callers : callers'[d] = IF d = c THEN r ELSE callers[d]
    BY <1>1
  <1>3. ShapeInv'
    BY <1>1 DEF CatalogInv, ShapeInv
  <1>4. \A d \in Callers : \A f : Waits(d, f)' <=> Waits(d, f)
    BY <1>2 DEF Waits
  <1>5. \A d \in Callers : \A f : Starts(d, f)' <=> Starts(d, f)
    BY <1>2 DEF Starts, Waits
  <1>6. \A d \in Callers : callers'[d].phase = "waiting" => callers[d].phase = "waiting" /\ callers'[d] = callers[d]
    BY <1>2
  <1>7. WaitInv'
    BY <1>4, <1>5, <1>6 DEF CatalogInv, WaitInv, Pending, Settled
  <1>8. AgeInv'
    <2>1. AnswersAreRecent'
      BY <1>2 DEF CatalogInv, AgeInv, AnswersAreRecent
    <2>2. \A d \in Callers : callers'[d].failureAge = 0
      BY <1>2 DEF CatalogInv, AgeInv
    <2> QED BY <2>1, <2>2 DEF CatalogInv, AgeInv
  <1> QED BY <1>3, <1>7, <1>8 DEF CatalogInv

\* A fresh cache is less than its lifetime old, and so is what it says.
LEMMA ServeFromCacheStep ==
    ASSUME CatalogInv, NEW c \in Callers, ServeFromCache(c)
    PROVE  CatalogInv'
  <1>1. catalogCache # NoCatalog /\ catalogCache.age < CATALOG_CACHE_TTL
    BY DEF ServeFromCache, CacheFresh
  <1>2. catalogCache.age \in 0 .. CATALOG_CACHE_TTL /\ catalogCache.copy \in Copies
    BY <1>1 DEF CatalogInv, ShapeInv, CacheRecord
  <1> DEFINE copy == catalogCache.copy
             r == Evidence(copy)
  <1>3. r \in CallerRecord /\ r.phase = "answered" /\ r.copy = copy /\ r.failureAge = 0
    BY <1>2, EvidenceRecord
  <1>4. copy.behind <= CATALOG_CACHE_TTL + FETCH_TIMEOUT
    <2>1. copy.behind <= 1 + FETCH_TIMEOUT + catalogCache.age
      BY <1>1 DEF CatalogInv, AgeInv
    <2>2. copy.behind \in Nat
      BY <1>2, Bounds DEF Copies
    <2> QED BY <1>1, <1>2, <2>1, <2>2, Bounds
  <1>5. /\ callers[c].phase # "waiting"
        /\ callers' = [callers EXCEPT ![c] = r]
        /\ UNCHANGED <<upstream, catalogCache, inFlightFetch, fetches>>
    BY DEF ServeFromCache
  <1> HIDE DEF r, copy
  <1> QED BY <1>3, <1>4, <1>5, CallerChanges

\* A caller with an answer leaves nothing behind.
LEMMA LeaveStep ==
    ASSUME CatalogInv, NEW c \in Callers, Leave(c)
    PROVE  CatalogInv'
  <1>1. /\ callers[c].phase # "waiting"
        /\ callers' = [callers EXCEPT ![c] = Idle]
        /\ UNCHANGED <<upstream, catalogCache, inFlightFetch, fetches>>
    BY DEF Leave
  <1>2. Idle.phase = "idle" /\ Idle.failureAge = 0
    BY DEF Idle
  <1> QED BY <1>1, <1>2, Records, CallerChanges

\* A second caller joins: the promise exists, for its starter waits for it.
LEMMA JoinFetchStep ==
    ASSUME CatalogInv, NEW c \in Callers, JoinFetch(c)
    PROVE  CatalogInv'
  <1> DEFINE r == [Idle EXCEPT !.phase = "waiting", !.on = inFlightFetch]
  <1>1. /\ callers[c].phase = "idle" /\ inFlightFetch # NoFetch
        /\ callers' = [callers EXCEPT ![c] = r]
        /\ UNCHANGED <<upstream, catalogCache, inFlightFetch, fetches>>
    BY DEF JoinFetch, Joins
  <1>2. /\ callers \in [Callers -> CallerRecord] /\ inFlightFetch \in Fetches
    BY <1>1 DEF CatalogInv, ShapeInv
  <1>3. r \in CallerRecord /\ r.phase = "waiting" /\ r.on = inFlightFetch /\ r.starter = FALSE /\ r.failureAge = 0
    <2>1. Idle \in CallerRecord /\ Idle.starter = FALSE /\ Idle.failureAge = 0
      BY Records DEF Idle
    <2> QED BY <1>2, <2>1 DEF CallerRecord
  <1> HIDE DEF r
  <1>4. \A d \in Callers : callers'[d] = IF d = c THEN r ELSE callers[d]
    BY <1>1, <1>2
  <1>5. ShapeInv'
    BY <1>1, <1>2, <1>3 DEF CatalogInv, ShapeInv
  <1>6. fetches[inFlightFetch].phase # "unused"
    BY <1>1, <1>2 DEF CatalogInv, WaitInv, Starts, Waits
  <1>7. \A d \in Callers, f \in Fetches : Starts(d, f)' <=> Starts(d, f)
    BY <1>1, <1>3, <1>4 DEF Starts, Waits
  <1>8. \A d \in Callers, f \in Fetches : Waits(d, f) => Waits(d, f)'
    BY <1>1, <1>4 DEF Waits
  <1>9. WaitInv'
    <2>1. \A d \in Callers : callers'[d].phase = "waiting" =>
              callers'[d].on \in Fetches /\ fetches'[callers'[d].on].phase # "unused"
      BY <1>1, <1>2, <1>3, <1>4, <1>6 DEF CatalogInv, WaitInv
    <2> QED BY <1>1, <1>2, <1>7, <1>8, <2>1 DEF CatalogInv, WaitInv, Pending, Settled
  <1>10. AgeInv'
    <2>1. AnswersAreRecent'
      BY <1>3, <1>4 DEF CatalogInv, AgeInv, AnswersAreRecent
    <2>2. \A d \in Callers : callers'[d].failureAge = 0
      BY <1>3, <1>4 DEF CatalogInv, AgeInv
    <2> QED BY <1>1, <2>1, <2>2 DEF CatalogInv, AgeInv
  <1> QED BY <1>5, <1>9, <1>10 DEF CatalogInv

\* A fetch starts only where none is joined, so where none is under way.
LEMMA StartFetchStep ==
    ASSUME CatalogInv, NEW c \in Callers, NEW f \in Fetches, StartFetch(c, f)
    PROVE  CatalogInv'
  <1> DEFINE r == [Idle EXCEPT !.phase = "waiting", !.on = f, !.starter = TRUE]
             p == [Unused EXCEPT !.phase = "sent", !.left = FETCH_TIMEOUT]
  <1>1. /\ callers[c].phase = "idle" /\ inFlightFetch = NoFetch /\ fetches[f] = Unused
        /\ callers' = [callers EXCEPT ![c] = r]
        /\ fetches' = [fetches EXCEPT ![f] = p]
        /\ inFlightFetch' = f
        /\ UNCHANGED <<upstream, catalogCache>>
    BY DEF StartFetch, Joins
  <1>2. callers \in [Callers -> CallerRecord] /\ fetches \in [Fetches -> FetchRecord]
    BY DEF CatalogInv, ShapeInv
  <1>3. r \in CallerRecord /\ r.phase = "waiting" /\ r.on = f /\ r.starter = TRUE /\ r.failureAge = 0
    <2>1. Idle \in CallerRecord /\ Idle.failureAge = 0
      BY Records DEF Idle
    <2> QED BY <2>1 DEF CallerRecord
  <1>4. p \in FetchRecord /\ p.phase = "sent" /\ p.settledFor = 0
    <2>1. Unused \in FetchRecord /\ Unused.settledFor = 0 /\ FETCH_TIMEOUT \in 0 .. FETCH_TIMEOUT
      BY Records, Bounds DEF Unused
    <2> QED BY <2>1 DEF FetchRecord
  <1>5. fetches[f].phase = "unused"
    BY <1>1 DEF Unused
  <1> HIDE DEF r, p
  <1>6. \A d \in Callers : callers'[d] = IF d = c THEN r ELSE callers[d]
    BY <1>1, <1>2
  <1>7. \A g \in Fetches : fetches'[g] = IF g = f THEN p ELSE fetches[g]
    BY <1>1, <1>2
  <1>8. ShapeInv'
    BY <1>1, <1>2, <1>3, <1>4 DEF CatalogInv, ShapeInv
  <1>9. \A d \in Callers, g \in Fetches : ~Starts(d, g) /\ ~Pending(g)
    BY <1>1, Bounds DEF CatalogInv, WaitInv
  <1>10. \A d \in Callers : callers[d].phase = "waiting" =>
             d # c /\ callers[d].on \in Fetches /\ callers[d].on # f /\ fetches[callers[d].on].phase # "unused"
    BY <1>1, <1>5 DEF CatalogInv, WaitInv
  <1>11. \A d \in Callers, g \in Fetches : Starts(d, g)' => d = c /\ g = f
    BY <1>3, <1>6, <1>9 DEF Starts, Waits
  <1>12. Starts(c, f)'
    BY <1>3, <1>6 DEF Starts, Waits
  <1>13. WaitInv'
    <2>1. \A d \in Callers : callers'[d].phase = "waiting" =>
              callers'[d].on \in Fetches /\ fetches'[callers'[d].on].phase # "unused"
      BY <1>3, <1>4, <1>6, <1>7, <1>10
    <2>2. \A g \in Fetches : Pending(g)' => g = f
      BY <1>7, <1>9 DEF Pending
    <2>3. ASSUME NEW g \in Fetches, Settled(g)'
          PROVE  \E d \in Callers : Waits(d, g)'
      <3>1. Settled(g)
        BY <1>4, <1>7, <2>3 DEF Settled
      <3>2. PICK d \in Callers : Waits(d, g)
        BY <3>1 DEF CatalogInv, WaitInv
      <3> QED BY <1>6, <1>10, <3>2 DEF Waits
    <2> QED BY <1>1, <1>11, <1>12, <2>1, <2>2, <2>3 DEF WaitInv
  <1>14. AgeInv'
    <2>1. AnswersAreRecent'
      BY <1>3, <1>6 DEF CatalogInv, AgeInv, AnswersAreRecent
    <2>2. \A d \in Callers : callers'[d].failureAge = 0
      BY <1>3, <1>6 DEF CatalogInv, AgeInv
    <2>3. \A g \in Fetches : fetches'[g].settledFor = 0
      BY <1>4, <1>7 DEF CatalogInv, AgeInv
    <2>4. \A g \in Fetches : fetches'[g].phase \in {"replied", "resolved"} => fetches'[g] = fetches[g]
      BY <1>4, <1>7
    <2> QED BY <1>1, <2>1, <2>2, <2>3, <2>4 DEF CatalogInv, AgeInv
  <1> QED BY <1>8, <1>13, <1>14 DEF CatalogInv

\* The promise that is under way moves on, and its starter still waits for it.
LEMMA FetchChanges ==
    ASSUME CatalogInv, NEW f \in Fetches, Pending(f), NEW p \in FetchRecord,
           p.phase \in {"replied", "resolved", "rejected"}, p.settledFor = 0,
           p.phase \in {"replied", "resolved"} => p.copy \in Copies /\ p.copy.behind + p.left <= 1 + FETCH_TIMEOUT,
           fetches' = [fetches EXCEPT ![f] = p],
           catalogCache' \in CacheRecord \cup {NoCatalog},
           catalogCache' # NoCatalog /\ catalogCache'.age < CATALOG_CACHE_TTL =>
               catalogCache'.copy.behind <= 1 + FETCH_TIMEOUT + catalogCache'.age,
           UNCHANGED <<upstream, inFlightFetch, callers>>
    PROVE  CatalogInv'
  <1>1. fetches \in [Fetches -> FetchRecord]
    BY DEF CatalogInv, ShapeInv
  <1>2. \A g \in Fetches : fetches'[g] = IF g = f THEN p ELSE fetches[g]
    BY <1>1
  <1>3. ShapeInv'
    BY <1>1 DEF CatalogInv, ShapeInv
  <1>4. \A d \in Callers : \A g : (Waits(d, g)' <=> Waits(d, g)) /\ (Starts(d, g)' <=> Starts(d, g))
    BY DEF Starts, Waits
  <1>5. PICK c \in Callers : Waits(c, f)
    BY Bounds DEF CatalogInv, WaitInv, Starts
  <1>6. WaitInv'
    <2>1. \A d \in Callers : callers'[d].phase = "waiting" =>
              callers'[d].on \in Fetches /\ fetches'[callers'[d].on].phase # "unused"
      BY <1>2 DEF CatalogInv, WaitInv
    <2>2. \A g \in Fetches : Pending(g)' => Pending(g)
      BY <1>2 DEF Pending
    <2>3. \A g \in Fetches : Settled(g)' => g = f \/ Settled(g)
      BY <1>2 DEF Settled
    <2>4. \A g \in Fetches : Settled(g)' => \E d \in Callers : Waits(d, g)'
      BY <1>4, <1>5, <2>3 DEF CatalogInv, WaitInv
    <2>5. inFlightFetch' # NoFetch => \E d \in Callers : Starts(d, inFlightFetch)'
      BY <1>4 DEF CatalogInv, WaitInv
    <2> QED BY <1>4, <2>1, <2>2, <2>4, <2>5 DEF CatalogInv, WaitInv
  <1>7. AgeInv'
    <2>1. AnswersAreRecent'
      BY DEF CatalogInv, AgeInv, AnswersAreRecent
    <2>2. \A g \in Fetches : fetches'[g].settledFor = 0
      BY <1>2 DEF CatalogInv, AgeInv
    <2>3. \A g \in Fetches : fetches'[g].phase \in {"replied", "resolved"} =>
              fetches'[g].copy \in Copies /\ fetches'[g].copy.behind + fetches'[g].left <= 1 + FETCH_TIMEOUT
      BY <1>2 DEF CatalogInv, AgeInv
    <2> QED BY <2>1, <2>2, <2>3 DEF CatalogInv, AgeInv
  <1> QED BY <1>3, <1>6, <1>7 DEF CatalogInv

\* A response is up to date when it is made.
LEMMA UpstreamRepliesStep ==
    ASSUME CatalogInv, NEW f \in Fetches, UpstreamReplies(f)
    PROVE  CatalogInv'
  <1> DEFINE copy == [entry |-> upstream, behind |-> 0]
             p == [fetches[f] EXCEPT !.phase = "replied", !.copy = copy]
  <1>1. /\ Pending(f)
        /\ fetches' = [fetches EXCEPT ![f] = p]
        /\ UNCHANGED <<upstream, catalogCache, inFlightFetch, callers>>
    BY DEF UpstreamReplies, Pending
  <1>2. copy \in Copies /\ copy.behind = 0
    BY Records DEF CatalogInv, ShapeInv
  <1>3. fetches[f] \in FetchRecord
    BY DEF CatalogInv, ShapeInv
  <1> HIDE DEF copy
  <1>4. p \in FetchRecord /\ p.phase = "replied" /\ p.copy = copy /\ p.left = fetches[f].left /\ p.settledFor = 0
    BY <1>2, <1>3 DEF FetchRecord, CatalogInv, AgeInv
  <1> HIDE DEF p
  <1>5. p.copy.behind + p.left <= 1 + FETCH_TIMEOUT
    <2>1. p.left \in 0 .. FETCH_TIMEOUT
      BY <1>3, <1>4 DEF FetchRecord
    <2> QED BY <1>2, <1>4, <2>1, Bounds
  <1>6. /\ catalogCache \in CacheRecord \cup {NoCatalog}
        /\ catalogCache # NoCatalog /\ catalogCache.age < CATALOG_CACHE_TTL =>
               catalogCache.copy.behind <= 1 + FETCH_TIMEOUT + catalogCache.age
    BY DEF CatalogInv, ShapeInv, AgeInv
  <1> QED BY <1>1, <1>2, <1>4, <1>5, <1>6, FetchChanges

\* It reaches the cache before its timer fires, so no older than the timer allows.
LEMMA FetchSucceedsStep ==
    ASSUME CatalogInv, NEW f \in Fetches, FetchSucceeds(f)
    PROVE  CatalogInv'
  <1> DEFINE p == [fetches[f] EXCEPT !.phase = "resolved"]
             cache == [age |-> 0, copy |-> fetches[f].copy]
  <1>1. /\ Pending(f) /\ fetches[f].phase = "replied"
        /\ fetches' = [fetches EXCEPT ![f] = p]
        /\ catalogCache' = cache
        /\ UNCHANGED <<upstream, inFlightFetch, callers>>
    BY DEF FetchSucceeds, Pending
  <1>2. fetches[f] \in FetchRecord
    BY DEF CatalogInv, ShapeInv
  <1>3. /\ fetches[f].copy \in Copies
        /\ fetches[f].copy.behind + fetches[f].left <= 1 + FETCH_TIMEOUT
        /\ fetches[f].settledFor = 0
    BY <1>1 DEF CatalogInv, AgeInv
  <1>4. /\ p \in FetchRecord /\ p.phase = "resolved" /\ p.copy = fetches[f].copy
        /\ p.left = fetches[f].left /\ p.settledFor = 0
    BY <1>2, <1>3 DEF FetchRecord
  <1>5. cache \in CacheRecord /\ cache.age = 0 /\ cache.copy = fetches[f].copy
    BY <1>3, Bounds DEF CacheRecord
  <1>6. cache.copy.behind <= 1 + FETCH_TIMEOUT + cache.age
    <2>1. fetches[f].copy.behind \in Nat /\ fetches[f].left \in Nat
      BY <1>2, <1>3, Bounds DEF FetchRecord, Copies
    <2> QED BY <1>3, <1>5, <2>1, Bounds
  <1> HIDE DEF p, cache
  <1> QED BY <1>1, <1>3, <1>4, <1>5, <1>6, FetchChanges

\* A failure leaves the cache as it was; its starter is there to clear the fetch.
LEMMA FetchFailsStep ==
    ASSUME CatalogInv, NEW f \in Fetches, FetchFails(f)
    PROVE  CatalogInv'
  <1> DEFINE p == [fetches[f] EXCEPT !.phase = "rejected", !.copy = NoCatalog]
  <1>1. /\ Pending(f)
        /\ fetches' = [fetches EXCEPT ![f] = p]
        /\ UNCHANGED <<upstream, catalogCache, inFlightFetch, callers>>
    BY DEF FetchFails
  <1>2. fetches[f] \in FetchRecord /\ fetches[f].settledFor = 0
    BY DEF CatalogInv, ShapeInv, AgeInv
  <1>3. p \in FetchRecord /\ p.phase = "rejected" /\ p.settledFor = 0
    BY <1>2 DEF FetchRecord
  <1> HIDE DEF p
  <1>4. /\ catalogCache \in CacheRecord \cup {NoCatalog}
        /\ catalogCache # NoCatalog /\ catalogCache.age < CATALOG_CACHE_TTL =>
               catalogCache.copy.behind <= 1 + FETCH_TIMEOUT + catalogCache.age
    BY DEF CatalogInv, ShapeInv, AgeInv
  <1> QED BY <1>1, <1>3, <1>4, FetchChanges

\* A waiter takes the result; the starter also clears the fetch, which is then
\* its own, and the last one out leaves nothing behind.
LEMMA ResumeStep ==
    ASSUME CatalogInv, NEW c \in Callers, Resume(c)
    PROVE  CatalogInv'
  <1>0. PICK f \in Fetches : f = callers[c].on
    BY DEF Resume, CatalogInv, WaitInv
  <1> DEFINE r == Answer(f)
  <1>1. /\ Waits(c, f) /\ Settled(f)
        /\ callers' = [callers EXCEPT ![c] = r]
        /\ inFlightFetch' = IF callers[c].starter THEN NoFetch ELSE inFlightFetch
        /\ fetches' = Collect(f)
        /\ UNCHANGED <<upstream, catalogCache>>
    BY <1>0 DEF Resume, AfterFinally, Waits
  <1>2. /\ callers \in [Callers -> CallerRecord] /\ fetches \in [Fetches -> FetchRecord]
        /\ inFlightFetch \in Fetches \cup {NoFetch}
    BY DEF CatalogInv, ShapeInv
  <1>3. callers[c].starter \in BOOLEAN /\ fetches[f] \in FetchRecord
    BY <1>2 DEF CallerRecord
  <1>4. /\ r \in CallerRecord /\ r.phase = "answered" /\ r.failureAge = 0
        /\ r.copy # NoCatalog => r.copy.behind <= 1 + FETCH_TIMEOUT
    <2>1. CASE fetches[f].phase = "resolved"
      <3>1. fetches[f].copy \in Copies /\ fetches[f].copy.behind + fetches[f].left <= 1 + FETCH_TIMEOUT
        BY <1>2, <2>1 DEF CatalogInv, AgeInv
      <3>2. fetches[f].copy.behind <= 1 + FETCH_TIMEOUT
        <4>1. fetches[f].copy.behind \in Nat /\ fetches[f].left \in Nat
          BY <1>3, <3>1, Bounds DEF FetchRecord, Copies
        <4> QED BY <3>1, <4>1, Bounds
      <3>3. r = Evidence(fetches[f].copy)
        BY <2>1 DEF Answer
      <3> QED BY <3>1, <3>2, <3>3, EvidenceRecord
    <2>2. CASE fetches[f].phase # "resolved"
      <3>1. r = [Idle EXCEPT !.phase = "answered", !.status = "UNAVAILABLE", !.failureAge = 0]
        BY <1>2, <2>2 DEF Answer, CatalogInv, AgeInv
      <3>2. Idle \in CallerRecord /\ Idle.copy = NoCatalog /\ 0 \in 0 .. 1
        BY Records DEF Idle
      <3> QED BY <3>1, <3>2 DEF CallerRecord
    <2> QED BY <2>1, <2>2
  <1> HIDE DEF r
  <1>5. \A d \in Callers : callers'[d] = IF d = c THEN r ELSE callers[d]
    BY <1>1, <1>2
  <1>6. \A d \in Callers, g \in Fetches : (Waits(d, g)' <=> (d # c /\ Waits(d, g)))
                                         /\ (Starts(d, g)' <=> (d # c /\ Starts(d, g)))
    BY <1>4, <1>5 DEF Waits, Starts
  <1>7. callers[c].starter = TRUE => Starts(c, f) /\ inFlightFetch = f
    BY <1>1, <1>2 DEF CatalogInv, WaitInv, Starts
  <1>8. \/ /\ fetches' = fetches
           /\ inFlightFetch' = f \/ \E d \in Callers : Waits(d, f)'
        \/ /\ fetches' = [fetches EXCEPT ![f] = Unused]
           /\ inFlightFetch' # f /\ \A d \in Callers : ~Waits(d, f)'
    BY <1>1 DEF Collect, Waits
  <1>9. \A g \in Fetches : fetches'[g] = fetches[g] \/ (g = f /\ fetches'[g] = Unused /\ (\A d \in Callers : ~Waits(d, f)'))
    BY <1>2, <1>8
  <1>10. ShapeInv'
    <2>1. fetches' \in [Fetches -> FetchRecord]
      BY <1>2, <1>8, Records
    <2> QED BY <1>1, <1>2, <1>4, <2>1 DEF CatalogInv, ShapeInv
  <1>11. Unused.phase = "unused" /\ Unused.settledFor = 0
    BY DEF Unused
  <1>12. \A g \in Fetches : (Pending(g)' => Pending(g)) /\ (Settled(g)' => Settled(g))
    BY <1>9, <1>11 DEF Pending, Settled
  <1>13. ~Pending(f)
    BY <1>1 DEF Pending, Settled
  <1>14. WaitInv'
    <2>1. ASSUME NEW d \in Callers, callers'[d].phase = "waiting"
          PROVE  callers'[d].on \in Fetches /\ fetches'[callers'[d].on].phase # "unused"
      <3>1. d # c /\ callers'[d] = callers[d]
        BY <1>4, <1>5, <2>1
      <3>2. callers[d].on \in Fetches /\ fetches[callers[d].on].phase # "unused"
        BY <2>1, <3>1 DEF CatalogInv, WaitInv
      <3>3. (\A e \in Callers : ~Waits(e, f)') => callers[d].on # f
        BY <2>1, <3>1 DEF Waits
      <3>4. fetches'[callers[d].on] = fetches[callers[d].on]
        BY <1>9, <3>2, <3>3
      <3> QED BY <3>1, <3>2, <3>4
    <2>2. inFlightFetch' # NoFetch => \E d \in Callers : Starts(d, inFlightFetch)'
      <3> SUFFICES ASSUME inFlightFetch' # NoFetch PROVE \E d \in Callers : Starts(d, inFlightFetch)'
        OBVIOUS
      <3>1. inFlightFetch' = inFlightFetch /\ callers[c].starter = FALSE
        BY <1>1, <1>3
      <3>2. PICK d \in Callers : Starts(d, inFlightFetch)
        BY <3>1 DEF CatalogInv, WaitInv
      <3>3. d # c
        BY <3>1, <3>2 DEF Starts
      <3>4. Starts(d, inFlightFetch)'
        BY <1>5, <3>1, <3>2, <3>3 DEF Starts, Waits
      <3> QED BY <3>4
    <2>3. ASSUME NEW d \in Callers, NEW g \in Fetches, Starts(d, g)'
          PROVE  inFlightFetch' = g
      <3>1. d # c /\ Starts(d, g) /\ inFlightFetch = g
        BY <1>6, <2>3 DEF CatalogInv, WaitInv
      <3>2. callers[c].starter # TRUE
        BY <1>2, <1>7, <3>1 DEF CatalogInv, WaitInv
      <3> QED BY <1>1, <1>3, <3>1, <3>2
    <2>4. \A d, e \in Callers, g \in Fetches : Starts(d, g)' /\ Starts(e, g)' => d = e
      BY <1>6 DEF CatalogInv, WaitInv
    <2>5. ASSUME NEW g \in Fetches, Pending(g)'
          PROVE  inFlightFetch' = g
      <3>1. inFlightFetch = g /\ g # f
        BY <1>12, <1>13, <2>5 DEF CatalogInv, WaitInv
      <3> QED BY <1>1, <1>3, <1>7, <3>1
    <2>6. ASSUME NEW g \in Fetches, Settled(g)'
          PROVE  \E d \in Callers : Waits(d, g)'
      <3>1. CASE g # f
        <4>1. PICK d \in Callers : Waits(d, g)
          BY <1>12, <2>6 DEF CatalogInv, WaitInv
        <4>2. d # c
          BY <1>1, <3>1, <4>1 DEF Waits
        <4> QED BY <1>6, <4>1, <4>2
      <3>2. CASE g = f
        <4>1. fetches'[f] # Unused
          BY <1>11, <2>6, <3>2 DEF Settled
        <4>2. inFlightFetch' = f \/ \E d \in Callers : Waits(d, f)'
          BY <1>2, <1>8, <4>1
        <4>3. f # NoFetch
          BY <1>2, Bounds
        <4>4. inFlightFetch' = f => \E d \in Callers : Starts(d, inFlightFetch)'
          BY <2>2, <4>3
        <4>5. inFlightFetch' = f => \E d \in Callers : Waits(d, f)'
          <5> SUFFICES ASSUME inFlightFetch' = f PROVE \E d \in Callers : Waits(d, f)'
            OBVIOUS
          <5>1. PICK d \in Callers : Starts(d, inFlightFetch)'
            BY <4>4
          <5>2. callers'[d].phase = "waiting" /\ callers'[d].on = f
            BY <5>1 DEF Starts, Waits
          <5>3. callers[d].phase = "waiting" /\ callers[d].on = f /\ d # c
            BY <1>4, <1>5, <5>2
          <5> QED BY <1>6, <5>3 DEF Waits
        <4> QED BY <3>2, <4>2, <4>5
      <3> QED BY <3>1, <3>2
    <2> QED BY <2>1, <2>2, <2>3, <2>4, <2>5, <2>6 DEF WaitInv
  <1>15. AgeInv'
    <2>1. AnswersAreRecent'
      BY <1>4, <1>5 DEF CatalogInv, AgeInv, AnswersAreRecent
    <2>2. \A d \in Callers : callers'[d].failureAge = 0
      BY <1>4, <1>5 DEF CatalogInv, AgeInv
    <2>3. \A g \in Fetches : fetches'[g].settledFor = 0
      BY <1>9, <1>11 DEF CatalogInv, AgeInv
    <2>4. \A g \in Fetches : fetches'[g].phase \in {"replied", "resolved"} => fetches'[g] = fetches[g]
      BY <1>9, <1>11
    <2> QED BY <1>1, <2>1, <2>2, <2>3, <2>4 DEF CatalogInv, AgeInv
  <1> QED BY <1>10, <1>14, <1>15 DEF CatalogInv

\* What only changes copies and ages changes nothing about who waits for what.
LEMMA SameWaits ==
    ASSUME WaitInv, inFlightFetch' = inFlightFetch,
           \A c \in Callers : /\ callers'[c].phase = callers[c].phase
                              /\ callers'[c].on = callers[c].on
                              /\ callers'[c].starter = callers[c].starter,
           \A f \in Fetches : fetches'[f].phase = fetches[f].phase
    PROVE  WaitInv'
  <1>1. \A d \in Callers : \A g : (Waits(d, g)' <=> Waits(d, g)) /\ (Starts(d, g)' <=> Starts(d, g))
    BY DEF Starts, Waits
  <1>2. \A f \in Fetches : (Pending(f)' <=> Pending(f)) /\ (Settled(f)' <=> Settled(f))
    BY DEF Pending, Settled
  <1>3. \A c \in Callers : callers'[c].phase = "waiting" =>
            callers'[c].on \in Fetches /\ fetches'[callers'[c].on].phase # "unused"
    BY DEF WaitInv
  <1>4. inFlightFetch' # NoFetch => \E c \in Callers : Starts(c, inFlightFetch)'
    BY DEF WaitInv, Starts, Waits
  <1> QED BY <1>1, <1>2, <1>3, <1>4 DEF WaitInv

\* PreStocks replaces the entry: every copy of it is one behind from now on.
LEMMA UpstreamChangesStep ==
    ASSUME CatalogInv, UpstreamChanges
    PROVE  CatalogInv'
  <1>1. /\ upstream' \in Entries /\ inFlightFetch' = inFlightFetch
        /\ catalogCache' = IF catalogCache = NoCatalog THEN NoCatalog
                           ELSE [catalogCache EXCEPT !.copy = Replace(catalogCache.copy)]
        /\ \A f \in Fetches : fetches'[f] = [fetches[f] EXCEPT !.copy = Replace(fetches[f].copy)]
        /\ \A c \in Callers : callers'[c] = [callers[c] EXCEPT !.copy = Replace(callers[c].copy)]
        /\ fetches' = [f \in Fetches |-> fetches'[f]]
        /\ callers' = [c \in Callers |-> callers'[c]]
    BY DEF UpstreamChanges
  <1>2. /\ \A f \in Fetches : fetches[f] \in FetchRecord
        /\ \A c \in Callers : callers[c] \in CallerRecord
        /\ catalogCache \in CacheRecord \cup {NoCatalog}
        /\ inFlightFetch \in Fetches \cup {NoFetch}
    BY DEF CatalogInv, ShapeInv
  <1>3. \A copy \in Copies \cup {NoCatalog} : Replace(copy) \in Copies \cup {NoCatalog}
    BY ReplaceCopy, NoCopy
  <1>4. ASSUME NEW f \in Fetches
        PROVE  /\ fetches'[f] \in FetchRecord
               /\ fetches'[f].phase = fetches[f].phase /\ fetches'[f].left = fetches[f].left
               /\ fetches'[f].settledFor = fetches[f].settledFor
               /\ fetches'[f].copy = Replace(fetches[f].copy)
    BY <1>1, <1>2, <1>3 DEF FetchRecord
  <1>5. ASSUME NEW c \in Callers
        PROVE  /\ callers'[c] \in CallerRecord
               /\ callers'[c].phase = callers[c].phase /\ callers'[c].on = callers[c].on
               /\ callers'[c].starter = callers[c].starter /\ callers'[c].failureAge = callers[c].failureAge
               /\ callers'[c].copy = Replace(callers[c].copy)
    BY <1>1, <1>2, <1>3 DEF CallerRecord
  <1>6. \A copy \in Copies : copy.behind \in Nat /\ Replace(copy).behind \in Nat
    BY ReplaceCopy, Bounds DEF Copies
  <1>7. catalogCache' # NoCatalog => /\ catalogCache # NoCatalog /\ catalogCache \in CacheRecord
                                     /\ catalogCache'.age = catalogCache.age
                                     /\ catalogCache'.copy = Replace(catalogCache.copy)
    BY <1>1, <1>2 DEF CacheRecord
  <1>8. ShapeInv'
    <2>1. catalogCache' \in CacheRecord \cup {NoCatalog}
      BY <1>1, <1>2, ReplaceCopy DEF CacheRecord
    <2>2. fetches' \in [Fetches -> FetchRecord]
      BY <1>1, <1>4
    <2>3. callers' \in [Callers -> CallerRecord]
      BY <1>1, <1>5
    <2> QED BY <1>1, <1>2, <2>1, <2>2, <2>3 DEF ShapeInv
  <1>9. WaitInv'
    BY <1>1, <1>4, <1>5, SameWaits DEF CatalogInv
  <1>10. AgeInv'
    <2>1. ASSUME NEW f \in Fetches, fetches'[f].phase \in {"replied", "resolved"}
          PROVE  fetches'[f].copy \in Copies /\ fetches'[f].copy.behind + fetches'[f].left <= 1 + FETCH_TIMEOUT
      <3>1. fetches[f].copy \in Copies /\ fetches[f].copy.behind + fetches[f].left <= 1 + FETCH_TIMEOUT
        BY <1>4, <2>1 DEF CatalogInv, AgeInv
      <3>2. fetches[f].left \in 0 .. FETCH_TIMEOUT
        BY <1>2 DEF FetchRecord
      <3>3. \/ Replace(fetches[f].copy).behind <= 1
            \/ Replace(fetches[f].copy).behind <= fetches[f].copy.behind
        BY <3>1, ReplaceCopy
      <3>4. Replace(fetches[f].copy).behind + fetches[f].left <= 1 + FETCH_TIMEOUT
        BY <1>6, <3>1, <3>2, <3>3, Bounds
      <3> QED BY <1>4, <3>1, <3>4, ReplaceCopy
    <2>2. catalogCache' # NoCatalog /\ catalogCache'.age < CATALOG_CACHE_TTL =>
              catalogCache'.copy.behind <= 1 + FETCH_TIMEOUT + catalogCache'.age
      <3> SUFFICES ASSUME catalogCache' # NoCatalog, catalogCache'.age < CATALOG_CACHE_TTL
                   PROVE  catalogCache'.copy.behind <= 1 + FETCH_TIMEOUT + catalogCache'.age
        OBVIOUS
      <3>1. catalogCache.copy \in Copies /\ catalogCache.age \in Nat
        BY <1>7, Bounds DEF CacheRecord
      <3>2. catalogCache.copy.behind <= 1 + FETCH_TIMEOUT + catalogCache.age
        BY <1>7 DEF CatalogInv, AgeInv
      <3>3. \/ Replace(catalogCache.copy).behind <= 1
            \/ Replace(catalogCache.copy).behind <= catalogCache.copy.behind
        BY <3>1, ReplaceCopy
      <3>4. Replace(catalogCache.copy).behind <= 1 + FETCH_TIMEOUT + catalogCache.age
        BY <1>6, <3>1, <3>2, <3>3, Bounds
      <3> QED BY <1>7, <3>4
    <2>3. \A f \in Fetches : fetches'[f].settledFor = 0
      BY <1>4 DEF CatalogInv, AgeInv
    <2>4. AnswersAreRecent'
      <3> SUFFICES ASSUME NEW c \in Callers, callers'[c].phase = "answered", callers'[c].copy # NoCatalog
                   PROVE  \/ callers'[c].copy.behind <= 1 + FETCH_TIMEOUT
                          \/ callers'[c].copy.behind <= CATALOG_CACHE_TTL + FETCH_TIMEOUT
        BY DEF AnswersAreRecent
      <3>1. callers[c].phase = "answered" /\ callers[c].copy # NoCatalog /\ callers[c].copy \in Copies
        BY <1>2, <1>5, NoCopy DEF CallerRecord
      <3>2. \/ callers[c].copy.behind <= 1 + FETCH_TIMEOUT
            \/ callers[c].copy.behind <= CATALOG_CACHE_TTL + FETCH_TIMEOUT
        BY <3>1 DEF CatalogInv, AgeInv, AnswersAreRecent
      <3>3. \/ Replace(callers[c].copy).behind <= 1
            \/ Replace(callers[c].copy).behind <= callers[c].copy.behind
        BY <3>1, ReplaceCopy
      <3>4. \/ Replace(callers[c].copy).behind <= 1 + FETCH_TIMEOUT
            \/ Replace(callers[c].copy).behind <= CATALOG_CACHE_TTL + FETCH_TIMEOUT
        BY <1>6, <3>1, <3>2, <3>3, Bounds
      <3> QED BY <1>5, <3>4
    <2>5. \A c \in Callers : callers'[c].failureAge = 0
      BY <1>5 DEF CatalogInv, AgeInv
    <2> QED BY <2>1, <2>2, <2>3, <2>4, <2>5 DEF AgeInv
  <1> QED BY <1>8, <1>9, <1>10 DEF CatalogInv

\* A tick finds no settled promise, for somebody would wait for it, and no
\* answer that is not used yet: what ages is the cache and the response that is
\* under way, and that one's timer runs.
LEMMA TickStep ==
    ASSUME CatalogInv, Tick
    PROVE  CatalogInv'
  <1>1. /\ \A f \in Fetches : Pending(f) => fetches[f].left > 0
        /\ \A c \in Callers : callers[c].phase = "waiting" => ~Settled(callers[c].on)
        /\ \A c \in Callers : callers[c].phase # "answered"
        /\ catalogCache' = IF catalogCache = NoCatalog THEN NoCatalog
                           ELSE [age |-> Older(catalogCache.age, CATALOG_CACHE_TTL),
                                 copy |-> Age(catalogCache.copy)]
        /\ fetches' = [f \in Fetches |->
               [fetches[f] EXCEPT !.left = IF Pending(f) THEN fetches[f].left - 1 ELSE fetches[f].left,
                                  !.copy = Age(fetches[f].copy),
                                  !.settledFor = IF Settled(f) THEN Older(fetches[f].settledFor, 1)
                                                 ELSE fetches[f].settledFor]]
        /\ UNCHANGED <<upstream, inFlightFetch, callers>>
    BY DEF Tick
  <1>2. /\ \A f \in Fetches : fetches[f] \in FetchRecord
        /\ catalogCache \in CacheRecord \cup {NoCatalog}
    BY DEF CatalogInv, ShapeInv
  <1>3. \A f \in Fetches : ~Settled(f)
    BY <1>1 DEF CatalogInv, WaitInv, Waits
  <1>4. ASSUME NEW f \in Fetches
        PROVE  /\ fetches'[f] \in FetchRecord
               /\ fetches'[f].phase = fetches[f].phase /\ fetches'[f].settledFor = 0
               /\ fetches'[f].copy = Age(fetches[f].copy)
               /\ Pending(f) => fetches[f].left > 0 /\ fetches'[f].left = fetches[f].left - 1
    <2> DEFINE left == IF Pending(f) THEN fetches[f].left - 1 ELSE fetches[f].left
    <2>1. fetches[f].left \in 0 .. FETCH_TIMEOUT /\ fetches[f].settledFor = 0
      BY <1>2 DEF FetchRecord, CatalogInv, AgeInv
    <2>2. left \in 0 .. FETCH_TIMEOUT
      <3>1. Pending(f) => fetches[f].left > 0
        BY <1>1
      <3> QED BY <2>1, <3>1, Bounds
    <2>3. fetches[f].copy \in Copies \cup {NoCatalog} /\ Age(fetches[f].copy) \in Copies \cup {NoCatalog}
      BY <1>2, AgeCopy, NoCopy DEF FetchRecord
    <2>4. fetches'[f] = [fetches[f] EXCEPT !.left = left, !.copy = Age(fetches[f].copy), !.settledFor = 0]
      BY <1>1, <1>3, <2>1
    <2>5. Pending(f) => fetches[f].left > 0 /\ left = fetches[f].left - 1
      BY <1>1
    <2> HIDE DEF left
    <2>6. 0 \in 0 .. 1
      OBVIOUS
    <2> QED BY <1>2, <2>2, <2>3, <2>4, <2>5, <2>6 DEF FetchRecord
  <1>5. ShapeInv'
    <2>1. fetches' \in [Fetches -> FetchRecord]
      BY <1>1, <1>4
    <2>2. catalogCache' \in CacheRecord \cup {NoCatalog}
      <3>1. ASSUME catalogCache # NoCatalog
            PROVE  catalogCache' \in CacheRecord
        <4>1. catalogCache.age \in 0 .. CATALOG_CACHE_TTL /\ catalogCache.copy \in Copies
          BY <1>2, <3>1 DEF CacheRecord
        <4>2. Older(catalogCache.age, CATALOG_CACHE_TTL) \in 0 .. CATALOG_CACHE_TTL
          BY <4>1, Bounds DEF Older
        <4>3. Age(catalogCache.copy) \in Copies
          BY <4>1, AgeCopy
        <4> QED BY <1>1, <3>1, <4>2, <4>3 DEF CacheRecord
      <3> QED BY <1>1, <3>1
    <2> QED BY <1>1, <2>1, <2>2 DEF CatalogInv, ShapeInv
  <1>6. WaitInv'
    BY <1>1, <1>4, SameWaits DEF CatalogInv
  <1>7. AgeInv'
    <2>1. ASSUME NEW f \in Fetches, fetches'[f].phase \in {"replied", "resolved"}
          PROVE  fetches'[f].copy \in Copies /\ fetches'[f].copy.behind + fetches'[f].left <= 1 + FETCH_TIMEOUT
      <3>1. Pending(f) /\ fetches[f].phase = "replied"
        BY <1>3, <1>4, <2>1 DEF Pending, Settled
      <3>2. fetches[f].copy \in Copies /\ fetches[f].copy.behind + fetches[f].left <= 1 + FETCH_TIMEOUT
        BY <3>1 DEF CatalogInv, AgeInv
      <3>3. Age(fetches[f].copy) \in Copies /\ Age(fetches[f].copy).behind <= fetches[f].copy.behind + 1
        BY <3>2, AgeCopy
      <3>4. fetches[f].copy.behind \in Nat /\ Age(fetches[f].copy).behind \in Nat /\ fetches[f].left \in Nat
        BY <1>2, <3>2, <3>3, Bounds DEF Copies, FetchRecord
      <3>5. Age(fetches[f].copy).behind + (fetches[f].left - 1) <= 1 + FETCH_TIMEOUT
        BY <3>2, <3>3, <3>4, Bounds
      <3> QED BY <1>4, <3>1, <3>3, <3>5
    <2>2. ASSUME catalogCache' # NoCatalog, catalogCache'.age < CATALOG_CACHE_TTL
          PROVE  catalogCache'.copy.behind <= 1 + FETCH_TIMEOUT + catalogCache'.age
      <3>1. /\ catalogCache # NoCatalog
            /\ catalogCache'.age = Older(catalogCache.age, CATALOG_CACHE_TTL)
            /\ catalogCache'.copy = Age(catalogCache.copy)
        BY <1>1, <2>2
      <3>2. catalogCache.age \in 0 .. CATALOG_CACHE_TTL /\ catalogCache.copy \in Copies
        BY <1>2, <3>1 DEF CacheRecord
      <3>3. catalogCache.age < CATALOG_CACHE_TTL /\ catalogCache'.age = catalogCache.age + 1
        BY <2>2, <3>1, <3>2, Bounds DEF Older
      <3>4. catalogCache.copy.behind <= 1 + FETCH_TIMEOUT + catalogCache.age
        BY <3>1, <3>3 DEF CatalogInv, AgeInv
      <3>5. Age(catalogCache.copy) \in Copies /\ Age(catalogCache.copy).behind <= catalogCache.copy.behind + 1
        BY <3>2, AgeCopy
      <3>6. catalogCache.copy.behind \in Nat /\ Age(catalogCache.copy).behind \in Nat /\ catalogCache.age \in Nat
        BY <3>2, <3>5, Bounds DEF Copies
      <3>7. Age(catalogCache.copy).behind <= 1 + FETCH_TIMEOUT + (catalogCache.age + 1)
        BY <3>4, <3>5, <3>6, Bounds
      <3> QED BY <3>1, <3>3, <3>7
    <2>3. AnswersAreRecent' /\ \A c \in Callers : callers'[c].failureAge = 0
      BY <1>1 DEF CatalogInv, AgeInv, AnswersAreRecent
    <2> QED BY <1>4, <2>1, <2>2, <2>3 DEF AgeInv
  <1> QED BY <1>5, <1>6, <1>7 DEF CatalogInv

\* Nothing happens.
LEMMA CatalogStutter ==
    ASSUME CatalogInv, UNCHANGED vars
    PROVE  CatalogInv'
  <1>1. UNCHANGED <<upstream, catalogCache, inFlightFetch, fetches, callers>>
    BY DEF vars
  <1>2. ShapeInv' /\ AgeInv'
    BY <1>1 DEF CatalogInv, ShapeInv, AgeInv, AnswersAreRecent
  <1>3. WaitInv'
    BY <1>1, SameWaits DEF CatalogInv
  <1> QED BY <1>2, <1>3 DEF CatalogInv

-----------------------------------------------------------------------------
(* Theorems. *)

\* CatalogInv is inductive: it holds in every state of every run.
THEOREM CatalogInvHolds == Spec => []CatalogInv
  <1>1. Init => CatalogInv
    BY CatalogInitInv
  <1>2. CatalogInv /\ [Next]_vars => CatalogInv'
    BY ServeFromCacheStep, JoinFetchStep, StartFetchStep, UpstreamRepliesStep, FetchSucceedsStep, FetchFailsStep,
       ResumeStep, LeaveStep, UpstreamChangesStep, TickStep, CatalogStutter DEF Next, TimesOut
  <1> QED BY <1>1, <1>2, PTL DEF Spec

\* Cache, shared fetch, promises and callers keep their types; nobody waits for
\* a promise that is gone, and one that can be joined has its starter waiting.
THEOREM CatalogTypeCorrect == Spec => []CatalogTypeOK
  <1>1. CatalogInv => CatalogTypeOK
    <2> SUFFICES ASSUME CatalogInv PROVE CatalogTypeOK
      OBVIOUS
    <2>1. ASSUME NEW c \in Callers, callers[c].phase = "waiting"
          PROVE  callers[c].on \in Fetches /\ fetches[callers[c].on] # Unused
      BY <2>1 DEF CatalogInv, WaitInv, Unused
    <2>2. inFlightFetch # NoFetch =>
              \E c \in Callers : callers[c].phase = "waiting" /\ callers[c].on = inFlightFetch /\ callers[c].starter
      BY DEF CatalogInv, WaitInv, Starts, Waits
    <2>3. /\ upstream \in Entries
          /\ catalogCache \in CacheRecord \cup {NoCatalog}
          /\ inFlightFetch \in Fetches \cup {NoFetch}
          /\ fetches \in [Fetches -> FetchRecord]
          /\ callers \in [Callers -> CallerRecord]
      BY DEF CatalogInv, ShapeInv
    <2> QED BY <2>1, <2>2, <2>3, Zenon DEF CatalogTypeOK, CacheRecord, FetchRecord, CallerRecord
  <1> QED BY <1>1, CatalogInvHolds, PTL

\* Nobody is told of an entry that was replaced longer ago than one fetch, or
\* the cache's lifetime and one fetch together, whatever the two are set to.
THEOREM RecentAnswers == Spec => []AnswersAreRecent
  <1>1. CatalogInv => AnswersAreRecent
    BY DEF CatalogInv, AgeInv
  <1> QED BY <1>1, CatalogInvHolds, PTL

\* A failed fetch is told to those who waited for it, at once, and never again.
THEOREM FailuresStayFresh == Spec => []FailuresAreNotReplayed
  <1>1. CatalogInv => FailuresAreNotReplayed
    BY DEF CatalogInv, AgeInv, FailuresAreNotReplayed
  <1> QED BY <1>1, CatalogInvHolds, PTL

\* However many callers come at once, one upstream call runs at a time, and none
\* is made while the cache is fresh.
THEOREM OneCallUpstream == Spec => UpstreamIsSpared
  <1>1. ASSUME CatalogInv, [Next]_vars, NEW f \in Fetches, ~Pending(f), Pending(f)'
        PROVE  /\ \A g \in Fetches : ~Pending(g)
               /\ catalogCache = NoCatalog \/ catalogCache.age >= CATALOG_CACHE_TTL
    <2>1. fetches \in [Fetches -> FetchRecord]
      BY <1>1 DEF CatalogInv, ShapeInv
    <2>2. \A c \in Callers, g \in Fetches : StartFetch(c, g) => ~CacheFresh /\ \A h \in Fetches : ~Pending(h)
      BY <1>1, Bounds DEF StartFetch, Joins, CatalogInv, WaitInv
    <2>3. fetches' # fetches
      BY <1>1 DEF Pending
    <2>4. \A g \in Fetches : ~UpstreamReplies(g) /\ ~FetchSucceeds(g) /\ ~FetchFails(g)
      BY <1>1, <2>1 DEF UpstreamReplies, FetchSucceeds, FetchFails, Pending
    <2>5. ~Tick /\ ~UpstreamChanges
      <3>1. fetches[f] \in FetchRecord
        BY <2>1
      <3>2. Tick => fetches'[f].phase = fetches[f].phase
        <4> DEFINE left == IF Pending(f) THEN fetches[f].left - 1 ELSE fetches[f].left
                   settledFor == IF Settled(f) THEN Older(fetches[f].settledFor, 1) ELSE fetches[f].settledFor
        <4>1. Tick => fetches'[f] = [fetches[f] EXCEPT !.left = left, !.copy = Age(fetches[f].copy),
                                                       !.settledFor = settledFor]
          BY DEF Tick
        <4> HIDE DEF left, settledFor
        <4> QED BY <3>1, <4>1 DEF FetchRecord
      <3>3. UpstreamChanges => fetches'[f].phase = fetches[f].phase
        <4>1. UpstreamChanges => fetches'[f] = [fetches[f] EXCEPT !.copy = Replace(fetches[f].copy)]
          BY DEF UpstreamChanges
        <4> QED BY <3>1, <4>1 DEF FetchRecord
      <3> QED BY <1>1, <3>2, <3>3 DEF Pending
    <2>6. \A c \in Callers : ~Resume(c)
      BY <1>1, <2>1, <2>3 DEF Resume, Collect, Unused, Pending
    <2>7. \E c \in Callers, g \in Fetches : StartFetch(c, g)
      BY <1>1, <2>3, <2>4, <2>5, <2>6 DEF Next, TimesOut, ServeFromCache, JoinFetch, Leave, vars
    <2>8. ~CacheFresh /\ \A g \in Fetches : ~Pending(g)
      BY <2>2, <2>7
    <2>9. catalogCache # NoCatalog => catalogCache.age \in Nat
      BY <1>1, Bounds DEF CatalogInv, ShapeInv, CacheRecord
    <2> QED BY <2>8, <2>9, Bounds DEF CacheFresh
  <1>2. CatalogInv /\ [Next]_vars =>
            [\A f \in Fetches : ~Pending(f) /\ Pending(f)' =>
                /\ \A g \in Fetches : ~Pending(g)
                /\ catalogCache = NoCatalog \/ catalogCache.age >= CATALOG_CACHE_TTL]_vars
    BY <1>1
  <1> QED BY <1>2, CatalogInvHolds, PTL DEF Spec, UpstreamIsSpared
=============================================================================
