--------------------------- MODULE PreStocksCatalog ---------------------------
(***************************************************************************)
(* backend/integrations/prestocks.ts: the only state the API's requests      *)
(* share.  Concurrent callers of getPreStocksEvidence for a catalogued mint  *)
(* go through fetchCatalog, which serves a cache for CATALOG_CACHE_TTL_MS,   *)
(* joins a fetch that is already under way, or starts one.                   *)
(*                                                                           *)
(* The code between two awaits is one step.  A promise that settled wakes    *)
(* its waiters one by one, in any order and with other callers in between,   *)
(* but before the clock moves on: microtasks go before timers.  The promise  *)
(* objects are told apart ("fetches"), so that nothing but the code keeps    *)
(* two fetches from running at once.                                         *)
(*                                                                           *)
(* Time is relative and clocks do not jump: ages count ticks.  How old a     *)
(* copy of the catalogue is, is history: "behind" is 0 while PreStocks still *)
(* publishes it, and then one more than the ticks since it was replaced.     *)
(***************************************************************************)
EXTENDS Naturals

CONSTANTS
    Callers,
    Fetches,            \* identities of the promises in flight
    NoFetch,            \* inFlightFetch = null
    NoCatalog,          \* catalogCache = null; an answer without a catalogue
    CATALOG_CACHE_TTL,  \* both in ticks; zero, as either may be set to, is no time
    FETCH_TIMEOUT

ASSUME CatalogAssumption ==
    /\ CATALOG_CACHE_TTL \in Nat
    /\ FETCH_TIMEOUT \in Nat
    /\ NoFetch \notin Fetches

\* What the catalogue says of the asset: an entry with a finite mark price, an
\* entry without one, or none.
Entries == {"priced", "mark_price_invalid", "asset_missing_from_catalog_response"}

\* More than any answer may reach, so that the bound hides nothing.
MaxBehind == CATALOG_CACHE_TTL + FETCH_TIMEOUT + 2
Copies == [entry : Entries, behind : 0 .. MaxBehind]

VARIABLES
    upstream,       \* the entry PreStocks publishes
    catalogCache,   \* a copy and its age, or NoCatalog
    inFlightFetch,  \* the fetch callers join, or NoFetch
    fetches,        \* each promise's state
    callers         \* each caller's state

vars == <<upstream, catalogCache, inFlightFetch, fetches, callers>>

Unused == [phase |-> "unused", left |-> 0, copy |-> NoCatalog, settledFor |-> 0]
Idle == [phase |-> "idle", on |-> NoFetch, starter |-> FALSE, status |-> "none",
         copy |-> NoCatalog, failureAge |-> 0]

Pending(f) == fetches[f].phase \in {"sent", "replied"}
Settled(f) == fetches[f].phase \in {"resolved", "rejected"}

Older(age, bound) == IF age < bound THEN age + 1 ELSE bound
Age(copy) == IF copy = NoCatalog \/ copy.behind = 0 THEN copy
             ELSE [copy EXCEPT !.behind = Older(@, MaxBehind)]
Replace(copy) == IF copy = NoCatalog \/ copy.behind > 0 THEN copy ELSE [copy EXCEPT !.behind = 1]

-----------------------------------------------------------------------------
(* fetchCatalog and getPreStocksEvidence. *)

Init ==
    /\ upstream \in Entries
    /\ catalogCache = NoCatalog
    /\ inFlightFetch = NoFetch
    /\ fetches = [f \in Fetches |-> Unused]
    /\ callers = [c \in Callers |-> Idle]

\* Faulty variant: the age of the cache is not looked at.
CacheFresh_Always == catalogCache # NoCatalog

CacheFresh == catalogCache # NoCatalog /\ catalogCache.age < CATALOG_CACHE_TTL

\* The evidence a caller makes of the entry it finds in a catalogue.
Evidence(copy) ==
    [Idle EXCEPT !.phase = "answered", !.copy = copy,
                 !.status = IF copy.entry = "priced" THEN "OBSERVED" ELSE "UNAVAILABLE"]

ServeFromCache(c) ==
    /\ callers[c].phase = "idle"
    /\ CacheFresh
    /\ callers' = [callers EXCEPT ![c] = Evidence(catalogCache.copy)]
    /\ UNCHANGED <<upstream, catalogCache, inFlightFetch, fetches>>

\* Faulty variant: each caller fetches for itself.
Joins_Never == FALSE

Joins == inFlightFetch # NoFetch

JoinFetch(c) ==
    /\ callers[c].phase = "idle"
    /\ ~CacheFresh
    /\ Joins
    /\ callers' = [callers EXCEPT ![c] = [Idle EXCEPT !.phase = "waiting", !.on = inFlightFetch]]
    /\ UNCHANGED <<upstream, catalogCache, inFlightFetch, fetches>>

StartFetch(c, f) ==
    /\ callers[c].phase = "idle"
    /\ ~CacheFresh
    /\ ~Joins
    /\ fetches[f] = Unused
    /\ fetches' = [fetches EXCEPT ![f] = [Unused EXCEPT !.phase = "sent", !.left = FETCH_TIMEOUT]]
    /\ inFlightFetch' = f
    /\ callers' = [callers EXCEPT ![c] =
           [Idle EXCEPT !.phase = "waiting", !.on = f, !.starter = TRUE]]
    /\ UNCHANGED <<upstream, catalogCache>>

\* PreStocks makes its response, of what it publishes at this moment.
UpstreamReplies(f) ==
    /\ fetches[f].phase = "sent"
    /\ fetches' = [fetches EXCEPT ![f].phase = "replied",
                                  ![f].copy = [entry |-> upstream, behind |-> 0]]
    /\ UNCHANGED <<upstream, catalogCache, inFlightFetch, callers>>

\* The body arrived and is a JSON array.
FetchSucceeds(f) ==
    /\ fetches[f].phase = "replied"
    /\ fetches' = [fetches EXCEPT ![f].phase = "resolved"]
    /\ catalogCache' = [age |-> 0, copy |-> fetches[f].copy]
    /\ UNCHANGED <<upstream, inFlightFetch, callers>>

\* A network error, an HTTP status, an empty body, a body that is not JSON or
\* not an array: the cache stays as it was.
FetchFails(f) ==
    /\ Pending(f)
    /\ fetches' = [fetches EXCEPT ![f].phase = "rejected", ![f].copy = NoCatalog]
    /\ UNCHANGED <<upstream, catalogCache, inFlightFetch, callers>>

\* Faulty variant: the timer is cleared when the response begins.
TimerFires_HeadersOnly(f) == fetches[f].phase = "sent" /\ fetches[f].left = 0

\* AbortSignal.timeout covers the response and its body.
TimerFires(f) == Pending(f) /\ fetches[f].left = 0

TimesOut(f) ==
    /\ TimerFires(f)
    /\ FetchFails(f)

\* Faulty variant: only the happy path clears the fetch.
AfterFinally_OnSuccess(f) == IF fetches[f].phase = "resolved" THEN NoFetch ELSE f

\* The finally clause of the caller that started the fetch.
AfterFinally(f) == NoFetch

Answer(f) ==
    IF fetches[f].phase = "resolved" THEN Evidence(fetches[f].copy)
    ELSE [Idle EXCEPT !.phase = "answered", !.status = "UNAVAILABLE",
                      !.failureAge = fetches[f].settledFor]

\* A promise nobody waits for and nobody can join is garbage.
Collect(f) ==
    IF inFlightFetch' = f \/ (\E c \in Callers : callers'[c].phase = "waiting" /\ callers'[c].on = f)
    THEN fetches
    ELSE [fetches EXCEPT ![f] = Unused]

Resume(c) ==
    LET f == callers[c].on IN
    /\ callers[c].phase = "waiting"
    /\ Settled(f)
    /\ callers' = [callers EXCEPT ![c] = Answer(f)]
    /\ inFlightFetch' = IF callers[c].starter THEN AfterFinally(f) ELSE inFlightFetch
    /\ fetches' = Collect(f)
    /\ UNCHANGED <<upstream, catalogCache>>

\* The caller goes on with its answer and may come back with another request.
Leave(c) ==
    /\ callers[c].phase = "answered"
    /\ callers' = [callers EXCEPT ![c] = Idle]
    /\ UNCHANGED <<upstream, catalogCache, inFlightFetch, fetches>>

(* Outside. *)

UpstreamChanges ==
    /\ upstream' \in Entries \ {upstream}
    /\ catalogCache' = IF catalogCache = NoCatalog THEN NoCatalog
                       ELSE [catalogCache EXCEPT !.copy = Replace(@)]
    /\ fetches' = [f \in Fetches |-> [fetches[f] EXCEPT !.copy = Replace(@)]]
    /\ callers' = [c \in Callers |-> [callers[c] EXCEPT !.copy = Replace(@)]]
    /\ UNCHANGED inFlightFetch

\* Timers that are due and continuations that are ready go first.  A caller
\* with an answer uses it within the tick.
Tick ==
    /\ \A f \in Fetches : Pending(f) => fetches[f].left > 0
    /\ \A c \in Callers :
           /\ callers[c].phase = "waiting" => ~Settled(callers[c].on)
           /\ callers[c].phase # "answered"
    /\ catalogCache' = IF catalogCache = NoCatalog THEN NoCatalog
                       ELSE [age |-> Older(catalogCache.age, CATALOG_CACHE_TTL),
                             copy |-> Age(catalogCache.copy)]
    /\ fetches' = [f \in Fetches |->
           [fetches[f] EXCEPT !.left = IF Pending(f) THEN @ - 1 ELSE @,
                              !.copy = Age(@),
                              !.settledFor = IF Settled(f) THEN Older(@, 1) ELSE @]]
    /\ UNCHANGED <<upstream, inFlightFetch, callers>>

Next ==
    \/ \E c \in Callers : ServeFromCache(c)
    \/ \E c \in Callers : JoinFetch(c)
    \/ \E c \in Callers, f \in Fetches : StartFetch(c, f)
    \/ \E f \in Fetches : UpstreamReplies(f)
    \/ \E f \in Fetches : FetchSucceeds(f)
    \/ \E f \in Fetches : FetchFails(f)
    \/ \E f \in Fetches : TimesOut(f)
    \/ \E c \in Callers : Resume(c)
    \/ \E c \in Callers : Leave(c)
    \/ UpstreamChanges
    \/ Tick

Spec == Init /\ [][Next]_vars

\* The event loop runs what is due: continuations, callers that have their
\* answer, timers.  PreStocks itself may never answer.
FairSpec ==
    /\ Spec
    /\ WF_vars(Tick)
    /\ \A f \in Fetches : WF_vars(TimesOut(f))
    /\ \A c \in Callers : WF_vars(Resume(c)) /\ WF_vars(Leave(c))

-----------------------------------------------------------------------------
(* Properties. *)

\* The shape of the state, and who holds what: callers wait for promises that
\* exist, and one that can be joined has its starter still waiting, who will
\* clear it.
CatalogTypeOK ==
    /\ upstream \in Entries
    /\ catalogCache \in [age : 0 .. CATALOG_CACHE_TTL, copy : Copies] \cup {NoCatalog}
    /\ inFlightFetch \in Fetches \cup {NoFetch}
    /\ fetches \in [Fetches -> [phase : {"unused", "sent", "replied", "resolved", "rejected"},
                                left : 0 .. FETCH_TIMEOUT, copy : Copies \cup {NoCatalog},
                                settledFor : 0 .. 1]]
    /\ callers \in [Callers -> [phase : {"idle", "waiting", "answered"},
                                on : Fetches \cup {NoFetch}, starter : BOOLEAN,
                                status : {"none", "OBSERVED", "UNAVAILABLE"},
                                copy : Copies \cup {NoCatalog}, failureAge : 0 .. 1]]
    /\ \A c \in Callers : callers[c].phase = "waiting" =>
           callers[c].on \in Fetches /\ fetches[callers[c].on] # Unused
    /\ inFlightFetch # NoFetch =>
           \E c \in Callers : callers[c].phase = "waiting" /\ callers[c].on = inFlightFetch /\ callers[c].starter

\* A burst of requests triggers one upstream call, not one per request: two
\* calls never run at once, and none is made while a fresh catalogue is there.
UpstreamIsSpared ==
    [][\A f \in Fetches : ~Pending(f) /\ Pending(f)' =>
           /\ \A g \in Fetches : ~Pending(g)
           /\ catalogCache = NoCatalog \/ catalogCache.age >= CATALOG_CACHE_TTL]_vars

\* What a caller is told of an asset was replaced no longer ago than one fetch
\* may take, or, from the cache, than its lifetime and one fetch together,
\* whether the caller was served, joined or fetched for itself.
AnswersAreRecent ==
    \A c \in Callers : callers[c].phase = "answered" /\ callers[c].copy # NoCatalog =>
        \/ callers[c].copy.behind <= 1 + FETCH_TIMEOUT
        \/ callers[c].copy.behind <= CATALOG_CACHE_TTL + FETCH_TIMEOUT

\* A failure is told to those who waited for it and to nobody later: the next
\* caller tries again.
FailuresAreNotReplayed ==
    \A c \in Callers : callers[c].phase = "answered" => callers[c].failureAge = 0

\* Every caller gets an answer, even if PreStocks never gives one.
CallersAnswered == \A c \in Callers : callers[c].phase = "waiting" ~> callers[c].phase = "answered"
=============================================================================
