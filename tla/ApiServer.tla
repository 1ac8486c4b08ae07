------------------------------- MODULE ApiServer -------------------------------
(***************************************************************************)
(* The HTTP server of backend/server.ts: which status each route answers     *)
(* with, whatever the chain and the other sources do, and what becomes of    *)
(* the requests under way when the process dies.  It dies of an error nobody *)
(* catches: the handler returns serveFrontendFile's promise without awaiting *)
(* it, so a file that cannot be read is rejected outside the try block.      *)
(*                                                                           *)
(* A request's sources are read while it is "open" (Evidence and AssetHealth *)
(* say how); the body of its answer is an element of what they allow,        *)
(* Bodies[m].  Every handler ends: withRpcRetry counts its attempts, the     *)
(* other sources have timers, and Node's fetch abandons a silent peer.       *)
(***************************************************************************)
EXTENDS EvidenceVerdict

CONSTANTS
    Exchanges,      \* requests that may be under way at a time
    Registered,     \* mints that may have accounts of the program on devnet
    NotAMint,       \* the :mint of a request, if PublicKey does not accept it
    Dash            \* no mint at all, and the page's sign for no value

VARIABLES
    process,        \* whether the server runs
    exchange        \* each exchange as its client sees it

serverVars == <<process, exchange>>

Assets == Mints \cup {NotAMint}
StaticFiles == {"/", "/app.css", "/app.js"}

\* A request as the handler tells it apart; the path "*" is a URL that cannot
\* be parsed.
Request(method, path, mint) == [method |-> method, path |-> path, mint |-> mint]
NoRequest == Request("none", "/", Dash)
Free == [phase |-> "free", request |-> NoRequest, status |-> 0]

InFlight(x) == exchange[x].phase \in {"open", "answered", "lost"}

-----------------------------------------------------------------------------
(* What a request is answered with. *)

\* getHealth throws for a text that is no public key.
BackstopAnswers(m) ==
    IF m \in Registered THEN HealthAnswers ELSE {HealthUnavailable}

PythAnswers(m, health) ==
    IF HasFeed(m, health)
    THEN {PythObserved(quote) : quote \in Quotes} \cup {PythAnswer("UNAVAILABLE", FALSE)}
    ELSE {PythAnswer("NOT_APPLICABLE", FALSE)}

\* Each source of getEvidence fails on its own, and all four are in the body.
\* A mainnet account agrees with the table or does not; in what is not told
\* apart here.
EvidenceBundles(m) ==
    UNION {[backstop : {health},
            prestocks : PrestocksAnswers(m),
            mainnet : UNION {MainnetAnswers(m, id) : id \in {"agrees", "name"}},
            pyth : PythAnswers(m, health)] : health \in BackstopAnswers(m)}

Body(m, e) ==
    [mint |-> m, named |-> HasSymbol(m, e.backstop), evidence |-> e,
     verdict |-> Verdict(e, m), display |-> EvidenceDisplay(e, m)]

Bodies == [m \in Assets |-> {Body(m, e) : e \in EvidenceBundles(m)}]

\* getAsset and getHealth throw when the RPC fails for good, when the :mint is
\* no public key and, getAsset, when it has no account.
ReadStatuses(mint) == {400} \cup (IF mint \in Mints THEN {200} ELSE {})

\* The answer to a GET, unless a file cannot be read.  getEvidence, which
\* catches what its sources throw, never comes to a 400.
GetStatuses(path, mint) ==
    CASE path \in StaticFiles \cup {"/api", "/assets"}           -> {200}
      [] path = "/health"                                       -> {200, 503}
      [] path \in {"/assets/:mint", "/assets/:mint/health"}      -> ReadStatuses(mint)
      [] path = "/assets/:mint/evidence"                        -> {200}
      [] path = "*"                                             -> {500}
      [] OTHER                                                  -> {404}

Statuses(request) ==
    CASE request.method = "GET"     -> GetStatuses(request.path, request.mint)
      [] request.method = "OPTIONS" -> {204}
      [] OTHER                      -> IF request.path = "*" THEN {500} ELSE {405}

-----------------------------------------------------------------------------
(* Exchanges. *)

ServerInit ==
    /\ process = "up"
    /\ exchange = [x \in Exchanges |-> Free]

\* A client sends a request; a process that is down refuses the connection.
Connect(x, request) ==
    /\ exchange[x] = Free
    /\ exchange' = [exchange EXCEPT ![x] =
           [Free EXCEPT !.phase = IF process = "up" THEN "open" ELSE "lost", !.request = request]]
    /\ UNCHANGED process

Respond(x) ==
    /\ process = "up"
    /\ exchange[x].phase = "open"
    /\ \E status \in Statuses(exchange[x].request) :
           exchange' = [exchange EXCEPT ![x].phase = "answered", ![x].status = status]
    /\ UNCHANGED process

\* Some client asks for a file of the page, which is no exchange of its own
\* here: readFile rejects, nothing catches it, and Node ends the process.
FileFails ==
    /\ process = "up"
    /\ process' = "down"
    /\ exchange' = [x \in Exchanges |->
           IF exchange[x].phase = "open" THEN [exchange[x] EXCEPT !.phase = "lost"] ELSE exchange[x]]

\* The host starts the process again.
Restart ==
    /\ process = "down"
    /\ process' = "up"
    /\ UNCHANGED exchange

\* The connection breaks, before the answer or under it.
BreakOff(x) ==
    /\ exchange[x].phase \in {"open", "answered"}
    /\ exchange' = [exchange EXCEPT ![x].phase = "lost", ![x].status = 0]
    /\ UNCHANGED process

\* The client is done with the exchange.
Finish(x) == exchange' = [exchange EXCEPT ![x] = Free] /\ UNCHANGED process
=============================================================================
