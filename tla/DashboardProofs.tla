---------------------------- MODULE DashboardProofs ----------------------------
(***************************************************************************)
(* Theorems about the page, for any number of overlapping requests, any mints *)
(* and quick buttons, whatever order answers, losses and crashes come in.     *)
(*                                                                           *)
(* The page itself keeps no order among its requests; what saves it is that   *)
(* an answer carries all it shows, and that each request in flight is still   *)
(* the one for the text that will be written back into the field.             *)
(***************************************************************************)
EXTENDS Dashboard, TLAPS

\* An exchange of the page is a request for evidence, if it is not free.
PageRequests == {NoRequest} \cup {EvidenceRequest(text) : text \in Texts}
ExchangeRecord ==
    [phase : {"free", "open", "answered", "lost"}, request : PageRequests, status : {0, 200, 404}]

ShapeInv ==
    /\ process \in {"up", "down"}
    /\ exchange \in [Exchanges -> ExchangeRecord]
    /\ origin \in Origins /\ mintInput \in Texts /\ backend \in {"unset", "online", "offline"}
    /\ subject \in [Exchanges -> Texts]

\* Each request in flight asks for the text verifyAsset keeps for it, and its
\* answer is one the server gives to such a request.
RequestsInv ==
    \A f \in Exchanges :
        /\ InFlight(f) <=> subject[f] # Blank
        /\ InFlight(f) => exchange[f].request = EvidenceRequest(subject[f])
        /\ exchange[f].phase = "answered" => exchange[f].status \in Statuses(exchange[f].request)

\* What the reader sees: a spinner while something is under way and no
\* dashboard beside it, and without a spinner an outcome of what was asked.
ViewInv ==
    /\ loading => ~dashboard /\ \E f \in Exchanges : InFlight(f)
    /\ asked /\ ~loading => dashboard \/ errorBox
    /\ PageIsOneAnswer
    /\ InputNamesShownAsset

PageInv == ShapeInv /\ RequestsInv /\ ViewInv

-----------------------------------------------------------------------------
(* Requests, bodies and render functions. *)

\* A request for evidence is answered with 200 or 404.
LEMMA EvidenceStatuses ==
    ASSUME NEW text \in Texts, NEW status \in Statuses(EvidenceRequest(text))
    PROVE  status \in {200, 404}
  <1>1. CASE text = DotDot
    BY <1>1 DEF EvidenceRequest, Request, Statuses, GetStatuses, StaticFiles
  <1>2. CASE text # DotDot
    BY <1>2 DEF EvidenceRequest, Request, Statuses, GetStatuses, StaticFiles
  <1> QED BY <1>1, <1>2

\* With 200 only if it is for an asset: ".." is the path of no route.
LEMMA EvidenceIsOfAsset ==
    ASSUME NEW text \in Texts, text # Blank, 200 \in Statuses(EvidenceRequest(text))
    PROVE  EvidenceRequest(text).mint \in Assets
  <1>1. CASE text = DotDot
    <2>1. Statuses(EvidenceRequest(text)) = {404}
      BY <1>1 DEF EvidenceRequest, Request, Statuses, GetStatuses, StaticFiles
    <2> QED BY <2>1
  <1>2. CASE text # DotDot
    BY <1>2 DEF EvidenceRequest, Request, Texts, Assets
  <1> QED BY <1>1, <1>2

\* The server's body names its asset and carries all four sources, failed or not.
LEMMA BodyIsComplete ==
    ASSUME NEW m \in Assets, NEW body \in Bodies[m]
    PROVE  /\ body.mint = m
           /\ {"backstop", "prestocks", "mainnet", "pyth"} \subseteq DOMAIN body.evidence
  <1>1. PICK e \in EvidenceBundles(m) : body = Body(m, e)
    BY DEF Bodies
  <1>2. PICK health : e \in [backstop : {health},
                             prestocks : PrestocksAnswers(m),
                             mainnet : UNION {MainnetAnswers(m, id) : id \in {"agrees", "name"}},
                             pyth : PythAnswers(m, health)]
    BY <1>1 DEF EvidenceBundles
  <1>3. DOMAIN e = {"backstop", "prestocks", "mainnet", "pyth"}
    BY <1>2
  <1> QED BY <1>1, <1>3 DEF Body

\* Of such a body every panel is written anew: nothing is left of what it held.
LEMMA RenderForgets ==
    ASSUME NEW m \in Assets, NEW body \in Bodies[m], NEW old
    PROVE  /\ RenderEvidence(old, body) = RenderEvidence(BlankPanels, body)
           /\ RenderEvidence(old, body).asset.mint = m
  <1>1. /\ body.mint = m
        /\ {"backstop", "prestocks", "mainnet", "pyth"} \subseteq DOMAIN body.evidence
    BY BodyIsComplete
  <1>2. ASSUME NEW panel, NEW other
        PROVE  /\ RenderBackstop(panel, body) = RenderBackstop(other, body)
               /\ RenderPreStocks(panel, body) = RenderPreStocks(other, body)
               /\ RenderPyth(panel, body) = RenderPyth(other, body)
               /\ RenderSolana(panel, body) = RenderSolana(other, body)
    BY <1>1 DEF RenderBackstop, RenderPreStocks, RenderPyth, RenderSolana
  <1>3. /\ RenderBackstop(old.backstop, body) = RenderBackstop(BlankPanels.backstop, body)
        /\ RenderPreStocks(old.prestocks, body) = RenderPreStocks(BlankPanels.prestocks, body)
        /\ RenderPyth(old.pyth, body) = RenderPyth(BlankPanels.pyth, body)
        /\ RenderSolana(old.solana, body) = RenderSolana(BlankPanels.solana, body)
    BY <1>2
  <1> QED BY <1>1, <1>3 DEF RenderEvidence

-----------------------------------------------------------------------------
(* The invariant. *)

\* The page is loaded: nothing asked, nothing shown.
LEMMA PageInitInv == PageInit => PageInv
  <1> SUFFICES ASSUME PageInit PROVE PageInv
    OBVIOUS
  <1>1. /\ process = "up" /\ exchange = [x \in Exchanges |-> Free]
        /\ origin \in Origins /\ mintInput = Blank /\ subject = [f \in Exchanges |-> Blank]
        /\ loading = FALSE /\ errorBox = FALSE /\ dashboard = FALSE /\ backend = "unset" /\ asked = FALSE
    BY DEF PageInit, ServerInit
  <1>2. Free \in ExchangeRecord /\ Free.phase = "free"
    BY DEF Free, ExchangeRecord, PageRequests
  <1>3. ShapeInv
    BY <1>1, <1>2 DEF ShapeInv, Texts
  <1>4. RequestsInv
    BY <1>1, <1>2 DEF RequestsInv, InFlight
  <1>5. ViewInv
    BY <1>1 DEF ViewInv, PageIsOneAnswer, InputNamesShownAsset
  <1> QED BY <1>3, <1>4, <1>5 DEF PageInv

\* What leaves server and requests alone leaves what is known of them.
LEMMA SameRequests ==
    ASSUME RequestsInv, UNCHANGED <<exchange, subject>>
    PROVE  RequestsInv' /\ \A f \in Exchanges : InFlight(f)' <=> InFlight(f)
  <1>1. \A f \in Exchanges : InFlight(f)' <=> InFlight(f)
    BY DEF InFlight
  <1> QED BY <1>1 DEF RequestsInv

\* What also leaves the page's view alone, save for an error more.
LEMMA SameView ==
    ASSUME PageInv, UNCHANGED <<process, exchange, origin, subject, dashboard, loading, panels, rawEvidence, asked>>,
           mintInput' \in Texts, backend' \in {"unset", "online", "offline"},
           errorBox => errorBox',
           (mintInput' = mintInput /\ typed' = typed) \/ (dashboard => typed')
    PROVE  PageInv'
  <1>1. ShapeInv'
    BY DEF PageInv, ShapeInv
  <1>2. RequestsInv' /\ \A f \in Exchanges : InFlight(f)' <=> InFlight(f)
    BY SameRequests DEF PageInv
  <1>3. PageIsOneAnswer'
    BY DEF PageInv, ViewInv, PageIsOneAnswer
  <1>4. InputNamesShownAsset'
    BY DEF PageInv, ViewInv, InputNamesShownAsset, EvidenceRequest, Request
  <1>5. (loading => ~dashboard /\ \E f \in Exchanges : InFlight(f))'
    BY <1>2 DEF PageInv, ViewInv
  <1>6. (asked /\ ~loading => dashboard \/ errorBox)'
    BY DEF PageInv, ViewInv
  <1> QED BY <1>1, <1>2, <1>3, <1>4, <1>5, <1>6 DEF PageInv, ViewInv

\* A request goes out and the page is cleared for its answer.
LEMMA StartFetchStep ==
    ASSUME PageInv, NEW text \in Texts, text # Blank, StartFetch(text), mintInput' \in Texts,
           UNCHANGED <<origin, rawEvidence, rawShown, backend>>
    PROVE  PageInv'
  <1>1. PICK f \in Exchanges : /\ Connect(f, EvidenceRequest(text))
                               /\ subject' = [subject EXCEPT ![f] = text]
    BY DEF StartFetch
  <1>2. dashboard' = FALSE /\ loading' = TRUE
    BY DEF StartFetch
  <1>3. exchange \in [Exchanges -> ExchangeRecord] /\ subject \in [Exchanges -> Texts]
    BY DEF PageInv, ShapeInv
  <1> DEFINE request == EvidenceRequest(text)
             x == [Free EXCEPT !.phase = IF process = "up" THEN "open" ELSE "lost", !.request = request]
  <1>4. process' = process /\ exchange' = [exchange EXCEPT ![f] = x]
    BY <1>1 DEF Connect
  <1>5. /\ x \in ExchangeRecord /\ x.phase \in {"open", "lost"} /\ x.request = request
    <2>1. request \in PageRequests
      BY DEF PageRequests
    <2> HIDE DEF request
    <2>2. CASE process = "up"
      <3>1. x = [Free EXCEPT !.phase = "open", !.request = request]
        BY <2>2
      <3> HIDE DEF x
      <3>2. x = [phase |-> "open", request |-> request, status |-> 0]
        BY <3>1 DEF Free
      <3> QED BY <2>1, <3>2 DEF ExchangeRecord
    <2>3. CASE process # "up"
      <3>1. x = [Free EXCEPT !.phase = "lost", !.request = request]
        BY <2>3
      <3> HIDE DEF x
      <3>2. x = [phase |-> "lost", request |-> request, status |-> 0]
        BY <3>1 DEF Free
      <3> QED BY <2>1, <3>2 DEF ExchangeRecord
    <2> QED BY <2>2, <2>3
  <1> HIDE DEF x, request
  <1>6. \A g \in Exchanges : /\ exchange'[g] = IF g = f THEN x ELSE exchange[g]
                             /\ subject'[g] = IF g = f THEN text ELSE subject[g]
    BY <1>1, <1>3, <1>4
  <1>7. ShapeInv'
    BY <1>1, <1>3, <1>4, <1>5 DEF PageInv, ShapeInv
  <1>8. RequestsInv'
    <2>1. ASSUME NEW g \in Exchanges, g # f
          PROVE  /\ InFlight(g)' <=> subject'[g] # Blank
                 /\ InFlight(g)' => exchange'[g].request = EvidenceRequest(subject'[g])
                 /\ exchange'[g].phase = "answered" => exchange'[g].status \in Statuses(exchange'[g].request)
      <3>1. exchange'[g] = exchange[g] /\ subject'[g] = subject[g]
        BY <1>6, <2>1
      <3>2. InFlight(g)' <=> InFlight(g)
        BY <3>1 DEF InFlight
      <3> QED BY <3>1, <3>2 DEF PageInv, RequestsInv
    <2>2. /\ exchange'[f] = x /\ subject'[f] = text
          /\ InFlight(f)'
      BY <1>5, <1>6 DEF InFlight
    <2>3. exchange'[f].request = EvidenceRequest(subject'[f]) /\ exchange'[f].phase # "answered"
      BY <1>5, <2>2 DEF request
    <2> QED BY <2>1, <2>2, <2>3 DEF RequestsInv
  <1>9. InFlight(f)'
    BY <1>5, <1>6 DEF InFlight
  <1>10. ViewInv'
    BY <1>2, <1>9 DEF ViewInv, PageIsOneAnswer, InputNamesShownAsset
  <1> QED BY <1>7, <1>8, <1>10 DEF PageInv

\* verifyAsset, up to its first await, for whatever text.
LEMMA VerifyAssetStep ==
    ASSUME PageInv, NEW text \in Texts, VerifyAsset(text), mintInput' \in Texts,
           mintInput' = mintInput \/ text # Blank
    PROVE  PageInv'
  <1>1. CASE text # Blank /\ StartFetch(text)
    BY <1>1, StartFetchStep DEF VerifyAsset
  <1>2. CASE text = Blank
    <2>1. /\ UNCHANGED <<process, exchange, origin, subject, dashboard, loading, panels, rawEvidence, asked>>
          /\ typed' = typed /\ backend' = backend /\ errorBox' = TRUE /\ mintInput' = mintInput
      BY <1>2 DEF VerifyAsset, serverVars
    <2>2. backend' \in {"unset", "online", "offline"}
      BY <2>1 DEF PageInv, ShapeInv
    <2> QED BY <2>1, <2>2, SameView
  <1> QED BY <1>1, <1>2 DEF VerifyAsset

\* An answer is shown as a whole or an error is; either way nothing waits.
LEMMA ArrivesStep ==
    ASSUME PageInv, NEW f \in Exchanges, Arrives(f)
    PROVE  PageInv'
  <1>1. /\ Settled(f)
        /\ loading' = FALSE
        /\ exchange' = [exchange EXCEPT ![f] = Free] /\ process' = process
        /\ subject' = [subject EXCEPT ![f] = Blank]
        /\ UNCHANGED <<origin, rawShown, backend, asked>>
    BY DEF Arrives, AfterAnswer, Finish
  <1>2. exchange \in [Exchanges -> ExchangeRecord] /\ subject \in [Exchanges -> Texts]
    BY DEF PageInv, ShapeInv
  <1>3. \A g \in Exchanges : /\ exchange'[g] = IF g = f THEN Free ELSE exchange[g]
                             /\ subject'[g] = IF g = f THEN Blank ELSE subject[g]
    BY <1>1, <1>2
  <1>4. InFlight(f) /\ subject[f] # Blank /\ subject[f] \in Texts
        /\ exchange[f].request = EvidenceRequest(subject[f])
    BY <1>1, <1>2 DEF Settled, InFlight, PageInv, RequestsInv
  <1>5. mintInput' \in Texts
    BY <1>4 DEF Arrives, ShowAnswer, ShowFailure, PageInv, ShapeInv
  <1>6. ShapeInv'
    <2>1. Free \in ExchangeRecord /\ Blank \in Texts
      BY DEF Free, ExchangeRecord, PageRequests, Texts
    <2> QED BY <1>1, <1>2, <1>5, <2>1 DEF PageInv, ShapeInv
  <1>7. RequestsInv'
    <2>1. ASSUME NEW g \in Exchanges, g # f
          PROVE  /\ InFlight(g)' <=> subject'[g] # Blank
                 /\ InFlight(g)' => exchange'[g].request = EvidenceRequest(subject'[g])
                 /\ exchange'[g].phase = "answered" => exchange'[g].status \in Statuses(exchange'[g].request)
      <3>1. exchange'[g] = exchange[g] /\ subject'[g] = subject[g]
        BY <1>3, <2>1
      <3>2. InFlight(g)' <=> InFlight(g)
        BY <3>1 DEF InFlight
      <3> QED BY <3>1, <3>2 DEF PageInv, RequestsInv
    <2>2. exchange'[f].phase = "free" /\ subject'[f] = Blank /\ ~InFlight(f)'
      BY <1>3 DEF Free, InFlight
    <2> QED BY <2>1, <2>2 DEF RequestsInv
  <1>8. CASE Answered(f, 200) /\ ShowAnswer(f)
    <2>1. 200 \in Statuses(EvidenceRequest(subject[f]))
      BY <1>4, <1>8 DEF Answered, PageInv, RequestsInv
    <2>2. EvidenceRequest(subject[f]).mint \in Assets
      BY <1>4, <2>1, EvidenceIsOfAsset
    <2>3. PICK m \in Assets : m = EvidenceRequest(subject[f]).mint
      BY <2>2
    <2>4. PICK body \in Bodies[m] : panels' = RenderEvidence(panels, body) /\ rawEvidence' = body
      BY <1>4, <1>8, <2>3 DEF ShowAnswer
    <2>5. mintInput' = subject[f] /\ dashboard' = TRUE
      BY <1>8 DEF ShowAnswer
    <2>6. panels' = RenderEvidence(BlankPanels, body) /\ panels'.asset.mint = m
      BY <2>4, RenderForgets
    <2>7. PageIsOneAnswer'
      <3>1. RenderEvidence(BlankPanels, rawEvidence)' = RenderEvidence(BlankPanels, body)
        BY <2>4 DEF RenderEvidence, RenderBackstop, RenderPreStocks, RenderPyth, RenderSolana, RenderVerdict, RenderSummary, BlankPanels, NoPanel
      <3>2. Bodies[panels.asset.mint]' = Bodies[m]
        BY <2>6 DEF Bodies, Assets, Body, EvidenceBundles
      <3> QED BY <2>4, <2>6, <3>1, <3>2 DEF PageIsOneAnswer
    <2>8. InputNamesShownAsset'
      BY <2>3, <2>5, <2>6 DEF InputNamesShownAsset, EvidenceRequest, Request
    <2> QED BY <1>1, <1>6, <1>7, <2>5, <2>7, <2>8 DEF PageInv, ViewInv
  <1>9. CASE ShowFailure(f)
    <2>1. errorBox' = TRUE /\ UNCHANGED <<mintInput, dashboard, panels, rawEvidence, typed>>
      BY <1>9 DEF ShowFailure
    <2>2. PageIsOneAnswer'
      BY <2>1 DEF PageInv, ViewInv, PageIsOneAnswer
    <2>3. InputNamesShownAsset'
      BY <2>1 DEF PageInv, ViewInv, InputNamesShownAsset, EvidenceRequest, Request
    <2> QED BY <1>1, <1>6, <1>7, <2>1, <2>2, <2>3 DEF PageInv, ViewInv
  <1> QED BY <1>8, <1>9 DEF Arrives

\* The server and the network change how an exchange stands, not what it asks.
LEMMA ServerChanges ==
    ASSUME PageInv, UNCHANGED page, process' \in {"up", "down"},
           exchange' \in [Exchanges -> ExchangeRecord],
           \A f \in Exchanges :
               /\ exchange'[f].request = exchange[f].request
               /\ InFlight(f)' <=> InFlight(f)
               /\ exchange'[f].phase = "answered" => exchange'[f].status \in Statuses(exchange[f].request)
    PROVE  PageInv'
  <1>1. UNCHANGED <<origin, mintInput, subject, loading, errorBox, dashboard, panels, rawEvidence, rawShown,
                    backend, typed, asked>>
    BY DEF page
  <1>2. ShapeInv'
    BY <1>1 DEF PageInv, ShapeInv
  <1>3. RequestsInv'
    BY <1>1 DEF PageInv, RequestsInv
  <1>4. PageIsOneAnswer' /\ InputNamesShownAsset'
    BY <1>1 DEF PageInv, ViewInv, PageIsOneAnswer, InputNamesShownAsset
  <1>5. (loading => ~dashboard /\ \E f \in Exchanges : InFlight(f))'
    BY <1>1 DEF PageInv, ViewInv
  <1>6. (asked /\ ~loading => dashboard \/ errorBox)'
    BY <1>1 DEF PageInv, ViewInv
  <1> QED BY <1>2, <1>3, <1>4, <1>5, <1>6 DEF PageInv, ViewInv

\* An answer, a broken connection, a crash and a restart.
LEMMA OutsideStep ==
    ASSUME PageInv, Outside
    PROVE  PageInv'
  <1>1. UNCHANGED page
    BY DEF Outside
  <1>2. exchange \in [Exchanges -> ExchangeRecord] /\ process \in {"up", "down"}
    BY DEF PageInv, ShapeInv
  <1>3. ASSUME NEW x \in Exchanges, Respond(x)
        PROVE  PageInv'
    <2>1. PICK status \in Statuses(exchange[x].request) :
              exchange' = [exchange EXCEPT ![x] = [[exchange[x] EXCEPT !.phase = "answered"] EXCEPT !.status = status]]
      <3>1. PICK status \in Statuses(exchange[x].request) :
                exchange' = [exchange EXCEPT ![x].phase = "answered", ![x].status = status]
        BY <1>3 DEF Respond
      <3> QED BY <1>2, <3>1
    <2>2. exchange[x].phase = "open" /\ process' = process
      BY <1>3 DEF Respond
    <2>3. status \in {200, 404}
      <3>1. InFlight(x) /\ exchange[x].request = EvidenceRequest(subject[x]) /\ subject[x] \in Texts
        BY <2>2 DEF InFlight, PageInv, RequestsInv, ShapeInv
      <3> QED BY <2>1, <3>1, EvidenceStatuses
    <2> DEFINE r == [[exchange[x] EXCEPT !.phase = "answered"] EXCEPT !.status = status]
    <2>4. r \in ExchangeRecord /\ r.phase = "answered" /\ r.status = status /\ r.request = exchange[x].request
      <3> DEFINE q == [exchange[x] EXCEPT !.phase = "answered"]
      <3>1. q \in ExchangeRecord /\ q.phase = "answered" /\ q.request = exchange[x].request
        BY <1>2 DEF ExchangeRecord
      <3>2. r = [q EXCEPT !.status = status]
        OBVIOUS
      <3> HIDE DEF q, r
      <3> QED BY <2>3, <3>1, <3>2 DEF ExchangeRecord
    <2>5. exchange' = [exchange EXCEPT ![x] = r]
      BY <2>1
    <2> HIDE DEF r
    <2>6. \A f \in Exchanges : exchange'[f] = IF f = x THEN r ELSE exchange[f]
      BY <1>2, <2>5
    <2>7. ASSUME NEW f \in Exchanges
          PROVE  /\ exchange'[f].request = exchange[f].request
                 /\ InFlight(f)' <=> InFlight(f)
                 /\ exchange'[f].phase = "answered" => exchange'[f].status \in Statuses(exchange[f].request)
      BY <2>1, <2>2, <2>4, <2>6 DEF InFlight, PageInv, RequestsInv
    <2>8. exchange' \in [Exchanges -> ExchangeRecord]
      BY <1>2, <2>4, <2>5
    <2> QED BY <1>1, <1>2, <2>2, <2>7, <2>8, ServerChanges
  <1>4. ASSUME NEW x \in Exchanges, BreakOff(x)
        PROVE  PageInv'
    <2> DEFINE r == [[exchange[x] EXCEPT !.phase = "lost"] EXCEPT !.status = 0]
    <2>1. exchange' = [exchange EXCEPT ![x] = r] /\ exchange[x].phase \in {"open", "answered"} /\ process' = process
      <3>1. exchange' = [exchange EXCEPT ![x].phase = "lost", ![x].status = 0]
        BY <1>4 DEF BreakOff
      <3>2. exchange[x].phase \in {"open", "answered"} /\ process' = process
        BY <1>4 DEF BreakOff
      <3> QED BY <1>2, <3>1, <3>2
    <2>2. r \in ExchangeRecord /\ r.phase = "lost" /\ r.request = exchange[x].request
      <3> DEFINE q == [exchange[x] EXCEPT !.phase = "lost"]
      <3>1. q \in ExchangeRecord /\ q.phase = "lost" /\ q.request = exchange[x].request
        BY <1>2 DEF ExchangeRecord
      <3>2. r = [q EXCEPT !.status = 0]
        OBVIOUS
      <3> HIDE DEF q, r
      <3> QED BY <3>1, <3>2 DEF ExchangeRecord
    <2> HIDE DEF r
    <2>3. \A f \in Exchanges : exchange'[f] = IF f = x THEN r ELSE exchange[f]
      BY <1>2, <2>1
    <2>4. ASSUME NEW f \in Exchanges
          PROVE  /\ exchange'[f].request = exchange[f].request
                 /\ InFlight(f)' <=> InFlight(f)
                 /\ exchange'[f].phase = "answered" => exchange'[f].status \in Statuses(exchange[f].request)
      BY <2>1, <2>2, <2>3 DEF InFlight, PageInv, RequestsInv
    <2>5. exchange' \in [Exchanges -> ExchangeRecord]
      BY <1>2, <2>1, <2>2
    <2> QED BY <1>1, <1>2, <2>1, <2>4, <2>5, ServerChanges
  <1>5. CASE FileFails
    <2>1. /\ process' = "down"
          /\ exchange' = [f \in Exchanges |->
                 IF exchange[f].phase = "open" THEN [exchange[f] EXCEPT !.phase = "lost"] ELSE exchange[f]]
      BY <1>5 DEF FileFails
    <2>2. ASSUME NEW f \in Exchanges, exchange[f].phase = "open"
          PROVE  /\ exchange'[f] \in ExchangeRecord
                 /\ exchange'[f].phase = "lost" /\ exchange'[f].request = exchange[f].request
      BY <1>2, <2>1, <2>2 DEF ExchangeRecord
    <2>3. ASSUME NEW f \in Exchanges
          PROVE  /\ exchange'[f] \in ExchangeRecord
                 /\ exchange'[f].request = exchange[f].request
                 /\ InFlight(f)' <=> InFlight(f)
                 /\ exchange'[f].phase = "answered" => exchange'[f].status \in Statuses(exchange[f].request)
      <3>1. CASE exchange[f].phase = "open"
        BY <2>2, <3>1 DEF InFlight
      <3>2. CASE exchange[f].phase # "open"
        BY <1>2, <2>1, <3>2 DEF InFlight, PageInv, RequestsInv
      <3> QED BY <3>1, <3>2
    <2>4. exchange' \in [Exchanges -> ExchangeRecord]
      BY <2>1, <2>3
    <2> QED BY <1>1, <2>1, <2>3, <2>4, ServerChanges
  <1>6. CASE Restart
    <2>1. process' = "up" /\ exchange' = exchange
      BY <1>6 DEF Restart
    <2>2. \A f \in Exchanges : InFlight(f)' <=> InFlight(f)
      BY <2>1 DEF InFlight
    <2>3. \A f \in Exchanges : exchange[f].phase = "answered" => exchange[f].status \in Statuses(exchange[f].request)
      BY DEF PageInv, RequestsInv
    <2> QED BY <1>1, <1>2, <2>1, <2>2, <2>3, ServerChanges
  <1> QED BY <1>3, <1>4, <1>5, <1>6 DEF Outside

\* Every step of the page and of what is around it.
LEMMA PageStep ==
    ASSUME PageInv, [Next]_pageVars
    PROVE  PageInv'
  <1>1. mintInput \in Texts /\ backend \in {"unset", "online", "offline"} /\ QuickMints \subseteq Mints /\ Mints \subseteq Texts
    BY PageAssumption DEF PageInv, ShapeInv, Texts
  <1>2. CASE CheckHealth
    <2>1. /\ UNCHANGED <<process, exchange, origin, subject, dashboard, loading, panels, rawEvidence, asked>>
          /\ UNCHANGED <<mintInput, typed, errorBox>> /\ backend' \in {"unset", "online", "offline"}
      BY <1>2 DEF CheckHealth, serverVars
    <2> QED BY <1>1, <2>1, SameView
  <1>3. ASSUME NEW text \in Texts, Type(text)
        PROVE  PageInv'
    <2>1. /\ UNCHANGED <<process, exchange, origin, subject, dashboard, loading, panels, rawEvidence, asked>>
          /\ UNCHANGED <<backend, errorBox>> /\ mintInput' = text /\ typed' = dashboard
      BY <1>3 DEF Type, serverVars
    <2> QED BY <1>1, <2>1, SameView
  <1>4. CASE ClickVerify \/ PressEnter
    BY <1>1, <1>4, VerifyAssetStep DEF ClickVerify, PressEnter
  <1>5. ASSUME NEW m \in QuickMints, QuickButton(m)
        PROVE  PageInv'
    BY <1>1, <1>5, VerifyAssetStep, PageAssumption DEF QuickButton
  <1>6. ASSUME NEW f \in Exchanges, Arrives(f)
        PROVE  PageInv'
    BY <1>6, ArrivesStep
  <1>7. CASE ToggleRaw \/ UNCHANGED pageVars
    <2>1. UNCHANGED <<process, exchange, origin, subject, dashboard, loading, panels, rawEvidence, asked,
                      mintInput, typed, errorBox, backend>>
      BY <1>7 DEF ToggleRaw, serverVars, page, pageVars
    <2> QED BY <1>1, <2>1, SameView
  <1>8. CASE Outside
    BY <1>8, OutsideStep
  <1> QED BY <1>2, <1>3, <1>4, <1>5, <1>6, <1>7, <1>8 DEF Next

-----------------------------------------------------------------------------
(* Theorems. *)

\* PageInv is inductive: it holds in every state of every run of the page.
THEOREM PageInvHolds == Spec => []PageInv
  <1>1. PageInit => PageInv
    BY PageInitInv
  <1>2. PageInv /\ [Next]_pageVars => PageInv'
    BY PageStep
  <1> QED BY <1>1, <1>2, PTL DEF Spec

\* Page and server keep their types, and a spinner means that some request is in
\* flight and no dashboard is shown beside it.
THEOREM PageTypeCorrect == Spec => []PageTypeOK
  <1>1. PageInv => PageTypeOK
    BY DEF PageInv, ShapeInv, RequestsInv, ViewInv, PageTypeOK
  <1> QED BY <1>1, PageInvHolds, PTL

\* However many answers were shown before and whichever sources failed, the
\* dashboard is the rendering of one answer, the one in its raw evidence.
THEOREM OneAnswerShown == Spec => []PageIsOneAnswer
  <1>1. PageInv => PageIsOneAnswer
    BY DEF PageInv, ViewInv
  <1> QED BY <1>1, PageInvHolds, PTL

\* Whatever order overlapping requests are answered in, the input field names
\* the asset on the dashboard until the reader types.
THEOREM FieldNamesAsset == Spec => []InputNamesShownAsset
  <1>1. PageInv => InputNamesShownAsset
    BY DEF PageInv, ViewInv
  <1> QED BY <1>1, PageInvHolds, PTL

\* Once nothing is under way, what was asked has an answer or an error in sight.
THEOREM OutcomeShown == Spec => []PageHasOutcome
  <1>1. PageInv => PageHasOutcome
    BY DEF PageInv, ViewInv, PageHasOutcome
  <1> QED BY <1>1, PageInvHolds, PTL
=============================================================================
