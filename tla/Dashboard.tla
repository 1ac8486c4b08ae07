------------------------------- MODULE Dashboard -------------------------------
(***************************************************************************)
(* The page of frontend/app.js against the server of backend/server.ts.      *)
(* verifyAsset asks for the evidence of what was typed and shows what comes  *)
(* back; while it waits, the Verify button is disabled, but Enter and the    *)
(* quick buttons start further requests, whose answers may come in any       *)
(* order, fail, or be lost with the server.                                  *)
(*                                                                           *)
(* The elements of the page keep their text until a render function writes   *)
(* them again.  A panel's figures (supply, price, decimals, checks...) are   *)
(* known by the mint whose they are.  Colours, icons and wording are left    *)
(* out.  The body of an answer is chosen when it arrives: nobody sees it     *)
(* before.                                                                   *)
(***************************************************************************)
EXTENDS ApiServer

CONSTANTS
    QuickMints,     \* the mints of the two quick buttons
    Blank,          \* what an input field of spaces holds
    Garbage,        \* a text that is no mint, and whose escaped form is NotAMint
    DotDot          \* "..", which a URL does not keep

ASSUME PageAssumption == QuickMints \subseteq Mints /\ Blank \notin Mints

VARIABLES
    origin,         \* where the page was loaded from
    mintInput,      \* the text of the input field
    subject,        \* cleanMint of each call of verifyAsset
    loading,        \* the spinner is shown, the Verify button disabled
    errorBox,       \* the error box is shown
    dashboard,      \* the dashboard is shown
    panels,         \* what its elements hold
    rawEvidence,    \* the text of the raw evidence, a body
    rawShown,       \* whether the reader has opened it
    backend,        \* document.body.dataset.backend
    typed,          \* history: the reader typed since the dashboard was shown
    asked           \* history: a request was made

page == <<origin, mintInput, subject, loading, errorBox, dashboard, panels, rawEvidence, rawShown, backend, typed, asked>>
pageVars == <<serverVars, page>>

Origins == {"https://backstop-blue.vercel.app", "http://localhost:8787"}
Texts == Mints \cup {Blank, Garbage, DotDot}

\* encodeURIComponent and the URL parser: ".." takes the segment before it
\* away, and the server does not unescape the rest.
EvidenceRequest(text) ==
    IF text = DotDot THEN Request("GET", "/evidence", Dash)
    ELSE Request("GET", "/assets/:mint/evidence", IF text = Garbage THEN NotAMint ELSE text)

-----------------------------------------------------------------------------
(* The render functions.  Each writes a panel, or leaves most of it as it was *)
(* when its source is not in the body.                                       *)

NoPanel == [status |-> "", figures |-> Dash]
NoBody == [mint |-> Dash]

Measured(status) == status \in {"VERIFIED", "UNDER_BACKED", "STALE"}

\* Faulty variant: a figure that is not in the evidence is not written.
RenderBackstop_KeepsFigures(panel, body) ==
    [status |-> body.evidence.backstop.status,
     figures |-> IF Measured(body.evidence.backstop.status) THEN body.mint ELSE panel.figures]

RenderBackstop(panel, body) ==
    IF "backstop" \notin DOMAIN body.evidence THEN [panel EXCEPT !.status = "UNKNOWN"]
    ELSE [status |-> body.evidence.backstop.status,
          figures |-> IF Measured(body.evidence.backstop.status) THEN body.mint ELSE Dash]

RenderPyth(panel, body) ==
    IF "pyth" \notin DOMAIN body.evidence THEN [panel EXCEPT !.status = "UNKNOWN"]
    ELSE [status |-> body.evidence.pyth.status,
          figures |-> IF body.evidence.pyth.status = "OBSERVED" THEN body.mint ELSE Dash]

\* The name of a catalogued mint is shown even if its prices were not found.
RenderPreStocks(panel, body) ==
    IF "prestocks" \notin DOMAIN body.evidence THEN [panel EXCEPT !.status = "UNKNOWN"]
    ELSE [status |-> IF body.evidence.prestocks = "OBSERVED" THEN "OBSERVED" ELSE "UNAVAILABLE",
          figures |-> IF body.evidence.prestocks = "OBSERVED" THEN body.mint ELSE Dash,
          name |-> IF body.evidence.prestocks = "not_registered" THEN Dash ELSE body.mint]

RenderSolana(panel, body) ==
    IF "mainnet" \notin DOMAIN body.evidence THEN [panel EXCEPT !.status = "UNKNOWN"]
    ELSE [status |-> IF body.evidence.mainnet.status = "OBSERVED" THEN "OBSERVED" ELSE "UNAVAILABLE",
          figures |-> IF body.evidence.mainnet.status = "OBSERVED" THEN body.mint ELSE Dash]

\* Each row shows its source's "status", or UNKNOWN: the server's rows carry
\* "display" and "detail".
SummaryRow(row) == IF "status" \in DOMAIN row THEN row.status ELSE "UNKNOWN"

RenderSummary(body) ==
    [source \in DOMAIN body.display |-> SummaryRow([display |-> body.display[source]])]

\* The verdict's word; icon and sentence follow from it.
RenderVerdict(body) == body.verdict

RenderEvidence(old, body) ==
    [asset |-> [mint |-> body.mint, named |-> body.named],
     backstop |-> RenderBackstop(old.backstop, body),
     prestocks |-> RenderPreStocks(old.prestocks, body),
     pyth |-> RenderPyth(old.pyth, body),
     solana |-> RenderSolana(old.solana, body),
     verdict |-> RenderVerdict(body),
     summary |-> RenderSummary(body)]

BlankPanels ==
    [asset |-> [mint |-> Dash, named |-> FALSE],
     backstop |-> NoPanel, pyth |-> NoPanel, solana |-> NoPanel,
     prestocks |-> [status |-> "", figures |-> Dash, name |-> Dash],
     verdict |-> "UNKNOWN", summary |-> <<>>]

-----------------------------------------------------------------------------
(* The page. *)

\* The page is loaded, and asks for the server's health.
PageInit ==
    /\ ServerInit
    /\ origin \in Origins
    /\ mintInput = Blank
    /\ subject = [f \in Exchanges |-> Blank]
    /\ loading = FALSE
    /\ errorBox = FALSE
    /\ dashboard = FALSE
    /\ panels = BlankPanels
    /\ rawEvidence = NoBody
    /\ rawShown = FALSE
    /\ backend = "unset"
    /\ typed = FALSE
    /\ asked = FALSE

\* A script of another origin may read an answer only if the server names it;
\* the server names the deployed page's.
Readable == origin = "https://backstop-blue.vercel.app"

Answered(x, status) == exchange[x].phase = "answered" /\ exchange[x].status = status /\ Readable
Settled(x) == exchange[x].phase \in {"answered", "lost"}

\* Nobody waits for checkHealth: its request and answer are one step.
CheckHealth ==
    /\ backend = "unset"
    /\ \/ /\ process = "up" /\ Readable
          /\ \E status \in Statuses(Request("GET", "/health", Dash)) :
                 backend' = IF status = 200 THEN "online" ELSE "offline"
       \/ backend' = "offline"
    /\ UNCHANGED <<serverVars, origin, mintInput, subject, loading, errorBox, dashboard, panels, rawEvidence, rawShown, typed, asked>>

\* verifyAsset up to its first await.
\* Faulty variant: the dashboard stays while the next answer is awaited.
StartFetch_KeepsDashboard(text) ==
    /\ \E f \in Exchanges :
           /\ Connect(f, EvidenceRequest(text))
           /\ subject' = [subject EXCEPT ![f] = text]
    /\ errorBox' = FALSE
    /\ asked' = TRUE
    /\ loading' = TRUE
    /\ UNCHANGED <<dashboard, panels, typed>>

StartFetch(text) ==
    /\ \E f \in Exchanges :
           /\ Connect(f, EvidenceRequest(text))
           /\ subject' = [subject EXCEPT ![f] = text]
    /\ errorBox' = FALSE
    /\ asked' = TRUE
    /\ dashboard' = FALSE
    /\ loading' = TRUE
    /\ typed' = FALSE
    /\ UNCHANGED panels

VerifyAsset(text) ==
    /\ \/ text # Blank /\ StartFetch(text)
       \/ /\ text = Blank
          /\ errorBox' = TRUE
          /\ UNCHANGED <<serverVars, subject, dashboard, loading, panels, typed, asked>>
    /\ UNCHANGED <<origin, rawEvidence, rawShown, backend>>

Type(text) ==
    /\ text # mintInput
    /\ mintInput' = text
    /\ typed' = dashboard
    /\ UNCHANGED <<serverVars, origin, subject, loading, errorBox, dashboard, panels, rawEvidence, rawShown, backend, asked>>

ClickVerify ==
    /\ ~loading
    /\ VerifyAsset(mintInput)
    /\ UNCHANGED mintInput

\* The key's listener looks at no button.
PressEnter ==
    /\ loading
    /\ VerifyAsset(mintInput)
    /\ UNCHANGED mintInput

QuickButton(m) ==
    /\ mintInput' = m
    /\ VerifyAsset(m)

\* The answer of fetch f is shown.
\* Faulty variant: the input field is left as it is.
ShowAnswer_KeepsInput(f) ==
    /\ \E body \in Bodies[exchange[f].request.mint] :
           panels' = RenderEvidence(panels, body) /\ rawEvidence' = body
    /\ typed' = FALSE
    /\ dashboard' = TRUE
    /\ UNCHANGED <<mintInput, errorBox>>

ShowAnswer(f) ==
    /\ mintInput' = subject[f]
    /\ typed' = FALSE
    /\ \E body \in Bodies[exchange[f].request.mint] :
           panels' = RenderEvidence(panels, body) /\ rawEvidence' = body
    /\ dashboard' = TRUE
    /\ UNCHANGED errorBox

\* Faulty variant: only a response that is not ok is shown, a failed fetch not.
ShowFailure_OnlyHttp(f) ==
    /\ errorBox' = (errorBox \/ exchange[f].phase = "answered")
    /\ UNCHANGED <<mintInput, dashboard, panels, rawEvidence, typed>>

ShowFailure(f) ==
    /\ errorBox' = TRUE
    /\ UNCHANGED <<mintInput, dashboard, panels, rawEvidence, typed>>

\* Faulty variant: "finally" is forgotten where the fetch fails.
AfterAnswer_OnSuccess(f) == loading' = IF Answered(f, 200) THEN FALSE ELSE loading

\* The finally block: whatever else is under way, the page waits no more.
AfterAnswer(f) == loading' = FALSE

Arrives(f) ==
    /\ Settled(f)
    /\ \/ Answered(f, 200) /\ ShowAnswer(f)
       \/ ~Answered(f, 200) /\ ShowFailure(f)
    /\ AfterAnswer(f)
    /\ Finish(f)
    /\ subject' = [subject EXCEPT ![f] = Blank]
    /\ UNCHANGED <<origin, rawShown, backend, asked>>

ToggleRaw ==
    /\ dashboard
    /\ rawShown' = ~rawShown
    /\ UNCHANGED <<serverVars, origin, mintInput, subject, loading, errorBox, dashboard, panels, rawEvidence, backend, typed, asked>>

-----------------------------------------------------------------------------
(* The server and its host, and other clients who load the page. *)

Outside ==
    /\ \/ \E x \in Exchanges : Respond(x) \/ BreakOff(x)
       \/ FileFails
       \/ Restart
    /\ UNCHANGED page

Next ==
    \/ CheckHealth
    \/ \E text \in Texts : Type(text)
    \/ ClickVerify
    \/ PressEnter
    \/ \E m \in QuickMints : QuickButton(m)
    \/ \E f \in Exchanges : Arrives(f)
    \/ ToggleRaw
    \/ Outside

Spec == PageInit /\ [][Next]_pageVars

\* The handlers end and the browser runs what has settled.  Nothing is asked of
\* the host: a connection to a process that is down is refused.
FairSpec == Spec /\ WF_pageVars(\E f \in Exchanges : Arrives(f) \/ (Respond(f) /\ UNCHANGED page))

-----------------------------------------------------------------------------
(* Properties. *)

PageTypeOK ==
    /\ process \in {"up", "down"}
    /\ origin \in Origins /\ mintInput \in Texts /\ backend \in {"unset", "online", "offline"}
    /\ subject \in [Exchanges -> Texts]
    /\ \A f \in Exchanges : InFlight(f) <=> subject[f] # Blank
    /\ loading => ~dashboard /\ \E f \in Exchanges : InFlight(f)

\* The elements keep what an earlier answer wrote into them unless a render
\* function writes again: the dashboard a reader sees is made of one answer,
\* the one in its raw evidence, whichever sources failed and whatever answers
\* were shown before.
PageIsOneAnswer ==
    dashboard => /\ rawEvidence \in Bodies[panels.asset.mint]
                 /\ panels = RenderEvidence(BlankPanels, rawEvidence)

\* The field that names the asset is the asset shown, however the answers of
\* overlapping requests arrived, until the reader types something else.
InputNamesShownAsset ==
    dashboard /\ ~typed => EvidenceRequest(mintInput).mint = panels.asset.mint

\* Once something was asked and nothing is under way, the reader has an answer
\* or an error in sight: no order of answers, losses and crashes leaves an
\* empty page or a spinner.
PageHasOutcome ==
    (\A f \in Exchanges : ~InFlight(f)) /\ asked => ~loading /\ (dashboard \/ errorBox)

\* A server that dies under a request does not leave the page checking.
CheckingEnds == loading ~> ~loading

\* docs/DEMO.md: the dashboard shows each source's classification, PASS where
\* the server found PASS.
SummaryShowsClassification ==
    dashboard => \A source \in DOMAIN rawEvidence.display :
                     panels.summary[source] = rawEvidence.display[source]
=============================================================================
