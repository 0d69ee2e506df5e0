---------------------------- MODULE MCServices ----------------------------
(***************************************************************************)
(* The services around a crawl, side by side for TLC: in each behaviour one*)
(* of them runs and the others rest.  They share no state: the fetch gate, *)
(* the rate limit, the sitemap walk, the webhooks, the job's clock, the    *)
(* uploaded file, the provider keys, the admission of jobs.                *)
(***************************************************************************)
EXTENDS FetchGate, TokenBucket, SitemapWalk, Webhooks, JobClock, Ingest, ProviderKeys, Admission

VARIABLE part

\* Two fetches of one host and one of another.
HostOfDef == [t \in Fetches |-> IF t = "f3" THEN "h2" ELSE "h1"]

\* A site whose sitemaps are nested, list each other and point elsewhere.
D(own, index, excluded, preferred, lists) ==
  [own |-> own, index |-> index, excluded |-> excluded, preferred |-> preferred, lists |-> lists]
DocDef ==
  [root |-> D(TRUE, TRUE, FALSE, FALSE, <<"posts", "shop", "pages", "root", "far">>),
   posts |-> D(TRUE, FALSE, TRUE, FALSE, <<"p1">>),
   shop |-> D(TRUE, TRUE, FALSE, FALSE, <<"deep", "pages", "root">>),
   pages |-> D(TRUE, FALSE, FALSE, TRUE, <<"p1", "x1", "p2">>),
   deep |-> D(TRUE, TRUE, FALSE, FALSE, <<"shop", "deeper">>),
   deeper |-> D(TRUE, FALSE, FALSE, FALSE, <<"p3">>),
   far |-> D(FALSE, FALSE, FALSE, FALSE, <<"p1">>),
   p1 |-> D(TRUE, FALSE, FALSE, FALSE, <<>>), p2 |-> D(TRUE, FALSE, FALSE, FALSE, <<>>),
   p3 |-> D(TRUE, FALSE, FALSE, FALSE, <<>>), x1 |-> D(FALSE, FALSE, FALSE, FALSE, <<>>)]
RobotsDef == <<"far", "root", "shop", "root", "pages">>


\* Files with and without headers, with every kind of cell, up to and past the
\* limits on rows and columns.
V(mail, host, key) == [mail |-> mail, host |-> host, key |-> key]
Cell(name, frags) == [name |-> name, frags |-> frags]
Word(w) == Cell(w, <<V(FALSE, "none", "")>>)
Acme == Cell("acme", <<V(FALSE, "site", "acme")>>)
Bob == Cell("bob", <<V(TRUE, "site", "bob")>>)
Gmail == Cell("gmail", <<V(TRUE, "free", "gmail")>>)
Face == Cell("face", <<V(FALSE, "platform", "")>>)
Mixed == Cell("mixed", <<V(FALSE, "address", ""), V(TRUE, "site", "acme")>>)
Cells == {Blank, Acme, Bob, Gmail, Face, Mixed}
Heads == {<<Word("website"), Word("name")>>, <<Word("email"), Word("name")>>,
          <<Word("name"), Word("name")>>, <<Acme, Blank>>, <<Blank, Blank>>, <<Bob, Acme>>}
UploadsDef ==
  {<<>>, <<<<Acme, Acme, Acme>>>>} \cup {<<h>> : h \in Heads}
  \cup {<<h, <<a, b>>, <<c, d>>>> : h \in Heads, a, b, c \in Cells, d \in {Blank, Gmail}}
  \cup {<<h, <<a>>, <<b>>, <<b>>, <<b>>>> : h \in Heads, a, b \in Cells}

\* Who asks for what: a retried request and a changed one under one key; a
\* person at the limit who is also an admin; the holder of the admin key.
W(person, admin, key, print, file) ==
  [person |-> person, admin |-> admin, key |-> key, print |-> print, file |-> file]
ScenariosDef ==
  {[r1 |-> W("ann", FALSE, "k", "x", TRUE), r2 |-> W("ann", FALSE, "k", "x", TRUE),
    r3 |-> W("ann", FALSE, "k", "y", FALSE)],
   [r1 |-> W("ann", FALSE, "k", "x", TRUE), r2 |-> W("ann", FALSE, NoIdem, "y", FALSE),
    r3 |-> W("ann", TRUE, NoIdem, "x", FALSE)],
   [r1 |-> W("ann", FALSE, "k", "x", FALSE), r2 |-> W(KeyHolder, TRUE, "k", "x", TRUE),
    r3 |-> W(KeyHolder, TRUE, "k", "x", TRUE)]}

vars == <<part, gateVars, bktVars, walkVars, hookVars, clkVars, ingVars, keyVars, admVars>>

Init ==
  /\ part \in {"gate", "bucket", "walk", "hooks", "clock", "ingest", "keys", "admission"}
  /\ part = "walk" \/ (part # "walk" /\ walkTexts = <<>>)
  /\ part = "ingest" \/ (part # "ingest" /\ ingFile = <<>> /\ ingColumn = NoColumn)
  /\ part = "keys" \/ (part # "keys" /\ keyMaster = {} /\ keyRow = NoKey)
  /\ part = "admission" \/ (part # "admission" /\ admWant = CHOOSE w \in Scenarios : TRUE)
  /\ GateInit /\ BucketInit /\ WalkInit /\ HookInit /\ ClockInit /\ IngestInit
  /\ KeyInit /\ AdmissionInit

AsGate(A) ==
  /\ part = "gate" /\ A
  /\ UNCHANGED <<part, bktVars, walkVars, hookVars, clkVars, ingVars, keyVars, admVars>>
AsBucket(A) ==
  /\ part = "bucket" /\ A
  /\ UNCHANGED <<part, gateVars, walkVars, hookVars, clkVars, ingVars, keyVars, admVars>>
AsWalk(A) ==
  /\ part = "walk" /\ A
  /\ UNCHANGED <<part, gateVars, bktVars, hookVars, clkVars, ingVars, keyVars, admVars>>
AsHooks(A) ==
  /\ part = "hooks" /\ A
  /\ UNCHANGED <<part, gateVars, bktVars, walkVars, clkVars, ingVars, keyVars, admVars>>
AsClock(A) ==
  /\ part = "clock" /\ A
  /\ UNCHANGED <<part, gateVars, bktVars, walkVars, hookVars, ingVars, keyVars, admVars>>
AsIngest(A) ==
  /\ part = "ingest" /\ A
  /\ UNCHANGED <<part, gateVars, bktVars, walkVars, hookVars, clkVars, keyVars, admVars>>
AsKeys(A) ==
  /\ part = "keys" /\ A
  /\ UNCHANGED <<part, gateVars, bktVars, walkVars, hookVars, clkVars, ingVars, admVars>>
AsAdmission(A) ==
  /\ part = "admission" /\ A
  /\ UNCHANGED <<part, gateVars, bktVars, walkVars, hookVars, clkVars, ingVars, keyVars>>

Next ==
  \/ AsGate(GateNext)
  \/ AsBucket(BucketNext)
  \/ AsWalk(WalkNext)
  \/ AsHooks(HookNext)
  \/ AsClock(ClockNext)
  \/ AsIngest(IngestNext)
  \/ AsKeys(KeyNext)
  \/ AsAdmission(AdmissionNext)

\* Fetches, handlers, senders and requests that have started go on; a refresher's
\* period passes and its loop runs again and again, even if it fails now and then.
Fairness ==
  /\ \A t \in Fetches : WF_gateVars(AsGate(FetchStep(t)))
  /\ \A t \in Slots : WF_hookVars(AsHooks(HandlerStep(t)))
  /\ \A s \in Senders : WF_hookVars(AsHooks(SenderStep(s)))
  /\ \A p \in KeyProcs : /\ WF_keyVars(AsKeys(Expire(p)))
                         /\ SF_keyVars(AsKeys(RefreshLoop(p, TRUE)))
  /\ \A r \in Requests : WF_admVars(AsAdmission(RequestStep(r)))

Spec == Init /\ [][Next]_vars /\ Fairness

\* Once an admin stops changing the key, every process comes to use and report
\* the right one and stays with it, whatever it had cached, after a restart and
\* where the saved key cannot be decrypted (current, refresh, _report).
KeysSettle == part = "keys" => <>[]KeysRight

=============================================================================
