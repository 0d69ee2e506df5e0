------------------------------ MODULE Pipeline ------------------------------
(***************************************************************************)
(* process_domain: the stages one domain goes through, from DNS to its     *)
(* result.  The network is the environment: every request may get any of   *)
(* Answers, the provider's breaker may refuse it, and the deadline may     *)
(* expire at any await.  The fetches of a wave run concurrently.           *)
(***************************************************************************)
EXTENDS FetchRules, Discovery, Judgment

CONSTANTS Sites,          \* the sites a domain may turn out to be
          Answers,        \* the answers a request may get
          Verdicts,       \* the answers TypeSafe may give
          Fallback,       \* the links of FIXED_FALLBACK_PATHS
          Backends,       \* FETCH_BACKEND
          MAX_PAGES,      \* max_pages_per_domain
          MAX_ATTEMPTS,   \* max_domain_attempts
          RETRIES,        \* len(RETRY_DELAYS) of a fetch
          JUDGE_RETRIES,  \* len(RETRY_DELAYS) of TypeSafe
          EARLY_STOP      \* early_stop_on_first_good

Home == -1                \* the homepage; the other pages are the urls of links

VARIABLES
  site, backend,          \* what is crawled, and how
  attempt,                \* attempts of process_domain so far
  phase,                  \* where the attempt is
  dns,                    \* scratch.dns
  home, rungs,            \* the fetch of the homepage and the rungs left
  texts,                  \* robots.txt and /sitemap.xml
  selected,               \* the pages discovery chose
  fetches,                \* the fetches of those pages
  scratch,                \* scratch.pages, .tokens (the fetches whose usage is in
                          \* the sum) and .extracted
  posts,                  \* requests to TypeSafe so far
  result,
  got, paid,              \* history: pages that came in this attempt, and fetches
                          \* that came back with a usage, an empty page's included
  account,                \* history: the kinds of page an account error was met on
  blamed                  \* history: causes held against the provider

crawlVars == <<site, backend, attempt, phase, dns, home, rungs, texts, selected, fetches,
               scratch, posts, result, got, paid, account, blamed>>

PagesOf(links) == {canonical(links[i].at) : i \in DOMAIN links}
AllPages == {Home} \cup PagesOf(Fallback)
            \cup UNION {PagesOf(s.links) \cup PagesOf(s.mapped) : s \in Sites}

LinksOf(s) == Range(s.links) \cup Range(s.mapped) \cup Range(Fallback)

\* Tier and depth are read from the path, which is what makes two links one page;
\* and no page shows more addresses than the order of appearance tells apart.
ASSUME SitesAssumption ==
  /\ Fallback \in Seq(LinkRecord)
  /\ \A s \in Sites :
       /\ s.links \in Seq(LinkRecord) /\ s.mapped \in Seq(LinkRecord)
       /\ \A l, m \in LinksOf(s) :
            canonical(l.at) = canonical(m.at) => tier_for(l) = tier_for(m) /\ l.depth = m.depth
       /\ \A p \in AllPages : s.lands[p] \in Nat /\ s.finds[s.lands[p]] \in FindSeq
       /\ s.cf \subseteq DOMAIN Traits

ASSUME BoundsAssumption ==
  /\ MAX_PAGES \in Nat /\ MAX_ATTEMPTS \in Nat /\ RETRIES \in Nat /\ JUDGE_RETRIES \in Nat
  /\ MAX_CANDIDATES \in Nat \ {0} /\ MAX_JUDGE_CANDIDATES \in Nat \ {0}

\* What the provider is to blame for: that r.jina.ai cannot be reached, refuses
\* the key, has an error of its own, or answers what is no answer.
ASSUME AnswersAssumption ==
  \A r \in Answers :
    \/ r.exc = "connect"
    \/ r.exc = "none" /\ r.status \in {401, 402} \cup (500..599)
    \/ r.exc = "none" /\ r.status \in 200..299 /\ r.body \in {"not_json", "no_data"}
    => r.cause = "provider"

NoFetch == [st |-> "off", tries |-> 0, err |-> FetchResult]
NewFetch == [NoFetch EXCEPT !.st = "go"]
Ok == {"page", "empty"}   \* a fetch that came back with a FetchResult
Idle == [p \in AllPages |-> NoFetch]
NotExtracted == [n |-> -1, ranked |-> <<>>]
Scratch == [pages |-> <<>>, tokens |-> <<>>, extracted |-> NotExtracted]

\* A page as it was served: a homepage with nothing left in it is a page too.
Page(p, score) ==
  LET u == site.lands[p]
      blank == p = Home /\ home.st = "empty"
  IN  [url |-> u, score |-> score, finds |-> IF blank THEN <<>> ELSE site.finds[u],
       cf |-> site.cf, form |-> ~blank /\ u \in site.forms]

CrawlInit ==
  /\ site \in Sites /\ backend \in Backends
  /\ attempt = 1 /\ phase = "dns"
  /\ dns = [domain |-> FALSE, www |-> FALSE]
  /\ home = NoFetch /\ rungs = <<>> /\ texts = "off"
  /\ selected = <<>> /\ fetches = Idle /\ scratch = Scratch
  /\ posts = 0 /\ result = NoResult
  /\ got = {} /\ paid = {} /\ account = {} /\ blamed = {}

-----------------------------------------------------------------------------
(* The end of an attempt                                                   *)

\* Fields the attempts do not share are left to the step that sets them.
Working == {"dns", "wave1", "discover", "contact", "rest", "judge"}

\* RETRYABLE_DOMAIN_REASONS: only an open breaker earns another attempt.
EndAttempt(r) ==
  /\ result' = r
  /\ phase' = IF r.reason = "circuit_open" /\ attempt < MAX_ATTEMPTS THEN "wait" ELSE "done"

Failed(reason) == [NoResult EXCEPT !.status = "fetch_failed", !.reason = reason]

\* Mutated: the attempts are not counted.
AgainUncounted ==
  /\ phase = "wait"
  /\ phase' = "dns"
  /\ dns' = [domain |-> FALSE, www |-> FALSE]
  /\ home' = NoFetch /\ rungs' = <<>> /\ texts' = "off"
  /\ selected' = <<>> /\ fetches' = Idle /\ scratch' = Scratch
  /\ posts' = 0 /\ got' = {} /\ paid' = {}
  /\ UNCHANGED <<site, backend, attempt, result, account, blamed>>

\* process_domain sleeps, then a new attempt starts with an empty scratch.
Again ==
  /\ phase = "wait"
  /\ attempt' = attempt + 1 /\ phase' = "dns"
  /\ dns' = [domain |-> FALSE, www |-> FALSE]
  /\ home' = NoFetch /\ rungs' = <<>> /\ texts' = "off"
  /\ selected' = <<>> /\ fetches' = Idle /\ scratch' = Scratch
  /\ posts' = 0 /\ got' = {} /\ paid' = {}
  /\ UNCHANGED <<site, backend, result, account, blamed>>

-----------------------------------------------------------------------------
(* Stages 1 and 2: DNS, then homepage, robots.txt and sitemap together     *)

HOMEPAGE_LADDER == <<"https", "https_www", "http">>

\* The rungs whose host has an address, or all of them.
ladder_for(d) ==
  LET worth == At(HOMEPAGE_LADDER,
                  {i \in DOMAIN HOMEPAGE_LADDER :
                     IF HOMEPAGE_LADDER[i] = "https_www" THEN d.www ELSE d.domain})
  IN  IF worth = <<>> THEN HOMEPAGE_LADDER ELSE worth

\* check_domain: a host may have an address and yet none be found, because a
\* query timed out.
Resolves(a, w) == (a => site.aDomain) /\ (w => site.aWww)

\* The signs of a parked domain: its nameservers, before anything is fetched;
\* then the host its homepage is on, or a phrase on the page.
check_ns == "ns" \in site.signs
is_parked == "host" \in site.signs \/ ("phrase" \in site.signs /\ home.st # "empty")

Dns(a, w) ==
  /\ phase = "dns"
  /\ Resolves(a, w)
  /\ dns' = [domain |-> a, www |-> w]
  /\ \/ /\ ~a /\ ~w
        /\ EndAttempt(Failed("dns"))
        /\ UNCHANGED <<home, rungs, texts>>
     \/ /\ a \/ w
        /\ check_ns
        /\ EndAttempt([NoResult EXCEPT !.status = "parked_or_for_sale"])
        /\ UNCHANGED <<home, rungs, texts>>
     \/ /\ a \/ w
        /\ ~check_ns
        /\ phase' = "wave1" /\ texts' = "go"
        /\ home' = NewFetch /\ rungs' = ladder_for(dns')
        /\ UNCHANGED result
  /\ UNCHANGED <<site, backend, attempt, selected, fetches, scratch, posts,
                 got, paid, account, blamed>>

\* One pass of the retry loop of a fetch, given the answer it got.  What is left of
\* a page of scripts once they are stripped is an empty page, and no error.
Pass(f, r) ==
  LET o == GetHtml(backend, r)
  IN  IF o.ok THEN [f EXCEPT !.st = IF Empty(r) THEN "empty" ELSE "page"]
      ELSE IF retryable(o) /\ f.tries < RETRIES THEN [f EXCEPT !.tries = @ + 1]
      ELSE [f EXCEPT !.st = "error", !.err = o]

\* breaker.record(not e.provider): only provider-backed fetches record.
Blame(r) ==
  IF backend = "jina" /\ ~JinaHtml(r).ok /\ JinaHtml(r).provider
  THEN blamed \cup {r.cause} ELSE blamed

AccountError(r, where) ==
  IF GetHtml(backend, r).class = "provider_account" THEN {where} ELSE {}

\* Mutated: an account error leads to the next rung like any other.
LadderToTheEnd(f) ==
  IF f.st = "error" /\ Len(rungs) > 1
  THEN /\ home' = NewFetch /\ rungs' = Tail(rungs)
  ELSE /\ home' = f /\ UNCHANGED rungs

\* fetch_homepage: a rung that fails leads to the next one, an account error
\* ends the ladder.
Ladder(f) ==
  IF f.st = "error" /\ f.err.class # "provider_account" /\ Len(rungs) > 1
  THEN /\ home' = NewFetch /\ rungs' = Tail(rungs)
  ELSE /\ home' = f /\ UNCHANGED rungs

HomeAnswer(r) ==
  /\ phase = "wave1" /\ home.st = "go"
  /\ Ladder(Pass(home, r))
  /\ blamed' = Blame(r)
  /\ got' = IF home'.st \in Ok THEN got \cup {Home} ELSE got
  /\ paid' = IF home'.st \in Ok THEN paid \cup {Home} ELSE paid
  /\ account' = account \cup AccountError(r, "home")
  /\ UNCHANGED <<site, backend, attempt, phase, dns, texts, selected, fetches, scratch,
                 posts, result>>

\* fetch_text_or_blank, retries included: the text, or nothing.
TextAnswer(r) ==
  /\ texts = "go"
  /\ texts' = IF HttpxText(r).ok THEN "text" ELSE "blank"
  /\ UNCHANGED <<site, backend, attempt, phase, dns, home, rungs, selected, fetches,
                 scratch, posts, result, got, paid, account, blamed>>

\* All three are back.
Wave1Done ==
  /\ phase = "wave1" /\ home.st \in Ok \cup {"error"} /\ texts # "go"
  /\ \/ /\ home.st = "error" /\ home.err.class = "provider_account"
        /\ phase' = "raised" /\ UNCHANGED result
     \/ /\ home.st = "error" /\ home.err.class # "provider_account"
        /\ EndAttempt(Failed(home.err.reason))
     \/ /\ home.st # "error" /\ is_parked
        /\ EndAttempt([NoResult EXCEPT !.status = "parked_or_for_sale",
                         !.pages = <<site.lands[Home]>>, !.tokens = <<Home>>])
     \/ /\ home.st # "error" /\ ~is_parked
        /\ phase' = "discover" /\ UNCHANGED result
  /\ UNCHANGED <<site, backend, attempt, dns, home, rungs, texts, selected, fetches,
                 scratch, posts, got, paid, account, blamed>>

-----------------------------------------------------------------------------
(* Stages 3 and 4: discovery, the contact page, then the rest together     *)

Limit == IF MAX_PAGES > 1 THEN MAX_PAGES - 1 ELSE 0

\* Robots and sitemap of the first host say nothing of another site.
Mapped(n) == IF texts = "text" /\ site.sameSite THEN SubSeq(site.mapped, 1, n) ELSE <<>>

Links == IF home.st = "empty" THEN <<>> ELSE site.links

Chosen(n) == discover_pages(Links, Mapped(n), Fallback, Limit)

ContactIndex(sel) ==
  LET C == {i \in DOMAIN sel : sel[i].tier = "contact"}
  IN  IF C = {} THEN 0 ELSE CHOOSE i \in C : \A k \in C : i <= k

Rest(sel) == {i \in DOMAIN sel : i # ContactIndex(sel)}

Launch(I, sel) ==
  [p \in AllPages |-> IF \E i \in I : sel[i].url = p THEN NewFetch ELSE NoFetch]

\* n: how many of the sitemaps' pages the walk came back with.  The homepage
\* enters the scratchpad only now.
Discover(n) ==
  LET c == ContactIndex(Chosen(n))
  IN  /\ phase = "discover"
      /\ selected' = Chosen(n)
      /\ scratch' = [scratch EXCEPT !.pages = Append(@, Page(Home, 0)),
                                     !.tokens = Append(@, Home)]
      /\ phase' = IF c = 0 THEN "rest" ELSE "contact"
      /\ fetches' = Launch(IF c = 0 THEN Rest(Chosen(n)) ELSE {c}, Chosen(n))
      /\ UNCHANGED <<site, backend, attempt, dns, home, rungs, texts, posts,
                     result, got, paid, account, blamed>>

\* fetch_page swallows every FetchError, an account error included.
PageAnswer(p, r) ==
  /\ fetches[p].st = "go"
  /\ fetches' = [fetches EXCEPT ![p] = [Pass(@, r) EXCEPT !.err = FetchResult]]
  /\ blamed' = Blame(r)
  /\ got' = IF fetches'[p].st = "page" THEN got \cup {p} ELSE got
  /\ paid' = IF fetches'[p].st \in Ok THEN paid \cup {p} ELSE paid
  /\ account' = account \cup AccountError(r, "page")
  /\ UNCHANGED <<site, backend, attempt, phase, dns, home, rungs, texts, selected, scratch,
                 posts, result>>

\* The pages of I that came back, in the order of the selection.
Arrived(I) ==
  At([i \in DOMAIN selected |-> Page(selected[i].url, selected[i].score)],
     {i \in I : fetches[selected[i].url].st = "page"})

\* The fetches of I with a usage: an empty page's is added before the page is dropped.
Billed(I) ==
  At([i \in DOMAIN selected |-> selected[i].url],
     {i \in I : fetches[selected[i].url].st \in Ok})

\* Mutated: the usage of an empty page is dropped with it.
GatherListedOnly(I) ==
  [scratch EXCEPT !.pages = @ \o Arrived(I),
                  !.tokens = @ \o At([i \in DOMAIN selected |-> selected[i].url],
                                     {i \in I : fetches[selected[i].url].st = "page"})]

Gather(I) == [scratch EXCEPT !.pages = @ \o Arrived(I), !.tokens = @ \o Billed(I)]

Back(I) == \A i \in I : fetches[selected[i].url].st \in Ok \cup {"error"}

\* Pages have no scores here, which does not matter for whether the first is of
\* rank 1 and precise.
GoodEnough(early) ==
  /\ EARLY_STOP /\ early # <<>>
  /\ classify(early[1].email) = 1 /\ early[1].method \in {"mailto", "jsonld"}

ContactDone ==
  LET c == ContactIndex(selected)
  IN  /\ phase = "contact" /\ Back({c})
      /\ scratch' = Gather({c})
      /\ phase' = "rest"
      /\ fetches' = IF GoodEnough(rank_candidates(scratch'.pages)) THEN Idle
                    ELSE Launch(Rest(selected), selected)
      /\ UNCHANGED <<site, backend, attempt, dns, home, rungs, texts, selected, posts,
                     result, got, paid, account, blamed>>

\* The provenance check keeps only addresses with a source that was fetched.
Provenance(ranked, fetched) ==
  At(ranked, {i \in DOMAIN ranked : ranked[i].sources \cap fetched # {}})

extract_pages(pages) ==
  Provenance(rank_candidates(pages), {pages[i].url : i \in DOMAIN pages})

\* Done once per page set.
extract_all(s) ==
  IF s.extracted.n = Len(s.pages) THEN s.extracted.ranked ELSE extract_pages(s.pages)

Extracted(s) == [s EXCEPT !.extracted = [n |-> Len(s.pages), ranked |-> extract_all(s)]]

RestDone ==
  LET I == {i \in Rest(selected) : fetches[selected[i].url].st # "off"}
  IN  /\ phase = "rest" /\ Back(I)
      /\ scratch' = Gather(I)
      /\ phase' = "extract" /\ fetches' = Idle
      /\ UNCHANGED <<site, backend, attempt, dns, home, rungs, texts, selected, posts,
                     result, got, paid, account, blamed>>

\* The pages are complete: _judge_pages extracts before its first await.
Extract ==
  /\ phase = "extract"
  /\ scratch' = Extracted(scratch)
  /\ phase' = "judge"
  /\ UNCHANGED <<site, backend, attempt, dns, home, rungs, texts, selected, fetches, posts,
                 result, got, paid, account, blamed>>

\* The breaker stayed open for as long as a fetch may wait for it.  CircuitOpen
\* is no FetchError: it ends the attempt, the scratchpad is dropped, and the
\* fetches gathered with it run on.
Open(f) ==
  /\ backend = "jina"
  /\ f.st = "go"
  /\ EndAttempt(Failed("circuit_open"))

CircuitOpen ==
  /\ \/ phase = "wave1" /\ Open(home)
     \/ phase \in {"contact", "rest"} /\ \E p \in AllPages : Open(fetches[p])
  /\ fetches' = Idle
  /\ texts' = "off"
  /\ UNCHANGED <<site, backend, attempt, dns, home, rungs, selected, scratch, posts,
                 got, paid, account, blamed>>

-----------------------------------------------------------------------------
(* Stages 6 and 7: judgment, result                                        *)

Harvest(j, reason) ==
  EndAttempt(harvest(scratch.pages, scratch.tokens, extract_all(scratch), j, reason))

JudgeUnchanged ==
  UNCHANGED <<site, backend, attempt, dns, home, rungs, texts, selected, fetches, scratch,
              got, paid, account, blamed>>

\* Nothing to ask: the rules decide.
JudgeByRules ==
  /\ phase = "judge"
  /\ ~should_call(extract_all(scratch))
  /\ Harvest(rules_only(extract_all(scratch)), None)
  /\ UNCHANGED posts
  /\ JudgeUnchanged

\* One request of _post fails: another one, or (out of retries, a 4xx, or
\* TypeSafe's own breaker open) the rules decide.
JudgeFails(final) ==
  /\ phase = "judge"
  /\ should_call(extract_all(scratch))
  /\ IF final \/ posts >= JUDGE_RETRIES
     THEN /\ Harvest([rules_only(extract_all(scratch)) EXCEPT !.error = TRUE], None)
          /\ UNCHANGED posts
     ELSE /\ posts' = posts + 1
          /\ UNCHANGED <<phase, result>>
  /\ JudgeUnchanged

JudgeAnswers(v) ==
  /\ phase = "judge"
  /\ should_call(extract_all(scratch))
  /\ LET ranked == extract_all(scratch)
     IN  Harvest(decide(v, build_body(ranked), ranked), None)
  /\ UNCHANGED posts
  /\ JudgeUnchanged

-----------------------------------------------------------------------------
(* What may end an attempt at any await                                    *)

\* The deadline: what is in the scratchpad is kept, TypeSafe is not asked, and
\* the fetches being waited for are cancelled.  The pages are put together in the
\* handler of the TimeoutError, where no other handler sees an exception of theirs.
Deadline ==
  /\ phase \in Working
  /\ \/ /\ scratch.pages # <<>>
        /\ Harvest(rules_only(extract_all(scratch)), "domain_timeout")
     \/ /\ scratch.pages # <<>>
        /\ phase' = "crashed" /\ UNCHANGED result
     \/ /\ scratch.pages = <<>>
        /\ EndAttempt(Failed("domain_timeout"))
  /\ fetches' = Idle
  /\ texts' = "off"
  /\ UNCHANGED <<site, backend, attempt, dns, home, rungs, selected, scratch, posts,
                 got, paid, account, blamed>>

\* An unexpected exception (parsing a page, reading an answer of TypeSafe) never
\* fails the job.
InternalError ==
  /\ \/ phase \in {"discover", "extract", "judge"}
     \/ phase = "contact" /\ EARLY_STOP /\ Back({ContactIndex(selected)})
     \/ phase = "wave1" /\ home.st \in Ok /\ texts # "go"
  /\ EndAttempt(Failed("internal_error"))
  /\ UNCHANGED <<site, backend, attempt, dns, home, rungs, texts, selected, fetches, scratch,
                 posts, got, paid, account, blamed>>

CrawlNext ==
  \/ \E a, w \in BOOLEAN : Dns(a, w)
  \/ \E r \in Answers : \/ HomeAnswer(r) \/ TextAnswer(r)
                        \/ \E p \in AllPages : PageAnswer(p, r)
  \/ Again \/ Wave1Done \/ InternalError \/ CircuitOpen
  \/ \E n \in 0..Len(site.mapped) : Discover(n)
  \/ ContactDone \/ RestDone \/ Extract \/ JudgeByRules \/ Deadline
  \/ \E final \in BOOLEAN : JudgeFails(final)
  \/ \E v \in Verdicts : JudgeAnswers(v)

\* Every wait of the code ends: requests, naps and retries time out, and so
\* does the attempt as a whole.
CrawlSpec == CrawlInit /\ [][CrawlNext]_crawlVars /\ WF_crawlVars(CrawlNext)

-----------------------------------------------------------------------------
(* Properties                                                              *)

\* "raised": the account error, "crashed": another exception left process_domain.
Ended == phase \in {"done", "raised", "crashed"}

\* An account error on the homepage ends the crawl of the domain: no other rung, page
\* or attempt asks the provider again.  It waits for robots.txt and the sitemap and
\* then reaches the worker; only the deadline, striking in that wait, takes its place
\* (fetch_homepage, _process, _attempt_domain).
AccountErrorStops ==
  "home" \in account =>
    \/ phase = "wave1" /\ home.st = "error" /\ home.err.class = "provider_account"
    \/ phase = "raised"
    \/ phase = "done" /\ result = Failed("domain_timeout")

\* An account error of the provider reaches the worker, which alone pauses the jobs:
\* no domain that met one is finished with a result (README: a 402 pauses every active
\* job and fails no domain).
AccountErrorPauses == phase = "done" => account = {}

\* Exactly one reading of a result: "found" is a best address, which is one of
\* the addresses listed, and no other status hides addresses of the business
\* behind "no business email" (assign_status, _harvest).
ResultSound ==
  phase = "done" =>
    /\ (result.status = "found") <=> (result.best # None)
    /\ result.best # None => result.best \in Range(Emails(result.emails))
    /\ result.status = "no_business_email" => result.business = {}
    /\ result.reason = "domain_timeout" /\ result.status = "found" => result.review

\* No address TypeSafe judged as someone else's is offered as the best one,
\* whatever it chose and whatever fell back to the rules (decide).
RejectedNeverBest == result.best # None => result.best \notin result.rejected

\* The tokens of a result are of fetches of its own attempt, none of them counted
\* twice; every page it lists came with content and is paid for in them, every source
\* of an address is such a page; and an attempt that ran to its end counts all it
\* was charged, for pages that turned out empty too (Scratch, _process, _harvest).
ResultAccountsForPages ==
  phase = "done" =>
    /\ \A i, k \in DOMAIN result.tokens : result.tokens[i] = result.tokens[k] => i = k
    /\ Range(result.tokens) \subseteq paid
    /\ result.reason = None => paid \subseteq Range(result.tokens)
    /\ Range(result.pages) \subseteq {site.lands[p] : p \in got \cap Range(result.tokens)}
    /\ \A i \in DOMAIN result.emails : result.emails[i].sources \subseteq Range(result.pages)

\* Without TypeSafe's answer the best address is of the best rank found on any
\* page of the result (merge_pages, rank_candidates, rules_only).
RulesPickTheBest ==
  phase = "done" /\ result.status \notin {"fetch_failed", "parked_or_for_sale"} /\ ~result.called =>
    \A i \in DOMAIN scratch.pages : \A k \in DOMAIN scratch.pages[i].finds :
      LET e == scratch.pages[i].finds[k].email
      IN  ~should_drop(e) => result.best # None /\ classify(result.best) <= classify(e)

\* Discovery's choice is the right one among what it chose from (select).
ChoiceRight ==
  phase \in {"contact", "rest"} =>
    \E n \in 0..Len(site.mapped) :
      GoodChoice(Candidates(Links, Mapped(n), Fallback, Limit), selected, Limit)

\* Only trouble of the provider itself is held against it: not a slow or dead
\* site, not our own rate (get_html, _exc_to_fetch_error).
SiteNeverBlamed == blamed \subseteq {"provider"}

\* The order of the stages, and a fetch that ends or uses up one of its retries.
Stage == [dns |-> 1, wave1 |-> 2, discover |-> 3, contact |-> 4, rest |-> 5, extract |-> 6,
          judge |-> 7, wait |-> 8, done |-> 8, raised |-> 8, crashed |-> 8]
GoesOn(f, g) == f.st = "go" /\ (g.st # "go" \/ g.tries \in (f.tries + 1)..RETRIES)

\* An attempt never goes back: every step leads to a later stage, or within the
\* stage brings one fetch, one rung of the ladder or one request to TypeSafe closer
\* to its end and leaves the others alone; only a new attempt, one of MAX_ATTEMPTS,
\* starts over, and nothing happens after the end (process_domain, _process).
Forward ==
  /\ ~Ended
  /\ \/ phase = "wait" /\ attempt' = attempt + 1 /\ attempt' <= MAX_ATTEMPTS
     \/ attempt' = attempt /\ Stage[phase'] > Stage[phase]
     \/ /\ attempt' = attempt /\ phase' = phase
        /\ \/ /\ Len(rungs') < Len(rungs) \/ (GoesOn(home, home') /\ UNCHANGED rungs)
              /\ UNCHANGED <<texts, fetches, posts>>
           \/ texts = "go" /\ texts' # "go" /\ UNCHANGED <<home, rungs, fetches, posts>>
           \/ /\ \E p \in AllPages : /\ GoesOn(fetches[p], fetches'[p])
                                     /\ fetches' = [fetches EXCEPT ![p] = fetches'[p]]
              /\ UNCHANGED <<home, rungs, texts, posts>>
           \/ posts' \in (posts + 1)..JUDGE_RETRIES /\ UNCHANGED <<home, rungs, texts, fetches>>

\* Every step of process_domain is a step forward.
NeverBack == [][Forward]_crawlVars

\* A domain always gets an answer, or an error of it reaches the worker.
ProcessEnds == <>Ended

=============================================================================
