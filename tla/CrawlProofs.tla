----------------------------- MODULE CrawlProofs -----------------------------
(***************************************************************************)
(* What one domain goes through, for any site, any answers of the network  *)
(* and of TypeSafe, and any limits: an account error stops the crawl, only *)
(* the provider's trouble is held against it, discovery's choice is the    *)
(* right one, the result says what the attempt did and cost, and the walk  *)
(* through the site's sitemaps ends within its limits.                     *)
(***************************************************************************)
EXTENDS Pipeline, SitemapWalk, SelectionProofs

-----------------------------------------------------------------------------
(* Whose an account error is                                               *)

\* An account error is an error, and one that is not retried.
LEMMA AccountErrorIsFinal ==
  ASSUME NEW b, NEW r, GetHtml(b, r).class = "provider_account"
  PROVE  ~GetHtml(b, r).ok /\ ~retryable(GetHtml(b, r))
<1>1. FetchResult.class # "provider_account"
  BY DEF FetchResult
<1>2. \A c, d, e : FetchError(c, d, e).ok = FALSE /\ FetchError(c, d, e).class = c
  BY Zenon DEF FetchError
<1>3. \A x, p : exc_to_fetch_error(x, p).class # "provider_account"
  <2> SUFFICES ASSUME NEW x, NEW p
               PROVE  exc_to_fetch_error(x, p).class # "provider_account"
    OBVIOUS
  <2>1. CASE x = "redirects"
    BY <1>2, <2>1, Zenon DEF exc_to_fetch_error
  <2>2. CASE x = "certificate"
    BY <1>2, <2>2, Zenon DEF exc_to_fetch_error
  <2>3. CASE x \in {"connect", "read_timeout"}
    <3> DEFINE h == p /\ x \in PROVIDER_HEALTH_EXC
    <3>1. exc_to_fetch_error(x, p) = FetchError("transient", "homepage", h)
      BY <2>3, Zenon DEF exc_to_fetch_error
    <3> HIDE DEF h
    <3>2. QED
      BY <1>2, <3>1
  <2>4. CASE x \notin {"redirects", "certificate", "connect", "read_timeout"}
    BY <1>2, <2>4 DEF exc_to_fetch_error
  <2>5. QED
    BY <2>1, <2>2, <2>3, <2>4
<1>4. \A s : JinaRefusal(s).ok = FALSE
  BY <1>2 DEF JinaRefusal
<1>5. \A s, p : classify_site_status(s, p) # "provider_account"
  BY DEF classify_site_status
<1>6. CASE b = "jina"
  BY <1>1, <1>2, <1>3, <1>4, <1>5, <1>6, Zenon DEF GetHtml, JinaHtml, retryable
<1>7. CASE b # "jina"
  BY <1>1, <1>2, <1>3, <1>5, <1>7, Zenon DEF GetHtml, HttpxHtml, raw_get, retryable
<1>8. QED
  BY <1>6, <1>7

-----------------------------------------------------------------------------
(* An account error stops the crawl                                        *)

\* A page's fetch has three fields.
IsFetch(f) == f = [st |-> f.st, tries |-> f.tries, err |-> f.err]

\* What is claimed, and that nothing is in the scratchpad before discovery: a deadline
\* in the first wave has nothing to salvage.
AccountInv ==
  /\ IsFetch(home)
  /\ phase \in {"dns", "wave1", "discover"} => scratch = Scratch
  /\ AccountErrorStops

\* An attempt that fails for good ends the fetch with its error.
LEMMA PassIsFetch ==
  ASSUME NEW f, IsFetch(f), NEW r
  PROVE  /\ IsFetch(Pass(f, r))
         /\ ~GetHtml(backend, r).ok /\ ~retryable(GetHtml(backend, r)) =>
              Pass(f, r).st = "error" /\ Pass(f, r).err = GetHtml(backend, r)
         /\ Pass(f, r).st \in {"page", "empty", "error", f.st}
<1> DEFINE o == GetHtml(backend, r)
<1> HIDE DEF o
<1>1. Pass(f, r) = IF o.ok THEN [f EXCEPT !.st = IF Empty(r) THEN "empty" ELSE "page"]
                   ELSE IF retryable(o) /\ f.tries < RETRIES THEN [f EXCEPT !.tries = @ + 1]
                   ELSE [f EXCEPT !.st = "error", !.err = o]
  BY Zenon DEF Pass, o
<1>2. QED
  BY <1>1, Zenon DEF IsFetch, o

\* Every step of the crawl preserves the invariant.
LEMMA AccountInvHolds ==
  ASSUME AccountInv, [CrawlNext]_crawlVars
  PROVE  AccountInv'
<1> USE DEF AccountInv, AccountErrorStops
<1>0. Scratch.pages = <<>>
  BY DEF Scratch
<1>1. ASSUME NEW a \in BOOLEAN, NEW w \in BOOLEAN, Dns(a, w) PROVE AccountInv'
  BY <1>1 DEF Dns, EndAttempt, IsFetch, NewFetch, NoFetch
<1>2. ASSUME NEW r \in Answers, HomeAnswer(r) PROVE AccountInv'
  <2>1. "home" \notin account
    BY <1>2 DEF HomeAnswer
  <2>2. IsFetch(Pass(home, r)) /\ IsFetch(NewFetch)
    BY PassIsFetch DEF NewFetch, NoFetch, IsFetch
  <2>3. IsFetch(home')
    BY <1>2, <2>2, Zenon DEF HomeAnswer, Ladder
  <2>4. ASSUME GetHtml(backend, r).class = "provider_account"
        PROVE  home'.st = "error" /\ home'.err.class = "provider_account"
    <3>1. Pass(home, r).st = "error" /\ Pass(home, r).err.class = "provider_account"
      BY <2>4, AccountErrorIsFinal, PassIsFetch, Zenon
    <3>2. QED
      BY <1>2, <3>1, Zenon DEF HomeAnswer, Ladder
  <2>5. "home" \in account' => GetHtml(backend, r).class = "provider_account"
    BY <1>2, <2>1, Zenon DEF HomeAnswer, AccountError
  <2>6. phase = "wave1" /\ phase' = "wave1" /\ scratch' = scratch
    BY <1>2 DEF HomeAnswer
  <2>7. QED
    BY <2>3, <2>4, <2>5, <2>6
<1>3. ASSUME NEW r \in Answers, TextAnswer(r) PROVE AccountInv'
  BY <1>3 DEF TextAnswer, IsFetch
<1>4. ASSUME NEW r \in Answers, NEW p \in AllPages, PageAnswer(p, r) PROVE AccountInv'
  <2>1. "home" \in account' => "home" \in account
    BY <1>4 DEF PageAnswer, AccountError
  <2>2. QED
    BY <1>4, <2>1, Zenon DEF PageAnswer, IsFetch
<1>5. CASE Again
  BY <1>5, Zenon DEF Again, IsFetch, NoFetch
<1>6. CASE Wave1Done
  BY <1>6, Zenon DEF Wave1Done, EndAttempt, IsFetch
<1>7. CASE InternalError
  BY <1>7, Zenon DEF InternalError, EndAttempt, IsFetch, Ok
<1>8. CASE CircuitOpen
  BY <1>8 DEF CircuitOpen, Open, EndAttempt, IsFetch
<1>9. ASSUME NEW n \in 0..Len(site.mapped), Discover(n) PROVE AccountInv'
  BY <1>9, Zenon DEF Discover, IsFetch
<1>10. CASE ContactDone
  BY <1>10, Zenon DEF ContactDone, IsFetch
<1>11. CASE RestDone
  BY <1>11, Zenon DEF RestDone, IsFetch
<1>12. CASE Extract
  BY <1>12, Zenon DEF Extract, IsFetch
<1>13. CASE JudgeByRules
  BY <1>13 DEF JudgeByRules, JudgeUnchanged, EndAttempt, Harvest, IsFetch
<1>14. CASE Deadline
  <2>1. phase' \in {"done", "wait", "crashed"} /\ UNCHANGED <<home, account, scratch>>
    BY <1>14, Zenon DEF Deadline, Harvest, EndAttempt
  <2>2. ASSUME phase = "wave1" PROVE phase' = "done" /\ result' = Failed("domain_timeout")
    <3>1. EndAttempt(Failed("domain_timeout"))
      BY <1>0, <1>14, <2>2, Zenon DEF Deadline
    <3>2. Failed("domain_timeout").reason = "domain_timeout"
      BY DEF Failed, NoResult
    <3>3. QED
      BY <3>1, <3>2, Zenon DEF EndAttempt
  <2>3. phase \in Working
    BY <1>14, Zenon DEF Deadline
  <2>4. QED
    BY <2>1, <2>2, <2>3, Zenon DEF Working, IsFetch
<1>15. ASSUME NEW final \in BOOLEAN, JudgeFails(final) PROVE AccountInv'
  BY <1>15, Zenon DEF JudgeFails, JudgeUnchanged, EndAttempt, Harvest, IsFetch
<1>16. ASSUME NEW v \in Verdicts, JudgeAnswers(v) PROVE AccountInv'
  BY <1>16, Zenon DEF JudgeAnswers, JudgeUnchanged, EndAttempt, Harvest, IsFetch
<1>17. CASE UNCHANGED crawlVars
  BY <1>17 DEF crawlVars, IsFetch
<1>18. QED
  BY <1>1, <1>2, <1>3, <1>4, <1>5, <1>6, <1>7, <1>8, <1>9, <1>10, <1>11, <1>12, <1>13, <1>14,
     <1>15, <1>16, <1>17, Zenon DEF CrawlNext

\* fetch_homepage and _process: once the homepage met an account error, nothing else is
\* asked of the provider for the domain, whichever backend, rung and attempt met it;
\* the error is raised to the worker unless the deadline strikes while robots.txt or the
\* sitemap is still awaited, and then the result is a bare domain_timeout.
THEOREM AccountErrorStopsTheCrawl == CrawlSpec => []AccountErrorStops
<1>1. CrawlInit => AccountInv
  BY Zenon DEF CrawlInit, AccountInv, AccountErrorStops, IsFetch, NoFetch
<1>2. AccountInv => AccountErrorStops
  BY Zenon DEF AccountInv
<1>3. QED
  BY <1>1, <1>2, AccountInvHolds, PTL DEF CrawlSpec

-----------------------------------------------------------------------------
(* Who is held to blame                                                    *)

\* An error held against the provider is the provider's.
LEMMA BlameIsRight ==
  ASSUME NEW r \in Answers, ~JinaHtml(r).ok, JinaHtml(r).provider
  PROVE  r.cause = "provider"
<1> DEFINE class == classify_site_status(r.site, r.page)
<1>1. \A c, d : ~FetchError(c, d, FALSE).provider
  BY DEF FetchError
<1>2. CASE r.exc # "none"
  <2>1. JinaHtml(r) = exc_to_fetch_error(r.exc, TRUE)
    BY <1>2, Zenon DEF JinaHtml
  <2>2. CASE r.exc \in {"connect", "read_timeout"}
    <3> DEFINE h == TRUE /\ r.exc \in PROVIDER_HEALTH_EXC
    <3>1. JinaHtml(r) = FetchError("transient", "homepage", h)
      BY <2>1, <2>2, Zenon DEF exc_to_fetch_error
    <3>2. CASE r.exc \notin PROVIDER_HEALTH_EXC
      <4>1. h = FALSE
        BY <3>2
      <4> HIDE DEF h
      <4>2. QED
        BY <1>1, <3>1, <4>1, Zenon
    <3>3. CASE r.exc = "connect"
      BY <3>3, AnswersAssumption
    <3>4. QED
      BY <3>2, <3>3 DEF PROVIDER_HEALTH_EXC
  <2>3. CASE r.exc \notin {"connect", "read_timeout"}
    BY <2>1, <2>3, <1>1, Zenon DEF exc_to_fetch_error
  <2>4. QED
    BY <2>2, <2>3, Zenon
<1>3. CASE r.exc = "none" /\ classify_provider_status(r.status) # "ok"
  <2> DEFINE c == classify_provider_status(r.status)
             h == r.status # 429 /\ c \in {"transient", "provider_account"}
  <2>1. JinaHtml(r) = JinaRefusal(r.status)
    BY <1>3, Zenon DEF JinaHtml
  <2>2. \E d : JinaHtml(r) = FetchError(c, d, h)
    BY <2>1 DEF JinaRefusal
  <2>3. r.status # 429 /\ c \in {"transient", "provider_account"}
    <3> SUFFICES ASSUME h = FALSE PROVE FALSE
      BY Zenon
    <3> HIDE DEF h
    <3>1. QED
      BY <1>1, <2>2, Zenon
  <2>4. r.status \in {401, 402} \cup (500..599)
    BY <2>3 DEF classify_provider_status
  <2>5. QED
    BY <1>3, <2>4, AnswersAssumption, Zenon
<1>4. CASE r.exc = "none" /\ classify_provider_status(r.status) = "ok"
  <2>1. r.status \in 200..299
    BY <1>4 DEF classify_provider_status
  <2>2. CASE r.body \in {"not_json", "no_data"}
    BY <1>4, <2>1, <2>2, AnswersAssumption
  <2>3. CASE r.body \notin {"not_json", "no_data"}
    <3>1. ~JinaHtml(r).provider
      <4> HIDE DEF class
      <4>1. JinaHtml(r) =
              IF class # "ok"
              THEN FetchError(class, IF class = "blocked" THEN "blocked" ELSE "homepage", FALSE)
              ELSE IF r.page = "empty" THEN FetchError("transient", "homepage", FALSE)
              ELSE IF looks_blocked(r.site, r.page) THEN FetchError("blocked", "blocked", FALSE)
              ELSE FetchResult
        BY <1>4, <2>3, Zenon DEF JinaHtml, class
      <4>2. ~FetchResult.provider
        BY DEF FetchResult
      <4>3. CASE class # "ok"
        BY <1>1, <4>1, <4>3, Zenon
      <4>4. CASE class = "ok"
        BY <1>1, <4>1, <4>2, <4>4, Zenon
      <4>5. QED
        BY <4>3, <4>4, Zenon
    <3>2. QED
      BY <3>1
  <2>4. QED
    BY <2>2, <2>3, Zenon
<1>5. QED
  BY <1>2, <1>3, <1>4

\* get_html tells the breaker of the provider's own trouble only: no slow or dead
\* site, no bad certificate and no limit of ours counts against it.
THEOREM OnlyTheProviderIsBlamed == CrawlSpec => []SiteNeverBlamed
<1>1. CrawlInit => SiteNeverBlamed
  BY DEF CrawlInit, SiteNeverBlamed
<1>2. ASSUME SiteNeverBlamed, [CrawlNext]_crawlVars PROVE SiteNeverBlamed'
  <2>1. ASSUME NEW r \in Answers, blamed' = Blame(r) PROVE SiteNeverBlamed'
    BY <1>2, <2>1, BlameIsRight, Zenon DEF Blame, SiteNeverBlamed
  <2>2. CASE blamed' = blamed
    BY <1>2, <2>2 DEF SiteNeverBlamed
  <2>3. \/ \E r \in Answers : blamed' = Blame(r)
        \/ blamed' = blamed
    BY <1>2, Zenon DEF CrawlNext, crawlVars, Dns, HomeAnswer, TextAnswer, PageAnswer, Again, Wave1Done,
                InternalError, CircuitOpen, Discover, ContactDone, RestDone, Extract, JudgeByRules,
                Deadline, JudgeFails, JudgeAnswers, JudgeUnchanged
  <2>4. QED
    BY <2>1, <2>2, <2>3
<1>3. QED
  BY <1>1, <1>2, PTL DEF CrawlSpec

\* A page that arrived was fetched, and discovery starts from a homepage.
FetchInv ==
  /\ site \in Sites
  /\ DOMAIN fetches = AllPages
  /\ \A p \in AllPages : fetches[p].st = "page" => p \in got
  /\ home.st \in Ok => Home \in got
  /\ phase = "discover" => home.st \in Ok
  /\ phase \in {"discover", "contact", "rest"} => texts # "go"

\* The pages being fetched are discovery's choice, with some of the sitemap read.
ChoiceInv ==
  /\ phase \in {"contact", "rest"} => \E n \in 0..Len(site.mapped) : selected = Chosen(n)
  /\ phase = "contact" => ContactIndex(selected) # 0

\* Where the pages landed that came and whose usage is in the sum.
Landed == {site.lands[p] : p \in got \cap Range(scratch.tokens)}

\* The scratchpad holds pages of this attempt, with a token for each, and what was
\* extracted is what its pages yield: no page arrives after the extraction.
ScratchInv ==
  /\ scratch = [pages |-> scratch.pages, tokens |-> scratch.tokens,
                extracted |-> scratch.extracted]
  /\ scratch.pages \in Seq(PageRecord)
  /\ scratch.tokens \in Seq(AllPages)
  /\ \A i \in DOMAIN scratch.pages : scratch.pages[i].url \in Landed
  /\ phase \notin {"judge", "wait", "done", "raised", "crashed"} =>
       scratch.extracted = NotExtracted
  /\ \/ scratch.extracted = NotExtracted
     \/ scratch.extracted = [n |-> Len(scratch.pages), ranked |-> extract_pages(scratch.pages)]

\* The homepage that came and is not in the sum yet, and the pages that are not.
HomeDue == IF phase \in {"wave1", "discover"} /\ home.st \in Ok THEN {Home} ELSE {}
PagesDue == {p \in AllPages : fetches[p].st \in Ok}

\* Where a fetch that was launched stands: its usage is not in the sum, and it is one
\* of those the wave is for.
InWave(p) ==
  /\ phase \in {"contact", "rest", "wait", "done"}
  /\ p \notin Range(scratch.tokens)
  /\ phase = "contact" => p = selected[ContactIndex(selected)].url
  /\ phase = "rest" => \E i \in Rest(selected) : selected[i].url = p
  /\ fetches[p].st = "go" => phase \in {"contact", "rest"}

\* The sum holds no usage twice and none of another attempt; while the attempt runs,
\* what was paid is in the sum or of a fetch that is due to enter it.
BillInv ==
  /\ Once(scratch.tokens)
  /\ Range(scratch.tokens) \subseteq paid /\ PagesDue \subseteq paid
  /\ home.st \in Ok => Home \in paid
  /\ phase \in {"dns", "wave1", "discover"} => scratch.tokens = <<>>
  /\ phase = "contact" => scratch.tokens = <<Home>>
  /\ phase \in Working \cup {"extract"} => paid \subseteq Range(scratch.tokens) \cup PagesDue \cup HomeDue
  /\ \A p \in AllPages : fetches[p].st # "off" => InWave(p)

\* What holds of a result whatever step gave it.
GoodResult(r) ==
  /\ (r.status = "found") <=> (r.best # None)
  /\ r.best # None => r.best \in Range(Emails(r.emails))
  /\ r.status = "no_business_email" => r.business = {}
  /\ r.reason = "domain_timeout" /\ r.status = "found" => r.review
  /\ r.best # None => r.best \notin r.rejected
  /\ \A i \in DOMAIN r.emails : r.emails[i].sources \subseteq Range(r.pages)

\* The rules' choice from the pages is right.
RulesRight(r, pages) ==
  r.status \notin {"fetch_failed", "parked_or_for_sale"} /\ ~r.called =>
    \A i \in DOMAIN pages : \A k \in DOMAIN pages[i].finds :
      LET e == pages[i].finds[k].email
      IN  ~should_drop(e) => r.best # None /\ classify(r.best) <= classify(e)

\* The tokens and the pages of a result are those of the attempt.
Accounted(r) ==
  /\ Once(r.tokens)
  /\ Range(r.tokens) \subseteq paid
  /\ r.reason = None => paid \subseteq Range(r.tokens)
  /\ Range(r.pages) \subseteq {site.lands[p] : p \in got \cap Range(r.tokens)}

\* Every result is good; a finished one is of the pages in the scratchpad.
ResultInv ==
  /\ GoodResult(result)
  /\ phase = "done" => Accounted(result) /\ RulesRight(result, scratch.pages)

\* The inductive invariant of the crawl.
CrawlInv == FetchInv /\ ChoiceInv /\ ScratchInv /\ BillInv /\ ResultInv

-----------------------------------------------------------------------------
\* What is known of a kept candidate.
LEMMA KeptIsRight ==
  ASSUME NEW pages \in Seq(PageRecord), NEW c \in KeptIn(pages)
  PROVE  /\ c.email \in DOMAIN Traits /\ c.email # None
         /\ c.sources \subseteq {pages[i].url : i \in DOMAIN pages}
         /\ c.sources \cap {pages[i].url : i \in DOMAIN pages} # {}
<1>1. c \in merge_pages(pages)
  BY Zenon DEF KeptIn
<1>2. /\ c.email \in Addresses(pages)
      /\ c.sources = {pages[i].url : i \in PagesWith(pages, c.email)}
  BY <1>1, MergedIsRight
<1>3. PICK i \in DOMAIN pages : c.email \in FoundOn(pages[i])
  BY <1>2, Zenon DEF Addresses
<1>4. i \in PagesWith(pages, c.email) /\ PagesWith(pages, c.email) \subseteq DOMAIN pages
  BY <1>3 DEF PagesWith
<1>5. PICK k \in DOMAIN pages[i].finds : c.email = pages[i].finds[k].email
  BY <1>3 DEF FoundOn
<1>6. pages[i].finds[k] \in FindRecord
  <2>1. pages[i] \in PageRecord
    BY <1>3
  <2>2. pages[i].finds \in FindSeq
    BY <2>1 DEF PageRecord
  <2>3. pages[i].finds \in Seq(FindRecord)
    BY <2>2, Zenon DEF FindSeq
  <2>4. QED
    BY <2>3
<1>7. c.email \in DOMAIN Traits
  BY <1>5, <1>6, Zenon DEF FindRecord
<1>8. QED
  BY <1>2, <1>4, <1>7, AddressAssumption, Zenon

\* The numbers from 1 to n are in order.
LEMMA FirstPlace ==
  ASSUME NEW n \in Nat \ {0}
  PROVE  Places(1..n)[1] = 1
<1>1. IsFiniteSet(1..n) /\ Cardinality(1..n) = n /\ 1..n \in SUBSET Nat /\ 1 \in 1..n
  BY FS_Interval
<1>2. /\ Places(1..n) \in [1..n -> 1..n]
      /\ \E k \in 1..n : Places(1..n)[k] = 1
      /\ \A j, k \in 1..n : j < k => Places(1..n)[j] < Places(1..n)[k]
  BY <1>1, PlacesAreRight, Zenon
<1>3. QED
  BY <1>2

\* The provenance check drops none of the candidates.
LEMMA ExtractedIsRight ==
  ASSUME NEW pages \in Seq(PageRecord)
  PROVE  LET r == extract_pages(pages) IN
           /\ r \in Seq(KeptIn(pages))
           /\ \A c \in KeptIn(pages) : Len(r) >= 1 /\ classify(r[1].email) <= classify(c.email)
<1> DEFINE r == rank_candidates(pages)
           I == {i \in DOMAIN r : r[i].sources \cap {pages[k].url : k \in DOMAIN pages} # {}}
<1>1. /\ r \in Seq(KeptIn(pages))
      /\ \A c \in KeptIn(pages) : Len(r) >= 1 /\ classify(r[1].email) <= classify(c.email)
  BY RankedIsRight, BoundsAssumption, Zenon
<1>2. extract_pages(pages) = At(r, I)
  BY Zenon DEF extract_pages, Provenance
<1> HIDE DEF r
<1>3. I = 1..Len(r)
  BY <1>1, KeptIsRight
<1> HIDE DEF I
<1>4. Len(r) \in Nat /\ DOMAIN r = 1..Len(r) /\ Cardinality(I) = Len(r)
  <2>1. Len(r) \in Nat /\ DOMAIN r = 1..Len(r)
    BY <1>1
  <2> DEFINE n == Len(r)
  <2> HIDE DEF n
  <2>2. n \in Nat => Cardinality(1..n) = n
    BY FS_Interval
  <2>3. QED
    BY <1>3, <2>1, <2>2 DEF n
<1>5. /\ At(r, I) \in Seq(KeptIn(pages)) /\ Len(At(r, I)) = Len(r)
      /\ \A k \in 1..Len(r) : At(r, I)[k] = r[Places(I)[k]]
  BY <1>1, <1>3, <1>4, AtIsRight
<1>6. Len(r) >= 1 => At(r, I)[1] = r[1]
  BY <1>3, <1>4, <1>5, FirstPlace
<1>7. QED
  BY <1>1, <1>2, <1>5, <1>6, Zenon

-----------------------------------------------------------------------------
(* Judgment and result                                                     *)

\* A judgment names an address that was found and that it does not reject; one
\* that does not come from TypeSafe is the rules'.
GoodJudgment(j, ranked) ==
  /\ j.best # None => j.best \in Range(Emails(ranked)) /\ j.best \notin j.rejected
  /\ ~j.called => j.best = rules_best(ranked)

\* The rules choose the first address of the ranking.
LEMMA RulesBestIsFound ==
  ASSUME NEW S, NEW ranked \in Seq(S)
  PROVE  /\ rules_best(ranked) # None => rules_best(ranked) \in Range(Emails(ranked))
         /\ ranked # <<>> => rules_best(ranked) = ranked[1].email
  BY DEF rules_best, Emails, Range

\* The rules' judgment is a good one.
LEMMA RulesAreGood ==
  ASSUME NEW S, NEW ranked \in Seq(S)
  PROVE  /\ GoodJudgment(rules_only(ranked), ranked)
         /\ GoodJudgment([rules_only(ranked) EXCEPT !.error = TRUE], ranked)
<1> DEFINE j == rules_only(ranked)
           k == [j EXCEPT !.error = TRUE]
<1>1. j.best = rules_best(ranked) /\ j.rejected = {}
  BY DEF rules_only, NoJudgment, rules_best
<1>2. k.best = j.best /\ k.rejected = j.rejected
  BY Zenon DEF rules_only, NoJudgment
<1> HIDE DEF j, k
<1>3. GoodJudgment(j, ranked)
  BY <1>1, RulesBestIsFound DEF GoodJudgment
<1>4. GoodJudgment(k, ranked)
  BY <1>1, <1>2, RulesBestIsFound DEF GoodJudgment
<1>5. QED
  BY <1>3, <1>4 DEF j, k

\* The first address of a set is one of the set.
LEMMA FirstIsOne ==
  ASSUME NEW S, NEW emails \in Seq(S), NEW E, Range(emails) \cap E # {}
  PROVE  FirstOf(emails, E) \in Range(emails) \cap E
<1> DEFINE P == {i \in DOMAIN emails : emails[i] \in E}
<1>1. P \in SUBSET Nat /\ P # {}
  BY DEF Range
<1>2. PICK i \in P : \A k \in P : i <= k
  BY <1>1, LeastNumber, Zenon
<1>3. i \in DOMAIN emails /\ emails[i] \in E /\ \A k \in 1..(i - 1) : emails[k] \notin E
  BY <1>2
<1>4. QED
  BY <1>3, Zenon DEF FirstOf, Range

\* What TypeSafe is asked about was found.
LEMMA AskedIsFound ==
  ASSUME NEW S, NEW ranked \in Seq(S)
  PROVE  /\ \E T : build_body(ranked) \in Seq(T)
         /\ Range(build_body(ranked)) \subseteq Range(Emails(ranked))
<1> DEFINE n == IF Len(ranked) > MAX_JUDGE_CANDIDATES THEN MAX_JUDGE_CANDIDATES ELSE Len(ranked)
           s == Take(ranked, MAX_JUDGE_CANDIDATES)
<1>1. n \in Nat /\ n <= Len(ranked)
  BY BoundsAssumption
<1>2. build_body(ranked) = Emails(s)
  BY Zenon DEF build_body
<1>3. s = [k \in 1..n |-> ranked[k]]
  BY BoundsAssumption, TakeByPosition
<1> HIDE DEF n, s
<1>4. Emails(s) = [k \in 1..n |-> ranked[k].email]
  BY <1>3, Zenon DEF Emails
<1> DEFINE T == {ranked[k].email : k \in 1..n}
<1>5. Emails(s) \in [1..n -> T]
  BY <1>4
<1>6. Emails(s) \in Seq(T)
  BY <1>1, <1>5, FunctionIsSequence, Zenon
<1>7. Range(Emails(s)) \subseteq Range(Emails(ranked))
  BY <1>1, <1>4 DEF Emails, Range
<1>8. QED
  BY <1>2, <1>6, <1>7

\* Whatever TypeSafe answers, decide gives a good judgment.
LEMMA DecisionIsGood ==
  ASSUME NEW S, NEW ranked \in Seq(S), NEW v
  PROVE  GoodJudgment(decide(v, build_body(ranked), ranked), ranked)
<1> DEFINE emails == build_body(ranked)
           business == {e \in Range(emails) : e \in v.belongs}
           rejected == {e \in Range(emails) : e \notin v.belongs}
           first == rules_best(ranked)
           fallback == IF first \notin rejected THEN first
                       ELSE IF business = {} THEN None ELSE FirstOf(emails, business)
           j == decide(v, emails, ranked)
<1>1. PICK T : emails \in Seq(T)
  BY AskedIsFound, Zenon
<1>2. Range(emails) \subseteq Range(Emails(ranked))
  BY AskedIsFound, Zenon
<1>3. business # {} => FirstOf(emails, business) \in business
  <2>1. business # {} => Range(emails) \cap business # {}
    OBVIOUS
  <2>2. QED
    BY <1>1, <2>1, FirstIsOne, Zenon
<1>4. j.called /\ j.rejected = rejected
  BY Zenon DEF decide, NoJudgment
<1>5. \/ j.best \in business
      \/ j.best = None
      \/ j.best = fallback
  BY Zenon DEF decide, NoJudgment
<1> HIDE DEF j, emails
<1>6. fallback # None => fallback \in Range(Emails(ranked)) /\ fallback \notin rejected
  BY <1>2, <1>3, RulesBestIsFound, Zenon
<1>7. QED
  BY <1>2, <1>4, <1>5, <1>6, Zenon DEF GoodJudgment, j, emails

\* A failure is a good result.
LEMMA FailureIsGood ==
  ASSUME NEW pages
  PROVE  /\ \A reason : /\ GoodResult(Failed(reason)) /\ RulesRight(Failed(reason), pages)
                        /\ Failed(reason).pages = <<>> /\ Failed(reason).tokens = <<>>
                        /\ Failed(reason).reason = reason
         /\ LET r == [NoResult EXCEPT !.status = "parked_or_for_sale"] IN
              GoodResult(r) /\ RulesRight(r, pages) /\ r.pages = <<>> /\ r.tokens = <<>>
         /\ \A u : LET r == [NoResult EXCEPT !.status = "parked_or_for_sale",
                                !.pages = <<u>>, !.tokens = <<Home>>] IN
              GoodResult(r) /\ RulesRight(r, pages) /\ r.pages = <<u>> /\ r.tokens = <<Home>>
         /\ GoodResult(NoResult)
  BY DEF GoodResult, RulesRight, Failed, NoResult, Emails, Range, None

\* A result that is the right one for the pages and the tokens it is put together from.
RightFor(r, pages, tokens, reason) ==
  /\ GoodResult(r) /\ RulesRight(r, pages)
  /\ r.tokens = tokens /\ r.reason = reason
  /\ Range(r.pages) = {pages[i].url : i \in DOMAIN pages}

\* A result put together from the pages, what was extracted from them and a good
\* judgment of it.
LEMMA HarvestIsGood ==
  ASSUME NEW pages \in Seq(PageRecord), NEW tokens, NEW j, NEW reason,
         GoodJudgment(j, extract_pages(pages))
  PROVE  RightFor(harvest(pages, tokens, extract_pages(pages), j, reason), pages, tokens, reason)
<1> DEFINE ranked == extract_pages(pages)
           r == harvest(pages, tokens, ranked, j, reason)
           form == pick_contact_form_url(pages)
           urls == [i \in DOMAIN pages |-> pages[i].url]
<1> HIDE DEF ranked
<1>1. /\ ranked \in Seq(KeptIn(pages))
      /\ \A c \in KeptIn(pages) : Len(ranked) >= 1 /\ classify(ranked[1].email) <= classify(c.email)
  BY ExtractedIsRight DEF ranked
<1>2. GoodJudgment(j, ranked)
  BY Zenon DEF ranked
<1>3. ~(j.best # None /\ j.best \notin Range(Emails(ranked)))
  BY <1>2, Zenon DEF GoodJudgment
<1>4. /\ r.best = j.best
      /\ r.status = assign_status(j.site = "parked_or_for_sale", j.saidNone, j.best, j.business, form)
      /\ r.reason = reason /\ r.business = j.business /\ r.emails = ranked
      /\ r.pages = urls /\ r.tokens = tokens /\ r.rejected = j.rejected
      /\ r.called = j.called
      /\ reason = "domain_timeout" => r.review
  BY <1>3, Zenon DEF harvest, NoResult, None
<1> HIDE DEF r, form
<1>5. /\ (r.status = "found") <=> (r.best # None)
      /\ r.status = "no_business_email" => r.business = {}
  BY <1>4, Zenon DEF assign_status, None
<1>6. /\ r.best # None => r.best \in Range(Emails(r.emails))
      /\ r.best # None => r.best \notin r.rejected
      /\ r.reason = "domain_timeout" /\ r.status = "found" => r.review
  BY <1>2, <1>4 DEF GoodJudgment
<1>8. Range(r.pages) = {pages[i].url : i \in DOMAIN pages}
  BY <1>4 DEF Range
<1>9. ASSUME NEW i \in DOMAIN r.emails PROVE r.emails[i].sources \subseteq Range(r.pages)
  <2>1. r.emails[i] \in KeptIn(pages)
    BY <1>1, <1>4, SMTT(30)
  <2>2. QED
    BY <1>8, <2>1, KeptIsRight, Zenon
<1>10. GoodResult(r)
  BY <1>4, <1>5, <1>6, <1>9, Zenon DEF GoodResult
<1>11. ASSUME ~r.called, NEW i \in DOMAIN pages, NEW k \in DOMAIN pages[i].finds,
              ~should_drop(pages[i].finds[k].email)
       PROVE  r.best # None /\ classify(r.best) <= classify(pages[i].finds[k].email)
  <2> DEFINE e == pages[i].finds[k].email
  <2>1. e \in Addresses(pages)
    BY DEF Addresses, FoundOn
  <2>2. PICK c \in merge_pages(pages) : c.email = e
    BY <2>1, MergedIsRight, Zenon
  <2>3. c \in KeptIn(pages)
    BY <1>11, <2>2, Zenon DEF KeptIn
  <2>4. Len(ranked) >= 1 /\ classify(ranked[1].email) <= classify(e)
    BY <1>1, <2>2, <2>3, Zenon
  <2>5. ranked # <<>> /\ ranked[1] \in KeptIn(pages)
    BY <1>1, <2>4, SMTT(30)
  <2>6. r.best = ranked[1].email
    BY <1>1, <1>2, <1>4, <1>11, <2>5, RulesBestIsFound, Zenon DEF GoodJudgment
  <2>7. r.best # None
    BY <2>5, <2>6, KeptIsRight, Zenon
  <2>8. QED
    BY <2>4, <2>6, <2>7, Zenon
<1>12. RulesRight(r, pages)
  BY <1>11 DEF RulesRight
<1>13. RightFor(r, pages, tokens, reason)
  BY <1>4, <1>8, <1>10, <1>12, Zenon DEF RightFor
<1>14. QED
  BY <1>13, Zenon DEF r, ranked

-----------------------------------------------------------------------------
(* Discovery and the waves                                                 *)

\* The page limit is a number.
LEMMA LimitIsNumber == Limit \in Nat
  BY BoundsAssumption DEF Limit

\* What discovery chooses is a good choice of pages of the site.
LEMMA ChosenIsRight ==
  ASSUME site \in Sites, NEW n \in 0..Len(site.mapped)
  PROVE  /\ Chosen(n) \in Seq(Scored)
         /\ \A i \in DOMAIN Chosen(n) : Chosen(n)[i].url \in AllPages
         /\ \A j, k \in DOMAIN Chosen(n) : Chosen(n)[j].url = Chosen(n)[k].url => j = k
         /\ GoodChoice(Candidates(Links, Mapped(n), Fallback, Limit), Chosen(n), Limit)
<1> DEFINE C == Candidates(Links, Mapped(n), Fallback, Limit)
           L == Range(Links) \cup Range(Mapped(n)) \cup Range(Fallback)
<1>1. /\ Fallback \in Seq(LinkRecord)
      /\ site.links \in Seq(LinkRecord) /\ site.mapped \in Seq(LinkRecord)
      /\ \A l, m \in LinksOf(site) :
           canonical(l.at) = canonical(m.at) => tier_for(l) = tier_for(m) /\ l.depth = m.depth
  BY SitesAssumption, Zenon
<1>2. Links \in Seq(LinkRecord) /\ Range(Links) \subseteq Range(site.links)
  BY <1>1 DEF Links, Range
<1>3. Mapped(n) \in Seq(LinkRecord) /\ Range(Mapped(n)) \subseteq Range(site.mapped)
  <2>1. CASE Mapped(n) = SubSeq(site.mapped, 1, n)
    <3>1. n \in Nat /\ n <= Len(site.mapped)
      BY <1>1
    <3>2. SubSeq(site.mapped, 1, n) = [k \in 1..n |-> site.mapped[k]]
      BY <1>1, <3>1, PrefixOf, Zenon
    <3>3. [k \in 1..n |-> site.mapped[k]] \in [1..n -> LinkRecord]
      BY <1>1, <3>1
    <3>4. [k \in 1..n |-> site.mapped[k]] \in Seq(LinkRecord)
      BY <3>1, <3>3, FunctionIsSequence, Zenon
    <3>5. QED
      BY <1>1, <2>1, <3>1, <3>2, <3>4 DEF Range
  <2>2. CASE Mapped(n) = <<>>
    BY <2>2 DEF Range
  <2>3. QED
    BY <2>1, <2>2, Zenon DEF Mapped
<1>4. L \subseteq LinksOf(site)
  BY <1>2, <1>3, Zenon DEF LinksOf
<1>5. C \in Seq(Scored) /\ \A c \in Range(C) : \E l \in L : c = score_url(l)
  BY <1>1, <1>2, <1>3, CandidatesAreRight, SMTT(30)
<1> HIDE DEF C, L
<1>6. PagesAgree(C)
  <2> SUFFICES ASSUME NEW c \in Range(C), NEW d \in Range(C), c.url = d.url
               PROVE  c.tier = d.tier /\ c.depth = d.depth
    BY Zenon DEF PagesAgree
  <2>1. PICK l \in LinksOf(site) : c = score_url(l)
    BY <1>4, <1>5, Zenon
  <2>2. PICK m \in LinksOf(site) : d = score_url(m)
    BY <1>4, <1>5, Zenon
  <2>3. /\ c.url = canonical(l.at) /\ c.tier = tier_for(l) /\ c.depth = l.depth
        /\ d.url = canonical(m.at) /\ d.tier = tier_for(m) /\ d.depth = m.depth
    BY <2>1, <2>2, Zenon DEF score_url
  <2>4. QED
    BY <1>1, <2>3
<1>7. Chosen(n) = select(C, Limit)
  BY Zenon DEF Chosen, discover_pages, C
<1>8. select(C, Limit) \in Seq(BestSet(C)) /\ BestSet(C) \subseteq Range(C) /\ BestSet(C) \subseteq Scored
  BY <1>5, LimitIsNumber, SelectByPosition, BestSetIsRight, Zenon
<1>9. Chosen(n) \in Seq(Scored)
  BY <1>7, <1>8
<1>10. ASSUME NEW i \in DOMAIN Chosen(n) PROVE Chosen(n)[i].url \in AllPages
  <2>1. Chosen(n)[i] \in Range(C)
    BY <1>7, <1>8, <1>10
  <2>2. PICK l \in LinksOf(site) : Chosen(n)[i] = score_url(l)
    BY <1>4, <1>5, <2>1, SMTT(30)
  <2>3. Chosen(n)[i].url = canonical(l.at)
    BY <2>2 DEF score_url
  <2>4. canonical(l.at) \in PagesOf(site.links) \cup PagesOf(site.mapped) \cup PagesOf(Fallback)
    BY Zenon DEF LinksOf, PagesOf, Range
  <2>5. QED
    BY <2>3, <2>4, Zenon DEF AllPages
<1>11. /\ GoodChoice(C, Chosen(n), Limit)
       /\ \A j, k \in DOMAIN Chosen(n) : Chosen(n)[j].url = Chosen(n)[k].url => j = k
  BY <1>5, <1>6, <1>7, LimitIsNumber, SelectIsGood, Zenon
<1>12. QED
  BY <1>9, <1>10, <1>11, Zenon DEF C

\* A page as it is put in the scratchpad.
LEMMA PageIsOne ==
  ASSUME site \in Sites, NEW p \in AllPages, NEW score \in Nat
  PROVE  Page(p, score) \in PageRecord /\ Page(p, score).url = site.lands[p]
<1> DEFINE u == site.lands[p]
           blank == p = Home /\ home.st = "empty"
           f == IF blank THEN <<>> ELSE site.finds[u]
           m == ~blank /\ u \in site.forms
<1>1. u \in Nat /\ site.finds[u] \in FindSeq /\ site.cf \subseteq DOMAIN Traits
  BY SitesAssumption, Zenon
<1>2. <<>> \in FindSeq
  BY PageOrder DEF FindSeq
<1>3. f \in FindSeq /\ m \in BOOLEAN
  BY <1>1, <1>2, Zenon
<1>4. Page(p, score) = [url |-> u, score |-> score, finds |-> f, cf |-> site.cf, form |-> m]
  BY Zenon DEF Page
<1> HIDE DEF u, blank, f, m
<1>5. QED
  BY <1>1, <1>3, <1>4 DEF PageRecord, u

\* A fetch that has not started, and one that just did.
LEMMA NewFetches ==
  /\ IsFetch(NoFetch) /\ NoFetch.st = "off" /\ NoFetch.tries = 0
  /\ IsFetch(NewFetch) /\ NewFetch.st = "go" /\ NewFetch.tries = 0
  /\ DOMAIN Idle = AllPages
  /\ \A p \in AllPages : IsFetch(Idle[p]) /\ Idle[p].tries \in Nat /\ Idle[p].st = "off"
<1>1. /\ IsFetch(NoFetch) /\ NoFetch.st = "off" /\ NoFetch.tries = 0
      /\ IsFetch(NewFetch) /\ NewFetch.st = "go" /\ NewFetch.tries = 0
  BY DEF IsFetch, NoFetch, NewFetch
<1>2. DOMAIN Idle = AllPages /\ \A p \in AllPages : Idle[p] = NoFetch
  BY Zenon DEF Idle
<1>3. QED
  BY <1>1, <1>2

\* The fetches launched are those of the pages named.
LEMMA LaunchIs ==
  ASSUME NEW I, NEW sel
  PROVE  /\ DOMAIN Launch(I, sel) = AllPages
         /\ \A p \in AllPages : /\ IsFetch(Launch(I, sel)[p]) /\ Launch(I, sel)[p].tries \in Nat
                                /\ Launch(I, sel)[p].st \in {"off", "go"}
                                /\ Launch(I, sel)[p].st # "off" => \E i \in I : sel[i].url = p
<1>1. /\ DOMAIN Launch(I, sel) = AllPages
      /\ \A p \in AllPages : \/ Launch(I, sel)[p] = NoFetch
                             \/ Launch(I, sel)[p] = NewFetch /\ \E i \in I : sel[i].url = p
  BY Zenon DEF Launch
<1>2. QED
  BY <1>1, NewFetches

\* No page chosen is the homepage, and the contact page is one of those chosen.
LEMMA ChosenAreOthers ==
  ASSUME NEW sel \in Seq(Scored)
  PROVE  /\ \A i \in DOMAIN sel : sel[i].url # Home
         /\ ContactIndex(sel) # 0 => ContactIndex(sel) \in DOMAIN sel
<1>1. ASSUME NEW i \in DOMAIN sel PROVE sel[i].url # Home
  <2>1. sel[i] \in Scored
    OBVIOUS
  <2>2. sel[i].url \in Nat
    BY <2>1, Zenon DEF Scored
  <2>3. QED
    BY <2>2 DEF Home
<1>2. ASSUME ContactIndex(sel) # 0 PROVE ContactIndex(sel) \in DOMAIN sel
  <2> DEFINE C == {i \in DOMAIN sel : sel[i].tier = "contact"}
  <2>1. C \in SUBSET Nat /\ C # {}
    BY <1>2 DEF ContactIndex
  <2>2. \E i \in C : \A k \in C : i <= k
    BY <2>1, LeastNumber
  <2>3. ContactIndex(sel) = CHOOSE i \in C : \A k \in C : i <= k
    BY <2>1, Zenon DEF ContactIndex
  <2> HIDE DEF C
  <2>4. ContactIndex(sel) \in C
    BY <2>2, <2>3, Zenon
  <2>5. QED
    BY <2>4, Zenon DEF C
<1>3. QED
  BY <1>1, <1>2

\* The pages being fetched: each once, none of them the homepage, and in the first
\* wave the contact page is one of them.
LEMMA SelectedIsRight ==
  ASSUME FetchInv, ChoiceInv, phase \in {"contact", "rest"}
  PROVE  /\ selected \in Seq(Scored)
         /\ \A i \in DOMAIN selected : selected[i].url \in AllPages /\ selected[i].url # Home
         /\ \A j, k \in DOMAIN selected : selected[j].url = selected[k].url => j = k
         /\ phase = "contact" => ContactIndex(selected) \in DOMAIN selected
<1>1. PICK n \in 0..Len(site.mapped) : selected = Chosen(n)
  BY Zenon DEF ChoiceInv
<1>2. /\ selected \in Seq(Scored)
      /\ \A i \in DOMAIN selected : selected[i].url \in AllPages
      /\ \A j, k \in DOMAIN selected : selected[j].url = selected[k].url => j = k
  BY <1>1, ChosenIsRight DEF FetchInv
<1>3. QED
  BY <1>2, ChosenAreOthers, Zenon DEF ChoiceInv

\* What a wave adds to the sum: the usage of each fetch that came back, once.
LEMMA BilledIsRight ==
  ASSUME FetchInv, ChoiceInv, phase \in {"contact", "rest"}, NEW I \in SUBSET DOMAIN selected
  PROVE  /\ Billed(I) \in Seq(AllPages) /\ Once(Billed(I))
         /\ Range(Billed(I)) =
              {selected[i].url : i \in {k \in I : fetches[selected[k].url].st \in Ok}}
<1> DEFINE s == [i \in DOMAIN selected |-> selected[i].url]
           J == {k \in I : fetches[selected[k].url].st \in Ok}
<1>1. /\ selected \in Seq(Scored)
      /\ \A i \in DOMAIN selected : selected[i].url \in AllPages
      /\ \A j, k \in DOMAIN selected : selected[j].url = selected[k].url => j = k
  BY SelectedIsRight, Zenon
<1>2. s \in Seq(AllPages) /\ DOMAIN s = DOMAIN selected
  <2>1. Len(selected) \in Nat /\ DOMAIN selected = 1..Len(selected)
    BY <1>1
  <2>2. s \in [1..Len(selected) -> AllPages]
    BY <1>1, <2>1, Zenon
  <2>3. QED
    BY <2>1, <2>2, FunctionIsSequence
<1>3. J \in SUBSET DOMAIN s /\ \A i, k \in J : s[i] = s[k] => i = k
  BY <1>1, <1>2, Zenon
<1>4. Billed(I) = At(s, J) /\ {s[i] : i \in J} = {selected[i].url : i \in J}
  BY Zenon DEF Billed
<1>5. QED
  <2> HIDE DEF s, J
  <2>1. /\ At(s, J) \in Seq(AllPages) /\ Range(At(s, J)) = {s[i] : i \in J}
        /\ Once(At(s, J))
    BY <1>2, <1>3, AtHolds
  <2>2. QED
    BY <1>4, <2>1, Zenon DEF J

\* A page that arrives is paid for, and keeps the scratchpad right.
LEMMA ArrivedIsRight ==
  ASSUME FetchInv, ChoiceInv, phase \in {"contact", "rest"}, NEW I \in SUBSET DOMAIN selected
  PROVE  /\ Arrived(I) \in Seq(PageRecord)
         /\ \A k \in DOMAIN Arrived(I) :
              Arrived(I)[k].url \in {site.lands[p] : p \in got \cap Range(Billed(I))}
<1> DEFINE s == [i \in DOMAIN selected |-> Page(selected[i].url, selected[i].score)]
           J == {i \in I : fetches[selected[i].url].st = "page"}
           L == {site.lands[p] : p \in got \cap Range(Billed(I))}
<1>0. selected \in Seq(Scored) /\ \A i \in DOMAIN selected : selected[i].url \in AllPages
  BY SelectedIsRight, Zenon
<1>1. ASSUME NEW i \in DOMAIN selected
      PROVE  s[i] \in PageRecord /\ s[i].url = site.lands[selected[i].url]
  <2>1. selected[i] \in Scored
    BY <1>0
  <2>2. selected[i].score \in Nat
    BY <2>1, Zenon DEF Scored
  <2>3. QED
    BY <1>0, <2>2, PageIsOne DEF FetchInv
<1>2. s \in Seq(PageRecord) /\ DOMAIN s = DOMAIN selected
  <2>1. Len(selected) \in Nat /\ DOMAIN selected = 1..Len(selected)
    BY <1>0
  <2>2. s \in [1..Len(selected) -> PageRecord]
    BY <1>1, <2>1, Zenon
  <2>3. QED
    BY <2>1, <2>2, FunctionIsSequence
<1>3. Arrived(I) = At(s, J)
  BY Zenon DEF Arrived
<1>4. J \in SUBSET DOMAIN s
  BY <1>2, Zenon
<1>5. ASSUME NEW i \in J PROVE s[i].url \in L
  <2>1. selected[i].url \in got
    BY <1>0, <1>5, Zenon DEF FetchInv
  <2>2. selected[i].url \in Range(Billed(I))
    BY <1>5, BilledIsRight, Zenon DEF Ok
  <2>3. QED
    BY <1>1, <1>5, <2>1, <2>2, Zenon
<1> HIDE DEF s, J, L
<1>6. /\ At(s, J) \in Seq(PageRecord)
      /\ Range(At(s, J)) = {s[i] : i \in J}
  BY <1>2, <1>4, AtHolds, Zenon
<1>7. ASSUME NEW k \in DOMAIN At(s, J) PROVE At(s, J)[k].url \in L
  <2>1. At(s, J)[k] \in {s[i] : i \in J}
    BY <1>6, Zenon DEF Range
  <2>2. QED
    BY <1>5, <2>1, Zenon
<1>8. QED
  BY <1>3, <1>6, <1>7, Zenon DEF L

\* extract_all gives what the pages yield, extracted before or not.
LEMMA ExtractAllIsRight ==
  ASSUME ScratchInv
  PROVE  extract_all(scratch) = extract_pages(scratch.pages)
<1>1. Len(scratch.pages) \in Nat
  BY DEF ScratchInv
<1>2. QED
  BY <1>1 DEF ScratchInv, extract_all, NotExtracted

-----------------------------------------------------------------------------
(* The invariant                                                           *)

\* The fetches, under every step.
LEMMA FetchInvHolds ==
  ASSUME FetchInv, [CrawlNext]_crawlVars
  PROVE  FetchInv'
<1> USE DEF FetchInv
<1>1. ASSUME NEW a \in BOOLEAN, NEW w \in BOOLEAN, Dns(a, w) PROVE FetchInv'
  BY <1>1 DEF Dns, EndAttempt, NewFetch, NoFetch, Ok
<1>2. ASSUME NEW r \in Answers, HomeAnswer(r) PROVE FetchInv'
  BY <1>2, Zenon DEF HomeAnswer
<1>3. ASSUME NEW r \in Answers, TextAnswer(r) PROVE FetchInv'
  BY <1>3, Zenon DEF TextAnswer
<1>4. ASSUME NEW r \in Answers, NEW p \in AllPages, PageAnswer(p, r) PROVE FetchInv'
  BY <1>4, Zenon DEF PageAnswer
<1>5. CASE Again
  BY <1>5, Zenon DEF Again, NoFetch, Idle, Ok
<1>6. CASE Wave1Done
  BY <1>6, Zenon DEF Wave1Done, EndAttempt
<1>7. CASE InternalError
  BY <1>7, Zenon DEF InternalError, EndAttempt
<1>8. CASE CircuitOpen
  BY <1>8, Zenon DEF CircuitOpen, Open, EndAttempt, Idle, NoFetch
<1>9. ASSUME NEW n \in 0..Len(site.mapped), Discover(n) PROVE FetchInv'
  BY <1>9, Zenon DEF Discover, Launch, NewFetch, NoFetch
<1>10. CASE ContactDone
  BY <1>10, SMTT(30) DEF ContactDone, Launch, Idle, NewFetch, NoFetch
<1>11. CASE RestDone
  BY <1>11, Zenon DEF RestDone, Idle, NoFetch
<1>12. CASE Extract
  BY <1>12, Zenon DEF Extract
<1>13. CASE JudgeByRules
  BY <1>13, Zenon DEF JudgeByRules, Harvest, EndAttempt, JudgeUnchanged
<1>14. CASE Deadline
  BY <1>14, Zenon DEF Deadline, Harvest, EndAttempt, Idle, NoFetch
<1>15. ASSUME NEW final \in BOOLEAN, JudgeFails(final) PROVE FetchInv'
  BY <1>15 DEF JudgeFails, Harvest, EndAttempt, JudgeUnchanged
<1>16. ASSUME NEW v \in Verdicts, JudgeAnswers(v) PROVE FetchInv'
  BY <1>16, Zenon DEF JudgeAnswers, Harvest, EndAttempt, JudgeUnchanged
<1>17. CASE UNCHANGED crawlVars
  BY <1>17, Zenon DEF crawlVars
<1>18. QED
  BY <1>1, <1>2, <1>3, <1>4, <1>5, <1>6, <1>7, <1>8, <1>9, <1>10, <1>11, <1>12, <1>13, <1>14,
     <1>15, <1>16, <1>17, Zenon DEF CrawlNext

\* The choice, under every step.
LEMMA ChoiceInvHolds ==
  ASSUME FetchInv, ChoiceInv, [CrawlNext]_crawlVars
  PROVE  ChoiceInv'
<1>1. CASE phase' \notin {"contact", "rest"}
  BY <1>1, Zenon DEF ChoiceInv
<1>2. ASSUME NEW n \in 0..Len(site.mapped), Discover(n) PROVE ChoiceInv'
  <2>1. selected' = Chosen(n)'
    BY <1>2, Zenon DEF Discover, Chosen, Links, Mapped
  <2>2. n \in 0..Len(site'.mapped)
    BY <1>2 DEF Discover
  <2>3. phase' = "contact" => ContactIndex(selected') # 0
    BY <1>2, Zenon DEF Discover
  <2>4. QED
    BY <2>1, <2>2, <2>3, Zenon DEF ChoiceInv
<1>3. ASSUME phase \in {"contact", "rest"}, phase' \in {phase, "rest"},
             UNCHANGED <<site, home, texts, selected>>
      PROVE  ChoiceInv'
  <2>1. PICK n \in 0..Len(site.mapped) : selected = Chosen(n)
    BY <1>3, Zenon DEF ChoiceInv
  <2>2. Chosen(n)' = Chosen(n)
    BY <1>3, Zenon DEF Chosen, Links, Mapped
  <2>3. selected' = Chosen(n)' /\ n \in 0..Len(site'.mapped)
    BY <1>3, <2>1, <2>2, Zenon
  <2>4. phase' = "contact" => ContactIndex(selected') # 0
    BY <1>3, Zenon DEF ChoiceInv
  <2>5. QED
    BY <2>3, <2>4, Zenon DEF ChoiceInv
<1>4. \/ phase' \notin {"contact", "rest"}
      \/ \E n \in 0..Len(site.mapped) : Discover(n)
      \/ /\ phase \in {"contact", "rest"} /\ phase' \in {phase, "rest"}
         /\ UNCHANGED <<site, home, texts, selected>>
  BY Zenon DEF FetchInv, CrawlNext, crawlVars, Dns, HomeAnswer, TextAnswer, PageAnswer, Again, Wave1Done,
         InternalError, CircuitOpen, Open, ContactDone, RestDone, Extract, JudgeByRules, Deadline,
         JudgeFails, JudgeAnswers, JudgeUnchanged, Harvest, EndAttempt
<1>5. QED
  BY <1>1, <1>2, <1>3, <1>4

\* The scratchpad, under every step.
LEMMA ScratchInvHolds ==
  ASSUME FetchInv, ChoiceInv, ScratchInv, [CrawlNext]_crawlVars
  PROVE  ScratchInv'
<1>1. ASSUME NEW t \in Seq(PageRecord), NEW b \in Seq(AllPages),
             \A k \in DOMAIN t : t[k].url \in {site.lands[p] : p \in got \cap Range(b)},
             scratch' = [scratch EXCEPT !.pages = @ \o t, !.tokens = @ \o b],
             phase \in {"discover", "contact", "rest"}, site' = site, got' = got
      PROVE  ScratchInv'
  <2> DEFINE s == scratch.pages \o t
             u == scratch.tokens \o b
  <2>1. scratch.pages \in Seq(PageRecord) /\ scratch.tokens \in Seq(AllPages)
    BY Zenon DEF ScratchInv
  <2>2. /\ s \in Seq(PageRecord)
        /\ \A i \in DOMAIN s : \/ i \in DOMAIN scratch.pages /\ s[i] = scratch.pages[i]
                               \/ i - Len(scratch.pages) \in DOMAIN t
                                  /\ s[i] = t[i - Len(scratch.pages)]
    BY <2>1
  <2>3. u \in Seq(AllPages) /\ Range(u) = Range(scratch.tokens) \cup Range(b)
    BY <2>1, RangeOfBoth, Zenon
  <2> HIDE DEF s, u
  <2>4. scratch' = [pages |-> s, tokens |-> u, extracted |-> NotExtracted]
    BY <1>1, Zenon DEF ScratchInv, s, u
  <2>5. scratch'.pages = s /\ scratch'.tokens = u /\ scratch'.extracted = NotExtracted
    BY <2>4
  <2>6. Landed' = {site.lands[p] : p \in got \cap Range(u)}
    BY <1>1, <2>5, Zenon DEF Landed
  <2>7. ASSUME NEW i \in DOMAIN s PROVE s[i].url \in Landed'
    <3>1. CASE s[i] = scratch.pages[i] /\ i \in DOMAIN scratch.pages
      <4>1. s[i].url \in Landed
        BY <3>1, Zenon DEF ScratchInv
      <4>2. QED
        BY <2>3, <2>6, <4>1, Zenon DEF Landed
    <3>2. CASE i - Len(scratch.pages) \in DOMAIN t /\ s[i] = t[i - Len(scratch.pages)]
      <4>1. s[i].url \in {site.lands[p] : p \in got \cap Range(b)}
        BY <1>1, <3>2, Zenon
      <4>2. QED
        BY <2>3, <2>6, <4>1, Zenon
    <3>3. QED
      BY <2>2, <3>1, <3>2, Zenon
  <2>8. QED
    BY <2>2, <2>3, <2>4, <2>5, <2>7, Zenon DEF ScratchInv
<1>2. ASSUME NEW n \in 0..Len(site.mapped), Discover(n) PROVE ScratchInv'
  <2> DEFINE t == <<Page(Home, 0)>>
             b == <<Home>>
  <2>1. Page(Home, 0) \in PageRecord /\ Page(Home, 0).url = site.lands[Home] /\ Home \in AllPages
    BY PageIsOne DEF FetchInv, AllPages
  <2>2. Home \in got
    BY <1>2, Zenon DEF Discover, FetchInv
  <2>3. /\ t \in Seq(PageRecord) /\ b \in Seq(AllPages)
        /\ \A k \in DOMAIN t : t[k].url \in {site.lands[p] : p \in got \cap Range(b)}
    <3>1. t \in Seq(PageRecord) /\ b \in Seq(AllPages) /\ DOMAIN t = {1} /\ t[1] = Page(Home, 0)
      BY <2>1
    <3>2. Home \in Range(b)
      BY DEF Range
    <3>3. QED
      BY <2>1, <2>2, <3>1, <3>2
  <2>4. /\ Append(scratch.pages, Page(Home, 0)) = scratch.pages \o t
        /\ Append(scratch.tokens, Home) = scratch.tokens \o b
    BY <2>1 DEF ScratchInv
  <2>5. scratch' = [scratch EXCEPT !.pages = @ \o t, !.tokens = @ \o b]
    BY <1>2, <2>4, Zenon DEF Discover
  <2>6. phase \in {"discover", "contact", "rest"} /\ site' = site /\ got' = got
    BY <1>2, Zenon DEF Discover
  <2> HIDE DEF t, b
  <2>7. QED
    BY <1>1, <2>3, <2>5, <2>6, Zenon
<1>3. ASSUME phase \in {"contact", "rest"}, site' = site, got' = got,
             NEW I \in SUBSET DOMAIN selected, scratch' = Gather(I)
      PROVE  ScratchInv'
  <2>1. /\ Arrived(I) \in Seq(PageRecord) /\ Billed(I) \in Seq(AllPages)
        /\ \A k \in DOMAIN Arrived(I) :
             Arrived(I)[k].url \in {site.lands[p] : p \in got \cap Range(Billed(I))}
    BY <1>3, ArrivedIsRight, BilledIsRight, Zenon
  <2>2. scratch' = [scratch EXCEPT !.pages = @ \o Arrived(I), !.tokens = @ \o Billed(I)]
    BY <1>3, Zenon DEF Gather
  <2>3. QED
    BY <1>1, <1>3, <2>1, <2>2, Zenon
<1>4. CASE ContactDone
  <2> DEFINE I == {ContactIndex(selected)}
  <2>1. /\ phase \in {"contact", "rest"} /\ site' = site /\ got' = got /\ phase = "contact"
        /\ scratch' = Gather(I)
    BY <1>4, Zenon DEF ContactDone
  <2>2. I \in SUBSET DOMAIN selected
    BY <2>1, SelectedIsRight, Zenon
  <2> HIDE DEF I
  <2>3. QED
    BY <1>3, <2>1, <2>2, Zenon
<1>5. CASE RestDone
  <2> DEFINE I == {i \in Rest(selected) : fetches[selected[i].url].st # "off"}
  <2>1. /\ phase \in {"contact", "rest"} /\ site' = site /\ got' = got
        /\ scratch' = Gather(I)
    BY <1>5, Zenon DEF RestDone
  <2>2. I \in SUBSET DOMAIN selected
    BY Zenon DEF Rest
  <2> HIDE DEF I
  <2>3. QED
    BY <1>3, <2>1, <2>2, Zenon
<1>6. CASE Extract
  <2>1. /\ scratch' = [scratch EXCEPT !.extracted =
                         [n |-> Len(scratch.pages), ranked |-> extract_pages(scratch.pages)]]
        /\ phase' = "judge" /\ site' = site /\ got' = got
    BY <1>6, ExtractAllIsRight, Zenon DEF Extract, Extracted
  <2>2. /\ scratch'.pages = scratch.pages /\ scratch'.tokens = scratch.tokens
        /\ scratch'.extracted =
             [n |-> Len(scratch.pages), ranked |-> extract_pages(scratch.pages)]
        /\ scratch' = [pages |-> scratch'.pages, tokens |-> scratch'.tokens,
                       extracted |-> scratch'.extracted]
    BY <2>1 DEF ScratchInv
  <2>3. Landed' = Landed
    BY <2>1, <2>2 DEF Landed
  <2>4. QED
    BY <2>1, <2>2, <2>3, Zenon DEF ScratchInv
<1>7. CASE Again
  BY <1>7 DEF Again, ScratchInv, Scratch, NotExtracted
<1>8. ASSUME UNCHANGED <<site, scratch>>, got \subseteq got',
             phase \in {"judge", "wait", "done", "raised", "crashed"} =>
               phase' \in {"judge", "wait", "done", "raised", "crashed"}
      PROVE  ScratchInv'
  <2>1. Landed \subseteq Landed'
    BY <1>8, Zenon DEF Landed
  <2>2. QED
    BY <1>8, <2>1, Zenon DEF ScratchInv
<1>9. \/ \E n \in 0..Len(site.mapped) : Discover(n)
      \/ ContactDone \/ RestDone \/ Extract \/ Again
      \/ /\ UNCHANGED <<site, scratch>> /\ got \subseteq got'
         /\ phase \in {"judge", "wait", "done", "raised", "crashed"} =>
              phase' \in {"judge", "wait", "done", "raised", "crashed"}
  BY DEF CrawlNext, crawlVars, Dns, HomeAnswer, TextAnswer, PageAnswer, Wave1Done,
         InternalError, CircuitOpen, Open, JudgeByRules, Deadline, Working,
         JudgeFails, JudgeAnswers, JudgeUnchanged, Harvest, EndAttempt
<1>10. QED
  BY <1>2, <1>4, <1>5, <1>6, <1>7, <1>8, <1>9, Zenon

\* The sum, under every step.
LEMMA BillInvHolds ==
  ASSUME FetchInv, ChoiceInv, ScratchInv, BillInv, [CrawlNext]_crawlVars
  PROVE  BillInv'
<1>0. phase \notin {"contact", "rest", "wait", "done"} =>
        PagesDue = {} /\ \A p \in AllPages : fetches[p].st = "off"
  BY Zenon DEF BillInv, InWave, PagesDue, Ok
<1>1. ASSUME UNCHANGED <<scratch, paid>>, home'.st \in Ok => home.st \in Ok,
             \A p \in AllPages : fetches'[p].st = "off", phase' # "contact",
             phase' \in {"dns", "wave1", "discover"} => phase \in {"dns", "wave1", "discover"},
             phase' \in Working \cup {"extract"} => paid \subseteq Range(scratch.tokens) \cup HomeDue'
      PROVE  BillInv'
  <2>1. PagesDue' = {}
    BY <1>1, Zenon DEF PagesDue, Ok
  <2>2. QED
    BY <1>1, <2>1, Zenon DEF BillInv
<1>2. ASSUME UNCHANGED <<scratch, paid, home, fetches, selected, phase>> PROVE BillInv'
  BY <1>2, Zenon DEF BillInv, PagesDue, HomeDue, InWave
<1>3. ASSUME UNCHANGED <<scratch, paid, home>>, phase' \in {"wait", "done", "raised", "crashed"},
             \A p \in AllPages : fetches'[p].st = "off"
      PROVE  BillInv'
  BY <1>1, <1>3, Zenon DEF Working
<1>4. ASSUME NEW a \in BOOLEAN, NEW w \in BOOLEAN, Dns(a, w) PROVE BillInv'
  <2>1. /\ UNCHANGED <<scratch, paid, fetches>> /\ phase = "dns" /\ phase' \in {"wave1", "wait", "done"}
        /\ home' = home \/ home' = NewFetch
    BY <1>4, Zenon DEF Dns, EndAttempt
  <2>2. home'.st \in Ok => home.st \in Ok
    BY <2>1, NewFetches, Zenon DEF Ok
  <2>3. paid \subseteq Range(scratch.tokens) \cup HomeDue'
    BY <1>0, <2>1, Zenon DEF BillInv, HomeDue, Working
  <2>4. QED
    BY <1>0, <1>1, <2>1, <2>2, <2>3, Zenon
<1>5. ASSUME NEW r \in Answers, HomeAnswer(r) PROVE BillInv'
  <2>1. /\ UNCHANGED <<scratch, fetches, phase>> /\ phase = "wave1" /\ home.st = "go"
        /\ paid' = IF home'.st \in Ok THEN paid \cup {Home} ELSE paid
    BY <1>5, Zenon DEF HomeAnswer
  <2>2. paid \subseteq Range(scratch.tokens)
    BY <1>0, <2>1, Zenon DEF BillInv, HomeDue, Working, Ok
  <2>3. paid' \subseteq Range(scratch.tokens) \cup HomeDue'
    BY <2>1, <2>2, Zenon DEF HomeDue
  <2>4. /\ PagesDue' = {} /\ \A p \in AllPages : fetches'[p].st = "off"
    BY <1>0, <2>1, Zenon DEF PagesDue
  <2>5. QED
    BY <2>1, <2>3, <2>4, Zenon DEF BillInv, Ok
<1>6. ASSUME NEW r \in Answers, NEW p \in AllPages, PageAnswer(p, r) PROVE BillInv'
  <2>1. /\ UNCHANGED <<scratch, home, phase, selected>> /\ fetches[p].st = "go"
        /\ fetches' = [fetches EXCEPT ![p] = [Pass(@, r) EXCEPT !.err = FetchResult]]
        /\ paid' = IF fetches'[p].st \in Ok THEN paid \cup {p} ELSE paid
    BY <1>6, Zenon DEF PageAnswer
  <2>2. \A q \in AllPages : q # p => fetches'[q] = fetches[q]
    BY <2>1, Zenon DEF FetchInv
  <2>3. InWave(p) /\ phase \in {"contact", "rest"}
    BY <2>1, Zenon DEF BillInv, InWave
  <2>4. ASSUME NEW q \in AllPages, fetches'[q].st # "off" PROVE InWave(q)'
    <3>1. InWave(q)
      BY <2>2, <2>3, <2>4, Zenon DEF BillInv
    <3>2. QED
      BY <2>1, <2>3, <3>1, Zenon DEF InWave
  <2>5. PagesDue \subseteq PagesDue' /\ PagesDue' \subseteq paid'
    <3>1. p \notin PagesDue
      BY <2>1, Zenon DEF PagesDue, Ok
    <3>2. QED
      BY <2>1, <2>2, <3>1, Zenon DEF PagesDue, BillInv
  <2>6. paid' \subseteq Range(scratch.tokens) \cup PagesDue' \cup HomeDue'
    <3>1. paid \subseteq Range(scratch.tokens) \cup PagesDue
      BY <2>3, Zenon DEF BillInv, HomeDue, Working
    <3>2. paid' \subseteq paid \cup PagesDue'
      BY <2>1, Zenon DEF PagesDue
    <3>3. QED
      BY <2>5, <3>1, <3>2, Zenon
  <2>7. paid \subseteq paid'
    BY <2>1, Zenon
  <2>8. QED
    BY <2>1, <2>4, <2>5, <2>6, <2>7, Zenon DEF BillInv
<1>7. CASE Again
  <2>1. /\ phase' = "dns" /\ home' = NoFetch /\ fetches' = Idle /\ scratch' = Scratch /\ paid' = {}
    BY <1>7, Zenon DEF Again
  <2>2. scratch'.tokens = <<>> /\ Range(scratch'.tokens) = {} /\ Once(scratch'.tokens)
    BY <2>1 DEF Scratch, Range, Once
  <2>3. PagesDue' = {} /\ home'.st \notin Ok /\ \A p \in AllPages : fetches'[p].st = "off"
    BY <2>1, NewFetches, Zenon DEF PagesDue, Ok
  <2>4. QED
    BY <2>1, <2>2, <2>3, Zenon DEF BillInv
<1>8. CASE Wave1Done
  <2>1. /\ UNCHANGED <<scratch, paid, home, fetches>> /\ phase = "wave1"
        /\ phase' \in {"raised", "discover", "wait", "done"}
    BY <1>8, Zenon DEF Wave1Done, EndAttempt
  <2>2. phase' = "discover" => paid \subseteq Range(scratch.tokens) \cup HomeDue'
    BY <1>0, <2>1, Zenon DEF BillInv, HomeDue, Working
  <2>3. QED
    BY <1>0, <1>1, <2>1, <2>2, Zenon DEF Working
<1>9. CASE InternalError
  <2>1. /\ UNCHANGED <<scratch, paid, home, fetches, selected>> /\ phase' \in {"wait", "done"}
        /\ phase \in {"discover", "extract", "judge", "wave1", "contact"}
    BY <1>9, Zenon DEF InternalError, EndAttempt
  <2>2. CASE phase # "contact"
    BY <1>0, <1>3, <2>1, <2>2, Zenon
  <2>3. CASE phase = "contact"
    <3>1. fetches[selected[ContactIndex(selected)].url].st # "go"
      BY <1>9, <2>3, Zenon DEF InternalError, Back, Ok
    <3>2. ASSUME NEW p \in AllPages, fetches'[p].st # "off" PROVE InWave(p)'
      <4>1. InWave(p) /\ fetches[p].st # "go"
        BY <2>1, <2>3, <3>1, <3>2, Zenon DEF BillInv, InWave
      <4>2. QED
        BY <2>1, <4>1, Zenon DEF InWave
    <3>3. PagesDue' = PagesDue
      BY <2>1, Zenon DEF PagesDue
    <3>4. QED
      BY <2>1, <3>2, <3>3, Zenon DEF BillInv, Working
  <2>4. QED
    BY <2>2, <2>3
<1>10. ASSUME NEW n \in 0..Len(site.mapped), Discover(n) PROVE BillInv'
  <2> DEFINE c == ContactIndex(Chosen(n))
             I == IF c = 0 THEN Rest(Chosen(n)) ELSE {c}
  <2>1. /\ phase = "discover" /\ selected' = Chosen(n) /\ fetches' = Launch(I, selected')
        /\ phase' = IF c = 0 THEN "rest" ELSE "contact"
        /\ scratch' = [scratch EXCEPT !.pages = Append(@, Page(Home, 0)), !.tokens = Append(@, Home)]
        /\ UNCHANGED <<site, home, texts, paid>>
    BY <1>10, Zenon DEF Discover
  <2>2. scratch'.tokens = <<Home>> /\ Range(scratch'.tokens) = {Home} /\ Once(scratch'.tokens)
    <3>1. scratch.tokens = <<>> /\ scratch'.tokens = Append(scratch.tokens, Home)
      BY <2>1, Zenon DEF BillInv, ScratchInv
    <3>2. scratch'.tokens = <<Home>>
      BY <3>1
    <3>3. QED
      BY <3>2 DEF Range, Once
  <2>3. Home \in paid /\ paid \subseteq {Home}
    <3>1. Range(scratch.tokens) = {}
      BY <2>1 DEF BillInv, Range
    <3>2. QED
      BY <1>0, <2>1, <3>1, Zenon DEF BillInv, FetchInv, HomeDue, Working
  <2>4. phase' = "contact" => I = {ContactIndex(selected')}
    BY <2>1, Zenon
  <2>5. phase' = "rest" => I = Rest(selected')
    BY <2>1, Zenon
  <2>6. phase' \in {"contact", "rest"}
    BY <2>1, Zenon
  <2>7. phase' = "contact" => ContactIndex(selected') # 0
    BY <2>1, Zenon
  <2>8. /\ \A i \in DOMAIN selected' : selected'[i].url # Home
        /\ phase' = "contact" => ContactIndex(selected') \in DOMAIN selected'
    <3>1. Chosen(n) \in Seq(Scored)
      BY ChosenIsRight DEF FetchInv
    <3>2. QED
      BY <2>1, <2>7, <3>1, ChosenAreOthers, Zenon
  <2> HIDE DEF I, c
  <2>9. \A p \in AllPages : /\ fetches'[p].st \in {"off", "go"}
                            /\ fetches'[p].st # "off" => \E i \in I : selected'[i].url = p
    <3>1. \A p \in AllPages : /\ Launch(I, selected')[p].st \in {"off", "go"}
                              /\ Launch(I, selected')[p].st # "off" =>
                                   \E i \in I : selected'[i].url = p
      BY LaunchIs
    <3>2. QED
      BY <2>1, <3>1, Zenon
  <2>10. I \subseteq DOMAIN selected'
    BY <2>4, <2>5, <2>6, <2>8, Zenon DEF Rest
  <2>11. ASSUME NEW p \in AllPages, fetches'[p].st # "off" PROVE InWave(p)'
    <3>1. PICK i \in I : selected'[i].url = p
      BY <2>9, <2>11, Zenon
    <3>2. p # Home
      BY <2>8, <2>10, <3>1, Zenon
    <3>3. QED
      BY <2>2, <2>4, <2>5, <2>6, <3>1, <3>2, Zenon DEF InWave
  <2>12. PagesDue' = {}
    BY <2>9, Zenon DEF PagesDue, Ok
  <2>13. QED
    BY <2>1, <2>2, <2>3, <2>6, <2>11, <2>12, Zenon DEF BillInv
<1>11. CASE ContactDone
  <2> DEFINE c == ContactIndex(selected)
             p == selected[c].url
  <2>1. /\ phase = "contact" /\ phase' = "rest" /\ scratch' = Gather({c})
        /\ fetches' = Idle \/ fetches' = Launch(Rest(selected), selected)
        /\ UNCHANGED <<home, paid, selected>>
    BY <1>11, Zenon DEF ContactDone
  <2>2. /\ c \in DOMAIN selected /\ p \in AllPages /\ p # Home
        /\ \A i \in DOMAIN selected : selected[i].url # Home
        /\ \A i \in Rest(selected) : selected[i].url # p
    BY <2>1, SelectedIsRight, Zenon DEF Rest
  <2>3. {c} \in SUBSET DOMAIN selected
    BY <2>2, Zenon
  <2> HIDE DEF c
  <2>4. /\ Billed({c}) \in Seq(AllPages) /\ Once(Billed({c}))
        /\ Range(Billed({c})) = IF fetches[p].st \in Ok THEN {p} ELSE {}
    <3>1. /\ Billed({c}) \in Seq(AllPages) /\ Once(Billed({c}))
          /\ Range(Billed({c})) =
               {selected[i].url : i \in {k \in {c} : fetches[selected[k].url].st \in Ok}}
      BY <2>1, <2>3, BilledIsRight, Zenon
    <3>2. QED
      BY <3>1
  <2> HIDE DEF p
  <2>5. PagesDue = Range(Billed({c}))
    <3>1. \A q \in AllPages : fetches[q].st \in Ok => q = p
      BY <2>1, Zenon DEF BillInv, InWave, Ok, c, p
    <3>2. QED
      BY <2>2, <2>4, <3>1, Zenon DEF PagesDue
  <2>6. /\ scratch.tokens = <<Home>> /\ <<Home>> \in Seq(AllPages)
        /\ Range(<<Home>>) = {Home} /\ Once(<<Home>>)
    <3>1. Home \in AllPages
      BY Zenon DEF AllPages
    <3>2. scratch.tokens = <<Home>>
      BY <2>1, Zenon DEF BillInv
    <3>3. QED
      BY <3>1, <3>2 DEF Range, Once
  <2>7. scratch'.tokens = <<Home>> \o Billed({c})
    BY <2>1, <2>6, Zenon DEF Gather, ScratchInv
  <2>8. /\ Range(scratch'.tokens) = {Home} \cup PagesDue /\ Once(scratch'.tokens)
        /\ Range(scratch'.tokens) \subseteq {Home, p}
    <3>1. Range(<<Home>> \o Billed({c})) = {Home} \cup Range(Billed({c}))
      <4> DEFINE s == scratch.tokens
                 t == Billed({c})
      <4>0. s \in Seq(AllPages) /\ t \in Seq(AllPages)
        BY <2>4, Zenon DEF ScratchInv
      <4> HIDE DEF s, t
      <4>1. Range(s \o t) = Range(s) \cup Range(t)
        BY <4>0, RangeOfBoth, Zenon
      <4>2. QED
        BY <2>6, <4>1, Zenon DEF s, t
    <3>2. {Home} \cap Range(Billed({c})) = {} /\ Range(Billed({c})) \subseteq {p}
      BY <2>2, <2>4, Zenon
    <3>3. Once(<<Home>> \o Billed({c}))
      BY <2>4, <2>6, <3>2, JoinedOnce
    <3>4. QED
      BY <2>5, <2>7, <3>1, <3>2, <3>3, Zenon
  <2>9. paid = {Home} \cup PagesDue
    BY <2>1, <2>6, Zenon DEF BillInv, HomeDue, Working
  <2>10. \A q \in AllPages : /\ fetches'[q].st \in {"off", "go"}
                             /\ fetches'[q].st # "off" =>
                                  \E i \in Rest(selected) : selected[i].url = q
    <3>1. CASE fetches' = Idle
      BY <3>1, NewFetches, Zenon
    <3>2. \A q \in AllPages : /\ Launch(Rest(selected), selected)[q].st \in {"off", "go"}
                              /\ Launch(Rest(selected), selected)[q].st # "off" =>
                                   \E i \in Rest(selected) : selected[i].url = q
      BY LaunchIs
    <3>3. CASE fetches' = Launch(Rest(selected), selected)
      BY <3>2, <3>3, Zenon
    <3>4. QED
      BY <2>1, <3>1, <3>3, Zenon
  <2>11. ASSUME NEW q \in AllPages, fetches'[q].st # "off" PROVE InWave(q)'
    <3>1. PICK i \in Rest(selected) : selected[i].url = q
      BY <2>10, <2>11, Zenon
    <3>2. q # Home /\ q # p
      BY <2>2, <3>1, Zenon DEF Rest
    <3>3. q \notin Range(scratch'.tokens)
      BY <2>8, <3>2, Zenon
    <3>4. QED
      BY <2>1, <3>1, <3>3, Zenon DEF InWave
  <2>12. PagesDue' = {}
    BY <2>10, Zenon DEF PagesDue, Ok
  <2>13. QED
    BY <2>1, <2>8, <2>9, <2>11, <2>12, Zenon DEF BillInv
<1>12. CASE RestDone
  <2> DEFINE I == {i \in Rest(selected) : fetches[selected[i].url].st # "off"}
  <2>1. /\ phase = "rest" /\ phase' = "extract" /\ scratch' = Gather(I) /\ fetches' = Idle
        /\ UNCHANGED <<home, paid>>
    BY <1>12, Zenon DEF RestDone
  <2>2. I \in SUBSET DOMAIN selected
    BY Zenon DEF Rest
  <2>3. PagesDue = {selected[i].url : i \in {k \in I : fetches[selected[k].url].st \in Ok}}
    <3>1. ASSUME NEW q \in PagesDue
          PROVE  \E i \in I : selected[i].url = q /\ fetches[selected[i].url].st \in Ok
      <4>1. q \in AllPages /\ fetches[q].st \in Ok /\ fetches[q].st # "off"
        BY Zenon DEF PagesDue, Ok
      <4>2. PICK i \in Rest(selected) : selected[i].url = q
        BY <2>1, <4>1, Zenon DEF BillInv, InWave
      <4>3. QED
        BY <4>1, <4>2, Zenon
    <3>2. \A i \in I : selected[i].url \in AllPages
      BY <2>1, <2>2, SelectedIsRight, Zenon
    <3>3. QED
      BY <3>1, <3>2, Zenon DEF PagesDue
  <2> HIDE DEF I
  <2>4. /\ Billed(I) \in Seq(AllPages) /\ Once(Billed(I)) /\ Range(Billed(I)) = PagesDue
    BY <2>1, <2>2, <2>3, BilledIsRight, Zenon
  <2>5. scratch.tokens \in Seq(AllPages) /\ scratch'.tokens = scratch.tokens \o Billed(I)
    BY <2>1, Zenon DEF Gather, ScratchInv
  <2>6. Range(scratch.tokens) \cap PagesDue = {}
    BY Zenon DEF BillInv, InWave, PagesDue, Ok
  <2>7. /\ Range(scratch'.tokens) = Range(scratch.tokens) \cup PagesDue
        /\ Once(scratch'.tokens)
    <3>1. Range(scratch.tokens \o Billed(I)) = Range(scratch.tokens) \cup Range(Billed(I))
      BY <2>4, <2>5, RangeOfBoth, Zenon
    <3>2. Once(scratch.tokens)
      BY Zenon DEF BillInv
    <3>3. Once(scratch.tokens \o Billed(I))
      BY <2>4, <2>5, <2>6, <3>2, JoinedOnce, Zenon
    <3>4. QED
      BY <2>4, <2>5, <3>1, <3>3, Zenon
  <2>8. paid = Range(scratch.tokens) \cup PagesDue
    BY <2>1, Zenon DEF BillInv, HomeDue, Working
  <2>9. PagesDue' = {} /\ \A p \in AllPages : fetches'[p].st = "off"
    BY <2>1, NewFetches, Zenon DEF PagesDue, Ok
  <2>10. QED
    BY <2>1, <2>7, <2>8, <2>9, Zenon DEF BillInv
<1>13. CASE Extract
  <2>1. /\ UNCHANGED <<paid, home, fetches>> /\ phase = "extract" /\ phase' = "judge"
        /\ scratch'.tokens = scratch.tokens
    BY <1>13, Zenon DEF Extract, Extracted, ScratchInv
  <2>2. PagesDue' = {}
    BY <1>0, <2>1, Zenon DEF PagesDue
  <2>3. QED
    BY <1>0, <2>1, <2>2, Zenon DEF BillInv, HomeDue, Working
<1>14. ASSUME phase = "judge", JudgeUnchanged,
              phase' \in {"wait", "done"} \/ phase' = phase
       PROVE  BillInv'
  BY <1>0, <1>2, <1>3, <1>14, Zenon DEF JudgeUnchanged
<1>15. CASE JudgeByRules
  BY <1>14, <1>15, Zenon DEF JudgeByRules, Harvest, EndAttempt
<1>16. ASSUME NEW final \in BOOLEAN, JudgeFails(final) PROVE BillInv'
  BY <1>14, <1>16, Zenon DEF JudgeFails, Harvest, EndAttempt
<1>17. ASSUME NEW v \in Verdicts, JudgeAnswers(v) PROVE BillInv'
  BY <1>14, <1>17, Zenon DEF JudgeAnswers, Harvest, EndAttempt
<1>18. CASE Deadline
  BY <1>3, <1>18, NewFetches, Zenon DEF Deadline, Harvest, EndAttempt
<1>19. CASE CircuitOpen
  BY <1>3, <1>19, NewFetches, Zenon DEF CircuitOpen, Open, EndAttempt
<1>20. ASSUME NEW r \in Answers, TextAnswer(r) PROVE BillInv'
  BY <1>2, <1>20, Zenon DEF TextAnswer
<1>21. CASE UNCHANGED crawlVars
  BY <1>2, <1>21, Zenon DEF crawlVars
<1>22. QED
  BY <1>4, <1>5, <1>6, <1>7, <1>8, <1>9, <1>10, <1>11, <1>12, <1>13, <1>15, <1>16, <1>17, <1>18,
     <1>19, <1>20, <1>21, Zenon DEF CrawlNext

\* The result, under every step: each way to end gives a good one, and the usage of
\* all that was fetched is in the sum once the waves are over.
LEMMA ResultInvHolds ==
  ASSUME FetchInv, ScratchInv, BillInv, ResultInv, [CrawlNext]_crawlVars
  PROVE  ResultInv'
<1> DEFINE ranked == extract_all(scratch)
           Kept == UNCHANGED <<site, scratch, got, paid>>
<1>1. /\ scratch.pages \in Seq(PageRecord) /\ scratch.tokens \in Seq(AllPages)
      /\ {scratch.pages[i].url : i \in DOMAIN scratch.pages} \subseteq Landed
      /\ ranked = extract_pages(scratch.pages)
  BY ExtractAllIsRight, Zenon DEF ScratchInv
<1>2. ranked \in Seq(KeptIn(scratch.pages))
  BY <1>1, ExtractedIsRight, Zenon
<1>3. /\ Once(<<>>) /\ Range(<<>>) = {} /\ Once(<<Home>>) /\ Range(<<Home>>) = {Home}
      /\ \A u : Range(<<u>>) = {u}
  BY DEF Once, Range
<1>4. PagesDue # {} => phase \in {"contact", "rest", "wait", "done"}
  BY Zenon DEF BillInv, InWave, PagesDue, Ok
<1> HIDE DEF ranked
<1>5. ASSUME GoodResult(result'), RulesRight(result', scratch.pages), Accounted(result'), Kept
      PROVE  ResultInv'
  BY <1>5, Zenon DEF ResultInv, Accounted
<1>6. ASSUME NEW j, NEW reason, GoodJudgment(j, ranked), Harvest(j, reason), Kept,
             reason = None => paid \subseteq Range(scratch.tokens)
      PROVE  ResultInv'
  <2>1. result' = harvest(scratch.pages, scratch.tokens, extract_pages(scratch.pages), j, reason)
    BY <1>1, <1>6 DEF Harvest, EndAttempt, ranked
  <2>2. /\ GoodResult(result') /\ RulesRight(result', scratch.pages)
        /\ result'.tokens = scratch.tokens /\ result'.reason = reason
        /\ Range(result'.pages) = {scratch.pages[i].url : i \in DOMAIN scratch.pages}
    <3>1. GoodJudgment(j, extract_pages(scratch.pages))
      BY <1>1, <1>6, Zenon
    <3>2. RightFor(result', scratch.pages, scratch.tokens, reason)
      BY <1>1, <2>1, <3>1, HarvestIsGood, Zenon
    <3>3. QED
      BY <3>2, Zenon DEF RightFor
  <2>3. Accounted(result')
    BY <1>1, <1>6, <2>2, Zenon DEF Accounted, BillInv, Landed
  <2>4. QED
    BY <1>5, <1>6, <2>2, <2>3, Zenon
<1>7. ASSUME NEW reason, EndAttempt(Failed(reason)), Kept, reason = None => paid = {}
      PROVE  ResultInv'
  <2>1. result' = Failed(reason)
    BY <1>7 DEF EndAttempt
  <2>2. /\ GoodResult(result') /\ RulesRight(result', scratch.pages) /\ result'.pages = <<>>
        /\ result'.tokens = <<>> /\ result'.reason = reason
    BY <2>1, FailureIsGood, Zenon
  <2>3. Accounted(result')
    BY <1>3, <1>7, <2>2, Zenon DEF Accounted
  <2>4. QED
    BY <1>5, <1>7, <2>2, <2>3, Zenon
<1>8. /\ phase = "dns" => paid = {}
      /\ phase = "wave1" /\ home.st = "error" => paid = {}
      /\ phase \in {"wave1", "discover"} => paid \subseteq {Home}
      /\ phase = "judge" => paid \subseteq Range(scratch.tokens)
  BY <1>3, <1>4, Zenon DEF BillInv, HomeDue, Working, Ok
<1>9. ASSUME NEW a \in BOOLEAN, NEW w \in BOOLEAN, Dns(a, w) PROVE ResultInv'
  <2>1. Kept /\ paid = {}
    BY <1>8, <1>9, Zenon DEF Dns
  <2>2. CASE EndAttempt(Failed("dns"))
    BY <1>7, <2>1, <2>2, Zenon
  <2>3. CASE EndAttempt([NoResult EXCEPT !.status = "parked_or_for_sale"])
    <3>1. result' = [NoResult EXCEPT !.status = "parked_or_for_sale"]
      BY <2>3 DEF EndAttempt
    <3>2. /\ GoodResult(result') /\ RulesRight(result', scratch.pages)
          /\ result'.pages = <<>> /\ result'.tokens = <<>>
      BY <3>1, FailureIsGood, Zenon
    <3>3. Accounted(result')
      BY <1>3, <2>1, <3>2, Zenon DEF Accounted
    <3>4. QED
      BY <1>5, <2>1, <3>2, <3>3, Zenon
  <2>4. CASE phase' = "wave1" /\ result' = result
    BY <2>4, Zenon DEF ResultInv
  <2>5. QED
    BY <1>9, <2>2, <2>3, <2>4, Zenon DEF Dns
<1>10. CASE Wave1Done
  <2>1. Kept /\ phase = "wave1" /\ home.st \in Ok \cup {"error"}
    BY <1>10, Zenon DEF Wave1Done
  <2>2. CASE home.st = "error" /\ EndAttempt(Failed(home.err.reason))
    BY <1>7, <1>8, <2>1, <2>2, Zenon
  <2>3. CASE /\ home.st # "error"
             /\ EndAttempt([NoResult EXCEPT !.status = "parked_or_for_sale",
                              !.pages = <<site.lands[Home]>>, !.tokens = <<Home>>])
    <3>1. result' = [NoResult EXCEPT !.status = "parked_or_for_sale",
                       !.pages = <<site.lands[Home]>>, !.tokens = <<Home>>]
      BY <2>3 DEF EndAttempt
    <3>2. /\ GoodResult(result') /\ RulesRight(result', scratch.pages)
          /\ result'.pages = <<site.lands[Home]>> /\ result'.tokens = <<Home>>
      BY <3>1, FailureIsGood, Zenon
    <3>3. Home \in got /\ Home \in paid /\ paid \subseteq {Home}
      BY <1>8, <2>1, <2>3, Zenon DEF FetchInv, BillInv
    <3>4. Accounted(result')
      BY <1>3, <3>2, <3>3, Zenon DEF Accounted
    <3>5. QED
      BY <1>5, <2>1, <3>2, <3>4, Zenon
  <2>4. CASE phase' \in {"raised", "discover"} /\ result' = result
    BY <2>4, Zenon DEF ResultInv
  <2>5. QED
    BY <1>10, <2>2, <2>3, <2>4 DEF Wave1Done
<1>11. CASE InternalError
  <2>1. "internal_error" # None
    BY DEF None
  <2>2. QED
    BY <1>7, <1>11, <2>1, Zenon DEF InternalError
<1>12. CASE CircuitOpen
  <2>1. "circuit_open" # None
    BY DEF None
  <2>2. QED
    BY <1>7, <1>12, <2>1, Zenon DEF CircuitOpen, Open
<1>13. CASE JudgeByRules
  <2>1. GoodJudgment(rules_only(ranked), ranked)
    BY <1>2, RulesAreGood, Zenon
  <2>2. QED
    BY <1>6, <1>8, <1>13, <2>1, Zenon DEF JudgeByRules, JudgeUnchanged, ranked
<1>14. ASSUME NEW final \in BOOLEAN, JudgeFails(final) PROVE ResultInv'
  <2>1. GoodJudgment([rules_only(ranked) EXCEPT !.error = TRUE], ranked)
    BY <1>2, RulesAreGood
  <2>2. Kept /\ paid \subseteq Range(scratch.tokens)
    BY <1>8, <1>14, Zenon DEF JudgeFails, JudgeUnchanged
  <2>3. CASE Harvest([rules_only(ranked) EXCEPT !.error = TRUE], None)
    BY <1>6, <2>1, <2>2, <2>3, Zenon
  <2>4. CASE UNCHANGED <<phase, result>>
    BY <2>2, <2>4, Zenon DEF ResultInv, Accounted
  <2>5. QED
    BY <1>14, <2>3, <2>4 DEF JudgeFails, ranked
<1>15. ASSUME NEW v \in Verdicts, JudgeAnswers(v) PROVE ResultInv'
  <2>1. GoodJudgment(decide(v, build_body(ranked), ranked), ranked)
    BY <1>2, DecisionIsGood, Zenon
  <2>2. QED
    BY <1>6, <1>8, <1>15, <2>1, Zenon DEF JudgeAnswers, JudgeUnchanged, ranked
<1>16. CASE Deadline
  <2>1. Kept /\ "domain_timeout" # None
    BY <1>16 DEF Deadline, None
  <2>2. CASE Harvest(rules_only(ranked), "domain_timeout")
    BY <1>2, <1>6, <2>1, <2>2, RulesAreGood, Zenon
  <2>3. CASE EndAttempt(Failed("domain_timeout"))
    BY <1>7, <2>1, <2>3, Zenon
  <2>4. CASE phase' = "crashed" /\ UNCHANGED result
    BY <2>4, Zenon DEF ResultInv
  <2>5. QED
    BY <1>16, <2>2, <2>3, <2>4, Zenon DEF Deadline, ranked
<1>17. ASSUME UNCHANGED result, phase' # "done" \/ (phase = "done" /\ Kept)
       PROVE  ResultInv'
  BY <1>17, Zenon DEF ResultInv, Accounted
<1>18. ASSUME NEW r \in Answers, NEW p \in AllPages, PageAnswer(p, r)
       PROVE  UNCHANGED result /\ phase' # "done"
  BY <1>18, Zenon DEF PageAnswer, BillInv, InWave
<1>19. \/ \E a, w \in BOOLEAN : Dns(a, w)
       \/ Wave1Done \/ InternalError \/ CircuitOpen \/ JudgeByRules \/ Deadline
       \/ \E final \in BOOLEAN : JudgeFails(final)
       \/ \E v \in Verdicts : JudgeAnswers(v)
       \/ \E r \in Answers : \E p \in AllPages : PageAnswer(p, r)
       \/ UNCHANGED result /\ (phase' # "done" \/ (phase = "done" /\ Kept))
  BY Zenon DEF CrawlNext, crawlVars, HomeAnswer, TextAnswer, Again, Discover, ContactDone, RestDone,
         Extract
<1>20. QED
  BY <1>9, <1>10, <1>11, <1>12, <1>13, <1>14, <1>15, <1>16, <1>17, <1>18, <1>19, Zenon

\* The invariant holds of every crawl.
LEMMA CrawlInvariant == CrawlSpec => []CrawlInv
<1>1. CrawlInit => CrawlInv
  <2> SUFFICES ASSUME CrawlInit PROVE CrawlInv
    BY Zenon
  <2>1. FetchInv /\ ChoiceInv
    BY Zenon DEF CrawlInit, FetchInv, ChoiceInv, Idle, NoFetch, Ok
  <2>2. ScratchInv
    BY DEF CrawlInit, ScratchInv, Scratch, NotExtracted
  <2>3. ResultInv
    BY FailureIsGood, Zenon DEF CrawlInit, ResultInv
  <2>4. BillInv
    <3>1. scratch.tokens = <<>> /\ Range(scratch.tokens) = {} /\ Once(scratch.tokens)
      BY DEF CrawlInit, Scratch, Range, Once
    <3>2. /\ home.st = "off" /\ paid = {} /\ phase = "dns"
          /\ \A p \in AllPages : fetches[p].st = "off"
      BY NewFetches, Zenon DEF CrawlInit
    <3>3. QED
      BY <3>1, <3>2, Zenon DEF BillInv, PagesDue, HomeDue, Ok
  <2>5. QED
    BY <2>1, <2>2, <2>3, <2>4 DEF CrawlInv
<1>2. CrawlInv /\ [CrawlNext]_crawlVars => CrawlInv'
  BY FetchInvHolds, ChoiceInvHolds, ScratchInvHolds, BillInvHolds, ResultInvHolds DEF CrawlInv
<1>3. QED
  BY <1>1, <1>2, PTL DEF CrawlSpec

\* assign_status and _harvest: "found" comes with a best address that is among the
\* addresses listed, "no business email" hides none, and a result cut short by the
\* deadline asks for review, for any site and any answers.
THEOREM ResultsAreSound == CrawlSpec => []ResultSound
<1>1. CrawlInv => ResultSound
  BY Zenon DEF CrawlInv, ResultInv, GoodResult, ResultSound
<1>2. QED
  BY <1>1, CrawlInvariant, PTL

\* decide: no address TypeSafe judged as someone else's is the best one, whatever
\* TypeSafe answers.
THEOREM RejectedIsNeverBest == CrawlSpec => []RejectedNeverBest
<1>1. CrawlInv => RejectedNeverBest
  BY Zenon DEF CrawlInv, ResultInv, GoodResult, RejectedNeverBest
<1>2. QED
  BY <1>1, CrawlInvariant, PTL

\* Scratch, _process and _harvest: a result counts the usage of each fetch of its own
\* attempt at most once, of all of them when the attempt ran to its end, and lists and
\* cites only pages that came in it and are paid for, whatever was tried before.
THEOREM PagesAreAccountedFor == CrawlSpec => []ResultAccountsForPages
<1>1. CrawlInv => ResultAccountsForPages
  BY Zenon DEF CrawlInv, ResultInv, GoodResult, Accounted, Once, ResultAccountsForPages
<1>2. QED
  BY <1>1, CrawlInvariant, PTL

\* merge_pages, rank_candidates and rules_only: without TypeSafe the best address
\* is of the best class found on any page.
THEOREM RulesPickBest == CrawlSpec => []RulesPickTheBest
<1>1. CrawlInv => RulesPickTheBest
  BY Zenon DEF CrawlInv, ResultInv, RulesRight, RulesPickTheBest
<1>2. QED
  BY <1>1, CrawlInvariant, PTL

\* select: the pages fetched are, for any links and any limit, a choice that no
\* better link was passed over for.
THEOREM ChoiceIsRight == CrawlSpec => []ChoiceRight
<1>1. CrawlInv => ChoiceRight
  BY ChosenIsRight DEF CrawlInv, FetchInv, ChoiceInv, ChoiceRight
<1>2. QED
  BY <1>1, CrawlInvariant, PTL

-----------------------------------------------------------------------------
(* An attempt never goes back                                              *)

\* What the rungs of the ladder are.
Schemes == {"https", "https_www", "http"}

\* Where an attempt may be, and what runs there: robots.txt and the sitemap in the
\* first wave, pages in the other two, only the contact page in its own.
ForwardInv ==
  /\ IsFetch(home) /\ home.tries \in Nat
  /\ DOMAIN fetches = AllPages
  /\ \A p \in AllPages : IsFetch(fetches[p]) /\ fetches[p].tries \in Nat
  /\ rungs \in Seq(Schemes) /\ attempt \in Nat /\ posts \in Nat
  /\ phase \in Working \cup {"extract", "wait", "done", "raised", "crashed"}
  /\ phase = "wait" => attempt < MAX_ATTEMPTS
  /\ texts = "go" => phase = "wave1"
  /\ \A p \in AllPages : fetches[p].st = "go" =>
       /\ phase \in {"contact", "rest"}
       /\ phase = "contact" => p = selected[ContactIndex(selected)].url

\* The stages in numbers.
LEMMA StagesAre ==
  /\ Stage["dns"] = 1 /\ Stage["wave1"] = 2 /\ Stage["discover"] = 3 /\ Stage["contact"] = 4
  /\ Stage["rest"] = 5 /\ Stage["extract"] = 6 /\ Stage["judge"] = 7
  /\ Stage["wait"] = 8 /\ Stage["done"] = 8 /\ Stage["raised"] = 8
  /\ Stage["crashed"] = 8
BY DEF Stage

\* A later stage is a step forward.
LEMMA NextStage ==
  ASSUME attempt' = attempt,
         \/ phase = "dns" /\ phase' \in {"wave1", "wait", "done"}
         \/ phase = "wave1" /\ phase' \in {"discover", "wait", "done", "raised"}
         \/ phase = "discover" /\ phase' \in {"contact", "rest", "wait", "done"}
         \/ phase = "contact" /\ phase' \in {"rest", "wait", "done"}
         \/ phase = "rest" /\ phase' \in {"extract", "wait", "done"}
         \/ phase = "extract" /\ phase' \in {"judge", "wait", "done"}
         \/ phase = "judge" /\ phase' \in {"wait", "done"}
         \/ phase \in Working /\ phase' = "crashed"
  PROVE  Forward
<1>1. Stage[phase'] > Stage[phase]
  BY StagesAre DEF Working
<1>2. ~Ended
  BY Zenon DEF Ended, Working
<1>3. QED
  BY <1>1, <1>2, Zenon DEF Forward

\* A pass of the retry loop ends the fetch or uses up a retry.
LEMMA PassGoesOn ==
  ASSUME NEW f, IsFetch(f), f.tries \in Nat, f.st = "go", NEW r
  PROVE  /\ GoesOn(f, Pass(f, r))
         /\ Pass(f, r).st \in {"page", "empty", "error", "go"} /\ Pass(f, r).tries \in Nat
<1> DEFINE o == GetHtml(backend, r)
<1> HIDE DEF o
<1>1. Pass(f, r) = IF o.ok THEN [f EXCEPT !.st = IF Empty(r) THEN "empty" ELSE "page"]
                   ELSE IF retryable(o) /\ f.tries < RETRIES THEN [f EXCEPT !.tries = @ + 1]
                   ELSE [f EXCEPT !.st = "error", !.err = o]
  BY Zenon DEF Pass, o
<1>2. CASE Pass(f, r) = [f EXCEPT !.tries = @ + 1] /\ f.tries < RETRIES
  <2>1. Pass(f, r).tries = f.tries + 1 /\ Pass(f, r).st = "go"
    BY <1>2, Zenon DEF IsFetch
  <2>2. f.tries + 1 \in (f.tries + 1)..RETRIES /\ f.tries + 1 \in Nat
    BY <1>2, BoundsAssumption
  <2>3. QED
    BY <2>1, <2>2, Zenon DEF GoesOn
<1>3. CASE Pass(f, r) = [f EXCEPT !.st = "error", !.err = o]
  <2>1. Pass(f, r).tries = f.tries /\ Pass(f, r).st = "error"
    BY <1>3, Zenon DEF IsFetch
  <2>2. QED
    BY <2>1 DEF GoesOn
<1>4. CASE \E s \in {"page", "empty"} : Pass(f, r) = [f EXCEPT !.st = s]
  <2>1. Pass(f, r).tries = f.tries /\ Pass(f, r).st \in {"page", "empty"}
    BY <1>4, Zenon DEF IsFetch
  <2>2. QED
    BY <2>1 DEF GoesOn
<1>5. QED
  BY <1>1, <1>2, <1>3, <1>4, Zenon

\* The rungs of the ladder are a sequence.
LEMMA LadderIsOne == \A d : ladder_for(d) \in Seq(Schemes)
<1> SUFFICES ASSUME NEW d PROVE ladder_for(d) \in Seq(Schemes)
  OBVIOUS
<1> DEFINE I == {i \in DOMAIN HOMEPAGE_LADDER :
                   IF HOMEPAGE_LADDER[i] = "https_www" THEN d.www ELSE d.domain}
<1>1. HOMEPAGE_LADDER \in Seq(Schemes)
  <2>1. "https" \in Schemes /\ "https_www" \in Schemes /\ "http" \in Schemes
    BY Zenon DEF Schemes
  <2>2. ASSUME NEW S, NEW a \in S, NEW b \in S, NEW c \in S PROVE <<a, b, c>> \in Seq(S)
    OBVIOUS
  <2>3. QED
    BY <2>1, <2>2, Zenon DEF HOMEPAGE_LADDER
<1>2. I \in SUBSET (DOMAIN HOMEPAGE_LADDER)
  OBVIOUS
<1>3. ladder_for(d) \in {HOMEPAGE_LADDER, At(HOMEPAGE_LADDER, I)}
  BY Zenon DEF ladder_for
<1> HIDE DEF I
<1>4. At(HOMEPAGE_LADDER, I) \in Seq(Schemes)
  BY <1>1, <1>2, AtIsRight, Zenon
<1>5. QED
  BY <1>1, <1>3, <1>4, Zenon

\* An attempt that ends leaves nothing running.
LEMMA AttemptEnds ==
  ASSUME ForwardInv, NEW r, EndAttempt(r), phase \in Working \cup {"extract"},
         UNCHANGED <<attempt, home, rungs, posts>>, texts' # "go",
         fetches' = Idle \/ (fetches' = fetches /\ \A p \in AllPages : fetches[p].st # "go")
  PROVE  ForwardInv' /\ Forward
<1>1. phase' \in {"wait", "done"} /\ (phase' = "wait" => attempt < MAX_ATTEMPTS)
  BY Zenon DEF EndAttempt
<1>2. /\ DOMAIN fetches' = AllPages
      /\ \A p \in AllPages : /\ IsFetch(fetches'[p]) /\ fetches'[p].tries \in Nat
                             /\ fetches'[p].st # "go"
  BY NewFetches, Zenon DEF ForwardInv
<1>3. ForwardInv'
  BY <1>1, <1>2, Zenon DEF ForwardInv, IsFetch
<1>4. Forward
  BY <1>1, NextStage, Zenon DEF Working
<1>5. QED
  BY <1>3, <1>4

\* A step to a later stage of the same attempt, with the fetches of that stage.
LEMMA StageBegins ==
  ASSUME ForwardInv, Forward, UNCHANGED <<attempt, home, rungs, posts>>, texts' # "go",
         phase' \in Working \cup {"extract", "raised", "crashed"},
         DOMAIN fetches' = AllPages,
         \A p \in AllPages : /\ IsFetch(fetches'[p]) /\ fetches'[p].tries \in Nat
                             /\ fetches'[p].st = "go" =>
                                  /\ phase' \in {"contact", "rest"}
                                  /\ phase' = "contact" =>
                                       p = selected'[ContactIndex(selected')].url
  PROVE  ForwardInv'
BY Zenon DEF ForwardInv, IsFetch, Working

\* Every step of the crawl keeps the invariant and is a step forward.
LEMMA StepForward ==
  ASSUME ForwardInv, CrawlNext
  PROVE  ForwardInv' /\ Forward
<1> DEFINE Goal == ForwardInv' /\ Forward
<1>0. phase \notin {"contact", "rest"} => \A p \in AllPages : fetches[p].st # "go"
  BY Zenon DEF ForwardInv
<1>1. ASSUME NEW a \in BOOLEAN, NEW w \in BOOLEAN, Dns(a, w) PROVE Goal
  <2>1. phase = "dns" /\ texts # "go" /\ UNCHANGED <<attempt, fetches, posts, selected>>
    BY <1>1, Zenon DEF Dns, ForwardInv
  <2>2. CASE \E r : EndAttempt(r) /\ UNCHANGED <<home, rungs, texts>>
    BY <1>0, <2>1, <2>2, AttemptEnds, Zenon DEF Working
  <2>3. CASE /\ phase' = "wave1" /\ home' = NewFetch /\ rungs' = ladder_for(dns')
    <3>1. Forward
      BY <2>1, <2>3, NextStage, Zenon
    <3>2. ForwardInv'
      <4>1. IsFetch(home') /\ home'.tries \in Nat /\ rungs' \in Seq(Schemes)
        BY <2>3, NewFetches, LadderIsOne
      <4>2. QED
        BY <1>0, <2>1, <2>3, <4>1, Zenon DEF ForwardInv, IsFetch, Working
    <3>3. QED
      BY <3>1, <3>2, Zenon
  <2>4. QED
    BY <1>1, <2>2, <2>3, Zenon DEF Dns
<1>2. ASSUME NEW r \in Answers, HomeAnswer(r) PROVE Goal
  <2>1. /\ phase = "wave1" /\ home.st = "go" /\ Ladder(Pass(home, r))
        /\ UNCHANGED <<attempt, phase, texts, fetches, posts, selected>>
    BY <1>2, Zenon DEF HomeAnswer
  <2>2. /\ GoesOn(home, Pass(home, r)) /\ IsFetch(Pass(home, r)) /\ Pass(home, r).tries \in Nat
    BY <2>1, PassGoesOn, PassIsFetch, Zenon DEF ForwardInv
  <2>3. rungs \in Seq(Schemes)
    BY Zenon DEF ForwardInv
  <2>4. /\ IsFetch(home') /\ home'.tries \in Nat /\ rungs' \in Seq(Schemes)
        /\ Len(rungs') < Len(rungs) \/ (GoesOn(home, home') /\ UNCHANGED rungs)
    <3>1. CASE home' = NewFetch /\ rungs' = Tail(rungs) /\ Len(rungs) > 1
      <4>1. Tail(rungs) \in Seq(Schemes) /\ Len(Tail(rungs)) < Len(rungs)
        BY <2>3, <3>1
      <4>2. QED
        BY <3>1, <4>1, NewFetches
    <3>2. CASE home' = Pass(home, r) /\ UNCHANGED rungs
      BY <2>2, <2>3, <3>2, Zenon
    <3>3. QED
      BY <2>1, <3>1, <3>2, Zenon DEF Ladder
  <2>5. Forward
    BY <2>1, <2>4, Zenon DEF Forward, Ended
  <2>6. ForwardInv'
    BY <2>1, <2>4, Zenon DEF ForwardInv, IsFetch
  <2>7. QED
    BY <2>5, <2>6, Zenon
<1>3. ASSUME NEW r \in Answers, TextAnswer(r) PROVE Goal
  <2>1. /\ texts = "go" /\ texts' # "go" /\ phase = "wave1"
        /\ UNCHANGED <<attempt, phase, home, rungs, fetches, posts, selected>>
    BY <1>3, Zenon DEF TextAnswer, ForwardInv
  <2>2. Forward
    BY <2>1, Zenon DEF Forward, Ended
  <2>3. ForwardInv'
    BY <2>1, Zenon DEF ForwardInv, IsFetch
  <2>4. QED
    BY <2>2, <2>3, Zenon
<1>4. ASSUME NEW r \in Answers, NEW p \in AllPages, PageAnswer(p, r) PROVE Goal
  <2> DEFINE g == [Pass(fetches[p], r) EXCEPT !.err = FetchResult]
  <2>1. /\ fetches[p].st = "go" /\ fetches' = [fetches EXCEPT ![p] = g]
        /\ UNCHANGED <<attempt, phase, home, rungs, texts, posts, selected>>
    BY <1>4, Zenon DEF PageAnswer
  <2>2. /\ phase \in {"contact", "rest"} /\ IsFetch(fetches[p]) /\ fetches[p].tries \in Nat
        /\ DOMAIN fetches = AllPages
    BY <2>1, Zenon DEF ForwardInv
  <2>3. /\ GoesOn(fetches[p], Pass(fetches[p], r)) /\ IsFetch(Pass(fetches[p], r))
        /\ Pass(fetches[p], r).tries \in Nat
    BY <2>1, <2>2, PassGoesOn, PassIsFetch, Zenon
  <2>4. IsFetch(g) /\ g.st = Pass(fetches[p], r).st /\ g.tries = Pass(fetches[p], r).tries
    <3> DEFINE f == Pass(fetches[p], r)
    <3>1. f = [st |-> f.st, tries |-> f.tries, err |-> f.err] /\ g = [f EXCEPT !.err = FetchResult]
      BY <2>3, Zenon DEF IsFetch
    <3> HIDE DEF f, g
    <3>2. g = [st |-> f.st, tries |-> f.tries, err |-> FetchResult]
      BY <3>1
    <3>3. IsFetch(g) /\ g.st = f.st /\ g.tries = f.tries
      BY <3>2 DEF IsFetch
    <3>4. QED
      BY <3>3, Zenon DEF f
  <2> HIDE DEF g
  <2>5. /\ fetches'[p] = g /\ DOMAIN fetches' = AllPages
        /\ \A q \in AllPages : q # p => fetches'[q] = fetches[q]
    BY <2>1, <2>2, Zenon
  <2>6. GoesOn(fetches[p], fetches'[p])
    BY <2>3, <2>4, <2>5, Zenon DEF GoesOn
  <2>7. Forward
    BY <2>1, <2>2, <2>5, <2>6, Zenon DEF Forward, Ended
  <2>8. \A q \in AllPages : /\ IsFetch(fetches'[q]) /\ fetches'[q].tries \in Nat
                            /\ fetches'[q].st = "go" => fetches[q].st = "go"
    BY <2>1, <2>3, <2>4, <2>5, Zenon DEF ForwardInv
  <2>9. ForwardInv'
    BY <2>1, <2>5, <2>8, Zenon DEF ForwardInv, IsFetch
  <2>10. QED
    BY <2>7, <2>9, Zenon
<1>5. CASE Again
  <2>1. /\ phase = "wait" /\ attempt' = attempt + 1 /\ phase' = "dns" /\ home' = NoFetch
        /\ rungs' = <<>> /\ texts' = "off" /\ fetches' = Idle /\ posts' = 0
    BY <1>5, Zenon DEF Again
  <2>2. attempt' \in Nat /\ attempt' <= MAX_ATTEMPTS /\ rungs' \in Seq(Schemes) /\ posts' \in Nat
    BY <2>1, BoundsAssumption DEF ForwardInv
  <2>3. Forward
    BY <2>1, <2>2, Zenon DEF Forward, Ended
  <2>4. IsFetch(home') /\ home'.tries \in Nat
    BY <2>1, NewFetches
  <2>5. ForwardInv'
    BY <2>1, <2>2, <2>4, NewFetches, Zenon DEF ForwardInv, IsFetch, Working
  <2>6. QED
    BY <2>3, <2>5, Zenon
<1>6. CASE Wave1Done
  <2>1. phase = "wave1" /\ texts # "go" /\ UNCHANGED <<attempt, home, rungs, texts, fetches, posts>>
    BY <1>6, Zenon DEF Wave1Done
  <2>2. CASE \E r : EndAttempt(r)
    BY <1>0, <2>1, <2>2, AttemptEnds, Zenon DEF Working
  <2>3. CASE phase' \in {"raised", "discover"}
    <3>1. Forward
      BY <2>1, <2>3, NextStage, Zenon
    <3>2. ForwardInv'
      BY <1>0, <2>1, <2>3, Zenon DEF ForwardInv, IsFetch, Working
    <3>3. QED
      BY <3>1, <3>2, Zenon
  <2>4. QED
    BY <1>6, <2>2, <2>3, Zenon DEF Wave1Done
<1>7. CASE InternalError
  <2>1. /\ phase \in {"discover", "extract", "judge", "contact", "wave1"}
        /\ UNCHANGED <<attempt, home, rungs, texts, fetches, posts>>
        /\ EndAttempt(Failed("internal_error"))
    BY <1>7, Zenon DEF InternalError
  <2>2. texts # "go"
    BY <1>7, Zenon DEF InternalError, ForwardInv
  <2>3. \A p \in AllPages : fetches[p].st # "go"
    <3>1. phase = "contact" => fetches[selected[ContactIndex(selected)].url].st # "go"
      BY <1>7, Zenon DEF InternalError, Back, Ok
    <3>2. QED
      BY <1>0, <2>1, <3>1, Zenon DEF ForwardInv
  <2>4. QED
    BY <2>1, <2>2, <2>3, AttemptEnds, Zenon DEF Working
<1>8. CASE CircuitOpen
  BY <1>8, AttemptEnds, Zenon DEF CircuitOpen, Open, Working
<1>9. ASSUME NEW n \in 0..Len(site.mapped), Discover(n) PROVE Goal
  <2> DEFINE c == ContactIndex(Chosen(n))
             I == IF c = 0 THEN Rest(Chosen(n)) ELSE {c}
  <2>1. /\ phase = "discover" /\ selected' = Chosen(n) /\ fetches' = Launch(I, Chosen(n))
        /\ phase' = IF c = 0 THEN "rest" ELSE "contact"
        /\ UNCHANGED <<attempt, home, rungs, texts, posts>>
    BY <1>9, Zenon DEF Discover
  <2>2. phase' = "contact" => I = {ContactIndex(selected')}
    BY <2>1, Zenon
  <2>3. phase' \in {"rest", "contact"}
    BY <2>1, Zenon
  <2> HIDE DEF I, c
  <2>4. Forward
    BY <2>1, <2>3, NextStage, Zenon
  <2>5. texts' # "go"
    BY <2>1, Zenon DEF ForwardInv
  <2>6. \A p \in AllPages : /\ IsFetch(fetches'[p]) /\ fetches'[p].tries \in Nat
                            /\ fetches'[p].st = "go" => \E i \in I : selected'[i].url = p
    <3>1. \A p \in AllPages :
            /\ IsFetch(Launch(I, Chosen(n))[p]) /\ Launch(I, Chosen(n))[p].tries \in Nat
            /\ Launch(I, Chosen(n))[p].st = "go" => \E i \in I : Chosen(n)[i].url = p
      BY LaunchIs
    <3>2. QED
      BY <2>1, <3>1
  <2>7. ForwardInv'
    BY <2>1, <2>2, <2>3, <2>4, <2>5, <2>6, LaunchIs, StageBegins, Zenon DEF Working
  <2>8. QED
    BY <2>4, <2>7, Zenon
<1>10. CASE ContactDone
  <2>1. /\ phase = "contact" /\ phase' = "rest"
        /\ fetches' = Idle \/ fetches' = Launch(Rest(selected), selected)
        /\ UNCHANGED <<attempt, home, rungs, texts, posts, selected>>
    BY <1>10, Zenon DEF ContactDone
  <2>2. Forward
    BY <2>1, NextStage, Zenon
  <2>3. texts' # "go"
    BY <2>1, Zenon DEF ForwardInv
  <2>4. /\ DOMAIN fetches' = AllPages
        /\ \A p \in AllPages : IsFetch(fetches'[p]) /\ fetches'[p].tries \in Nat
    <3>1. CASE fetches' = Idle
      BY <3>1, NewFetches, Zenon
    <3>2. CASE fetches' = Launch(Rest(selected), selected)
      BY <3>2, LaunchIs, Zenon
    <3>3. QED
      BY <2>1, <3>1, <3>2, Zenon
  <2>5. ForwardInv'
    BY <2>1, <2>2, <2>3, <2>4, StageBegins, Zenon DEF Working
  <2>6. QED
    BY <2>2, <2>5, Zenon
<1>11. CASE RestDone
  <2>1. /\ phase = "rest" /\ phase' = "extract" /\ fetches' = Idle
        /\ UNCHANGED <<attempt, home, rungs, texts, posts>>
    BY <1>11, Zenon DEF RestDone
  <2>2. Forward
    BY <2>1, NextStage, Zenon
  <2>3. ForwardInv'
    <3>1. texts' # "go"
      BY <2>1, Zenon DEF ForwardInv
    <3>2. QED
      BY <2>1, <2>2, <3>1, NewFetches, StageBegins, Zenon
  <2>4. QED
    BY <2>2, <2>3, Zenon
<1>12. CASE Extract
  <2>1. /\ phase = "extract" /\ phase' = "judge"
        /\ UNCHANGED <<attempt, home, rungs, texts, fetches, posts>>
    BY <1>12, Zenon DEF Extract
  <2>2. Forward
    BY <2>1, NextStage, Zenon
  <2>3. ForwardInv'
    BY <1>0, <2>1, Zenon DEF ForwardInv, IsFetch, Working
  <2>4. QED
    BY <2>2, <2>3, Zenon
<1>13. ASSUME phase = "judge", JudgeUnchanged, UNCHANGED posts, NEW r, EndAttempt(r) PROVE Goal
  <2>1. texts # "go" /\ UNCHANGED <<attempt, home, rungs, texts, fetches>>
    BY <1>13, Zenon DEF JudgeUnchanged, ForwardInv
  <2>2. QED
    BY <1>0, <1>13, <2>1, AttemptEnds, Zenon DEF Working
<1>14. CASE JudgeByRules
  BY <1>13, <1>14, Zenon DEF JudgeByRules, Harvest
<1>15. ASSUME NEW final \in BOOLEAN, JudgeFails(final) PROVE Goal
  <2>1. CASE /\ posts' = posts + 1 /\ ~(posts >= JUDGE_RETRIES) /\ UNCHANGED phase
             /\ phase = "judge" /\ JudgeUnchanged
    <3>1. posts' \in (posts + 1)..JUDGE_RETRIES /\ posts' \in Nat
      BY <2>1, BoundsAssumption DEF ForwardInv
    <3>2. UNCHANGED <<attempt, phase, home, rungs, texts, fetches, selected>>
      BY <2>1, Zenon DEF JudgeUnchanged
    <3>3. Forward
      BY <2>1, <3>1, <3>2, Zenon DEF Forward, Ended
    <3>4. ForwardInv'
      BY <3>1, <3>2, Zenon DEF ForwardInv, IsFetch
    <3>5. QED
      BY <3>3, <3>4, Zenon
  <2>2. QED
    BY <1>13, <1>15, <2>1, Zenon DEF JudgeFails, Harvest
<1>16. ASSUME NEW v \in Verdicts, JudgeAnswers(v) PROVE Goal
  BY <1>13, <1>16, Zenon DEF JudgeAnswers, Harvest
<1>17. CASE Deadline
  <2>1. /\ phase \in Working /\ ((\E r : EndAttempt(r)) \/ phase' = "crashed")
        /\ fetches' = Idle /\ texts' = "off" /\ UNCHANGED <<attempt, home, rungs, posts>>
    BY <1>17, Zenon DEF Deadline, Harvest
  <2>2. CASE \E r : EndAttempt(r)
    BY <2>1, <2>2, AttemptEnds, Zenon
  <2>3. CASE phase' = "crashed"
    <3>1. Forward
      BY <2>1, <2>3, NextStage, Zenon
    <3>2. ForwardInv'
      BY <2>1, <2>3, <3>1, NewFetches, StageBegins, Zenon
    <3>3. QED
      BY <3>1, <3>2, Zenon
  <2>4. QED
    BY <2>1, <2>2, <2>3, Zenon
<1>18. QED
  BY <1>1, <1>2, <1>3, <1>4, <1>5, <1>6, <1>7, <1>8, <1>9, <1>10, <1>11, <1>12, <1>14, <1>15,
     <1>16, <1>17, Zenon DEF CrawlNext

\* process_domain never goes back: for any site and any answers, each step uses up an
\* attempt, a stage, a rung, a retry, a fetch or a request to TypeSafe.  That is the
\* safety half of ProcessEnds; that some step is always taken is left to its run.
THEOREM CrawlNeverGoesBack == CrawlSpec => NeverBack
<1>1. CrawlInit => ForwardInv
  <2> SUFFICES ASSUME CrawlInit PROVE ForwardInv
    BY Zenon
  <2>1. /\ phase = "dns" /\ home = NoFetch /\ texts = "off" /\ fetches = Idle
        /\ rungs = <<>> /\ attempt = 1 /\ posts = 0
    BY Zenon DEF CrawlInit
  <2>2. /\ IsFetch(home) /\ home.tries \in Nat
        /\ rungs \in Seq(Schemes) /\ attempt \in Nat /\ posts \in Nat
    BY <2>1, NewFetches
  <2>3. QED
    BY <2>1, <2>2, NewFetches, Zenon DEF ForwardInv, Working
<1>2. ForwardInv /\ [CrawlNext]_crawlVars => ForwardInv' /\ [Forward]_crawlVars
  <2> SUFFICES ASSUME ForwardInv, [CrawlNext]_crawlVars
               PROVE  ForwardInv' /\ [Forward]_crawlVars
    BY Zenon
  <2>1. CASE CrawlNext
    BY <2>1, StepForward, Zenon
  <2>2. CASE UNCHANGED crawlVars
    BY <2>2, Zenon DEF crawlVars, ForwardInv, IsFetch
  <2>3. QED
    BY <2>1, <2>2, Zenon
<1>3. QED
  BY <1>1, <1>2, PTL DEF CrawlSpec, NeverBack

-----------------------------------------------------------------------------
(* Reading the sitemaps                                                    *)

\* One element makes a sequence.
LEMMA OneIsASequence ==
  ASSUME NEW S, NEW x \in S
  PROVE  <<>> \in Seq(S) /\ <<x>> \in Seq(S)
  OBVIOUS

\* The documents of one level, with their depth.
LEMMA LevelIsRight ==
  ASSUME NEW S, NEW docs \in Seq(S), NEW T, NEW depth \in T
  PROVE  Level(docs, depth) \in Seq(S \X T)
<1>1. Len(docs) \in Nat /\ DOMAIN docs = 1..Len(docs)
  OBVIOUS
<1>2. Level(docs, depth) \in [1..Len(docs) -> S \X T]
  BY <1>1 DEF Level
<1>3. QED
  BY <1>1, <1>2, FunctionIsSequence, Zenon

\* What a document lists of its own site is of its own site.
LEMMA OwnUrlsAreOwn ==
  ASSUME NEW d \in DOMAIN Doc
  PROVE  /\ own_urls(d) \in Seq(DOMAIN Doc)
         /\ \A k \in DOMAIN own_urls(d) : Owned(own_urls(d)[k])
<1> DEFINE s == Doc[d].lists
           I == {i \in DOMAIN s : Owned(s[i])}
<1>1. s \in Seq(DOMAIN Doc)
  BY WalkAssumption, Zenon
<1>2. own_urls(d) = At(s, I)
  BY Zenon DEF own_urls
<1>3. I \in SUBSET DOMAIN s /\ \A i \in I : Owned(s[i])
  BY SMTT(30)
<1> HIDE DEF s, I
<1>4. /\ IsFiniteSet(I) /\ I \in SUBSET Nat
      /\ At(s, I) \in Seq(DOMAIN Doc) /\ Len(At(s, I)) = Cardinality(I)
      /\ \A k \in 1..Cardinality(I) : At(s, I)[k] = s[Places(I)[k]]
  BY <1>1, <1>3, AtIsRight
<1>5. Places(I) \in [1..Cardinality(I) -> I]
  BY <1>4, PlacesAreRight, Zenon
<1>6. ASSUME NEW k \in DOMAIN At(s, I) PROVE Owned(At(s, I)[k])
  <2>1. k \in 1..Cardinality(I)
    BY <1>4
  <2>2. At(s, I)[k] = s[Places(I)[k]] /\ Places(I)[k] \in I
    BY <1>4, <1>5, <2>1
  <2>3. QED
    BY <1>3, <2>2, Zenon
<1>7. QED
  BY <1>2, <1>4, <1>6, Zenon

\* The children of a sitemap index are documents.
LEMMA ChildrenAreDocuments ==
  ASSUME NEW s \in Seq(DOMAIN Doc)
  PROVE  order_children(s) \in Seq(DOMAIN Doc) /\ parse_sitemaps(s) \in Seq(DOMAIN Doc)
<1>1. \A I \in SUBSET DOMAIN s : At(s, I) \in Seq(DOMAIN Doc)
  BY AtIsRight, Zenon
<1> DEFINE keep == {i \in DOMAIN s : ~Doc[s[i]].excluded}
           I == {i \in keep : Doc[s[i]].preferred}
           J == {i \in keep : ~Doc[s[i]].preferred}
           K == {i \in DOMAIN s : Owned(s[i]) /\ \A k \in 1..(i - 1) : s[k] # s[i]}
<1>2. I \in SUBSET DOMAIN s /\ J \in SUBSET DOMAIN s /\ K \in SUBSET DOMAIN s
  OBVIOUS
<1>3. order_children(s) = At(s, I) \o At(s, J)
  BY Zenon DEF order_children
<1>4. parse_sitemaps(s) = Take(At(s, K), MAX_SITEMAPS)
  BY Zenon DEF parse_sitemaps
<1> HIDE DEF I, J, K
<1>5. At(s, I) \in Seq(DOMAIN Doc) /\ At(s, J) \in Seq(DOMAIN Doc) /\ At(s, K) \in Seq(DOMAIN Doc)
  BY <1>1, <1>2, Zenon
<1>6. order_children(s) \in Seq(DOMAIN Doc)
  BY <1>3, <1>5
<1>7. MAX_SITEMAPS \in Nat
  BY WalkAssumption, Zenon
<1>8. parse_sitemaps(s) \in Seq(DOMAIN Doc)
  BY <1>4, <1>5, <1>7, TakeIsRight
<1>9. QED
  BY <1>6, <1>8, Zenon

\* A document with the depth it was listed at.
Listed == (DOMAIN Doc) \X (0..MAX_DEPTH)

\* What was read was counted and remembered.
WalkInv ==
  /\ walkQueue \in Seq(Listed) /\ walkTexts \in Seq(Listed)
  /\ walkRead \in Seq(Listed)
  /\ walkBudget \in Nat /\ walkBudget + Len(walkRead) = MAX_SITEMAP_DOCS
  /\ \A i \in DOMAIN walkRead : walkRead[i][1] \in walkSeen /\ Owned(walkRead[i][1])
  /\ \A i, k \in DOMAIN walkRead : walkRead[i][1] = walkRead[k][1] => i = k
  /\ walkPages \in Seq(DOMAIN Doc) /\ Len(walkPages) <= MAX_URLS
  /\ \A i \in DOMAIN walkPages : Owned(walkPages[i])

\* The walk starts with nothing read.
LEMMA WalkStarts == WalkInit => WalkInv
<1> SUFFICES ASSUME WalkInit PROVE WalkInv
  OBVIOUS
<1>1. 0 \in 0..MAX_DEPTH /\ Root \in DOMAIN Doc /\ Robots \in Seq(DOMAIN Doc)
      /\ MAX_SITEMAP_DOCS \in Nat /\ MAX_URLS \in Nat
  BY WalkAssumption
<1>2. walkQueue \in Seq(Listed)
  BY <1>1, ChildrenAreDocuments, LevelIsRight, Zenon DEF WalkInit, Listed
<1>3. <<Root, 0>> \in Listed
  BY <1>1 DEF Listed
<1>4. walkTexts \in Seq(Listed)
  <2>1. <<>> \in Seq(Listed) /\ <<<<Root, 0>>>> \in Seq(Listed)
    BY <1>3, OneIsASequence, Zenon
  <2>2. QED
    BY <2>1, Zenon DEF WalkInit
<1>5. QED
  BY <1>1, <1>2, <1>4 DEF WalkInit, WalkInv

\* Looking into a document that was read adds pages and children of the site only.
LEMMA LookKeepsWalkInv ==
  ASSUME WalkInv, Look
  PROVE  WalkInv'
<1> DEFINE d == Head(walkTexts)[1]
           depth == Head(walkTexts)[2]
           own == own_urls(d)
           pages == Take(walkPages \o own, MAX_URLS)
           children == Take(order_children(own), MAX_CHILDREN)
<1>1. Head(walkTexts) \in Listed /\ Tail(walkTexts) \in Seq(Listed)
  BY DEF WalkInv, Look
<1>2. d \in DOMAIN Doc /\ depth \in 0..MAX_DEPTH
  BY <1>1, Zenon DEF Listed
<1>3. own \in Seq(DOMAIN Doc) /\ \A k \in DOMAIN own : Owned(own[k])
  BY <1>2, OwnUrlsAreOwn, Zenon
<1>4. /\ walkTexts' = Tail(walkTexts) /\ UNCHANGED <<walkSeen, walkBudget, walkRead>>
      /\ \/ UNCHANGED <<walkQueue, walkPages>>
         \/ /\ depth < MAX_DEPTH /\ walkQueue' = walkQueue \o Level(children, depth + 1)
            /\ UNCHANGED walkPages
         \/ walkPages' = pages /\ UNCHANGED walkQueue
  BY <1>2, WalkAssumption DEF Look
<1> HIDE DEF d, depth, own
<1>5. depth < MAX_DEPTH => Level(children, depth + 1) \in Seq(Listed)
  <2>1. children \in Seq(DOMAIN Doc)
    BY <1>3, ChildrenAreDocuments, TakeIsRight, WalkAssumption, Zenon
  <2> HIDE DEF children
  <2>2. depth < MAX_DEPTH => depth + 1 \in 0..MAX_DEPTH
    BY <1>2, WalkAssumption
  <2>3. QED
    BY <2>1, <2>2, LevelIsRight, Zenon DEF Listed
<1> HIDE DEF children
<1>6. /\ pages \in Seq(DOMAIN Doc) /\ Len(pages) <= MAX_URLS
      /\ \A i \in DOMAIN pages : Owned(pages[i])
  <2> DEFINE all == walkPages \o own
  <2>1. all \in Seq(DOMAIN Doc) /\ \A i \in DOMAIN all : Owned(all[i])
    BY <1>3, SMTT(30) DEF WalkInv
  <2> HIDE DEF all
  <2>2. /\ Take(all, MAX_URLS) \in Seq(DOMAIN Doc) /\ Len(Take(all, MAX_URLS)) <= MAX_URLS
        /\ \A i \in DOMAIN Take(all, MAX_URLS) : i \in DOMAIN all /\ Take(all, MAX_URLS)[i] = all[i]
    BY <2>1, TakeIsRight, WalkAssumption
  <2>3. QED
    BY <2>1, <2>2, Zenon DEF all
<1> HIDE DEF pages
<1>7. walkQueue' \in Seq(Listed)
  <2>1. walkQueue \in Seq(Listed)
    BY Zenon DEF WalkInv
  <2>2. CASE walkQueue' = walkQueue
    BY <2>1, <2>2, Zenon
  <2>3. CASE depth < MAX_DEPTH /\ walkQueue' = walkQueue \o Level(children, depth + 1)
    BY <1>5, <2>1, <2>3, RangeOfBoth, Zenon
  <2>4. QED
    BY <1>4, <2>2, <2>3, Zenon
<1>8. /\ walkPages' \in Seq(DOMAIN Doc) /\ Len(walkPages') <= MAX_URLS
      /\ \A i \in DOMAIN walkPages' : Owned(walkPages'[i])
  BY <1>4, <1>6 DEF WalkInv
<1>9. Listed' = Listed
  BY SMTT(30) DEF Listed
<1>10. QED
  BY <1>1, <1>4, <1>7, <1>8, <1>9, Zenon DEF WalkInv, Owned

\* Reading a document takes it from the budget, and none is read twice.
LEMMA ReadKeepsWalkInv ==
  ASSUME WalkInv, NEW blank \in BOOLEAN, Read(blank)
  PROVE  WalkInv'
<1> DEFINE h == Head(walkQueue)
<1>1. h \in Listed /\ Tail(walkQueue) \in Seq(Listed)
  BY DEF WalkInv, Read
<1>2. h[1] \notin walkSeen /\ Owned(h[1])
  BY Zenon DEF Read, Skippable
<1>3. /\ walkQueue' = Tail(walkQueue) /\ walkSeen' = walkSeen \cup {h[1]}
      /\ walkBudget' = walkBudget - 1 /\ walkBudget > 0 /\ walkRead' = Append(walkRead, h)
      /\ walkTexts' \in {<<>>, <<h>>} /\ UNCHANGED walkPages
  BY Zenon DEF Read
<1> HIDE DEF h
<1>4. walkRead \in Seq(Listed) /\ walkBudget \in Nat /\ MAX_SITEMAP_DOCS \in Nat
  BY WalkAssumption, Zenon DEF WalkInv
<1>5. /\ walkRead' \in Seq(Listed) /\ Len(walkRead') = Len(walkRead) + 1
      /\ \A i \in DOMAIN walkRead' : \/ i \in DOMAIN walkRead /\ walkRead'[i] = walkRead[i]
                                     \/ i = Len(walkRead) + 1 /\ walkRead'[i] = h
  BY <1>1, <1>3, <1>4
<1>6. walkBudget' \in Nat /\ walkBudget' + Len(walkRead') = MAX_SITEMAP_DOCS
  <2>1. Len(walkRead) \in Nat
    BY <1>4
  <2>2. walkBudget + Len(walkRead) = MAX_SITEMAP_DOCS
    BY Zenon DEF WalkInv
  <2>3. QED
    BY ONLY <1>3, <1>4, <1>5, <2>1, <2>2
<1>7. \A i \in DOMAIN walkRead' : walkRead'[i][1] \in walkSeen' /\ Owned(walkRead'[i][1])
  BY <1>2, <1>3, <1>5, Zenon DEF WalkInv
<1>8. ASSUME NEW i \in DOMAIN walkRead', NEW k \in DOMAIN walkRead',
             walkRead'[i][1] = walkRead'[k][1]
      PROVE  i = k
  BY <1>2, <1>5, <1>8 DEF WalkInv
<1>9. walkTexts' \in Seq(Listed)
  BY <1>1, <1>3, OneIsASequence, Zenon
<1>10. QED
  BY <1>1, <1>3, <1>5, <1>6, <1>7, <1>8, <1>9, Zenon DEF WalkInv, Listed, Owned

\* The walk through a site's sitemaps is bounded, whatever they list
\* (collect_sitemap_urls).
THEOREM SitemapWalkIsBounded == WalkSpec => []WalkBounded
<1>1. WalkInv /\ [WalkNext]_walkVars => WalkInv'
  <2> SUFFICES ASSUME WalkInv, [WalkNext]_walkVars PROVE WalkInv'
    BY Zenon
  <2>1. CASE Look
    BY <2>1, LookKeepsWalkInv, Zenon
  <2>2. CASE Skip
    BY <2>2, SMTT(30) DEF Skip, WalkInv, Listed, Owned
  <2>3. CASE WalkEnds
    BY <2>3, Zenon DEF WalkEnds, WalkInv, Listed, Owned
  <2>4. ASSUME NEW blank \in BOOLEAN, Read(blank) PROVE WalkInv'
    BY <2>4, ReadKeepsWalkInv, Zenon
  <2>5. CASE UNCHANGED walkVars
    BY <2>5, Zenon DEF walkVars, WalkInv, Listed, Owned
  <2>6. QED
    BY <2>1, <2>2, <2>3, <2>4, <2>5, Zenon DEF WalkNext
<1>2. WalkInv => WalkBounded
  <2> SUFFICES ASSUME WalkInv PROVE WalkBounded
    BY Zenon
  <2>1. Len(walkRead) <= MAX_SITEMAP_DOCS
    BY WalkAssumption DEF WalkInv
  <2>2. ASSUME NEW i \in DOMAIN walkRead PROVE walkRead[i][2] <= MAX_DEPTH
    <3>1. walkRead[i] \in Listed
      BY DEF WalkInv
    <3>2. QED
      BY <3>1, WalkAssumption DEF Listed
  <2>3. QED
    BY <2>1, <2>2, Zenon DEF WalkInv, WalkBounded
<1>3. QED
  BY <1>1, <1>2, WalkStarts, PTL DEF WalkSpec

==============================================================================
