------------------------------ MODULE Judgment ------------------------------
(***************************************************************************)
(* From fetched pages to one answer: the addresses found on each page are  *)
(* merged and ranked, TypeSafe may judge them, and the result's status is  *)
(* assigned.  A page is [url, score, finds, cf, form]; finds is the        *)
(* sequence of (address, method) the scan of the page meets, in order, and *)
(* cf the addresses Cloudflare had encoded.  Traits says of an address     *)
(* whether it is dropped, the site's own, a role inbox or free mail.       *)
(***************************************************************************)
EXTENDS Integers, Sequences, FiniteSets, Functions, Ordering

CONSTANTS Traits,               \* [address -> [drop, own, role, free]]
          MAX_CANDIDATES, MAX_JUDGE_CANDIDATES

None == "none"                  \* no address, and TypeSafe's choice "none"
NoPage == -1                    \* no URL (URLs are numbers)

\* "none" is no address.
ASSUME AddressAssumption == None \notin DOMAIN Traits

METHOD_PRECEDENCE == <<"mailto", "jsonld", "cloudflare", "text", "attribute", "script">>

Precedence(m) == CHOOSE i \in DOMAIN METHOD_PRECEDENCE : METHOD_PRECEDENCE[i] = m

\* The method of M with the highest precision.
BestMethod(M) == CHOOSE m \in M : \A n \in M : Precedence(m) <= Precedence(n)

\* PAGE_ORDER keeps the addresses of two pages apart in the order of appearance.
PAGE_ORDER == 10000

FindRecord == [email : DOMAIN Traits, method : Range(METHOD_PRECEDENCE)]
FindSeq == {f \in Seq(FindRecord) : Len(f) < PAGE_ORDER}

-----------------------------------------------------------------------------
(* Extraction and merging                                                  *)

MethodOf(page, f) ==
  IF f.email \in page.cf /\ f.method \in {"text", "mailto", "attribute", "script"}
  THEN "cloudflare" ELSE f.method

\* One candidate per address of a page, numbered by first appearance.
extract_page(page) ==
  LET at(e) == {i \in DOMAIN page.finds : page.finds[i].email = e}
      first(e) == CHOOSE i \in at(e) : \A k \in at(e) : i <= k
  IN  {[email |-> e,
        method |-> BestMethod({MethodOf(page, page.finds[i]) : i \in at(e)}),
        order |-> Cardinality({page.finds[i].email : i \in 1..first(e)})] :
         e \in {page.finds[i].email : i \in DOMAIN page.finds}}

\* One candidate per address of all pages: best method, every source page,
\* and the order of its first appearance.
merge_pages(pages) ==
  LET found == [i \in DOMAIN pages |-> extract_page(pages[i])]
      on(e) == {i \in DOMAIN pages : \E c \in found[i] : c.email = e}
      cand(i, e) == CHOOSE c \in found[i] : c.email = e
      first(e) == CHOOSE i \in on(e) : \A k \in on(e) : i <= k
  IN  {[email |-> e,
        method |-> BestMethod({cand(i, e).method : i \in on(e)}),
        sources |-> {pages[i].url : i \in on(e)},
        order |-> (first(e) - 1) * PAGE_ORDER + cand(first(e), e).order] :
         e \in UNION {{c.email : c \in found[i]} : i \in DOMAIN pages}}

-----------------------------------------------------------------------------
(* Ranking                                                                 *)

should_drop(e) == Traits[e].drop

\* 1 own person, 2 own role inbox, 3 free mail, 4 anyone else's.
classify(e) ==
  IF Traits[e].own /\ ~Traits[e].role THEN 1
  ELSE IF Traits[e].own THEN 2
  ELSE IF Traits[e].free THEN 3
  ELSE 4

\* page_scores: of two pages with one final URL the later one's score counts.
PageScore(pages, url) ==
  LET at == {i \in DOMAIN pages : pages[i].url = url}
  IN  IF at = {} THEN 0 ELSE pages[CHOOSE i \in at : \A k \in at : k <= i].score

best_page_score(pages, c) ==
  LET S == {PageScore(pages, u) : u \in c.sources}
  IN  IF S = {} THEN 0 ELSE CHOOSE s \in S : \A t \in S : t <= s

\* Mutated: the page counts more than whose address it is.
RankKeyPageFirst(pages, c) ==
  <<-best_page_score(pages, c), classify(c.email),
    IF c.method \in {"mailto", "jsonld"} THEN 0 ELSE 1, c.order>>

RankKey(pages, c) ==
  <<classify(c.email), IF c.method \in {"mailto", "jsonld"} THEN 0 ELSE 1,
    -best_page_score(pages, c), c.order>>

KeyLess(a, b) ==
  \E i \in DOMAIN a : a[i] < b[i] /\ \A k \in 1..(i - 1) : a[k] = b[k]

rank_candidates(pages) ==
  LET kept == {c \in merge_pages(pages) : ~should_drop(c.email)}
      key == [c \in kept |-> RankKey(pages, c)]
      sorted == Sorted(kept, {p \in kept \X kept : KeyLess(key[p[1]], key[p[2]])})
  IN  Take(sorted, MAX_CANDIDATES)

rules_best(ranked) == IF ranked = <<>> THEN None ELSE ranked[1].email

\* The highest-scored page with a contact form; of equals the earliest.
pick_contact_form_url(pages) ==
  LET with == {i \in DOMAIN pages : pages[i].form}
      best == {i \in with : \A k \in with :
                 \/ pages[k].score < pages[i].score
                 \/ pages[k].score = pages[i].score /\ i <= k}
  IN  IF with = {} THEN NoPage ELSE pages[CHOOSE i \in best : TRUE].url

-----------------------------------------------------------------------------
(* TypeSafe's judgment                                                     *)

Emails(ranked) == [i \in DOMAIN ranked |-> ranked[i].email]

should_call(ranked) ==
  \/ Len(ranked) >= 2
  \/ \E i \in DOMAIN ranked : classify(ranked[i].email) >= 3

NoJudgment ==
  [best |-> None, source |-> None, review |-> FALSE, business |-> {}, site |-> None,
   called |-> FALSE, error |-> FALSE, saidNone |-> FALSE, rejected |-> {}]

rules_only(ranked) ==
  IF ranked = <<>> THEN NoJudgment
  ELSE [NoJudgment EXCEPT !.best = ranked[1].email, !.source = "rules",
          !.business = {e \in Range(Emails(ranked)) : classify(e) \in {1, 2}}]

\* The addresses TypeSafe is asked about (candidates are lower case and
\* distinct already).
build_body(ranked) ==
  Emails(Take(ranked, MAX_JUDGE_CANDIDATES))

\* Mutated: what the rules prefer is used without asking whether it belongs.
DecideRulesFirst(answers, emails, ranked) ==
  LET rejected == {e \in Range(emails) : e \notin answers.belongs}
      common == [NoJudgment EXCEPT !.site = answers.site, !.called = TRUE, !.rejected = rejected,
                   !.business = {e \in Range(emails) : e \in answers.belongs}]
  IN  IF answers.choice = None /\ answers.confident
      THEN [common EXCEPT !.source = "typesafe", !.saidNone = TRUE]
      ELSE IF answers.choice \in answers.belongs \cap Range(emails) /\ answers.confident
      THEN [common EXCEPT !.best = answers.choice, !.source = "typesafe"]
      ELSE [common EXCEPT !.best = rules_best(ranked), !.review = TRUE, !.source = "rules"]

\* The first of the addresses that is in E.
FirstOf(emails, E) ==
  emails[CHOOSE i \in DOMAIN emails : emails[i] \in E /\ \A k \in 1..(i - 1) : emails[k] \notin E]

\* Answers: the choice (an address, None, or something else), whether it is
\* confident enough, the addresses that belong, and the kind of site.
decide(answers, emails, ranked) ==
  LET business == {e \in Range(emails) : e \in answers.belongs}
      rejected == {e \in Range(emails) : e \notin answers.belongs}
      common == [NoJudgment EXCEPT !.business = business, !.site = answers.site,
                                   !.called = TRUE, !.rejected = rejected]
      accepted == /\ answers.choice \in Range(emails)
                  /\ answers.confident
                  /\ answers.choice \in answers.belongs
      first == rules_best(ranked)
      fallback == IF first \notin rejected THEN first
                  ELSE IF business = {} THEN None ELSE FirstOf(emails, business)
  IN  IF accepted THEN [common EXCEPT !.best = answers.choice, !.source = "typesafe"]
      ELSE IF answers.choice = None /\ answers.confident
      THEN [common EXCEPT !.source = "typesafe", !.saidNone = TRUE]
      ELSE [common EXCEPT !.best = fallback, !.review = TRUE,
                          !.source = IF fallback = None THEN "typesafe" ELSE "rules"]

-----------------------------------------------------------------------------
(* Status and result                                                       *)

\* Mutated: a parked site is parked, whatever was found on it.
StatusParkedFirst(parked, saidNone, best, business, form) ==
  IF parked THEN "parked_or_for_sale"
  ELSE IF saidNone /\ business = {} /\ best = None THEN "no_business_email"
  ELSE IF best # None THEN "found"
  ELSE IF form # NoPage THEN "form_only"
  ELSE "no_contact_info"

assign_status(parked, saidNone, best, business, form) ==
  IF parked /\ best = None THEN "parked_or_for_sale"
  ELSE IF saidNone /\ business = {} /\ best = None THEN "no_business_email"
  ELSE IF best # None THEN "found"
  ELSE IF form # NoPage THEN "form_only"
  ELSE "no_contact_info"

NoResult ==
  [status |-> None, reason |-> None, best |-> None, source |-> None, review |-> FALSE,
   business |-> {}, emails |-> <<>>, form |-> NoPage, pages |-> <<>>, tokens |-> <<>>,
   rejected |-> {}, called |-> FALSE, error |-> FALSE]

\* _harvest: j is the judgment, ranked what was extracted from the pages.
harvest(pages, tokens, ranked, j, reason) ==
  LET known == Range(Emails(ranked))
      unknown == j.best # None /\ j.best \notin known
      best == IF unknown THEN rules_best(ranked) ELSE j.best
      form == pick_contact_form_url(pages)
  IN  [NoResult EXCEPT
        !.status = assign_status(j.site = "parked_or_for_sale", j.saidNone, best, j.business, form),
        !.reason = reason, !.best = best,
        !.source = IF best = None THEN None ELSE IF unknown THEN "rules" ELSE j.source,
        !.review = j.review \/ reason # None,
        !.business = j.business, !.emails = ranked, !.form = form,
        !.pages = [i \in DOMAIN pages |-> pages[i].url], !.tokens = tokens,
        !.rejected = j.rejected, !.called = j.called, !.error = j.error]

=============================================================================
