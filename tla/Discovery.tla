------------------------------ MODULE Discovery ------------------------------
(***************************************************************************)
(* Which pages of a site are fetched besides its homepage.  A link is      *)
(* [at, own, marks, anchor, depth]: at is the address as published, a page *)
(* number (smaller: shorter, or first in the alphabet) and a spelling; own *)
(* whether it is on the site's domain; marks what the segments of its path *)
(* match (tiers, and the reasons never to fetch it); anchor whether its    *)
(* text holds a keyword.                                                   *)
(***************************************************************************)
EXTENDS Integers, Sequences, FiniteSets, Functions, Ordering

NoTier == "none"

TIERS ==
  [contact |-> 100, quote |-> 80, about |-> 60, legal |-> 40, locations |-> 20, none |-> 0]

ANCHOR_BONUS == 10
PER_TIER_CAP == 2
MIN_SCORED_BEFORE_FALLBACK == 2

LinkRecord ==
  [at : Nat \X STRING, own : BOOLEAN, marks : SUBSET STRING, anchor : BOOLEAN, depth : Nat]

\* Homepage links: own domain only, each published address once, the first
\* anchor text.
extract_links(anchors) ==
  At(anchors, {i \in DOMAIN anchors :
                 anchors[i].own /\ \A k \in 1..(i - 1) : anchors[k].at # anchors[i].at})

\* Every spelling of a page is the same page.
canonical(at) == at[1]

is_excluded(l) == l.marks \cap {"forbidden_prefix", "excluded_segment", "year", "asset"} # {}

\* The highest tier one of the segments matches.
tier_for(l) ==
  LET T == l.marks \cap DOMAIN TIERS
  IN  IF T = {} THEN NoTier ELSE CHOOSE t \in T : \A u \in T : TIERS[u] <= TIERS[t]

Total(l) == TIERS[tier_for(l)] + (IF l.anchor THEN ANCHOR_BONUS ELSE 0)

\* score_url gives no score to a link that must never be fetched.
Scorable(l) == ~is_excluded(l) /\ Total(l) > 0

score_url(l) ==
  [url |-> canonical(l.at), score |-> Total(l), tier |-> tier_for(l), depth |-> l.depth]

ScoreAll(links) ==
  LET kept == At(links, {i \in DOMAIN links : Scorable(links[i])})
  IN  [i \in DOMAIN kept |-> score_url(kept[i])]

has_tier(candidates, tier) == \E i \in DOMAIN candidates : candidates[i].tier = tier

Before(a, b) ==
  \/ a.score > b.score
  \/ a.score = b.score /\ a.depth < b.depth
  \/ a.score = b.score /\ a.depth = b.depth /\ a.url < b.url

\* Mutated: the first candidate for a page stays.
BestOfFirst(candidates, url) ==
  LET at == {i \in DOMAIN candidates : candidates[i].url = url}
  IN  candidates[CHOOSE i \in at : \A k \in at : i <= k]

\* The best of the candidates for one page; of equals the earliest.
BestOf(candidates, url) ==
  LET at == {i \in DOMAIN candidates : candidates[i].url = url}
  IN  candidates[CHOOSE i \in at : \A k \in at :
        \/ candidates[k].score < candidates[i].score
        \/ candidates[k].score = candidates[i].score /\ i <= k]

select(candidates, limit) ==
  LET best == {BestOf(candidates, candidates[i].url) : i \in DOMAIN candidates}
      ordered == Sorted(best, {p \in best \X best : Before(p[1], p[2])})
      earlier(i) == {k \in 1..(i - 1) : ordered[k].tier = ordered[i].tier}
      allowed == At(ordered, {i \in DOMAIN ordered : Cardinality(earlier(i)) < PER_TIER_CAP})
  IN  Take(allowed, limit)

Tiered(chosen) == Cardinality({i \in DOMAIN chosen : chosen[i].tier # NoTier})

\* What discover_pages chooses from: the homepage's links alone when they
\* hold a contact and an about page; else with the sitemaps' pages, and with
\* the fixed paths when fewer than two pages with a tier would be chosen.
Candidates(links, mapped, fallback, limit) ==
  LET linked == ScoreAll(extract_links(links))
      both == linked \o ScoreAll(mapped)
  IN  IF has_tier(linked, "contact") /\ has_tier(linked, "about") THEN linked
      ELSE IF Tiered(select(both, limit)) >= MIN_SCORED_BEFORE_FALLBACK THEN both
      ELSE both \o ScoreAll(fallback)

discover_pages(links, mapped, fallback, limit) ==
  select(Candidates(links, mapped, fallback, limit), limit)

\* A correct choice: no page twice, within the limits, and a page is left out
\* only for pages that come before it.
GoodChoice(candidates, chosen, limit) ==
  LET C == Range(candidates)
      X == Range(chosen)
  IN  /\ X \subseteq C
      /\ Len(chosen) = Cardinality({c.url : c \in X})
      /\ Len(chosen) <= limit
      /\ \A c \in X : Cardinality({d \in X : d.tier = c.tier}) <= PER_TIER_CAP
      /\ \A c \in C \ X :
           \/ \E d \in X : d.url = c.url /\ d.score >= c.score
           \/ Cardinality({d \in X : d.tier = c.tier /\ ~Before(c, d)}) = PER_TIER_CAP
           \/ Len(chosen) = limit /\ \A d \in X : ~Before(c, d)

=============================================================================
