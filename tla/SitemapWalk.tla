----------------------------- MODULE SitemapWalk -----------------------------
(***************************************************************************)
(* collect_sitemap_urls: reading a site's sitemaps, starting from the root *)
(* document of wave 1 and those robots.txt names.  Documents may list each *)
(* other in any way; each read may come back blank.                        *)
(***************************************************************************)
EXTENDS Integers, Sequences, FiniteSets, Ordering

CONSTANTS Doc,          \* [document -> [own, index, excluded, preferred, lists]]
          Robots,       \* the Sitemap lines of robots.txt, in order
          Root,         \* the document at /sitemap.xml
          MAX_SITEMAP_DOCS, MAX_SITEMAPS, MAX_DEPTH, MAX_CHILDREN, MAX_URLS

ASSUME WalkAssumption ==
  /\ Robots \in Seq(DOMAIN Doc) /\ Root \in DOMAIN Doc
  /\ \A d \in DOMAIN Doc : Doc[d].lists \in Seq(DOMAIN Doc)
  /\ MAX_SITEMAP_DOCS \in Nat /\ MAX_SITEMAPS \in Nat /\ MAX_DEPTH \in Nat
  /\ MAX_CHILDREN \in Nat /\ MAX_URLS \in Nat

VARIABLES walkQueue,    \* documents to read, with their depth
          walkTexts,    \* documents read and not looked at yet
          walkSeen, walkBudget, walkPages, walkOver,
          walkRead      \* history: the documents asked for, with their depth

walkVars == <<walkQueue, walkTexts, walkSeen, walkBudget, walkPages, walkOver, walkRead>>

Owned(d) == Doc[d].own

\* The same line twice counts once; the limit is on what is kept.
parse_sitemaps(lines) ==
  Take(At(lines, {i \in DOMAIN lines :
                    Owned(lines[i]) /\ \A k \in 1..(i - 1) : lines[k] # lines[i]}),
       MAX_SITEMAPS)

order_children(urls) ==
  LET keep == {i \in DOMAIN urls : ~Doc[urls[i]].excluded}
  IN  At(urls, {i \in keep : Doc[urls[i]].preferred})
      \o At(urls, {i \in keep : ~Doc[urls[i]].preferred})

\* What a document lists of its own site.
own_urls(d) == At(Doc[d].lists, {i \in DOMAIN Doc[d].lists : Owned(Doc[d].lists[i])})

Level(docs, depth) == [i \in DOMAIN docs |-> <<docs[i], depth>>]

WalkInit ==
  /\ walkQueue = Level(parse_sitemaps(Robots), 0)
  /\ walkTexts \in {<<>>, <<<<Root, 0>>>>}
  /\ walkSeen = {} /\ walkBudget = MAX_SITEMAP_DOCS
  /\ walkPages = <<>> /\ walkOver = FALSE /\ walkRead = <<>>

\* A document that was read: an index adds its children to the queue, another
\* one its pages to the list, until the list is full.
Look ==
  /\ ~walkOver /\ walkTexts # <<>>
  /\ LET d == Head(walkTexts)[1]
         depth == Head(walkTexts)[2]
         own == own_urls(d)
         pages == Take(walkPages \o own, MAX_URLS)
     IN  IF Doc[d].index
         THEN /\ walkQueue' = IF depth >= MAX_DEPTH THEN walkQueue
                ELSE walkQueue \o Level(Take(order_children(own), MAX_CHILDREN), depth + 1)
              /\ UNCHANGED <<walkPages, walkOver>>
         ELSE /\ walkPages' = pages
              /\ walkOver' = (own # <<>> /\ Len(pages) >= MAX_URLS)
              /\ UNCHANGED walkQueue
  /\ walkTexts' = Tail(walkTexts)
  /\ UNCHANGED <<walkSeen, walkBudget, walkRead>>

\* Mutated: a document listed twice is read twice.
SkippableForeign(d) == ~Owned(d)

Skippable(d) == d \in walkSeen \/ ~Owned(d)

Skip ==
  /\ ~walkOver /\ walkTexts = <<>> /\ walkQueue # <<>> /\ walkBudget > 0
  /\ Skippable(Head(walkQueue)[1])
  /\ walkQueue' = Tail(walkQueue)
  /\ UNCHANGED <<walkTexts, walkSeen, walkBudget, walkPages, walkOver, walkRead>>

Read(blank) ==
  /\ ~walkOver /\ walkTexts = <<>> /\ walkQueue # <<>> /\ walkBudget > 0
  /\ ~Skippable(Head(walkQueue)[1])
  /\ walkQueue' = Tail(walkQueue)
  /\ walkSeen' = walkSeen \cup {Head(walkQueue)[1]}
  /\ walkBudget' = walkBudget - 1
  /\ walkRead' = Append(walkRead, Head(walkQueue))
  /\ walkTexts' = IF blank THEN <<>> ELSE <<Head(walkQueue)>>
  /\ UNCHANGED <<walkPages, walkOver>>

WalkEnds ==
  /\ ~walkOver /\ walkTexts = <<>>
  /\ walkQueue = <<>> \/ walkBudget <= 0
  /\ walkOver' = TRUE
  /\ UNCHANGED <<walkQueue, walkTexts, walkSeen, walkBudget, walkPages, walkRead>>

WalkNext == Look \/ Skip \/ WalkEnds \/ \E blank \in BOOLEAN : Read(blank)

WalkSpec == WalkInit /\ [][WalkNext]_walkVars

\* However the documents list each other, no more than MAX_SITEMAP_DOCS are asked
\* for, none twice, none of another site, none below MAX_DEPTH, and the pages
\* are the site's own.
WalkBounded ==
  /\ Len(walkRead) <= MAX_SITEMAP_DOCS
  /\ \A i, k \in DOMAIN walkRead : walkRead[i][1] = walkRead[k][1] => i = k
  /\ \A i \in DOMAIN walkRead : Owned(walkRead[i][1]) /\ walkRead[i][2] <= MAX_DEPTH
  /\ Len(walkPages) <= MAX_URLS
  /\ \A i \in DOMAIN walkPages : Owned(walkPages[i])

=============================================================================
