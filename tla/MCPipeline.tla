----------------------------- MODULE MCPipeline -----------------------------
(* Pipeline on sites of a homepage, six pages and four addresses.          *)
EXTENDS Pipeline, TLC

Link(u, marks, anchor) ==
  [at |-> <<u, "plain">>, own |-> TRUE, marks |-> marks, anchor |-> anchor, depth |-> 1]

Address == [info |-> [drop |-> FALSE, own |-> TRUE, role |-> TRUE, free |-> FALSE],
            jane |-> [drop |-> FALSE, own |-> TRUE, role |-> FALSE, free |-> FALSE],
            free |-> [drop |-> FALSE, own |-> FALSE, role |-> FALSE, free |-> TRUE],
            junk |-> [drop |-> TRUE, own |-> FALSE, role |-> FALSE, free |-> FALSE]]

Find(e, m) == [email |-> e, method |-> m]

\* A shop: a contact page linked three times from the homepage, an about page, two
\* more contact pages, and two paths that land on one page.
Shop ==
  [aDomain |-> TRUE, aWww |-> TRUE, signs |-> {}, sameSite |-> TRUE,
   links |-> <<Link(1, {"contact"}, FALSE), Link(1, {"contact"}, TRUE),
               [Link(1, {"contact"}, TRUE) EXCEPT !.at = <<1, "slash">>],
               Link(2, {"about", "legal"}, FALSE), Link(3, {"contact"}, FALSE),
               [Link(5, {"contact"}, TRUE) EXCEPT !.depth = 2]>>,
   mapped |-> <<>>,
   lands |-> <<1, 2, 1, 4, 5, 6>> @@ (Home :> 0),
   finds |-> <<<<Find("free", "text"), Find("info", "mailto")>>, <<Find("jane", "script")>>,
               <<>>, <<>>, <<>>, <<>>>> @@ (0 :> <<Find("junk", "mailto"), Find("info", "text")>>),
   cf |-> {"jane"}, forms |-> {1}]

\* A site whose homepage links nothing useful: sitemap, then the fixed paths.
Plain ==
  [Shop EXCEPT !.links = <<Link(1, {}, TRUE), Link(6, {"legal", "asset"}, FALSE),
                           [Link(5, {"contact"}, FALSE) EXCEPT !.own = FALSE]>>,
               !.mapped = <<Link(2, {"locations"}, FALSE), Link(3, {"about"}, FALSE)>>,
               !.lands = <<1, 2, 3, 4, 5, 6>> @@ (Home :> 0),
               !.finds = <<<<Find("free", "text")>>, <<>>, <<Find("free", "mailto")>>, <<>>, <<>>,
                             <<>>>>
                         @@ (0 :> <<>>),
               !.cf = {}, !.forms = {0, 3}, !.aWww = FALSE]

Moved == [Plain EXCEPT !.sameSite = FALSE, !.forms = {}]
ParkedNs == [Plain EXCEPT !.signs = {"ns"}]
ParkedPage == [Plain EXCEPT !.signs = {"phrase"}]

MCSites == {Shop, Plain, Moved, ParkedNs, ParkedPage}
MCFallback == <<Link(4, {"contact"}, FALSE)>>

Good == [exc |-> "none", status |-> 200, body |-> "html", site |-> 200, page |-> "page",
         hops |-> 0, private |-> 0, cause |-> "site"]

MCAnswers ==
  {Good,
   [Good EXCEPT !.page = "empty"],
   [Good EXCEPT !.page = "stripped"],
   [Good EXCEPT !.page = "challenge"],
   [Good EXCEPT !.site = 503],
   [Good EXCEPT !.exc = "read_timeout"],
   [Good EXCEPT !.exc = "connect", !.cause = "provider"],
   [Good EXCEPT !.status = 402, !.cause = "provider"],
   [Good EXCEPT !.status = 429, !.cause = "rate"],
   [Good EXCEPT !.hops = 6]}

MCVerdicts ==
  {[choice |-> c, confident |-> k, belongs |-> b, site |-> s] :
     c \in {"info", "free", "none"}, k \in BOOLEAN, b \in {{}, {"jane"}, {"info", "free"}},
     s \in {"active", "parked_or_for_sale"}}

=============================================================================
