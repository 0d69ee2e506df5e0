----------------------------- MODULE FetchRules -----------------------------
(***************************************************************************)
(* What one request made by a fetcher turns into: a page, or a FetchError  *)
(* with its class, its reason and whether it is held against the provider. *)
(*                                                                         *)
(* An answer r is what came back, as far as the rules tell answers apart:  *)
(*   exc     "none" or the exception raised in place of a response;        *)
(*   status  the HTTP status of the server asked (r.jina.ai, or the site); *)
(*   body    what its body is;                                             *)
(*   site    the site's own status inside a Jina answer;                   *)
(*   page    the page: "page", "empty", "stripped" (nothing but scripts,   *)
(*           which are dropped) or "challenge" (a bot challenge);          *)
(*   hops    redirects followed by hand, and private the first request     *)
(*           whose host resolves to a private address (0: none);           *)
(*   cause   who really caused it (used by the properties only).           *)
(***************************************************************************)
EXTENDS Integers

MAX_REDIRECTS == 5
PROVIDER_HEALTH_EXC == {"connect"}

FetchError(class, reason, provider) ==
  [ok |-> FALSE, class |-> class, reason |-> reason, provider |-> provider]

FetchResult == [ok |-> TRUE, class |-> "none", reason |-> "none", provider |-> FALSE]

retryable(e) == e.class = "transient"

\* The html of the FetchResult of r is "": Jina's own test for an empty page comes
\* before the scripts are stripped.
Empty(r) == r.page \in {"empty", "stripped"}

looks_blocked(status, page) == page = "challenge" \/ status = 403

classify_site_status(status, page) ==
  IF status \in 200..299 THEN "ok"
  ELSE IF status \in {403, 503} /\ looks_blocked(status, page) THEN "blocked"
  ELSE IF status = 429 \/ status \in 500..599 THEN "transient"
  ELSE "permanent"

classify_provider_status(status) ==
  IF status \in 200..299 THEN "ok"
  ELSE IF status \in {401, 402} THEN "provider_account"
  ELSE IF status = 403 THEN "blocked"
  ELSE IF status = 429 \/ status \in 500..599 THEN "transient"
  ELSE "permanent"

exc_to_fetch_error(exc, provider) ==
  IF exc = "redirects" THEN FetchError("permanent", "redirect_loop", FALSE)
  ELSE IF exc = "certificate" THEN FetchError("permanent", "ssl_error", FALSE)
  ELSE IF exc \in {"connect", "read_timeout"}
  THEN FetchError("transient", "homepage", provider /\ exc \in PROVIDER_HEALTH_EXC)
  ELSE FetchError("bug", "internal_error", FALSE)

\* _raw_get: every request of the redirect chain is guarded before it is made.
raw_get(r) ==
  IF r.private # 0 /\ r.private <= r.hops + 1 /\ r.private <= MAX_REDIRECTS + 1
  THEN FetchError("permanent", "private_address", FALSE)
  ELSE IF r.hops > MAX_REDIRECTS THEN exc_to_fetch_error("redirects", FALSE)
  ELSE IF r.exc # "none" THEN exc_to_fetch_error(r.exc, FALSE)
  ELSE FetchResult

HttpxHtml(r) ==
  LET class == classify_site_status(r.status, r.page)
  IN  IF ~raw_get(r).ok THEN raw_get(r)
      ELSE IF class # "ok"
      THEN FetchError(class, IF class = "blocked" THEN "blocked" ELSE "homepage", FALSE)
      ELSE IF r.body = "not_html" THEN FetchError("permanent", "not_html", FALSE)
      ELSE IF looks_blocked(r.status, r.page) THEN FetchError("blocked", "blocked", FALSE)
      ELSE FetchResult

HttpxText(r) ==
  LET class == classify_site_status(r.status, r.page)
  IN  IF ~raw_get(r).ok THEN raw_get(r)
      ELSE IF class # "ok" THEN FetchError(class, "not_html", FALSE)
      ELSE FetchResult

\* Mutated: being too fast counts as the provider's trouble.
JinaRefusalRateToo(status) ==
  LET class == classify_provider_status(status)
  IN  FetchError(class, "homepage", class \in {"transient", "provider_account"})

\* A refusal by r.jina.ai itself.  A 429 slows the bucket and is never held
\* against the provider.
JinaRefusal(status) ==
  LET class == classify_provider_status(status)
  IN  FetchError(class,
        IF class = "provider_account" THEN "jina_account"
        ELSE IF class = "blocked" THEN "blocked"
        ELSE IF status = 409 THEN "page_too_large"
        ELSE IF status = 422 THEN "not_html"
        ELSE "homepage",
        status # 429 /\ class \in {"transient", "provider_account"})

JinaHtml(r) ==
  LET class == classify_site_status(r.site, r.page)
  IN  IF r.exc # "none" THEN exc_to_fetch_error(r.exc, TRUE)
      ELSE IF classify_provider_status(r.status) # "ok" THEN JinaRefusal(r.status)
      ELSE IF r.body \in {"not_json", "no_data"} THEN FetchError("transient", "homepage", TRUE)
      ELSE IF class # "ok"
      THEN FetchError(class, IF class = "blocked" THEN "blocked" ELSE "homepage", FALSE)
      ELSE IF r.page = "empty" THEN FetchError("transient", "homepage", FALSE)
      ELSE IF looks_blocked(r.site, r.page) THEN FetchError("blocked", "blocked", FALSE)
      ELSE FetchResult

\* build_fetcher: pages come through the configured backend.
GetHtml(backend, r) == IF backend = "jina" THEN JinaHtml(r) ELSE HttpxHtml(r)

=============================================================================
