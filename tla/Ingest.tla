------------------------------- MODULE Ingest -------------------------------
(***************************************************************************)
(* An uploaded file: previewed, turned into a job and downloaded with the  *)
(* results.  A cell is [name, frags]: its text as a column name, and the   *)
(* values separated in it.  A value is [mail, host, key]: whether it is an *)
(* email address, what its host is, and the crawl key of that host.  A     *)
(* blank cell has no values; one with a null token ("n/a") counts as one   *)
(* whose value has no host.                                                *)
(***************************************************************************)
EXTENDS Integers, Sequences, FiniteSets

CONSTANTS Uploads,                    \* files: the sequences of rows of cells
          MAX_ROWS, MAX_COLUMNS, SAMPLE_SIZE

HEADER_PRIORITY == <<"website", "domain">>
EMAIL_HEADERS == <<"email">>
ColumnName == <<"column_1", "column_2", "column_3">>
NoColumn == "no_column"
NoDomain == "no_domain"

ASSUME UploadsAssumption ==
  Uploads \subseteq Seq(Seq([name : STRING,
                            frags : Seq([mail : BOOLEAN, host : STRING, key : STRING])]))

VARIABLES ingFile,
          ingColumn,    \* the column the person names, or NoColumn
          ingStep,      \* how far they got: "preview", "create", "download", "over"
          ingPreview, ingItems, ingRows

ingVars == <<ingFile, ingColumn, ingStep, ingPreview, ingItems, ingRows>>

Good(key, from) == [domain |-> key, reason |-> "none", source |-> from]
Bad(why, from) == [domain |-> NoDomain, reason |-> why, source |-> from]
Valid(n) == n.domain # NoDomain

-----------------------------------------------------------------------------
(* One cell                                                                *)

\* _normalize_fragment: hosts are free mail providers, sites, hosts of a site
\* builder, platforms, addresses, or there is none and the next value is tried.
Usable(f) == (f.mail /\ f.host = "free") \/ f.host # "none"

normalize_fragment(f) ==
  LET from == IF f.mail THEN "email" ELSE "website"
  IN  CASE f.mail /\ f.host = "free" -> Bad("free_email_only", "email")
        [] f.host = "address" -> Bad("not_a_url", "website")
        [] f.host = "platform" -> Bad("social_or_directory", "website")
        [] OTHER -> Good(f.key, from)

normalize_input(frags) ==
  LET use == SelectSeq(frags, Usable)
  IN  CASE frags = <<>> -> Bad("empty", "website")
        [] frags # <<>> /\ use = <<>> -> Bad("not_a_url", "website")
        [] OTHER -> normalize_fragment(use[1])

-----------------------------------------------------------------------------
(* The file                                                                *)

Filled(cells) == SelectSeq(cells, LAMBDA c : c.frags # <<>>)

\* _trim_trailing_blanks.
Trimmed(cells) ==
  LET ends == {n \in 0..Len(cells) : \A i \in n + 1..Len(cells) : cells[i].frags = <<>>}
  IN  SubSeq(cells, 1, CHOOSE n \in ends : \A k \in ends : n <= k)

looks_like_header(cells) ==
  Filled(cells) = <<>>
  \/ \E i \in DOMAIN cells : cells[i].frags # <<>> /\ ~Valid(normalize_input(cells[i].frags))

\* _to_row: a row is a dictionary, so of two columns with one name the last one
\* is kept; a short row is filled up.
Blank == [name |-> "blank", frags |-> <<>>]
to_row(headers, record) ==
  [h \in {headers[i] : i \in DOMAIN headers} |->
     LET i == CHOOSE i \in DOMAIN headers :
                headers[i] = h /\ \A k \in DOMAIN headers : headers[k] = h => k <= i
     IN  IF i <= Len(record) THEN record[i] ELSE Blank]

\* parse_bytes and _parse_xlsx.
parse(file) ==
  IF file = <<>> THEN [error |-> "empty_file"]
  ELSE LET first == Trimmed(file[1])
           had == looks_like_header(first)
           headers == [i \in DOMAIN first |->
                         IF had /\ first[i].frags # <<>> THEN first[i].name ELSE ColumnName[i]]
           body == IF had THEN Tail(file) ELSE file
       IN  CASE Len(first) > MAX_COLUMNS -> [error |-> "too_many_columns"]
             [] Len(first) <= MAX_COLUMNS /\ Len(body) > MAX_ROWS -> [error |-> "too_many_rows"]
             [] OTHER -> [error |-> "none", headers |-> headers,
                          rows |-> [i \in DOMAIN body |-> to_row(headers, body[i])]]

column(parsed, h) == [i \in DOMAIN parsed.rows |-> parsed.rows[i][h].frags]

-----------------------------------------------------------------------------
(* The website column                                                      *)

Sample(values) ==
  LET some == SelectSeq(values, LAMBDA v : v # <<>>)
  IN  SubSeq(some, 1, IF Len(some) < SAMPLE_SIZE THEN Len(some) ELSE SAMPLE_SIZE)

\* A share of the sample: how many of how many.
Share(hits, sample) == [n |-> Len(hits), of |-> Len(sample)]
Less(a, b) == IF b.of = 0 THEN FALSE ELSE IF a.of = 0 THEN b.n > 0 ELSE a.n * b.of < b.n * a.of
OverThreshold(a) == a.of > 0 /\ 10 * a.n >= 6 * a.of          \* CONTENT_THRESHOLD

score_column(values) ==
  Share(SelectSeq(Sample(values), LAMBDA v : LET n == normalize_input(v)
                                             IN  Valid(n) /\ n.source = "website"),
        Sample(values))
score_emails(values) ==
  Share(SelectSeq(Sample(values), LAMBDA v : Len(v) = 1 /\ v[1].mail), Sample(values))
social_share(values) ==
  Share(SelectSeq(Sample(values),
                  LAMBDA v : normalize_input(v).reason = "social_or_directory"),
        Sample(values))

\* The first of these names the file has.
Named(names, headers) ==
  LET hits == SelectSeq(names, LAMBDA w : \E i \in DOMAIN headers : headers[i] = w)
  IN  IF hits = <<>> THEN NoColumn ELSE hits[1]

\* The header that no other beats, the leftmost of equals.
Best(headers, beats) ==
  LET top == {i \in DOMAIN headers : \A k \in DOMAIN headers :
                /\ <<headers[k], headers[i]>> \notin beats
                /\ k < i => <<headers[i], headers[k]>> \in beats}
  IN  IF top = {} THEN NoColumn ELSE headers[CHOOSE i \in top : TRUE]

detect_column(parsed) ==
  LET H == parsed.headers
      site(h) == score_column(column(parsed, h))
      mail(h) == score_emails(column(parsed, h))
      social(h) == social_share(column(parsed, h))
      names == {H[i] : i \in DOMAIN H}
      pairs == names \X names
      bySite == {p \in pairs : \/ Less(site(p[2]), site(p[1]))
                               \/ /\ ~Less(site(p[1]), site(p[2]))
                                  /\ Less(social(p[1]), social(p[2]))}
      byMail == {p \in pairs : Less(mail(p[2]), mail(p[1]))}
      named == Named(HEADER_PRIORITY, H)
      best == Best(H, bySite)
      mailNamed == Named(SelectSeq(EMAIL_HEADERS, LAMBDA w :
                           \E i \in DOMAIN H : H[i] = w /\ OverThreshold(mail(w))), H)
      mailBest == Best(H, byMail)
      email == IF mailNamed # NoColumn THEN mailNamed
               ELSE IF mailBest # NoColumn /\ OverThreshold(mail(mailBest)) THEN mailBest ELSE NoColumn
  IN  IF named # NoColumn THEN [column |-> named, email |-> NoColumn]
      ELSE IF best # NoColumn /\ OverThreshold(site(best)) THEN [column |-> best, email |-> NoColumn]
      ELSE [column |-> NoColumn, email |-> email]

\* The column used when the person asks for asked.
Chosen(guess, asked) ==
  IF asked # NoColumn THEN asked
  ELSE IF guess.column # NoColumn THEN guess.column ELSE guess.email

\* Domains come out of addresses only in the column offered for it.
Derives(guess, col) == guess.email # NoColumn /\ col = guess.email

\* What follows the last @ of a cell: the rest of its last address.
AfterAt(frags) ==
  LET at == {i \in DOMAIN frags : frags[i].mail}
      last == CHOOSE i \in at : \A k \in at : k <= i
  IN  [i \in 1..(Len(frags) - last + 1) |-> [frags[last + i - 1] EXCEPT !.mail = FALSE]]

normalize_column(parsed, col, derive) ==
  [i \in DOMAIN parsed.rows |->
     LET v == parsed.rows[i][col].frags
         n == normalize_input(v)
         again == /\ derive /\ ~Valid(n)
                  /\ \E k \in DOMAIN v : v[k].mail
                  /\ n.reason \notin {"free_email_only", "social_or_directory"}
         derived == normalize_input(AfterAt(v))
     IN  IF again /\ Valid(derived) THEN Good(derived.domain, "email") ELSE n]

Domains(items) == {items[i].domain : i \in {i \in DOMAIN items : Valid(items[i])}}

-----------------------------------------------------------------------------
(* The requests                                                            *)

IngestInit ==
  /\ ingFile \in Uploads
  /\ ingColumn \in {NoColumn, "email", "name"}
  /\ ingStep = "preview"
  /\ ingPreview = [error |-> "none yet"] /\ ingItems = <<>> /\ ingRows = <<>>

Refused(parsed, col) ==
  parsed.error # "none" \/ (col # NoColumn /\ ~\E i \in DOMAIN parsed.headers : parsed.headers[i] = col)

\* POST /jobs/preview.  No column at all is not an error here.
Preview ==
  LET parsed == parse(ingFile)
      guess == detect_column(parsed)
      col == Chosen(guess, ingColumn)
      items == IF col = NoColumn THEN <<>>
               ELSE normalize_column(parsed, col, Derives(guess, col))
  IN  /\ ingStep = "preview"
      /\ IF Refused(parsed, ingColumn)
         THEN ingStep' = "over" /\ ingPreview' = [error |-> "refused"]
         ELSE /\ ingStep' = "create"
              /\ ingPreview' = [error |-> "none", column |-> col, rows |-> Len(parsed.rows),
                   unique |-> Cardinality(Domains(items)),
                   invalid |-> Cardinality({i \in DOMAIN items : ~Valid(items[i])}),
                   samples |-> [i \in {k \in DOMAIN items : k <= 5} |-> items[i].domain]]
      /\ UNCHANGED <<ingFile, ingColumn, ingItems, ingRows>>

\* Mutated: a job derives domains from addresses in any column.
prepare_items_derives(parsed, guess, col) == normalize_column(parsed, col, TRUE)

prepare_items(parsed, guess, col) == normalize_column(parsed, col, Derives(guess, col))

\* POST /jobs, with the column asked for before or with the one the preview
\* showed.
Create(asked) ==
  LET parsed == parse(ingFile)
      guess == detect_column(parsed)
      col == Chosen(guess, asked)
  IN  /\ ingStep = "create"
      /\ asked \in {ingColumn, ingPreview.column}
      /\ IF col = NoColumn \/ parsed.rows = <<>>
         THEN ingStep' = "over" /\ UNCHANGED ingItems
         ELSE ingStep' = "download" /\ ingItems' = prepare_items(parsed, guess, col)
      /\ UNCHANGED <<ingFile, ingColumn, ingPreview, ingRows>>

\* The domain shown for a row that has none: what was in the cell.
AsTyped == "as typed"

\* stream_rows and output_row: one row per item, in the order of the file; done
\* are the domains with a result that can still be read.
Download(done) ==
  /\ ingStep = "download"
  /\ ingRows' = [i \in DOMAIN ingItems |->
       [domain |-> IF Valid(ingItems[i]) THEN ingItems[i].domain ELSE AsTyped,
        status |-> CASE Valid(ingItems[i]) /\ ingItems[i].domain \in done -> "done"
                     [] ~Valid(ingItems[i]) -> "invalid_input"
                     [] OTHER -> "pending"]]
  /\ ingStep' = "over"
  /\ UNCHANGED <<ingFile, ingColumn, ingPreview, ingItems>>

IngestNext ==
  \/ Preview
  \/ \E c \in {ingColumn} \cup (IF ingStep = "create" THEN {ingPreview.column} ELSE {}) : Create(c)
  \/ \E done \in SUBSET Domains(ingItems) : Download(done)

IngestSpec == IngestInit /\ [][IngestNext]_ingVars

-----------------------------------------------------------------------------
\* What the preview told about the file is what the download contains: as many
\* rows, the invalid ones among them, as many domains, and the sampled rows
\* where they were, invalid or with their domain ("under the same rule create_job
\* uses").
PreviewAgrees ==
  ingRows # <<>> =>
    /\ Len(ingRows) = ingPreview.rows
    /\ Cardinality({i \in DOMAIN ingRows : ingRows[i].status = "invalid_input"}) = ingPreview.invalid
    /\ Cardinality({ingRows[i].domain : i \in {k \in DOMAIN ingRows :
                      ingRows[k].status # "invalid_input"}}) = ingPreview.unique
    /\ \A i \in DOMAIN ingPreview.samples :
         IF ingPreview.samples[i] = NoDomain THEN ingRows[i].status = "invalid_input"
         ELSE ingRows[i].domain = ingPreview.samples[i]

=============================================================================
