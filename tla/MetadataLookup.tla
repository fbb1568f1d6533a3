--------------------------- MODULE MetadataLookup ---------------------------
(***************************************************************************)
(* One lookup of the metadata worker: E-Hentai first, DLsite for what is   *)
(* left, each by the one identifier of its site that the collection has,   *)
(* or else by the recognized title, which takes a search and a second      *)
(* request for what the search found.  The sites change between requests.  *)
(*                                                                         *)
(* Abstractions.  A title stands for all that normalize_title takes for    *)
(* the same.  A site is what it says of each work: its titles and the      *)
(* fields that can be mapped.  A search finds every work that bears the    *)
(* title, and perhaps others.  The value of a field is the work it is of.  *)
(* The interval between requests and the tags are left out.                *)
(***************************************************************************)
EXTENDS Naturals, FiniteSets

CONSTANTS
  Works, Titles, Fields,
  Requests,    \* the lookups: [eh, rj, title, fields], the identifiers at each site first
  Sites,       \* what a site can say: functions from Works to entries
  MaxListed,   \* MAX_GALLERY_CANDIDATES
  MaxChanges,  \* bound on the changes of the sites
  Null

ASSUME LookupAssumption ==
  /\ IsFiniteSet(Works) /\ MaxChanges \in Nat
  /\ \A r \in Requests : r.eh \subseteq Works /\ r.rj \subseteq Works /\ r.fields \subseteq Fields

VARIABLES
  site,     \* what E-Hentai ("eh") and DLsite ("dl") say now
  request,  \* what is looked up
  step,     \* the request under way
  found,    \* works the last search brought, or the identified one
  by,       \* whether these are known by identifier or by title
  answer,   \* what each provider has come to
  bearers,  \* works that bore the title when the last search was made
  changes

lookupVars == <<site, request, step, found, by, answer, bearers, changes>>

Providers == {"eh", "dl"}
Absent    == [titles |-> {}, fields |-> {}]
There(p)  == {w \in Works : site[p][w] # Absent}
Bearing(p, title) == {w \in Works : title \in site[p][w].titles}

Kinds     == {"network", "rate_limited", "provider_unavailable", "worker_interrupted",
              "invalid_response", "no_match", "unsupported"}
\* retry_delay_seconds: the kinds a job is tried again for
Temporary == {"network", "rate_limited", "provider_unavailable", "worker_interrupted"}

\* classify_status, and the same of DLsite: 200 is "ok", what is not answered "unreachable"
Replies == {"ok", "unreachable", "404", "429", "5xx", "refused", "other"}
KindOf(reply) == CASE reply = "unreachable" -> "network"
                   [] reply = "404"         -> "no_match"
                   [] reply = "429"         -> "rate_limited"
                   [] reply = "5xx"         -> "provider_unavailable"
                   [] reply = "refused"     -> "unsupported"
                   [] reply = "other"       -> "invalid_response"

Candidate == [field : Fields, work : Works, by : {"identifier", "title"}, from : Providers]
Failed(kind)        == [kind |-> kind, candidates |-> {}, issues |-> {}]
Gives(cands, issue) == [kind |-> "ok", candidates |-> cands, issues |-> issue]
Ids(p)              == IF p = "eh" THEN request.eh ELSE request.rj

-----------------------------------------------------------------------------
(* What a provider makes of a work, and the chain of both. *)

\* the fields a product or a gallery has a usable value for: a wrong type or an empty text is none
Tells(p, w) == site[p][w].fields

\* map_gallery: an event or the DL flag are nothing a gallery tells
MappedGallery(fields, w) ==
  Gives({[field |-> f, work |-> w, by |-> by, from |-> "eh"] :
           f \in (fields \cap Tells("eh", w)) \ {"event", "is_dl"}}, {})

\* map_product: a product without an event is one of DLsite itself; what DLsite does not
\* classify is an issue
MappedProduct(fields, w) ==
  Gives({[field |-> f, work |-> w, by |-> by, from |-> "dl"] :
           f \in (fields \cap (Tells("dl", w) \cup {"event"})) \ {"classification", "is_dl"}},
        IF fields \cap {"classification", "is_dl"} # {} THEN {"unsupported"} ELSE {})

\* the fields DLsite is asked for
MissingFields == request.fields \ {c.field : c \in answer["eh"].candidates}

Priority(kind) == CASE kind \in Temporary         -> 3
                    [] kind = "invalid_response"  -> 2
                    [] kind = "no_match"          -> 1
                    [] kind = "unsupported"       -> 0

\* combine_provider_errors
WorseError(primary, fallback) ==
  Failed(IF Priority(fallback.kind) > Priority(primary.kind) THEN fallback.kind ELSE primary.kind)

Nothing == {"no_match", "unsupported"}

\* what one provider failed with is an issue of the other's answer, unless it knew nothing
Issue(result) == IF result.kind \in Nothing \cup {"ok", "none"} THEN {} ELSE {result.kind}

\* FallbackMetadataProvider::search
Combined(primary, fallback) ==
  IF primary.kind # "ok" /\ fallback.kind # "ok" THEN WorseError(primary, fallback)
  ELSE Gives(primary.candidates \cup fallback.candidates,
             primary.issues \cup fallback.issues \cup Issue(primary) \cup Issue(fallback))

-----------------------------------------------------------------------------
Steps == {"off", "eh", "eh search", "eh fetch", "dl", "dl search", "dl fetch", "done"}

LookupTypeOK ==
  /\ site \in [Providers -> Sites] /\ request \in Requests /\ step \in Steps
  /\ found \subseteq Works /\ by \in {"identifier", "title"} /\ bearers \subseteq Works
  /\ \A p \in Providers \cup {"all"} :
       /\ answer[p].kind \in Kinds \cup {"ok", "none"} /\ answer[p].candidates \subseteq Candidate
       /\ answer[p].issues \subseteq Kinds
  /\ changes \in 0 .. MaxChanges

Unasked == Failed("none")

LookupInit ==
  /\ site \in [Providers -> Sites] /\ request \in Requests
  /\ step = "off" /\ found = {} /\ by = "title" /\ bearers = {} /\ changes = 0
  /\ answer = [p \in Providers \cup {"all"} |-> Unasked]

-----------------------------------------------------------------------------
(* The requests, one after the other. *)

Conclude(p, result) ==
  /\ IF p = "eh" THEN step' = "dl" /\ answer' = [answer EXCEPT !.eh = result]
     ELSE step' = "done" /\ answer' = [answer EXCEPT !.dl  = result,
                                                     !.all = Combined(answer.eh, result)]
  /\ UNCHANGED <<site, request, found, by, bearers, changes>>

Fetch(next, works, known, bearing) ==
  /\ step' = next /\ found' = works /\ by' = known /\ bearers' = bearing
  /\ UNCHANGED <<site, request, answer, changes>>

\* unique_gallery_identity, unique_rj
Identified(p) == Ids(p)

Begin(p, search, fetch) ==
  \/ /\ Cardinality(Identified(p)) > 1 /\ Conclude(p, Failed("unsupported"))
  \/ /\ Cardinality(Identified(p)) = 1 /\ Fetch(fetch, Identified(p), "identifier", {})
  \/ /\ Identified(p) = {} /\ request.title = Null /\ Conclude(p, Failed("unsupported"))
  \/ /\ Identified(p) = {} /\ request.title # Null
     /\ step' = search
     /\ UNCHANGED <<site, request, found, by, bearers, answer, changes>>

\* a request that is not answered with 200
Refused(p) == \E reply \in Replies \ {"ok"} : Conclude(p, Failed(KindOf(reply)))
\* an answer that cannot be read
Garbled(p) == Conclude(p, Failed("invalid_response"))

AskEhentai == step = "off" /\ Begin("eh", "eh search", "eh fetch")

\* The listing of the search: its first galleries, in whatever order.  A page that is no listing
\* lists none.
SearchEhentai ==
  /\ step = "eh search"
  /\ \/ Refused("eh")
     \/ Conclude("eh", Failed("no_match"))
     \/ \E more \in SUBSET There("eh") :
          LET hits == Bearing("eh", request.title) \cup more
          IN \E listed \in SUBSET hits :
               /\ listed # {}
               /\ \/ listed = hits /\ Cardinality(hits) <= MaxListed
                  \/ Cardinality(listed) = MaxListed
               /\ Fetch("eh fetch", listed, "title", Bearing("eh", request.title))

\* mutant: the first one of a listing is taken
TopRanked(works) == works # {}

\* exactly one: a choice between several is refused
OnlyOne(works) == Cardinality(works) = 1

Outcome(p, works, Mapped(_)) ==
  Conclude(p, IF OnlyOne(works) THEN Mapped(CHOOSE w \in works : TRUE) ELSE Failed("no_match"))

\* parse_gdata leaves galleries out that are gone; exact_title_gallery
FetchEhentai ==
  /\ step = "eh fetch"
  /\ \/ Refused("eh") \/ Garbled("eh")
     \/ LET galleries == found \cap There("eh")
            exact == IF by = "title" THEN galleries \cap Bearing("eh", request.title)
                     ELSE galleries
        IN Outcome("eh", exact, LAMBDA w : MappedGallery(request.fields, w))

\* E-Hentai's answer is enough, or DLsite is asked for the rest
AskDlsite ==
  /\ step = "dl"
  /\ IF answer.eh.kind = "ok" /\ MissingFields = {} THEN Conclude("dl", Unasked)
     ELSE Begin("dl", "dl search", "dl fetch")

\* search_rj_by_title, exact_title_result: the listing itself tells the titles
SearchDlsite ==
  /\ step = "dl search"
  /\ \/ Refused("dl")
     \/ LET exact == Bearing("dl", request.title)
        IN IF OnlyOne(exact) THEN Fetch("dl fetch", exact, "title", exact)
           ELSE Conclude("dl", Failed("no_match"))

\* exact_product
FetchDlsite ==
  /\ step = "dl fetch"
  /\ \/ Refused("dl") \/ Garbled("dl")
     \/ Outcome("dl", found \cap There("dl"), LAMBDA w : MappedProduct(MissingFields, w))

SiteChanges ==
  /\ step \notin {"off", "done"} /\ changes < MaxChanges /\ changes' = changes + 1
  /\ \E p \in Providers, s \in Sites : s # site[p] /\ site' = [site EXCEPT ![p] = s]
  /\ UNCHANGED <<request, step, found, by, answer, bearers>>

LookupNext ==
  \/ AskEhentai \/ SearchEhentai \/ FetchEhentai
  \/ AskDlsite \/ SearchDlsite \/ FetchDlsite \/ SiteChanges

LookupSpec == LookupInit /\ [][LookupNext]_lookupVars

-----------------------------------------------------------------------------
(* Properties. *)

\* A title alone never decides between two works: what a provider says of a work that was
\* found by title is not taken when another work bore the title both when the search was made
\* and when the work was fetched, unless the listing was cut off (exact_title_gallery,
\* exact_title_result, gallery_identities_from_search).
TitleNeverChooses ==
  [][\A p \in Providers : \A c \in answer'[p].candidates \ answer[p].candidates :
       c.by = "title" /\ bearers \subseteq found =>
         bearers \cap Bearing(p, request.title) \subseteq {c.work}]_lookupVars

\* Trouble that passes is never lost in the chain of providers: it makes the whole lookup one
\* that is tried again, or is an issue of the answer; and an answer that only DLsite could give
\* is not spoilt by what E-Hentai did not know (FallbackMetadataProvider, combine_provider_errors).
TroubleIsKept ==
  step = "done" =>
    /\ \A p \in Providers : answer[p].kind \in Temporary =>
         answer.all.kind \in Temporary \/ answer[p].kind \in answer.all.issues
    /\ answer.all.kind = "ok" <=> \E p \in Providers : answer[p].kind = "ok"

=============================================================================
