----------------------------- MODULE LookupProofs -----------------------------
(***************************************************************************)
(* Proofs about requests and about what works beside them, for any values of *)
(* the constants: what a lookup of metadata takes for the answer and what    *)
(* becomes of trouble on the way, the session of the provider, the home page,*)
(* the numbers and pages of the library, and the thumbnails.                 *)
(***************************************************************************)
EXTENDS CatalogRequests, ThumbnailJobs, Sequences, FiniteSetTheorems, WellFoundedInduction, TLAPS

Results == [kind : Kinds \cup {"ok", "none"}, candidates : SUBSET Candidate,
            issues : SUBSET Kinds]

\* a provider's answer, and what its candidates say they are of
Answers(p) ==
  {r \in Results : /\ r.candidates # {} => r.kind = "ok"
                   /\ \A c \in r.candidates : c.from = p
                   /\ \A c, d \in r.candidates : c.work = d.work /\ c.by = d.by}

\* E-Hentai has been asked
Past == {"dl", "dl search", "dl fetch", "done"}

LookupInv ==
  /\ request \in Requests /\ step \in Steps /\ by \in {"identifier", "title"}
  /\ found \subseteq Works /\ bearers \subseteq Works
  /\ answer \in [Providers \cup {"all"} -> Results]
  /\ \A p \in Providers : answer[p] \in Answers(p)
  /\ step \in Past => answer["eh"].kind # "none"
  /\ step = "done" => /\ answer["dl"].kind = "none" => answer["eh"].kind = "ok"
                      /\ answer["all"] = Combined(answer["eh"], answer["dl"])

\* identifiers and fields of the requests are of the works and the fields
RequestsOK == \A r \in Requests : r.eh \subseteq Works /\ r.rj \subseteq Works
                                  /\ r.fields \subseteq Fields

LEMMA MapsGallery ==
  ASSUME NEW fields \in SUBSET Fields, NEW w \in Works, by \in {"identifier", "title"}
  PROVE  /\ MappedGallery(fields, w) \in Answers("eh")
         /\ MappedGallery(fields, w).kind = "ok"
         /\ \A c \in MappedGallery(fields, w).candidates : c.work = w /\ c.by = by
BY DEF MappedGallery, Gives, Answers, Results, Candidate, Providers, Kinds

LEMMA MapsProduct ==
  ASSUME NEW fields \in SUBSET Fields, NEW w \in Works, by \in {"identifier", "title"}
  PROVE  /\ MappedProduct(fields, w) \in Answers("dl")
         /\ MappedProduct(fields, w).kind = "ok"
         /\ \A c \in MappedProduct(fields, w).candidates : c.work = w /\ c.by = by
BY DEF MappedProduct, Gives, Answers, Results, Candidate, Providers, Kinds

LEMMA Fails ==
  ASSUME NEW p \in Providers, NEW kind \in Kinds \cup {"none"}
  PROVE  Failed(kind) \in Answers(p) /\ Failed(kind).kind = kind /\ Failed(kind).candidates = {}
BY DEF Failed, Answers, Results, Kinds

LEMMA CombinesResults ==
  ASSUME NEW x \in Results, NEW y \in Results
  PROVE  Combined(x, y) \in Results
<1>1. Issue(x) \subseteq Kinds /\ Issue(y) \subseteq Kinds
  BY DEF Issue, Results
<1> QED BY <1>1 DEF Combined, WorseError, Failed, Gives, Results

\* A provider comes to its answer.
LEMMA Concludes ==
  ASSUME LookupInv, NEW p \in Providers, NEW r \in Answers(p), Conclude(p, r),
         p = "eh" => r.kind # "none",
         p = "dl" => step \in Past /\ (r.kind = "none" => answer["eh"].kind = "ok")
  PROVE  /\ LookupInv'
         /\ answer'[p] = r /\ \A q \in Providers \ {p} : answer'[q] = answer[q]
<1> USE DEF LookupInv
<1>1. r \in Results
  BY DEF Answers
<1>2. CASE p = "eh"
  BY ZenonT(60), <1>1, <1>2 DEF Conclude, Providers, Steps, Past, Answers
<1>3. CASE p = "dl"
  <2> DEFINE all == Combined(answer["eh"], r)
  <2>1. all \in Results
    BY <1>1, CombinesResults DEF Providers
  <2>2. /\ step' = "done" /\ answer' = [answer EXCEPT !["dl"] = r, !["all"] = all]
        /\ UNCHANGED <<site, request, found, by, bearers>>
    BY <1>3 DEF Conclude
  <2> HIDE DEF all
  <2>3. /\ answer' \in [Providers \cup {"all"} -> Results]
        /\ answer'["dl"] = r /\ answer'["all"] = all /\ answer'["eh"] = answer["eh"]
    BY <1>1, <2>1, <2>2 DEF Providers
  <2>4. answer'["all"] = Combined(answer'["eh"], answer'["dl"])
    BY <2>3 DEF all
  <2>5. \A q \in Providers : answer'[q] \in Answers(q)
    BY <1>3, <2>3 DEF Providers, Answers
  <2> QED BY <1>3, <2>2, <2>3, <2>4, <2>5 DEF Providers, Steps, Past
<1> QED BY <1>2, <1>3 DEF Providers

-----------------------------------------------------------------------------
(* The requests.  Taken is what TitleNeverChooses says of a step.            *)

Taken ==
  \A p \in Providers : \A c \in answer'[p].candidates \ answer[p].candidates :
    c.by = "title" /\ bearers \subseteq found =>
      bearers \cap Bearing(p, request.title) \subseteq {c.work}

LEMMA FailureKeeps ==
  ASSUME LookupInv, NEW p \in Providers, NEW kind \in Kinds \cup {"none"}, Conclude(p, Failed(kind)),
         p = "eh" => kind # "none",
         p = "dl" => step \in Past /\ (kind = "none" => answer["eh"].kind = "ok")
  PROVE  LookupInv' /\ Taken
<1> DEFINE r == Failed(kind)
<1>1. r \in Answers(p) /\ r.kind = kind /\ r.candidates = {}
  BY Fails
<1> HIDE DEF r
<1>2. Conclude(p, r)
  BY DEF r
<1>3. /\ LookupInv' /\ answer'[p] = r
      /\ \A q \in Providers \ {p} : answer'[q] = answer[q]
  BY <1>1, <1>2, Concludes
<1> QED BY <1>1, <1>3 DEF Taken

\* A request is refused, or its answer cannot be read.
LEMMA RefusalKeeps ==
  ASSUME LookupInv, NEW p \in Providers, Refused(p) \/ Garbled(p), p = "dl" => step \in Past
  PROVE  LookupInv' /\ Taken
<1>1. PICK kind \in Kinds : Conclude(p, Failed(kind))
  BY DEF Refused, Garbled, Kinds, KindOf, Replies
<1>2. kind # "none"
  BY DEF Kinds
<1> QED BY <1>1, <1>2, FailureKeeps

LEMMA FetchKeeps ==
  ASSUME LookupInv, NEW next \in Steps \ {"done"}, next \in Past => step \in Past,
         NEW works \in SUBSET Works, NEW known \in {"identifier", "title"},
         NEW bearing \in SUBSET Works, Fetch(next, works, known, bearing)
  PROVE  LookupInv' /\ Taken
BY DEF LookupInv, Fetch, Taken

LEMMA BeginKeeps ==
  ASSUME LookupInv, RequestsOK, NEW p \in Providers, NEW search \in Steps \ {"done"},
         NEW fetch \in Steps \ {"done"}, {search, fetch} \cap Past # {} => step \in Past,
         p = "dl" => step \in Past, Begin(p, search, fetch)
  PROVE  LookupInv' /\ Taken
<1>1. Identified(p) \subseteq Works
  BY DEF LookupInv, RequestsOK, Identified, Ids, Providers
<1>2. CASE Conclude(p, Failed("unsupported"))
  BY <1>2, FailureKeeps DEF Kinds
<1>3. CASE Fetch(fetch, Identified(p), "identifier", {})
  BY <1>1, <1>3, FetchKeeps
<1>4. CASE step' = search /\ UNCHANGED <<site, request, found, by, bearers, answer, changes>>
  BY <1>4 DEF LookupInv, Taken
<1> QED BY <1>2, <1>3, <1>4 DEF Begin

\* The one work that was found and is there: no other one that bore the title is left.
LEMMA OneIsLeft ==
  ASSUME NEW S, IsFiniteSet(S), Cardinality(S) = 1
  PROVE  S = {CHOOSE w \in S : TRUE}
BY FS_Singleton

LEMMA SearchKeeps ==
  ASSUME LookupInv, SearchEhentai \/ SearchDlsite
  PROVE  LookupInv' /\ Taken
<1> DEFINE p == IF step = "eh search" THEN "eh" ELSE "dl"
<1>1. p \in Providers /\ (p = "dl" => step \in Past)
  BY DEF SearchEhentai, SearchDlsite, Providers, Past
<1>2. Bearing(p, request.title) \subseteq Works
  BY DEF Bearing
<1>3. CASE Refused(p)
  BY <1>1, <1>3, RefusalKeeps
<1>4. CASE Conclude(p, Failed("no_match"))
  BY <1>1, <1>4, FailureKeeps DEF Kinds
<1>5. CASE \E works \in SUBSET Works : \E next \in {"eh fetch", "dl fetch"} :
             /\ next = "dl fetch" => step \in Past
             /\ Fetch(next, works, "title", Bearing(p, request.title))
  <2>1. PICK works \in SUBSET Works, next \in {"eh fetch", "dl fetch"} :
             /\ next = "dl fetch" => step \in Past
             /\ Fetch(next, works, "title", Bearing(p, request.title))
    BY <1>5
  <2>2. next \in Steps \ {"done"} /\ (next \in Past => step \in Past)
    BY <2>1 DEF Steps, Past
  <2> QED BY <1>2, <2>1, <2>2, FetchKeeps
<1>6. CASE SearchEhentai
  <2>1. p = "eh"
    BY <1>6 DEF SearchEhentai
  <2>2. \/ Refused("eh") \/ Conclude("eh", Failed("no_match"))
        \/ \E listed \in SUBSET Works :
             Fetch("eh fetch", listed, "title", Bearing("eh", request.title))
    BY <1>6 DEF SearchEhentai, There, Bearing
  <2> QED BY <1>3, <1>4, <1>5, <2>1, <2>2
<1>7. CASE SearchDlsite
  <2>1. p = "dl" /\ step \in Past
    BY <1>7 DEF SearchDlsite, Past
  <2>2. \/ Refused("dl") \/ Conclude("dl", Failed("no_match"))
        \/ Fetch("dl fetch", Bearing("dl", request.title), "title", Bearing("dl", request.title))
    BY <1>7 DEF SearchDlsite
  <2> QED BY <1>2, <1>3, <1>4, <1>5, <2>1, <2>2
<1> QED BY <1>6, <1>7

\* What is fetched is taken of the only work left.
LEMMA TakesTheOnlyOne ==
  ASSUME LookupInv, NEW p \in Providers, NEW w \in Works, NEW r \in Answers(p), Conclude(p, r),
         r.kind = "ok", \A c \in r.candidates : c.work = w /\ c.by = by,
         by = "title" => found \cap Bearing(p, request.title) \subseteq {w},
         p = "dl" => step \in Past
  PROVE  LookupInv' /\ Taken
<1>1. /\ LookupInv' /\ answer'[p] = r
      /\ \A q \in Providers \ {p} : answer'[q] = answer[q]
  BY Concludes
<1> QED BY <1>1 DEF Taken

LEMMA FetchesEhentai ==
  ASSUME IsFiniteSet(Works), RequestsOK, LookupInv, FetchEhentai
  PROVE  LookupInv' /\ Taken
<1> DEFINE exact == IF by = "title" THEN (found \cap There("eh")) \cap Bearing("eh", request.title)
                    ELSE found \cap There("eh")
           w == CHOOSE v \in exact : TRUE
           r == MappedGallery(request.fields, w)
<1>1. CASE Refused("eh") \/ Garbled("eh")
  BY <1>1, RefusalKeeps DEF Providers
<1>2. CASE OnlyOne(exact) /\ Conclude("eh", r)
  <2>1. exact \subseteq Works
    BY DEF LookupInv
  <2>2. IsFiniteSet(exact)
    BY <2>1, FS_Subset
  <2>3. exact = {w}
    BY <1>2, <2>2, OneIsLeft DEF OnlyOne
  <2>4. w \in Works
    BY <2>1, <2>3
  <2>5. by = "title" => found \cap Bearing("eh", request.title) \subseteq {w}
    <3>1. Bearing("eh", request.title) \subseteq There("eh")
      BY DEF Bearing, There, Absent
    <3> QED BY <2>3, <3>1
  <2>6. /\ r \in Answers("eh") /\ r.kind = "ok"
        /\ \A c \in r.candidates : c.work = w /\ c.by = by
    BY ZenonT(60), <2>4, MapsGallery DEF LookupInv, RequestsOK
  <2> HIDE DEF w, r
  <2> QED BY <1>2, <2>4, <2>5, <2>6, TakesTheOnlyOne DEF Providers
<1>3. CASE ~ OnlyOne(exact) /\ Conclude("eh", Failed("no_match"))
  BY <1>3, FailureKeeps DEF Kinds, Providers
<1> QED BY <1>1, <1>2, <1>3 DEF FetchEhentai, Outcome

LEMMA FetchesDlsite ==
  ASSUME IsFiniteSet(Works), RequestsOK, LookupInv, FetchDlsite
  PROVE  LookupInv' /\ Taken
<1> DEFINE there == found \cap There("dl")
           w == CHOOSE v \in there : TRUE
           r == MappedProduct(MissingFields, w)
<1>0. step \in Past
  BY DEF FetchDlsite, Past
<1>1. CASE Refused("dl") \/ Garbled("dl")
  BY <1>0, <1>1, RefusalKeeps DEF Providers
<1>2. CASE OnlyOne(there) /\ Conclude("dl", r)
  <2>1. there \subseteq Works
    BY DEF LookupInv
  <2>2. IsFiniteSet(there)
    BY <2>1, FS_Subset
  <2>3. there = {w}
    BY <1>2, <2>2, OneIsLeft DEF OnlyOne
  <2>4. w \in Works
    BY <2>1, <2>3
  <2>5. found \cap Bearing("dl", request.title) \subseteq {w}
    <3>1. Bearing("dl", request.title) \subseteq There("dl")
      BY DEF Bearing, There, Absent
    <3> QED BY <2>3, <3>1
  <2>6. /\ r \in Answers("dl") /\ r.kind = "ok"
        /\ \A c \in r.candidates : c.work = w /\ c.by = by
    <3>1. MissingFields \in SUBSET Fields
      BY DEF LookupInv, RequestsOK, MissingFields
    <3> QED BY ZenonT(60), <2>4, <3>1, MapsProduct DEF LookupInv
  <2> HIDE DEF w, r
  <2> QED BY <1>0, <1>2, <2>4, <2>5, <2>6, TakesTheOnlyOne DEF Providers
<1>3. CASE ~ OnlyOne(there) /\ Conclude("dl", Failed("no_match"))
  BY <1>0, <1>3, FailureKeeps DEF Kinds, Providers
<1> QED BY <1>1, <1>2, <1>3 DEF FetchDlsite, Outcome

LEMMA Asks ==
  ASSUME RequestsOK, LookupInv, AskEhentai \/ AskDlsite
  PROVE  LookupInv' /\ Taken
<1>1. CASE AskEhentai
  <2>1. Begin("eh", "eh search", "eh fetch")
    BY <1>1 DEF AskEhentai
  <2>2. /\ {"eh search", "eh fetch"} \subseteq Steps \ {"done"}
        /\ {"eh search", "eh fetch"} \cap Past = {}
    BY DEF Steps, Past
  <2> QED BY <2>1, <2>2, BeginKeeps DEF Providers
<1>2. CASE AskDlsite
  <2>1. step \in Past /\ {"dl search", "dl fetch"} \subseteq Steps \ {"done"}
    BY <1>2 DEF AskDlsite, Past, Steps
  <2>2. CASE answer["eh"].kind = "ok" /\ Conclude("dl", Failed("none"))
    BY <2>1, <2>2, FailureKeeps DEF Providers
  <2>3. CASE Begin("dl", "dl search", "dl fetch")
    BY <2>1, <2>3, BeginKeeps DEF Providers
  <2> QED BY <1>2, <2>2, <2>3 DEF AskDlsite, Unasked
<1> QED BY <1>1, <1>2

LEMMA LookupStep ==
  ASSUME IsFiniteSet(Works), RequestsOK, LookupInv, [LookupNext]_lookupVars
  PROVE  LookupInv' /\ Taken
<1>1. CASE SiteChanges \/ UNCHANGED lookupVars
  BY <1>1 DEF SiteChanges, lookupVars, LookupInv, Taken
<1> QED BY <1>1, Asks, SearchKeeps, FetchesEhentai, FetchesDlsite DEF LookupNext

LEMMA LookupInits == LookupInit => LookupInv
<1> SUFFICES ASSUME LookupInit PROVE LookupInv
  OBVIOUS
<1>1. \A p \in Providers : Unasked \in Answers(p)
  BY Fails DEF Unasked
<1> QED BY <1>1 DEF LookupInit, LookupInv, Steps, Past, Answers, Providers

-----------------------------------------------------------------------------
LEMMA SitesChange ==
  ASSUME site \in [Providers -> Sites], changes \in 0 .. MaxChanges, [LookupNext]_lookupVars
  PROVE  site' \in [Providers -> Sites] /\ changes' \in 0 .. MaxChanges
<1>1. CASE SiteChanges
  BY <1>1, LookupAssumption DEF SiteChanges
<1>2. CASE UNCHANGED <<site, changes>>
  BY <1>2
<1> QED
  BY <1>1, <1>2, ZenonT(60)
  DEF LookupNext, lookupVars, AskEhentai, SearchEhentai, FetchEhentai, AskDlsite, SearchDlsite,
      FetchDlsite, Begin, Conclude, Fetch, Refused, Garbled, Outcome

(* A lookup and the answers of its providers are of their kinds at every     *)
(* request, whatever the sites reply and however they change meanwhile.      *)
THEOREM LookupTypes == LookupSpec => []LookupTypeOK
<1> DEFINE Inv == LookupInv /\ site \in [Providers -> Sites] /\ changes \in 0 .. MaxChanges
<1>1. Inv /\ [LookupNext]_lookupVars => Inv'
  BY LookupStep, SitesChange, LookupAssumption DEF RequestsOK
<1>2. LookupInit => Inv
  BY LookupInits, LookupAssumption DEF LookupInit
<1>3. Inv => LookupTypeOK
  BY DEF LookupInv, LookupTypeOK, Results
<1> QED BY <1>1, <1>2, <1>3, PTL DEF LookupSpec

\* A title alone never decides between two works (exact_title_gallery, exact_title_result), for
\* any sites and however they change between the search and the request for what it found.
THEOREM TitlesDecideNothing == LookupSpec => TitleNeverChooses
<1>1. LookupInv /\ [LookupNext]_lookupVars => LookupInv' /\ Taken
  BY LookupStep, LookupAssumption DEF RequestsOK
<1>2. Taken => [\A p \in Providers : \A c \in answer'[p].candidates \ answer[p].candidates :
                  c.by = "title" /\ bearers \subseteq found =>
                    bearers \cap Bearing(p, request.title) \subseteq {c.work}]_lookupVars
  BY DEF Taken
<1> QED BY <1>1, <1>2, LookupInits, PTL DEF LookupSpec, TitleNeverChooses

\* The chain of providers loses no trouble that passes, and answers when one of them does
\* (FallbackMetadataProvider::search, combine_provider_errors).
THEOREM TroubleStays == LookupSpec => []TroubleIsKept
<1>1. LookupInv /\ [LookupNext]_lookupVars => LookupInv'
  BY LookupStep, LookupAssumption DEF RequestsOK
<1>2. ASSUME LookupInv PROVE TroubleIsKept
  <2> SUFFICES ASSUME step = "done" PROVE TroubleIsKept
    BY DEF TroubleIsKept
  <2> DEFINE x == answer["eh"]
             y == answer["dl"]
             z == answer["all"]
  <2>1. /\ x \in Results /\ y \in Results /\ z = Combined(x, y)
        /\ x.kind # "none" /\ (y.kind = "none" => x.kind = "ok")
    BY <1>2 DEF LookupInv, Past, Providers
  <2>2. /\ x.kind \in Temporary => z.kind \in Temporary \/ x.kind \in z.issues
        /\ y.kind \in Temporary => z.kind \in Temporary \/ y.kind \in z.issues
        /\ z.kind = "ok" <=> (x.kind = "ok" \/ y.kind = "ok")
    <3> HIDE DEF x, y, z
    <3>1. CASE x.kind # "ok" /\ y.kind # "ok"
      <4>1. z = Failed(IF Priority(y.kind) > Priority(x.kind) THEN y.kind ELSE x.kind)
        BY <2>1, <3>1 DEF Combined, WorseError
      <4>2. x.kind \in Kinds /\ y.kind \in Kinds
        BY <2>1, <3>1 DEF Results
      <4> QED BY <3>1, <4>1, <4>2 DEF Failed, Priority, Temporary, Kinds
    <3>2. CASE ~(x.kind # "ok" /\ y.kind # "ok")
      <4>1. z = Gives(x.candidates \cup y.candidates,
                      x.issues \cup y.issues \cup Issue(x) \cup Issue(y))
        BY <2>1, <3>2 DEF Combined
      <4> QED BY <3>2, <4>1 DEF Gives, Issue, Temporary, Nothing
    <3> QED BY <3>1, <3>2
  <2> QED BY <2>2 DEF TroubleIsKept, Providers
<1> QED BY <1>1, <1>2, LookupInits, PTL DEF LookupSpec

-----------------------------------------------------------------------------
(* The session.                                                             *)

Sites3 == {Null, "exhentai", "ehentai"}
Cookie == Whole \cup Partial \cup {Null}
TaskRecord ==
  [kind : Session!Kinds \cup {"none"},
   step : {"idle", "write", "apply", "reset", "look", "ask", "tell", "again", "refer", "done"},
   cookie : Cookie, site : Sites3, base : Sites3, told : Session!Tolds \cup {Null}]

\* what a request of its kind can be doing, and what it has done by then
TaskOK(k) ==
  /\ k.kind \in {"put", "delete"} <=> k.step \in {"write", "apply", "reset"}
  /\ k.kind = "lookup" => k.step \in {"look", "ask", "refer", "done"}
  /\ k.step = "again" => k.kind = "search"
  /\ k.step = "tell" => k.told \in Session!Tolds
  /\ k.kind = "lookup" /\ k.step = "refer" =>
       k.site = IF k.cookie # Null THEN "exhentai" ELSE "ehentai"
  /\ k.kind = "lookup" /\ k.step = "done" =>
       k.base = IF k.cookie # Null THEN "exhentai" ELSE "ehentai"

TasksOK == \A t \in Threads : TaskOK(task[t])

\* only a writer keeps the store from what the catalog holds, and only between its two steps
StoreIsBehind ==
  /\ env # Null => store = env
  /\ ~crossed =>
       /\ \A t, u \in Threads : Session!Writes(t) /\ Session!Writes(u) => t = u
       /\ \A t \in Threads : task[t].step = "apply" => saved = task[t].cookie
       /\ (\A t \in Threads : task[t].step # "apply") => store = Session!Effective

SessionInv == Session!SessionTypeOK /\ TasksOK /\ StoreIsBehind

LEMMA TaskType ==
  ASSUME SessionInv, NEW t \in Threads
  PROVE  task \in [Threads -> TaskRecord] /\ task[t] \in TaskRecord /\ TaskOK(task[t])
BY DEF SessionInv, Session!SessionTypeOK, TasksOK, TaskRecord, Cookie, Sites3, Session!Cookies,
       Session!Exhentai, Session!Ehentai

(* A step that changes nothing but what one request, which writes nothing, *)
(* is doing and what was last told.                                        *)
LEMMA OneGoesOn ==
  ASSUME SessionInv, NEW t \in Threads, NEW k \in TaskRecord, TaskOK(k),
         ~Session!Writes(t), k.kind \notin {"put", "delete"},
         task' = [task EXCEPT ![t] = k], UNCHANGED <<saved, env, store, restarts>>,
         crossed' \in BOOLEAN, crossed => crossed', calls' \in 0 .. MaxCalls,
         last' = Null \/ last' \in [status : Session!Tolds, of : Cookie]
  PROVE  SessionInv'
<1>1. /\ task \in [Threads -> TaskRecord] /\ task[t] \in TaskRecord /\ TaskOK(task[t])
  BY TaskType
<1>2. /\ task' \in [Threads -> TaskRecord] /\ task'[t] = k
      /\ \A u \in Threads \ {t} : task'[u] = task[u]
  BY <1>1
<1>3. Session!SessionTypeOK'
  BY <1>2 DEF SessionInv, Session!SessionTypeOK, TaskRecord, Cookie, Sites3, Session!Cookies,
       Session!Exhentai, Session!Ehentai
<1>4. TasksOK'
  BY <1>2 DEF SessionInv, TasksOK
<1>5. task[t].step # "apply" /\ k.step # "apply"
  BY <1>1 DEF TaskOK, Session!Writes, TaskRecord
<1>6. StoreIsBehind'
  BY <1>2, <1>5 DEF SessionInv, StoreIsBehind, Session!Writes, Session!Effective, Session!Readable
<1> QED BY <1>3, <1>4, <1>6 DEF SessionInv

LEMMA StatusesTold ==
  /\ Session!SessionStatuses \subseteq Session!Tolds
  /\ Session!PublicSessionStatuses \subseteq Session!Tolds
  /\ \A x \in BOOLEAN : Session!SearchKinds(x) \ {"ok"} \subseteq Session!Tolds
<1>1. \A p \in Session!Page : Session!SessionStatus(p) \in Session!Tolds
  BY DEF Session!SessionStatus, Session!Tolds
<1>2. \A p \in Session!Page : Session!PublicSessionStatus(p) \in Session!Tolds
  BY DEF Session!PublicSessionStatus, Session!Tolds
<1>3. \A s \in Session!Statuses, x \in BOOLEAN : Session!HttpStatus(s, x) \in Session!Tolds \cup {"ok"}
  BY DEF Session!HttpStatus, Session!Tolds
<1>4. \A p \in Session!Page, x \in BOOLEAN : Session!PageBody(p, x) \in Session!Tolds \cup {"ok"}
  <2> TAKE p \in Session!Page, x \in BOOLEAN
  <2>1. Session!HttpStatus(p.status, x) \in Session!Tolds \cup {"ok"}
    BY <1>3 DEF Session!Page
  <2> DEFINE T == Session!Tolds \cup {"ok"}
  <2>2. /\ "parse_error" \in T /\ "rate_limited" \in T /\ "invalid_cookie" \in T
        /\ "exhentai_unavailable" \in T /\ "ok" \in T
    BY DEF Session!Tolds
  <2>3. Session!HttpStatus(p.status, x) \in T
    BY <2>1
  <2> HIDE DEF T
  <2>4. Session!PageBody(p, x) \in T
    BY <2>2, <2>3, ZenonT(60) DEF Session!PageBody
  <2> QED BY <2>4 DEF T
<1> QED BY <1>1, <1>2, <1>4 DEF Session!SessionStatuses, Session!PublicSessionStatuses,
             Session!SearchKinds, Session!PublicKinds, Session!ExhentaiKinds

LEMMA IdleTask == Session!Idle \in TaskRecord /\ TaskOK(Session!Idle) /\ Session!Idle.kind = "none"
                  /\ Session!Idle.step = "idle"
BY DEF Session!Idle, TaskRecord, TaskOK, Cookie, Sites3, Session!Tolds

(* A request ends, and with it what it told perhaps. *)
LEMMA OneEnds ==
  ASSUME SessionInv, NEW t \in Threads, ~Session!Writes(t), Session!End(t),
         UNCHANGED <<saved, env, store, restarts, calls, crossed>>,
         last' \in {last, [status |-> task[t].told, of |-> task[t].cookie]},
         last' # last => task[t].told \in Session!Tolds
  PROVE  SessionInv'
<1>1. task[t] \in TaskRecord
  BY TaskType
<1>2. last' = Null \/ last' \in [status : Session!Tolds, of : Cookie]
  <2>1. CASE last' = last
    BY <2>1 DEF SessionInv, Session!SessionTypeOK, Cookie, Session!Cookies
  <2>2. CASE last' # last
    <3>1. task[t].told \in Session!Tolds /\ task[t].cookie \in Cookie
      BY <1>1, <2>2 DEF TaskRecord
    <3> QED BY <2>2, <3>1
  <2> QED BY <2>1, <2>2
<1>3. crossed' \in BOOLEAN /\ calls' \in 0 .. MaxCalls
  BY DEF SessionInv, Session!SessionTypeOK
<1>4. task' = [task EXCEPT ![t] = Session!Idle]
  BY DEF Session!End
<1> HIDE DEF SessionInv
<1> QED BY <1>2, <1>3, <1>4, IdleTask, OneGoesOn

LEMMA StartKeeps ==
  ASSUME SessionInv, NEW t \in Threads, NEW kind \in Session!Kinds,
         NEW cookie \in Session!Cookies \cup {Null}, Session!Start(t, kind, cookie)
  PROVE  SessionInv'
<1> DEFINE k == [Session!Idle EXCEPT !.kind = kind, !.cookie = cookie,
                    !.step = IF kind \in {"put", "delete"} THEN "write" ELSE "look"]
<1>1. /\ task[t] = Session!Idle /\ (cookie # Null) <=> (kind = "put")
      /\ calls < MaxCalls /\ calls' = calls + 1 /\ task' = [task EXCEPT ![t] = k]
      /\ crossed' = (crossed \/ \E u \in Threads \ {t} :
                   IF kind \in {"put", "delete"} THEN Session!Judges(u)
                   ELSE kind = "test" /\ Session!Writes(u))
      /\ UNCHANGED <<saved, env, store, last, restarts>>
  BY DEF Session!Start
<1>2. /\ k = [kind |-> kind, cookie |-> cookie, site |-> Null, base |-> Null, told |-> Null,
              step |-> IF kind \in {"put", "delete"} THEN "write" ELSE "look"]
  <2> DEFINE j == [kind |-> "none", step |-> "idle", cookie |-> Null, site |-> Null, base |-> Null,
                   told |-> Null]
             s == IF kind \in {"put", "delete"} THEN "write" ELSE "look"
  <2>1. Session!Idle = j
    BY DEF Session!Idle
  <2> DEFINE l == [kind |-> kind, step |-> "idle", cookie |-> cookie, site |-> Null, base |-> Null,
                   told |-> Null]
             i == [kind |-> kind, step |-> "idle", cookie |-> Null, site |-> Null, base |-> Null,
                   told |-> Null]
  <2>2. [j EXCEPT !.kind = kind, !.cookie = cookie] = l
    <3>1. [j EXCEPT !.kind = kind] = i
      OBVIOUS
    <3>2. [i EXCEPT !.cookie = cookie] = l
      OBVIOUS
    <3> HIDE DEF i, j, l
    <3> QED BY <3>1, <3>2
  <2> HIDE DEF s
  <2>3. [l EXCEPT !.step = s]
          = [kind |-> kind, cookie |-> cookie, site |-> Null, base |-> Null, told |-> Null, step |-> s]
    OBVIOUS
  <2>4. k = [[Session!Idle EXCEPT !.kind = kind, !.cookie = cookie] EXCEPT !.step = s]
    BY DEF s
  <2> HIDE DEF j, l, k
  <2>5. k = [l EXCEPT !.step = s]
    BY <2>1, <2>2, <2>4
  <2> QED BY <2>3, <2>5 DEF s
<1>3. k \in TaskRecord /\ TaskOK(k)
  <2>1. k \in TaskRecord
    BY <1>2 DEF TaskRecord, Cookie, Sites3, Session!Cookies
  <2>2. TaskOK(k)
    BY <1>2 DEF TaskOK, Session!Kinds
  <2> QED BY <2>1, <2>2
<1>4. calls' \in 0 .. MaxCalls /\ crossed' \in BOOLEAN /\ (crossed => crossed')
  BY <1>1, SessionAssumption DEF SessionInv, Session!SessionTypeOK
<1>5. last' = Null \/ last' \in [status : Session!Tolds, of : Cookie]
  BY <1>1 DEF SessionInv, Session!SessionTypeOK, Cookie, Session!Cookies
<1>6. ~Session!Writes(t) /\ task[t].step = "idle"
  <2>1. task[t] = Session!Idle
    BY DEF Session!Start
  <2> QED BY <2>1, IdleTask DEF Session!Writes
<1>7. k.kind = kind /\ k.step = IF kind \in {"put", "delete"} THEN "write" ELSE "look"
  BY <1>2
<1> HIDE DEF k
<1>8. CASE kind \notin {"put", "delete"}
  BY <1>1, <1>3, <1>4, <1>5, <1>6, <1>7, <1>8, OneGoesOn
<1>9. CASE kind \in {"put", "delete"}
  <2>1. /\ task \in [Threads -> TaskRecord] /\ task' \in [Threads -> TaskRecord] /\ task'[t] = k
        /\ \A u \in Threads \ {t} : task'[u] = task[u]
    BY <1>1, <1>3, TaskType
  <2>2. Session!SessionTypeOK'
    BY <1>1, <1>4, <2>1 DEF SessionInv, Session!SessionTypeOK, TaskRecord, Cookie, Sites3,
         Session!Cookies, Session!Exhentai, Session!Ehentai
  <2>3. TasksOK'
    BY <1>3, <2>1 DEF SessionInv, TasksOK
  <2>4. ~crossed' => \A u \in Threads \ {t} : ~Session!Writes(u)
    BY <1>1, <1>9 DEF Session!Judges
  <2>5. k.step # "apply"
    BY <1>7, <1>9
  <2>6. ~crossed' => /\ \A u \in Threads : task[u].step # "apply"
                     /\ \A u \in Threads : task'[u].step # "apply"
    <3> SUFFICES ASSUME ~crossed', NEW u \in Threads
                 PROVE  task[u].step # "apply" /\ task'[u].step # "apply"
      OBVIOUS
    <3>1. CASE u = t
      BY <1>6, <2>1, <2>5, <3>1
    <3>2. CASE u # t
      <4>1. ~Session!Writes(u) /\ TaskOK(task[u])
        BY <2>4, <3>2, TaskType
      <4> QED BY <2>1, <3>2, <4>1 DEF Session!Writes, TaskOK
    <3> QED BY <3>1, <3>2
  <2>7. ~crossed' => \A u, v \in Threads : Session!Writes(u)' /\ Session!Writes(v)' => u = v
    BY <2>1, <2>4 DEF Session!Writes
  <2>8. StoreIsBehind'
    BY <1>1, <2>6, <2>7 DEF SessionInv, StoreIsBehind, Session!Effective, Session!Readable
  <2> QED BY <2>2, <2>3, <2>8 DEF SessionInv
<1> QED BY <1>8, <1>9

Steps3 == {"idle", "write", "apply", "reset", "look", "ask", "tell", "again", "refer", "done"}

LEMMA StepTurns ==
  ASSUME NEW k \in TaskRecord, NEW s \in Steps3, NEW l, l = [k EXCEPT !.step = s]
  PROVE  /\ l \in TaskRecord /\ l.kind = k.kind /\ l.step = s /\ l.cookie = k.cookie
         /\ l.site = k.site /\ l.base = k.base /\ l.told = k.told
BY DEF TaskRecord, Steps3

(* What no writer does leaves the store and the catalog alone. *)
LEMMA ReadersKeep ==
  ASSUME SessionInv, NEW t \in Threads,
         \/ Session!Looks(t) \/ Session!Tests(t) \/ Session!Searches(t) \/ Session!SearchesAgain(t)
         \/ Session!Galleries(t) \/ Session!Refers(t)
  PROVE  SessionInv'
<1>1. /\ task[t] \in TaskRecord /\ TaskOK(task[t])
  BY TaskType
<1>2. /\ UNCHANGED <<saved, env, store, restarts, last, calls, crossed>>
      /\ calls \in 0 .. MaxCalls /\ crossed \in BOOLEAN /\ store \in Cookie
      /\ last = Null \/ last \in [status : Session!Tolds, of : Cookie]
  BY DEF SessionInv, Session!SessionTypeOK, Cookie, Session!Cookies, Session!Looks, Session!Tests,
         Session!Searches, Session!SearchesAgain, Session!Galleries, Session!Refers, Session!Step
<1>3. SUFFICES ASSUME task[t].step \notin {"write", "apply", "reset"}
               PROVE  \E k \in TaskRecord : /\ TaskOK(k) /\ k.kind = task[t].kind
                                            /\ task' = [task EXCEPT ![t] = k]
  <2>1. task[t].step \notin {"write", "apply", "reset"}
    BY DEF Session!Looks, Session!Tests, Session!Searches, Session!SearchesAgain,
           Session!Galleries, Session!Refers
  <2>2. task[t].kind \notin {"put", "delete"}
    BY <1>1, <2>1 DEF TaskOK
  <2>3. PICK k \in TaskRecord : /\ TaskOK(k) /\ k.kind = task[t].kind
                                /\ task' = [task EXCEPT ![t] = k]
    BY <1>3, <2>1
  <2> QED BY <1>2, <2>2, <2>3, OneGoesOn DEF Session!Writes
<1>4. task[t].kind \notin {"put", "delete"}
  BY <1>1, <1>3 DEF TaskOK
<1>5. CASE Session!Looks(t)
  <2> DEFINE untestable == task[t].kind = "test" /\ store = Null
             x == IF store # Null THEN "exhentai" ELSE "ehentai"
             s == IF untestable THEN "tell" ELSE "ask"
             o == IF untestable THEN "not_configured" ELSE Null
             k == [task[t] EXCEPT !.cookie = store, !.site = x, !.step = s, !.told = o]
  <2>1. x \in Sites3 /\ s \in Steps3 /\ o \in Session!Tolds \cup {Null}
    BY DEF Sites3, Steps3, Session!Tolds
  <2>2. /\ s = "tell" => o \in Session!Tolds /\ task[t].kind = "test"
        /\ s \in {"tell", "ask"}
    BY DEF Session!Tolds
  <2>3. task[t].step = "look" /\ task' = [task EXCEPT ![t] = k]
    BY <1>5 DEF Session!Looks, Session!Exhentai, Session!Ehentai
  <2> HIDE DEF x, s, o
  <2>4. /\ k \in TaskRecord /\ k.kind = task[t].kind /\ k.step = s /\ k.cookie = store
        /\ k.site = x /\ k.told = o
    BY <1>1, <1>2, <2>1 DEF TaskRecord, Steps3
  <2> HIDE DEF k
  <2>5. TaskOK(k)
    BY <1>4, <2>2, <2>4 DEF TaskOK
  <2> QED BY <2>3, <2>4, <2>5
<1>6. CASE Session!Tests(t)
  <2>1. PICK o \in {"network_error"} \cup (IF task[t].cookie \in Whole THEN Session!SessionStatuses
                                           ELSE Session!PublicSessionStatuses) :
          task' = [task EXCEPT ![t].told = o, ![t].step = "tell"]
    BY <1>6 DEF Session!Tests
  <2>2. o \in Session!Tolds
    BY StatusesTold DEF Session!Tolds
  <2> DEFINE k == [task[t] EXCEPT !.told = o, !.step = "tell"]
  <2>3. task' = [task EXCEPT ![t] = k] /\ task[t].kind = "test"
    <3>1. task \in [Threads -> TaskRecord]
      BY TaskType
    <3> QED BY <1>6, <2>1, <3>1 DEF Session!Tests
  <2>4. /\ k \in TaskRecord /\ k.kind = task[t].kind /\ k.step = "tell" /\ k.told = o
    BY <1>1, <2>2 DEF TaskRecord
  <2> HIDE DEF k
  <2>5. TaskOK(k)
    BY <2>2, <2>3, <2>4 DEF TaskOK
  <2> QED BY <2>3, <2>4, <2>5
<1>7. CASE Session!Galleries(t)
  <2> DEFINE x == IF store # Null THEN "exhentai" ELSE "ehentai"
             k == [task[t] EXCEPT !.cookie = store, !.step = "refer", !.site = x]
  <2>1. x \in Sites3
    BY DEF Sites3
  <2>2. task' = [task EXCEPT ![t] = k] /\ task[t].kind = "lookup"
    BY <1>7 DEF Session!Galleries, Session!Exhentai, Session!Ehentai
  <2>3. /\ k \in TaskRecord /\ k.kind = task[t].kind /\ k.step = "refer" /\ k.cookie = store
        /\ k.site = x
    <3> HIDE DEF x
    <3> QED BY <1>1, <1>2, <2>1 DEF TaskRecord
  <2>4. k.site = IF k.cookie # Null THEN "exhentai" ELSE "ehentai"
    BY <2>3
  <2> HIDE DEF k, x
  <2>5. TaskOK(k)
    BY <2>2, <2>3, <2>4 DEF TaskOK
  <2> QED BY <2>2, <2>3, <2>5
<1>8. CASE Session!Refers(t)
  <2> DEFINE k == [task[t] EXCEPT !.base = Session!Base(t), !.step = "done"]
  <2>1. task' = [task EXCEPT ![t] = k] /\ task[t].step = "refer"
    <3>1. task \in [Threads -> TaskRecord]
      BY TaskType
    <3> QED BY <1>8, <3>1 DEF Session!Refers
  <2>2. /\ k \in TaskRecord /\ k.kind = task[t].kind /\ k.step = "done" /\ k.cookie = task[t].cookie
        /\ k.base = task[t].site
    BY <1>1 DEF TaskRecord, Session!Base
  <2> HIDE DEF k
  <2>3. TaskOK(k)
    BY <1>1, <1>4, <2>1, <2>2 DEF TaskOK
  <2> QED BY <2>1, <2>2, <2>3
<1>9. CASE Session!Searches(t)
  <2>1. PICK o \in Session!SearchKinds(task[t].site = "exhentai") \cup
                   {"network_error", "parse_error"} :
          task' = [task EXCEPT ![t] =
            IF o = "ok" THEN [@ EXCEPT !.told = task[t].site, !.step = "done"]
            ELSE [@ EXCEPT !.told = o,
                           !.step = IF task[t].cookie # Null /\ Session!FallsBack(o) THEN "again"
                                    ELSE "done"]]
    BY <1>9 DEF Session!Searches, Session!Exhentai
  <2>2. task[t].kind = "search"
    BY <1>9 DEF Session!Searches
  <2>3. task[t].site \in Session!Tolds \cup {Null}
    BY <1>1 DEF TaskRecord, Sites3, Session!Tolds
  <2>4. o # "ok" => o \in Session!Tolds
    BY StatusesTold DEF Session!Tolds
  <2> DEFINE s == IF task[t].cookie # Null /\ Session!FallsBack(o) THEN "again" ELSE "done"
             k == [task[t] EXCEPT !.told = task[t].site, !.step = "done"]
             l == [task[t] EXCEPT !.told = o, !.step = s]
  <2>5. s \in {"again", "done"}
    OBVIOUS
  <2>6. task' = [task EXCEPT ![t] = IF o = "ok" THEN k ELSE l]
    BY <2>1
  <2> HIDE DEF s
  <2>7. /\ k \in TaskRecord /\ k.kind = "search" /\ k.step = "done"
        /\ o # "ok" => l \in TaskRecord /\ l.kind = "search" /\ l.step \in {"again", "done"}
    BY <1>1, <2>2, <2>3, <2>4, <2>5 DEF TaskRecord
  <2> HIDE DEF k, l
  <2>8. TaskOK(k) /\ (o # "ok" => TaskOK(l))
    BY <2>7 DEF TaskOK
  <2> QED BY <2>2, <2>6, <2>7, <2>8
<1>10. CASE Session!SearchesAgain(t)
  <2> DEFINE k == [task[t] EXCEPT !.told = "ehentai", !.site = "ehentai", !.step = "done"]
             l == [task[t] EXCEPT !.step = "done"]
  <2>1. task' = [task EXCEPT ![t] = k] \/ task' = [task EXCEPT ![t] = l]
    <3>1. task \in [Threads -> TaskRecord]
      BY TaskType
    <3> QED BY <1>10, <3>1 DEF Session!SearchesAgain, Session!Step, Session!Ehentai
  <2>2. task[t].kind = "search"
    BY <1>1, <1>10 DEF Session!SearchesAgain, TaskOK
  <2>3. /\ k \in TaskRecord /\ k.kind = "search" /\ k.step = "done"
        /\ l \in TaskRecord /\ l.kind = "search" /\ l.step = "done"
    BY <1>1, <2>2 DEF TaskRecord, Sites3, Session!Tolds
  <2> HIDE DEF k, l
  <2>4. TaskOK(k) /\ TaskOK(l)
    BY <2>3 DEF TaskOK
  <2> QED BY <2>1, <2>2, <2>3, <2>4
<1> QED BY <1>5, <1>6, <1>7, <1>8, <1>9, <1>10

(* A step of a writer, which is alone as long as nothing crossed. *)
LEMMA WriterGoesOn ==
  ASSUME SessionInv, NEW t \in Threads, NEW k \in TaskRecord, TaskOK(k), Session!Writes(t),
         task' = [task EXCEPT ![t] = k], k.kind \in {task[t].kind, "none"},
         UNCHANGED <<env, restarts, calls>>, saved' \in Cookie \cup {Sealed}, store' \in Cookie,
         crossed' = crossed \/ crossed' = TRUE,
         last' = Null \/ last' \in [status : Session!Tolds, of : Cookie],
         env # Null => store' = env,
         ~crossed' => IF k.step = "apply" THEN saved' = k.cookie
                      ELSE store' = Session!Effective'
  PROVE  SessionInv'
<1>1. /\ task \in [Threads -> TaskRecord] /\ task[t] \in TaskRecord /\ TaskOK(task[t])
  BY TaskType
<1>2. /\ task' \in [Threads -> TaskRecord] /\ task'[t] = k
      /\ \A u \in Threads \ {t} : task'[u] = task[u]
  BY <1>1
<1>3. crossed' \in BOOLEAN /\ (crossed => crossed')
  BY DEF SessionInv, Session!SessionTypeOK
<1>4. Session!SessionTypeOK'
  BY <1>2, <1>3 DEF SessionInv, Session!SessionTypeOK, TaskRecord, Cookie, Sites3,
       Session!Cookies, Session!Exhentai, Session!Ehentai
<1>5. TasksOK'
  BY <1>2 DEF SessionInv, TasksOK
<1>6. ~crossed' => \A u \in Threads \ {t} : ~Session!Writes(u) /\ task[u].step # "apply"
  <2> SUFFICES ASSUME ~crossed', NEW u \in Threads \ {t}
               PROVE  ~Session!Writes(u) /\ task[u].step # "apply"
    OBVIOUS
  <2>1. ~Session!Writes(u)
    BY <1>3 DEF SessionInv, StoreIsBehind
  <2>2. TaskOK(task[u])
    BY TaskType
  <2> QED BY <2>1, <2>2 DEF TaskOK, Session!Writes
<1>7. StoreIsBehind'
  <2>1. ~crossed' => \A u, v \in Threads : Session!Writes(u)' /\ Session!Writes(v)' => u = v
    BY <1>2, <1>6 DEF Session!Writes
  <2>2. env' # Null => store' = env'
    OBVIOUS
  <2>3. ~crossed' => /\ \A u \in Threads : task'[u].step = "apply" => saved' = task'[u].cookie
                     /\ (\A u \in Threads : task'[u].step # "apply") => store' = Session!Effective'
    BY <1>2, <1>6
  <2> QED BY <2>1, <2>2, <2>3 DEF StoreIsBehind
<1> QED BY <1>4, <1>5, <1>7 DEF SessionInv

LEMMA WritersKeep ==
  ASSUME SessionInv, NEW t \in Threads,
         \/ Session!Saves(t) \/ Session!SaveFails(t) \/ Session!Applies(t) \/ Session!Resets(t)
  PROVE  SessionInv'
<1>1. /\ task \in [Threads -> TaskRecord] /\ task[t] \in TaskRecord /\ TaskOK(task[t])
  BY TaskType
<1>2. /\ saved \in Cookie \cup {Sealed} /\ env \in Cookie /\ store \in Cookie
      /\ last = Null \/ last \in [status : Session!Tolds, of : Cookie]
      /\ crossed \in BOOLEAN
  BY DEF SessionInv, Session!SessionTypeOK, Cookie, Session!Cookies
<1>3. Session!Writes(t) /\ task[t].kind \in {"put", "delete"}
  BY <1>1 DEF Session!Saves, Session!SaveFails, Session!Applies, Session!Resets, TaskOK,
              Session!Writes
<1>4. \A c \in Cookie : c = IF c \in Session!Cookies THEN c ELSE Null
  BY DEF Cookie, Session!Cookies
<1>5. env # Null => store = env
  BY DEF SessionInv, StoreIsBehind
<1>6. ~crossed => /\ task[t].step = "apply" => saved = task[t].cookie
                  /\ task[t].step # "apply" => store = Session!Effective
  <2> SUFFICES ASSUME ~crossed
               PROVE  /\ task[t].step = "apply" => saved = task[t].cookie
                      /\ task[t].step # "apply" => store = Session!Effective
    OBVIOUS
  <2>1. \A u \in Threads \ {t} : ~Session!Writes(u) /\ TaskOK(task[u])
    BY <1>3, TaskType DEF SessionInv, StoreIsBehind
  <2>2. \A u \in Threads \ {t} : task[u].step # "apply"
    BY <2>1 DEF TaskOK, Session!Writes
  <2> QED BY <2>2 DEF SessionInv, StoreIsBehind
<1>7. Session!Idle \in TaskRecord /\ TaskOK(Session!Idle)
      /\ Session!Idle.kind = "none" /\ Session!Idle.step = "idle"
  BY IdleTask
<1>8. CASE Session!Saves(t)
  <2>1. /\ task[t].step = "write" /\ saved' = task[t].cookie
        /\ UNCHANGED <<env, store, last, calls, restarts>>
        /\ \/ Session!Step(t, "apply") /\ UNCHANGED crossed
           \/ Session!End(t) /\ crossed' = TRUE
    BY <1>8 DEF Session!Saves
  <2>2. saved' \in Cookie
    BY <1>1, <2>1 DEF TaskRecord
  <2>3. CASE Session!End(t) /\ crossed' = TRUE
    <3>1. task' = [task EXCEPT ![t] = Session!Idle]
      BY <2>3 DEF Session!End
    <3> QED BY <1>2, <1>3, <1>5, <1>7, <2>1, <2>2, <2>3, <3>1, WriterGoesOn
  <2>4. CASE Session!Step(t, "apply") /\ UNCHANGED crossed
    <3> PICK k : k = [task[t] EXCEPT !.step = "apply"]
      OBVIOUS
    <3>1. task' = [task EXCEPT ![t] = k]
      BY <1>1, <2>4 DEF Session!Step
    <3>2. k \in TaskRecord /\ k.kind = task[t].kind /\ k.step = "apply" /\ k.cookie = task[t].cookie
      BY <1>1, StepTurns DEF Steps3
    <3>3. TaskOK(k)
      BY <1>3, <3>2 DEF TaskOK
    <3> QED BY <1>2, <1>3, <1>5, <2>1, <2>2, <2>4, <3>1, <3>2, <3>3, WriterGoesOn
  <2> QED BY <2>1, <2>3, <2>4
<1>9. CASE Session!SaveFails(t)
  <2>1. /\ task[t].step = "write" /\ task' = [task EXCEPT ![t] = Session!Idle]
        /\ UNCHANGED <<saved, env, store, last, calls, restarts, crossed>>
    BY <1>9 DEF Session!SaveFails, Session!End
  <2>2. ~crossed' => store' = Session!Effective'
    BY <1>6, <2>1 DEF Session!Effective, Session!Readable
  <2> QED BY <1>2, <1>3, <1>5, <1>7, <2>1, <2>2, WriterGoesOn
<1>10. CASE Session!Applies(t)
  <2>1. /\ task[t].step = "apply" /\ store' = Session!Applied(t)
        /\ IF env # Null THEN Session!End(t) ELSE Session!Step(t, "reset")
        /\ UNCHANGED <<saved, env, last, calls, restarts, crossed>>
    BY <1>10 DEF Session!Applies
  <2>2. store' = IF env # Null THEN store ELSE task[t].cookie
    BY <2>1 DEF Session!Applied
  <2>3. task[t].cookie \in Cookie
    BY <1>1 DEF TaskRecord
  <2>4. ~crossed' => store' = Session!Effective'
    <3>1. ~crossed' => saved = task[t].cookie
      BY <1>6, <2>1
    <3> QED BY <1>4, <1>5, <2>1, <2>2, <2>3, <3>1 DEF Session!Effective, Session!Readable
  <2>5. CASE env # Null
    <3>1. task' = [task EXCEPT ![t] = Session!Idle]
      BY <2>1, <2>5 DEF Session!End
    <3> QED BY <1>2, <1>3, <1>5, <1>7, <2>1, <2>2, <2>4, <2>5, <3>1, WriterGoesOn
  <2>6. CASE env = Null
    <3> PICK k : k = [task[t] EXCEPT !.step = "reset"]
      OBVIOUS
    <3>1. task' = [task EXCEPT ![t] = k]
      BY <1>1, <2>1, <2>6 DEF Session!Step
    <3>2. k \in TaskRecord /\ k.kind = task[t].kind /\ k.step = "reset" /\ k.cookie = task[t].cookie
      BY <1>1, StepTurns DEF Steps3
    <3>3. TaskOK(k)
      BY <1>3, <3>2 DEF TaskOK
    <3> QED BY <1>2, <1>3, <2>1, <2>2, <2>3, <2>4, <2>6, <3>1, <3>2, <3>3, WriterGoesOn
  <2> QED BY <2>5, <2>6
<1>11. CASE Session!Resets(t)
  <2>1. /\ task[t].step = "reset" /\ task' = [task EXCEPT ![t] = Session!Idle]
        /\ last' = Session!Forgotten(t)
        /\ UNCHANGED <<saved, env, store, calls, restarts, crossed>>
    BY <1>11 DEF Session!Resets, Session!End
  <2>2. last' = Null \/ last' \in [status : Session!Tolds, of : Cookie]
    BY <2>1 DEF Session!Forgotten, Session!Tolds, Cookie
  <2>3. ~crossed' => store' = Session!Effective'
    BY <1>6, <2>1 DEF Session!Effective, Session!Readable
  <2> QED BY <1>2, <1>3, <1>5, <1>7, <2>1, <2>2, <2>3, WriterGoesOn
<1> QED BY <1>8, <1>9, <1>10, <1>11

LEMMA RestartKeeps ==
  ASSUME SessionInv, Session!Restart
  PROVE  SessionInv'
<1>1. /\ restarts < MaxRestarts /\ restarts' = restarts + 1
      /\ env' \in Session!Cookies \cup {Null}
      /\ saved' \in {saved, Sealed}
      /\ store' = Session!Effective' /\ last' = Null
      /\ task' = [t \in Threads |-> Session!Idle] /\ crossed' = FALSE /\ calls' = calls
  BY DEF Session!Restart
<1>2. \A t \in Threads : task'[t] = Session!Idle
  BY <1>1
<1>3. \A t \in Threads : /\ task'[t].step = "idle" /\ task'[t].kind = "none"
                         /\ TaskOK(task'[t]) /\ task'[t] \in TaskRecord
  BY <1>2, IdleTask
<1>4. Session!SessionTypeOK'
  <2>1. task' \in [Threads -> TaskRecord]
    BY <1>1, IdleTask
  <2>2. store' \in Cookie
    BY <1>1 DEF Session!Effective, Session!Readable, Cookie, Session!Cookies
  <2>3. restarts' \in 0 .. MaxRestarts
    BY <1>1, SessionAssumption DEF SessionInv, Session!SessionTypeOK
  <2> QED BY <1>1, <2>1, <2>2, <2>3 DEF SessionInv, Session!SessionTypeOK, TaskRecord, Cookie,
           Sites3, Session!Cookies, Session!Exhentai, Session!Ehentai
<1>5. TasksOK'
  BY <1>3 DEF TasksOK
<1>6. StoreIsBehind'
  <2>1. env' # Null => store' = env'
    BY <1>1 DEF Session!Effective
  <2> QED BY <1>1, <1>3, <2>1 DEF StoreIsBehind, Session!Writes
<1> QED BY <1>4, <1>5, <1>6 DEF SessionInv

LEMMA SessionBegins == Session!SessionInit => SessionInv
<1> SUFFICES ASSUME Session!SessionInit PROVE SessionInv
  OBVIOUS
<1>1. /\ saved \in Session!Cookies \cup {Null, Sealed} /\ env \in Session!Cookies \cup {Null}
      /\ store = Session!Effective /\ last = Null
      /\ task = [t \in Threads |-> Session!Idle]
      /\ calls = 0 /\ restarts = 0 /\ crossed = FALSE
  BY DEF Session!SessionInit
<1>2. \A t \in Threads : /\ task[t].step = "idle" /\ task[t].kind = "none"
                         /\ TaskOK(task[t]) /\ task[t] \in TaskRecord
  BY <1>1, IdleTask
<1>3. Session!SessionTypeOK
  <2>1. task \in [Threads -> TaskRecord]
    BY <1>1, IdleTask
  <2>2. store \in Cookie
    BY <1>1 DEF Session!Effective, Session!Readable, Cookie, Session!Cookies
  <2>3. calls \in 0 .. MaxCalls /\ restarts \in 0 .. MaxRestarts
    BY <1>1, SessionAssumption
  <2>4. crossed \in BOOLEAN
    BY <1>1
  <2>5. /\ saved \in Session!Cookies \cup {Null, Sealed} /\ env \in Session!Cookies \cup {Null}
        /\ last = Null
    BY <1>1
  <2> QED BY <2>1, <2>2, <2>3, <2>4, <2>5 DEF Session!SessionTypeOK, TaskRecord, Cookie,
           Sites3, Session!Cookies, Session!Exhentai, Session!Ehentai
<1>4. TasksOK
  BY <1>2 DEF TasksOK
<1>5. StoreIsBehind
  BY <1>1, <1>2 DEF StoreIsBehind, Session!Writes, Session!Effective
<1> QED BY <1>3, <1>4, <1>5 DEF SessionInv

LEMMA SessionKeeps == SessionInv /\ [Session!SessionNext]_(Session!vars) => SessionInv'
<1> SUFFICES ASSUME SessionInv, [Session!SessionNext]_(Session!vars) PROVE SessionInv'
  OBVIOUS
<1>1. CASE UNCHANGED Session!vars
  BY <1>1 DEF Session!vars, SessionInv, Session!SessionTypeOK, TasksOK, StoreIsBehind,
              Session!Writes, Session!Effective, Session!Readable
<1>2. ASSUME NEW t \in Threads, Session!Tells(t) \/ Session!Ends(t)
      PROVE  SessionInv'
  <2>1. task[t] \in TaskRecord /\ TaskOK(task[t])
    BY TaskType
  <2>2. ~Session!Writes(t) /\ (task[t].step = "tell" => task[t].told \in Session!Tolds)
    BY <1>2, <2>1 DEF Session!Tells, Session!Ends, TaskOK, Session!Writes
  <2> QED BY <1>2, <2>2, OneEnds DEF Session!Tells, Session!Ends
<1>3. CASE Session!SessionNext
  BY <1>2, <1>3, StartKeeps, WritersKeep, ReadersKeep, RestartKeeps DEF Session!SessionNext
<1> QED BY <1>1, <1>3

(* The cookies, the last answer a provider gave and the step every request  *)
(* is at are of their kinds, over every interleaving of the requests.       *)
THEOREM SessionTypes == Session!SessionSpec => []Session!SessionTypeOK
<1>1. SessionInv => Session!SessionTypeOK
  BY DEF SessionInv
<1> QED BY <1>1, SessionBegins, SessionKeeps, PTL DEF Session!SessionSpec

(* Between writes the requests are made with the cookie of the catalog or   *)
(* of the environment, and a reference names the site it is from.           *)
THEOREM SessionStands == Session!SessionSpec => []SessionHolds
<1>1. SessionInv => SessionHolds
  <2> SUFFICES ASSUME SessionInv PROVE Session!StoreFollowsCatalog /\ Session!ReferenceIsOfItsSite
    BY DEF SessionHolds, Session!SessionHolds
  <2>1. \A t \in Threads : TaskOK(task[t])
    BY TaskType
  <2>2. Session!StoreFollowsCatalog
    BY <2>1 DEF Session!StoreFollowsCatalog, Session!Writing, Session!Writes, TaskOK, SessionInv,
                StoreIsBehind
  <2>3. Session!ReferenceIsOfItsSite
    BY <2>1 DEF Session!ReferenceIsOfItsSite, TaskOK, Session!Exhentai, Session!Ehentai
  <2> QED BY <2>2, <2>3
<1> QED BY <1>1, SessionBegins, SessionKeeps, PTL DEF Session!SessionSpec

-----------------------------------------------------------------------------
(* Lists in an order.                                                       *)

\* a strict and total order on a set
Orders(R, S) ==
  /\ \A v \in S : <<v, v>> \notin R
  /\ \A u, v, w \in S : <<u, v>> \in R /\ <<v, w>> \in R => <<u, w>> \in R
  /\ \A v, w \in S : v # w => <<v, w>> \in R \/ <<w, v>> \in R

Below(R, S, w) == {v \in S : <<v, w>> \in R}
Rank(R, S)     == [w \in S |-> 1 + Cardinality(Below(R, S, w))]
Sorted(R, s)   == \A i, j \in DOMAIN s : i < j => <<s[i], s[j]>> \in R

LEMMA SameCardinality ==
  ASSUME NEW S
  PROVE  Library!Cardinality(S) = Cardinality(S)
BY DEF Library!Cardinality, Cardinality

LEMMA ListsOf ==
  ASSUME NEW S
  PROVE  Library!SetToSeqs(S) =
           {f \in [1 .. Cardinality(S) -> S] :
              \A i, j \in 1 .. Cardinality(S) : i # j => f[i] # f[j]}
BY SameCardinality DEF Library!SetToSeqs

LEMMA RanksCount ==
  ASSUME NEW S, IsFiniteSet(S), NEW R, Orders(R, S)
  PROVE  /\ Rank(R, S) \in Bijection(S, 1 .. Cardinality(S))
         /\ \A v, w \in S : <<v, w>> \in R => Rank(R, S)[v] < Rank(R, S)[w]
<1> DEFINE n == Cardinality(S)
<1>1. n \in Nat
  BY FS_CardinalityType
<1>2. ASSUME NEW w \in S
      PROVE  /\ IsFiniteSet(Below(R, S, w)) /\ Cardinality(Below(R, S, w)) \in Nat
             /\ Cardinality(Below(R, S, w)) < n
  <2>1. Below(R, S, w) \in SUBSET S /\ Below(R, S, w) # S
    BY DEF Below, Orders
  <2>2. IsFiniteSet(Below(R, S, w)) /\ Cardinality(Below(R, S, w)) \in Nat
    BY <2>1, FS_Subset, FS_CardinalityType
  <2> QED BY <1>1, <2>1, <2>2, FS_Subset
<1>3. ASSUME NEW v \in S, NEW w \in S, <<v, w>> \in R
      PROVE  Cardinality(Below(R, S, v)) < Cardinality(Below(R, S, w))
  <2>1. /\ Below(R, S, v) \in SUBSET Below(R, S, w)
        /\ v \in Below(R, S, w) /\ v \notin Below(R, S, v)
    BY <1>3 DEF Below, Orders
  <2> QED BY <1>2, <2>1, FS_Subset
<1> DEFINE f == Rank(R, S)
<1>4. f \in [S -> 1 .. n]
  BY <1>1, <1>2 DEF Rank
<1>5. \A v, w \in S : <<v, w>> \in R => f[v] < f[w]
  BY <1>2, <1>3 DEF Rank
<1>6. \A v, w \in S : f[v] = f[w] => v = w
  <2>1. \A v \in S : f[v] \in 1 .. n
    BY <1>4
  <2> HIDE DEF f, n
  <2> SUFFICES ASSUME NEW v \in S, NEW w \in S, f[v] = f[w], v # w PROVE FALSE
    OBVIOUS
  <2>2. <<v, w>> \in R \/ <<w, v>> \in R
    BY DEF Orders
  <2>3. f[v] < f[w] \/ f[w] < f[v]
    BY <1>5, <2>2
  <2> QED BY <1>1, <2>1, <2>3
<1>7. f \in Injection(S, 1 .. n)
  BY <1>4, <1>6 DEF Injection, IsInjective
<1>8. IsFiniteSet(1 .. n) /\ Cardinality(1 .. n) = n
  BY <1>1, FS_Interval
<1>9. f \in Surjection(S, 1 .. n)
  BY <1>7, <1>8, FS_Injection
<1> QED BY <1>5, <1>7, <1>9 DEF Bijection

(* A finite set can be listed in any order. *)
LEMMA ListsExist ==
  ASSUME NEW S, IsFiniteSet(S), NEW R, Orders(R, S)
  PROVE  \E s \in Library!SetToSeqs(S) : Sorted(R, s)
<1> DEFINE n == Cardinality(S)
           f == Rank(R, S)
           s == [i \in 1 .. n |-> CHOOSE w \in S : f[w] = i]
<1>1. f \in Bijection(S, 1 .. n) /\ \A v, w \in S : <<v, w>> \in R => f[v] < f[w]
  BY RanksCount
<1>2. /\ f \in [S -> 1 .. n] /\ \A v, w \in S : f[v] = f[w] => v = w
      /\ \A i \in 1 .. n : \E w \in S : f[w] = i
  BY <1>1 DEF Bijection, Injection, Surjection, IsInjective
<1>3. n \in Nat
  BY FS_CardinalityType
<1> HIDE DEF f, n
<1>4. \A i \in 1 .. n : s[i] \in S /\ f[s[i]] = i
  BY <1>2
<1>5. s \in [1 .. n -> S] /\ \A i, j \in 1 .. n : i # j => s[i] # s[j]
  BY <1>4
<1>6. s \in Library!SetToSeqs(S)
  BY <1>5, ListsOf DEF n
<1>7. Sorted(R, s)
  <2> SUFFICES ASSUME NEW i \in 1 .. n, NEW j \in 1 .. n, i < j
               PROVE  <<s[i], s[j]>> \in R
    BY DEF Sorted
  <2>1. s[i] \in S /\ s[j] \in S /\ f[s[i]] = i /\ f[s[j]] = j
    BY <1>4
  <2> HIDE DEF s
  <2>2. s[i] # s[j] /\ <<s[j], s[i]>> \notin R
    BY <1>1, <1>3, <2>1
  <2> QED BY <2>1, <2>2 DEF Orders
<1> QED BY <1>6, <1>7

(* In a sorted list everything stands at the place that is after what is    *)
(* before it.                                                               *)
LEMMA ListsPlace ==
  ASSUME NEW S, IsFiniteSet(S), NEW R, Orders(R, S),
         NEW s \in Library!SetToSeqs(S), Sorted(R, s), NEW w \in S
  PROVE  /\ Cardinality(S) \in Nat /\ s \in [1 .. Cardinality(S) -> S]
         /\ \E i \in 1 .. Cardinality(S) : s[i] = w /\ i = 1 + Cardinality(Below(R, S, w))
<1> DEFINE n == Cardinality(S)
<1>1. n \in Nat /\ IsFiniteSet(1 .. n) /\ Cardinality(1 .. n) = n
  BY FS_CardinalityType, FS_Interval
<1>2. s \in [1 .. n -> S] /\ \A i, j \in 1 .. n : i # j => s[i] # s[j]
  BY ListsOf
<1>3. s \in Injection(1 .. n, S)
  BY <1>2 DEF Injection, IsInjective
<1>4. s \in Surjection(1 .. n, S)
  BY <1>1, <1>3, FS_Injection
<1>5. PICK i \in 1 .. n : s[i] = w
  BY <1>4 DEF Surjection
<1> HIDE DEF n
<1>6. Below(R, S, w) = {s[j] : j \in 1 .. (i - 1)}
  <2>1. ASSUME NEW j \in 1 .. (i - 1) PROVE s[j] \in Below(R, S, w)
    <3>1. j \in 1 .. n /\ j < i
      BY <1>1, <1>5
    <3> QED BY <1>2, <1>5, <3>1 DEF Sorted, Below
  <2>2. ASSUME NEW v \in Below(R, S, w) PROVE \E j \in 1 .. (i - 1) : v = s[j]
    <3>1. PICK j \in 1 .. n : s[j] = v
      BY <1>4 DEF Surjection, Below, n
    <3>2. <<s[j], s[i]>> \in R
      BY <1>5, <3>1 DEF Below
    <3>3. j # i
      BY <1>2, <1>5, <3>2 DEF Orders
    <3>4. ~(i < j)
      <4>1. i < j => <<s[i], s[j]>> \in R
        BY <1>2, <1>5 DEF Sorted
      <4> QED BY <1>2, <1>5, <3>2, <4>1 DEF Orders
    <3> QED BY <1>1, <1>5, <3>1, <3>3, <3>4
  <2> QED BY <2>1, <2>2
<1>7. Cardinality(Below(R, S, w)) = i - 1
  <2> DEFINE g == [j \in 1 .. (i - 1) |-> s[j]]
  <2>1. IsFiniteSet(1 .. (i - 1)) /\ Cardinality(1 .. (i - 1)) = i - 1
    BY <1>1, <1>5, FS_Interval
  <2>2. \A j, k \in 1 .. (i - 1) : g[j] = g[k] => j = k
    BY <1>1, <1>2, <1>5
  <2>3. g \in [1 .. (i - 1) -> Below(R, S, w)]
    BY <1>6
  <2>4. \A v \in Below(R, S, w) : \E j \in 1 .. (i - 1) : g[j] = v
    BY <1>6
  <2>5. g \in Bijection(1 .. (i - 1), Below(R, S, w))
    BY <2>2, <2>3, <2>4 DEF Bijection, Injection, Surjection, IsInjective
  <2> QED BY <2>1, <2>5, FS_Bijection DEF ExistsBijection
<1> QED BY <1>1, <1>2, <1>5, <1>7 DEF n

-----------------------------------------------------------------------------
(* The home page.                                                           *)

Shelves == [kind : Library!BuiltIns \cup {"saved_view"}, view : Nat]
Entry   == [position : Int, shelf : Shelves]

\* the rows keep each built-in shelf, no shelf twice, and no view that is gone
RowsOK ==
  /\ DOMAIN home \in SUBSET Nat /\ IsFiniteSet(DOMAIN home)
  /\ \A p \in DOMAIN home : home[p] \in Shelves
  /\ \A p, r \in DOMAIN home : home[p] = home[r] => p = r
  /\ \A b \in Library!BuiltIns : \E p \in DOMAIN home : home[p] = Library!Shelf(b)
  /\ \A p \in DOMAIN home : home[p].kind = "saved_view" => home[p].view \in DOMAIN views

HomeInv == RowsOK /\ held \in Seq(Entry)

(* The rows in order: every position once. *)
LEMMA HomeIsListed ==
  ASSUME RowsOK
  PROVE  /\ Len(Library!HomeOrder) \in Nat
         /\ DOMAIN Library!HomeOrder = 1 .. Len(Library!HomeOrder)
         /\ \A i \in DOMAIN Library!HomeOrder : Library!HomeOrder[i] \in DOMAIN home
         /\ \A i, j \in DOMAIN Library!HomeOrder :
              Library!HomeOrder[i] = Library!HomeOrder[j] => i = j
         /\ \A p \in DOMAIN home : \E i \in DOMAIN Library!HomeOrder : Library!HomeOrder[i] = p
<1> DEFINE D == DOMAIN home
           R == {r \in D \X D : r[1] < r[2]}
           order == Library!HomeOrder
<1>1. D \in SUBSET Nat /\ IsFiniteSet(D)
  BY DEF RowsOK
<1> HIDE DEF D
<1>2. \A a, b \in D : <<a, b>> \in R <=> a < b
  OBVIOUS
<1>3. Orders(R, D)
  <2> HIDE DEF R
  <2> QED BY <1>1, <1>2 DEF Orders
<1>4. \E s \in Library!SetToSeqs(D) : Sorted(R, s)
  BY <1>1, <1>3, ListsExist
<1>5. /\ \A s \in Library!SetToSeqs(D) : s \in [1 .. Cardinality(D) -> D]
      /\ Cardinality(D) \in Nat
  BY <1>1, ListsOf, FS_CardinalityType
<1>6. \A s \in Library!SetToSeqs(D) :
        Sorted(R, s) <=> \A i, j \in DOMAIN s : i < j => s[i] < s[j]
  <2> TAKE s \in Library!SetToSeqs(D)
  <2>1. \A i \in DOMAIN s : s[i] \in D
    BY <1>5
  <2> HIDE DEF R
  <2> QED BY <1>2, <2>1 DEF Sorted
<1>7. order \in Library!SetToSeqs(D) /\ Sorted(R, order)
  <2>1. \E s \in Library!SetToSeqs(D) : \A i, j \in DOMAIN s : i < j => s[i] < s[j]
    BY <1>4, <1>6
  <2>2. /\ order \in Library!SetToSeqs(D)
        /\ \A i, j \in DOMAIN order : i < j => order[i] < order[j]
    BY <2>1 DEF Library!HomeOrder, D
  <2> QED BY <1>6, <2>2
<1> HIDE DEF order, R
<1>8. order \in [1 .. Cardinality(D) -> D] /\ \A i, j \in 1 .. Cardinality(D) : i # j => order[i] # order[j]
  BY <1>7, ListsOf
<1>9. \A p \in D : \E i \in 1 .. Cardinality(D) : order[i] = p
  BY <1>1, <1>3, <1>7, ListsPlace
<1>10. Len(order) = Cardinality(D) /\ DOMAIN order = 1 .. Len(order)
  BY <1>5, <1>8
<1>11. /\ \A i \in DOMAIN order : order[i] \in D
       /\ \A i, j \in DOMAIN order : order[i] = order[j] => i = j
       /\ \A p \in D : \E i \in DOMAIN order : order[i] = p
  BY <1>8, <1>9, <1>10
<1> QED BY <1>5, <1>10, <1>11 DEF order, D

(* What is told of the rows can be written back.                            *)
LEMMA ReadsBack ==
  ASSUME RowsOK
  PROVE  Library!Accepted(Library!Composition) /\ Library!Composition \in Seq(Entry)
<1> DEFINE order == Library!HomeOrder
           items == Library!Composition
<1>1. /\ Len(order) \in Nat /\ DOMAIN order = 1 .. Len(order)
      /\ \A i \in DOMAIN order : order[i] \in DOMAIN home
      /\ \A i, j \in DOMAIN order : order[i] = order[j] => i = j
      /\ \A p \in DOMAIN home : \E i \in DOMAIN order : order[i] = p
  BY HomeIsListed
<1> HIDE DEF order
<1>2. items = [i \in 1 .. Len(order) |-> [position |-> i - 1, shelf |-> home[order[i]]]]
  BY DEF Library!Composition, order
<1> HIDE DEF items
<1>3. /\ DOMAIN items = 1 .. Len(order)
      /\ \A i \in 1 .. Len(order) : /\ items[i] = [position |-> i - 1, shelf |-> home[order[i]]]
                                    /\ items[i].position = i - 1
                                    /\ items[i].shelf = home[order[i]]
                                    /\ order[i] \in DOMAIN home
  BY <1>1, <1>2
<1>4. \A i, j \in DOMAIN items : items[i].shelf = items[j].shelf => i = j
  BY <1>1, <1>3 DEF RowsOK
<1>5. \A b \in Library!BuiltIns : \E i \in DOMAIN items : items[i].shelf = Library!Shelf(b)
  BY <1>1, <1>3 DEF RowsOK
<1>6. \A i \in DOMAIN items :
        items[i].shelf.kind = "saved_view" => items[i].shelf.view \in DOMAIN views
  BY <1>3 DEF RowsOK
<1>7. Library!Accepted(items)
  BY <1>3, <1>4, <1>5, <1>6 DEF Library!Accepted
<1>8. items \in Seq(Entry)
  <2>1. \A i \in 1 .. Len(order) : items[i] \in Entry
    BY <1>1, <1>3 DEF Entry, RowsOK
  <2>2. items \in [1 .. Len(order) -> Entry]
    BY <1>2, <2>1
  <2> QED BY <1>1, <2>2
<1> QED BY <1>7, <1>8 DEF items

LEMMA EditsAreEntries ==
  ASSUME held \in Seq(Entry), NEW items \in Library!Edits
  PROVE  items \in Seq(Entry)
<1> DEFINE n == Len(held)
<1>1. n \in Nat /\ held \in [1 .. n -> Entry]
  OBVIOUS
<1>2. ASSUME NEW i \in 1 .. n
      PROVE  Library!RemoveAt(held, i) \in Seq(Entry)
  BY <1>1 DEF Library!RemoveAt
<1>3. ASSUME NEW s \in Seq(Entry) PROVE Library!Renumbered(s) \in Seq(Entry)
  <2>1. ASSUME NEW i \in DOMAIN s PROVE [s[i] EXCEPT !.position = i - 1] \in Entry
    <3>1. s[i] \in Entry /\ i - 1 \in Int
      OBVIOUS
    <3> QED BY <3>1 DEF Entry
  <2>2. Library!Renumbered(s) \in [1 .. Len(s) -> Entry]
    BY <2>1 DEF Library!Renumbered
  <2>3. Len(s) \in Nat
    OBVIOUS
  <2> QED BY <2>2, <2>3
<1>4. ASSUME NEW i \in 1 .. n, NEW j \in 1 .. n
      PROVE  Library!Exchanged(held, i, j) \in Seq(Entry)
  <2>1. held[i] \in Entry /\ held[j] \in Entry /\ held[i].shelf \in Shelves /\ held[j].shelf \in Shelves
    BY <1>1 DEF Entry
  <2> PICK x : x = [held EXCEPT ![i].shelf = held[j].shelf]
    OBVIOUS
  <2>2. x \in [1 .. n -> Entry]
    <3>1. [held[i] EXCEPT !.shelf = held[j].shelf] \in Entry
      BY <2>1 DEF Entry
    <3> QED BY <1>1, <3>1
  <2>3. [x EXCEPT ![j].shelf = held[i].shelf] \in [1 .. n -> Entry]
    <3>1. [x[j] EXCEPT !.shelf = held[i].shelf] \in Entry
      BY <2>1, <2>2 DEF Entry
    <3> QED BY <2>2, <3>1
  <2>4. [x EXCEPT ![j].shelf = held[i].shelf] \in Seq(Entry)
    BY <1>1, <2>3
  <2> QED BY <2>4 DEF Library!Exchanged
<1>5. ASSUME NEW v \in 1 .. MaxViews
      PROVE  Library!WithView(held, v) \in Seq(Entry)
  <2>1. v \in Nat
    BY LibraryAssumption
  <2>2. [position |-> n, shelf |-> Library!ViewShelf(v)] \in Entry
    BY <1>1, <2>1 DEF Entry, Shelves, Library!ViewShelf
  <2> QED BY <2>2 DEF Library!WithView
<1>6. DOMAIN held = 1 .. n
  BY <1>1
<1> HIDE DEF n
<1> QED BY <1>2, <1>3, <1>4, <1>5, <1>6 DEF Library!Edits

LEMMA DefaultShelves ==
  /\ DOMAIN Library!DefaultHome = 0 .. 2 /\ 0 .. 2 \in SUBSET Nat /\ IsFiniteSet(0 .. 2)
  /\ \A p \in 0 .. 2 : /\ Library!DefaultHome[p] \in Shelves
                        /\ Library!DefaultHome[p].kind # "saved_view"
  /\ \A p, r \in 0 .. 2 : Library!DefaultHome[p] = Library!DefaultHome[r] => p = r
  /\ \A b \in Library!BuiltIns : \E p \in 0 .. 2 : Library!DefaultHome[p] = Library!Shelf(b)
<1> DEFINE d == Library!DefaultHome
<1>1. d = [p \in 0 .. 2 |-> Library!Shelf(<<"recent", "featured", "event">>[p + 1])]
  BY DEF Library!DefaultHome
<1> HIDE DEF d
<1>2. /\ d[0] = [kind |-> "recent", view |-> 0] /\ d[1] = [kind |-> "featured", view |-> 0]
      /\ d[2] = [kind |-> "event", view |-> 0] /\ DOMAIN d = 0 .. 2
  BY <1>1 DEF Library!Shelf
<1>3. 0 .. 2 \in SUBSET Nat /\ \A p \in 0 .. 2 : p \in {0, 1, 2}
  OBVIOUS
<1>4. IsFiniteSet(0 .. 2)
  <2>1. 0 \in Int /\ 2 \in Int
    OBVIOUS
  <2> QED BY <2>1, FS_Interval
<1>5. \A p \in 0 .. 2 : d[p] \in Shelves /\ d[p].kind # "saved_view"
  BY <1>2, <1>3 DEF Shelves, Library!BuiltIns
<1>6. \A p, r \in 0 .. 2 : d[p] = d[r] => p = r
  <2>1. d[0].kind = "recent" /\ d[1].kind = "featured" /\ d[2].kind = "event"
    BY <1>2
  <2> QED BY <1>2, <1>3, <2>1
<1>7. \A b \in Library!BuiltIns : \E p \in 0 .. 2 : d[p] = Library!Shelf(b)
  BY <1>2 DEF Library!BuiltIns, Library!Shelf
<1> QED BY <1>2, <1>3, <1>4, <1>5, <1>6, <1>7 DEF d

LEMMA HomeBegins == Library!LibraryInit => HomeInv
<1> SUFFICES ASSUME Library!LibraryInit PROVE HomeInv
  OBVIOUS
<1>1. home = Library!DefaultHome /\ held = Library!Composition
  BY DEF Library!LibraryInit
<1>2. RowsOK
  BY <1>1, DefaultShelves DEF RowsOK
<1> QED BY <1>1, <1>2, ReadsBack DEF HomeInv

LEMMA ViewsKeep ==
  ASSUME HomeInv,
         \/ \E q \in Saved : Library!CreateView(q) \/ \E v \in DOMAIN views : Library!UpdateView(v, q)
         \/ \E v \in DOMAIN views : Library!DeleteView(v)
  PROVE  HomeInv'
<1>1. ASSUME DOMAIN views \subseteq DOMAIN views', UNCHANGED <<home, held>> PROVE HomeInv'
  BY <1>1 DEF HomeInv, RowsOK
<1>2. ASSUME NEW q \in Saved, Library!CreateView(q) PROVE HomeInv'
  <2>1. DOMAIN views' = DOMAIN views \cup {Library!NewViewId}
    BY <1>2 DEF Library!CreateView
  <2> QED BY <1>1, <1>2, <2>1 DEF Library!CreateView
<1>3. ASSUME NEW q \in Saved, NEW v \in DOMAIN views, Library!UpdateView(v, q) PROVE HomeInv'
  <2>1. DOMAIN views' = DOMAIN views
    BY <1>3 DEF Library!UpdateView
  <2> QED BY <1>1, <1>3, <2>1 DEF Library!UpdateView
<1>4. ASSUME NEW v \in DOMAIN views, Library!DeleteView(v) PROVE HomeInv'
  <2> DEFINE left == {r \in DOMAIN home : home[r] # Library!ViewShelf(v)}
  <2>1. /\ DOMAIN views' = DOMAIN views \ {v} /\ home' = [p \in left |-> home[p]] /\ held' = held
    BY <1>4 DEF Library!DeleteView
  <2>2. /\ DOMAIN home' = left /\ \A p \in left : home'[p] = home[p] /\ p \in DOMAIN home
    BY <2>1
  <2>3. left \in SUBSET Nat /\ IsFiniteSet(left)
    BY FS_Subset DEF HomeInv, RowsOK
  <2>4. \A b \in Library!BuiltIns : \E p \in left : home[p] = Library!Shelf(b)
    <3> TAKE b \in Library!BuiltIns
    <3>1. PICK p \in DOMAIN home : home[p] = Library!Shelf(b)
      BY DEF HomeInv, RowsOK
    <3>2. Library!Shelf(b).kind # Library!ViewShelf(v).kind
      BY DEF Library!Shelf, Library!ViewShelf, Library!BuiltIns
    <3> QED BY <3>1, <3>2
  <2>5. \A p \in left : home[p].kind = "saved_view" => home[p].view \in DOMAIN views \ {v}
    <3> SUFFICES ASSUME NEW p \in left, home[p].kind = "saved_view", home[p].view = v
                 PROVE  FALSE
      BY DEF HomeInv, RowsOK
    <3>1. home[p] \in Shelves
      BY DEF HomeInv, RowsOK
    <3>2. home[p] = Library!ViewShelf(v)
      BY <3>1 DEF Shelves, Library!ViewShelf
    <3> QED BY <3>2
  <2> HIDE DEF left
  <2>6. RowsOK'
    BY <2>1, <2>2, <2>3, <2>4, <2>5 DEF HomeInv, RowsOK
  <2> QED BY <2>1, <2>6 DEF HomeInv
<1> QED BY <1>2, <1>3, <1>4

LEMMA WriteKeeps ==
  ASSUME HomeInv, NEW items \in Library!Edits, Library!WriteHome(items)
  PROVE  HomeInv'
<1>1. items \in Seq(Entry)
  BY EditsAreEntries DEF HomeInv
<1>2. /\ Library!Accepted(items) /\ held' = items /\ views' = views
      /\ home' = [p \in 0 .. Len(items) - 1 |-> items[p + 1].shelf]
  BY DEF Library!WriteHome
<1> DEFINE n == Len(items)
<1>3. n \in Nat /\ DOMAIN items = 1 .. n /\ \A i \in 1 .. n : items[i].shelf \in Shelves
  <2>1. n \in Nat /\ DOMAIN items = 1 .. n /\ \A i \in 1 .. n : items[i] \in Entry
    BY <1>1
  <2> QED BY <2>1 DEF Entry
<1> HIDE DEF n
<1>4. /\ DOMAIN home' = 0 .. n - 1
      /\ \A p \in 0 .. n - 1 : p + 1 \in 1 .. n /\ home'[p] = items[p + 1].shelf
      /\ \A i \in 1 .. n : i - 1 \in 0 .. n - 1 /\ home'[i - 1] = items[i].shelf
  BY <1>2, <1>3 DEF n
<1>5. 0 .. n - 1 \in SUBSET Nat /\ IsFiniteSet(0 .. n - 1)
  <2>1. 0 \in Int /\ n - 1 \in Int
    BY <1>3
  <2> QED BY <1>3, <2>1, FS_Interval
<1>6. \A p, r \in 0 .. n - 1 : home'[p] = home'[r] => p = r
  <2> TAKE p, r \in 0 .. n - 1
  <2> PICK i \in 1 .. n : i = p + 1
    BY <1>4
  <2> PICK j \in 1 .. n : j = r + 1
    BY <1>4
  <2>1. home'[p] = items[i].shelf /\ home'[r] = items[j].shelf
    BY <1>4
  <2>2. items[i].shelf = items[j].shelf => i = j
    BY <1>2, <1>3 DEF Library!Accepted
  <2>3. i = j => p = r
    BY <1>3
  <2> QED BY <2>1, <2>2, <2>3
<1>7. \A b \in Library!BuiltIns : \E p \in 0 .. n - 1 : home'[p] = Library!Shelf(b)
  <2> TAKE b \in Library!BuiltIns
  <2>1. PICK i \in 1 .. n : items[i].shelf = Library!Shelf(b)
    BY <1>2, <1>3 DEF Library!Accepted
  <2> QED BY <1>4, <2>1
<1>8. \A p \in 0 .. n - 1 : /\ home'[p] \in Shelves
                            /\ home'[p].kind = "saved_view" => home'[p].view \in DOMAIN views'
  <2> TAKE p \in 0 .. n - 1
  <2> PICK i \in 1 .. n : i = p + 1
    BY <1>4
  <2>1. /\ items[i].shelf \in Shelves
        /\ items[i].shelf.kind = "saved_view" => items[i].shelf.view \in DOMAIN views
    BY <1>2, <1>3 DEF Library!Accepted
  <2>2. home'[p] = items[i].shelf
    BY <1>4
  <2> QED BY <1>2, <2>1, <2>2
<1>9. RowsOK'
  BY <1>4, <1>5, <1>6, <1>7, <1>8 DEF RowsOK
<1> QED BY <1>1, <1>2, <1>9 DEF HomeInv

LEMMA ResetKeeps ==
  ASSUME HomeInv, Library!ResetHome
  PROVE  HomeInv'
<1>1. /\ home' = Library!DefaultHome /\ views' = views
      /\ held' = [i \in 1 .. 3 |-> [position |-> i - 1, shelf |-> Library!DefaultHome[i - 1]]]
  BY DEF Library!ResetHome
<1>2. RowsOK'
  BY <1>1, DefaultShelves DEF RowsOK
<1>3. \A i \in 1 .. 3 : Library!DefaultHome[i - 1] \in Shelves
  BY DEF Library!DefaultHome, Library!Shelf, Shelves, Library!BuiltIns
<1>4. held' \in Seq(Entry)
  <2>1. \A i \in 1 .. 3 : [position |-> i - 1, shelf |-> Library!DefaultHome[i - 1]] \in Entry
    BY <1>3 DEF Entry
  <2>2. held' \in [1 .. 3 -> Entry]
    BY <1>1, <2>1
  <2>3. \E n \in Nat : held' \in [1 .. n -> Entry]
    BY <2>2
  <2> PICK h : h = held'
    OBVIOUS
  <2>4. h \in Seq(Entry)
    BY <2>3
  <2> QED BY <2>4
<1> QED BY <1>2, <1>4 DEF HomeInv

LEMMA HomeKeeps ==
  ASSUME HomeInv, [Library!ShelfNext \/ Library!HomeNext]_(<<Library!shelfVars, Library!homeVars>>)
  PROVE  HomeInv'
<1>1. ASSUME UNCHANGED <<views, home, held>> PROVE HomeInv'
  BY <1>1 DEF HomeInv, RowsOK
<1>2. CASE UNCHANGED <<Library!shelfVars, Library!homeVars>>
  BY <1>1, <1>2 DEF Library!homeVars
<1>3. CASE Library!ShelfNext
  BY <1>1, <1>3 DEF Library!ShelfNext, Library!AddTag, Library!RemoveTag, Library!Describe,
                    Library!Place, Library!homeVars
<1>4. CASE Library!ReadHome
  <2>1. held' \in Seq(Entry) /\ UNCHANGED <<views, home>>
    BY <1>4, ReadsBack DEF Library!ReadHome, HomeInv
  <2> QED BY <2>1 DEF HomeInv, RowsOK
<1>5. CASE Library!HomeNext
  BY <1>4, <1>5, ViewsKeep, WriteKeeps, ResetKeeps DEF Library!HomeNext
<1> QED BY <1>2, <1>3, <1>5

(* Whatever views are created and deleted and however the home page is      *)
(* composed, what is read of it can be written back.                        *)
THEOREM HomeCanBeWrittenBack == Library!LibrarySpec => []HomeReadsBack
<1>1. HomeInv => HomeReadsBack
  BY ReadsBack DEF HomeInv, HomeReadsBack, Library!HomeReadsBack
<1>2. HomeInv /\ [Library!ShelfNext \/ Library!HomeNext]_(<<Library!shelfVars, Library!homeVars>>)
        => HomeInv'
  BY HomeKeeps
<1> QED BY <1>1, <1>2, HomeBegins, PTL DEF Library!LibrarySpec

-----------------------------------------------------------------------------
(* The list, its numbers and its pages.                                     *)

Work == [at : Roots \cup {"gone", "nowhere"}, size : Sizes \cup {-1}, circle : Texts \cup {<<>>},
         authors : AuthorLists \cup {<<>>}]

ShelfInv == shelf \in [Shelved -> Work] /\ tagged \subseteq Shelved \X Texts

LEMMA ShelfBegins == Library!LibraryInit => ShelfInv
<1> SUFFICES ASSUME Library!LibraryInit PROVE ShelfInv
  OBVIOUS
<1>1. [at |-> "nowhere", size |-> -1, circle |-> <<>>, authors |-> <<>>] \in Work
  BY DEF Work
<1> QED BY <1>1 DEF Library!LibraryInit, ShelfInv, Library!Nowhere, Library!Unknown, Library!Blank

LEMMA ShelfKeeps ==
  ASSUME ShelfInv, [Library!ShelfNext \/ Library!HomeNext]_(<<Library!shelfVars, Library!homeVars>>)
  PROVE  ShelfInv'
<1> USE DEF ShelfInv
<1>1. ASSUME UNCHANGED Library!shelfVars PROVE ShelfInv'
  BY <1>1 DEF Library!shelfVars
<1>2. CASE Library!HomeNext
  BY <1>1, <1>2 DEF Library!HomeNext, Library!CreateView, Library!UpdateView, Library!DeleteView,
                    Library!ReadHome, Library!ResetHome, Library!WriteHome
<1>3. ASSUME NEW w \in Shelved, NEW n \in Texts, Library!AddTag(w, n) \/ Library!RemoveTag(w, n)
      PROVE  ShelfInv'
  BY <1>3 DEF Library!AddTag, Library!RemoveTag
<1>4. ASSUME NEW w \in Shelved, NEW c \in Texts \cup {<<>>}, NEW s \in AuthorLists,
             Library!Describe(w, c, s)
      PROVE  ShelfInv'
  <2>1. [shelf[w] EXCEPT !.circle = c, !.authors = s] \in Work
    BY DEF Work
  <2>2. shelf' = [shelf EXCEPT ![w] = [shelf[w] EXCEPT !.circle = c, !.authors = s]]
    BY <1>4 DEF Library!Describe
  <2> QED BY <1>4, <2>1, <2>2 DEF Library!Describe
<1>5. ASSUME NEW w \in Shelved, NEW at \in Roots \cup {"gone", "nowhere"},
             NEW size \in Sizes \cup {-1}, Library!Place(w, at, size)
      PROVE  ShelfInv'
  <2>1. [shelf[w] EXCEPT !.at = at, !.size = size] \in Work
    BY DEF Work
  <2>2. shelf' = [shelf EXCEPT ![w] = [shelf[w] EXCEPT !.at = at, !.size = size]]
    BY <1>5 DEF Library!Place
  <2> QED BY <1>5, <2>1, <2>2 DEF Library!Place
<1>6. CASE Library!ShelfNext
  BY <1>3, <1>4, <1>5, <1>6 DEF Library!ShelfNext, Library!Blank, Library!Unknown, Library!Gone,
     Library!Nowhere
<1> QED BY <1>1, <1>2, <1>6

LEMMA TextsAreTexts ==
  ASSUME NEW n \in Texts
  PROVE  n[1] \in Nat /\ n[2] \in Nat /\ n # Library!Blank /\ n # Library!Unset
<1>1. n \in Nat \X Nat
  BY LibraryAssumption
<1>2. PICK a \in Nat, b \in Nat : n = <<a, b>>
  BY <1>1
<1>3. <<a, b>> # <<>>
  OBVIOUS
<1>4. <<a, b>> # <<"any">>
  <2> SUFFICES ASSUME <<a, b>> = <<"any">> PROVE FALSE
    OBVIOUS
  <2>1. Len(<<a, b>>) = 2 /\ Len(<<"any">>) = 1
    OBVIOUS
  <2> QED BY <2>1
<1> QED BY <1>2, <1>3, <1>4 DEF Library!Blank, Library!Unset

LEMMA OfOne ==
  ASSUME ShelfInv, NEW w \in Shelved
  PROVE  /\ shelf[w].at \in Roots \cup {"gone", "nowhere"} /\ shelf[w].size \in Nat \cup {-1}
         /\ shelf[w].circle \in Texts \cup {<<>>}
         /\ \A a \in Library!Authors(w) : a \in Texts
         /\ Library!TagsOf(w) = {n \in Texts : <<w, n>> \in tagged}
<1>1. shelf[w] \in Work
  BY DEF ShelfInv
<1>2. \A i \in DOMAIN shelf[w].authors : shelf[w].authors[i] \in Texts
  BY <1>1, LibraryAssumption DEF Work
<1> QED BY <1>1, <1>2, LibraryAssumption DEF Work, Library!Authors, Library!TagsOf

(* What a query without a filter, and with one, asks for. *)
LEMMA QueriesAsk ==
  ASSUME NEW w, NEW n
  PROVE  LET e == Library!Everything IN
         /\ Library!Matches(w, e) <=> Library!OnShelf(w)
         /\ n # Library!Unset =>
              /\ Library!Matches(w, [e EXCEPT !.circle = n])
                   <=> Library!OnShelf(w) /\ Library!SameText(shelf[w].circle, n)
              /\ Library!Matches(w, [e EXCEPT !.author = n])
                   <=> Library!OnShelf(w) /\ \E a \in Library!Authors(w) : Library!SameText(a, n)
         /\ Library!Matches(w, [e EXCEPT !.tag = {n}])
              <=> Library!OnShelf(w) /\ \E m \in Library!TagsOf(w) : Library!SameText(m, n)
         /\ Library!Matches(w, [e EXCEPT !.missing = TRUE])
              <=> Library!OnShelf(w) /\ Library!Missing(w)
         /\ Library!Matches(w, [e EXCEPT !.untagged = TRUE])
              <=> Library!OnShelf(w) /\ Library!TagsOf(w) = {}
<1> DEFINE e == Library!Everything
           u == Library!Unset
<1>1. /\ DOMAIN e = {"circle", "author", "tag", "untagged", "missing", "source", "sort", "asc"}
      /\ e.circle = u /\ e.author = u /\ e.tag = {} /\ e.untagged = FALSE /\ e.missing = FALSE
      /\ e.source = u
  BY DEF Library!Everything
<1>2. Library!Matches(w, e) <=> Library!OnShelf(w)
  <2> HIDE DEF e, u
  <2> QED BY <1>1, Zenon DEF Library!Matches, u
<1> HIDE DEF e
<1>3. ASSUME n # u
      PROVE  /\ Library!Matches(w, [e EXCEPT !.circle = n])
                   <=> Library!OnShelf(w) /\ Library!SameText(shelf[w].circle, n)
             /\ Library!Matches(w, [e EXCEPT !.author = n])
                   <=> Library!OnShelf(w) /\ \E a \in Library!Authors(w) : Library!SameText(a, n)
  <2> DEFINE c == [e EXCEPT !.circle = n]
             a == [e EXCEPT !.author = n]
  <2>1. /\ c.circle = n /\ c.author = u /\ c.tag = {} /\ c.untagged = FALSE /\ c.missing = FALSE
        /\ c.source = u
    BY <1>1
  <2>2. /\ a.circle = u /\ a.author = n /\ a.tag = {} /\ a.untagged = FALSE /\ a.missing = FALSE
        /\ a.source = u
    BY <1>1
  <2> HIDE DEF c, a
  <2>3. Library!Matches(w, c) <=> Library!OnShelf(w) /\ Library!SameText(shelf[w].circle, n)
    BY <1>3, <2>1, Zenon DEF Library!Matches
  <2>4. Library!Matches(w, a) <=> Library!OnShelf(w) /\ \E x \in Library!Authors(w) : Library!SameText(x, n)
    BY <1>3, <2>2, Zenon DEF Library!Matches
  <2> QED BY <2>3, <2>4 DEF c, a
<1>4. Library!Matches(w, [e EXCEPT !.tag = {n}])
        <=> Library!OnShelf(w) /\ \E m \in Library!TagsOf(w) : Library!SameText(m, n)
  <2> DEFINE c == [e EXCEPT !.tag = {n}]
  <2>1. /\ c.circle = u /\ c.author = u /\ c.tag = {n} /\ c.untagged = FALSE /\ c.missing = FALSE
        /\ c.source = u
    BY <1>1
  <2> HIDE DEF c
  <2>2. Library!Matches(w, c) <=> Library!OnShelf(w) /\ \E m \in Library!TagsOf(w) : Library!SameText(m, n)
    BY <2>1, Zenon DEF Library!Matches
  <2> QED BY <2>2 DEF c
<1>5. Library!Matches(w, [e EXCEPT !.missing = TRUE]) <=> Library!OnShelf(w) /\ Library!Missing(w)
  <2> DEFINE c == [e EXCEPT !.missing = TRUE]
  <2>1. /\ c.circle = u /\ c.author = u /\ c.tag = {} /\ c.untagged = FALSE /\ c.missing = TRUE
        /\ c.source = u
    BY <1>1
  <2> HIDE DEF c
  <2>2. Library!Matches(w, c) <=> Library!OnShelf(w) /\ Library!Missing(w)
    BY <2>1, Zenon DEF Library!Matches
  <2> QED BY <2>2 DEF c
<1>6. Library!Matches(w, [e EXCEPT !.untagged = TRUE]) <=> Library!OnShelf(w) /\ Library!TagsOf(w) = {}
  <2> DEFINE c == [e EXCEPT !.untagged = TRUE]
  <2>1. /\ c.circle = u /\ c.author = u /\ c.tag = {} /\ c.untagged = TRUE /\ c.missing = FALSE
        /\ c.source = u
    BY <1>1
  <2> HIDE DEF c
  <2>2. Library!Matches(w, c) <=> Library!OnShelf(w) /\ Library!TagsOf(w) = {}
    BY <2>1, Zenon DEF Library!Matches
  <2> QED BY <2>2 DEF c
<1> QED BY <1>2, <1>3, <1>4, <1>5, <1>6 DEF e

(* What a query asks its list to be ordered by.                             *)
OrderOf(q) == {r \in Library!Results(q) \X Library!Results(q) : Library!Before(q, r[1], r[2])}

LEMMA QueriesOrder ==
  ASSUME ShelfInv, NEW q, q.sort \in {"created", "size"}
  PROVE  /\ Library!Results(q) \subseteq Shelved /\ IsFiniteSet(Library!Results(q))
         /\ \A v, w \in Library!Results(q) : <<v, w>> \in OrderOf(q) <=> Library!Before(q, v, w)
         /\ Orders(OrderOf(q), Library!Results(q))
<1> DEFINE S == Library!Results(q)
           R == OrderOf(q)
           B(v, w) == Library!Before(q, v, w)
<1>1. S \subseteq Shelved /\ S \subseteq Nat /\ IsFiniteSet(S)
  <2>1. S \subseteq Shelved
    BY DEF Library!Results
  <2> QED BY <2>1, FS_Subset, LibraryAssumption
<1>2. \A v, w \in S : <<v, w>> \in R <=> B(v, w)
  BY DEF OrderOf
<1>3. \A v \in S : shelf[v].size \in Nat \cup {-1}
  BY <1>1, OfOne
<1>4. \A v \in S : ~B(v, v)
  <2> TAKE v \in S
  <2>1. v \in Nat /\ shelf[v].size \in Nat \cup {-1}
    BY <1>1, <1>3
  <2> QED BY <2>1 DEF Library!Before, Library!Unknown
<1>5. \A u, v, w \in S : B(u, v) /\ B(v, w) => B(u, w)
  <2> TAKE u \in S, v \in S, w \in S
  <2> PICK x : x = shelf[u].size
    OBVIOUS
  <2> PICK y : y = shelf[v].size
    OBVIOUS
  <2> PICK z : z = shelf[w].size
    OBVIOUS
  <2>1. u \in Nat /\ v \in Nat /\ w \in Nat /\ x \in Nat \cup {-1} /\ y \in Nat \cup {-1} /\ z \in Nat \cup {-1}
    BY <1>1, <1>3
  <2>2. CASE q.sort = "created"
    BY <2>1, <2>2 DEF Library!Before
  <2>3. CASE q.sort = "size" /\ q.asc
    BY <2>1, <2>3 DEF Library!Before, Library!Unknown
  <2>4. CASE q.sort = "size" /\ ~q.asc
    BY <2>1, <2>4 DEF Library!Before, Library!Unknown
  <2> QED BY <2>2, <2>3, <2>4
<1>6. \A v, w \in S : v # w => B(v, w) \/ B(w, v)
  <2> TAKE v \in S, w \in S
  <2>1. v \in Nat /\ w \in Nat /\ shelf[v].size \in Nat \cup {-1} /\ shelf[w].size \in Nat \cup {-1}
    BY <1>1, <1>3
  <2> QED BY <2>1 DEF Library!Before, Library!Unknown
<1>7. Orders(R, S)
  <2> HIDE DEF R, B, S
  <2> QED BY <1>2, <1>4, <1>5, <1>6 DEF Orders
<1> QED BY <1>1, <1>2, <1>7

LEMMA ListIsSorted ==
  ASSUME ShelfInv, NEW q, q.sort \in {"created", "size"}
  PROVE  /\ Library!Listing(q) \in Library!SetToSeqs(Library!Results(q))
         /\ Sorted(OrderOf(q), Library!Listing(q))
<1> DEFINE S == Library!Results(q)
           R == OrderOf(q)
<1>1. IsFiniteSet(S) /\ Orders(R, S) /\ \A v, w \in S : <<v, w>> \in R <=> Library!Before(q, v, w)
  BY QueriesOrder
<1> HIDE DEF R
<1>2. \E s \in Library!SetToSeqs(S) : Sorted(R, s)
  <2> HIDE DEF S
  <2> QED BY <1>1, ListsExist
<1>3. \A s \in Library!SetToSeqs(S) :
        Sorted(R, s) <=> \A i, j \in DOMAIN s : i < j => Library!Before(q, s[i], s[j])
  <2> TAKE s \in Library!SetToSeqs(S)
  <2>1. \A i \in DOMAIN s : s[i] \in S
    BY ListsOf
  <2> HIDE DEF S
  <2> QED BY <1>1, <2>1 DEF Sorted
<1>4. \E s \in Library!SetToSeqs(S) : \A i, j \in DOMAIN s : i < j => Library!Before(q, s[i], s[j])
  BY <1>2, <1>3
<1>5. /\ Library!Listing(q) \in Library!SetToSeqs(S)
      /\ \A i, j \in DOMAIN Library!Listing(q) :
           i < j => Library!Before(q, Library!Listing(q)[i], Library!Listing(q)[j])
  BY <1>4 DEF Library!Listing
<1> QED BY <1>3, <1>5 DEF R

(* Cutting a list into pages: place p is on page ((p - 1) \div k) + 1.      *)
LEMMA PlaceOnPage ==
  ASSUME NEW p \in Nat \ {0}, NEW k \in Nat \ {0}
  PROVE  LET page == ((p - 1) \div k) + 1 IN
         /\ page \in Nat /\ page >= 1
         /\ (page - 1) * k \in Nat
         /\ (page - 1) * k + 1 <= p /\ p <= (page - 1) * k + k
<1> DEFINE d == (p - 1) \div k
<1>1. d \in Int /\ d * k <= p - 1 /\ p - 1 < d * k + k
  <2>1. p - 1 \in Int /\ k \in Int /\ k > 0
    OBVIOUS
  <2>2. p - 1 = k * d + ((p - 1) % k) /\ (p - 1) % k \in 0 .. (k - 1) /\ d \in Int
    BY <2>1, SMTT(60)
  <2> QED BY <2>1, <2>2, SMTT(60)
<1>2. d \in Nat
  BY <1>1, SMTT(60)
<1>3. d * k \in Nat
  BY <1>2, SMTT(60)
<1>4. ((d + 1) - 1) = d
  BY <1>2
<1> HIDE DEF d
<1>5. /\ d + 1 \in Nat /\ d + 1 >= 1 /\ ((d + 1) - 1) * k \in Nat
      /\ ((d + 1) - 1) * k + 1 <= p /\ p <= ((d + 1) - 1) * k + k
  BY <1>1, <1>2, <1>3, <1>4, SMTT(60)
<1> QED BY <1>5 DEF d

(* A located work is on its page.                                           *)
LEMMA LocatedOnPage == ShelfInv => Library!LocatedIsOnItsPage
<1> SUFFICES ASSUME ShelfInv, NEW q \in Queries, NEW n \in 0 .. MaxPerPage + 1,
                    NEW w \in Library!Results(q)
             PROVE  w \in Library!ToSet(Library!Page(q, Library!PageOf(w, q, n), n))
  BY DEF Library!LocatedIsOnItsPage
<1> DEFINE S == Library!Results(q)
           R == OrderOf(q)
           s == Library!Listing(q)
           c == Cardinality(S)
           p == Library!PositionOf(w, q)
           k == Library!PerPage(n)
           page == Library!PageOf(w, q, n)
           first == (page - 1) * k
           end == IF first + k < Len(s) THEN first + k ELSE Len(s)
<1>1. q.sort \in {"created", "size"} /\ n \in Nat /\ MaxPerPage \in Nat \ {0}
  BY LibraryAssumption
<1>2. k \in Nat \ {0}
  BY <1>1 DEF Library!PerPage
<1>3. c \in Nat /\ s \in [1 .. c -> S] /\ \E i \in 1 .. c : s[i] = w /\ i = 1 + Cardinality(Below(R, S, w))
  BY <1>1, QueriesOrder, ListIsSorted, ListsPlace
<1>4. p = 1 + Cardinality(Below(R, S, w))
  <2>1. {v \in S : Library!Before(q, v, w)} = Below(R, S, w)
    BY <1>1, QueriesOrder DEF Below
  <2> QED BY <2>1, SameCardinality DEF Library!PositionOf
<1> HIDE DEF c, s, k, p, S
<1>5. p \in 1 .. c /\ s[p] = w
  BY <1>3, <1>4
<1>6. p \in Nat \ {0} /\ Len(s) = c /\ DOMAIN s = 1 .. c
  BY <1>3, <1>5
<1>7. page = ((p - 1) \div k) + 1
  BY DEF Library!PageOf, p, k
<1> HIDE DEF page
<1>8. page \in Nat /\ page >= 1 /\ first \in Nat /\ first + 1 <= p /\ p <= first + k
  BY <1>2, <1>6, <1>7, PlaceOnPage
<1>9. Library!Page(q, page, n) = SubSeq(s, first + 1, end)
  <2>1. ~(page < 1)
    BY <1>8
  <2> QED BY <2>1, Zenon DEF Library!Page, s, k
<1> HIDE DEF first
<1>10. end \in Nat /\ p <= end /\ end <= c
  BY <1>2, <1>3, <1>5, <1>6, <1>8
<1> HIDE DEF end
<1>11. /\ DOMAIN SubSeq(s, first + 1, end) = 1 .. (end - first)
       /\ SubSeq(s, first + 1, end)[p - first] = s[p]
       /\ p - first \in 1 .. (end - first)
  <2>1. SubSeq(s, first + 1, end) = [i \in 1 .. (end - first) |-> s[i + first]]
    BY <1>3, <1>8, <1>10
  <2>2. p - first \in 1 .. (end - first) /\ (p - first) + first = p
    BY <1>6, <1>8, <1>10
  <2> QED BY <2>1, <2>2
<1> QED BY <1>5, <1>9, <1>11 DEF Library!ToSet, page

(* The spellings of a group have a least one.                               *)
LEMMA LeastSpelling ==
  ASSUME NEW S, S \subseteq Texts, S # {}
  PROVE  \E n \in S : \A m \in S : n[2] <= m[2]
<1> DEFINE Cases == {n[2] : n \in S}
<1>1. Cases \subseteq Nat /\ Cases # {}
  BY TextsAreTexts
<1>2. PICK c \in Cases : \A k \in Cases : <<k, c>> \notin OpToRel(<, Nat)
  BY <1>1, WFMin, NatLessThanWellFounded
<1>3. \A k \in Cases : ~(k < c)
  BY <1>1, <1>2, Zenon DEF OpToRel
<1>4. PICK n \in S : c = n[2]
  OBVIOUS
<1>5. ASSUME NEW m \in S PROVE n[2] <= m[2]
  <2>1. m[2] \in Cases /\ n[2] \in Nat /\ m[2] \in Nat
    BY TextsAreTexts
  <2> QED BY <1>3, <1>4, <2>1
<1> QED BY <1>5

(* The rows a facet is made of: texts of works that are on the shelf.       *)
ShownRows(field) == {r \in Library!FacetRows(field) : Library!OnShelf(r[2])}
WorksOf(field, x) == {r[2] : r \in {s \in ShownRows(field) : s[1][1] = x}}

LEMMA RowsAreTexts ==
  ASSUME ShelfInv
  PROVE  /\ \A f \in {"circle", "author", "tag"} : ShownRows(f) \subseteq Texts \X Shelved
         /\ \A n, w : <<n, w>> \in ShownRows("circle")
              <=> w \in Shelved /\ Library!OnShelf(w) /\ n = shelf[w].circle /\ n # Library!Blank
         /\ \A n, w : <<n, w>> \in ShownRows("author")
              <=> w \in Shelved /\ Library!OnShelf(w) /\ n \in Library!Authors(w)
         /\ \A n, w : <<n, w>> \in ShownRows("tag")
              <=> w \in Shelved /\ Library!OnShelf(w) /\ n \in Library!TagsOf(w)
<1>1. /\ Library!FacetRows("circle")
           = {<<shelf[w].circle, w>> : w \in {v \in Shelved : shelf[v].circle # Library!Blank}}
      /\ Library!FacetRows("author") = UNION {{<<a, w>> : a \in Library!Authors(w)} : w \in Shelved}
      /\ Library!FacetRows("tag") = {<<p[2], p[1]>> : p \in tagged}
  BY DEF Library!FacetRows
<1>2. \A n, w : <<n, w>> \in ShownRows("circle")
        <=> w \in Shelved /\ Library!OnShelf(w) /\ n = shelf[w].circle /\ n # Library!Blank
  BY <1>1 DEF ShownRows
<1>3. \A n, w : <<n, w>> \in ShownRows("author")
        <=> w \in Shelved /\ Library!OnShelf(w) /\ n \in Library!Authors(w)
  BY <1>1 DEF ShownRows
<1>4. \A n, w : <<n, w>> \in ShownRows("tag")
        <=> w \in Shelved /\ Library!OnShelf(w) /\ n \in Library!TagsOf(w)
  <2>1. \A p \in tagged : p = <<p[1], p[2]>> /\ p[1] \in Shelved /\ p[2] \in Texts
    BY DEF ShelfInv
  <2>2. \A n, w : <<n, w>> \in Library!FacetRows("tag") <=> <<w, n>> \in tagged
    BY <1>1, <2>1
  <2>3. \A n, w : <<w, n>> \in tagged => w \in Shelved /\ n \in Texts
    BY DEF ShelfInv
  <2>4. \A w \in Shelved : \A n : n \in Library!TagsOf(w) <=> <<w, n>> \in tagged
    BY <2>3, OfOne
  <2>5. \A n, w : <<n, w>> \in ShownRows("tag")
          <=> <<n, w>> \in Library!FacetRows("tag") /\ Library!OnShelf(w)
    BY DEF ShownRows
  <2> QED BY <2>2, <2>3, <2>4, <2>5
<1>5. \A f \in {"circle", "author", "tag"} : \A r \in ShownRows(f) :
        /\ \E n, w : r = <<n, w>>
  <2>1. \A f \in {"circle", "author", "tag"} : \A r \in Library!FacetRows(f) : \E n, w : r = <<n, w>>
    BY <1>1
  <2> QED BY <2>1 DEF ShownRows
<1>6. \A w \in Shelved : /\ shelf[w].circle # Library!Blank => shelf[w].circle \in Texts
                         /\ \A n \in Library!Authors(w) \cup Library!TagsOf(w) : n \in Texts
  BY OfOne DEF Library!Blank
<1>7. ASSUME NEW f \in {"circle", "author", "tag"}, NEW r \in ShownRows(f)
      PROVE  r \in Texts \X Shelved
  <2>1. PICK n, w : r = <<n, w>>
    BY <1>5
  <2>2. w \in Shelved /\ n \in Texts
    BY <1>2, <1>3, <1>4, <1>6, <2>1
  <2> QED BY <2>1, <2>2
<1> QED BY <1>2, <1>3, <1>4, <1>7

(* A facet has a spelling of its group for a name, and counts its works.    *)
LEMMA FacetsCount ==
  ASSUME ShelfInv, NEW field \in {"circle", "author", "tag"}, NEW f \in Library!Facets(field)
  PROVE  f.name \in Texts /\ f.count = Cardinality(WorksOf(field, f.name[1]))
<1> DEFINE rows == ShownRows(field)
           S(x) == {r[1] : r \in {s \in rows : s[1][1] = x}}
<1>1. rows \subseteq Texts \X Shelved
  BY RowsAreTexts
<1>2. PICK x \in {r[1][1] : r \in rows} :
        f = [name  |-> CHOOSE n \in S(x) : \A r \in rows : r[1][1] = x => n[2] <= r[1][2],
             count |-> Library!Cardinality({r[2] : r \in {s \in rows : s[1][1] = x}})]
  BY DEF Library!Facets, ShownRows
<1> HIDE DEF rows
<1>3. S(x) \subseteq Texts /\ S(x) # {} /\ \A n \in S(x) : n[1] = x
  BY <1>1, <1>2
<1>4. \E n \in S(x) : \A r \in rows : r[1][1] = x => n[2] <= r[1][2]
  <2>1. \E n \in S(x) : \A m \in S(x) : n[2] <= m[2]
    <3> HIDE DEF S
    <3> QED BY <1>3, LeastSpelling
  <2> QED BY <2>1
<1>5. f.name \in S(x) /\ f.count = Library!Cardinality({r[2] : r \in {s \in rows : s[1][1] = x}})
  BY <1>2, <1>4
<1>6. f.name \in Texts /\ f.name[1] = x
  BY <1>3, <1>5
<1> QED BY <1>5, <1>6, SameCardinality DEF WorksOf, rows

(* The works of a group are what the query with its name finds.             *)
LEMMA GroupsAreResults ==
  ASSUME ShelfInv, NEW n \in Texts
  PROVE  LET e == Library!Everything IN
         /\ WorksOf("circle", n[1]) = Library!Results([e EXCEPT !.circle = n])
         /\ WorksOf("author", n[1]) = Library!Results([e EXCEPT !.author = n])
         /\ WorksOf("tag", n[1]) = Library!Results([e EXCEPT !.tag = {n}])
<1> DEFINE e == Library!Everything
<1>1. n # Library!Blank /\ n # Library!Unset /\ \A m \in Texts : m # Library!Blank
  BY TextsAreTexts
<1>2. ASSUME NEW field \in {"circle", "author", "tag"}, NEW w
      PROVE  w \in WorksOf(field, n[1])
               <=> \E m : <<m, w>> \in ShownRows(field) /\ m[1] = n[1]
  <2>1. \A r \in ShownRows(field) : r = <<r[1], r[2]>>
    BY RowsAreTexts
  <2>2. w \in WorksOf(field, n[1]) <=> \E r \in ShownRows(field) : r[1][1] = n[1] /\ w = r[2]
    BY Zenon DEF WorksOf
  <2>3. ASSUME NEW m, <<m, w>> \in ShownRows(field), m[1] = n[1]
        PROVE  \E r \in ShownRows(field) : r[1][1] = n[1] /\ w = r[2]
    <3>1. <<m, w>>[1] = m /\ <<m, w>>[2] = w
      OBVIOUS
    <3> QED BY <2>3, <3>1, Zenon
  <2>4. ASSUME NEW r \in ShownRows(field), r[1][1] = n[1], w = r[2]
        PROVE  \E m : <<m, w>> \in ShownRows(field) /\ m[1] = n[1]
    BY <2>1, <2>4, Zenon
  <2> QED BY <2>2, <2>3, <2>4, Zenon
<1>3. \A w \in Shelved : \A m \in Library!Authors(w) \cup Library!TagsOf(w) :
        Library!SameText(m, n) <=> m[1] = n[1]
  BY <1>1, OfOne DEF Library!SameText
<1>4. \A w : w \in WorksOf("circle", n[1])
               <=> w \in Shelved /\ Library!OnShelf(w) /\ Library!SameText(shelf[w].circle, n)
  <2> TAKE w
  <2>1. w \in WorksOf("circle", n[1]) <=> \E m : <<m, w>> \in ShownRows("circle") /\ m[1] = n[1]
    BY <1>2, Zenon
  <2>2. \A m : <<m, w>> \in ShownRows("circle")
          <=> w \in Shelved /\ Library!OnShelf(w) /\ m = shelf[w].circle /\ m # Library!Blank
    BY RowsAreTexts, Zenon
  <2>3. Library!SameText(shelf[w].circle, n)
          <=> shelf[w].circle # Library!Blank /\ shelf[w].circle[1] = n[1]
    BY <1>1, Zenon DEF Library!SameText
  <2> QED BY <2>1, <2>2, <2>3, Zenon
<1>5. \A w : w \in WorksOf("author", n[1])
               <=> /\ w \in Shelved /\ Library!OnShelf(w)
                   /\ \E m \in Library!Authors(w) : Library!SameText(m, n)
  BY <1>2, <1>3, RowsAreTexts
<1>6. \A w : w \in WorksOf("tag", n[1])
               <=> /\ w \in Shelved /\ Library!OnShelf(w)
                   /\ \E m \in Library!TagsOf(w) : Library!SameText(m, n)
  BY <1>2, <1>3, RowsAreTexts
<1>7. \A w : /\ w \in Library!Results([e EXCEPT !.circle = n])
                  <=> w \in Shelved /\ Library!OnShelf(w) /\ Library!SameText(shelf[w].circle, n)
             /\ w \in Library!Results([e EXCEPT !.author = n])
                  <=> /\ w \in Shelved /\ Library!OnShelf(w)
                      /\ \E m \in Library!Authors(w) : Library!SameText(m, n)
             /\ w \in Library!Results([e EXCEPT !.tag = {n}])
                  <=> /\ w \in Shelved /\ Library!OnShelf(w)
                      /\ \E m \in Library!TagsOf(w) : Library!SameText(m, n)
  BY <1>1, QueriesAsk, Zenon DEF Library!Results
<1> HIDE DEF e
<1>8. WorksOf("circle", n[1]) = Library!Results([e EXCEPT !.circle = n])
  BY <1>4, <1>7
<1>9. WorksOf("author", n[1]) = Library!Results([e EXCEPT !.author = n])
  BY <1>5, <1>7
<1>10. WorksOf("tag", n[1]) = Library!Results([e EXCEPT !.tag = {n}])
  BY <1>6, <1>7
<1> QED BY <1>8, <1>9, <1>10 DEF e

(* The numbers beside the links.                                            *)
LEMMA NumbersAre == ShelfInv => Library!NumbersAgree
<1> SUFFICES ASSUME ShelfInv PROVE Library!NumbersAgree
  OBVIOUS
<1> DEFINE e == Library!Everything
<1>1. \A q : Library!Total(q) = Cardinality(Library!Results(q))
  BY SameCardinality DEF Library!Total
<1>2. ASSUME NEW f \in Library!Facets("circle")
      PROVE  f.count = Library!Total([e EXCEPT !.circle = f.name])
  BY <1>1, FacetsCount, GroupsAreResults
<1>3. ASSUME NEW f \in Library!Facets("author")
      PROVE  f.count = Library!Total([e EXCEPT !.author = f.name])
  BY <1>1, FacetsCount, GroupsAreResults
<1>4. ASSUME NEW f \in Library!Facets("tag")
      PROVE  f.count = Library!Total([e EXCEPT !.tag = {f.name}])
  BY <1>1, FacetsCount, GroupsAreResults
<1> DEFINE shown == {w \in Shelved : Library!OnShelf(w)}
           bare == {w \in Shelved : Library!OnShelf(w) /\ Library!TagsOf(w) = {}}
           with == {p[1] : p \in {s \in tagged : Library!OnShelf(s[1])}}
           short == {w \in Shelved : Library!OnShelf(w) /\ Library!Missing(w)}
<1>5. /\ Library!Results(e) = shown
      /\ Library!Results([e EXCEPT !.missing = TRUE]) = short
      /\ Library!Results([e EXCEPT !.untagged = TRUE]) = bare
  BY QueriesAsk, Zenon DEF Library!Results
<1>6. Library!ReviewQueue = short
  BY DEF Library!ReviewQueue
<1>7. /\ Library!Statistics.total = Cardinality(shown)
      /\ Library!Statistics.tagged = Cardinality(with)
      /\ Library!Statistics.missing = Cardinality(short)
  <2> HIDE DEF shown, with, short
  <2>1. Library!Statistics = [total |-> Cardinality(shown), tagged |-> Cardinality(with),
                              missing |-> Cardinality(short)]
    BY SameCardinality DEF Library!Statistics, shown, with, short
  <2> QED BY <2>1
<1>8. with \cup bare = shown /\ with \cap bare = {}
  <2>1. \A w \in Shelved : w \in with <=> Library!OnShelf(w) /\ Library!TagsOf(w) # {}
    <3>1. \A p \in tagged : p = <<p[1], p[2]>> /\ p[1] \in Shelved /\ p[2] \in Texts
      BY DEF ShelfInv
    <3>2. \A w \in Shelved : Library!TagsOf(w) # {} <=> \E n : <<w, n>> \in tagged
      BY <3>1, OfOne
    <3>3. \A w : w \in with <=> \E p \in tagged : Library!OnShelf(p[1]) /\ w = p[1]
      BY Zenon
    <3>4. \A w, n : <<w, n>>[1] = w
      OBVIOUS
    <3> HIDE DEF with
    <3> TAKE w \in Shelved
    <3>5. ASSUME NEW p \in tagged, Library!OnShelf(p[1]), w = p[1]
          PROVE  Library!OnShelf(w) /\ \E n : <<w, n>> \in tagged
      BY <3>1, <3>5, Zenon
    <3>6. ASSUME NEW n, <<w, n>> \in tagged, Library!OnShelf(w)
          PROVE  \E p \in tagged : Library!OnShelf(p[1]) /\ w = p[1]
      BY <3>4, <3>6, Zenon
    <3> QED BY <3>2, <3>3, <3>5, <3>6, Zenon
  <2>2. with \subseteq Shelved
    BY DEF ShelfInv
  <2> HIDE DEF with
  <2> QED BY <2>1, <2>2
<1>9. Cardinality(with) + Cardinality(bare) = Cardinality(shown)
  <2> HIDE DEF with
  <2>1. bare \subseteq Shelved /\ with \subseteq Shelved
    BY <1>8
  <2>2. IsFiniteSet(with) /\ IsFiniteSet(bare)
    BY <2>1, FS_Subset, LibraryAssumption
  <2> HIDE DEF bare, shown
  <2>3. Cardinality(with \cup bare) = Cardinality(with) + Cardinality(bare) - Cardinality(with \cap bare)
    BY <2>2, FS_Union
  <2>4. Cardinality({}) = 0 /\ Cardinality(with) \in Nat /\ Cardinality(bare) \in Nat
    BY <2>2, FS_EmptySet, FS_CardinalityType
  <2>5. Cardinality(with \cap bare) = 0 /\ Cardinality(with \cup bare) = Cardinality(shown)
    BY <1>8, <2>4, Zenon
  <2> QED BY <2>3, <2>4, <2>5
<1> HIDE DEF shown, bare, with, short
<1>10. /\ Library!Statistics.total = Library!Total(e)
       /\ Library!Statistics.missing = Library!Total([e EXCEPT !.missing = TRUE])
       /\ Library!Statistics.missing = Library!Cardinality(Library!ReviewQueue)
       /\ Library!Statistics.tagged + Library!Total([e EXCEPT !.untagged = TRUE]) = Library!Statistics.total
  BY <1>1, <1>5, <1>6, <1>7, <1>9, SameCardinality
<1> QED BY <1>2, <1>3, <1>4, <1>10, Zenon DEF Library!NumbersAgree

(* Whatever is asked about the shelf is true of the list a reader gets.     *)
(* See AnswersAgree of LibraryQueries: statistics.rs, collections.rs.       *)
THEOREM NumbersAndPagesAgree == Library!LibrarySpec => []AnswersAgree
<1>1. Library!LibraryInit => ShelfInv
  BY ShelfBegins
<1>2. ShelfInv /\ [Library!ShelfNext \/ Library!HomeNext]_(<<Library!shelfVars, Library!homeVars>>) => ShelfInv'
  BY ShelfKeeps
<1>3. ShelfInv => AnswersAgree
  BY LocatedOnPage, NumbersAre DEF AnswersAgree, Library!AnswersAgree
<1> QED BY <1>1, <1>2, <1>3, PTL DEF Library!LibrarySpec

-----------------------------------------------------------------------------
(* Thumbnails.                                                              *)

Has(w, c) == worker[w].at # "idle" /\ worker[w].collection = c

(* What a row asks for is not what there is to see, and will not be again. *)
Outrun(c) == file[c] = Nil \/ row[c].look.file.version < file[c].version

Fits(c, im) ==
  /\ im.cover = row[c].look.cover /\ im.settings = row[c].look.settings
  /\ im.version = row[c].look.file.version \/ Outrun(c)

Hopeless(c) == row[c].look.cover \notin row[c].look.file.content.images \/ Outrun(c)

(* What a worker has in hand is for the look of the row. *)
Held(w, c) ==
  LET j == worker[w] IN
  /\ j.at = "reading" =>
       \/ j.place = Nil
       \/ /\ j.place = row[c].look.file.place /\ j.cover = row[c].look.cover
          /\ j.settings = row[c].look.settings
  /\ j.at \in {"clearing", "placing"} => Fits(c, j.image)
  /\ j.at = "done" /\ j.result = "ok" => cache[c] = Nil \/ Fits(c, cache[c])
  /\ j.at = "done" /\ j.result = "permanent" => Hopeless(c)

Served(c) ==
  /\ \A v, w \in Workers : Has(v, c) /\ Has(w, c) => v = w
  /\ \A w \in Workers : Has(w, c) => Status(c) = "running" /\ Held(w, c)
  /\ Status(c) = "ready" => cache[c] = Nil \/ Fits(c, cache[c])
  /\ Status(c) = "failed" => Hopeless(c)

Faithful(c) == c \notin mixed /\ row[c] # NoRow => Served(c)

(* Versions of files grow, and a row is for none to come; one version holds *)
(* one thing.                                                               *)
Alike(f, g) == f.version = g.version /\ f.content = g.content
NotAfter(f, g) == f.version <= g.version /\ (f.version = g.version => f.content = g.content)

VersionsOK ==
  \A c \in Collections :
    /\ file[c] # Nil => file[c].version <= edits
    /\ row[c] # NoRow => row[c].look.file.version <= edits
    /\ file[c] # Nil /\ row[c] # NoRow => NotAfter(row[c].look.file, file[c])

DownIdle == ~up => \A w \in Workers : worker[w] = Idle

ThumbnailInv ==
  TypeOK /\ VersionsOK /\ DownIdle /\ \A c \in Collections : Faithful(c)

-----------------------------------------------------------------------------
(* A step, as one collection sees it. *)
Untouched(c) ==
  /\ row'[c] # NoRow =>
       /\ row[c] # NoRow /\ row'[c].look = row[c].look /\ row'[c].status = row[c].status
  /\ cache'[c] \in {cache[c], Nil}
  /\ \A w \in Workers : Has(w, c)' =>
       /\ Has(w, c)
       /\ \/ worker'[w] = worker[w]
          \/ worker'[w].at = "done" /\ worker'[w].result = "transient"
  /\ c \in mixed => c \in mixed'

Reset(c) ==
  /\ row'[c] # NoRow => row'[c].status \in {"pending", "running"}
  /\ c \notin mixed' => \A w \in Workers : ~Has(w, c)'

(* Files get new versions; a row is made of the file as it is, or stays.    *)
FilesGoOn ==
  /\ edits' \in Nat /\ edits <= edits'
  /\ \A c \in Collections :
       /\ file'[c] # Nil =>
            /\ file'[c].version <= edits'
            /\ row'[c] # NoRow => file[c] # Nil /\ NotAfter(file[c], file'[c])
       /\ row'[c] # NoRow =>
            \/ row[c] # NoRow /\ Alike(row'[c].look.file, row[c].look.file)
            \/ file'[c] # Nil /\ Alike(row'[c].look.file, file'[c])

LEMMA Shapes ==
  ASSUME TypeOK
  PROVE  /\ Nil \notin File /\ Nil \notin Image /\ Nil \notin Versions /\ NoRow \notin Row
         /\ edits \in Nat /\ MaxEdits \in Nat
         /\ \A c \in Collections : /\ file[c] # Nil => /\ file[c] \in File /\ file[c].version \in Nat
                                                        /\ file[c].version \in Versions
                                                        /\ file[c].place \in Versions
                                   /\ row[c] # NoRow => /\ row[c] \in Row /\ row[c].look \in Look
                                                         /\ row[c].look.file.version \in Nat
                                   /\ cache[c] # Nil => cache[c] \in Image
         /\ \A w \in Workers : worker[w] \in {Idle} \cup Job \cup Made \cup Done
<1>1. NoRow \notin Row
  <2>1. NoRow.status = "none"
    BY DEF NoRow
  <2> QED BY <2>1 DEF Row
<1>2. \A f \in File : f.version \in Nat /\ f.version \in Versions /\ f.place \in Versions
  BY ThumbnailBoundsAssumption DEF File, Versions
<1>3. \A r \in Row : r.look \in Look /\ r.look.file \in File
  BY DEF Row, Look
<1> QED BY <1>1, <1>2, <1>3, ThumbnailBoundsAssumption, ThumbnailNilAssumption DEF TypeOK

LEMMA VersionsStay ==
  ASSUME TypeOK, TypeOK', VersionsOK, FilesGoOn
  PROVE  VersionsOK'
<1> SUFFICES ASSUME NEW c \in Collections
             PROVE  /\ file'[c] # Nil => file'[c].version <= edits'
                    /\ row'[c] # NoRow => row'[c].look.file.version <= edits'
                    /\ file'[c] # Nil /\ row'[c] # NoRow =>
                         NotAfter(row'[c].look.file, file'[c])
  BY DEF VersionsOK
<1>1. /\ file[c] # Nil => file[c].version \in Nat
      /\ row[c] # NoRow => row[c].look.file.version \in Nat
      /\ edits \in Nat
  BY Shapes
<1>2. /\ file'[c] # Nil => file'[c].version \in Nat
      /\ row'[c] # NoRow => row'[c].look.file.version \in Nat
  <2>1. \A f \in File : f.version \in Nat
    BY ThumbnailBoundsAssumption DEF File, Versions
  <2>2. \A r \in Row : r.look.file \in File
    BY DEF Row, Look
  <2>3. file'[c] \in File \cup {Nil} /\ row'[c] \in Row \cup {NoRow}
    BY DEF TypeOK
  <2> QED BY <2>1, <2>2, <2>3
<1> QED BY <1>1, <1>2 DEF VersionsOK, FilesGoOn, Alike, NotAfter

(* What is past stays past as long as the row does.                         *)
LEMMA OutrunStays ==
  ASSUME TypeOK, TypeOK', VersionsOK, FilesGoOn, NEW c \in Collections, row[c] # NoRow,
         row'[c] # NoRow, row'[c].look = row[c].look
  PROVE  /\ Outrun(c) => Outrun(c)'
         /\ \A im : Fits(c, im) => Fits(c, im)'
         /\ Hopeless(c) => Hopeless(c)'
<1>1. Outrun(c) => Outrun(c)'
  <2>1. row'[c].look.file.version = row[c].look.file.version
    OBVIOUS
  <2>2. file[c] # Nil => file[c].version \in Nat
    BY Shapes
  <2>3. row[c].look.file.version \in Nat
    BY Shapes
  <2>4. file'[c] # Nil => file'[c].version \in Nat
    BY ThumbnailBoundsAssumption DEF TypeOK, File, Versions
  <2>5. file'[c] # Nil => file[c] # Nil /\ file[c].version <= file'[c].version
    BY DEF FilesGoOn, NotAfter
  <2> QED BY <2>1, <2>2, <2>3, <2>4, <2>5 DEF Outrun
<1> QED BY <1>1 DEF Fits, Hopeless

LEMMA UntouchedStays ==
  ASSUME ThumbnailInv, TypeOK', FilesGoOn, NEW c \in Collections, Untouched(c)
  PROVE  Faithful(c)'
<1> USE DEF ThumbnailInv
<1> SUFFICES ASSUME c \notin mixed', row'[c] # NoRow PROVE Served(c)'
  BY DEF Faithful
<1>1. /\ row[c] # NoRow /\ row'[c].look = row[c].look /\ Status(c)' = Status(c) /\ Served(c)
      /\ cache'[c] \in {cache[c], Nil}
  BY DEF Untouched, Faithful, Status
<1>2. /\ \A im : Fits(c, im) => Fits(c, im)'
      /\ Hopeless(c) => Hopeless(c)'
  BY <1>1, OutrunStays
<1>3. \A w \in Workers : Has(w, c)' =>
        /\ Has(w, c)
       /\ \/ worker'[w] = worker[w]
          \/ worker'[w].at = "done" /\ worker'[w].result = "transient"
  BY DEF Untouched
<1>4. cache[c] = Nil \/ Fits(c, cache[c]) => cache'[c] = Nil \/ Fits(c, cache[c])'
  BY <1>1, <1>2
<1>5. ASSUME NEW w \in Workers, Has(w, c)' PROVE Held(w, c)'
  <2>1. CASE worker'[w].at = "done" /\ worker'[w].result = "transient"
    BY <2>1 DEF Held
  <2>2. CASE worker'[w] = worker[w]
    <3>1. Held(w, c)
      BY <1>1, <1>3, <1>5 DEF Served
    <3> QED BY <1>1, <1>2, <1>4, <2>2, <3>1 DEF Held
  <2> QED BY <1>3, <1>5, <2>1, <2>2
<1>6. Status(c)' = "ready" => cache'[c] = Nil \/ Fits(c, cache[c])'
  BY <1>1, <1>4 DEF Served
<1>7. Status(c)' = "failed" => Hopeless(c)'
  BY <1>1, <1>2 DEF Served
<1>8. \A w \in Workers : Has(w, c)' => Status(c)' = "running"
  BY <1>1, <1>3 DEF Served
<1>9. \A v, w \in Workers : Has(v, c)' /\ Has(w, c)' => v = w
  BY <1>1, <1>3 DEF Served
<1> QED BY <1>5, <1>6, <1>7, <1>8, <1>9 DEF Served

LEMMA StandsBy ==
  ASSUME NEW c, worker' = worker, cache'[c] \in {cache[c], Nil}, c \in mixed => c \in mixed',
         row'[c] # NoRow =>
           row[c] # NoRow /\ row'[c].look = row[c].look /\ row'[c].status = row[c].status
  PROVE  Untouched(c)
<1>1. \A w \in Workers : Has(w, c)' => Has(w, c)
  BY DEF Has
<1>2. \A w \in Workers : worker'[w] = worker[w]
  OBVIOUS
<1> QED BY <1>1, <1>2, Zenon DEF Untouched

LEMMA ResetStays ==
  ASSUME NEW c, Reset(c)
  PROVE  Faithful(c)'
BY DEF Reset, Faithful, Served, Status

LEMMA GoesOnWell ==
  ASSUME ThumbnailInv, TypeOK', FilesGoOn, DownIdle',
         \A c \in Collections : Untouched(c) \/ Reset(c) \/ Faithful(c)'
  PROVE  ThumbnailInv'
<1>1. \A c \in Collections : Faithful(c)'
  BY UntouchedStays, ResetStays
<1>2. VersionsOK'
  BY VersionsStay DEF ThumbnailInv
<1> QED BY <1>1, <1>2 DEF ThumbnailInv

(* Rows as requests make them.                                              *)
LEMMA Looks ==
  ASSUME TypeOK, NEW c \in Collections, file[c] # Nil, NEW s \in Settings, NEW p \in Priorities
  PROVE  /\ LookNow(c, s) \in Look /\ Fresh(c, s, p) \in Row
         /\ Fresh(c, s, p).status = "pending" /\ Fresh(c, s, p).look = LookNow(c, s)
         /\ LookNow(c, s).file = file[c]
<1>1. file[c] \in File /\ cover[c] \in Covers
  BY DEF TypeOK
<1>2. LookNow(c, s) \in Look /\ LookNow(c, s).file = file[c]
  BY <1>1 DEF LookNow, Look
<1> QED BY <1>2 DEF Fresh, Row

LEMMA AsksWell ==
  ASSUME TypeOK, NEW c \in Collections, file[c] # Nil, NEW s \in Settings, NEW p \in Priorities,
         NEW r \in Row \cup {NoRow}
  PROVE  /\ Asked(r, c, s, p) \in Row
         /\ Outdated(r, c, s) => Asked(r, c, s, p) = Fresh(c, s, p)
         /\ ~Outdated(r, c, s) => /\ r # NoRow /\ Asked(r, c, s, p).look = r.look
                                  /\ Asked(r, c, s, p).status = r.status
<1>1. Outdated(r, c, s) => Asked(r, c, s, p) = Fresh(c, s, p)
  BY DEF Asked
<1>2. CASE Outdated(r, c, s)
  BY <1>1, <1>2, Looks
<1>3. CASE ~Outdated(r, c, s)
  <2>1. r # NoRow /\ r \in Row
    BY <1>3 DEF Outdated
  <2>2. Asked(r, c, s, p) \in {r, [r EXCEPT !.priority = p]}
    BY <1>3 DEF Asked
  <2>3. /\ [r EXCEPT !.priority = p] \in Row /\ [r EXCEPT !.priority = p].look = r.look
        /\ [r EXCEPT !.priority = p].status = r.status
    BY <2>1 DEF Row
  <2> QED BY <1>1, <1>3, <2>1, <2>2, <2>3
<1> QED BY <1>2, <1>3

LEMMA Requeues ==
  ASSUME NEW r \in Row, NEW s \in Settings
  PROVE  /\ Requeued(r, s) \in Row /\ Requeued(r, s).status = "pending"
         /\ Requeued(r, s).look.file = r.look.file
<1> DEFINE l == [r.look EXCEPT !.settings = s]
<1>1. l \in Look /\ l.file = r.look.file
  BY DEF Row, Look
<1>2. Requeued(r, s) = [r EXCEPT !.look = l, !.status = "pending", !.delay = FALSE]
  BY DEF Requeued, Row
<1> HIDE DEF l
<1> QED BY <1>1, <1>2 DEF Row

LEMMA Recovers ==
  ASSUME NEW r \in Row
  PROVE  /\ Recovered(r) \in Row /\ Recovered(r).look = r.look
         /\ Recovered(r).status = "pending" \/ Recovered(r) = r
BY DEF Recovered, Row

LEMMA QueueTypes ==
  ASSUME TypeOK, NEW S \in SUBSET Collections
  PROVE  /\ Later(S) \subseteq Collections \X Collections
         /\ MixedBy(S) \subseteq Collections
         /\ \A c \in S : c \notin MixedBy(S) => \A w \in Workers : ~Has(w, c)
         /\ \A c \in Collections \ S : c \in mixed => c \in MixedBy(S)
BY DEF TypeOK, Later, MixedBy, InHand, Has

LEMMA Touches == ASSUME NEW S, NEW s, NEW rows PROVE Touched(S, s, rows) \subseteq S
BY DEF Touched

\* who may have done something to the files and the counts, or not
LEMMA NoFiles ==
  ASSUME ThumbnailInv, TypeOK', file' = file, edits' = edits \/ edits' = edits + 1,
         \A c \in Collections : row'[c] # NoRow =>
            \/ row[c] # NoRow /\ Alike(row'[c].look.file, row[c].look.file)
            \/ file[c] # Nil /\ Alike(row'[c].look.file, file[c])
  PROVE  FilesGoOn
<1>1. edits \in Nat /\ \A c \in Collections : file[c] # Nil => file[c].version \in Nat
  BY Shapes DEF ThumbnailInv
<1>2. \A c \in Collections : file[c] # Nil => file[c].version <= edits
  BY DEF ThumbnailInv, VersionsOK
<1> QED BY <1>1, <1>2 DEF FilesGoOn, NotAfter

-----------------------------------------------------------------------------
(* Requests.                                                                *)

LEMMA RequestFaithful ==
  ASSUME ThumbnailInv, NEW c \in Collections, NEW p \in Asking, Request(c, p)
  PROVE  ThumbnailInv'
<1> USE DEF ThumbnailInv
<1> DEFINE a == Asked(row[c], c, settings, p)
<1>1. file[c] # Nil /\ row[c] \in Row \cup {NoRow} /\ settings \in Settings /\ p \in Priorities
  BY DEF Request, Requestable, Readable, TypeOK, Priorities
<1>2. /\ a \in Row /\ (Outdated(row[c], c, settings) => a = Fresh(c, settings, p))
      /\ ~Outdated(row[c], c, settings) => /\ row[c] # NoRow /\ a.look = row[c].look
                                           /\ a.status = row[c].status
  BY <1>1, AsksWell
<1>3. /\ Fresh(c, settings, p).status = "pending"
      /\ Fresh(c, settings, p).look = LookNow(c, settings) /\ LookNow(c, settings).file = file[c]
  BY <1>1, Looks
<1>4. /\ row' = [row EXCEPT ![c] = a] /\ earlier' = Later(Touched({c}, settings, row))
      /\ mixed' = IF Outdated(row[c], c, settings) THEN MixedBy({c}) ELSE mixed
      /\ UNCHANGED <<file, operable, cover, settings, cache, worker, up, batch, edits, crashes, errors>>
  BY DEF Request, library, counts
<1> HIDE DEF a
<1>5. /\ row'[c] = a /\ \A d \in Collections \ {c} : row'[d] = row[d]
      /\ row' \in [Collections -> Row \cup {NoRow}]
  <2>1. row' = [row EXCEPT ![c] = a] /\ a \in Row \cup {NoRow}
    BY <1>2, <1>4
  <2>2. row \in [Collections -> Row \cup {NoRow}]
    BY DEF TypeOK
  <2> QED BY <2>1, <2>2
<1>6. TypeOK'
  <2>1. earlier' \subseteq Collections \X Collections
    BY <1>4, QueueTypes, Touches
  <2>2. mixed' \subseteq Collections
    BY <1>4, QueueTypes DEF TypeOK
  <2> QED BY <1>4, <1>5, <2>1, <2>2 DEF TypeOK
<1>7. FilesGoOn
  BY <1>1, <1>2, <1>3, <1>4, <1>5, <1>6, NoFiles DEF Alike
<1>8. ASSUME NEW d \in Collections PROVE Untouched(d) \/ Reset(d)
  <2>1. CASE d # c
    <3>1. d \in mixed => d \in mixed'
      BY <1>4, <2>1, QueueTypes
    <3> QED BY <1>4, <1>5, <2>1, <3>1, StandsBy
  <2>2. CASE d = c /\ ~Outdated(row[c], c, settings)
    BY <1>2, <1>4, <1>5, <2>2, StandsBy
  <2>3. CASE d = c /\ Outdated(row[c], c, settings)
    <3>1. c \notin mixed' => \A w \in Workers : ~Has(w, c)
      BY <1>4, <2>3, QueueTypes
    <3> QED BY <1>2, <1>3, <1>4, <1>5, <2>3, <3>1 DEF Reset, Has
  <2> QED BY <2>1, <2>2, <2>3
<1>9. DownIdle'
  BY <1>4 DEF DownIdle
<1> QED BY <1>6, <1>7, <1>8, <1>9, GoesOnWell

LEMMA PrepareFaithful ==
  ASSUME ThumbnailInv, NEW S \in Scopes, StartCacheJob(S)
  PROVE  ThumbnailInv'
<1> USE DEF ThumbnailInv
<1> DEFINE asked == {c \in S : Requestable(c)}
           O == {c \in asked : Outdated(row[c], c, settings)}
           a(c) == Asked(row[c], c, settings, Batch)
<1>1. S \subseteq Collections /\ settings \in Settings /\ Batch \in Priorities
  BY ThumbnailScopesAssumption DEF TypeOK, Priorities
<1>2. asked \subseteq Collections /\ O \subseteq asked /\ \A c \in asked : file[c] # Nil
  BY <1>1 DEF Requestable, Readable
<1>3. \A c \in asked :
        /\ a(c) \in Row /\ (c \in O => a(c) = Fresh(c, settings, Batch))
        /\ c \notin O => row[c] # NoRow /\ a(c).look = row[c].look /\ a(c).status = row[c].status
        /\ Fresh(c, settings, Batch).status = "pending"
        /\ Fresh(c, settings, Batch).look.file = file[c]
  <2> TAKE c \in asked
  <2>1. c \in Collections /\ file[c] # Nil /\ row[c] \in Row \cup {NoRow}
    BY <1>2 DEF TypeOK
  <2>2. /\ Fresh(c, settings, Batch).status = "pending"
        /\ Fresh(c, settings, Batch).look = LookNow(c, settings)
        /\ LookNow(c, settings).file = file[c]
    BY <1>1, <2>1, Looks
  <2>3. /\ a(c) \in Row /\ (Outdated(row[c], c, settings) => a(c) = Fresh(c, settings, Batch))
        /\ ~Outdated(row[c], c, settings) =>
             row[c] # NoRow /\ a(c).look = row[c].look /\ a(c).status = row[c].status
    BY <1>1, <2>1, AsksWell
  <2> QED BY <2>2, <2>3
<1>4. /\ row' = [c \in Collections |-> IF c \in asked THEN a(c) ELSE row[c]]
      /\ earlier' = Later(Touched(asked, settings, row))
      /\ mixed' = MixedBy(O) \cup {c \in mixed : c \notin asked \/ ~Outdated(row[c], c, settings)}
      /\ batch' = [asked |-> asked, refused |-> S \ asked]
      /\ UNCHANGED <<file, operable, cover, settings, cache, worker, up, edits, crashes, errors>>
  BY DEF StartCacheJob, PrepareCache, library, counts
<1> HIDE DEF asked, O, a
<1>5. /\ \A c \in asked : row'[c] = a(c)
      /\ \A c \in Collections \ asked : row'[c] = row[c]
      /\ row' \in [Collections -> Row \cup {NoRow}]
  BY <1>2, <1>3, <1>4 DEF TypeOK
<1>6. TypeOK'
  <2>1. earlier' \subseteq Collections \X Collections
    <3>1. Touched(asked, settings, row) \subseteq Collections
      BY <1>2, Touches
    <3> QED BY <1>4, <3>1, QueueTypes
  <2>2. mixed' \subseteq Collections
    BY <1>2, <1>4, QueueTypes DEF TypeOK
  <2>3. batch' \in CacheJob
    BY <1>1, <1>2, <1>4 DEF CacheJob
  <2> QED BY <1>4, <1>5, <2>1, <2>2, <2>3 DEF TypeOK
<1>7. FilesGoOn
  BY <1>2, <1>3, <1>4, <1>5, <1>6, NoFiles DEF Alike
<1>8. ASSUME NEW d \in Collections PROVE Untouched(d) \/ Reset(d)
  <2>1. CASE d \notin O
    <3>1. d \in mixed => d \in mixed'
      BY <1>4, <2>1 DEF O
    <3>2. row'[d] # NoRow => /\ row[d] # NoRow /\ row'[d].look = row[d].look
                             /\ row'[d].status = row[d].status
      BY <1>3, <1>5, <2>1
    <3> QED BY <1>4, <3>1, <3>2, StandsBy
  <2>2. CASE d \in O
    <3>1. d \notin mixed' => \A w \in Workers : ~Has(w, d)
      BY <1>2, <1>4, <2>2, QueueTypes
    <3>2. row'[d].status = "pending"
      BY <1>2, <1>3, <1>5, <2>2
    <3> QED BY <1>4, <3>1, <3>2 DEF Reset, Has
  <2> QED BY <2>1, <2>2
<1>9. DownIdle'
  BY <1>4 DEF DownIdle
<1> QED BY <1>6, <1>7, <1>8, <1>9, GoesOnWell

(* The rows of S are made anew, their images removed.                       *)
LEMMA RebuiltFaithful ==
  ASSUME ThumbnailInv, NEW S \in SUBSET Collections, \A c \in S : file[c] # Nil,
         NEW p \in Priorities, Rebuilt(S, p),
         cover' \in [Collections -> Covers], edits' = edits \/ edits' = edits + 1,
         edits' \in 0 .. MaxEdits, crashes' \in 0 .. MaxTroubles, errors' \in 0 .. MaxTroubles,
         batch' \in CacheJob \cup {Nil},
         UNCHANGED <<file, operable, settings, worker, up>>
  PROVE  ThumbnailInv'
<1> USE DEF ThumbnailInv
<1> DEFINE a(c) == [Fresh(c, settings, p) EXCEPT !.look.cover = cover'[c]]
<1>1. \A c \in S : a(c) \in Row /\ a(c).status = "pending" /\ a(c).look.file = file[c]
  <2> TAKE c \in S
  <2> DEFINE r == Fresh(c, settings, p)
             l == [r.look EXCEPT !.cover = cover'[c]]
  <2>1. /\ r \in Row /\ r.status = "pending" /\ r.look \in Look /\ r.look.file = file[c]
    BY Looks DEF TypeOK
  <2>2. cover'[c] \in Covers
    OBVIOUS
  <2>3. a(c) = [r EXCEPT !.look = l]
    BY <2>1 DEF Row
  <2> HIDE DEF r
  <2>4. l \in Look /\ l.file = file[c]
    BY <2>1, <2>2 DEF Look
  <2> HIDE DEF l, a
  <2> QED BY <2>1, <2>3, <2>4 DEF Row
<1>2. /\ cache' = [c \in Collections |-> IF c \in S THEN Nil ELSE cache[c]]
      /\ row' = [c \in Collections |-> IF c \in S THEN a(c) ELSE row[c]]
      /\ earlier' = Later(S) /\ mixed' = MixedBy(S)
  BY DEF Rebuilt
<1> HIDE DEF a
<1>3. /\ \A c \in S : row'[c] = a(c)
      /\ \A c \in Collections \ S : row'[c] = row[c]
      /\ \A c \in Collections : cache'[c] \in {cache[c], Nil}
      /\ row' \in [Collections -> Row \cup {NoRow}] /\ cache' \in [Collections -> Image \cup {Nil}]
  BY <1>1, <1>2 DEF TypeOK
<1>4. TypeOK'
  BY <1>2, <1>3, QueueTypes DEF TypeOK
<1>5. FilesGoOn
  BY <1>1, <1>3, <1>4, NoFiles DEF Alike
<1>6. ASSUME NEW d \in Collections PROVE Untouched(d) \/ Reset(d)
  <2>1. CASE d \notin S
    <3>1. d \in mixed => d \in mixed'
      BY <1>2, <2>1, QueueTypes
    <3> QED BY <1>3, <2>1, <3>1, StandsBy
  <2>2. CASE d \in S
    <3>1. d \notin mixed' => \A w \in Workers : ~Has(w, d)
      BY <1>2, <2>2, QueueTypes
    <3> QED BY <1>1, <1>3, <2>2, <3>1 DEF Reset, Has
  <2> QED BY <2>1, <2>2
<1>7. DownIdle'
  BY DEF DownIdle
<1> QED BY <1>4, <1>5, <1>6, <1>7, GoesOnWell

LEMMA RebuildsFaithful ==
  ASSUME ThumbnailInv,
         \/ RetryCacheJob \/ RebuildAll \/ \E c \in Collections : Rebuild(c)
         \/ \E c \in Collections, k \in Covers : SelectCover(c, k)
  PROVE  ThumbnailInv'
<1> USE DEF ThumbnailInv
<1>1. /\ Default \in Priorities /\ Batch \in Priorities /\ cover \in [Collections -> Covers]
      /\ batch \in CacheJob \cup {Nil} /\ edits \in 0 .. MaxEdits
      /\ crashes \in 0 .. MaxTroubles /\ errors \in 0 .. MaxTroubles /\ MaxEdits \in Nat
  BY ThumbnailBoundsAssumption DEF Priorities, TypeOK
<1>2. ASSUME Change PROVE /\ edits' = edits + 1 /\ edits' \in 0 .. MaxEdits
                          /\ crashes' \in 0 .. MaxTroubles /\ errors' \in 0 .. MaxTroubles
  BY <1>1, <1>2 DEF Change
<1>3. CASE RetryCacheJob
  <2> DEFINE F == CacheFailures(batch)
             asked == {c \in F : Requestable(c)}
  <2>1. /\ batch # Nil /\ UNCHANGED cover /\ Rebuilt(asked, Batch)
        /\ batch' = [asked |-> asked, refused |-> F \ asked]
        /\ UNCHANGED <<file, operable, settings, worker, up, edits, crashes, errors>>
    BY <1>3 DEF RetryCacheJob, RetryFailed, counts
  <2>2. F \subseteq Collections
    BY <1>1, <2>1 DEF CacheFailures, CacheJob
  <2>3. asked \in SUBSET Collections /\ \A c \in asked : file[c] # Nil
    BY <2>2 DEF Requestable, Readable
  <2>4. batch' \in CacheJob
    BY <2>1, <2>2, <2>3 DEF CacheJob
  <2> HIDE DEF asked, F
  <2> QED BY <1>1, <2>1, <2>3, <2>4, RebuiltFaithful
<1>4. CASE RebuildAll
  <2>1. PICK S \in SUBSET Collections : (\A c \in S : Requestable(c)) /\ Rebuilt(S, Default)
    BY <1>4 DEF RebuildAll
  <2>2. \A c \in S : file[c] # Nil
    BY <2>1 DEF Requestable, Readable
  <2>3. Change /\ UNCHANGED <<cover, file, operable, settings, worker, up, batch>>
    BY <1>4 DEF RebuildAll
  <2> QED BY <1>1, <1>2, <2>1, <2>2, <2>3, RebuiltFaithful
<1>5. CASE \E c \in Collections : Rebuild(c)
  <2>1. PICK c \in Collections : Rebuild(c)
    BY <1>5
  <2>2. /\ Change /\ file[c] # Nil /\ Rebuilt({c}, Default)
        /\ UNCHANGED <<cover, file, operable, settings, worker, up, batch>>
    BY <2>1 DEF Rebuild, Requestable, Readable
  <2> QED BY <1>1, <1>2, <2>2, RebuiltFaithful
<1>6. CASE \E c \in Collections, k \in Covers : SelectCover(c, k)
  <2>1. PICK c \in Collections, k \in Covers : SelectCover(c, k)
    BY <1>6
  <2>2. /\ Change /\ file[c] # Nil /\ Rebuilt({c}, Default) /\ cover' = [cover EXCEPT ![c] = k]
        /\ UNCHANGED <<file, operable, settings, worker, up, batch>>
    BY <2>1 DEF SelectCover, Choosable, Readable
  <2>3. cover' \in [Collections -> Covers]
    BY <1>1, <2>2
  <2> QED BY <1>1, <1>2, <2>2, <2>3, RebuiltFaithful
<1> QED BY <1>3, <1>4, <1>5, <1>6

(* Nothing happens to rows and workers.                                     *)
LEMMA QuietSteps ==
  ASSUME ThumbnailInv, TypeOK', FilesGoOn, UNCHANGED <<row, worker, mixed, up>>,
         \A c \in Collections : cache'[c] \in {cache[c], Nil}
  PROVE  ThumbnailInv'
<1>1. \A c \in Collections : Untouched(c)
  BY StandsBy
<1>2. DownIdle'
  BY DEF DownIdle, ThumbnailInv
<1> QED BY <1>1, <1>2, GoesOnWell

LEMMA CoversFaithful ==
  ASSUME ThumbnailInv, NEW c \in Collections, NEW k \in Covers,
         ClearCoverOnly(c) \/ RebuildBreaks(c) \/ SelectCoverBreaks(c, k)
  PROVE  ThumbnailInv'
<1> USE DEF ThumbnailInv
<1>1. cover' = cover \/ cover' = [cover EXCEPT ![c] = 0] \/ cover' = [cover EXCEPT ![c] = k]
  BY DEF ClearCoverOnly, RebuildBreaks, SelectCoverBreaks, library
<1>2. 0 \in Covers /\ cover \in [Collections -> Covers] /\ cache \in [Collections -> Image \cup {Nil}]
  BY ThumbnailCoversAssumption DEF TypeOK
<1>3. cover' \in [Collections -> Covers]
  BY <1>1, <1>2
<1>4. cache' = cache \/ cache' = [cache EXCEPT ![c] = Nil]
  BY DEF ClearCoverOnly, RebuildBreaks, SelectCoverBreaks
<1>5. /\ cache' \in [Collections -> Image \cup {Nil}]
      /\ \A d \in Collections : cache'[d] \in {cache[d], Nil}
  BY <1>2, <1>4
<1>6. /\ UNCHANGED <<file, operable, settings, row, earlier, worker, up, batch, mixed>>
      /\ edits' = edits /\ crashes' = crashes /\ errors' \in 0 .. MaxTroubles
  BY ThumbnailBoundsAssumption DEF ClearCoverOnly, RebuildBreaks, SelectCoverBreaks, library, counts,
       ErrorHappens, MoreTroubles, TypeOK
<1>7. TypeOK'
  BY <1>3, <1>5, <1>6 DEF TypeOK
<1>8. FilesGoOn
  BY <1>6, <1>7, NoFiles DEF Alike
<1> QED BY <1>5, <1>6, <1>7, <1>8, QuietSteps

LEMMA SaveFaithful ==
  ASSUME ThumbnailInv, NEW s \in Settings, SaveSettings(s)
  PROVE  ThumbnailInv'
<1> USE DEF ThumbnailInv
<1> DEFINE S == {c \in Collections : row[c] # NoRow /\ row[c].look.settings # s}
           a(c) == Requeued(row[c], s)
<1>1. \A c \in S : row[c] \in Row /\ row[c] # NoRow
  BY DEF TypeOK
<1>2. \A c \in S : a(c) \in Row /\ a(c).status = "pending" /\ a(c).look.file = row[c].look.file
  BY <1>1, Requeues
<1>3. /\ settings' = s /\ row' = [c \in Collections |-> IF c \in S THEN a(c) ELSE row[c]]
      /\ mixed' = MixedBy(S) /\ Change
      /\ UNCHANGED <<file, operable, cover, earlier, cache, worker, up, batch>>
  BY DEF SaveSettings, library
<1>4. /\ edits' = edits + 1 /\ edits' \in 0 .. MaxEdits /\ UNCHANGED <<crashes, errors>>
  BY <1>3, ThumbnailBoundsAssumption DEF Change, TypeOK
<1>5. S \subseteq Collections
  OBVIOUS
<1> HIDE DEF S, a
<1>6. /\ \A c \in S : row'[c] = a(c)
      /\ \A c \in Collections \ S : row'[c] = row[c]
      /\ row' \in [Collections -> Row \cup {NoRow}]
  BY <1>2, <1>3, <1>5 DEF TypeOK
<1>7. mixed' \subseteq Collections
  BY <1>3, <1>5, QueueTypes
<1>8. TypeOK'
  BY <1>3, <1>4, <1>6, <1>7 DEF TypeOK
<1>9. FilesGoOn
  BY <1>1, <1>2, <1>3, <1>4, <1>6, <1>8, NoFiles DEF Alike
<1>10. ASSUME NEW d \in Collections PROVE Untouched(d) \/ Reset(d)
  <2>1. CASE d \notin S
    <3>1. d \in mixed => d \in mixed'
      BY <1>3, <1>5, <2>1, QueueTypes
    <3>2. row'[d] = row[d] /\ cache'[d] \in {cache[d], Nil}
      BY <1>3, <1>6, <2>1
    <3> QED BY <1>3, <3>1, <3>2, StandsBy
  <2>2. CASE d \in S
    <3>1. d \notin mixed' => \A w \in Workers : ~Has(w, d)
      BY <1>3, <1>5, <2>2, QueueTypes
    <3> QED BY <1>2, <1>3, <1>6, <2>2, <3>1 DEF Reset, Has
  <2> QED BY <2>1, <2>2
<1>11. DownIdle'
  BY <1>3 DEF DownIdle
<1> QED BY <1>8, <1>9, <1>10, <1>11, GoesOnWell

(* What happens to the files.                                               *)
LEMMA OutsideFaithful ==
  ASSUME ThumbnailInv, Outside
  PROVE  ThumbnailInv'
<1> USE DEF ThumbnailInv
<1>1. PICK c \in Collections : \/ FileMoves(c) \/ CollectionGoes(c) \/ CollectionDeleted(c)
                               \/ CollectionArrives(c) \/ FileReplaced(c)
  BY DEF Outside
<1>2. /\ edits \in 0 .. MaxEdits /\ MaxEdits \in Nat /\ crashes \in 0 .. MaxTroubles
      /\ errors \in 0 .. MaxTroubles /\ 0 \in Covers /\ edits \in Versions /\ edits \in Nat
      /\ cover \in [Collections -> Covers] /\ operable \in [Collections -> BOOLEAN]
      /\ row \in [Collections -> Row \cup {NoRow}] /\ file \in [Collections -> File \cup {Nil}]
  BY ThumbnailBoundsAssumption, ThumbnailCoversAssumption DEF TypeOK, Versions
<1>3. \A d \in Collections : /\ file[d] # Nil => /\ file[d] \in File /\ file[d].version \in Nat
                                                 /\ file[d].version <= edits
                             /\ row[d] # NoRow => row[d].look.file.version \in Nat
  BY Shapes DEF VersionsOK
<1>4. Change => /\ edits' = edits + 1 /\ edits' \in 0 .. MaxEdits /\ edits' \in Versions
                /\ crashes' = crashes /\ errors' = errors
  BY <1>2 DEF Change, Versions
<1>5. UNCHANGED <<settings, earlier, cache, worker, up, batch, mixed>>
  BY <1>1 DEF FileMoves, CollectionGoes, CollectionDeleted, CollectionArrives, FileReplaced
\* the new file of c
<1> DEFINE f == file'[c]
<1>6. /\ edits' \in 0 .. MaxEdits /\ edits <= edits' /\ crashes' = crashes /\ errors' = errors
      /\ cover' \in [Collections -> Covers] /\ operable' \in [Collections -> BOOLEAN]
      /\ row' \in [Collections -> Row \cup {NoRow}]
      /\ \A d \in Collections : row'[d] = row[d] \/ row'[d] = NoRow
  <2>1. CASE FileMoves(c) \/ FileReplaced(c)
    BY <1>2, <1>4, <2>1 DEF FileMoves, FileReplaced
  <2>2. CASE CollectionGoes(c)
    BY <1>2, <1>4, <2>2 DEF CollectionGoes
  <2>3. CASE CollectionDeleted(c)
    BY <1>2, <1>4, <2>3 DEF CollectionDeleted
  <2>4. CASE CollectionArrives(c)
    BY <1>2, <2>4 DEF CollectionArrives, counts
  <2> QED BY <1>1, <2>1, <2>2, <2>3, <2>4
<1>7. /\ file' \in [Collections -> File \cup {Nil}]
      /\ \A d \in Collections \ {c} : file'[d] = file[d]
      /\ f # Nil => /\ f.version \in Nat /\ f.version <= edits'
                    /\ row'[c] # NoRow => file[c] # Nil /\ NotAfter(file[c], f)
  <2>1. CASE FileMoves(c)
    <3>1. file[c] \in File /\ file' = [file EXCEPT ![c] = [file[c] EXCEPT !.place = edits']]
      BY <1>2, <1>3, <1>4, <2>1 DEF FileMoves
    <3>2. [file[c] EXCEPT !.place = edits'] \in File
      BY <1>4, <2>1, <3>1 DEF File, FileMoves
    <3>3. Alike(file[c], [file[c] EXCEPT !.place = edits'])
      BY <3>1 DEF File, Alike
    <3>4. f = [file[c] EXCEPT !.place = edits'] /\ file[c] # Nil
      BY <1>2, <2>1, <3>1 DEF FileMoves
    <3>5. file[c].version \in Nat /\ file[c].version <= edits'
      BY <1>2, <1>3, <1>6, <3>4
    <3> QED BY <1>2, <3>1, <3>2, <3>3, <3>4, <3>5 DEF Alike, NotAfter
  <2>2. CASE CollectionGoes(c)
    BY <1>2, <1>3, <1>6, <2>2 DEF CollectionGoes, NotAfter
  <2>3. CASE CollectionDeleted(c)
    BY <1>2, <1>3, <1>6, <2>3 DEF CollectionDeleted
  <2>4. CASE CollectionArrives(c)
    <3>0. PICK k \in Contents :
            file' = [file EXCEPT ![c] = [place |-> edits, version |-> edits, content |-> k]]
      BY <2>4 DEF CollectionArrives
    <3> DEFINE g == [place |-> edits, version |-> edits, content |-> k]
    <3>1. g \in File /\ g.version = edits
      BY <1>2 DEF File
    <3>2. file' = [file EXCEPT ![c] = g] /\ row'[c] = NoRow /\ edits' = edits
      BY <2>4, <3>0 DEF CollectionArrives, counts
    <3> HIDE DEF g
    <3> QED BY <1>2, <3>1, <3>2
  <2>5. CASE FileReplaced(c)
    <3>1. CASE file' = [file EXCEPT ![c] = Nil]
      BY <1>2, <3>1
    <3>2. ASSUME NEW k \in Contents,
                 file' = [file EXCEPT ![c].version = edits + 1, ![c].content = k]
          PROVE  /\ file' \in [Collections -> File \cup {Nil}]
                 /\ \A d \in Collections \ {c} : file'[d] = file[d]
                 /\ f # Nil => /\ f.version \in Nat /\ f.version <= edits'
                               /\ row'[c] # NoRow => file[c] # Nil /\ NotAfter(file[c], f)
      <4> DEFINE g == [file[c] EXCEPT !.version = edits', !.content = k]
      <4>1. file[c] \in File /\ file[c] # Nil /\ edits' \in Versions /\ edits' = edits + 1
        BY <1>3, <1>4, <2>5 DEF FileReplaced
      <4>2. g \in File /\ g.version = edits'
        BY <4>1 DEF File
      <4>3. file' = [file EXCEPT ![c] = g]
        BY <3>2, <4>1
      <4> HIDE DEF g
      <4>4. f = g
        BY <1>2, <4>3
      <4> QED BY <1>2, <1>3, <4>1, <4>2, <4>3, <4>4 DEF NotAfter
    <3> QED BY <2>5, <3>1, <3>2 DEF FileReplaced
  <2> QED BY <1>1, <2>1, <2>2, <2>3, <2>4, <2>5
<1>8. TypeOK'
  BY <1>2, <1>5, <1>6, <1>7 DEF TypeOK
<1>9. FilesGoOn
  <2>1. edits' \in Nat /\ edits <= edits'
    BY <1>6
  <2> SUFFICES ASSUME NEW d \in Collections
               PROVE  /\ file'[d] # Nil =>
                           /\ file'[d].version <= edits'
                           /\ row'[d] # NoRow => file[d] # Nil /\ NotAfter(file[d], file'[d])
                      /\ row'[d] # NoRow => row[d] # NoRow /\ row'[d] = row[d]
    BY <2>1 DEF FilesGoOn, Alike
  <2>2. row'[d] # NoRow => row'[d] = row[d]
    BY <1>6
  <2>3. CASE d = c
    BY <1>7, <2>2, <2>3
  <2>4. CASE d # c
    BY <1>2, <1>3, <1>7, <2>1, <2>2, <2>4 DEF NotAfter
  <2> QED BY <2>3, <2>4
<1>10. ASSUME NEW d \in Collections PROVE Untouched(d)
  BY <1>5, <1>6, StandsBy
<1>11. DownIdle'
  BY <1>5 DEF DownIdle
<1> QED BY <1>8, <1>9, <1>10, <1>11, GoesOnWell

(* A step of one worker, at one collection.                                 *)
LEMMA WorkerSteps ==
  ASSUME ThumbnailInv, NEW w \in Workers, NEW c \in Collections,
         up, NEW job \in {Idle} \cup Job \cup Made \cup Done, Takes(w, job),
         worker[w].at # "idle" => worker[w].collection = c,
         job.at # "idle" => job.collection = c,
         UNCHANGED <<file, operable, cover, settings, earlier, up, batch, edits, crashes>>,
         errors' \in 0 .. MaxTroubles,
         NEW r \in Row \cup {NoRow}, row' = [row EXCEPT ![c] = r],
         r # NoRow => row[c] # NoRow /\ r.look = row[c].look,
         NEW i \in Image \cup {Nil}, cache' = [cache EXCEPT ![c] = i],
         mixed' = mixed \/ mixed' = mixed \cup {c},
         c \notin mixed' /\ row[c] # NoRow /\ r # NoRow /\ Served(c) => Served(c)'
  PROVE  ThumbnailInv'
<1> USE DEF ThumbnailInv
<1>1. /\ row \in [Collections -> Row \cup {NoRow}] /\ cache \in [Collections -> Image \cup {Nil}]
      /\ worker \in [Workers -> {Idle} \cup Job \cup Made \cup Done] /\ mixed \subseteq Collections
  BY DEF TypeOK
<1>2. /\ row'[c] = r /\ cache'[c] = i /\ worker'[w] = job
      /\ \A d \in Collections \ {c} : row'[d] = row[d] /\ cache'[d] = cache[d]
      /\ \A v \in Workers \ {w} : worker'[v] = worker[v]
      /\ row' \in [Collections -> Row \cup {NoRow}] /\ cache' \in [Collections -> Image \cup {Nil}]
      /\ worker' \in [Workers -> {Idle} \cup Job \cup Made \cup Done]
  <2>1. worker' = [worker EXCEPT ![w] = job]
    BY DEF Takes
  <2>2. row'[c] = r /\ (\A d \in Collections \ {c} : row'[d] = row[d])
           /\ row' \in [Collections -> Row \cup {NoRow}]
    BY <1>1
  <2>3. cache'[c] = i /\ (\A d \in Collections \ {c} : cache'[d] = cache[d])
           /\ cache' \in [Collections -> Image \cup {Nil}]
    BY <1>1
  <2>4. worker'[w] = job /\ (\A v \in Workers \ {w} : worker'[v] = worker[v])
           /\ worker' \in [Workers -> {Idle} \cup Job \cup Made \cup Done]
    BY <1>1, <2>1
  <2> QED BY <2>2, <2>3, <2>4
<1>3. TypeOK'
  BY <1>1, <1>2 DEF TypeOK
<1>4. FilesGoOn
  BY <1>2, <1>3, NoFiles DEF Alike
<1>5. DownIdle'
  BY DEF DownIdle
<1>6. \A d \in Collections \ {c} : Untouched(d)
  <2> TAKE d \in Collections \ {c}
  <2>1. \A v \in Workers : Has(v, d)' => Has(v, d) /\ worker'[v] = worker[v]
    BY <1>2 DEF Has
  <2>2. row'[d] = row[d] /\ cache'[d] = cache[d] /\ (d \in mixed => d \in mixed')
    BY <1>2
  <2> QED BY <2>1, <2>2, Zenon DEF Untouched
<1>7. Faithful(c)'
  <2> SUFFICES ASSUME c \notin mixed', row'[c] # NoRow PROVE Served(c)'
    BY DEF Faithful
  <2>1. c \notin mixed /\ row[c] # NoRow /\ r # NoRow
    BY <1>2
  <2> QED BY <2>1 DEF Faithful
<1> QED BY <1>3, <1>4, <1>5, <1>6, <1>7, GoesOnWell

(* Claiming: nobody has a pending row in hand.                              *)
LEMMA ClaimFaithful ==
  ASSUME ThumbnailInv, NEW w \in Workers, NEW c \in Collections, Claim(w, c)
  PROVE  ThumbnailInv'
<1> USE DEF ThumbnailInv
<1> DEFINE j == [at |-> "reading", collection |-> c,
                 place |-> IF file[c] = Nil THEN Nil ELSE file[c].place,
                 cover |-> cover[c], settings |-> settings]
           r == [row[c] EXCEPT !.status = "running"]
<1>1. /\ up /\ worker[w].at = "idle" /\ Status(c) = "pending"
      /\ row' = [row EXCEPT ![c] = r] /\ Takes(w, j)
      /\ mixed' = IF file[c] = Nil \/ row[c].look = LookNow(c, settings) THEN mixed ELSE mixed \cup {c}
      /\ UNCHANGED <<file, operable, cover, settings, earlier, cache, up, batch, edits, crashes, errors>>
  BY DEF Claim, At, First, Due, Claimed, library, counts
<1>2. row[c] # NoRow /\ row[c] \in Row
  BY <1>1 DEF Status, NoRow, TypeOK
<1>3. r \in Row /\ r.look = row[c].look /\ r.status = "running"
  BY <1>2 DEF Row
<1>4. j \in Job /\ j.at = "reading" /\ j.collection = c /\ j.cover = cover[c] /\ j.settings = settings
        /\ (file[c] = Nil => j.place = Nil) /\ (file[c] # Nil => j.place = file[c].place)
  BY Shapes DEF Job, TypeOK
<1> HIDE DEF j, r
<1>5. /\ row'[c] = r /\ worker'[w] = j /\ \A v \in Workers \ {w} : worker'[v] = worker[v]
  BY <1>1 DEF Takes, TypeOK
<1>6. cache[c] \in Image \cup {Nil} /\ cache' = [cache EXCEPT ![c] = cache[c]]
  BY <1>1 DEF TypeOK
<1>7. ASSUME c \notin mixed', Served(c) PROVE Served(c)'
  <2>1. \A v \in Workers : ~Has(v, c)
    BY <1>1, <1>7 DEF Served
  <2>2. \A v \in Workers : Has(v, c)' => v = w
    BY <1>5, <2>1 DEF Has
  <2>3. Status(c)' = "running"
    BY <1>3, <1>5 DEF Status
  <2>4. Held(w, c)'
    <3>1. file[c] = Nil \/ row[c].look = LookNow(c, settings)
      BY <1>1, <1>7
    <3>2. CASE file[c] = Nil
      BY <1>4, <1>5, <3>2 DEF Held
    <3>3. CASE file[c] # Nil /\ row[c].look = LookNow(c, settings)
      <4>1. /\ row'[c].look.file.place = file[c].place /\ row'[c].look.cover = cover[c]
            /\ row'[c].look.settings = settings
        BY <1>3, <1>5, <3>3 DEF LookNow
      <4> QED BY <1>4, <1>5, <3>3, <4>1 DEF Held
    <3> QED BY <3>1, <3>2, <3>3
  <2> QED BY <2>2, <2>3, <2>4 DEF Served
<1>8. errors' \in 0 .. MaxTroubles
  BY <1>1 DEF TypeOK
<1>9. NoRow \notin Row
  BY Shapes
<1> QED BY <1>1, <1>2, <1>3, <1>4, <1>6, <1>7, <1>8, <1>9, WorkerSteps

(* What a worker that has something in hand knows.                          *)
LEMMA AtWork ==
  ASSUME TypeOK, NEW w \in Workers
  PROVE  /\ At(w, "reading") => worker[w] \in Job
         /\ At(w, "clearing") \/ At(w, "placing") => worker[w] \in Made
         /\ At(w, "done") => worker[w] \in Done
         /\ worker[w].at # "idle" => worker[w].collection \in Collections
<1>1. worker[w] \in {Idle} \cup Job \cup Made \cup Done
  BY DEF TypeOK
<1> QED BY <1>1 DEF Idle, Job, Made, Done, At

(* A worker goes on with what it has: the rows stay.                        *)
LEMMA CarriesOn ==
  ASSUME ThumbnailInv, NEW w \in Workers, NEW c \in Collections,
         up, worker[w].at # "idle", worker[w].collection = c,
         NEW job \in Job \cup Made \cup Done, job.collection = c, Takes(w, job),
         UNCHANGED <<file, operable, cover, settings, row, earlier, up, batch, mixed, edits, crashes>>,
         errors' \in 0 .. MaxTroubles,
         NEW i \in Image \cup {Nil}, cache' = [cache EXCEPT ![c] = i],
         row[c] # NoRow /\ Held(w, c) => Held(w, c)'
  PROVE  ThumbnailInv'
<1> USE DEF ThumbnailInv
<1>1. row[c] \in Row \cup {NoRow} /\ row' = [row EXCEPT ![c] = row[c]]
  BY DEF TypeOK
<1>2. job.at # "idle"
  BY DEF Job, Made, Done
<1>3. worker'[w] = job /\ \A v \in Workers \ {w} : worker'[v] = worker[v]
  BY DEF Takes, TypeOK
<1>4. ASSUME row[c] # NoRow, Served(c) PROVE Served(c)'
  <2>1. /\ Status(c) = "running" /\ Held(w, c)
        /\ \A v \in Workers : Has(v, c) => v = w
    BY <1>4 DEF Served, Has
  <2>2. \A v \in Workers : Has(v, c)' => v = w
    BY <1>3, <2>1 DEF Has
  <2>3. Status(c)' = "running"
    BY <2>1 DEF Status
  <2> QED BY <1>4, <2>1, <2>2, <2>3 DEF Served
<1> QED BY <1>1, <1>2, <1>4, WorkerSteps

LEMMA ReadFaithful ==
  ASSUME ThumbnailInv, NEW w \in Workers, Read(w)
  PROVE  ThumbnailInv'
<1> USE DEF ThumbnailInv
<1>0. up /\ worker[w].at = "reading" /\ worker[w] \in Job
  BY AtWork DEF Read, At
<1>. PICK c \in Collections : c = worker[w].collection
  BY <1>0 DEF Job
<1>. PICK im : im = [version |-> file[c].version, cover |-> worker[w].cover,
                    settings |-> worker[w].settings]
  OBVIOUS
<1> DEFINE made == [at |-> "clearing", collection |-> c, image |-> im]
           bad == [at |-> "done", collection |-> c, result |-> "permanent"]
           gone == [at |-> "done", collection |-> c, result |-> "transient"]
<1>1. up /\ worker[w].at = "reading" /\ worker[w] \in Job /\ worker[w].collection = c
  BY <1>0
<1>2. /\ UNCHANGED <<file, operable, cover, settings, row, earlier, cache, up, batch, mixed, edits, crashes, errors>>
      /\ \/ Found(w) /\ Shown(w) /\ Takes(w, made)
         \/ Found(w) /\ ~Shown(w) /\ Takes(w, bad)
         \/ Takes(w, gone)
  BY DEF Read, Ends, library, counts
<1>3. /\ errors' \in 0 .. MaxTroubles /\ cache[c] \in Image \cup {Nil}
      /\ cache' = [cache EXCEPT ![c] = cache[c]]
  BY <1>1, <1>2 DEF TypeOK
\* the file that is read is the one the row is for, or a later one
<1>4. ASSUME Found(w), row[c] # NoRow, Held(w, c)
      PROVE  /\ worker[w].cover = row[c].look.cover /\ worker[w].settings = row[c].look.settings
             /\ Alike(file[c], row[c].look.file) \/ Outrun(c)
  <2>1. file[c] # Nil /\ file[c].place = worker[w].place /\ file[c].place \in Versions
    BY <1>1, <1>4, Shapes DEF Found
  <2>2. worker[w].place # Nil
    BY <2>1, Shapes
  <2>3. worker[w].cover = row[c].look.cover /\ worker[w].settings = row[c].look.settings
    BY <1>1, <1>4, <2>2 DEF Held
  <2>4. /\ NotAfter(row[c].look.file, file[c])
        /\ row[c].look.file.version \in Nat /\ file[c].version \in Nat
    BY <1>1, <1>4, <2>1, Shapes DEF VersionsOK
  <2> QED BY <2>3, <2>4 DEF Outrun, NotAfter, Alike
<1>5. CASE Found(w) /\ Shown(w) /\ Takes(w, made)
  <2>1. file[c] # Nil /\ file[c].version \in Versions
    BY <1>1, <1>5, Shapes DEF Found
  <2>2. im \in Image /\ im.version = file[c].version /\ im.cover = worker[w].cover
           /\ im.settings = worker[w].settings
    BY <1>1, <2>1 DEF Image, Job
  <2>3. made \in Made /\ made.collection = c /\ made.at = "clearing" /\ made.image = im
    BY <1>1, <2>2 DEF Made
  <2> HIDE DEF made
  <2>4. worker'[w] = made
    BY <1>5 DEF Takes, TypeOK
  <2>5. ASSUME row[c] # NoRow, Held(w, c) PROVE Held(w, c)'
    <3>1. Fits(c, im)
      BY <1>4, <1>5, <2>2, <2>5 DEF Fits, Alike
    <3>2. Fits(c, im)'
      <4>1. row' = row /\ file' = file
        BY <1>2
      <4> QED BY <3>1, <4>1 DEF Fits, Outrun
    <3> QED BY <2>3, <2>4, <3>2 DEF Held
  <2> QED BY <1>1, <1>2, <1>3, <1>5, <2>3, <2>5, CarriesOn
<1>6. CASE Found(w) /\ ~Shown(w) /\ Takes(w, bad)
  <2>1. bad \in Done /\ bad.collection = c /\ bad.at = "done" /\ bad.result = "permanent"
    BY <1>1 DEF Done
  <2> HIDE DEF bad
  <2>2. worker'[w] = bad
    BY <1>6 DEF Takes, TypeOK
  <2>3. ASSUME row[c] # NoRow, Held(w, c) PROVE Held(w, c)'
    <3>1. Hopeless(c)
      BY <1>1, <1>4, <1>6, <2>3 DEF Hopeless, Shown, Alike
    <3>2. Hopeless(c)'
      <4>1. row' = row /\ file' = file
        BY <1>2
      <4> QED BY <3>1, <4>1 DEF Hopeless, Outrun
    <3> QED BY <2>1, <2>2, <3>2 DEF Held
  <2> QED BY <1>1, <1>2, <1>3, <1>6, <2>1, <2>3, CarriesOn
<1>7. CASE Takes(w, gone)
  <2>1. gone \in Done /\ gone.collection = c /\ gone.at = "done" /\ gone.result = "transient"
    BY <1>1 DEF Done
  <2> HIDE DEF gone
  <2>2. worker'[w] = gone
    BY <1>7 DEF Takes, TypeOK
  <2>3. Held(w, c)'
    BY <2>1, <2>2 DEF Held
  <2> QED BY <1>1, <1>2, <1>3, <1>7, <2>1, <2>3, CarriesOn
<1> QED BY <1>2, <1>5, <1>6, <1>7

LEMMA PublishFaithful ==
  ASSUME ThumbnailInv, NEW w \in Workers, Clear(w) \/ Place(w)
  PROVE  ThumbnailInv'
<1> USE DEF ThumbnailInv
<1>0. up /\ worker[w].at \in {"clearing", "placing"} /\ worker[w] \in Made
  BY AtWork DEF Clear, Place, At
<1>. PICK c \in Collections, im \in Image : c = worker[w].collection /\ im = worker[w].image
  BY <1>0 DEF Made
<1>1. /\ UNCHANGED <<file, operable, cover, settings, row, earlier, up, batch, mixed, edits, crashes>>
      /\ errors' \in 0 .. MaxTroubles
  BY DEF Clear, Place, library, counts, TypeOK
<1>2. ASSUME row[c] # NoRow, Held(w, c) PROVE Fits(c, im)'
  <2>1. Fits(c, im)
    BY <1>0, <1>2 DEF Held
  <2>2. row' = row /\ file' = file
    BY <1>1
  <2> QED BY <2>1, <2>2 DEF Fits, Outrun
<1>3. CASE Clear(w)
  <2> DEFINE job == [worker[w] EXCEPT !.at = "placing"]
  <2>1. job \in Made /\ job.collection = c /\ job.at = "placing" /\ job.image = im
    BY <1>0 DEF Made
  <2>2. Takes(w, job) /\ cache' = [cache EXCEPT ![c] = Nil]
    BY <1>3 DEF Clear
  <2> HIDE DEF job
  <2>3. worker'[w] = job
    BY <2>2 DEF Takes, TypeOK
  <2>4. row[c] # NoRow /\ Held(w, c) => Held(w, c)'
    BY <1>2, <2>1, <2>3 DEF Held
  <2> QED BY <1>0, <1>1, <2>1, <2>2, <2>4, CarriesOn
<1>4. CASE Place(w)
  <2> DEFINE job == [at |-> "done", collection |-> c, result |-> "ok"]
  <2>1. job \in Done /\ job.collection = c /\ job.at = "done" /\ job.result = "ok"
    BY DEF Done
  <2>2. Takes(w, job) /\ cache' = [cache EXCEPT ![c] = im]
    BY <1>4 DEF Place, Ends
  <2> HIDE DEF job
  <2>3. worker'[w] = job /\ cache'[c] = im
    BY <2>2 DEF Takes, TypeOK
  <2>4. row[c] # NoRow /\ Held(w, c) => Held(w, c)'
    BY <1>2, <2>1, <2>3 DEF Held
  <2> QED BY <1>0, <1>1, <2>1, <2>2, <2>4, CarriesOn
<1> QED BY <1>3, <1>4

(* Errors and outcomes.                                                     *)
LEMMA ErrorsFaithful ==
  ASSUME ThumbnailInv, NEW w \in Workers,
         GenerationBreaks(w) \/ FinishBreaks(w) \/ \E c \in Collections : ClaimBreaks(w, c)
  PROVE  ThumbnailInv'
<1> USE DEF ThumbnailInv
<1>1. /\ UNCHANGED <<file, operable, cover, settings, earlier, cache, up, batch, mixed, edits, crashes>>
      /\ errors' \in 0 .. MaxTroubles
  BY ThumbnailBoundsAssumption DEF GenerationBreaks, FinishBreaks, ClaimBreaks, ErrorHappens,
       MoreTroubles, library, TypeOK
<1>2. ASSUME NEW c \in Collections
      PROVE  /\ cache[c] \in Image \cup {Nil} /\ cache' = [cache EXCEPT ![c] = cache[c]]
             /\ row[c] \in Row \cup {NoRow} /\ row = [row EXCEPT ![c] = row[c]]
  BY <1>1 DEF TypeOK
<1>3. CASE GenerationBreaks(w)
  <2>1. up /\ worker[w].at # "idle"
    BY <1>3 DEF GenerationBreaks, At
  <2>. PICK c \in Collections : c = worker[w].collection
    BY <2>1, AtWork
  <2> DEFINE job == [at |-> "done", collection |-> c, result |-> "transient"]
  <2>2. job \in Done /\ job.collection = c /\ job.at = "done" /\ job.result = "transient"
    BY DEF Done
  <2>3. Takes(w, job) /\ row' = row
    BY <1>3 DEF GenerationBreaks, Ends
  <2> HIDE DEF job
  <2>4. worker'[w] = job
    BY <2>3 DEF Takes, TypeOK
  <2>5. Held(w, c)'
    BY <2>2, <2>4 DEF Held
  <2> QED BY <1>1, <1>2, <2>1, <2>2, <2>3, <2>5, CarriesOn
<1>4. CASE FinishBreaks(w)
  <2>1. up /\ worker[w].at # "idle" /\ row' = row /\ Takes(w, Idle)
    BY <1>4 DEF FinishBreaks, At
  <2>. PICK c \in Collections : c = worker[w].collection
    BY <2>1, AtWork
  <2>2. Idle.at = "idle"
    BY DEF Idle
  <2>3. worker'[w] = Idle /\ \A v \in Workers \ {w} : worker'[v] = worker[v]
    BY <2>1 DEF Takes, TypeOK
  <2>4. ASSUME Served(c) PROVE Served(c)'
    <3>1. \A v \in Workers : ~Has(v, c)'
      BY <2>1, <2>2, <2>3, <2>4 DEF Served, Has
    <3>2. Status(c)' = "running"
      <4>1. Status(c) = "running"
        BY <2>1, <2>4 DEF Served, Has
      <4> QED BY <2>1, <4>1 DEF Status
    <3> QED BY <3>1, <3>2 DEF Served
  <2> QED BY <1>1, <1>2, <2>1, <2>2, <2>4, WorkerSteps
<1>5. ASSUME NEW c \in Collections, ClaimBreaks(w, c) PROVE ThumbnailInv'
  <2> DEFINE r == [row[c] EXCEPT !.status = "running"]
  <2>1. Status(c) = "pending" /\ row' = [row EXCEPT ![c] = r] /\ worker' = worker
    BY <1>5 DEF ClaimBreaks, First, Due, Claimed
  <2>2. row[c] \in Row /\ row[c] # NoRow
    BY <2>1 DEF Status, NoRow, TypeOK
  <2>3. r \in Row /\ r.status = "running" /\ r.look = row[c].look
    BY <2>2 DEF Row
  <2> HIDE DEF r
  <2>4. /\ row'[c] = r /\ \A d \in Collections \ {c} : row'[d] = row[d]
        /\ row' \in [Collections -> Row \cup {NoRow}]
    <3>1. row \in [Collections -> Row \cup {NoRow}]
      BY DEF TypeOK
    <3> QED BY <2>1, <2>3, <3>1
  <2>5. TypeOK'
    BY <1>1, <2>1, <2>4 DEF TypeOK
  <2>6. FilesGoOn
    BY <1>1, <2>2, <2>3, <2>4, <2>5, NoFiles DEF Alike
  <2>7. ASSUME NEW d \in Collections PROVE Untouched(d) \/ Faithful(d)'
    <3>1. CASE d # c
      BY <1>1, <2>1, <2>4, <3>1, StandsBy
    <3>2. CASE d = c
      <4> SUFFICES ASSUME c \notin mixed' PROVE Served(c)'
        BY <3>2 DEF Faithful
      <4>1. Served(c)
        BY <1>1, <2>2 DEF Faithful
      <4>2. \A v \in Workers : ~Has(v, c)'
        BY <2>1, <4>1 DEF Served, Has
      <4>3. Status(c)' = "running"
        BY <2>3, <2>4 DEF Status
      <4> QED BY <4>2, <4>3 DEF Served
    <3> QED BY <3>1, <3>2
  <2>8. DownIdle'
    BY <1>1, <2>1 DEF DownIdle
  <2> QED BY <2>5, <2>6, <2>7, <2>8, GoesOnWell
<1> QED BY <1>3, <1>4, <1>5

(* The outcome is recorded of a row that is running, so of one nobody else  *)
(* has asked for again.                                                     *)
LEMMA FinishFaithful ==
  ASSUME ThumbnailInv, NEW w \in Workers, Finish(w)
  PROVE  ThumbnailInv'
<1> USE DEF ThumbnailInv
<1>0. up /\ worker[w].at = "done" /\ worker[w] \in Done
  BY AtWork DEF Finish, At
<1>. PICK c \in Collections, out \in {"ok", "transient", "permanent"} :
        c = worker[w].collection /\ out = worker[w].result
  BY <1>0 DEF Done
<1> DEFINE r == IF Status(c) = "running" THEN Recorded(row[c], out) ELSE row[c]
<1>1. /\ UNCHANGED <<file, operable, cover, settings, earlier, cache, up, batch, mixed, edits, crashes>>
      /\ errors' \in 0 .. MaxTroubles /\ row' = [row EXCEPT ![c] = r] /\ Takes(w, Idle)
      /\ cache[c] \in Image \cup {Nil} /\ cache' = [cache EXCEPT ![c] = cache[c]]
  BY DEF Finish, library, counts, TypeOK
<1>2. /\ r \in Row \cup {NoRow} /\ (r # NoRow => row[c] # NoRow /\ r.look = row[c].look)
      /\ Status(c) = "running" =>
           /\ out = "ok" => r.status = "ready"
           /\ out = "transient" => r.status = "pending"
           /\ out = "permanent" => r.status = "failed"
  <2>1. CASE Status(c) # "running"
    BY <2>1 DEF TypeOK
  <2>2. CASE Status(c) = "running"
    <3>1. row[c] \in Row /\ row[c] # NoRow
      BY <2>2 DEF Status, NoRow, TypeOK
    <3>2. r = Recorded(row[c], out)
      BY <2>2
    <3> HIDE DEF r
    <3>3. CASE out = "ok"
      BY <3>1, <3>2, <3>3 DEF Recorded, Row
    <3>4. CASE out = "transient"
      BY <3>1, <3>2, <3>4 DEF Recorded, Row
    <3>5. CASE out = "permanent"
      BY <3>1, <3>2, <3>5 DEF Recorded, Row
    <3> QED BY <3>3, <3>4, <3>5
  <2> QED BY <2>1, <2>2
<1> HIDE DEF r
<1>3. Idle.at = "idle"
  BY DEF Idle
<1>4. /\ worker'[w] = Idle /\ (\A v \in Workers \ {w} : worker'[v] = worker[v]) /\ row'[c] = r
      /\ cache' = cache
  <2>1. row'[c] = r
    BY <1>1 DEF TypeOK
  <2> QED BY <1>1, <2>1 DEF Takes, TypeOK
<1>5. ASSUME row[c] # NoRow, r # NoRow, Served(c) PROVE Served(c)'
  <2>1. Status(c) = "running" /\ Held(w, c) /\ \A v \in Workers : Has(v, c) => v = w
    BY <1>0, <1>5 DEF Served, Has
  <2>2. \A v \in Workers : ~Has(v, c)'
    BY <1>3, <1>4, <2>1 DEF Has
  <2>3. row'[c].look = row[c].look /\ file' = file
    BY <1>1, <1>2, <1>4, <1>5
  <2>4. CASE out = "ok"
    <3>1. cache[c] = Nil \/ Fits(c, cache[c])
      BY <1>0, <2>1, <2>4 DEF Held
    <3>2. cache'[c] = Nil \/ Fits(c, cache[c])'
      BY <1>4, <2>3, <3>1 DEF Fits, Outrun
    <3>3. Status(c)' = "ready"
      BY <1>2, <1>4, <2>1, <2>4 DEF Status
    <3> QED BY <2>2, <3>2, <3>3 DEF Served
  <2>5. CASE out = "transient"
    <3>1. Status(c)' = "pending"
      BY <1>2, <1>4, <2>1, <2>5 DEF Status
    <3> QED BY <2>2, <3>1 DEF Served
  <2>6. CASE out = "permanent"
    <3>1. Hopeless(c)
      BY <1>0, <2>1, <2>6 DEF Held
    <3>2. Hopeless(c)'
      BY <2>3, <3>1 DEF Hopeless, Outrun
    <3>3. Status(c)' = "failed"
      BY <1>2, <1>4, <2>1, <2>6 DEF Status
    <3> QED BY <2>2, <3>2, <3>3 DEF Served
  <2> QED BY <2>4, <2>5, <2>6
<1> QED BY <1>0, <1>1, <1>2, <1>3, <1>5, WorkerSteps

LEMMA WaitsFaithful ==
  ASSUME ThumbnailInv, Crash \/ \E c \in Collections : RetryElapses(c)
  PROVE  ThumbnailInv'
<1> USE DEF ThumbnailInv
<1>1. CASE Crash
  <2>1. /\ UNCHANGED <<file, operable, cover, settings, row, earlier, cache, mixed, edits, errors>>
        /\ up' = FALSE /\ batch' = Nil /\ worker' = [w \in Workers |-> Idle]
    BY <1>1 DEF Crash, library
  <2>2. crashes' \in 0 .. MaxTroubles
    BY <1>1, ThumbnailBoundsAssumption DEF Crash, MoreTroubles, TypeOK
  <2>3. TypeOK'
    BY <2>1, <2>2 DEF TypeOK
  <2>4. FilesGoOn
    BY <2>1, <2>3, NoFiles DEF Alike
  <2>5. Idle.at = "idle" /\ \A w \in Workers : worker'[w] = Idle
    BY <2>1 DEF Idle
  <2>6. \A c \in Collections : Untouched(c)
    BY <2>1, <2>5 DEF Untouched, Has
  <2>7. DownIdle'
    BY <2>5 DEF DownIdle
  <2> QED BY <2>3, <2>4, <2>6, <2>7, GoesOnWell
<1>2. ASSUME NEW c \in Collections, RetryElapses(c) PROVE ThumbnailInv'
  <2> DEFINE r == [row[c] EXCEPT !.delay = FALSE]
  <2>1. /\ UNCHANGED <<file, operable, cover, settings, earlier, cache, worker, up, batch, mixed>>
        /\ UNCHANGED <<edits, crashes, errors>>
        /\ Status(c) = "pending" /\ row' = [row EXCEPT ![c] = r]
    BY <1>2 DEF RetryElapses, library, counts
  <2>2. row[c] \in Row /\ row[c] # NoRow
    BY <2>1 DEF Status, NoRow, TypeOK
  <2>3. r \in Row /\ r.look = row[c].look /\ r.status = row[c].status
    BY <2>2 DEF Row
  <2> HIDE DEF r
  <2>4. /\ row'[c] = r /\ \A d \in Collections \ {c} : row'[d] = row[d]
        /\ row' \in [Collections -> Row \cup {NoRow}]
    <3>1. row \in [Collections -> Row \cup {NoRow}]
      BY DEF TypeOK
    <3> QED BY <2>1, <2>3, <3>1
  <2>5. TypeOK'
    BY <2>1, <2>4 DEF TypeOK
  <2>6. FilesGoOn
    BY <2>1, <2>2, <2>3, <2>4, <2>5, NoFiles DEF Alike
  <2>7. \A d \in Collections : row'[d] # NoRow =>
          row[d] # NoRow /\ row'[d].look = row[d].look /\ row'[d].status = row[d].status
    BY <2>2, <2>3, <2>4
  <2>8. \A d \in Collections : Untouched(d)
    BY <2>1, <2>7, StandsBy
  <2>9. DownIdle'
    BY <2>1 DEF DownIdle
  <2> QED BY <2>5, <2>6, <2>8, <2>9, GoesOnWell
<1> QED BY <1>1, <1>2

(* The service starts: nobody has anything in hand.                         *)
LEMMA RestartFaithful ==
  ASSUME ThumbnailInv, NEW s \in Settings, Restart(s)
  PROVE  ThumbnailInv'
<1> USE DEF ThumbnailInv
<1>. PICK rows : rows = [c \in Collections |-> Recovered(row[c])]
  OBVIOUS
<1>. PICK asked \in SUBSET Collections :
       asked = {c \in {c \in Collections :
                         \A d \in Collections : d <= c /\ rows[d] # NoRow => Requestable(d)} :
                 rows[c] # NoRow}
  OBVIOUS
<1> DEFINE a(c) == Asked(rows[c], c, s, Default)
           O == {c \in asked : Outdated(rows[c], c, s)}
<1>1. /\ ~up /\ up' = TRUE /\ settings' = s
      /\ IF s = settings THEN UNCHANGED counts ELSE Change
      /\ row' = [c \in Collections |-> IF c \in asked THEN a(c) ELSE rows[c]]
      /\ earlier' = Later(Touched(asked, s, rows))
      /\ mixed' = mixed \ O
      /\ UNCHANGED <<file, operable, cover, cache, worker, batch>>
  BY DEF Restart, library
<1>2. /\ edits' = edits \/ edits' = edits + 1
      /\ edits' \in 0 .. MaxEdits /\ crashes' \in 0 .. MaxTroubles /\ errors' \in 0 .. MaxTroubles
  BY <1>1, ThumbnailBoundsAssumption DEF Change, counts, TypeOK
<1>3. MaxCollections \in Nat /\ Default \in Priorities
  BY ThumbnailBoundsAssumption DEF Priorities
<1>4. \A c \in asked : file[c] # Nil
  <2> SUFFICES ASSUME NEW c \in asked PROVE file[c] # Nil
    OBVIOUS
  <2>1. c \in Nat
    BY <1>3 DEF Collections
  <2>2. c <= c
    BY <2>1
  <2>3. Requestable(c)
    BY <2>2
  <2> QED BY <2>3 DEF Requestable, Readable
\* what the recovery makes of a row
<1>5. ASSUME NEW c \in Collections
      PROVE  /\ rows[c] \in Row \cup {NoRow} /\ (rows[c] # NoRow => row[c] # NoRow)
             /\ rows[c] # NoRow => /\ rows[c].look = row[c].look
                                   /\ rows[c].status = "pending" \/ rows[c] = row[c]
             /\ row[c] = NoRow => rows[c] = NoRow
  <2>1. rows[c] = Recovered(row[c]) /\ row[c] \in Row \cup {NoRow}
    BY DEF TypeOK
  <2>2. CASE row[c] \in Row
    <3>1. NoRow \notin Row
      BY Shapes
    <3> QED BY <2>1, <2>2, <3>1, Recovers
  <2>3. CASE row[c] = NoRow
    <3>1. NoRow.status # "running"
      BY DEF NoRow
    <3>2. Recovered(NoRow) = NoRow
      BY <3>1 DEF Recovered
    <3> QED BY <2>1, <2>3, <3>2
  <2> QED BY <2>1, <2>2, <2>3
<1>6. ASSUME NEW c \in asked
      PROVE  /\ a(c) \in Row /\ (c \in O => a(c).status = "pending" /\ a(c).look.file = file[c])
             /\ c \notin O => a(c).look = rows[c].look /\ a(c).status = rows[c].status
  <2>1. file[c] # Nil /\ rows[c] \in Row \cup {NoRow}
    BY <1>4, <1>5
  <2>2. /\ Fresh(c, s, Default).status = "pending"
        /\ Fresh(c, s, Default).look = LookNow(c, s) /\ LookNow(c, s).file = file[c]
    BY <1>3, <2>1, Looks
  <2>3. /\ a(c) \in Row /\ (Outdated(rows[c], c, s) => a(c) = Fresh(c, s, Default))
        /\ ~Outdated(rows[c], c, s) => a(c).look = rows[c].look /\ a(c).status = rows[c].status
    BY <1>3, <2>1, AsksWell
  <2> QED BY <2>2, <2>3
<1>7. asked \subseteq Collections /\ \A c \in asked : rows[c] # NoRow
  OBVIOUS
<1> HIDE DEF a, O
<1>8. /\ \A c \in asked : row'[c] = a(c)
      /\ \A c \in Collections \ asked : row'[c] = rows[c]
      /\ row' \in [Collections -> Row \cup {NoRow}]
  BY <1>1, <1>5, <1>6, <1>7
<1>9. TypeOK'
  <2>1. earlier' \subseteq Collections \X Collections
    <3>1. Touched(asked, s, rows) \subseteq Collections
      BY <1>7, Touches
    <3> QED BY <1>1, <3>1, QueueTypes
  <2>2. mixed' \subseteq Collections
    BY <1>1 DEF TypeOK
  <2> QED BY <1>1, <1>2, <1>8, <2>1, <2>2 DEF TypeOK
<1>10. FilesGoOn
  <2>1. ASSUME NEW c \in Collections, row'[c] # NoRow
        PROVE  \/ row[c] # NoRow /\ Alike(row'[c].look.file, row[c].look.file)
               \/ file[c] # Nil /\ Alike(row'[c].look.file, file[c])
    BY <1>4, <1>5, <1>6, <1>7, <1>8, <2>1 DEF Alike
  <2> QED BY <1>1, <1>2, <1>9, <2>1, NoFiles
<1>11. Idle.at = "idle" /\ \A w \in Workers : worker'[w] = Idle
  BY <1>1 DEF DownIdle, Idle
<1>12. ASSUME NEW d \in Collections PROVE Untouched(d) \/ Reset(d)
  <2>1. \A w \in Workers : ~Has(w, d)'
    BY <1>11 DEF Has
  <2>2. CASE row'[d] # NoRow /\ row'[d].status = "pending"
    BY <2>1, <2>2 DEF Reset
  <2>3. CASE row'[d] # NoRow => row'[d].status # "pending"
    <3>1. d \notin O
      <4> SUFFICES ASSUME d \in O PROVE FALSE
        OBVIOUS
      <4>1. d \in asked
        BY DEF O
      <4>2. row'[d] = a(d) /\ a(d) \in Row /\ a(d).status = "pending"
        BY <1>6, <1>8, <4>1
      <4> QED BY <2>3, <4>2, Shapes
    <3>2. row'[d] # NoRow => rows[d] # NoRow /\ row'[d].look = rows[d].look /\ row'[d].status = rows[d].status
      BY <1>6, <1>7, <1>8, <3>1
    <3>3. row'[d] # NoRow =>
            row[d] # NoRow /\ row'[d].look = row[d].look /\ row'[d].status = row[d].status
      BY <1>5, <2>3, <3>2
    <3>4. d \in mixed => d \in mixed'
      BY <1>1, <3>1
    <3>5. cache'[d] = cache[d]
      BY <1>1
    <3> QED BY <2>1, <3>3, <3>4, <3>5 DEF Untouched
  <2> QED BY <2>2, <2>3
<1>13. DownIdle'
  BY <1>1 DEF DownIdle
<1> QED BY <1>9, <1>10, <1>12, <1>13, GoesOnWell

LEMMA ThumbnailStarts == Init => ThumbnailInv
<1> SUFFICES ASSUME Init PROVE ThumbnailInv
  OBVIOUS
<1> USE DEF Init
<1>1. 0 \in Versions /\ 0 \in Covers /\ 0 \in 0 .. MaxEdits /\ 0 \in 0 .. MaxTroubles
  BY ThumbnailBoundsAssumption, ThumbnailCoversAssumption DEF Versions
<1> DEFINE f == [place |-> 0, version |-> 0, content |-> Original]
<1>2. f \in File /\ f.version = 0
  BY <1>1, ThumbnailContentsAssumption DEF File
<1> HIDE DEF f
<1>3. file = [c \in Collections |-> f]
  BY DEF f
<1>4. TypeOK
  <2>1. cover \in [Collections -> Covers]
    BY ThumbnailContentsAssumption DEF Content
  <2> QED BY <1>1, <1>2, <1>3, <2>1, ThumbnailSettingsAssumption DEF TypeOK
<1>5. VersionsOK
  BY <1>2, <1>3 DEF VersionsOK
<1>6. DownIdle
  BY DEF DownIdle
<1>7. \A c \in Collections : Faithful(c)
  BY DEF Faithful
<1> QED BY <1>4, <1>5, <1>6, <1>7 DEF ThumbnailInv

LEMMA ThumbnailGoesOn ==
  ASSUME ThumbnailInv, [Next]_vars
  PROVE  ThumbnailInv'
<1>1. ASSUME Ask PROVE ThumbnailInv'
  <2>1. CASE \E c \in Collections, p \in Asking : Request(c, p)
    BY <2>1, RequestFaithful
  <2>2. CASE \E S \in Scopes : StartCacheJob(S)
    BY <2>2, PrepareFaithful
  <2>3. CASE \/ RetryCacheJob \/ RebuildAll \/ \E c \in Collections : Rebuild(c)
             \/ \E c \in Collections, k \in Covers : SelectCover(c, k)
    BY <2>3, RebuildsFaithful
  <2>4. CASE \E c \in Collections : ClearCoverOnly(c)
    <3>1. 0 \in Covers
      BY ThumbnailCoversAssumption
    <3> QED BY <2>4, <3>1, CoversFaithful
  <2>5. CASE \E s \in Settings : SaveSettings(s)
    BY <2>5, SaveFaithful
  <2> QED BY <1>1, <2>1, <2>2, <2>3, <2>4, <2>5, Zenon DEF Ask
<1>2. ASSUME NEW w \in Workers, WorkerStep(w) PROVE ThumbnailInv'
  BY <1>2, ClaimFaithful, ReadFaithful, PublishFaithful, FinishFaithful, Zenon DEF WorkerStep
<1>3. ASSUME Error PROVE ThumbnailInv'
  <2>1. CASE \E c \in Collections : RebuildBreaks(c)
    <3>1. 0 \in Covers
      BY ThumbnailCoversAssumption
    <3> QED BY <2>1, <3>1, CoversFaithful
  <2>2. CASE \E c \in Collections, k \in Covers : SelectCoverBreaks(c, k)
    BY <2>2, CoversFaithful
  <2>3. CASE \/ \E w \in Workers, c \in Collections : ClaimBreaks(w, c)
             \/ \E w \in Workers : GenerationBreaks(w) \/ FinishBreaks(w)
    BY <2>3, ErrorsFaithful
  <2> QED BY <1>3, <2>1, <2>2, <2>3, Zenon DEF Error
<1>4. ASSUME UNCHANGED vars PROVE ThumbnailInv'
  <2>1. /\ UNCHANGED <<file, operable, cover, settings, row, earlier, cache, worker, up, batch, mixed>>
        /\ UNCHANGED <<edits, crashes, errors>>
    BY <1>4 DEF vars, library, counts
  <2>2. TypeOK'
    BY <2>1 DEF TypeOK, ThumbnailInv
  <2>3. FilesGoOn
    BY <2>1, <2>2, NoFiles DEF Alike
  <2> QED BY <2>1, <2>2, <2>3, QuietSteps
<1> QED BY <1>1, <1>2, <1>3, <1>4, WaitsFaithful, RestartFaithful, OutsideFaithful, Zenon DEF Next

LEMMA ThumbnailAlways == Spec => []ThumbnailInv
BY ThumbnailStarts, ThumbnailGoesOn, PTL DEF Spec

(* The tables of the thumbnails: a worker, a row and a cached image are only *)
(* ever what their states allow, whoever queues, makes or drops them.        *)
THEOREM ThumbnailTypes == Spec => []TypeOK
<1>1. ThumbnailInv => TypeOK
  BY DEF ThumbnailInv
<1> QED BY <1>1, ThumbnailAlways, PTL

(* ReadyShowsWhatItSays: a thumbnail that is ready and that a request takes *)
(* for up to date shows what there is now, although workers make it without *)
(* the mutex while settings, covers and files change, unless its row was    *)
(* queued again while a worker was at it.                                   *)
THEOREM ReadyImagesAreTrue == Spec => []ReadyShowsWhatItSays
<1>1. ASSUME ThumbnailInv PROVE ReadyShowsWhatItSays
  <2> USE DEF ThumbnailInv
  <2> SUFFICES ASSUME NEW c \in Collections, Status(c) = "ready", Current(c), c \notin mixed, cache[c] # Nil
               PROVE  Shows(c)
    BY DEF ReadyShowsWhatItSays
  <2>1. file[c] # Nil /\ row[c] # NoRow /\ row[c].look = LookNow(c, settings)
    BY DEF Current, Requestable, Readable
  <2>2. Fits(c, cache[c]) /\ cache[c] \in Image
    BY <1>1, <2>1, Shapes DEF Faithful, Served
  <2>3. /\ row[c].look.file.version = file[c].version /\ row[c].look.cover = cover[c]
        /\ row[c].look.settings = settings /\ file[c].version \in Nat
    BY <1>1, <2>1, Shapes DEF LookNow
  <2>4. ~Outrun(c)
    BY <2>1, <2>3 DEF Outrun
  <2>5. /\ cache[c].version = file[c].version /\ cache[c].cover = cover[c]
        /\ cache[c].settings = settings
    BY <2>2, <2>3, <2>4 DEF Fits
  <2> QED BY <2>2, <2>5 DEF Shows, Image
<1> QED BY <1>1, ThumbnailAlways, PTL

(* GivenUpForTheFile: a thumbnail is given up only when no image of its     *)
(* cover can be made from the file as it is, whatever was chosen, replaced  *)
(* or queued anew meanwhile; an image that could not be read or placed is   *)
(* tried again.                                                             *)
THEOREM OnlyBadFilesAreGivenUp == Spec => []GivenUpForTheFile
<1>1. ASSUME ThumbnailInv PROVE GivenUpForTheFile
  <2> USE DEF ThumbnailInv
  <2> SUFFICES ASSUME NEW c \in Collections, Status(c) = "failed", Current(c), c \notin mixed
               PROVE  cover[c] \notin file[c].content.images
    BY DEF GivenUpForTheFile
  <2>1. file[c] # Nil /\ row[c] # NoRow /\ row[c].look = LookNow(c, settings)
    BY DEF Current, Requestable, Readable
  <2>2. Hopeless(c)
    BY <1>1, <2>1 DEF Faithful, Served
  <2>3. /\ row[c].look.file = file[c] /\ row[c].look.cover = cover[c]
        /\ file[c].version \in Nat
    BY <1>1, <2>1, Shapes DEF LookNow
  <2> QED BY <2>1, <2>2, <2>3 DEF Hopeless, Outrun
<1> QED BY <1>1, ThumbnailAlways, PTL
=============================================================================
