--------------------------- MODULE EhentaiSession ---------------------------
(***************************************************************************)
(* The ExHentai session: one cookie, kept in the catalog and in a store    *)
(* that the browser's requests and the metadata worker share.  Saving,     *)
(* clearing, testing and using it are requests that interleave: the        *)
(* catalog changes under the application mutex, the store and the status   *)
(* of the last test each under a lock of their own.                        *)
(*                                                                         *)
(* Abstractions.  A cookie is a model value, and well formed: a malformed  *)
(* one is refused before anything happens.  What pages say is in           *)
(* GalleryRules.  A search stands for the searches, galleries and torrent  *)
(* lists of the browser, which differ in what they parse.                  *)
(***************************************************************************)
EXTENDS GalleryRules, FiniteSets

CONSTANTS
  Threads,      \* requests in progress at a time
  Whole,        \* cookies with ipb_member_id and ipb_pass_hash
  Partial,      \* cookies without one of them
  MaxCalls,     \* bound on the requests ever made
  MaxRestarts,  \* bound on the restarts of the service
  Sealed,       \* a saved value this user cannot decrypt
  Null

Cookies == Whole \cup Partial

Exhentai == "exhentai"
Ehentai  == "ehentai"

-----------------------------------------------------------------------------
VARIABLES
  saved,      \* the row of exhentai_session: Null, a cookie or Sealed
  env,        \* DOUJIN_EXHENTAI_COOKIE of the running service, or Null
  store,      \* CookieStore: the cookie requests are made with
  last,       \* last_session with the cookie it is about, or Null
  task,       \* what each request is doing
  calls, restarts,
  crossed     \* observation: a write met another request, or its client left

vars == <<saved, env, store, last, task, calls, restarts, crossed>>

Idle == [kind |-> "none", step |-> "idle", cookie |-> Null, site |-> Null, base |-> Null,
         told |-> Null]

Kinds == {"put", "delete", "test", "search", "lookup"}
Tolds == {"exhentai", "ehentai_only", "exhentai_unavailable", "invalid_cookie", "rate_limited",
          "network_error", "parse_error", "gallery_not_found", "not_configured", "ehentai"}

SessionTypeOK ==
  /\ saved \in Cookies \cup {Null, Sealed} /\ env \in Cookies \cup {Null}
  /\ store \in Cookies \cup {Null}
  /\ last = Null \/ last \in [status : Tolds, of : Cookies \cup {Null}]
  /\ task \in [Threads -> [kind : Kinds \cup {"none"},
                           step : {"idle", "write", "apply", "reset", "look", "ask", "tell",
                                   "again", "refer", "done"},
                           cookie : Cookies \cup {Null},
                           site : {Null, Exhentai, Ehentai}, base : {Null, Exhentai, Ehentai},
                           told : Tolds \cup {Null}]]
  /\ calls \in 0 .. MaxCalls /\ restarts \in 0 .. MaxRestarts /\ crossed \in BOOLEAN

Readable == IF saved \in Cookies THEN saved ELSE Null

\* production: the environment comes first, what cannot be decrypted counts as nothing
Effective == IF env # Null THEN env ELSE Readable

SessionInit ==
  /\ saved \in Cookies \cup {Null, Sealed} /\ env \in Cookies \cup {Null}
  /\ store = Effective /\ last = Null
  /\ task = [t \in Threads |-> Idle]
  /\ calls = 0 /\ restarts = 0 /\ crossed = FALSE

Writes(t) == task[t].kind \in {"put", "delete"}
Judges(t) == Writes(t) \/ task[t].kind = "test"

Start(t, kind, cookie) ==
  /\ task[t] = Idle /\ calls < MaxCalls
  /\ (cookie # Null) <=> (kind = "put")
  /\ calls' = calls + 1
  /\ task' = [task EXCEPT ![t] =
       [Idle EXCEPT !.kind = kind, !.cookie = cookie,
                    !.step = IF kind \in {"put", "delete"} THEN "write" ELSE "look"]]
  /\ crossed' = (crossed \/ \E u \in Threads \ {t} :
                   IF kind \in {"put", "delete"} THEN Judges(u) ELSE kind = "test" /\ Writes(u))
  /\ UNCHANGED <<saved, env, store, last, restarts>>

Step(t, step) == task' = [task EXCEPT ![t].step = step]
End(t) == task' = [task EXCEPT ![t] = Idle]

\* save_exhentai_cookie, clear_exhentai_cookie: the handler goes on, unless its client has left
Saves(t) ==
  /\ task[t].step = "write"
  /\ saved' = task[t].cookie
  /\ \/ Step(t, "apply") /\ UNCHANGED crossed
     \/ End(t) /\ crossed' = TRUE
  /\ UNCHANGED <<env, store, last, calls, restarts>>

SaveFails(t) ==
  /\ task[t].step = "write"
  /\ End(t)
  /\ UNCHANGED <<saved, env, store, last, calls, restarts, crossed>>

\* mutant: the override is not respected
AppliedOverEnvironment(t) == task[t].cookie

\* cookie_store.set, not under a cookie of the environment
Applied(t) == IF env # Null THEN store ELSE task[t].cookie

Applies(t) ==
  /\ task[t].step = "apply"
  /\ store' = Applied(t)
  /\ IF env # Null THEN End(t) ELSE Step(t, "reset")
  /\ UNCHANGED <<saved, env, last, calls, restarts, crossed>>

\* set_session: nothing is known of a new cookie
Forgotten(t) == IF task[t].kind = "put" THEN Null
                ELSE [status |-> "not_configured", of |-> Null]

Resets(t) ==
  /\ task[t].step = "reset"
  /\ last' = Forgotten(t)
  /\ End(t)
  /\ UNCHANGED <<saved, env, store, calls, restarts, crossed>>

\* validate_session, search and search_title begin with the cookie of that moment
Looks(t) ==
  /\ task[t].step = "look"
  /\ LET untestable == task[t].kind = "test" /\ store = Null
     IN task' = [task EXCEPT ![t] =
          [@ EXCEPT !.cookie = store,
                    !.site = IF store # Null THEN Exhentai ELSE Ehentai,
                    !.step = IF untestable THEN "tell" ELSE "ask",
                    !.told = IF untestable THEN "not_configured" ELSE Null]]
  /\ UNCHANGED <<saved, env, store, last, calls, restarts, crossed>>

\* the answer of a test: a page, or the network fails
Tests(t) ==
  /\ task[t].kind = "test" /\ task[t].step = "ask"
  /\ \E status \in {"network_error"} \cup
         (IF task[t].cookie \in Whole THEN SessionStatuses ELSE PublicSessionStatuses) :
       task' = [task EXCEPT ![t].told = status, ![t].step = "tell"]
  /\ UNCHANGED <<saved, env, store, last, calls, restarts, crossed>>

\* the status is recorded; if its client has left, it is not
Tells(t) ==
  /\ task[t].step = "tell"
  /\ last' \in {last, [status |-> task[t].told, of |-> task[t].cookie]}
  /\ End(t)
  /\ UNCHANGED <<saved, env, store, calls, restarts, crossed>>

\* search_once: a page with results that parse is the answer, a refused cookie or a closed
\* ExHentai is asked of E-Hentai again, without the cookie, any other error is the answer
Searches(t) ==
  /\ task[t].kind = "search" /\ task[t].step = "ask"
  /\ \E kind \in SearchKinds(task[t].site = Exhentai) \cup {"network_error", "parse_error"} :
       task' = [task EXCEPT ![t] =
         IF kind = "ok" THEN [@ EXCEPT !.told = task[t].site, !.step = "done"]
         ELSE [@ EXCEPT !.told = kind,
                        !.step = IF task[t].cookie # Null /\ FallsBack(kind) THEN "again"
                                 ELSE "done"]]
  /\ UNCHANGED <<saved, env, store, last, calls, restarts, crossed>>

\* E-Hentai's answer counts if it has results; otherwise ExHentai's error stands
SearchesAgain(t) ==
  /\ task[t].step = "again"
  /\ \/ task' = [task EXCEPT ![t].told = Ehentai, ![t].site = Ehentai, ![t].step = "done"]
     \/ Step(t, "done")
  /\ UNCHANGED <<saved, env, store, last, calls, restarts, crossed>>

\* the metadata worker: search_title, then fetch_metadata with the cookie of its own moment
Galleries(t) ==
  /\ task[t].kind = "lookup" /\ task[t].step = "ask"
  /\ task' = [task EXCEPT ![t] =
       [@ EXCEPT !.cookie = store, !.step = "refer",
                 !.site = IF store # Null THEN Exhentai ELSE Ehentai]]
  /\ UNCHANGED <<saved, env, store, last, calls, restarts, crossed>>

\* gallery_base_url: the site the thread asked last
Base(t) == task[t].site

Refers(t) ==
  /\ task[t].step = "refer"
  /\ task' = [task EXCEPT ![t].base = Base(t), ![t].step = "done"]
  /\ UNCHANGED <<saved, env, store, last, calls, restarts, crossed>>

Ends(t) ==
  /\ task[t].step = "done"
  /\ End(t)
  /\ UNCHANGED <<saved, env, store, last, calls, restarts, crossed>>

\* The service starts anew, perhaps with another environment or for another user
Restart ==
  /\ restarts < MaxRestarts /\ restarts' = restarts + 1
  /\ env' \in Cookies \cup {Null}
  /\ saved' \in {saved} \cup (IF saved \in Cookies THEN {Sealed} ELSE {})
  /\ store' = Effective' /\ last' = Null
  /\ task' = [t \in Threads |-> Idle] /\ crossed' = FALSE
  /\ UNCHANGED calls

SessionNext ==
  \/ \E t \in Threads :
       \/ \E kind \in Kinds, cookie \in Cookies \cup {Null} : Start(t, kind, cookie)
       \/ Saves(t) \/ SaveFails(t) \/ Applies(t) \/ Resets(t)
       \/ Looks(t) \/ Tests(t) \/ Tells(t)
       \/ Searches(t) \/ SearchesAgain(t) \/ Galleries(t) \/ Refers(t) \/ Ends(t)
  \/ Restart

SessionSpec == SessionInit /\ [][SessionNext]_vars

-----------------------------------------------------------------------------
Writing == \E t \in Threads : Writes(t)

\* Between writes the store holds what the catalog holds, or the cookie of the environment,
\* as after a restart, unless two writes met or the client of one left (crossed): a save
\* that fails leaves the store alone, a save under an override changes the catalog only
\* (put_session, delete_session, production).
StoreFollowsCatalog == ~ Writing /\ ~ crossed => store = Effective

\* The reference kept with metadata names the site that gave the metadata, though the
\* cookie is changed before the reference is written (gallery_base_url).
ReferenceIsOfItsSite ==
  \A t \in Threads : task[t].kind = "lookup" /\ task[t].step = "done" =>
    task[t].base = IF task[t].cookie # Null THEN Exhentai ELSE Ehentai

\* What requests are made with, and what is written down of them, is the session of somebody's
\* choice, never one that is half changed.
SessionHolds == StoreFollowsCatalog /\ ReferenceIsOfItsSite

=============================================================================
