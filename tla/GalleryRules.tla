---------------------------- MODULE GalleryRules ----------------------------
(***************************************************************************)
(* What the E-Hentai provider makes of the pages it gets.                  *)
(*                                                                         *)
(* Abstractions.  A page is its HTTP status, what its body reads as, and   *)
(* whether it came whole and in UTF-8.  The page of the sad panda, and the *)
(* one that tells of a limit, are HTML pages.                              *)
(***************************************************************************)
EXTENDS Naturals

Statuses == {200, 204, 302, 400, 401, 403, 404, 429, 503}
Bodies   == {"listing", "blank", "sad panda", "rate limit", "no html"}
Page     == [status : Statuses, body : Bodies, whole : BOOLEAN, utf8 : BOOLEAN]


-----------------------------------------------------------------------------
(* What a page says. *)

\* classify_session_response: a whole cookie is tested at ExHentai
SessionStatus(p) ==
  CASE ~ p.whole                                   -> "parse_error"
    [] p.status = 429 \/ p.body = "rate limit"     -> "rate_limited"
    [] p.status \in {401, 403}                     -> "invalid_cookie"
    [] p.status \in 500 .. 599                     -> "exhentai_unavailable"
    [] p.status \in 300 .. 399                     -> "invalid_cookie"
    [] p.status # 200                              -> "parse_error"
    [] p.body = "blank"                            -> "invalid_cookie"
    [] p.body = "sad panda"                        -> "exhentai_unavailable"
    [] p.body = "listing"                          -> "exhentai"
    [] OTHER                                       -> "parse_error"

\* classify_public_session_response: a partial one at E-Hentai
PublicSessionStatus(p) ==
  CASE ~ p.whole                                   -> "parse_error"
    [] p.status = 429 \/ p.body = "rate limit"     -> "rate_limited"
    [] p.status \in {401, 403}                     -> "invalid_cookie"
    [] p.status # 200                              -> "network_error"
    [] p.body \in {"listing", "sad panda"}         -> "ehentai_only"
    [] OTHER                                       -> "parse_error"

\* classify_http_status
HttpStatus(status, exhentai) ==
  CASE status = 200                          -> "ok"
    [] status = 404                          -> "gallery_not_found"
    [] status = 429                          -> "rate_limited"
    [] status \in 500 .. 599 /\ exhentai     -> "exhentai_unavailable"
    [] status \in 400 .. 499 /\ exhentai     -> "invalid_cookie"
    [] OTHER                                 -> "network_error"

\* page_body: what a search makes of the page it gets
PageBody(p, exhentai) ==
  CASE ~ p.whole                                                -> "parse_error"
    [] p.status = 429 \/ p.body = "rate limit"                  -> "rate_limited"
    [] exhentai /\ p.status \in {401, 403} \cup (300 .. 399)    -> "invalid_cookie"
    [] HttpStatus(p.status, exhentai) # "ok"                    -> HttpStatus(p.status, exhentai)
    [] exhentai /\ p.body = "blank"                             -> "invalid_cookie"
    [] exhentai /\ p.body = "sad panda"                         -> "exhentai_unavailable"
    [] p.body \in {"blank", "no html"} \/ ~ p.utf8              -> "parse_error"
    [] OTHER                                                    -> "ok"

FallsBack(kind) == kind \in {"invalid_cookie", "exhentai_unavailable"}

\* what a test and a search of some page can come to
SessionStatuses       == {SessionStatus(p) : p \in Page}
PublicSessionStatuses == {PublicSessionStatus(p) : p \in Page}
PublicKinds           == {PageBody(p, FALSE) : p \in Page}
ExhentaiKinds         == {PageBody(p, TRUE) : p \in Page}
SearchKinds(exhentai) == IF exhentai THEN ExhentaiKinds ELSE PublicKinds

=============================================================================
