---------------------------- MODULE LibraryShelf ----------------------------
(***************************************************************************)
(* What the library promises about a collection's place, without files,    *)
(* links, row ids or crashes: a collection stands at one path, nobody else *)
(* stands there, and it only leaves it because the file was missed or      *)
(* because a recorded request was granted, at most once, while the         *)
(* collection was still where the request found it.                        *)
(***************************************************************************)
CONSTANTS Collections, Requests, Paths, Null

VARIABLES
  shelf,     \* where each collection stands
  request    \* the requests and what became of them

vars == <<shelf, request>>

NoRequest == [state |-> "none"]

StandsAt(p) == [state |-> "standing", path |-> p]
Off(state)  == [state |-> state]      \* "none", "missing" or "recycled"

Standing(c) == shelf[c].state = "standing"
Free(p, c) == \A d \in Collections \ {c} : shelf[d] # StandsAt(p)

Init ==
  /\ shelf = [c \in Collections |-> Off("none")]
  /\ request = [r \in Requests |-> NoRequest]

Arrive(c) ==
  /\ shelf[c] = Off("none")
  /\ \E p \in Paths :
       Free(p, c) /\ shelf' = [shelf EXCEPT ![c] = StandsAt(p)]
  /\ UNCHANGED request

Miss(c) ==
  /\ Standing(c)
  /\ shelf' = [shelf EXCEPT ![c] = Off("missing")]
  /\ UNCHANGED request

Ask(r, c) ==
  /\ request[r] = NoRequest
  /\ Standing(c)
  /\ UNCHANGED shelf
  /\ \E kind \in {"rename", "move", "soft_delete", "hard_delete"}, to \in Paths \cup {Null} :
       /\ (to = Null) <=> (kind \in {"soft_delete", "hard_delete"})
       /\ request' = [request EXCEPT ![r] =
            [collection |-> c, kind |-> kind, from |-> shelf[c].path, to |-> to, state |-> "asked"]]

Asked(r) == request[r].state = "asked"
Becomes(r, state) == request' = [request EXCEPT ![r].state = state]

Deny(r) ==
  /\ Asked(r)
  /\ Becomes(r, "denied")
  /\ UNCHANGED shelf

GrantRelocation(r) ==
  LET row == request[r] IN
  /\ Asked(r) /\ row.collection # Null
  /\ row.kind \in {"rename", "move"}
  /\ shelf[row.collection] = StandsAt(row.from)
  /\ Free(row.to, row.collection)
  /\ shelf' = [shelf EXCEPT ![row.collection] = StandsAt(row.to)]
  /\ Becomes(r, "granted")

GrantSoftDeletion(r) ==
  LET row == request[r] IN
  /\ Asked(r) /\ row.collection # Null
  /\ row.kind = "soft_delete"
  /\ shelf[row.collection] = StandsAt(row.from)
  /\ shelf' = [shelf EXCEPT ![row.collection] = Off("recycled")]
  /\ Becomes(r, "granted")

(* the only request that is granted wherever the collection stands by now;  *)
(* the other requests of the collection lose their subject                  *)
GrantHardDeletion(r) ==
  LET c == request[r].collection
      forget(q) == IF request[q] # NoRequest /\ request[q].collection = c
                     THEN [request[q] EXCEPT !.collection = Null] ELSE request[q]
  IN
  /\ Asked(r) /\ c # Null
  /\ request[r].kind = "hard_delete"
  /\ shelf' = [shelf EXCEPT ![c] = Off("none")]
  /\ request' = [q \in Requests |->
       IF q = r THEN [forget(q) EXCEPT !.state = "granted"] ELSE forget(q)]

Next ==
  \/ \E c \in Collections : Arrive(c) \/ Miss(c)
  \/ \E r \in Requests, c \in Collections : Ask(r, c)
  \/ \E r \in Requests :
       Deny(r) \/ GrantRelocation(r) \/ GrantSoftDeletion(r) \/ GrantHardDeletion(r)

Spec == Init /\ [][Next]_vars
=============================================================================
