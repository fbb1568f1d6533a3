---------------------------- MODULE MCRequests -----------------------------
(* Three works, two texts and two cookies for CatalogRequests.  A behaviour *)
(* is of one side only, and the others keep their initial state.            *)
EXTENDS CatalogRequests

CONSTANTS k1, k2, k3, name  \* works, and the title some of them share

VARIABLE side  \* which part a behaviour is of

AllFields == {"title", "event", "classification", "is_dl"}

Nobody == [w \in Works |-> [titles |-> {}, fields |-> {}]]
Known(titles, fields) == [titles |-> titles, fields |-> fields]

\* sites that come to know the works in stages
SomeSites ==
  {Nobody,
   [Nobody EXCEPT ![k1] = Known({name}, {"title", "event"})],
   [w \in Works |-> IF w # k3 THEN Known({name}, {"title"}) ELSE Known({}, {"event"})],
   [w \in Works |-> Known({name}, {"title"})],
   [w \in Works |-> IF w = k1 THEN Known({}, {"title"}) ELSE Known({name}, {"title", "event"})]}

SomeRequests ==
  [eh : {{}, {k1}, {k1, k2}}, rj : {{}, {k2}, {k1, k2}}, title : {name, Null},
   fields : {{"event"}, {"title", "event"}, {"title", "event", "is_dl"}}]

\* the library's list without a filter
Asked == [circle |-> <<"any">>, author |-> <<"any">>, tag |-> {}, untagged |-> FALSE,
          missing |-> FALSE, source |-> <<"any">>, sort |-> "created", asc |-> FALSE]

SomeTexts   == {<<1, 1>>, <<1, 2>>}
SomeAuthors == {<<>>, <<<<1, 1>>>>, <<<<1, 1>>, <<1, 2>>>>}
SomeQueries == {[Asked EXCEPT !.sort = s, !.asc = a, !.missing = m] :
                  s \in {"created", "size"}, a \in BOOLEAN, m \in BOOLEAN}
SomeSaved   == {[Asked EXCEPT !.missing = m] : m \in BOOLEAN}

NoRequest == [eh |-> {}, rj |-> {}, title |-> Null, fields |-> {"event"}]

NoLookup == LookupInit /\ site = [p \in {"eh", "dl"} |-> Nobody] /\ request = NoRequest

NoSession == Session!SessionInit /\ saved = Null /\ env = Null

Init ==
  /\ Library!LibraryInit
  /\ \/ side = "session" /\ Session!SessionInit /\ NoLookup
     \/ side = "lookup" /\ NoSession /\ LookupInit /\ request # NoRequest
     \/ side \in {"shelf", "home"} /\ NoSession /\ NoLookup

Next ==
  /\ \/ side = "session" /\ Session!SessionNext /\ UNCHANGED <<lookupVars, libraryVars>>
     \/ side = "lookup" /\ LookupNext /\ UNCHANGED <<sessionVars, libraryVars>>
     \/ side = "shelf" /\ Library!ShelfNext /\ UNCHANGED <<sessionVars, lookupVars>>
     \/ side = "home" /\ Library!HomeNext /\ UNCHANGED <<sessionVars, lookupVars>>
  /\ UNCHANGED side

Spec == Init /\ [][Next]_<<side, sessionVars, lookupVars, libraryVars>>
=============================================================================
