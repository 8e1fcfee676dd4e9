-------------------------------- MODULE Access --------------------------------
(***************************************************************************)
(* Who may ask for a reviewer's listing: the API key middleware             *)
(* (api/middleware.py), the scopes of a key (auth/scopes.py) and the        *)
(* reviewer a listing is filtered by (review/dashboard_service.py).         *)
(*                                                                          *)
(* A text is [word, padded] as in the compiler: word "" is the empty text.  *)
(* A key row is [active, expires, scopes, bound]; scopes and bound are sets *)
(* of at most one value (NULL is the empty set), and the value of scopes is *)
(* the sequence of the list's items, an item being a set of at most one     *)
(* text (an item may be null).                                              *)
(***************************************************************************)
EXTENDS Integers, Sequences, FiniteSets, Samples

Refused(status) == [status |-> status, filter |-> {}]
Allowed(filter) == [status |-> 200, filter |-> filter]

LegacyScopes == {"tenant_user"}

\* A missing or empty list falls back to the legacy scopes; a list whose items
\* are all blank gives none at all.
ResolveScopes(raw) ==
  IF raw = {} \/ raw = {<<>>} THEN LegacyScopes
  ELSE LET items == CHOOSE s \in raw : TRUE
           words == {t.word : t \in UNION {items[i] : i \in DOMAIN items}}
       IN  words \ {""}

\* The row the middleware finds for the header, if the key is usable now.
\* A key that expires in this very instant still passes.
UsableKeys(rows, hash, now) ==
  {row \in rows : /\ row.hash = hash
                  /\ row.active
                  /\ \A e \in row.expires : e >= now}

\* The scopes of the request are resolved once more: none count as the legacy ones.
EnforceAnyScope(have, required) ==
  required = {} \/ (IF have = {} THEN LegacyScopes ELSE have) \cap required # {}

\* The scopes that let a caller list for the whole tenant.
AdminScopes == {"system_admin", "tenant_admin"}

\* Mutant: only keys whose one scope is the reviewer's are held to it.
ReviewerForQueryAlone(scopes, query, header, bound) ==
  LET asked == IF query.word # "" THEN query.word ELSE header.word
  IN  CASE scopes = {"reviewer"} /\ bound = {} -> Refused(403)
        [] scopes = {"reviewer"} /\ bound # {} -> Allowed({b.word : b \in bound})
        [] scopes # {"reviewer"} /\ asked # "" -> Allowed({asked})
        [] scopes # {"reviewer"} /\ asked = "" -> Allowed({})

\* The reviewer to filter by: {} lists for the whole tenant.  The query and the
\* header are stripped before they are compared, the bound reviewer is not.
ReviewerForQuery(scopes, query, header, bound) ==
  LET tight == "reviewer" \in scopes /\ scopes \cap AdminScopes = {}
      asked == IF query.word # "" THEN query.word ELSE header.word
      differs(t) == t.word # "" /\ bound # {[word |-> t.word, padded |-> FALSE]}
  IN  CASE tight /\ (differs(query) \/ differs(header)) -> Refused(403)
        [] tight /\ ~\E b \in bound : b.word # "" \/ b.padded -> Refused(403)
        [] tight /\ ~(differs(query) \/ differs(header))
                 /\ (\E b \in bound : b.word # "" \/ b.padded) ->
             Allowed({b.word : b \in bound})
        [] ~tight /\ asked # "" -> Allowed({asked})
        [] ~tight /\ asked = "" /\ scopes \cap AdminScopes # {} -> Allowed({})
        [] ~tight /\ asked = "" /\ scopes \cap AdminScopes = {} -> Refused(400)

\* One request for the queue or the SLA badges, from the header to the filter.
\* The routes require the reviewer scope of administrators too.
ListingScopes == {"reviewer"}
ReviewerListing(rows, request, now) ==
  LET found == UsableKeys(rows, request.key, now)
      row == CHOOSE r \in found : TRUE
      scopes == ResolveScopes(row.scopes)
  IN  CASE found = {} -> Refused(401)
        [] found # {} /\ ~EnforceAnyScope(scopes, ListingScopes) -> Refused(403)
        [] found # {} /\ EnforceAnyScope(scopes, ListingScopes) ->
             ReviewerForQuery(scopes, request.query, request.header, row.bound)

(* What a listing may show: it is given for a live key that names the       *)
(* reviewer scope; a key that names an administrator's scope gets the       *)
(* reviewer the query names, else the header, else everybody; any other key *)
(* gets its own reviewer.                                                   *)
NamesScope(raw, scope) == \E list \in raw : \E i \in DOMAIN list : \E t \in list[i] : t.word = scope
AskedFor(query, header) == IF query.word # "" THEN {query.word} ELSE {header.word} \ {""}

StaysWithTheKey(reply, row, request, now) ==
  /\ row.hash = request.key /\ row.active /\ \A e \in row.expires : e >= now
  /\ NamesScope(row.scopes, "reviewer")
  /\ IF \E scope \in AdminScopes : NamesScope(row.scopes, scope)
     THEN reply.filter = AskedFor(request.query, request.header)
     ELSE reply.filter = {b.word : b \in row.bound} /\ row.bound # {}

\* Every listing that is given stays with one of the keys.
ListingStays(rows, request, now) ==
  LET reply == ReviewerListing(rows, request, now)
  IN  reply.status = 200 => \E row \in rows : StaysWithTheKey(reply, row, request, now)

\* A listing is only given for an active key in its time that has the reviewer
\* scope; without an administrator's scope it is that of the key's own
\* reviewer, and an administrator gets the reviewer the query names, else the
\* header, else everybody.
ListingsStayWithTheKey ==
  Drawn("listing") => ListingStays(sample.of.rows, sample.of.request, sample.of.now)
=============================================================================
