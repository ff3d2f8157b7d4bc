------------------------------ MODULE Paginator ------------------------------
(***************************************************************************)
(* pkg/transport/paginator.go: a walk over a paged listing. A page is what *)
(* a fetch returned: [err, items, token], the token NoToken when the       *)
(* response had no X-Next-Token.                                           *)
(***************************************************************************)
EXTENDS Naturals, Sequences

NoToken == 0

NewPaginator == [nextToken |-> NoToken, hasNext |-> TRUE]
HasNext(p) == p.hasNext

Fetched(p, page) == HasNext(p) /\ page.err = "none"

\* As NextItems, a failed fetch ending the walk (a mutant).
NextItemsEndsOnError(p, page) ==
  [nextToken |-> page.token, hasNext |-> page.token # NoToken]

\* The paginator after a fetch, and the items NextItems returns.
NextItems(p, page) ==
  IF Fetched(p, page)
  THEN [nextToken |-> page.token, hasNext |-> page.token # NoToken]
  ELSE p

Items(p, page) == IF Fetched(p, page) THEN page.items ELSE <<>>
=============================================================================
