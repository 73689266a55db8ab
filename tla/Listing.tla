------------------------------ MODULE Listing ------------------------------
(***************************************************************************)
(* Paging through the notes of the SQLite provider while they change.  A   *)
(* page is one SELECT, ordered by updated_at descending and then by urn,   *)
(* and its token names the last row of the page.  Snips, projects and      *)
(* folders are listed by statements of the same form.                      *)
(*                                                                         *)
(* updated_at is a clock of the server or, for an event, whatever time the *)
(* client sent: a write may move a row to any place of the order.  Urns    *)
(* are numbers in the order of their strings.                              *)
(***************************************************************************)
EXTENDS Integers, FiniteSets

CONSTANTS
  Urns,
  Stamps,       \* values of updated_at in milliseconds
  PageSize,
  MaxWrites     \* bound: writes of other clients

ASSUME ListingAssumption ==
  /\ IsFiniteSet(Urns) /\ Urns \subseteq Int
  /\ Stamps \subseteq Int
  /\ PageSize \in Nat \ {0}
  /\ MaxWrites \in Nat

VARIABLES
  table,      \* the rows by urn: updated_at, and whether the filter lets them pass
  token,      \* page_token of the next request
  listing,    \* the caller that pages
  listed,     \* how often it was given a urn
  writes,
  initial,    \* observation: the urns the filter let pass when it began
  touched,    \* observation: the urns written since
  restarted   \* observation: a token was ignored

listingVars == <<table, token, listing, listed, writes, initial, touched, restarted>>

(* The empty token is decoded to a zero time.                              *)
NoToken == [stamp |-> 0, urn |-> 0]

ListingTypeOK ==
  /\ DOMAIN table \subseteq Urns
  /\ \A u \in DOMAIN table : table[u] \in [stamp : Stamps, shown : BOOLEAN]
  /\ token \in [stamp : Stamps \cup {0}, urn : Urns \cup {0}]
  /\ listing \in {"ready", "open", "over"}
  /\ listed \in [Urns -> Nat]
  /\ writes \in 0..MaxWrites
  /\ initial \subseteq Urns /\ touched \subseteq Urns
  /\ restarted \in BOOLEAN

Shown == {u \in DOMAIN table : table[u].shown}

ListingInit ==
  /\ \E present \in SUBSET Urns : table \in [present -> [stamp : Stamps, shown : BOOLEAN]]
  /\ token = NoToken
  /\ listing = "ready"
  /\ listed = [u \in Urns |-> 0]
  /\ writes = 0
  /\ initial = Shown
  /\ touched = {} /\ restarted = FALSE
-----------------------------------------------------------------------------
(* Create, Update, Delete and AppendEvent of another client.               *)
WriteRow(u) ==
  /\ writes < MaxWrites
  /\ writes' = writes + 1
  /\ \E row \in [stamp : Stamps, shown : BOOLEAN] :
       table' = [v \in DOMAIN table \cup {u} |-> IF v = u THEN row ELSE table[v]]
  /\ touched' = touched \cup {u}
  /\ UNCHANGED <<token, listing, listed, initial, restarted>>

Precedes(u, v) ==
  \/ table[u].stamp > table[v].stamp
  \/ table[u].stamp = table[v].stamp /\ u < v

(* Faulty variant: rows that share the time of the token are passed over.  *)
OlderThanToken(u) == table[u].stamp < token.stamp

AfterToken(u) ==
  \/ table[u].stamp < token.stamp
  \/ table[u].stamp = token.stamp /\ u > token.urn

(* A token that is not of a positive time counts as none.                  *)
Matching == {u \in Shown : token.stamp > 0 => AfterToken(u)}

Page == {u \in Matching : Cardinality({v \in Matching : Precedes(v, u)}) < PageSize}

IsLast(u, page) == u \in page /\ \A v \in page : v = u \/ Precedes(v, u)

(* One request.  The statement asks for a row more than the page holds.    *)
(* A caller that was led back to the first page is not followed further.   *)
ListPage ==
  /\ listing \in {"ready", "open"} /\ ~ restarted
  /\ listed' = [u \in Urns |-> IF u \in Page THEN listed[u] + 1 ELSE listed[u]]
  /\ IF Cardinality(Matching) > PageSize
     THEN \E u \in Page :
            /\ IsLast(u, Page)
            /\ token' = [stamp |-> table[u].stamp, urn |-> u]
            /\ restarted' = (restarted \/ table[u].stamp <= 0)
            /\ listing' = "open"
     ELSE /\ token' = NoToken
          /\ listing' = "over"
          /\ UNCHANGED restarted
  /\ UNCHANGED <<table, writes, initial, touched>>

ListingNext == ListPage \/ \E u \in Urns : WriteRow(u)

ListingSpec == ListingInit /\ [][ListingNext]_listingVars
-----------------------------------------------------------------------------
(* A note that the filter lets pass and nobody writes while a caller pages *)
(* is on exactly one of its pages, whatever happens to other notes and     *)
(* however many share its time (queryNotes, encodeCursor).                 *)
ListedOnce ==
  ~ restarted =>
    \A u \in initial \ touched :
      /\ listed[u] <= 1
      /\ listing = "over" => listed[u] = 1
=============================================================================
