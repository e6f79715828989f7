-------------------------------- MODULE History --------------------------------
(***************************************************************************)
(* GET /accounts/{id}/entries: keyset pagination over account_entries while *)
(* transfers commit.  An entry is stamped with the time its transaction    *)
(* began (created_at DEFAULT now()) and becomes visible when it commits, so *)
(* rows appear in the middle of the order and not only on top of it.       *)
(***************************************************************************)
EXTENDS Integers, FiniteSets

CONSTANTS
  Account,    \* account UUIDs
  EntryId,    \* account_entries UUIDs, ordered: a set of naturals
  Writer,     \* connections that commit transfers
  Reader,     \* clients that read page after page
  OwnerOf,    \* the client that owns each account
  MaxLimit,   \* the largest page size; 100 in the code
  MaxTime,    \* bound on PostgreSQL's clock
  None        \* an absent cursor, counterparty or transaction

Entry == [id: EntryId, account: Account, counterparty: Account,
          created_at: 1 .. MaxTime]

\* The cursor is bound to the query that it continues.
Cursor == [account: Account, counterparty: Account \cup {None},
           created_at: 1 .. MaxTime, entry_id: EntryId]

ASSUME HistoryAssumption ==
  /\ EntryId \subseteq Nat
  /\ MaxLimit \in Nat /\ MaxTime \in Nat \ {0}
  /\ None \notin Cursor

VARIABLES
  now,        \* PostgreSQL's clock
  began,      \* when a writer's transaction began
  entries,    \* the committed account_entries
  traversal   \* what a reader asked for, was given, and can go on from

vars == <<now, began, entries, traversal>>

\* What a client knows of a traversal: the latest page, the rows of the pages
\* before it and the cursor to go on with. `due` is a ghost: the rows that were
\* there when the first page was read.
Traversal == [account: Account \cup {None}, counterparty: Account \cup {None},
              page: SUBSET entries, shown: SUBSET entries,
              cursor: Cursor \cup {None}, due: SUBSET entries]
NoTraversal == [account |-> None, counterparty |-> None, page |-> {}, shown |-> {},
                cursor |-> None, due |-> {}]

(***************************************************************************)
(* The handler.                                                            *)
(***************************************************************************)
Matching(a, c) ==
  {e \in entries : e.account = a /\ (c = None \/ e.counterparty = c)}

\* ORDER BY created_at DESC, id DESC
Newer(e, f) ==
  \/ e.created_at > f.created_at
  \/ e.created_at = f.created_at /\ e.id > f.id

Older(e, k) ==
  \/ e.created_at < k.created_at
  \/ e.created_at = k.created_at /\ e.id < k.entry_id

\* Bug: (created_at, id) <= cursor.
RowsFromCursor(a, c, k) ==
  {e \in Matching(a, c) :
     k # None => Older(e, k) \/ (e.created_at = k.created_at /\ e.id = k.entry_id)}

\* WHERE ... AND (cursor IS NULL OR (created_at, id) < cursor)
Rows(a, c, k) == {e \in Matching(a, c) : k # None => Older(e, k)}

\* ORDER BY ... LIMIT n: the newest n rows, or all if there are fewer.
Limit(rows, n) ==
  {page \in SUBSET rows :
     /\ Cardinality(page) <= n
     /\ Cardinality(page) < n => page = rows
     /\ \A e \in page, f \in rows \ page : Newer(e, f)}

\* Bug: the cursor of one query continues another.
AcceptsAnyCursor(k, a, c) == TRUE

\* parse_query refuses a cursor of another account or counterparty.
Accepts(k, a, c) == k # None => k.account = a /\ k.counterparty = c

CursorAt(a, c, e) == [account |-> a, counterparty |-> c,
                      created_at |-> e.created_at, entry_id |-> e.id]
Last(rows) == {e \in rows : \A f \in rows \ {e} : Newer(f, e)}

\* Bugs: the cursor names the row looked ahead at; there always is one, and an
\* empty page returns the one it was asked for with.
NextCursorLookingAhead(a, c, k, n, ahead, page) ==
  IF Cardinality(ahead) > n THEN {CursorAt(a, c, e) : e \in Last(ahead)} ELSE {None}

NextCursorKept(a, c, k, n, ahead, page) ==
  IF page # {} THEN {CursorAt(a, c, e) : e \in Last(page)} ELSE {k}

\* The cursor names the last row of the page, if a row was read beyond it.
NextCursor(a, c, k, n, ahead, page) ==
  IF Cardinality(ahead) > n THEN {CursorAt(a, c, e) : e \in Last(page)} ELSE {None}

\* Without a cursor it is the first page of a new traversal.
Continued(t, a, c, page, cursor) ==
  [account      |-> a,
   counterparty |-> c,
   page         |-> page,
   shown        |-> IF t.cursor = None THEN {} ELSE t.shown \cup t.page,
   cursor       |-> cursor,
   due          |-> IF t.cursor = None THEN Matching(a, c) ELSE t.due]

\* One page, for the owner only, and one row more to know whether there is another.
GetAccountHistory(r, a, c, n) ==
  LET t == traversal[r] IN
  /\ OwnerOf[a] = r
  /\ Accepts(t.cursor, a, c)
  /\ \E ahead \in Limit(Rows(a, c, t.cursor), n + 1) :
     \E page \in Limit(ahead, n) :
     \E cursor \in NextCursor(a, c, t.cursor, n, ahead, page) :
       traversal' = [traversal EXCEPT ![r] = Continued(t, a, c, page, cursor)]
  /\ UNCHANGED <<now, began, entries>>

(***************************************************************************)
(* The writers: create_transfer and reverse_transfer.                      *)
(***************************************************************************)
Begin(w) ==
  /\ began[w] = None
  /\ began' = [began EXCEPT ![w] = now]
  /\ UNCHANGED <<now, entries, traversal>>

\* The debit and the credit carry the same time.  Their random ids are only ever
\* compared with those of other rows of the same account, so one id does for both.
Commit(w, a, b, i) ==
  /\ began[w] # None
  /\ a # b
  /\ \A e \in entries : e.id # i
  /\ entries' = entries \cup
       {[id |-> i, account |-> a, counterparty |-> b, created_at |-> began[w]],
        [id |-> i, account |-> b, counterparty |-> a, created_at |-> began[w]]}
  /\ began' = [began EXCEPT ![w] = None]
  /\ UNCHANGED <<now, traversal>>

Tick ==
  /\ now < MaxTime
  /\ now' = now + 1
  /\ UNCHANGED <<began, entries, traversal>>

(***************************************************************************)
(* The specification.                                                      *)
(***************************************************************************)
Init ==
  /\ now = 1
  /\ began = [w \in Writer |-> None]
  /\ entries = {}
  /\ traversal = [r \in Reader |-> NoTraversal]

Get(r) ==
  \E a \in Account, c \in Account \cup {None}, n \in 1 .. MaxLimit :
    GetAccountHistory(r, a, c, n)

Next ==
  \/ \E r \in Reader : Get(r)
  \/ \E w \in Writer :
       \/ Begin(w)
       \/ \E a, b \in Account, i \in EntryId : Commit(w, a, b, i)
  \/ Tick

Spec == Init /\ [][Next]_vars

\* A client that has begun goes on until there is no next_cursor.
LiveSpec ==
  Spec /\ \A r \in Reader : WF_vars(traversal[r].cursor # None /\ Get(r))

(***************************************************************************)
(* Properties.                                                             *)
(***************************************************************************)
TypeOK ==
  /\ now \in 1 .. MaxTime
  /\ began \in [Writer -> 1 .. MaxTime \cup {None}]
  /\ entries \subseteq Entry /\ IsFiniteSet(entries)
  /\ traversal \in [Reader -> Traversal]

\* All that is shown answers the query of the traversal, and the cursor goes on with
\* that query from the end of the page.
OneQuery(t) ==
  /\ t.page \cup t.shown \cup t.due \subseteq Matching(t.account, t.counterparty)
  /\ t.cursor # None =>
       /\ t.cursor.account = t.account /\ t.cursor.counterparty = t.counterparty
       /\ \A e \in t.page \cup t.shown : ~Older(e, t.cursor)

\* Inductive: a client is in one traversal of one query (parse_query, next_cursor).
IInv == TypeOK /\ \A r \in Reader : OneQuery(traversal[r])

\* From page to page the rows descend strictly: none is shown twice, whatever
\* was committed between two pages (get_account_history).
PagesDescend ==
  \A r \in Reader : \A e \in traversal[r].page, f \in traversal[r].shown : Newer(f, e)

\* A traversal shows every row that was there when it began, once it has come
\* past it (get_account_history).
NothingSkipped ==
  \A r \in Reader :
    LET t == traversal[r] IN
    \A e \in t.due : e \in t.page \cup t.shown \/ (t.cursor # None /\ Older(e, t.cursor))

\* next_cursor is only given when the page it leads to has rows, and since
\* entries are immutable it keeps them.
NextPageHasRows ==
  \A r \in Reader :
    LET t == traversal[r] IN
    t.cursor # None => Rows(t.account, t.counterparty, t.cursor) # {}

\* A traversal ends even while transfers commit.
TraversalEnds ==
  \A r \in Reader : traversal[r].cursor # None ~> traversal[r].cursor = None
===============================================================================
