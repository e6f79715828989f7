----------------------------- MODULE HistoryProofs -----------------------------
(***************************************************************************)
(* Proofs about History, for any number of readers, writers, accounts and   *)
(* entries. The cursor is what remains of the pages behind it: all that was *)
(* shown is at or above it, and all that comes is below.                    *)
(***************************************************************************)
EXTENDS History, FiniteSetTheorems, TLAPS

\* Rows are compared by time and id.
LEMMA Order ==
  \A e \in Entry : /\ e.created_at \in Nat /\ e.id \in Nat
                   /\ e.account \in Account /\ e.counterparty \in Account
<1>1. \A e \in Entry : /\ e.created_at \in 1 .. MaxTime /\ e.id \in EntryId
                       /\ e.account \in Account /\ e.counterparty \in Account
  BY DEF Entry
<1>2. EntryId \subseteq Nat /\ 1 .. MaxTime \subseteq Nat
  BY HistoryAssumption DEF HistoryAssumption
<1> QED
  BY <1>1, <1>2

\* A cursor stands for the row it was made from.
LEMMA CursorStandsForRow ==
  ASSUME NEW a, NEW c, NEW k \in Entry
  PROVE  \A e \in Entry : /\ Older(e, CursorAt(a, c, k)) <=> Newer(k, e)
                          /\ Newer(e, k) => ~Newer(k, e)
                          /\ ~Newer(e, e)
BY Order DEF Older, Newer, CursorAt

\* The page and the row read ahead are the newest rows, in this order.
LEMMA PageIsNewest ==
  ASSUME NEW rows, IsFiniteSet(rows), NEW n \in Nat,
         NEW ahead \in Limit(rows, n + 1), NEW page \in Limit(ahead, n)
  PROVE  /\ page \subseteq ahead /\ ahead \subseteq rows
         /\ \A e \in page, f \in rows \ page : Newer(e, f)
         /\ Cardinality(ahead) > n => ahead \ page # {}
         /\ ~(Cardinality(ahead) > n) => page = rows
<1> USE DEF Limit
<1>1. IsFiniteSet(ahead) /\ IsFiniteSet(page)
  BY FS_Subset
<1>2. Cardinality(ahead) \in Nat /\ Cardinality(page) \in Nat
  BY <1>1, FS_CardinalityType
<1>3. Cardinality(ahead) > n => ahead \ page # {}
  BY <1>2
<1>4. ASSUME ~(Cardinality(ahead) > n) PROVE page = rows
  <2>1. ahead = rows
    BY <1>2, <1>4
  <2>2. CASE Cardinality(page) < n
    BY <2>1, <2>2
  <2>3. CASE Cardinality(page) = n
    <3>1. Cardinality(page) = Cardinality(ahead)
      <4>1. Cardinality(page) <= Cardinality(ahead)
        BY <1>1, FS_Subset
      <4> QED
        BY <1>2, <1>4, <2>3, <4>1
    <3> QED
      BY <1>1, <2>1, <3>1, FS_Subset
  <2> QED
    BY <1>2, <2>2, <2>3
<1> QED
  BY <1>3, <1>4

(***************************************************************************)
(* The inductive invariant, with what it is for.                           *)
(***************************************************************************)
Paged == IInv /\ PagesDescend /\ NothingSkipped /\ NextPageHasRows

\* Nobody has asked for anything.
LEMMA PagedInitially == Init => Paged
<1> SUFFICES ASSUME Init PROVE Paged
  OBVIOUS
<1> USE DEF Init
<1>1. NoTraversal \in Traversal
  BY DEF NoTraversal, Traversal
<1>2. TypeOK
  BY <1>1, FS_EmptySet, HistoryAssumption DEF HistoryAssumption, TypeOK
<1>3. \A r \in Reader : OneQuery(traversal[r])
  BY DEF NoTraversal, OneQuery
<1>4. PagesDescend /\ NothingSkipped /\ NextPageHasRows
  BY DEF NoTraversal, PagesDescend, NothingSkipped, NextPageHasRows
<1> QED
  BY <1>2, <1>3, <1>4 DEF Paged, IInv

\* A page continues where the last one ended, or begins anew.
LEMMA GetKeepsPaged ==
  ASSUME Paged, NEW r \in Reader, NEW a \in Account,
         NEW c \in Account \cup {None}, NEW n \in 1 .. MaxLimit,
         GetAccountHistory(r, a, c, n)
  PROVE  Paged'
<1> DEFINE t == traversal[r]
           rows == Rows(a, c, t.cursor)
<1>1. /\ t \in Traversal /\ entries \subseteq Entry /\ IsFiniteSet(entries)
      /\ OneQuery(t) /\ Accepts(t.cursor, a, c)
      /\ UNCHANGED <<now, began, entries>>
  BY DEF Paged, IInv, TypeOK, GetAccountHistory
<1>2. rows \subseteq Matching(a, c) /\ rows \subseteq entries /\ IsFiniteSet(rows)
  BY <1>1, FS_Subset DEF Rows, Matching
<1>3. PICK ahead \in Limit(rows, n + 1) :
      \E page \in Limit(ahead, n) :
      \E cursor \in NextCursor(a, c, t.cursor, n, ahead, page) :
        traversal' = [traversal EXCEPT ![r] = Continued(t, a, c, page, cursor)]
  BY DEF GetAccountHistory
<1>4. PICK page \in Limit(ahead, n) :
      \E cursor \in NextCursor(a, c, t.cursor, n, ahead, page) :
        traversal' = [traversal EXCEPT ![r] = Continued(t, a, c, page, cursor)]
  BY <1>3
<1>5. PICK cursor \in NextCursor(a, c, t.cursor, n, ahead, page) :
        traversal' = [traversal EXCEPT ![r] = Continued(t, a, c, page, cursor)]
  BY <1>4
<1>6. /\ page \subseteq ahead /\ ahead \subseteq rows
      /\ \A e \in page, f \in rows \ page : Newer(e, f)
      /\ Cardinality(ahead) > n => ahead \ page # {}
      /\ ~(Cardinality(ahead) > n) => page = rows
  <2>1. n \in Nat
    OBVIOUS
  <2> HIDE DEF rows
  <2> QED
    BY <1>2, <2>1, PageIsNewest
<1> DEFINE u == Continued(t, a, c, page, cursor)
<1>7. /\ u.account = a /\ u.counterparty = c /\ u.page = page /\ u.cursor = cursor
      /\ t.cursor = None => u.shown = {} /\ u.due = Matching(a, c)
      /\ t.cursor # None => u.shown = t.shown \cup t.page /\ u.due = t.due
  BY DEF Continued
<1>8. /\ traversal'[r] = u
      /\ \A q \in Reader \ {r} : traversal'[q] = traversal[q]
  BY <1>5 DEF Paged, IInv, TypeOK
<1>9. page \subseteq entries /\ page \subseteq Entry
  BY <1>1, <1>2, <1>6
<1>10. \/ cursor = None /\ page = rows
       \/ \E last \in page : /\ cursor = CursorAt(a, c, last)
                             /\ \A f \in page \ {last} : Newer(f, last)
                             /\ ahead \ page # {}
  <2> HIDE DEF rows
  <2>1. CASE Cardinality(ahead) > n
    <3>1. PICK last \in Last(page) : cursor = CursorAt(a, c, last)
      BY <1>5, <2>1 DEF NextCursor
    <3> QED
      BY <1>6, <2>1, <3>1 DEF Last
  <2>2. CASE ~(Cardinality(ahead) > n)
    BY <1>5, <1>6, <2>2 DEF NextCursor
  <2> QED
    BY <2>1, <2>2
<1> HIDE DEF t, rows, u
<1>11. \A last \in page : CursorAt(a, c, last) \in Cursor /\ CursorAt(a, c, last) # None
  BY <1>9, HistoryAssumption DEF HistoryAssumption, CursorAt, Cursor, Entry
<1>12. t.cursor # None =>
         /\ t.cursor \in Cursor /\ t.account = a /\ t.counterparty = c
         /\ \A e \in t.page \cup t.shown : ~Older(e, t.cursor)
  BY <1>1 DEF OneQuery, Accepts, Traversal
<1>13. u.page \cup u.shown \cup u.due \subseteq Matching(a, c)
  BY <1>1, <1>2, <1>6, <1>7, <1>12 DEF OneQuery
<1>14. u.page \cup u.shown \cup u.due \subseteq entries
  BY <1>13 DEF Matching
<1>15. \A e \in page, f \in u.shown : Newer(f, e)
  <2> SUFFICES ASSUME NEW e \in page, NEW f \in u.shown PROVE Newer(f, e)
    OBVIOUS
  <2>1. /\ t.cursor # None /\ t.cursor \in Cursor
        /\ ~Older(f, t.cursor) /\ Older(e, t.cursor)
    BY <1>6, <1>7, <1>12 DEF Rows, rows
  <2>2. e \in Entry /\ f \in Entry
    BY <1>1, <1>9, <1>14
  <2>3. t.cursor.created_at \in Nat /\ t.cursor.entry_id \in Nat
    <3>1. t.cursor.created_at \in 1 .. MaxTime /\ t.cursor.entry_id \in EntryId
      BY <2>1 DEF Cursor
    <3>2. EntryId \subseteq Nat /\ 1 .. MaxTime \subseteq Nat
      BY HistoryAssumption DEF HistoryAssumption
    <3> QED
      BY <3>1, <3>2
  <2> QED
    BY <2>1, <2>2, <2>3, Order DEF Older, Newer
<1>16. OneQuery(u)
  <2>1. ASSUME NEW last \in page, cursor = CursorAt(a, c, last),
               \A f \in page \ {last} : Newer(f, last)
        PROVE  \A e \in u.page \cup u.shown : ~Older(e, cursor)
    <3> SUFFICES ASSUME NEW e \in u.page \cup u.shown PROVE ~Older(e, cursor)
      OBVIOUS
    <3>1. last \in Entry /\ e \in Entry
      BY <1>1, <1>9, <1>14
    <3>2. e = last \/ Newer(e, last)
      BY <1>7, <1>15, <2>1
    <3> QED
      BY <2>1, <3>1, <3>2, CursorStandsForRow
  <2>2. cursor # None => cursor.account = a /\ cursor.counterparty = c
    BY <1>10 DEF CursorAt
  <2> QED
    BY <1>7, <1>10, <1>13, <2>1, <2>2 DEF OneQuery
<1>17. \A e \in u.due :
         e \in u.page \cup u.shown \/ (u.cursor # None /\ Older(e, u.cursor))
  <2> SUFFICES ASSUME NEW e \in u.due, e \notin u.page \cup u.shown
               PROVE  u.cursor # None /\ Older(e, u.cursor)
    OBVIOUS
  <2>1. e \in Matching(a, c) /\ e \in Entry
    BY <1>1, <1>13, <1>14
  <2>2. e \in rows
    <3>1. CASE t.cursor = None
      BY <2>1, <3>1 DEF rows, Rows
    <3>2. CASE t.cursor # None
      <4>1. e \in t.due /\ e \notin t.page \cup t.shown
        BY <1>7, <3>2
      <4>2. Older(e, t.cursor)
        BY <4>1 DEF Paged, NothingSkipped, t
      <4> QED
        BY <2>1, <4>2 DEF rows, Rows
    <3> QED
      BY <3>1, <3>2
  <2>3. e \in rows \ page
    BY <1>7, <2>2
  <2>4. PICK last \in page : cursor = CursorAt(a, c, last)
    BY <1>10, <2>3
  <2>5. Newer(last, e) /\ last \in Entry
    BY <1>6, <1>9, <2>3
  <2> QED
    BY <1>7, <1>11, <2>1, <2>4, <2>5, CursorStandsForRow
<1>18. u.cursor # None => Rows(a, c, u.cursor) # {}
  <2> SUFFICES ASSUME u.cursor # None PROVE Rows(a, c, u.cursor) # {}
    OBVIOUS
  <2>1. PICK last \in page, e \in ahead \ page : u.cursor = CursorAt(a, c, last)
    BY <1>7, <1>10
  <2>2. e \in rows \ page /\ Newer(last, e)
    BY <1>6, <2>1
  <2>3. e \in Matching(a, c) /\ e \in Entry /\ last \in Entry
    BY <1>1, <1>2, <1>9, <2>1, <2>2
  <2> QED
    BY <2>1, <2>2, <2>3, CursorStandsForRow DEF Rows
<1>19. ASSUME NEW x, NEW y, NEW k
       PROVE  Matching(x, y)' = Matching(x, y) /\ Rows(x, y, k)' = Rows(x, y, k)
  BY <1>1 DEF Matching, Rows
<1>20. TypeOK'
  <2>1. u.cursor \in Cursor \cup {None}
    BY <1>7, <1>10, <1>11
  <2>2. u \in Traversal
    BY <1>1, <1>14, <2>1 DEF Traversal, u, Continued
  <2>3. Traversal' = Traversal
    BY <1>1 DEF Traversal, Cursor
  <2> QED
    BY <1>1, <1>5, <2>2, <2>3 DEF Paged, IInv, TypeOK, u
<1>21. \A q \in Reader : OneQuery(traversal[q])'
  <2>1. \A q \in Reader \ {r} : OneQuery(traversal[q])
    BY DEF Paged, IInv
  <2> QED
    BY <1>8, <1>16, <1>19, <2>1 DEF OneQuery
<1>22. PagesDescend'
  BY <1>7, <1>8, <1>15 DEF Paged, PagesDescend
<1>23. NothingSkipped'
  BY <1>8, <1>17 DEF Paged, NothingSkipped
<1>24. NextPageHasRows'
  BY <1>7, <1>8, <1>18, <1>19 DEF Paged, NextPageHasRows
<1> QED
  BY <1>20, <1>21, <1>22, <1>23, <1>24 DEF Paged, IInv

\* More rows disturb nobody: rows are added and never changed.
LEMMA MoreRowsKeepPaged ==
  ASSUME Paged, UNCHANGED traversal, entries \subseteq entries', TypeOK'
  PROVE  Paged'
<1>1. ASSUME NEW a, NEW c, NEW k
      PROVE  Matching(a, c) \subseteq Matching(a, c)' /\ Rows(a, c, k) \subseteq Rows(a, c, k)'
  BY DEF Matching, Rows
<1>2. \A r \in Reader : OneQuery(traversal[r])'
  <2>1. \A r \in Reader : OneQuery(traversal[r])
    BY DEF Paged, IInv
  <2> QED
    BY <1>1, <2>1 DEF OneQuery
<1>3. PagesDescend' /\ NothingSkipped'
  BY DEF Paged, PagesDescend, NothingSkipped
<1>4. NextPageHasRows'
  <2>1. NextPageHasRows
    BY DEF Paged
  <2> QED
    BY <1>1, <2>1 DEF NextPageHasRows
<1> QED
  BY <1>2, <1>3, <1>4 DEF Paged, IInv

\* What writers and the clock do keeps the types.
LEMMA WritersKeepTypes ==
  ASSUME TypeOK,
         \/ \E w \in Writer : Begin(w)
         \/ \E w \in Writer, a, b \in Account, i \in EntryId : Commit(w, a, b, i)
         \/ Tick
  PROVE  TypeOK' /\ entries \subseteq entries' /\ UNCHANGED traversal
<1>1. ASSUME entries \subseteq entries', entries' \subseteq Entry, IsFiniteSet(entries'),
             UNCHANGED traversal, now' \in 1 .. MaxTime,
             began' \in [Writer -> 1 .. MaxTime \cup {None}]
      PROVE  TypeOK'
  <2>1. Traversal \subseteq Traversal'
    BY <1>1 DEF Traversal, Cursor
  <2> QED
    BY <1>1, <2>1 DEF TypeOK
<1>2. CASE \E w \in Writer : Begin(w)
  BY <1>1, <1>2 DEF Begin, TypeOK
<1>3. ASSUME NEW w \in Writer, NEW a \in Account, NEW b \in Account, NEW i \in EntryId,
             Commit(w, a, b, i)
      PROVE  TypeOK' /\ entries \subseteq entries' /\ UNCHANGED traversal
  <2> DEFINE debit == [id |-> i, account |-> a, counterparty |-> b, created_at |-> began[w]]
             credit == [id |-> i, account |-> b, counterparty |-> a, created_at |-> began[w]]
  <2>1. entries' = (entries \cup {debit}) \cup {credit}
    BY <1>3 DEF Commit
  <2>2. debit \in Entry /\ credit \in Entry
    BY <1>3 DEF Commit, TypeOK, Entry
  <2>3. IsFiniteSet(entries')
    <3>1. IsFiniteSet(entries \cup {debit})
      BY FS_AddElement DEF TypeOK
    <3> QED
      BY <2>1, <3>1, FS_AddElement
  <2> HIDE DEF debit, credit
  <2>4. began' \in [Writer -> 1 .. MaxTime \cup {None}] /\ UNCHANGED <<now, traversal>>
    BY <1>3 DEF Commit, TypeOK
  <2> QED
    BY <1>1, <2>1, <2>2, <2>3, <2>4 DEF TypeOK
<1>4. CASE Tick
  BY <1>1, <1>4, HistoryAssumption DEF HistoryAssumption, Tick, TypeOK
<1> QED
  BY <1>2, <1>3, <1>4

\* Whatever interleaves, every page continues the ones before it.
THEOREM PagingIsRight == Spec => []Paged
<1>1. Init => Paged
  BY PagedInitially
<1>2. Paged /\ [Next]_vars => Paged'
  <2> SUFFICES ASSUME Paged, [Next]_vars PROVE Paged'
    OBVIOUS
  <2>1. ASSUME NEW r \in Reader, Get(r) PROVE Paged'
    BY <2>1, GetKeepsPaged DEF Get
  <2>2. CASE \/ \E w \in Writer : Begin(w)
             \/ \E w \in Writer, a, b \in Account, i \in EntryId : Commit(w, a, b, i)
             \/ Tick
    BY <2>2, WritersKeepTypes, MoreRowsKeepPaged DEF Paged, IInv
  <2>3. CASE UNCHANGED vars
    <3>1. TypeOK' /\ entries \subseteq entries' /\ UNCHANGED traversal
      BY <2>3 DEF vars, Paged, IInv, TypeOK, Traversal, Cursor
    <3> QED
      BY <3>1, MoreRowsKeepPaged
  <2> QED
    BY <2>1, <2>2, <2>3 DEF Next
<1> QED
  BY <1>1, <1>2, PTL DEF Spec

\* A client is in one traversal of one query.
THEOREM InductiveInvariant == Spec => []IInv
<1>1. Paged => IInv
  BY DEF Paged
<1> QED
  BY <1>1, PagingIsRight, PTL

\* Nothing is shown twice.
THEOREM EachRowOnce == Spec => []PagesDescend
<1>1. Paged => PagesDescend
  BY DEF Paged
<1> QED
  BY <1>1, PagingIsRight, PTL

\* Nothing that was there is left out.
THEOREM EveryRowShown == Spec => []NothingSkipped
<1>1. Paged => NothingSkipped
  BY DEF Paged
<1> QED
  BY <1>1, PagingIsRight, PTL

\* A cursor leads to rows.
THEOREM CursorsLeadOn == Spec => []NextPageHasRows
<1>1. Paged => NextPageHasRows
  BY DEF Paged
<1> QED
  BY <1>1, PagingIsRight, PTL
================================================================================
