--------------------------- MODULE RulesPageProofs ---------------------------
(* Proofs about RulesPage, for every set of filters, every page size and     *)
(* every bound.                                                              *)
EXTENDS RulesPage, TLAPS

LEMMA PagesType ==
  ASSUME NEW total \in Nat
  PROVE  Pages(total) \in Nat
<1> DEFINE d == total + PerPage - 1
<1>1. d \in Nat /\ PerPage \in Nat /\ PerPage > 0
  BY PageAssumption
<1>2. d \div PerPage \in Nat
  BY <1>1
<1> QED
  BY <1>2 DEF Pages

LEMMA OnPageType ==
  ASSUME NEW n \in Nat, NEW p \in Nat \ {0}
  PROVE  OnPage(n, p) \in 0..PerPage
<1>1. (p - 1) * PerPage \in Int /\ PerPage \in Nat
  BY PageAssumption
<1> DEFINE before == (p - 1) * PerPage
<1> HIDE DEF before
<1>2. before \in Int
  BY <1>1 DEF before
<1>3. (IF n <= before THEN 0 ELSE IF n <= before + PerPage THEN n - before ELSE PerPage)
        \in 0..PerPage
  BY <1>1, <1>2
<1> QED
  BY <1>3 DEF OnPage, before

-----------------------------------------------------------------------------
\* What a request and the table say about the controls: those of the latest
\* request were asked for with the controls as they are now.
Asked ==
  filters \in Sendable =>
    /\ \A q \in inflight : q.id = sent => q.filter = filters /\ q.page = currentPage
    /\ table.id = sent => table.filter = filters /\ table.page = currentPage

\* No setting finds more rules than the one without filters.
Counted == \A f \in Sendable : rows[f] <= rows[AllRules]

\* The inductive invariant.  Asked needs the types, because a new request must
\* have a number that no older one has, and the bound on the rows of a setting
\* needs Counted, because only the total is compared with MaxRows.
PageInv == TypeOK /\ Counted /\ Asked

LEMMA PageInit == Init => PageInv
<1> SUFFICES ASSUME Init PROVE PageInv
  OBVIOUS
<1>1. TypeOK
  <2>1. rows \in [Sendable -> 0..MaxRows]
    BY DEF Init
  <2>2. left \in 0..MaxLeft
    BY PageAssumption DEF Init
  <2>3. AllRules \in Sendable /\ AllRules \in Filters
    BY PageAssumption DEF Sendable
  <2>4. inflight \subseteq [id : 1..sent, filter : Sendable,
                            page : Nat \ {0}, counted : BOOLEAN, total : Nat]
    BY <2>3 DEF Init
  <2>5. table \in [id : 0..sent, filter : Sendable, page : Nat \ {0},
                   count : 0..PerPage, total : Nat]
    BY <2>3, PageAssumption DEF Init
  <2>6. filters \in Filters /\ posting \in 0..MaxPosts /\ sent \in 1..MaxRequests
    BY <2>3, PageAssumption DEF Init
  <2>7. currentPage \in Nat \ {0} /\ totalPages \in Nat
    BY DEF Init
  <2>8. loading \in BOOLEAN /\ showCreateForm \in BOOLEAN /\ blind \in BOOLEAN
    BY Zenon DEF Init
  <2>9. draft \in Drafts
    BY DEF Init, Drafts
  <2> QED
    BY <2>1, <2>2, <2>4, <2>5, <2>6, <2>7, <2>8, <2>9 DEF TypeOK
<1>2. Asked
  BY <1>1 DEF Init, Asked
<1>3. Counted
  BY DEF Init, Counted
<1> QED
  BY <1>1, <1>2, <1>3 DEF PageInv

\* Whoever loads the list for the controls as they become keeps the invariant.
LEMMA LoadKeeps ==
  ASSUME PageInv, Load(filters', currentPage'),
         filters' \in Filters, currentPage' \in Nat \ {0},
         UNCHANGED <<totalPages, table>>,
         showCreateForm' \in BOOLEAN, blind' \in BOOLEAN,
         draft' \in Drafts, posting' \in 0..MaxPosts,
         left' \in 0..MaxLeft, rows' \in [Sendable -> 0..MaxRows], Counted'
  PROVE  PageInv'
<1>1. CASE filters' \in ByName /\ UNCHANGED <<inflight, sent>>
  <2>0. filters' \notin Sendable
    BY <1>1 DEF Sendable
  <2>1. TypeOK'
    BY <1>1 DEF PageInv, TypeOK, Load
  <2> QED
    BY <1>1, <2>0, <2>1 DEF PageInv, Asked
<1>2. CASE filters' \in Sendable
  <2> DEFINE new == [id |-> sent + 1, filter |-> filters', page |-> currentPage',
                     counted |-> FALSE, total |-> 0]
  <2>1. /\ sent' = sent + 1 /\ sent < MaxRequests
        /\ inflight' = inflight \cup {new}
        /\ loading' = TRUE
    BY <1>2 DEF Load, Sendable
  <2>2. /\ sent \in 1..MaxRequests /\ sent' \in 1..MaxRequests
        /\ new \in [id : 1..sent', filter : Sendable, page : Nat \ {0}, counted : BOOLEAN, total : Nat]
    BY <1>2, <2>1, PageAssumption DEF PageInv, TypeOK
  <2>3. \A q \in inflight :
          /\ q \in [id : 1..sent', filter : Sendable, page : Nat \ {0}, counted : BOOLEAN, total : Nat]
          /\ q.id # sent'
    BY <2>1, <2>2 DEF PageInv, TypeOK
  <2>4. /\ table' \in [id : 0..sent', filter : Sendable, page : Nat \ {0},
                       count : 0..PerPage, total : Nat]
        /\ table'.id # sent'
    BY <2>1, <2>2 DEF PageInv, TypeOK
  <2>5. TypeOK'
    BY <2>1, <2>2, <2>3, <2>4 DEF PageInv, TypeOK
  <2>6. Asked'
    BY <2>1, <2>3, <2>4 DEF Asked
  <2> QED
    BY <2>5, <2>6 DEF PageInv
<1> QED
  BY <1>1, <1>2 DEF Load

LEMMA StoredType ==
  ASSUME TypeOK, Counted, NEW fs, Stored(fs)
  PROVE  rows' \in [Sendable -> 0..MaxRows] /\ Counted'
<1>1. /\ AllRules \in Sendable /\ MaxRows \in Nat
      /\ \A g \in Sendable : rows[g] \in Nat /\ rows[g] <= rows[AllRules]
      /\ rows[AllRules] < MaxRows
  BY PageAssumption DEF Stored, TypeOK, Counted, Sendable
<1>2. rows' = [g \in Sendable |->
                 IF g \in fs \cup {AllRules} THEN rows[g] + 1 ELSE rows[g]]
  BY DEF Stored
<1>3. \A g \in Sendable : rows'[g] \in 0..MaxRows /\ rows'[g] <= rows'[AllRules]
  BY <1>1, <1>2
<1> QED
  BY <1>2, <1>3 DEF Counted

LEMMA EditType ==
  ASSUME TypeOK, OthersEdit
  PROVE  rows' \in [Sendable -> 0..MaxRows] /\ Counted' /\ left' \in 0..MaxLeft
<1>1. PICK moved \in [Sendable \ {AllRules} -> {-1, 0, 1}] :
        /\ rows' = [f \in Sendable |->
                      IF f = AllRules THEN rows[f] ELSE rows[f] + moved[f]]
        /\ rows' \in [Sendable -> 0..rows[AllRules]]
        /\ left' = IF filters \in Sendable \ {AllRules} /\ moved[filters] = -1
                   THEN left + 1 ELSE left
        /\ left' <= MaxLeft
  BY DEF OthersEdit
<1>2. /\ AllRules \in Sendable /\ rows[AllRules] \in 0..MaxRows
      /\ MaxRows \in Nat /\ left \in Nat
  BY PageAssumption DEF TypeOK, Sendable
<1>3. rows'[AllRules] = rows[AllRules]
  BY <1>1, <1>2
<1>4. \A g \in Sendable : rows'[g] \in 0..MaxRows /\ rows'[g] <= rows'[AllRules]
  BY <1>1, <1>2, <1>3
<1>5. left' \in 0..MaxLeft
  BY <1>1, <1>2, PageAssumption
<1> QED
  BY <1>1, <1>4, <1>5 DEF Counted

LEMMA PageNext == PageInv /\ [Next]_pageVars => PageInv'
<1> SUFFICES ASSUME PageInv, [Next]_pageVars PROVE PageInv'
  OBVIOUS
<1>0. TypeOK
  BY DEF PageInv
<1>1. ASSUME NEW f \in Filters, onFilter(f) PROVE PageInv'
  <2>1. Load(filters', currentPage') /\ filters' \in Filters /\ currentPage' \in Nat \ {0}
    BY <1>1 DEF onFilter
  <2>2. left' \in 0..MaxLeft
    BY <1>1, PageAssumption DEF onFilter
  <2>3. blind' \in BOOLEAN
    BY <1>1, Zenon DEF onFilter
  <2>4. Counted' /\ rows' \in [Sendable -> 0..MaxRows]
    BY <1>0, <1>1 DEF onFilter, TypeOK, PageInv, Counted
  <2> QED
    BY <1>0, <1>1, <2>1, <2>2, <2>3, <2>4, LoadKeeps DEF onFilter, TypeOK
<1>2. ASSUME NEW p \in Nat \ {0}, Turn(p) PROVE PageInv'
  <2>1. Load(filters', currentPage') /\ filters' \in Filters /\ currentPage' \in Nat \ {0}
    BY <1>0, <1>2 DEF Turn, TypeOK
  <2>2. blind' \in BOOLEAN
    BY <1>0, <1>2 DEF Turn, TypeOK
  <2> QED
    BY <1>0, <1>2, <2>1, <2>2, LoadKeeps DEF Turn, TypeOK, PageInv, Counted
<1>3. CASE prevPage
  <2>1. currentPage - 1 \in Nat \ {0}
    BY <1>0, <1>3 DEF prevPage, MayPrev, TypeOK
  <2> QED
    BY <1>2, <1>3, <2>1 DEF prevPage
<1>4. CASE nextPage
  <2>1. currentPage + 1 \in Nat \ {0}
    BY <1>0 DEF TypeOK
  <2> QED
    BY <1>2, <1>4, <2>1 DEF nextPage
<1>5. ASSUME NEW fs, Created(fs) PROVE PageInv'
  <2>1. Load(filters', currentPage') /\ filters' \in Filters /\ currentPage' \in Nat \ {0}
    BY <1>0, <1>5 DEF Created, TypeOK
  <2>2. rows' \in [Sendable -> 0..MaxRows] /\ Counted'
    BY <1>0, <1>5, StoredType DEF Created, PageInv
  <2>3. posting' \in 0..MaxPosts
    BY <1>0, <1>5, PageAssumption DEF Created, TypeOK
  <2>4. draft' \in Drafts
    BY <1>5 DEF Created, Drafts
  <2> QED
    BY <1>0, <1>5, <2>1, <2>2, <2>3, <2>4, LoadKeeps DEF Created, TypeOK
<1>6. ASSUME NEW fs, OthersCreate(fs) PROVE PageInv'
  <2>1. rows' \in [Sendable -> 0..MaxRows] /\ Counted'
    BY <1>0, <1>6, StoredType DEF OthersCreate, PageInv
  <2> QED
    BY <1>6, <2>1 DEF OthersCreate, PageInv, TypeOK, Counted, Asked
<1>7. CASE ToggleForm
  <2>1. showCreateForm' \in BOOLEAN
    BY <1>0, <1>7 DEF ToggleForm, TypeOK
  <2> QED
    BY <1>7, <2>1 DEF ToggleForm, PageInv, TypeOK, Counted, Asked
<1>8. CASE FillIn \/ onSubmit \/ NotCreated
  <2>1. posting' \in 0..MaxPosts /\ draft' \in Drafts
    BY <1>0, <1>8, PageAssumption DEF FillIn, onSubmit, NotCreated, TypeOK, Drafts
  <2>2. UNCHANGED <<filters, currentPage, totalPages, loading, showCreateForm,
                    table, inflight, sent, rows, blind, left>>
    BY <1>8 DEF FillIn, onSubmit, NotCreated
  <2> QED
    BY <2>1, <2>2 DEF PageInv, TypeOK, Counted, Asked
<1>9. ASSUME NEW q \in inflight, Answer(q) PROVE PageInv'
  <2>1. /\ table' = [id |-> q.id, filter |-> q.filter, page |-> q.page,
                     count |-> OnPage(rows[q.filter], q.page), total |-> q.total]
        /\ totalPages' = Pages(q.total)
    BY <1>9 DEF Answer
  <2>2. /\ q.id \in 1..sent /\ q.filter \in Sendable /\ q.page \in Nat \ {0}
        /\ q.total \in Nat /\ rows[q.filter] \in Nat /\ sent \in Nat
    BY <1>0 DEF TypeOK
  <2>3. totalPages' \in Nat /\ OnPage(rows[q.filter], q.page) \in 0..PerPage
    BY <2>1, <2>2, PagesType, OnPageType
  <2>4. table' \in [id : 0..sent, filter : Sendable, page : Nat \ {0},
                    count : 0..PerPage, total : Nat]
    BY <2>1, <2>2, <2>3
  <2>5. TypeOK'
    BY <1>0, <1>9, <2>3, <2>4 DEF Answer, TypeOK
  <2>6. Asked'
    BY <1>9, <2>1 DEF Answer, PageInv, Asked
  <2>7. Counted'
    BY <1>9 DEF Answer, PageInv, Counted
  <2> QED
    BY <2>5, <2>6, <2>7 DEF PageInv
<1>10. ASSUME NEW q \in inflight, Fail(q) PROVE PageInv'
  BY <1>10 DEF Fail, PageInv, TypeOK, Counted, Asked
<1>11. ASSUME NEW q \in inflight, Count(q) PROVE PageInv'
  <2> DEFINE counted == [q EXCEPT !.counted = TRUE, !.total = rows[q.filter]]
  <2>1. inflight' = (inflight \ {q}) \cup {counted}
    BY <1>11 DEF Count
  <2>2. /\ q \in [id : 1..sent, filter : Sendable, page : Nat \ {0},
                  counted : BOOLEAN, total : Nat]
        /\ rows[q.filter] \in Nat
    BY <1>0 DEF TypeOK
  <2>3. /\ counted \in [id : 1..sent, filter : Sendable, page : Nat \ {0},
                        counted : BOOLEAN, total : Nat]
        /\ counted.id = q.id /\ counted.filter = q.filter /\ counted.page = q.page
    BY <2>2
  <2> HIDE DEF counted
  <2>4. TypeOK'
    BY <1>0, <1>11, <2>1, <2>3 DEF Count, TypeOK
  <2>5. Asked'
    BY <1>11, <2>1, <2>3 DEF Count, PageInv, Asked
  <2> QED
    BY <1>11, <2>4, <2>5 DEF Count, PageInv, Counted
<1>12. CASE OthersEdit
  <2>1. UNCHANGED <<filters, currentPage, totalPages, loading, showCreateForm,
                    table, inflight, draft, posting, sent, blind>>
    BY <1>12 DEF OthersEdit
  <2> QED
    BY <1>0, <1>12, <2>1, EditType DEF PageInv, TypeOK, Asked
<1>13. CASE UNCHANGED pageVars
  BY <1>13 DEF pageVars, PageInv, TypeOK, Counted, Asked
<1> QED
  BY <1>1, <1>3, <1>4, <1>5, <1>6, <1>7, <1>8, <1>9, <1>10,
   <1>11, <1>12, <1>13 DEF Next, NetworkAnswers

LEMMA PageInvariant == Spec => []PageInv
BY PageInit, PageNext, PTL DEF Spec

\* The page's variables keep their types.
THEOREM PageTypeCorrect == Spec => []TypeOK
<1>1. PageInv => TypeOK
  BY DEF PageInv
<1> QED
  BY <1>1, PageInvariant, PTL

\* A rule whose creation the page was told of is not in the form any more, so
\* that only a press before the answer, or after an error, submits it again.
THEOREM FormForgets == Spec => []CreatedRuleLeavesForm
<1>1. Init => CreatedRuleLeavesForm
  BY DEF Init, CreatedRuleLeavesForm
<1>2. PageInv /\ CreatedRuleLeavesForm /\ [Next]_pageVars => CreatedRuleLeavesForm'
  <2> SUFFICES ASSUME PageInv, CreatedRuleLeavesForm, [Next]_pageVars
               PROVE  CreatedRuleLeavesForm'
    OBVIOUS
  <2>1. posting \in Nat
    BY PageAssumption DEF PageInv, TypeOK
  <2>2. CASE onSubmit
    BY <2>1, <2>2 DEF onSubmit, CreatedRuleLeavesForm
  <2>3. CASE NotCreated
    BY <2>1, <2>3 DEF NotCreated, CreatedRuleLeavesForm
  <2>4. CASE FillIn \/ \E fs \in SUBSET (Sendable \ {AllRules}) : Created(fs)
    BY <2>4 DEF FillIn, Created, CreatedRuleLeavesForm
  <2>5. CASE UNCHANGED <<draft, posting>>
    BY <2>5 DEF CreatedRuleLeavesForm
  <2> QED
    BY <2>2, <2>3, <2>4, <2>5 DEF Next, NetworkAnswers, onFilter, OthersCreate, OthersEdit,
       prevPage, nextPage, Turn, ToggleForm, Count, Answer, Fail, pageVars
<1> QED
  BY <1>1, <1>2, PageInvariant, PTL DEF Spec

\* When the table shows the answer to the latest request, it shows the setting
\* and the page of the controls, in whatever order the answers came.
THEOREM TableIsCurrent == Spec => []TableMatchesControls
<1>1. PageInv => TableMatchesControls
  BY DEF PageInv, Asked, TableMatchesControls, Current
<1> QED
  BY <1>1, PageInvariant, PTL

-----------------------------------------------------------------------------
\* The pager

\* The number of pages is the quotient rounded up.
LEMMA PagesBounds ==
  ASSUME NEW total \in Nat, NEW p \in Nat
  PROVE  /\ p < Pages(total) => p * PerPage < total
         /\ p * PerPage < total => p < Pages(total)
<1> DEFINE n == total + PerPage - 1
           d == n \div PerPage
<1>1. PerPage \in Nat \ {0} /\ n \in Nat
  BY PageAssumption
<1>2. n = PerPage * d + (n % PerPage) /\ n % PerPage \in 0..(PerPage - 1) /\ d \in Nat
  BY <1>1
<1> HIDE DEF d
<1>3. d * PerPage <= n /\ n < d * PerPage + PerPage
  BY <1>1, <1>2
<1>4. ASSUME p < d PROVE p * PerPage < total
  <2>1. (p + 1) * PerPage <= d * PerPage
    BY <1>1, <1>2, <1>4
  <2> QED
    BY <1>1, <1>2, <1>3, <2>1
<1>5. ASSUME p * PerPage < total, ~(p < d) PROVE FALSE
  <2>1. d * PerPage <= p * PerPage
    BY <1>1, <1>2, <1>5
  <2> QED
    BY <1>1, <1>2, <1>3, <1>5, <2>1
<1> QED
  BY <1>4, <1>5 DEF Pages, d

\* Page p of n rows is the first one, or has a row.
Reaches(p, n) == p = 1 \/ (p - 1) * PerPage < n

LEMMA EmptyPage ==
  ASSUME NEW n \in Nat, NEW p \in Nat \ {0}, Reaches(p, n), OnPage(n, p) = 0
  PROVE  n = 0
<1> DEFINE before == (p - 1) * PerPage
<1>1. PerPage \in Nat \ {0} /\ before \in Int
  BY PageAssumption
<1>2. p = 1 => before = 0
  BY PageAssumption
<1>3. p = 1 \/ before < n
  BY DEF Reaches
<1>4. (IF n <= before THEN 0 ELSE IF n <= before + PerPage THEN n - before ELSE PerPage) = 0
  BY DEF OnPage
<1> HIDE DEF before
<1> QED
  BY <1>1, <1>2, <1>3, <1>4

\* The second part of the invariant: the pager belongs to the table, and while
\* no page was turned blindly, the list would reach the page of the controls if
\* it had the rows that left, as it is and as it was counted.  What the count
\* has too many of, has left since; and a page that came back empty is the
\* first page of a list whose rows have all left, or others have left.
Paged ==
  /\ table.id # 0 => totalPages = Pages(table.total)
  /\ ~blind /\ filters \in Sendable =>
       /\ Reaches(currentPage, rows[filters] + left)
       /\ \A q \in inflight : q.id = sent /\ q.counted =>
            /\ Reaches(currentPage, q.total + left)
            /\ q.total <= rows[filters] + left
       /\ table.id = sent =>
            /\ Reaches(currentPage, table.total + left)
            /\ table.total <= rows[filters] + left
            /\ table.count = 0 /\ (left = 0 \/ currentPage = 1) => table.total <= left

LEMMA ReachesMore ==
  ASSUME NEW p \in Nat \ {0}, NEW m \in Nat, NEW n \in Nat, m <= n, Reaches(p, m)
  PROVE  Reaches(p, n)
<1>1. (p - 1) * PerPage \in Int
  BY PageAssumption
<1> QED
  BY <1>1 DEF Reaches

LEMMA PagedInit == Init => Paged
<1> SUFFICES ASSUME Init PROVE Paged
  OBVIOUS
<1> QED
  BY DEF Init, Paged, Reaches

\* A step that leaves the table and loads a page the list reaches, with the
\* rows that left.
LEMMA LoadPaged ==
  ASSUME PageInv, Paged, Load(filters', currentPage'), UNCHANGED <<totalPages, table>>,
         ~blind' /\ filters' \in Sendable => Reaches(currentPage', rows'[filters'] + left')
  PROVE  Paged'
<1>1. /\ table.id \in 0..sent /\ sent \in Nat
      /\ \A q \in inflight : q.id \in 1..sent
  BY PageAssumption DEF PageInv, TypeOK
<1>2. CASE filters' \in ByName
  <2>1. filters' \notin Sendable
    BY <1>2 DEF Sendable
  <2> QED
    BY <2>1 DEF Paged
<1>3. CASE filters' \in Sendable
  <2> DEFINE new == [id |-> sent + 1, filter |-> filters', page |-> currentPage',
                     counted |-> FALSE, total |-> 0]
  <2>1. sent' = sent + 1 /\ inflight' = inflight \cup {new}
    BY <1>3 DEF Load, Sendable
  <2>2. table'.id # sent' /\ \A q \in inflight : q.id # sent'
    BY <1>1, <2>1
  <2>3. \A q \in inflight' : ~(q.id = sent' /\ q.counted)
    BY <2>1, <2>2
  <2> QED
    BY <1>3, <2>2, <2>3 DEF Paged
<1> QED
  BY <1>2, <1>3 DEF Load

\* A step that leaves controls, requests and table, and counts the rows that
\* leave the setting.
LEMMA StayPaged ==
  ASSUME PageInv, Paged, NEW n \in Nat,
         UNCHANGED <<filters, currentPage, totalPages, table, inflight, sent, blind>>,
         left' = n, left <= n,
         filters \in Sendable => /\ rows'[filters] \in Nat
                                 /\ rows[filters] + left <= rows'[filters] + n
  PROVE  Paged'
<1>1. /\ table.total \in Nat /\ currentPage \in Nat \ {0} /\ left \in Nat
      /\ filters \in Sendable => rows[filters] \in Nat
      /\ \A q \in inflight : q.total \in Nat
  BY PageAssumption DEF PageInv, TypeOK
<1>2. SUFFICES ASSUME ~blind, filters \in Sendable
               PROVE  /\ Reaches(currentPage, rows'[filters] + n)
                      /\ \A q \in inflight : q.id = sent /\ q.counted =>
                           /\ Reaches(currentPage, q.total + n)
                           /\ q.total <= rows'[filters] + n
                      /\ table.id = sent =>
                           /\ Reaches(currentPage, table.total + n)
                           /\ table.total <= rows'[filters] + n
                           /\ table.count = 0 /\ (n = 0 \/ currentPage = 1)
                                => table.total <= n
  BY <1>1 DEF Paged
<1>3. Reaches(currentPage, rows'[filters] + n)
  <2>1. rows[filters] + left \in Nat /\ rows'[filters] + n \in Nat
    BY <1>1, <1>2
  <2> QED
    BY <1>1, <1>2, <2>1, ReachesMore DEF Paged
<1>4. ASSUME NEW q \in inflight, q.id = sent, q.counted
      PROVE  Reaches(currentPage, q.total + n) /\ q.total <= rows'[filters] + n
  <2>1. Reaches(currentPage, q.total + left) /\ q.total <= rows[filters] + left
    BY <1>2, <1>4 DEF Paged
  <2>2. q.total + left \in Nat /\ q.total + n \in Nat /\ q.total + left <= q.total + n
    BY <1>1
  <2>3. Reaches(currentPage, q.total + n)
    BY <1>1, <2>1, <2>2, ReachesMore
  <2> QED
    BY <1>1, <1>2, <2>1, <2>3
<1>5. ASSUME table.id = sent
      PROVE  /\ Reaches(currentPage, table.total + n)
             /\ table.total <= rows'[filters] + n
             /\ table.count = 0 /\ (n = 0 \/ currentPage = 1) => table.total <= n
  <2>1. /\ Reaches(currentPage, table.total + left)
        /\ table.total <= rows[filters] + left
        /\ table.count = 0 /\ (left = 0 \/ currentPage = 1) => table.total <= left
    BY <1>2, <1>5 DEF Paged
  <2>2. /\ table.total + left \in Nat /\ table.total + n \in Nat
        /\ table.total + left <= table.total + n
    BY <1>1
  <2>3. Reaches(currentPage, table.total + n)
    BY <1>1, <2>1, <2>2, ReachesMore
  <2>4. table.total <= rows'[filters] + n
    BY <1>1, <1>2, <2>1
  <2>5. table.count = 0 /\ (n = 0 \/ currentPage = 1) => table.total <= n
    BY <1>1, <2>1
  <2> QED
    BY <2>3, <2>4, <2>5
<1> QED
  BY <1>3, <1>4, <1>5

LEMMA StoredGrows ==
  ASSUME TypeOK, NEW fs, Stored(fs)
  PROVE  \A f \in Sendable : rows'[f] \in Nat /\ rows[f] <= rows'[f]
BY DEF Stored, TypeOK

\* Rows and rows that left, together, do not become fewer by an edit.
LEMMA EditLeaves ==
  ASSUME TypeOK, OthersEdit
  PROVE  /\ left' \in Nat /\ left <= left'
         /\ filters \in Sendable => /\ rows'[filters] \in Nat
                                    /\ rows[filters] + left <= rows'[filters] + left'
<1>1. PICK moved \in [Sendable \ {AllRules} -> {-1, 0, 1}] :
        /\ rows' = [f \in Sendable |->
                      IF f = AllRules THEN rows[f] ELSE rows[f] + moved[f]]
        /\ rows' \in [Sendable -> 0..rows[AllRules]]
        /\ left' = IF filters \in Sendable \ {AllRules} /\ moved[filters] = -1
                   THEN left + 1 ELSE left
  BY DEF OthersEdit
<1>2. /\ left \in Nat /\ rows[AllRules] \in Nat
      /\ filters \in Sendable => rows[filters] \in Nat
  BY PageAssumption DEF TypeOK, Sendable
<1>3. left' \in Nat /\ left <= left'
  BY <1>1, <1>2
<1>4. ASSUME filters \in Sendable
      PROVE  rows'[filters] \in Nat /\ rows[filters] + left <= rows'[filters] + left'
  <2>1. rows'[filters] \in Nat
    BY <1>1, <1>2, <1>4
  <2>2. CASE filters = AllRules
    BY <1>1, <1>2, <1>4, <2>2
  <2>3. CASE filters # AllRules
    <3>1. moved[filters] \in {-1, 0, 1} /\ rows'[filters] = rows[filters] + moved[filters]
      BY <1>1, <1>4, <2>3
    <3> QED
      BY <1>1, <1>2, <1>4, <2>3, <3>1
  <2> QED
    BY <2>1, <2>2, <2>3
<1> QED
  BY <1>3, <1>4

LEMMA PagedNext == PageInv /\ Paged /\ [Next]_pageVars => Paged'
<1> SUFFICES ASSUME PageInv, Paged, [Next]_pageVars PROVE Paged'
  OBVIOUS
<1>0. /\ \A f \in Sendable : rows[f] \in Nat
      /\ filters \in Filters /\ currentPage \in Nat \ {0} /\ left \in Nat
      /\ table.filter \in Sendable /\ table.total \in Nat /\ table.page \in Nat \ {0}
      /\ sent \in Nat \ {0} /\ totalPages \in Nat
  BY PageAssumption DEF PageInv, TypeOK
<1>1. ASSUME NEW f \in Filters, onFilter(f) PROVE Paged'
  <2>1. Load(filters', currentPage') /\ currentPage' = 1
    BY <1>1 DEF onFilter
  <2> QED
    BY <1>1, <2>1, LoadPaged DEF onFilter, Reaches
<1>2. ASSUME NEW p \in Nat \ {0}, Turn(p),
             ~blind /\ filters \in Sendable /\ table.id = sent =>
               Reaches(p, rows[filters] + left)
      PROVE  Paged'
  <2>1. Load(filters', currentPage')
    BY <1>2 DEF Turn
  <2>2. ~blind' => ~blind /\ table.id = sent
    BY <1>2 DEF Turn
  <2>3. UNCHANGED <<filters, totalPages, table, rows, left>> /\ currentPage' = p
    BY <1>2 DEF Turn
  <2> QED
    BY <1>2, <2>1, <2>2, <2>3, LoadPaged
<1>3. CASE prevPage
  <2>1. currentPage - 1 \in Nat \ {0}
    BY <1>0, <1>3 DEF prevPage, MayPrev
  <2>2. ASSUME ~blind, filters \in Sendable
        PROVE  Reaches(currentPage - 1, rows[filters] + left)
    <3>1. Reaches(currentPage, rows[filters] + left)
      BY <2>2 DEF Paged
    <3>2. rows[filters] + left \in Nat
      BY <1>0, <2>2
    <3>3. (currentPage - 1) * PerPage < rows[filters] + left =>
            (currentPage - 2) * PerPage < rows[filters] + left
      BY <1>0, <3>2, PageAssumption
    <3> QED
      BY <1>0, <2>1, <3>1, <3>3 DEF Reaches
  <2> QED
    BY <1>2, <1>3, <2>1, <2>2 DEF prevPage
<1>4. CASE nextPage
  <2>1. currentPage + 1 \in Nat \ {0} /\ currentPage < totalPages
    BY <1>0, <1>4 DEF nextPage, MayNext
  <2>2. ASSUME ~blind, filters \in Sendable, table.id = sent
        PROVE  Reaches(currentPage + 1, rows[filters] + left)
    <3>1. totalPages = Pages(table.total) /\ table.total <= rows[filters] + left
      BY <1>0, <2>2 DEF Paged
    <3>2. currentPage * PerPage < table.total
      BY <1>0, <2>1, <3>1, PagesBounds
    <3>3. currentPage * PerPage \in Int /\ rows[filters] + left \in Nat
      BY <1>0, <2>2, PageAssumption
    <3>4. currentPage * PerPage < rows[filters] + left
      BY <1>0, <3>1, <3>2, <3>3
    <3>5. (currentPage + 1) - 1 = currentPage
      BY <1>0
    <3> QED
      BY <3>4, <3>5 DEF Reaches
  <2> QED
    BY <1>2, <1>4, <2>1, <2>2 DEF nextPage
<1>5. ASSUME NEW fs, Created(fs) PROVE Paged'
  <2>1. /\ Load(filters', currentPage')
        /\ UNCHANGED <<filters, currentPage, totalPages, table, blind, left>>
    BY <1>5 DEF Created
  <2>2. \A f \in Sendable : rows'[f] \in Nat /\ rows[f] <= rows'[f]
    BY <1>5, StoredGrows DEF Created, PageInv
  <2>3. ASSUME ~blind, filters \in Sendable
        PROVE  Reaches(currentPage, rows'[filters] + left)
    <3>1. /\ rows[filters] + left \in Nat /\ rows'[filters] + left \in Nat
          /\ rows[filters] + left <= rows'[filters] + left
      BY <1>0, <2>2, <2>3
    <3>2. Reaches(currentPage, rows[filters] + left)
      BY <2>3 DEF Paged
    <3> QED
      BY <1>0, <3>1, <3>2, ReachesMore
  <2> QED
    BY <2>1, <2>3, LoadPaged
<1>6. ASSUME NEW fs, OthersCreate(fs) PROVE Paged'
  <2>1. \A f \in Sendable : rows'[f] \in Nat /\ rows[f] <= rows'[f]
    BY <1>6, StoredGrows DEF OthersCreate, PageInv
  <2>2. filters \in Sendable => /\ rows'[filters] \in Nat
                                /\ rows[filters] + left <= rows'[filters] + left
    BY <1>0, <2>1
  <2> QED
    BY <1>0, <1>6, <2>2, StayPaged DEF OthersCreate
<1>7. CASE ToggleForm \/ FillIn \/ onSubmit \/ NotCreated \/ UNCHANGED pageVars
  <2>1. UNCHANGED <<filters, currentPage, totalPages, table, inflight, sent, rows, blind, left>>
    BY <1>7 DEF ToggleForm, FillIn, onSubmit, NotCreated, pageVars
  <2> QED
    BY <2>1 DEF Paged
<1>8. ASSUME NEW q \in inflight, Answer(q) PROVE Paged'
  <2>1. /\ q.counted
        /\ table' = [id |-> q.id, filter |-> q.filter, page |-> q.page,
                     count |-> OnPage(rows[q.filter], q.page), total |-> q.total]
        /\ totalPages' = Pages(q.total)
    BY <1>8 DEF Answer
  <2>2. UNCHANGED <<filters, currentPage, sent, rows, blind, left>> /\ inflight' \subseteq inflight
    BY <1>8 DEF Answer
  <2>3. ASSUME ~blind, filters \in Sendable, q.id = sent, OnPage(rows[q.filter], q.page) = 0,
               left = 0 \/ currentPage = 1
        PROVE  q.total <= left
    <3>1. q.filter = filters /\ q.page = currentPage
      BY <2>3 DEF PageInv, Asked
    <3>2. Reaches(currentPage, rows[filters] + left) /\ q.total <= rows[filters] + left
      BY <2>1, <2>3 DEF Paged
    <3>3. Reaches(currentPage, rows[filters])
      BY <1>0, <2>3, <3>2 DEF Reaches
    <3>4. rows[filters] = 0
      BY <1>0, <2>3, <3>1, <3>3, EmptyPage
    <3> QED
      BY <1>0, <3>2, <3>4
  <2>4. ASSUME ~blind, filters \in Sendable, q.id = sent
        PROVE  Reaches(currentPage, q.total + left) /\ q.total <= rows[filters] + left
    BY <2>1, <2>4 DEF Paged
  <2> QED
    BY <2>1, <2>2, <2>3, <2>4 DEF Paged
<1>9. ASSUME NEW q \in inflight, Fail(q) PROVE Paged'
  BY <1>9 DEF Fail, Paged
<1>10. ASSUME NEW q \in inflight, Count(q) PROVE Paged'
  <2> DEFINE counted == [q EXCEPT !.counted = TRUE, !.total = rows[q.filter]]
  <2>1. /\ inflight' = (inflight \ {q}) \cup {counted}
        /\ UNCHANGED <<filters, currentPage, totalPages, table, sent, rows, blind, left>>
    BY <1>10 DEF Count
  <2>2. counted.id = q.id /\ counted.total = rows[q.filter]
    BY DEF PageInv, TypeOK
  <2> HIDE DEF counted
  <2>3. ASSUME ~blind, filters \in Sendable, q.id = sent
        PROVE  /\ Reaches(currentPage, counted.total + left)
               /\ counted.total <= rows[filters] + left
    <3>1. q.filter = filters
      BY <2>3 DEF PageInv, Asked
    <3>2. Reaches(currentPage, rows[filters] + left)
      BY <2>3 DEF Paged
    <3> QED
      BY <1>0, <2>2, <2>3, <3>1, <3>2
  <2> QED
    BY <2>1, <2>2, <2>3 DEF Paged
<1>11. CASE OthersEdit
  BY <1>11, EditLeaves, StayPaged DEF OthersEdit, PageInv
<1> QED
  BY <1>1, <1>3, <1>4, <1>5, <1>6, <1>7, <1>8, <1>9, <1>10, <1>11 DEF Next, NetworkAnswers

LEMMA PagedInvariant == Spec => [](PageInv /\ Paged)
BY PageInit, PageNext, PagedInit, PagedNext, PTL DEF Spec

\* The buttons of a current table lead to the rows after this page and, while
\* no page was turned blindly, to those before it, unless as many rules have
\* left the setting as the list lacks to reach the page; for every page size
\* and however often others create and edit rules.
THEOREM RowsStayReachable == Spec => []RowsAreReachable
<1>1. ASSUME PageInv, Paged, Current PROVE RowsAreReachable
  <2>1. /\ table.id = sent /\ sent # 0 /\ currentPage \in Nat \ {0}
        /\ table.total \in Nat /\ totalPages \in Nat /\ left \in Nat
    BY <1>1, PageAssumption DEF PageInv, TypeOK, Current
  <2>2. totalPages = Pages(table.total)
    BY <1>1, <2>1 DEF Paged
  <2>3. ASSUME table.total > currentPage * PerPage PROVE MayNext
    <3>1. currentPage * PerPage < table.total
      BY <2>1, <2>3, PageAssumption
    <3>2. currentPage < Pages(table.total)
      BY <2>1, <3>1, PagesBounds
    <3> QED
      BY <2>1, <2>2, <3>2 DEF MayNext
  <2>4. ASSUME currentPage > 1, ~blind
        PROVE  \/ MayPrev
               \/ left > 0 /\ table.total + left > (currentPage - 1) * PerPage
    <3>1. Reaches(currentPage, table.total + left)
      BY <1>1, <2>4 DEF Paged, Current
    <3>2. (currentPage - 1) * PerPage < table.total + left /\ currentPage - 1 \in Nat
          /\ (currentPage - 1) * PerPage \in Int
      BY <2>1, <2>4, <3>1, PageAssumption DEF Reaches
    <3>3. CASE left > 0
      BY <2>1, <3>2, <3>3
    <3>4. CASE left = 0
      <4>1. (currentPage - 1) * PerPage < table.total
        BY <2>1, <3>2, <3>4
      <4>2. currentPage - 1 < Pages(table.total)
        BY <2>1, <3>2, <4>1, PagesBounds
      <4> QED
        BY <2>1, <2>2, <2>4, <4>2 DEF MayPrev
    <3> QED
      BY <2>1, <3>3, <3>4
  <2> QED
    BY <2>3, <2>4 DEF RowsAreReachable
<1>2. PageInv /\ Paged => RowsAreReachable
  BY <1>1 DEF RowsAreReachable
<1> QED
  BY <1>2, PagedInvariant, PTL

\* A current page that was not turned to blindly says that no rules were found
\* only if there are none, or rules have left the setting; and on the first page
\* no more are missing than have left.
THEOREM EmptyIsTrue == Spec => []EmptyMeansNone
<1>1. PageInv /\ Paged => EmptyMeansNone
  BY DEF Paged, Current, EmptyMeansNone
<1> QED
  BY <1>1, PagedInvariant, PTL
=============================================================================
