------------------------------ MODULE RulesPage ------------------------------
(***************************************************************************)
(* The page that lists the firewall rules (rules.component.ts).  Every     *)
(* click that needs other rows sends a request and is over; answers arrive *)
(* in any order and each one overwrites the table, whatever it was asked   *)
(* for.  No control is disabled meanwhile.                                 *)
(*                                                                         *)
(* Meanwhile others add rules and edit them, which can take a rule out of  *)
(* a zone or a search and put it into another; no service deletes a rule.  *)
(* Of the server's rules only their numbers are kept, of the form for a    *)
(* new rule only what tells one rule in it from the next.                  *)
(***************************************************************************)
EXTENDS Integers, FiniteSets

CONSTANTS
  Filters,      \* what the bar of filters can be set to
  AllRules,     \* the setting it starts with, which finds every rule
  ByName,       \* the settings that name a status, an action or a category
  PerPage,      \* 50 in the source
  MaxRequests,  \* bound: requests for the list
  MaxPosts,     \* bound: rules submitted with the form and not yet answered
  MaxRows,      \* bound: rules
  MaxLeft       \* bound: rules that leave a setting while it is on the page

ASSUME PageAssumption ==
  /\ AllRules \in Filters
  /\ ByName \subseteq Filters \ {AllRules}
  /\ PerPage \in Nat \ {0}
  /\ MaxRequests \in Nat \ {0} /\ MaxPosts \in Nat
  /\ MaxRows \in Nat /\ MaxLeft \in Nat

VARIABLES
  filters, currentPage, totalPages, loading, showCreateForm,  \* the component's
  table,     \* rules and total, and the request they answer
  inflight,  \* requests for the list without an answer, and what the server
             \* has read for them
  draft,     \* the rule in the form: none that could be submitted, one not yet
             \* submitted (or an error came back since), one submitted
  posting,   \* number of rules submitted without an answer
  sent,      \* number of requests for the list
  rows,      \* the server's number of rules for each setting that can be sent
  blind,     \* whether a page was turned before the table was that of the
             \* latest request, since the filters were last set
  left       \* how many rules have left the setting since then

pageVars == <<filters, currentPage, totalPages, loading, showCreateForm,
              table, inflight, draft, posting, sent, rows, blind, left>>

Drafts == {"none", "fresh", "sent"}
Sendable == Filters \ ByName

-----------------------------------------------------------------------------
\* Requests

\* Mutant of Pages: rounded down.
Pages_Floor(total) == total \div PerPage
\* Math.ceil((data.total || 0) / 50)
Pages(total) == (total + PerPage - 1) \div PerPage

\* Mutant of OnPage: the page runs to the end of the list.
OnPage_Unlimited(n, p) ==
  LET before == (p - 1) * PerPage IN IF n <= before THEN 0 ELSE n - before
\* The rows on page p of a list of n, which getRules asks for.
OnPage(n, p) ==
  LET before == (p - 1) * PerPage
  IN  IF n <= before THEN 0 ELSE IF n <= before + PerPage THEN n - before ELSE PerPage

\* loadRules for the setting f and the page p.  getRules joins the chosen
\* status with commas, but the <select> gives it a string, which has no join:
\* it throws, and nothing is sent.
Load(f, p) ==
  /\ loading' = TRUE
  /\ \/ /\ f \in ByName
        /\ UNCHANGED <<inflight, sent>>
     \/ /\ f \in Sendable
        /\ sent < MaxRequests
        /\ sent' = sent + 1
        /\ inflight' = inflight \cup
             {[id |-> sent + 1, filter |-> f, page |-> p,
               counted |-> FALSE, total |-> 0]}

-----------------------------------------------------------------------------
\* The server

\* A new rule, which the settings fs find, and the one without filters.
Stored(fs) ==
  /\ rows[AllRules] < MaxRows
  /\ rows' = [f \in Sendable |->
                IF f \in fs \cup {AllRules} THEN rows[f] + 1 ELSE rows[f]]

\* list_rules is two statements, each of which sees what is committed by then:
\* this one, and the page, which Answer fetches.
Count(q) ==
  /\ ~q.counted
  /\ inflight' = (inflight \ {q}) \cup
       {[q EXCEPT !.counted = TRUE, !.total = rows[q.filter]]}
  /\ UNCHANGED <<filters, currentPage, totalPages, loading, showCreateForm,
                 table, draft, posting, sent, rows, blind, left>>

\* Somebody else adds a rule.
OthersCreate(fs) ==
  /\ Stored(fs)
  /\ UNCHANGED <<filters, currentPage, totalPages, loading, showCreateForm,
                 table, inflight, draft, posting, sent, blind, left>>

\* Somebody else edits a rule: its zone, its name and the other fields the
\* settings look at.  Some settings lose it and some gain it.
OthersEdit ==
  \E moved \in [Sendable \ {AllRules} -> {-1, 0, 1}] :
    /\ rows' = [f \in Sendable |->
                  IF f = AllRules THEN rows[f] ELSE rows[f] + moved[f]]
    /\ rows' \in [Sendable -> 0..rows[AllRules]]
    /\ left' = IF filters \in Sendable \ {AllRules} /\ moved[filters] = -1
               THEN left + 1 ELSE left
    /\ left' <= MaxLeft
    /\ UNCHANGED <<filters, currentPage, totalPages, loading, showCreateForm,
                   table, inflight, draft, posting, sent, blind>>

-----------------------------------------------------------------------------
\* The component

\* ngOnInit
Init ==
  /\ filters = AllRules /\ currentPage = 1 /\ totalPages = 1
  /\ loading = TRUE /\ showCreateForm = FALSE
  /\ table = [id |-> 0, filter |-> AllRules, page |-> 1, count |-> 0, total |-> 0]
  /\ rows \in {n \in [Sendable -> 0..MaxRows] : \A f \in Sendable : n[f] <= n[AllRules]}
  /\ inflight = {[id |-> 1, filter |-> AllRules, page |-> 1,
                  counted |-> FALSE, total |-> 0]}
  /\ sent = 1 /\ draft = "none" /\ posting = 0 /\ blind = FALSE /\ left = 0

\* Mutant of onFilter: the page stays.
onFilter_KeepsPage(f) ==
  /\ f # filters
  /\ filters' = f
  /\ Load(f, currentPage)
  /\ blind' = FALSE /\ left' = 0
  /\ UNCHANGED <<currentPage, totalPages, showCreateForm, table, draft, posting, rows>>
\* onFilter and onSearch
onFilter(f) ==
  /\ f # filters
  /\ filters' = f /\ currentPage' = 1
  /\ Load(f, 1)
  /\ blind' = FALSE /\ left' = 0
  /\ UNCHANGED <<totalPages, showCreateForm, table, draft, posting, rows>>

\* The buttons, which are there for more than one page only.
MayPrev == totalPages > 1 /\ currentPage # 1
MayNext == totalPages > 1 /\ currentPage < totalPages

\* Mutant of Turn: the list is loaded before the page is turned.
Turn_LoadsFirst(p) ==
  /\ currentPage' = p
  /\ Load(filters, currentPage)
  /\ blind' = (blind \/ table.id # sent)
  /\ UNCHANGED <<filters, totalPages, showCreateForm, table, draft, posting, rows, left>>
Turn(p) ==
  /\ currentPage' = p
  /\ Load(filters, p)
  /\ blind' = (blind \/ table.id # sent)
  /\ UNCHANGED <<filters, totalPages, showCreateForm, table, draft, posting, rows, left>>

prevPage == MayPrev /\ Turn(currentPage - 1)
nextPage == MayNext /\ Turn(currentPage + 1)

ToggleForm ==    \* openCreate, and Cancel, which leave the contents
  /\ showCreateForm' = ~showCreateForm
  /\ UNCHANGED <<filters, currentPage, totalPages, loading, table, inflight,
                 draft, posting, sent, rows, blind, left>>

FillIn ==        \* the user makes another rule of the contents
  /\ showCreateForm
  /\ draft' = "fresh"
  /\ UNCHANGED <<filters, currentPage, totalPages, loading, showCreateForm,
                 table, inflight, posting, sent, rows, blind, left>>

onSubmit ==
  /\ showCreateForm
  /\ draft # "none"       \* the validators
  /\ posting < MaxPosts
  /\ posting' = posting + 1
  /\ draft' = "sent"
  /\ UNCHANGED <<filters, currentPage, totalPages, loading, showCreateForm,
                 table, inflight, sent, rows, blind, left>>

-----------------------------------------------------------------------------
\* Answers

\* The server fetches the page and answers; next of loadRules.  Between the two
\* nothing can be done to the answer, and what others write meanwhile may as well
\* be written after it, so they are one step.
Answer(q) ==
  /\ q.counted
  /\ table' = [id |-> q.id, filter |-> q.filter, page |-> q.page,
               count |-> OnPage(rows[q.filter], q.page), total |-> q.total]
  /\ totalPages' = Pages(q.total)
  /\ loading' = FALSE
  /\ inflight' = inflight \ {q}
  /\ UNCHANGED <<filters, currentPage, showCreateForm, draft, posting, sent, rows, blind, left>>

\* Mutant of Fail: the flag stays.
Fail_StillLoading(q) ==
  /\ inflight' = inflight \ {q}
  /\ UNCHANGED <<filters, currentPage, totalPages, loading, showCreateForm,
                 table, draft, posting, sent, rows, blind, left>>
\* error of loadRules
Fail(q) ==
  /\ loading' = FALSE
  /\ inflight' = inflight \ {q}
  /\ UNCHANGED <<filters, currentPage, totalPages, showCreateForm, table,
                 draft, posting, sent, rows, blind, left>>

\* Mutant of Created: the form is hidden but not reset.
Created_NoReset(fs) ==
  /\ posting > 0
  /\ posting' = posting - 1
  /\ Stored(fs)
  /\ showCreateForm' = FALSE
  /\ Load(filters, currentPage)
  /\ UNCHANGED <<filters, currentPage, totalPages, table, draft, blind, left>>
\* next of createRule, which resets the form whatever is in it by now; the list
\* is loaded again.
Created(fs) ==
  /\ posting > 0
  /\ posting' = posting - 1
  /\ Stored(fs)
  /\ showCreateForm' = FALSE
  /\ draft' = "none"
  /\ Load(filters, currentPage)
  /\ UNCHANGED <<filters, currentPage, totalPages, table, blind, left>>

\* error of createRule: the form stays.  The rule may have been stored all the
\* same, which is OthersCreate here.
NotCreated ==
  /\ posting > 0
  /\ posting' = posting - 1
  /\ draft' = IF draft = "sent" THEN "fresh" ELSE draft
  /\ UNCHANGED <<filters, currentPage, totalPages, loading, showCreateForm,
                 table, inflight, sent, rows, blind, left>>

NetworkAnswers == \E q \in inflight : Count(q) \/ Answer(q) \/ Fail(q)

Next ==
  \/ \E f \in Filters : onFilter(f)
  \/ \E fs \in SUBSET (Sendable \ {AllRules}) : Created(fs) \/ OthersCreate(fs)
  \/ OthersEdit
  \/ prevPage \/ nextPage \/ ToggleForm \/ FillIn \/ onSubmit \/ NotCreated
  \/ NetworkAnswers

\* The server works on a request and the browser ends it, with an answer or an
\* error.
Spec == Init /\ [][Next]_pageVars /\ WF_pageVars(NetworkAnswers)

-----------------------------------------------------------------------------
\* Properties

TypeOK ==
  /\ filters \in Filters /\ currentPage \in Nat \ {0} /\ totalPages \in Nat
  /\ loading \in BOOLEAN /\ showCreateForm \in BOOLEAN /\ blind \in BOOLEAN
  /\ inflight \subseteq [id : 1..sent, filter : Sendable, page : Nat \ {0},
                         counted : BOOLEAN, total : Nat]
  /\ table \in [id : 0..sent, filter : Sendable, page : Nat \ {0},
                count : 0..PerPage, total : Nat]
  /\ draft \in Drafts /\ posting \in 0..MaxPosts /\ sent \in 1..MaxRequests
  /\ rows \in [Sendable -> 0..MaxRows] /\ left \in 0..MaxLeft

\* The answer on the screen is that of the latest request, and the setting is
\* one that can be sent.
Current == table.id = sent /\ filters \in Sendable

\* When the table is current, its rows are those of the setting and the page
\* the controls show.
TableMatchesControls ==
  Current => table.filter = filters /\ table.page = currentPage

\* When the table is current, the user can get to the rows after this page.  He
\* can get back to those before it as well, unless the page was turned while
\* the pager still belonged to another answer, or others have taken so many
\* rules out of the setting that with them the list would reach this page.
RowsAreReachable ==
  Current => /\ table.total > currentPage * PerPage => MayNext
             /\ currentPage > 1 /\ ~blind =>
                  \/ MayPrev
                  \/ left > 0 /\ table.total + left > (currentPage - 1) * PerPage

\* When the table is current and no page was turned blindly, "No rules found"
\* means that there are none, or that rules have left the setting since it was
\* chosen.  On the first page they are the ones still counted: those that left
\* between the count and the fetch.
EmptyMeansNone ==
  Current /\ table.count = 0 /\ ~blind /\ (left = 0 \/ currentPage = 1) =>
    table.total <= left

\* The form does not keep a rule whose creation the page was told of: pressing
\* the button twice makes a second rule only before the answer, or after an
\* error that came although the rule had been stored.
CreatedRuleLeavesForm == draft = "sent" => posting > 0

\* The component does not load for ever, unless the setting is one that cannot
\* be sent.
LoadingEnds == loading ~> (~loading \/ filters \in ByName)
=============================================================================
