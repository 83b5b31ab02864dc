------------------------------- MODULE Quotes -------------------------------
(***************************************************************************)
(* Quotes: drafted with their lines, sent, answered by the customer until  *)
(* they expire, and converted into work orders.                            *)
(*                                                                         *)
(* Each operation locks the row of its quote FOR UPDATE, loads it afresh,  *)
(* checks it and writes it with one activity and, for some, one            *)
(* notification when it commits.  Midnight may fall between the two.       *)
(***************************************************************************)
EXTENDS Requests, Integers, Sequences, FiniteSetsExt

CONSTANTS
    Quote, QuotedWork,  \* the quotes, and the work orders made of them
    QuoteLine,          \* lines a quote may have
    MaxQuoted,          \* bound: line totals and discounts
    LastDay             \* bound: days that pass

ASSUME QuotesAssumption ==
    /\ IsFiniteSet(QuoteLine) /\ MaxQuoted \in Nat \ {0} /\ LastDay \in Nat \ {0}
    /\ None \notin Request \cup Quote \cup QuotedWork

VARIABLES
    quote,       \* quotes with the totals of their active lines and their activities
    quotedWork,  \* work_orders made by conversion: the quote each came from
    today,       \* date.today(), counted from 1
    quoteLock,
    quoting      \* per request: the operation that holds the lock, with what it writes

quotesVars == <<quote, quotedWork, today, quoteLock, quoting>>

QuoteStatuses == {"none", "draft", "sent", "accepted", "rejected", "expired", "converted"}
QuoteLines == [QuoteLine -> Nat]       \* the line totals, 0 where there is no active line
QuoteRows == [status : QuoteStatuses, lines : QuoteLines, discount : Nat, total : Int,
              valid_until : Nat,           \* a day, or 0 for none
              work : QuotedWork \cup {None},  \* converted_work_order_id
              activities : Seq(QuoteStatuses)]
Quotings  == [quote : Quote \cup {None}, row : QuoteRows]

NoLine      == [l \in QuoteLine |-> 0]
NoQuote     == [status |-> "none", lines |-> NoLine, discount |-> 0, total |-> 0,
                valid_until |-> 0, work |-> None, activities |-> <<>>]
NoQuoting   == [quote |-> None, row |-> NoQuote]

QuotesTypeOK ==
    /\ quote \in [Quote -> QuoteRows]
    /\ quotedWork \in [QuotedWork -> Quote \cup {None}]
    /\ today \in 1 .. LastDay
    /\ quoteLock \in [Quote -> Request \cup {None}]
    /\ quoting \in [Request -> Quotings]

QuotesInit ==
    /\ quote = [q \in Quote |-> NoQuote]
    /\ quotedWork = [w \in QuotedWork |-> None]
    /\ today = 1
    /\ quoteLock = [q \in Quote |-> None]
    /\ quoting = [p \in Request |-> NoQuoting]

-----------------------------------------------------------------------------
QuoteSubtotal(lines) == SumFunctionOnSet(lines, QuoteLine)

Recalculated(row) == [row EXCEPT !.total = QuoteSubtotal(row.lines) - row.discount]

DiscountFits(row) == row.discount <= QuoteSubtotal(row.lines)

\* Mutated form: the quote is read without its lock.
LoadWithoutLock(p, q, row) ==
    /\ quoting[p].quote = None
    /\ quoting' = [quoting EXCEPT ![p] = [quote |-> q, row |-> row]]
    /\ UNCHANGED <<quote, quotedWork, today, quoteLock>>

LoadQuote(p, q, row) ==
    /\ quoting[p].quote = None
    /\ quoteLock[q] = None
    /\ quoteLock' = [quoteLock EXCEPT ![q] = p]
    /\ quoting' = [quoting EXCEPT ![p] = [quote |-> q, row |-> row]]
    /\ UNCHANGED <<quote, quotedWork, today>>

\* An operation that changes the status records it as an activity.
Move(p, q, row, to) ==
    LoadQuote(p, q, [row EXCEPT !.status = to, !.activities = Append(@, to)])

CreateQuote(p, q, lines, discount, until) ==
    LET row == [NoQuote EXCEPT !.lines = lines, !.discount = discount, !.valid_until = until]
    IN /\ quote[q].status = "none" /\ DiscountFits(row)
       /\ Move(p, q, Recalculated(row), "draft")

EditQuote(p, q, row) ==
    /\ quote[q].status = "draft"
    /\ row # quote[q] /\ DiscountFits(row)
    /\ LoadQuote(p, q, Recalculated(row))

UpdateQuote(p, q, discount, until) ==
    EditQuote(p, q, [quote[q] EXCEPT !.discount = discount, !.valid_until = until])

AddQuoteLine(p, q, l, price) ==
    quote[q].lines[l] = 0 /\ EditQuote(p, q, [quote[q] EXCEPT !.lines[l] = price])

UpdateQuoteLine(p, q, l, price) ==
    quote[q].lines[l] > 0 /\ EditQuote(p, q, [quote[q] EXCEPT !.lines[l] = price])

RemoveQuoteLine(p, q, l) ==
    quote[q].lines[l] > 0 /\ EditQuote(p, q, [quote[q] EXCEPT !.lines[l] = 0])

PastValidity(q) == quote[q].valid_until \in 1 .. (today - 1)

SendQuote(p, q) ==
    LET row == Recalculated(quote[q])
    IN /\ quote[q].status = "draft"
       /\ NoLine # row.lines /\ DiscountFits(row) /\ row.total > 0
       /\ ~PastValidity(q)
       /\ Move(p, q, row, "sent")

\* Mutated form: a quote that was answered may be answered again.
AnsweredAlready(q) == quote[q].status \in {"sent", "accepted", "rejected", "converted"}

Sent(q) == quote[q].status = "sent"

AcceptQuote(p, q) == Sent(q) /\ ~PastValidity(q) /\ Move(p, q, quote[q], "accepted")
RejectQuote(p, q) == Sent(q) /\ ~PastValidity(q) /\ Move(p, q, quote[q], "rejected")
ExpireQuote(p, q) == Sent(q) /\ PastValidity(q) /\ Move(p, q, quote[q], "expired")

ConvertQuote(p, q, w) ==
    /\ quote[q].status = "accepted" /\ quote[q].work = None
    /\ quotedWork[w] = None /\ \A r \in Request : quoting[r].row.work # w
    /\ Move(p, q, [quote[q] EXCEPT !.work = w], "converted")

EndQuoting(p) ==
    /\ quoteLock' = [q \in Quote |-> IF quoteLock[q] = p THEN None ELSE quoteLock[q]]
    /\ quoting' = [quoting EXCEPT ![p] = NoQuoting]
    /\ UNCHANGED today

CommitQuote(p) ==
    LET q == quoting[p].quote
        row == quoting[p].row
    IN /\ q # None
       /\ quote' = [quote EXCEPT ![q] = row]
       /\ quotedWork' = [w \in QuotedWork |-> IF w = row.work THEN q ELSE quotedWork[w]]
       /\ EndQuoting(p)

\* A check fails, the database reports a conflict or the process dies.
AbandonQuote(p) ==
    /\ quoting[p].quote # None
    /\ EndQuoting(p) /\ UNCHANGED <<quote, quotedWork>>

DayPasses ==
    /\ today < LastDay /\ today' = today + 1
    /\ UNCHANGED <<quote, quotedWork, quoteLock, quoting>>

-----------------------------------------------------------------------------
QuoteOperation(p, q) ==
    \/ \E d \in 0 .. MaxQuoted, until \in 0 .. LastDay :
         \/ CreateQuote(p, q, NoLine, d, until)
         \/ \E l \in QuoteLine, a \in 1 .. MaxQuoted : CreateQuote(p, q, [NoLine EXCEPT ![l] = a], d, until)
         \/ UpdateQuote(p, q, d, until)
    \/ \E l \in QuoteLine : \/ \E a \in 1 .. MaxQuoted : AddQuoteLine(p, q, l, a) \/ UpdateQuoteLine(p, q, l, a)
                            \/ RemoveQuoteLine(p, q, l)
    \/ SendQuote(p, q) \/ AcceptQuote(p, q) \/ RejectQuote(p, q) \/ ExpireQuote(p, q)
    \/ \E w \in QuotedWork : ConvertQuote(p, q, w)

QuotesNext ==
    \/ \E p \in Request, q \in Quote : QuoteOperation(p, q)
    \/ \E p \in Request : CommitQuote(p) \/ AbandonQuote(p)
    \/ DayPasses

QuotesSpec == QuotesInit /\ [][QuotesNext]_quotesVars

-----------------------------------------------------------------------------
(* Properties.                                                             *)

\* What a quote was sent with, it is answered and converted with, however requests
\* interleave; and its total is what its lines add up to, less a discount that fits.
SentTermsStay ==
    [][\A q \in Quote : quote[q].status \notin {"none", "draft"} =>
         /\ quote'[q].status \notin {"none", "draft"}
         /\ quote'[q].lines = quote[q].lines
         /\ quote'[q].total = quote[q].total /\ quote[q].total > 0
         /\ quote[q].total = QuoteSubtotal(quote[q].lines) - quote[q].discount]_quotesVars

\* The ways a quote may go.
Lives == {<<>>, <<"draft">>, <<"draft", "sent">>, <<"draft", "sent", "accepted">>,
          <<"draft", "sent", "rejected">>, <<"draft", "sent", "expired">>,
          <<"draft", "sent", "accepted", "converted">>}

\* The activities tell the life of the quote, in which it is answered once, and it has a
\* work order, one of its own, when the last of them says that it was converted.
ActivitiesTellQuote ==
    \A q \in Quote :
        /\ quote[q].activities \in Lives
        /\ quote[q].activities # <<>> =>
             quote[q].status = quote[q].activities[Len(quote[q].activities)]
        /\ IF quote[q].status = "converted"
           THEN {w \in QuotedWork : quotedWork[w] = q} = {quote[q].work}
           ELSE \A w \in QuotedWork : quotedWork[w] # q
=============================================================================
