------------------------------- MODULE Books -------------------------------
(***************************************************************************)
(* The gateway's books: every answered call is appended to self.calls, the *)
(* sums over them are usage(), and _save_trace (app/api/chat.py) writes    *)
(* those into the trace of a request.  Gateway with these added.           *)
(***************************************************************************)
EXTENDS Gateway

VARIABLES
  total,       \* usage(): the tokens of all of self.calls
  spent,       \* the tokens of the request's own calls
  traced       \* the tokens on the request's trace, -1 without one

books == <<total, spent, traced>>

BooksInit ==
  /\ Init
  /\ total = 0
  /\ spent = [r \in Requests |-> 0]
  /\ traced = [r \in Requests |-> -1]

BookAnswer(r, tokens) ==
  /\ Answer(r, tokens)
  /\ total' = total + tokens
  /\ spent' = [spent EXCEPT ![r] = @ + tokens]
  /\ UNCHANGED traced

\* The usage of the whole gateway goes into the trace.
BookTrace(r) ==
  /\ SaveTrace(r)
  /\ traced' = [traced EXCEPT ![r] = total]
  /\ UNCHANGED <<total, spent>>

\* self.calls is lost, the traces stay.
BookRestart ==
  /\ Restart
  /\ total' = 0
  /\ UNCHANGED <<spent, traced>>

BookOther(r) ==
  /\ \/ Arrive(r) \/ EnterFree(r) \/ EnterQueue(r) \/ QuotaExceeded(r) \/ FallBack(r) \/ Break(r)
  /\ UNCHANGED books

BooksNext ==
  \/ \E r \in Requests :
       \/ BookTrace(r) \/ BookOther(r)
       \/ \E tokens \in TokenCounts : BookAnswer(r, tokens)
  \/ NextDay /\ UNCHANGED books
  \/ BookRestart

BooksSpec == BooksInit /\ [][BooksNext]_<<vars, books>>

-----------------------------------------------------------------------------
\* ADR 0007: "`estimated_cost` is recorded per request"; /admin/metrics sums the traces.
TraceCostsOwnTokens == \A r \in Requests : task[r] = "done" => traced[r] = spent[r]
=============================================================================
