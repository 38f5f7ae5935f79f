------------------------------- MODULE Paging -------------------------------
(***************************************************************************)
(* The iterator Paged of api/paging.go between a range loop and a paged    *)
(* operation.  The server is arbitrary: any page, any next cursor, any     *)
(* error.  The loop may break at any element and the context may be        *)
(* cancelled at any moment.  Items are counted, not looked at.  Cursors    *)
(* are strings and a server may name as many as it likes, so nothing here  *)
(* asks that they be finitely many.                                        *)
(***************************************************************************)
EXTENDS Integers

CONSTANTS
  Cursors,          \* cursors the server may name: any set of strings
  NoCursor,         \* the empty string: the first fetch, and no next page
  MaxItems          \* bound: items on one page

ASSUME PagingAssumption == NoCursor \notin Cursors /\ MaxItems \in Nat

VARIABLES
  pc,               \* where the iterator is
  cursor,           \* the cursor of the next fetch
  seen,             \* the cursors the server has named
  page,             \* the page being yielded: items left, next cursor
  cancelled,        \* ctx is done
  ending,           \* history: how the loop ended, as its body saw it
  gaveUp,           \* history: a fetch failed, or ctx was found done
  fetches,          \* history: fetches per cursor, stopped at 2
  late              \* history: fetches begun after ctx was done, stopped at 2

vars == <<pc, cursor, seen, page, cancelled, ending, gaveUp,
          fetches, late>>

AllCursors == Cursors \cup {NoCursor}

NoPage == [left |-> 0, next |-> NoCursor]

Init ==
  /\ pc = "check"
  /\ cursor = NoCursor
  /\ seen = {}
  /\ page = NoPage
  /\ cancelled = FALSE
  /\ ending = "none"
  /\ gaveUp = FALSE
  /\ fetches = [k \in AllCursors |-> 0]
  /\ late = 0

\* History counters stop at two: the properties only ask for more than one.
Again(count) == IF count < 2 THEN count + 1 ELSE count

Ended(how) == pc' = "done" /\ ending' = how

-----------------------------------------------------------------------------
\* ctx.Err() != nil: the error is the last element.
Cancelled ==
  /\ pc = "check"
  /\ cancelled
  /\ Ended("error")
  /\ gaveUp' = TRUE
  /\ UNCHANGED <<cursor, seen, page, cancelled, fetches, late>>

\* Mutant: ctx is not looked at between pages.
MutantProceedAnyway ==
  /\ pc = "check"
  /\ pc' = "calling"
  /\ UNCHANGED <<cursor, seen, page, cancelled, ending, gaveUp, fetches, late>>

Proceed ==
  /\ pc = "check"
  /\ ~ cancelled
  /\ pc' = "calling"
  /\ UNCHANGED <<cursor, seen, page, cancelled, ending, gaveUp, fetches, late>>

FetchBegins ==
  /\ pc = "calling"
  /\ pc' = "fetching"
  /\ fetches' = [fetches EXCEPT ![cursor] = Again(@)]
  /\ late' = IF cancelled THEN Again(late) ELSE late
  /\ UNCHANGED <<cursor, seen, page, cancelled, ending, gaveUp>>

\* Mutant: the error check is missing.
MutantFetchErrorDropped ==
  /\ pc = "fetching"
  /\ Ended("exhausted")
  /\ gaveUp' = TRUE
  /\ UNCHANGED <<cursor, seen, page, cancelled, fetches, late>>

FetchFails ==
  /\ pc = "fetching"
  /\ Ended("error")
  /\ gaveUp' = TRUE
  /\ UNCHANGED <<cursor, seen, page, cancelled, fetches, late>>

FetchReturns(items, next) ==
  /\ pc = "fetching"
  /\ pc' = "yielding"
  /\ page' = [left |-> items, next |-> next]
  /\ UNCHANGED <<cursor, seen, cancelled, ending, gaveUp, fetches, late>>

\* Mutant: one element too many.
MutantYieldOneMore ==
  /\ pc = "yielding"
  /\ page' = [page EXCEPT !.left = @ - 1]
  /\ UNCHANGED <<pc, cursor, seen, cancelled, ending, gaveUp, fetches, late>>

\* The loop's body ran to its end.
Yield ==
  /\ pc = "yielding"
  /\ page.left > 0
  /\ page' = [page EXCEPT !.left = @ - 1]
  /\ UNCHANGED <<pc, cursor, seen, cancelled, ending, gaveUp, fetches, late>>

\* The loop's body broke out or returned.
Break ==
  /\ pc = "yielding"
  /\ page.left > 0
  /\ page' = [page EXCEPT !.left = @ - 1]
  /\ Ended("broken")
  /\ UNCHANGED <<cursor, seen, cancelled, gaveUp, fetches, late>>

\* Mutant: repeated cursors are not noticed.
MutantLastPageOnlyEmpty(next) == next = NoCursor

LastPage(next) == next = NoCursor \/ next \in seen

Finish ==
  /\ pc = "yielding"
  /\ page.left = 0
  /\ LastPage(page.next)
  /\ Ended("exhausted")
  /\ UNCHANGED <<cursor, seen, page, cancelled, gaveUp, fetches, late>>

Advance ==
  /\ pc = "yielding"
  /\ page.left = 0
  /\ ~ LastPage(page.next)
  /\ pc' = "check"
  /\ seen' = seen \cup {page.next}
  /\ cursor' = page.next
  /\ UNCHANGED <<page, cancelled, ending, gaveUp, fetches, late>>

Cancel ==
  /\ ~ cancelled
  /\ cancelled' = TRUE
  /\ UNCHANGED <<pc, cursor, seen, page, ending, gaveUp, fetches, late>>

-----------------------------------------------------------------------------
FetchEnds ==
  \/ FetchFails
  \/ \E items \in 0 .. MaxItems, next \in AllCursors : FetchReturns(items, next)

Step ==
  \/ Cancelled \/ Proceed \/ FetchBegins \/ FetchEnds
  \/ Yield \/ Break \/ Finish \/ Advance

Next == Step \/ Cancel

Spec == Init /\ [][Next]_vars

\* The iterator runs in its caller's goroutine, and the fetch and the loop's
\* body return: the first is bounded by the client's timeouts, the second is
\* assumed.
FairSpec == Spec /\ WF_vars(Step)

-----------------------------------------------------------------------------
TypeOK ==
  /\ pc \in {"check", "calling", "fetching", "yielding", "done"}
  /\ cursor \in AllCursors
  /\ seen \in SUBSET Cursors
  /\ page \in [left : 0 .. MaxItems, next : AllCursors]
  /\ cancelled \in BOOLEAN
  /\ gaveUp \in BOOLEAN
  /\ ending \in {"none", "error", "broken", "exhausted"}
  /\ fetches \in [AllCursors -> 0 .. 2]
  /\ late \in 0 .. 2

\* No server makes Paged ask for the same page twice, whatever cycle of
\* cursors it names.
NoRefetch == \A k \in AllCursors : fetches[k] <= 1

\* After the context is done one fetch at most begins: the one whose check
\* was already made.
CancelStops == late <= 1

\* The loop ends without an error and without its own doing only if every
\* fetch succeeded, no check found the context done, and the last page named
\* no page that has not been fetched.
QuietEnd ==
  ending = "exhausted" =>
    /\ ~ gaveUp
    /\ page.left = 0
    /\ page.next # NoCursor => fetches[page.next] > 0

\* From some time on the server names no cursor it has not named before.
RunsOutOfCursors == <>[][seen' = seen]_vars

\* A server that runs out of new cursors cannot keep the loop going, whatever
\* cycle of old ones it names.  One that names a new cursor on every page can:
\* nothing in Paged bounds the number of pages, so that it runs out is assumed
\* here.  Where Cursors is finite, as in the run, every server does.
IterationEnds == RunsOutOfCursors => <>(pc = "done")
=============================================================================
