---------------------------- MODULE PagingProofs ----------------------------
(***************************************************************************)
(* The safety of Paged for every set of cursors and every page size.       *)
(***************************************************************************)
EXTENDS Paging, TLAPS

Before == {"check", "calling"}

\* A cursor is fetched only after the server named it, and the one about to
\* be fetched has not been.
FetchedWereNamed ==
  /\ cursor \in seen \cup {NoCursor}
  /\ \A k \in AllCursors : fetches[k] > 0 => k \in seen \cup {NoCursor}
  /\ pc \in Before => fetches[cursor] = 0

\* Every named cursor has been fetched, but for the one about to be.
NamedAreFetched ==
  /\ pc \in Before => \A k \in seen \ {cursor} : fetches[k] > 0
  /\ pc \in {"fetching", "yielding"} => \A k \in seen : fetches[k] > 0

\* A fetch that began late was the last.
LateIsLast ==
  /\ late > 0 => cancelled /\ pc # "calling"

RunningIsOpen ==
  pc # "done" => ending = "none" /\ ~ gaveUp

PagingInv ==
  /\ TypeOK
  /\ NoRefetch
  /\ CancelStops
  /\ QuietEnd
  /\ FetchedWereNamed
  /\ NamedAreFetched
  /\ LateIsLast
  /\ RunningIsOpen

LEMMA BoundIsNatural == MaxItems \in Nat /\ NoCursor \notin Cursors
BY PagingAssumption DEF PagingAssumption

LEMMA InitPaging == Init => PagingInv
<1> SUFFICES ASSUME Init PROVE PagingInv
  OBVIOUS
<1>1. TypeOK
  <2>1. page \in [left : 0 .. MaxItems, next : AllCursors]
    BY BoundIsNatural DEF Init, AllCursors, NoPage
  <2>2. fetches \in [AllCursors -> 0 .. 2]
    BY DEF Init
  <2> QED
    BY <2>1, <2>2 DEF Init, TypeOK, AllCursors
<1>2. \A k \in AllCursors : fetches[k] = 0
  BY DEF Init
<1>3. NoRefetch /\ FetchedWereNamed /\ NamedAreFetched
  BY <1>1, <1>2 DEF Init, TypeOK, NoRefetch, FetchedWereNamed,
     NamedAreFetched
<1>4. CancelStops /\ QuietEnd /\ LateIsLast /\ RunningIsOpen
  BY DEF Init, CancelStops, QuietEnd, LateIsLast, RunningIsOpen
<1> QED
  BY <1>1, <1>3, <1>4 DEF PagingInv

LEMMA StepPaging == PagingInv /\ [Next]_vars => PagingInv'
<1> SUFFICES ASSUME PagingInv, [Next]_vars PROVE PagingInv'
  OBVIOUS
<1>1. CASE Cancelled
  BY <1>1 DEF Cancelled, Ended, PagingInv, TypeOK, NoRefetch, CancelStops,
     QuietEnd, FetchedWereNamed, NamedAreFetched, LateIsLast, RunningIsOpen,
     AllCursors, Before
<1>2. CASE Proceed
  BY <1>2 DEF Proceed, PagingInv, TypeOK, NoRefetch, CancelStops,
     QuietEnd, FetchedWereNamed, NamedAreFetched, LateIsLast, RunningIsOpen,
     AllCursors, Before
<1>3. CASE FetchBegins
  <2>1. /\ fetches[cursor] = 0
        /\ fetches' = [fetches EXCEPT ![cursor] = 1]
        /\ cursor \in seen \cup {NoCursor}
    BY <1>3 DEF FetchBegins, Again, PagingInv, TypeOK, FetchedWereNamed, Before
  <2>2. late = 0 /\ late' \in {0, 1} /\ (late' = 1 => cancelled)
    BY <1>3 DEF FetchBegins, Again, PagingInv, TypeOK, LateIsLast
  <2>3. NoRefetch' /\ FetchedWereNamed' /\ NamedAreFetched'
    BY <1>3, <2>1 DEF FetchBegins, PagingInv, TypeOK, NoRefetch,
       FetchedWereNamed, NamedAreFetched, AllCursors, Before
  <2>4. TypeOK' /\ CancelStops' /\ LateIsLast' /\ RunningIsOpen' /\ QuietEnd'
    BY <1>3, <2>1, <2>2 DEF FetchBegins, PagingInv, TypeOK, CancelStops,
       LateIsLast, RunningIsOpen, QuietEnd, AllCursors, Before
  <2> QED
    BY <2>3, <2>4 DEF PagingInv
<1>4. CASE FetchFails
  BY <1>4 DEF FetchFails, Ended, PagingInv, TypeOK, NoRefetch, CancelStops,
     QuietEnd, FetchedWereNamed, NamedAreFetched, LateIsLast, RunningIsOpen,
     AllCursors, Before
<1>5. ASSUME NEW items \in 0 .. MaxItems, NEW next \in AllCursors,
             FetchReturns(items, next)
      PROVE  PagingInv'
  BY <1>5 DEF FetchReturns, PagingInv, TypeOK, NoRefetch, CancelStops,
     QuietEnd, FetchedWereNamed, NamedAreFetched, LateIsLast, RunningIsOpen,
     AllCursors, Before
<1>6. CASE Yield
  BY <1>6, BoundIsNatural DEF Yield, PagingInv, TypeOK, NoRefetch, CancelStops,
     QuietEnd, FetchedWereNamed, NamedAreFetched, LateIsLast, RunningIsOpen,
     AllCursors, Before
<1>7. CASE Break
  BY <1>7, BoundIsNatural DEF Break, Ended, PagingInv, TypeOK, NoRefetch, CancelStops,
     QuietEnd, FetchedWereNamed, NamedAreFetched, LateIsLast, RunningIsOpen,
     AllCursors, Before
<1>8. CASE Finish
  BY <1>8 DEF Finish, LastPage, Ended, PagingInv, TypeOK, NoRefetch,
     CancelStops, QuietEnd, FetchedWereNamed, NamedAreFetched, LateIsLast,
     RunningIsOpen, AllCursors, Before
<1>9. CASE Advance
  <2>1. page.next \in Cursors /\ page.next \notin seen /\ fetches[page.next] = 0
    BY <1>9 DEF Advance, LastPage, PagingInv, TypeOK, FetchedWereNamed,
       AllCursors
  <2> QED
    BY <1>9, <2>1 DEF Advance, PagingInv, TypeOK, NoRefetch, CancelStops,
       QuietEnd, FetchedWereNamed, NamedAreFetched, LateIsLast, RunningIsOpen,
       AllCursors, Before
<1>10. CASE Cancel
  BY <1>10 DEF Cancel, PagingInv, TypeOK, NoRefetch, CancelStops, QuietEnd,
     FetchedWereNamed, NamedAreFetched, LateIsLast, RunningIsOpen, AllCursors,
     Before
<1>11. CASE UNCHANGED vars
  BY <1>11 DEF vars, PagingInv, TypeOK, NoRefetch, CancelStops, QuietEnd,
     FetchedWereNamed, NamedAreFetched, LateIsLast, RunningIsOpen, AllCursors,
     Before
<1> QED
  BY <1>1, <1>2, <1>3, <1>4, <1>5, <1>6, <1>7, <1>8, <1>9, <1>10, <1>11
     DEF Next, Step, FetchEnds

LEMMA PagingAlways == Spec => []PagingInv
<1>1. Init => PagingInv
  BY InitPaging
<1>2. PagingInv /\ [Next]_vars => PagingInv'
  BY StepPaging
<1> QED
  BY <1>1, <1>2, PTL DEF Spec

\* Every reachable state of the iterator is well typed.
THEOREM PagingTypeCorrect == Spec => []TypeOK
<1>1. PagingInv => TypeOK
  BY DEF PagingInv
<1> QED
  BY <1>1, PagingAlways, PTL

\* Whatever cursors the server names, no page is fetched twice: the fetch of
\* paging.go:61 is only reached with a cursor that seen did not hold.
THEOREM NoRefetchHolds == Spec => []NoRefetch
<1>1. PagingInv => NoRefetch
  BY DEF PagingInv
<1> QED
  BY <1>1, PagingAlways, PTL

\* At most one fetch begins after the context is done.
THEOREM CancelStopsHolds == Spec => []CancelStops
<1>1. PagingInv => CancelStops
  BY DEF PagingInv
<1> QED
  BY <1>1, PagingAlways, PTL

\* A loop that ends quietly ended on a successful fetch that named no page
\* still to be fetched.
THEOREM QuietEndHolds == Spec => []QuietEnd
<1>1. PagingInv => QuietEnd
  BY DEF PagingInv
<1> QED
  BY <1>1, PagingAlways, PTL
=============================================================================
