--------------------------- MODULE ListUsersPager ---------------------------
(***************************************************************************)
(* The pagination loop of FrontierSignInHelper.test_list_users_api: page   *)
(* numbers from 1, pageSize users per ListUsers request, stop on an empty  *)
(* page, a short page, one page without pagination, or after max_pages     *)
(* pages; any request error ends the probe with False and drops what was   *)
(* collected.  The service holds an ordered list of user ids and answers   *)
(* page p with the slice ((p-1)*pageSize, p*pageSize].  Other clients may  *)
(* create or delete users while the loop runs, at most MaxChanges times.   *)
(***************************************************************************)
EXTENDS Integers, Sequences

CONSTANTS
  PageSize,       \* page_size = 10
  MaxPages,       \* max_pages = 50
  UserCounts,     \* initial sizes of the service's user list
  MaxChanges,     \* bound on concurrent creations and deletions
  UsePagination   \* not args.no_pagination

ASSUME PageSizeAssumption == PageSize \in Nat \ {0}
ASSUME MaxPagesAssumption == MaxPages \in Nat \ {0}
ASSUME UserCountsAssumption == UserCounts \subseteq Nat
ASSUME MaxChangesAssumption == MaxChanges \in Nat
ASSUME UsePaginationAssumption == UsePagination \in BOOLEAN

VARIABLES
  pageNum,      \* page_num
  allUsers,     \* all_users
  pagesFetched, \* total_pages_fetched
  requests,     \* ListUsers requests sent so far
  pc,           \* "loop" inside the while, "done" after it
  result,       \* "pending", "ok" (return True) or "failed"
  users,        \* the service's ordered user list
  nextId,       \* id the next created user gets
  changes       \* concurrent creations and deletions so far

vars == <<pageNum, allUsers, pagesFetched, requests, pc, result, users,
          nextId, changes>>

MinOf(a, b) == IF a <= b THEN a ELSE b

(* data.get('users', []) for page p of the current list.                  *)
Page(p) ==
  SubSeq(users, (p - 1) * PageSize + 1, MinOf(p * PageSize, Len(users)))

Init ==
  /\ pageNum = 1
  /\ allUsers = << >>
  /\ pagesFetched = 0
  /\ requests = 0
  /\ pc = "loop"
  /\ result = "pending"
  /\ \E n \in UserCounts : users = [i \in 1..n |-> i]
  /\ nextId = Len(users) + 1
  /\ changes = 0


(* Mutants of the loop body, each a plausible slip in it: the while       *)
(* condition dropped, the short-page test off by one, the use_pagination  *)
(* check dropped, and the empty-page break dropped.                       *)
FetchPageBody(bounded, short(_), paging, emptyBreak) ==
  /\ pc = "loop"
  /\ bounded => pageNum <= MaxPages
  /\ requests' = requests + 1
  /\ \/ /\ pc' = "done"
        /\ result' = "failed"
        /\ UNCHANGED <<pageNum, allUsers, pagesFetched>>
     \/ LET page == Page(pageNum) IN
          IF emptyBreak /\ page = << >>
            THEN /\ pc' = "done"
                 /\ result' = "ok"
                 /\ UNCHANGED <<pageNum, allUsers, pagesFetched>>
            ELSE /\ allUsers' = allUsers \o page
                 /\ pagesFetched' = pagesFetched + 1
                 /\ IF short(Len(page)) \/ (paging /\ ~UsePagination)
                      THEN /\ pc' = "done"
                           /\ result' = "ok"
                           /\ UNCHANGED pageNum
                      ELSE /\ pageNum' = pageNum + 1
                           /\ UNCHANGED <<pc, result>>
  /\ UNCHANGED <<users, nextId, changes>>

LessThanPage(n) == n < PageSize
AtMostPage(n) == n <= PageSize

FetchPageUnbounded == FetchPageBody(FALSE, LessThanPage, TRUE, TRUE)
FetchPageShortOffByOne == FetchPageBody(TRUE, AtMostPage, TRUE, TRUE)
FetchPageIgnoresFlag == FetchPageBody(TRUE, LessThanPage, FALSE, TRUE)
FetchPageNoEmptyBreak == FetchPageBody(TRUE, LessThanPage, TRUE, FALSE)

(* One iteration of "while page_num <= max_pages": the request, then the  *)
(* three breaks in code order, then page_num += 1.  A transport or HTTP   *)
(* error raises out of the loop into the except handler (return False).  *)
FetchPage ==
  /\ pc = "loop"
  /\ pageNum <= MaxPages
  /\ requests' = requests + 1
  /\ \/ /\ pc' = "done"
        /\ result' = "failed"
        /\ UNCHANGED <<pageNum, allUsers, pagesFetched>>
     \/ LET page == Page(pageNum) IN
          IF page = << >>
            THEN /\ pc' = "done"
                 /\ result' = "ok"
                 /\ UNCHANGED <<pageNum, allUsers, pagesFetched>>
            ELSE /\ allUsers' = allUsers \o page
                 /\ pagesFetched' = pagesFetched + 1
                 /\ IF Len(page) < PageSize \/ ~UsePagination
                      THEN /\ pc' = "done"
                           /\ result' = "ok"
                           /\ UNCHANGED pageNum
                      ELSE /\ pageNum' = pageNum + 1
                           /\ UNCHANGED <<pc, result>>
  /\ UNCHANGED <<users, nextId, changes>>

(* The while condition fails: max_pages pages were fetched, all full.     *)
LoopExhausted ==
  /\ pc = "loop"
  /\ pageNum > MaxPages
  /\ pc' = "done"
  /\ result' = "ok"
  /\ UNCHANGED <<pageNum, allUsers, pagesFetched, requests, users, nextId,
                 changes>>

(* Another client creates a user, listed at position k.                   *)
CreateUser ==
  /\ pc = "loop"
  /\ changes < MaxChanges
  /\ \E k \in 1..(Len(users) + 1) :
       users' = SubSeq(users, 1, k - 1) \o <<nextId>>
                  \o SubSeq(users, k, Len(users))
  /\ nextId' = nextId + 1
  /\ changes' = changes + 1
  /\ UNCHANGED <<pageNum, allUsers, pagesFetched, requests, pc, result>>

(* Another client deletes the user at position k.                         *)
DeleteUser ==
  /\ pc = "loop"
  /\ changes < MaxChanges
  /\ \E k \in 1..Len(users) :
       users' = SubSeq(users, 1, k - 1) \o SubSeq(users, k + 1, Len(users))
  /\ changes' = changes + 1
  /\ UNCHANGED <<pageNum, allUsers, pagesFetched, requests, pc, result,
                 nextId>>

(* The probe has returned.                                                *)
Terminated ==
  /\ pc = "done"
  /\ UNCHANGED vars

Next ==
  \/ FetchPage
  \/ LoopExhausted
  \/ CreateUser
  \/ DeleteUser
  \/ Terminated

Spec == Init /\ [][Next]_vars

-----------------------------------------------------------------------------
(***************************************************************************)
(* Properties                                                              *)
(***************************************************************************)
TypeOK ==
  /\ pageNum \in 1..(MaxPages + 1)
  /\ allUsers \in Seq(Nat)
  /\ pagesFetched \in 0..MaxPages
  /\ requests \in 0..MaxPages
  /\ pc \in {"loop", "done"}
  /\ result \in {"pending", "ok", "failed"}
  /\ users \in Seq(Nat)
  /\ nextId \in Nat
  /\ changes \in 0..MaxChanges

(* Spec section 8, for a list nobody changes: a successful probe has sent *)
(* one request per full page plus the one that came back short or empty, *)
(* at most max_pages, and collected exactly the first                     *)
(* min(#users, page_size * max_pages) users, in order and without repeats *)
(* (25 users: 3 requests, 25 users; an endless list: 50 requests).        *)
(* Without pagination it sends one request and keeps the first page.      *)
CollectsListPrefix ==
  (pc = "done" /\ result = "ok" /\ changes = 0) =>
    LET limit == IF UsePagination THEN MaxPages ELSE 1
    IN /\ requests = MinOf(Len(users) \div PageSize + 1, limit)
       /\ allUsers = SubSeq(users, 1, MinOf(Len(users), PageSize * limit))

(* The PAGINATION SUMMARY agrees with what was collected, whatever other *)
(* clients do: every page counted in total_pages_fetched was non-empty,  *)
(* all but the last were full, and at most one request (the empty page   *)
(* or the failed one) is not counted.                                    *)
PageSummaryConsistent ==
  /\ pagesFetched > 0 => PageSize * (pagesFetched - 1) < Len(allUsers)
  /\ Len(allUsers) <= PageSize * pagesFetched
  /\ pc = "loop" => Len(allUsers) = PageSize * pagesFetched
  /\ requests - pagesFetched \in {0, 1}

=============================================================================
