------------------------- MODULE ListUsersPagerProofs -------------------------
(***************************************************************************)
(* Proofs about the pagination loop of test_list_users_api, for every      *)
(* page size, page ceiling and initial list, and whatever other clients   *)
(* do to the list meanwhile.                                               *)
(*                                                                         *)
(* PageSummaryConsistent is nearly inductive: what it lacks is how the    *)
(* counters move together inside the loop.  While the loop runs, one      *)
(* request has been sent per page fetched and page_num is one past them; *)
(* with that, a page of 1..page_size users appended to a list of exactly *)
(* page_size * total_pages_fetched users keeps every conjunct.            *)
(***************************************************************************)
EXTENDS ListUsersPager, SequenceTheorems, TLAPS

IInv ==
  /\ TypeOK
  /\ pc = "loop" => /\ requests = pageNum - 1
                    /\ pagesFetched = requests
  /\ PageSummaryConsistent

(* data.get('users', []) for a page the loop may request is a sequence of *)
(* user ids of at most page_size users.                                   *)
LEMMA PageFacts ==
  ASSUME NEW p \in Nat \ {0}, users \in Seq(Nat)
  PROVE  /\ Page(p) \in Seq(Nat)
         /\ Len(Page(p)) \in 0..PageSize
         /\ Page(p) # << >> => Len(Page(p)) \in 1..PageSize
<1> DEFINE m == (p - 1) * PageSize + 1
           n == MinOf(p * PageSize, Len(users))
<1>1. /\ m \in Int /\ n \in Int /\ m >= 1 /\ n <= Len(users)
  BY PageSizeAssumption DEF MinOf
<1>2. \A i \in m..n : users[i] \in Nat
  BY <1>1
<1>3. /\ SubSeq(users, m, n) \in Seq(Nat)
      /\ Len(SubSeq(users, m, n)) = IF m <= n THEN n - m + 1 ELSE 0
  BY <1>1, <1>2, SubSeqProperties
<1>4. n - m + 1 <= PageSize
  BY PageSizeAssumption DEF MinOf
<1>5. Page(p) = SubSeq(users, m, n)
  BY DEF Page
<1>6. Page(p) # << >> => Len(Page(p)) # 0
  BY <1>3, <1>5, EmptySeq, SeqEqual
<1>7. QED
  BY <1>3, <1>4, <1>5, <1>6, PageSizeAssumption

(* The list other clients leave behind is again a list of user ids.       *)
LEMMA EditFacts ==
  ASSUME users \in Seq(Nat), NEW k \in 1..(Len(users) + 1), NEW x \in Nat
  PROVE  /\ SubSeq(users, 1, k - 1) \o <<x>> \o SubSeq(users, k, Len(users))
              \in Seq(Nat)
         /\ k <= Len(users) =>
              SubSeq(users, 1, k - 1) \o SubSeq(users, k + 1, Len(users))
                \in Seq(Nat)
<1>1. /\ SubSeq(users, 1, k - 1) \in Seq(Nat)
      /\ SubSeq(users, k, Len(users)) \in Seq(Nat)
      /\ SubSeq(users, k + 1, Len(users)) \in Seq(Nat)
  BY SubSeqProperties
<1>2. <<x>> \in Seq(Nat)
  OBVIOUS
<1>3. QED
  BY <1>1, <1>2, ConcatProperties

LEMMA InitIInv == Init => IInv
<1> SUFFICES ASSUME Init PROVE IInv
  OBVIOUS
<1>1. PICK n \in UserCounts : users = [i \in 1..n |-> i]
  BY DEF Init
<1>2. users \in Seq(Nat) /\ Len(users) = n
  BY <1>1, UserCountsAssumption, IsASeq
<1>3. TypeOK
  <2>1. << >> \in Seq(Nat)
    BY EmptySeq
  <2>2. QED
    BY <1>1, <1>2, <2>1, UserCountsAssumption, MaxPagesAssumption,
       MaxChangesAssumption DEF Init, TypeOK
<1>4. PageSummaryConsistent
  BY PageSizeAssumption, EmptySeq DEF Init, PageSummaryConsistent
<1>5. QED
  BY <1>3, <1>4 DEF Init, IInv

LEMMA NextIInv == IInv /\ [Next]_vars => IInv'
<1> SUFFICES ASSUME IInv, [Next]_vars PROVE IInv'
  OBVIOUS
<1> USE PageSizeAssumption, MaxPagesAssumption, MaxChangesAssumption
<1>1. CASE FetchPage
  <2> DEFINE page == Page(pageNum)
  <2>1. /\ page \in Seq(Nat)
        /\ Len(page) \in 0..PageSize
        /\ page # << >> => Len(page) \in 1..PageSize
    BY PageFacts DEF IInv, TypeOK
  <2>2. /\ pageNum \in 1..MaxPages
        /\ requests = pageNum - 1
        /\ pagesFetched = requests
        /\ Len(allUsers) = PageSize * pagesFetched
        /\ allUsers \in Seq(Nat)
    BY <1>1 DEF FetchPage, IInv, TypeOK, PageSummaryConsistent
  <2>3. CASE /\ pc' = "done" /\ result' = "failed"
             /\ UNCHANGED <<pageNum, allUsers, pagesFetched>>
    BY <1>1, <2>2, <2>3 DEF FetchPage, IInv, TypeOK, PageSummaryConsistent
  <2>4. CASE /\ page = << >>
             /\ pc' = "done" /\ result' = "ok"
             /\ UNCHANGED <<pageNum, allUsers, pagesFetched>>
    BY <1>1, <2>2, <2>4 DEF FetchPage, IInv, TypeOK, PageSummaryConsistent
  <2>5. CASE /\ page # << >>
             /\ allUsers' = allUsers \o page
             /\ pagesFetched' = pagesFetched + 1
    <3>1. /\ allUsers' \in Seq(Nat)
          /\ Len(allUsers') = PageSize * pagesFetched + Len(page)
          /\ Len(page) \in 1..PageSize
      BY <2>1, <2>2, <2>5, ConcatProperties
    <3>2. /\ PageSize * (pagesFetched' - 1) < Len(allUsers')
          /\ Len(allUsers') <= PageSize * pagesFetched'
      BY <2>2, <2>5, <3>1
    <3>3. CASE Len(page) < PageSize \/ ~UsePagination
      <4>1. pc' = "done" /\ result' = "ok" /\ UNCHANGED pageNum
        BY <1>1, <2>5, <3>3 DEF FetchPage
      <4>2. QED
        BY <1>1, <2>2, <2>5, <3>1, <3>2, <4>1
           DEF FetchPage, IInv, TypeOK, PageSummaryConsistent
    <3>4. CASE ~(Len(page) < PageSize \/ ~UsePagination)
      <4>1. pageNum' = pageNum + 1 /\ UNCHANGED <<pc, result>>
        BY <1>1, <2>5, <3>4 DEF FetchPage
      <4>2. Len(page) = PageSize
        BY <3>1, <3>4
      <4>3. QED
        BY <1>1, <2>2, <2>5, <3>1, <3>2, <4>1, <4>2
           DEF FetchPage, IInv, TypeOK, PageSummaryConsistent
    <3>5. QED
      BY <3>3, <3>4
  <2>6. QED
    BY <1>1, <2>3, <2>4, <2>5 DEF FetchPage
<1>2. CASE LoopExhausted
  BY <1>2 DEF LoopExhausted, IInv, TypeOK, PageSummaryConsistent
<1>3. CASE CreateUser
  <2>1. users' \in Seq(Nat)
    BY <1>3, EditFacts DEF CreateUser, IInv, TypeOK
  <2>2. QED
    BY <1>3, <2>1 DEF CreateUser, IInv, TypeOK, PageSummaryConsistent
<1>4. CASE DeleteUser
  <2>1. users' \in Seq(Nat)
    <3>1. PICK k \in 1..Len(users) :
            users' = SubSeq(users, 1, k - 1) \o SubSeq(users, k + 1, Len(users))
      BY <1>4 DEF DeleteUser
    <3>2. QED
      BY <3>1, EditFacts DEF IInv, TypeOK
  <2>2. QED
    BY <1>4, <2>1 DEF DeleteUser, IInv, TypeOK, PageSummaryConsistent
<1>5. CASE Terminated \/ UNCHANGED vars
  BY <1>5 DEF Terminated, vars, IInv, TypeOK, PageSummaryConsistent
<1>6. QED
  BY <1>1, <1>2, <1>3, <1>4, <1>5 DEF Next

(* The loop never sends more than max_pages requests, whatever the list   *)
(* and whatever other clients do: the "while page_num <= max_pages" guard *)
(* bounds it (type correctness of the pager model).                       *)
THEOREM PagerTypeCorrect == Spec => []TypeOK
<1>1. IInv => TypeOK
  BY DEF IInv
<1>2. QED
  BY InitIInv, NextIInv, <1>1, PTL DEF Spec

(* The PAGINATION SUMMARY printed by test_list_users_api agrees with what *)
(* was collected, for every page size and ceiling and under concurrent   *)
(* creations and deletions: only non-empty pages are counted, all but the *)
(* last of them full.                                                     *)
THEOREM SummaryConsistent == Spec => []PageSummaryConsistent
<1>1. IInv => PageSummaryConsistent
  BY DEF IInv
<1>2. QED
  BY InitIInv, NextIInv, <1>1, PTL DEF Spec

-----------------------------------------------------------------------------
(***************************************************************************)
(* CollectsListPrefix, for a list nobody changes.  While the loop runs on *)
(* an unchanged list, all_users is the prefix of the list up to the pages *)
(* already fetched, and without pagination no page has been fetched yet.  *)
(* The number of requests then follows from how the last page ended:      *)
(* empty, short, the only page, or the max_pages ceiling.                 *)
(***************************************************************************)
Collected ==
  /\ allUsers = SubSeq(users, 1, PageSize * (pageNum - 1))
  /\ PageSize * (pageNum - 1) <= Len(users)
  /\ ~UsePagination => pageNum = 1

PInv ==
  /\ IInv
  /\ (pc = "loop" /\ changes = 0) => Collected
  /\ CollectsListPrefix

(* Integer division as the request count needs it.                        *)
LEMMA DivExact ==
  ASSUME NEW d \in Nat \ {0}, NEW q \in Nat, NEW r \in 0..(d - 1),
         NEW n \in Int, n = d * q + r
  PROVE  n \div d = q
BY SMT

LEMMA DivLower ==
  ASSUME NEW d \in Nat \ {0}, NEW q \in Nat, NEW n \in Nat, d * q <= n
  PROVE  n \div d >= q
BY SMT

LEMMA InitPInv == Init => PInv
<1> SUFFICES ASSUME Init PROVE PInv
  OBVIOUS
<1>1. IInv
  BY InitIInv
<1>2. PICK n \in UserCounts : users = [i \in 1..n |-> i]
  BY DEF Init
<1>3. users \in Seq(Nat)
  BY <1>2, UserCountsAssumption, IsASeq
<1>4. SubSeq(users, 1, 0) = << >>
  BY <1>3, SubSeqEmpty
<1>5. Collected
  <2>1. Len(users) \in Nat /\ PageSize * (1 - 1) = 0
    BY <1>3, LenProperties, PageSizeAssumption
  <2>2. pageNum = 1 /\ allUsers = << >>
    BY DEF Init
  <2>3. PageSize * (pageNum - 1) = 0
    BY <2>1, <2>2
  <2>4. allUsers = SubSeq(users, 1, PageSize * (pageNum - 1))
    BY <1>4, <2>2, <2>3
  <2>5. QED
    BY <2>1, <2>2, <2>3, <2>4 DEF Collected
<1>6. CollectsListPrefix
  BY DEF Init, CollectsListPrefix
<1>7. QED
  BY <1>1, <1>5, <1>6 DEF PInv

(* One iteration of the loop on an unchanged list keeps the prefix, and   *)
(* the iteration that ends it with True leaves the counts of spec 8.      *)
LEMMA FetchPInv ==
  ASSUME PInv, FetchPage, changes = 0
  PROVE  /\ (pc' = "loop" /\ changes' = 0) => Collected'
         /\ CollectsListPrefix'
<1> USE PageSizeAssumption, MaxPagesAssumption
<1> DEFINE L == Len(users)
           a == PageSize * (pageNum - 1)
           b == MinOf(a + PageSize, L)
           page == Page(pageNum)
<1>1. /\ pc = "loop" /\ pageNum \in 1..MaxPages
      /\ users \in Seq(Nat)
      /\ requests = pageNum - 1
      /\ Collected
      /\ UNCHANGED <<users, changes>>
      /\ requests' = pageNum
  BY DEF PInv, IInv, TypeOK, FetchPage
<1>2. /\ L \in Nat
      /\ users \in [1..L -> Nat]
  BY <1>1, LenProperties
<1>3. /\ a \in Nat /\ a <= L
      /\ allUsers = SubSeq(users, 1, a)
      /\ ~UsePagination => pageNum = 1
  BY <1>1, <1>2 DEF Collected
<1>4. /\ (pageNum - 1) * PageSize + 1 = a + 1
      /\ pageNum * PageSize = a + PageSize
  BY <1>1
<1>5. page = SubSeq(users, a + 1, b)
  BY <1>4 DEF Page
<1>6. /\ b \in Int /\ b <= L /\ b <= a + PageSize
      /\ b = L \/ b = a + PageSize
  BY <1>2, <1>3 DEF MinOf
<1>7. /\ page \in Seq(Nat)
      /\ Len(page) = IF a + 1 <= b THEN b - a ELSE 0
  <2>1. \A i \in (a + 1)..b : users[i] \in Nat
    BY <1>2, <1>3, <1>6
  <2>2. QED
    BY <1>3, <1>5, <1>6, <2>1, SubSeqProperties
<1>8. page = << >> <=> ~(a + 1 <= b)
  <2>1. page = << >> => Len(page) = 0
    BY EmptySeq
  <2>2. page # << >> => Len(page) # 0
    BY <1>7, EmptySeq
  <2>3. QED
    BY <1>3, <1>6, <1>7, <2>1, <2>2
<1>9. CASE pc' = "done" /\ result' = "failed"
  BY <1>9 DEF CollectsListPrefix
<1>10. CASE page = << >> /\ pc' = "done" /\ result' = "ok"
             /\ UNCHANGED <<pageNum, allUsers>>
  <2>1. L = a
    BY <1>3, <1>6, <1>8, <1>10
  <2>2. L \div PageSize = pageNum - 1
    <3>1. L = PageSize * (pageNum - 1) + 0
      BY <1>1, <1>2, <2>1
    <3>2. pageNum - 1 \in Nat /\ L \in Int /\ PageSize \in Nat \ {0}
           /\ 0 \in 0..(PageSize - 1)
      BY <1>1, <1>2
    <3>3. QED
      BY <3>1, <3>2, DivExact, Zenon
  <2>3. PageSize * (pageNum - 1) <= PageSize * MaxPages
    BY <1>1
  <2>4. QED
    BY <1>1, <1>3, <1>10, <2>1, <2>2, <2>3 DEF CollectsListPrefix, MinOf
<1>11. CASE /\ page # << >>
            /\ allUsers' = allUsers \o page
  <2>1. a + 1 <= b
    BY <1>8, <1>11
  <2>0. Len(page) = b - a
    BY <1>3, <1>6, <1>7, <2>1
  <2>2. allUsers' = SubSeq(users, 1, b)
    <3>1. /\ 1 \in 1..(L + 1)
          /\ a \in (1 - 1)..L
          /\ b \in a..L
      BY <1>2, <1>3, <1>6, <2>1
    <3>2. SubSeq(users, 1, a) \o SubSeq(users, a + 1, b) = SubSeq(users, 1, b)
      BY <1>1, <3>1, ConcatAdjacentSubSeq
    <3>3. QED
      BY <1>3, <1>5, <1>11, <3>2
  <2>3. CASE Len(page) < PageSize \/ ~UsePagination
    <3>1. pc' = "done" /\ result' = "ok" /\ UNCHANGED pageNum
      BY <1>1, <1>11, <2>3 DEF FetchPage
    <3>2. CASE b < a + PageSize
      <4>1. b = L /\ L - a \in 0..(PageSize - 1)
        BY <1>3, <1>6, <2>1, <3>2
      <4>2. L = PageSize * (pageNum - 1) + (L - a)
        BY <1>1, <1>2
      <4>3. L \div PageSize = pageNum - 1
        <5>1. pageNum - 1 \in Nat /\ L \in Int /\ PageSize \in Nat \ {0}
          BY <1>1, <1>2
        <5>2. QED
          BY <4>1, <4>2, <5>1, DivExact, Zenon
      <4> DEFINE lim == IF UsePagination THEN MaxPages ELSE 1
      <4>4. lim \in Nat /\ pageNum <= lim
        BY <1>1, <1>3
      <4>5. MinOf(L \div PageSize + 1, lim) = pageNum
        BY <1>1, <4>3, <4>4 DEF MinOf
      <4>6. MinOf(L, PageSize * lim) = L
        <5>1. L < PageSize * pageNum
          BY <1>1, <4>1
        <5>2. PageSize * pageNum <= PageSize * lim
          BY <1>1, <4>4
        <5>3. L <= PageSize * lim
          BY <1>1, <1>2, <4>4, <5>1, <5>2
        <5>4. QED
          BY <5>3 DEF MinOf
      <4>7. QED
        BY <1>1, <2>2, <3>1, <4>1, <4>5, <4>6 DEF CollectsListPrefix
    <3>3. CASE b = a + PageSize
      <4>1. ~UsePagination
        BY <1>3, <2>0, <2>3, <3>3
      <4>2. pageNum = 1 /\ a = 0 /\ b = PageSize /\ PageSize <= L
        BY <1>3, <1>6, <3>3, <4>1
      <4>3. L \div PageSize >= 1
        BY <1>2, <4>2, DivLower
      <4>4. QED
        BY <1>1, <2>2, <3>1, <4>1, <4>2, <4>3 DEF CollectsListPrefix, MinOf
    <3>4. b < a + PageSize \/ b = a + PageSize
      BY <1>1, <1>3, <1>6
    <3>5. QED
      BY <3>2, <3>3, <3>4
  <2>4. CASE ~(Len(page) < PageSize \/ ~UsePagination)
    <3>1. pageNum' = pageNum + 1 /\ UNCHANGED <<pc, result>>
      BY <1>1, <1>11, <2>4 DEF FetchPage
    <3>2. b = a + PageSize /\ UsePagination
      <4>1. UsePagination /\ ~(Len(page) < PageSize)
        BY <2>4
      <4>2. b - a >= PageSize
        <5>1. Len(page) \in Nat
          BY <1>7, LenProperties
        <5>2. QED
          BY <2>0, <4>1, <5>1
      <4>4. b = a + PageSize
        BY <1>1, <1>3, <1>6, <4>2
      <4>3. QED
        BY <4>1, <4>4
    <3>3. /\ allUsers' = SubSeq(users', 1, PageSize * (pageNum' - 1))
          /\ PageSize * (pageNum' - 1) <= Len(users')
      BY <1>1, <1>6, <2>2, <3>1, <3>2
    <3>4. Collected'
      BY <3>2, <3>3 DEF Collected
    <3>5. QED
      BY <1>1, <3>1, <3>4 DEF CollectsListPrefix
  <2>5. QED
    BY <2>3, <2>4
<1>12. QED
  BY <1>1, <1>9, <1>10, <1>11 DEF FetchPage

LEMMA NextPInv == PInv /\ [Next]_vars => PInv'
<1> SUFFICES ASSUME PInv, [Next]_vars PROVE PInv'
  OBVIOUS
<1> USE PageSizeAssumption, MaxPagesAssumption
<1>1. IInv'
  BY NextIInv DEF PInv
<1>2. CASE FetchPage /\ changes = 0
  BY <1>1, <1>2, FetchPInv DEF PInv
<1>3. CASE FetchPage /\ changes # 0
  BY <1>1, <1>3 DEF PInv, FetchPage, CollectsListPrefix
<1>4. CASE LoopExhausted
  <2>1. /\ pageNum = MaxPages + 1 /\ requests = MaxPages
        /\ users \in Seq(Nat)
    BY <1>4 DEF LoopExhausted, PInv, IInv, TypeOK
  <2>2. CASE changes = 0
    <3>1. /\ UsePagination
          /\ allUsers = SubSeq(users, 1, PageSize * MaxPages)
          /\ PageSize * MaxPages <= Len(users)
      BY <1>4, <2>1, <2>2 DEF LoopExhausted, PInv, Collected
    <3>2. Len(users) \div PageSize >= MaxPages
      <4>1. Len(users) \in Nat
        BY <2>1, LenProperties
      <4>2. QED
        BY <3>1, <4>1, DivLower
    <3>3. /\ pc' = "done" /\ result' = "ok"
          /\ UNCHANGED <<users, requests, allUsers, changes>>
      BY <1>4 DEF LoopExhausted
    <3>4. /\ MinOf(Len(users) \div PageSize + 1, MaxPages) = MaxPages
          /\ MinOf(Len(users), PageSize * MaxPages) = PageSize * MaxPages
      BY <3>1, <3>2 DEF MinOf
    <3>5. CollectsListPrefix'
      BY <2>1, <3>1, <3>3, <3>4 DEF CollectsListPrefix
    <3>6. QED
      BY <1>1, <3>3, <3>5 DEF PInv
  <2>3. CASE changes # 0
    BY <1>1, <1>4, <2>3 DEF PInv, LoopExhausted, CollectsListPrefix
  <2>4. QED
    BY <2>2, <2>3
<1>5. CASE CreateUser \/ DeleteUser
  <2>0. changes \in Nat
    BY DEF PInv, IInv, TypeOK
  <2>1. changes' > 0 /\ pc' = "loop" /\ pc = "loop"
    <3>1. CASE CreateUser
      BY <2>0, <3>1 DEF CreateUser
    <3>2. CASE DeleteUser
      BY <2>0, <3>2 DEF DeleteUser
    <3>3. QED
      BY <1>5, <3>1, <3>2
  <2>2. QED
    BY <1>1, <2>1 DEF PInv, CollectsListPrefix
<1>6. CASE Terminated \/ UNCHANGED vars
  BY <1>1, <1>6 DEF Terminated, vars, PInv, Collected, CollectsListPrefix
<1>7. QED
  BY <1>2, <1>3, <1>4, <1>5, <1>6 DEF Next

(* Spec section 8: on a list nobody changes, a successful probe has sent  *)
(* one request per full page plus the one that came back short or empty, *)
(* never more than max_pages, and collected exactly the first             *)
(* min(#users, page_size * max_pages) users (25 users in pages of 10:     *)
(* 3 requests; an endless list: 50), for every page size and ceiling.     *)
THEOREM CollectsPrefix == Spec => []CollectsListPrefix
<1>1. PInv => CollectsListPrefix
  BY DEF PInv
<1>2. QED
  BY InitPInv, NextPInv, <1>1, PTL DEF Spec

=============================================================================
