---------------------- MODULE PendingRequestsListsProofs ----------------------
(***************************************************************************)
(* What holds of the two lists of PendingRequests for any sets of          *)
(* requests: a completed request is in a list only until its completer     *)
(* has popped it, whatever CreateThread and Sleep do; and each list that   *)
(* is not empty has a thread, if CreateThread succeeds and Sleep outlasts  *)
(* a handler's window.                                                     *)
(***************************************************************************)
EXTENDS PendingRequestsProofs

NoDuplicates(list) ==
  \A i, j \in 1 .. Len(list) : list[i] = list[j] => i = j

Listed(k, r) == r \in ToSet(waitIpr[k])

(* A thread between front() and the end of pop_front().                    *)
InLoopBody(p) == pc[p] \in {"unmark", "complete", "pop"}

(* In no list, in no thread's hands, and without a thread of its name.     *)
Untouched(r) ==
  /\ pc[r] = "none"
  /\ \A k \in Kinds : ~Listed(k, r)
  /\ \A p \in Requests : InLoopBody(p) => cur[p] # r

(* A request is at most once in a list, and in the list of its kind.       *)
Lists ==
  \A k \in Kinds :
    /\ NoDuplicates(waitIpr[k])
    /\ \A r \in Requests : Listed(k, r) => Kind(r) = k

(* Until its handler pushes it, a request is in nobody else's hands.       *)
Fresh ==
  \A r \in Requests :
    /\ io[r] = "new" => Untouched(r)
    /\ callback.at \in {"query", "test", "push"} /\ callback.request = r =>
         Untouched(r)
    /\ callback.at \in {"test", "push"} /\ callback.request = r =>
         io[r] \in {"cancelable", "canceling", "ignored"}

(* What a thread has taken from the front stays there until somebody       *)
(* removes it: others push at the back only.                               *)
FrontInHand ==
  \A p, r \in Requests :
    InLoopBody(p) /\ cur[p] = r =>
      /\ Kind(r) = Kind(p)
      /\ Listed(Kind(p), r) => waitIpr[Kind(p)][1] = r

ListsInv == Inv /\ Lists /\ Fresh /\ FrontInHand /\ NoDanglingPointer

-----------------------------------------------------------------------------
(* What the operations of std::list do to a list.                          *)

(* To be in a list is to be at some place of it.                           *)
LEMMA PlaceInList ==
  ASSUME NEW list \in Seq(Requests), NEW r
  PROVE  r \in ToSet(list) <=> \E i \in 1 .. Len(list) : list[i] = r
BY LenProperties DEF ToSet

(* push_back of a request that is not in the list.                         *)
LEMMA PushBack ==
  ASSUME NEW list \in Seq(Requests), NoDuplicates(list),
         NEW r \in Requests, r \notin ToSet(list)
  PROVE  /\ NoDuplicates(Append(list, r))
         /\ \A q : q \in ToSet(Append(list, r)) <=> q \in ToSet(list) \/ q = r
         /\ list # <<>> => Append(list, r)[1] = list[1]
<1> DEFINE pushed == Append(list, r)
<1>1. /\ pushed \in Seq(Requests)
      /\ Len(list) \in Nat /\ Len(pushed) = Len(list) + 1
      /\ \A i \in 1 .. Len(list) : pushed[i] = list[i]
      /\ pushed[Len(list) + 1] = r
  BY AppendProperties, LenProperties
<1>2. \A i \in 1 .. Len(list) : list[i] # r
  BY PlaceInList
<1> HIDE DEF pushed
<1>3. NoDuplicates(pushed)
  BY <1>1, <1>2 DEF NoDuplicates
<1>4. ASSUME NEW q
      PROVE  q \in ToSet(pushed) <=> q \in ToSet(list) \/ q = r
  <2>1. q \in ToSet(pushed) <=> \E i \in 1 .. Len(pushed) : pushed[i] = q
    BY <1>1, PlaceInList
  <2>2. q \in ToSet(list) <=> \E i \in 1 .. Len(list) : list[i] = q
    BY PlaceInList
  <2> QED
    BY <1>1, <2>1, <2>2
<1>5. list # <<>> => pushed[1] = list[1]
  BY <1>1, EmptySeq
<1> QED
  BY <1>3, <1>4, <1>5 DEF pushed

(* pop_front of a list that is not empty.                                  *)
LEMMA PopList ==
  ASSUME NEW list \in Seq(Requests), NoDuplicates(list), list # <<>>
  PROVE  /\ NoDuplicates(Tail(list))
         /\ \A q : q \in ToSet(Tail(list)) <=>
                     q \in ToSet(list) /\ q # list[1]
         /\ Head(list) = list[1] /\ list[1] \in ToSet(list)
<1> DEFINE popped == Tail(list)
<1>1. /\ popped \in Seq(Requests)
      /\ Len(list) \in Nat \ {0} /\ Len(popped) = Len(list) - 1
      /\ \A i \in 1 .. Len(popped) : popped[i] = list[i + 1]
  BY HeadTailProperties, EmptySeq
<1> HIDE DEF popped
<1>2. NoDuplicates(popped)
  BY <1>1 DEF NoDuplicates
<1>3. ASSUME NEW q
      PROVE  q \in ToSet(popped) <=> q \in ToSet(list) /\ q # list[1]
  <2>1. q \in ToSet(popped) <=> \E i \in 1 .. Len(popped) : popped[i] = q
    BY <1>1, PlaceInList
  <2>2. q \in ToSet(list) <=> \E i \in 1 .. Len(list) : list[i] = q
    BY PlaceInList
  <2>3. ASSUME NEW i \in 1 .. Len(popped), popped[i] = q
        PROVE  q \in ToSet(list) /\ q # list[1]
    <3>1. i + 1 \in 1 .. Len(list) /\ list[i + 1] = q /\ i + 1 # 1
          /\ 1 \in 1 .. Len(list)
      BY <1>1, <2>3
    <3> QED
      BY <2>2, <3>1 DEF NoDuplicates
  <2>4. ASSUME NEW i \in 1 .. Len(list), list[i] = q, q # list[1]
        PROVE  q \in ToSet(popped)
    <3>1. i - 1 \in 1 .. Len(popped) /\ popped[i - 1] = list[i - 1 + 1]
          /\ i - 1 + 1 = i
      BY <1>1, <2>4
    <3> QED
      BY <2>1, <2>4, <3>1
  <2> QED
    BY <2>1, <2>2, <2>3, <2>4
<1>4. Head(list) = list[1] /\ list[1] \in ToSet(list)
  BY <1>1, PlaceInList
<1> QED
  BY <1>2, <1>3, <1>4 DEF popped

(* RemoveAt, place by place.                                               *)
LEMMA RemovedPlaces ==
  ASSUME NEW list \in Seq(Requests), NEW i \in 1 .. Len(list)
  PROVE  /\ RemoveAt(list, i) \in Seq(Requests)
         /\ Len(RemoveAt(list, i)) = Len(list) - 1
         /\ \A j \in 1 .. Len(list) - 1 :
              RemoveAt(list, i)[j] = IF j < i THEN list[j] ELSE list[j + 1]
<1> DEFINE before == SubSeq(list, 1, i - 1)
           after == SubSeq(list, i + 1, Len(list))
<1>1. Len(list) \in Nat /\ i \in Nat /\ i > 0 /\ i <= Len(list)
  BY LenProperties
<1>2. /\ before \in Seq(Requests) /\ Len(before) = i - 1
      /\ \A j \in 1 .. i - 1 : before[j] = list[j]
  <2>1. \A j \in 1 .. i - 1 : list[j] \in Requests
    BY <1>1, ElementOfSeq
  <2> QED
    BY <1>1, <2>1, SubSeqProperties
<1>3. /\ after \in Seq(Requests) /\ Len(after) = Len(list) - i
      /\ \A j \in 1 .. Len(list) - i : after[j] = list[i + j]
  <2>1. \A j \in i + 1 .. Len(list) : list[j] \in Requests
    BY <1>1, ElementOfSeq
  <2> QED
    BY <1>1, <2>1, SubSeqProperties
<1>4. RemoveAt(list, i) = before \o after
  BY DEF RemoveAt
<1> HIDE DEF before, after
<1>5. /\ before \o after \in Seq(Requests)
      /\ Len(before \o after) = Len(before) + Len(after)
      /\ \A j \in 1 .. Len(before) + Len(after) :
           (before \o after)[j] = IF j <= Len(before) THEN before[j]
                                  ELSE after[j - Len(before)]
  BY <1>2, <1>3, ConcatProperties
<1>6. ASSUME NEW j \in 1 .. Len(list) - 1
      PROVE  (before \o after)[j] = IF j < i THEN list[j] ELSE list[j + 1]
  <2>1. CASE j < i
    BY <1>1, <1>2, <1>3, <1>5, <2>1
  <2>2. CASE ~(j < i)
    <3>1. /\ j \in 1 .. Len(before) + Len(after) /\ ~(j <= Len(before))
          /\ j - Len(before) \in 1 .. Len(list) - i
          /\ i + (j - Len(before)) = j + 1
      BY <1>1, <1>2, <1>3, <2>2
    <3> QED
      BY <1>3, <1>5, <2>2, <3>1
  <2> QED
    BY <2>1, <2>2
<1>7. Len(before \o after) = Len(list) - 1
  BY <1>1, <1>2, <1>3, <1>5
<1> QED
  BY <1>4, <1>5, <1>6, <1>7

(* remove of a request from a list that has it at most once.               *)
LEMMA RemoveFrom ==
  ASSUME NEW list \in Seq(Requests), NoDuplicates(list), NEW r
  PROVE  /\ NoDuplicates(Without(list, r))
         /\ \A q : q \in ToSet(Without(list, r)) <=>
                     q \in ToSet(list) /\ q # r
         /\ list # <<>> /\ list[1] # r => Without(list, r)[1] = list[1]
<1>1. CASE r \notin ToSet(list)
  BY <1>1 DEF Without
<1>2. CASE r \in ToSet(list)
  <2> DEFINE i == CHOOSE j \in DOMAIN list : list[j] = r
             removed == RemoveAt(list, i)
  <2>1. i \in 1 .. Len(list) /\ list[i] = r /\ Len(list) \in Nat
    <3>1. \E j \in DOMAIN list : list[j] = r
      BY <1>2 DEF ToSet
    <3>2. i \in DOMAIN list /\ list[i] = r
      BY <3>1
    <3> QED
      BY <3>2, LenProperties
  <2>2. Without(list, r) = removed
    BY <1>2 DEF Without
  <2>3. /\ removed \in Seq(Requests) /\ Len(removed) = Len(list) - 1
        /\ \A j \in 1 .. Len(list) - 1 :
             removed[j] = IF j < i THEN list[j] ELSE list[j + 1]
    BY <2>1, RemovedPlaces
  <2> HIDE DEF i, removed
  <2>4. NoDuplicates(removed)
    BY <2>1, <2>3 DEF NoDuplicates
  <2>5. ASSUME NEW q
        PROVE  q \in ToSet(removed) <=> q \in ToSet(list) /\ q # r
    <3>1. q \in ToSet(removed) <=> \E j \in 1 .. Len(removed) : removed[j] = q
      BY <2>3, PlaceInList
    <3>2. q \in ToSet(list) <=> \E j \in 1 .. Len(list) : list[j] = q
      BY PlaceInList
    <3>3. ASSUME NEW j \in 1 .. Len(removed), removed[j] = q
          PROVE  q \in ToSet(list) /\ q # r
      BY <2>1, <2>3, <3>2, <3>3 DEF NoDuplicates
    <3>4. ASSUME NEW j \in 1 .. Len(list), list[j] = q, q # r
          PROVE  q \in ToSet(removed)
      <4>1. CASE j < i
        BY <2>1, <2>3, <3>1, <3>4, <4>1
      <4>2. CASE j > i
        <5>1. /\ j - 1 \in 1 .. Len(removed) /\ ~(j - 1 < i)
              /\ j - 1 + 1 = j /\ Len(removed) = Len(list) - 1
          BY <2>1, <2>3, <4>2
        <5> QED
          BY <2>3, <3>1, <3>4, <5>1
      <4> QED
        BY <2>1, <3>4, <4>1, <4>2
    <3> QED
      BY <3>1, <3>2, <3>3, <3>4
  <2>6. ASSUME list[1] # r
        PROVE  removed[1] = list[1]
    <3>1. 1 \in 1 .. Len(list) - 1 /\ 1 < i
      BY <2>1, <2>6
    <3> QED
      BY <2>3, <3>1
  <2> QED
    BY <2>2, <2>4, <2>5, <2>6
<1> QED
  BY <1>1, <1>2

-----------------------------------------------------------------------------
(* Steps.                                                                  *)

(* The lists are empty at first, and no request has come.                  *)
LEMMA InitLists == Init => ListsInv
<1> SUFFICES ASSUME Init
             PROVE  ListsInv
  OBVIOUS
<1>1. \A k \in Kinds : waitIpr[k] = <<>>
  BY DEF Init
<1>2. \A r : \A k \in Kinds : ~Listed(k, r)
  BY <1>1, NoReplySet DEF Listed
<1>3. \A p \in Requests : ~InLoopBody(p) /\ pc[p] = "none"
  BY DEF Init, InLoopBody
<1>4. Lists
  BY <1>1, <1>2 DEF Lists, NoDuplicates
<1>5. Fresh
  BY <1>2, <1>3 DEF Init, Fresh, Untouched, Idle
<1>6. FrontInHand
  BY <1>3 DEF FrontInHand
<1>7. NoDanglingPointer
  BY <1>2 DEF NoDanglingPointer, Listed
<1> QED
  BY <1>4, <1>5, <1>6, <1>7, InitType, InitOneCompleter DEF ListsInv, Inv

(* A step that leaves the lists and who has what in hand.                  *)
LEMMA HandsKept ==
  ASSUME ListsInv, UNCHANGED <<waitIpr, cur>>,
         \A p \in Requests : /\ InLoopBody(p)' => InLoopBody(p)
                             /\ pc[p] = "none" => pc'[p] = "none"
  PROVE  /\ Lists' /\ FrontInHand'
         /\ \A r \in Requests : Untouched(r) => Untouched(r)'
         /\ \A k, r : Listed(k, r)' <=> Listed(k, r)
<1>1. \A k, r : Listed(k, r)' <=> Listed(k, r)
  BY DEF Listed
<1>2. Lists'
  BY <1>1 DEF ListsInv, Lists
<1>3. FrontInHand'
  BY <1>1 DEF ListsInv, FrontInHand
<1>4. \A r \in Requests : Untouched(r) => Untouched(r)'
  BY <1>1 DEF Untouched
<1> QED
  BY <1>1, <1>2, <1>3, <1>4

(* A step that completes nothing and lets no thread past its pop_front().  *)
LEMMA NothingDangles ==
  ASSUME ListsInv, UNCHANGED <<waitIpr, cur>>,
         \A r \in Requests : io'[r] = "done" => io[r] = "done",
         \A p \in Requests : pc[p] = "pop" => pc'[p] = "pop"
  PROVE  NoDanglingPointer'
BY DEF ListsInv, NoDanglingPointer

(* A request comes: its handler is the first to touch it.                  *)
LEMMA DispatchLists ==
  ASSUME ListsInv, NEW r \in Requests, Dispatch(r)
  PROVE  Lists' /\ Fresh' /\ FrontInHand' /\ NoDanglingPointer'
<1>1. /\ io[r] = "new" /\ io' = [io EXCEPT ![r] = "owned"]
      /\ callback'.at = "query" /\ callback'.request = r
      /\ UNCHANGED <<waitIpr, pc, cur>>
      /\ io \in [Requests -> IoStates]
  BY DEF Dispatch, Idle, ListsInv, Inv, TypeOK
<1>2. \A p \in Requests : InLoopBody(p)' <=> InLoopBody(p)
  BY <1>1 DEF InLoopBody
<1>3. Untouched(r)
  BY <1>1 DEF ListsInv, Fresh
<1>4. Fresh'
  BY <1>1, <1>2, <1>3, HandsKept DEF ListsInv, Fresh
<1> QED
  BY <1>1, <1>2, <1>4, HandsKept, NothingDangles

(* A handler uses the answer of an exchange, whatever it is.               *)
LEMMA HandlerAnswerLists ==
  ASSUME ListsInv, NEW card, AnswerAtOnce(card) \/ MarkCancelable(card)
  PROVE  Lists' /\ Fresh' /\ FrontInHand' /\ NoDanglingPointer'
<1> DEFINE r == callback.request
<1>1. /\ r \in Requests /\ callback.at = "query" /\ Untouched(r)
      /\ io[r] = "owned"
      /\ io \in [Requests -> IoStates]
      /\ UNCHANGED <<waitIpr, pc, cur>>
  BY DEF AnswerAtOnce, MarkCancelable, ListsInv, Inv, TypeOK, OneCompleter,
         Fresh
<1>2. \A p \in Requests : InLoopBody(p)' <=> InLoopBody(p)
  BY <1>1 DEF InLoopBody
<1>3. CASE AnswerAtOnce(card)
  <2>1. io' = [io EXCEPT ![r] = "done"] /\ callback' = Idle
    BY <1>3 DEF AnswerAtOnce, Complete
  <2>2. Fresh'
    BY <1>1, <1>2, <2>1, HandsKept DEF ListsInv, Fresh, Idle
  <2>3. NoDanglingPointer'
    <3>1. \A k \in Kinds : r \notin ToSet(waitIpr[k])
      BY <1>1 DEF Untouched, Listed
    <3> QED
      BY <1>1, <2>1, <3>1 DEF ListsInv, NoDanglingPointer
  <2> QED
    BY <1>1, <1>2, <2>2, <2>3, HandsKept
<1>4. CASE MarkCancelable(card)
  <2>1. PICK s \in {"ignored", "canceling", "cancelable"} :
          io' = [io EXCEPT ![r] = s]
    BY <1>4 DEF MarkCancelable
  <2>2. callback'.at = "test" /\ callback'.request = r
    BY <1>4 DEF MarkCancelable, ListsInv, Inv, TypeOK
  <2>3. Fresh'
    BY <1>1, <1>2, <2>1, <2>2, HandsKept DEF ListsInv, Fresh
  <2>4. NoDanglingPointer'
    BY <1>1, <2>1, NothingDangles
  <2> QED
    BY <1>1, <1>2, <2>3, <2>4, HandsKept
<1> QED
  BY <1>3, <1>4

(* empty() changes nothing here.                                           *)
LEMMA TestEmptyLists ==
  ASSUME ListsInv, TestEmpty
  PROVE  Lists' /\ Fresh' /\ FrontInHand' /\ NoDanglingPointer'
<1>1. /\ callback.at = "test" /\ callback'.at = "push"
      /\ callback'.request = callback.request
      /\ UNCHANGED <<waitIpr, io, pc, cur>>
  BY DEF TestEmpty, ListsInv, Inv, TypeOK
<1>2. \A p \in Requests : InLoopBody(p)' <=> InLoopBody(p)
  BY <1>1 DEF InLoopBody
<1>3. Fresh'
  BY <1>1, <1>2, HandsKept DEF ListsInv, Fresh
<1> QED
  BY <1>1, <1>2, <1>3, HandsKept, NothingDangles

(* The request a handler pushes is in no list and not completed.           *)
LEMMA PushLists ==
  ASSUME ListsInv, PushAndCreateThread
  PROVE  Lists' /\ Fresh' /\ FrontInHand' /\ NoDanglingPointer'
<1> DEFINE r == callback.request
           k == Kind(r)
<1>1. /\ callback.at = "push" /\ r \in Requests /\ k \in Kinds
      /\ waitIpr' = [waitIpr EXCEPT ![k] = Append(@, r)]
      /\ callback' = Idle /\ UNCHANGED <<io, cur>>
      /\ waitIpr \in [Kinds -> Seq(Requests)]
      /\ pc \in [Requests -> PollerSteps]
  BY KindType DEF PushAndCreateThread, ListsInv, Inv, TypeOK
<1>2. Untouched(r) /\ io[r] \in {"cancelable", "canceling", "ignored"}
  BY <1>1 DEF ListsInv, Fresh
<1>3. \A p \in Requests :
        /\ InLoopBody(p)' => InLoopBody(p)
        /\ pc[p] = "pop" => pc'[p] = "pop"
        /\ p # r => pc'[p] = pc[p]
  BY <1>1, <1>2 DEF PushAndCreateThread, InLoopBody, Untouched
<1> HIDE DEF k
<1>4. /\ waitIpr[k] \in Seq(Requests) /\ NoDuplicates(waitIpr[k])
      /\ r \notin ToSet(waitIpr[k])
  BY <1>1, <1>2 DEF ListsInv, Lists, Untouched, Listed
<1>5. /\ NoDuplicates(waitIpr'[k])
      /\ \A q : q \in ToSet(waitIpr'[k]) <=> q \in ToSet(waitIpr[k]) \/ q = r
      /\ waitIpr[k] # <<>> => waitIpr'[k][1] = waitIpr[k][1]
      /\ \A l \in Kinds \ {k} : waitIpr'[l] = waitIpr[l]
  BY <1>1, <1>4, PushBack
<1>6. \A l \in Kinds : \A q :
        Listed(l, q)' <=> Listed(l, q) \/ (q = r /\ l = k)
  BY <1>5 DEF Listed
<1>7. Lists'
  BY <1>5, <1>6 DEF ListsInv, Lists, k
<1>8. FrontInHand'
  <2>1. ASSUME NEW p \in Requests, NEW q \in Requests,
               InLoopBody(p)', cur'[p] = q
        PROVE  /\ Kind(q) = Kind(p)
               /\ Listed(Kind(p), q)' => waitIpr'[Kind(p)][1] = q
    <3>1. InLoopBody(p) /\ cur[p] = q /\ q # r /\ Kind(p) \in Kinds
      BY <1>1, <1>2, <1>3, <2>1, KindType DEF Untouched
    <3>2. /\ Kind(q) = Kind(p)
          /\ Listed(Kind(p), q) => waitIpr[Kind(p)][1] = q
      BY <3>1 DEF ListsInv, FrontInHand
    <3>3. Listed(Kind(p), q) => waitIpr[Kind(p)] # <<>>
      BY NoReplySet DEF Listed
    <3> QED
      BY <1>5, <1>6, <3>1, <3>2, <3>3
  <2> QED
    BY <2>1 DEF FrontInHand
<1>9. Fresh'
  <2>1. ASSUME NEW q \in Requests, io'[q] = "new"
        PROVE  Untouched(q)'
    <3>1. Untouched(q) /\ q # r
      BY <1>1, <1>2, <2>1 DEF ListsInv, Fresh
    <3> QED
      BY <1>1, <1>3, <1>6, <3>1 DEF Untouched
  <2> QED
    BY <1>1, <2>1 DEF Fresh, Idle
<1>10. NoDanglingPointer'
  <2>1. ASSUME NEW l \in Kinds, NEW q \in Requests,
               q \in ToSet(waitIpr'[l]), io'[q] = "done"
        PROVE  \E p \in Requests : pc'[p] = "pop" /\ cur'[p] = q
    <3>1. q # r /\ q \in ToSet(waitIpr[l]) /\ io[q] = "done"
      BY <1>1, <1>2, <1>5, <2>1
    <3>2. PICK p \in Requests : pc[p] = "pop" /\ cur[p] = q
      BY <3>1 DEF ListsInv, NoDanglingPointer
    <3> QED
      BY <1>1, <1>3, <3>2
  <2> QED
    BY <2>1 DEF NoDanglingPointer
<1> QED
  BY <1>7, <1>8, <1>9, <1>10

(* OnCancel begins, or ignores what it does not find.                      *)
LEMMA OnCancelLists ==
  ASSUME ListsInv, NEW r \in Requests, OnCancel(r)
  PROVE  Lists' /\ Fresh' /\ FrontInHand' /\ NoDanglingPointer'
<1>1. /\ io[r] = "canceling" /\ io' \in {io, [io EXCEPT ![r] = "ignored"]}
      /\ callback.at = "idle" /\ callback'.at \in {"idle", "cancel"}
      /\ UNCHANGED <<waitIpr, pc, cur>>
      /\ io \in [Requests -> IoStates]
  <2>1. /\ io[r] = "canceling" /\ callback = Idle
        /\ UNCHANGED <<waitIpr, pc, cur>>
        /\ io \in [Requests -> IoStates]
    BY DEF OnCancel, ListsInv, Inv, TypeOK
  <2>2. io' \in {io, [io EXCEPT ![r] = "ignored"]}
    BY DEF OnCancel
  <2>3. callback' \in {Idle, [Idle EXCEPT !.at = "cancel", !.request = r]}
    BY <2>1 DEF OnCancel
  <2>4. /\ Idle.at = "idle"
        /\ [Idle EXCEPT !.at = "cancel", !.request = r].at = "cancel"
    BY DEF Idle
  <2> QED
    BY <2>1, <2>2, <2>3, <2>4
<1>2. \A p \in Requests : InLoopBody(p)' <=> InLoopBody(p)
  BY <1>1 DEF InLoopBody
<1>3. \A q \in Requests : /\ io'[q] = "new" => io[q] = "new"
                          /\ io'[q] = "done" => io[q] = "done"
  BY <1>1
<1>4. Fresh'
  BY <1>1, <1>2, <1>3, HandsKept DEF ListsInv, Fresh
<1> QED
  BY <1>1, <1>2, <1>3, <1>4, HandsKept, NothingDangles

(* OnCancel completes a request that is in no list any more.               *)
LEMMA CompleteCancelledLists ==
  ASSUME ListsInv, CompleteCancelled
  PROVE  Lists' /\ Fresh' /\ FrontInHand' /\ NoDanglingPointer'
<1> DEFINE r == callback.request
           k == Kind(r)
<1>1. /\ callback.at = "cancel" /\ r \in Requests /\ k \in Kinds
      /\ waitIpr' = [waitIpr EXCEPT ![k] = Without(@, r)]
      /\ io' = [io EXCEPT ![r] = "done"]
      /\ callback' = Idle /\ UNCHANGED <<pc, cur>>
      /\ waitIpr \in [Kinds -> Seq(Requests)]
      /\ io \in [Requests -> IoStates]
  BY KindType DEF CompleteCancelled, Complete, ListsInv, Inv, TypeOK
<1> HIDE DEF k
<1>2. waitIpr[k] \in Seq(Requests) /\ NoDuplicates(waitIpr[k])
  BY <1>1 DEF ListsInv, Lists
<1>3. /\ NoDuplicates(waitIpr'[k])
      /\ \A q : q \in ToSet(waitIpr'[k]) <=> q \in ToSet(waitIpr[k]) /\ q # r
      /\ waitIpr[k] # <<>> /\ waitIpr[k][1] # r =>
           waitIpr'[k][1] = waitIpr[k][1]
      /\ \A l \in Kinds \ {k} : waitIpr'[l] = waitIpr[l]
  BY <1>1, <1>2, RemoveFrom
<1>4. \A l \in Kinds \ {k} : ~Listed(l, r)
  BY <1>1 DEF ListsInv, Lists, k
<1>5. \A l \in Kinds : \A q : Listed(l, q)' <=> Listed(l, q) /\ q # r
  BY <1>3, <1>4 DEF Listed
<1>6. \A p \in Requests : InLoopBody(p)' <=> InLoopBody(p)
  BY <1>1 DEF InLoopBody
<1>7. Lists'
  BY <1>3, <1>5 DEF ListsInv, Lists
<1>8. FrontInHand'
  <2>1. ASSUME NEW p \in Requests, NEW q \in Requests,
               InLoopBody(p)', cur'[p] = q
        PROVE  /\ Kind(q) = Kind(p)
               /\ Listed(Kind(p), q)' => waitIpr'[Kind(p)][1] = q
    <3>1. InLoopBody(p) /\ cur[p] = q /\ Kind(p) \in Kinds
      BY <1>1, <1>6, <2>1, KindType
    <3>2. /\ Kind(q) = Kind(p)
          /\ Listed(Kind(p), q) => waitIpr[Kind(p)][1] = q
      BY <3>1 DEF ListsInv, FrontInHand
    <3>3. Listed(Kind(p), q) => waitIpr[Kind(p)] # <<>>
      BY NoReplySet DEF Listed
    <3> QED
      BY <1>3, <1>5, <3>1, <3>2, <3>3
  <2> QED
    BY <2>1 DEF FrontInHand
<1>9. Fresh'
  <2>1. ASSUME NEW q \in Requests, io'[q] = "new"
        PROVE  Untouched(q)'
    <3>1. Untouched(q)
      BY <1>1, <2>1 DEF ListsInv, Fresh
    <3> QED
      BY <1>1, <1>5, <1>6, <3>1 DEF Untouched
  <2> QED
    BY <1>1, <2>1 DEF Fresh, Idle
<1>10. NoDanglingPointer'
  <2>1. ASSUME NEW l \in Kinds, NEW q \in Requests,
               q \in ToSet(waitIpr'[l]), io'[q] = "done"
        PROVE  \E p \in Requests : pc'[p] = "pop" /\ cur'[p] = q
    <3>1. q # r /\ q \in ToSet(waitIpr[l])
      BY <1>5, <2>1 DEF Listed
    <3>2. io[q] = "done"
      BY <1>1, <2>1, <3>1
    <3> QED
      BY <1>1, <3>1, <3>2 DEF ListsInv, NoDanglingPointer
  <2> QED
    BY <2>1 DEF NoDanglingPointer
<1> QED
  BY <1>7, <1>8, <1>9, <1>10

(* Steps of a thread outside its loop body.                                *)
LEMMA OutsideLoopBodyLists ==
  ASSUME ListsInv, NEW card, NEW p \in Requests,
         TestOuter(p) \/ QueryCard(p, card) \/ TestInner(p) \/ WakeUp(p)
  PROVE  Lists' /\ Fresh' /\ FrontInHand' /\ NoDanglingPointer'
<1>1. /\ UNCHANGED <<waitIpr, io, callback, cur>>
      /\ pc \in [Requests -> PollerSteps]
      /\ pc[p] \in {"outer", "query", "inner", "sleep"}
      /\ \E step \in {"none", "outer", "query", "inner", "front", "sleep"} :
           pc' = [pc EXCEPT ![p] = step]
  BY DEF TestOuter, QueryCard, TestInner, WakeUp, FallAsleep, Goto,
         ListsInv, Inv, TypeOK
<1>2. \A q \in Requests :
        /\ InLoopBody(q)' => InLoopBody(q)
        /\ pc[q] = "pop" => pc'[q] = "pop"
        /\ pc[q] = "none" => pc'[q] = "none"
  BY <1>1 DEF InLoopBody
<1>3. Fresh'
  BY <1>1, <1>2, HandsKept DEF ListsInv, Fresh
<1>4. NoDanglingPointer'
  BY <1>1, <1>2, NothingDangles
<1> QED
  BY <1>1, <1>2, <1>3, <1>4, HandsKept

(* A thread takes the front in hand.                                       *)
LEMMA TakeFrontLists ==
  ASSUME ListsInv, NEW p \in Requests, TakeFront(p)
  PROVE  Lists' /\ Fresh' /\ FrontInHand' /\ NoDanglingPointer'
<1> DEFINE list == waitIpr[Kind(p)]
<1>1. /\ pc[p] = "front" /\ UNCHANGED <<waitIpr, io, callback>>
      /\ Kind(p) \in Kinds /\ list \in Seq(Requests)
      /\ pc \in [Requests -> PollerSteps]
      /\ cur \in [Requests -> Requests \cup {NoRequest}]
  BY KindType DEF TakeFront, ListsInv, Inv, TypeOK
<1>2. CASE UNCHANGED <<cur, pc>>
  <2>1. \A q \in Requests : InLoopBody(q)' <=> InLoopBody(q)
    BY <1>2 DEF InLoopBody
  <2>2. Fresh'
    BY <1>1, <1>2, <2>1, HandsKept DEF ListsInv, Fresh
  <2> QED
    BY <1>1, <1>2, <2>1, <2>2, HandsKept, NothingDangles
<1>3. CASE /\ list # <<>>
           /\ cur' = [cur EXCEPT ![p] = Head(list)]
           /\ pc' = [pc EXCEPT ![p] = "unmark"]
  <2>1. /\ Head(list) = list[1] /\ Listed(Kind(p), list[1])
        /\ Kind(list[1]) = Kind(p) /\ list[1] \in Requests
    <3>1. NoDuplicates(list)
      BY <1>1 DEF ListsInv, Lists
    <3>2. Head(list) = list[1] /\ list[1] \in ToSet(list)
      BY <1>1, <1>3, <3>1, PopList
    <3>3. list[1] \in Requests
      BY <1>1, <1>3, <3>2, FrontOfList DEF ListsInv, Inv
    <3> QED
      BY <1>1, <3>2, <3>3 DEF ListsInv, Lists, Listed
  <2>2. \A k, r : Listed(k, r)' <=> Listed(k, r)
    BY <1>1 DEF Listed
  <2>3. /\ \A q \in Requests \ {p} :
             (InLoopBody(q)' <=> InLoopBody(q)) /\ cur'[q] = cur[q]
        /\ cur'[p] = list[1]
    BY <1>1, <1>3, <2>1 DEF InLoopBody
  <2>4. Lists'
    BY <1>1, <2>2 DEF ListsInv, Lists
  <2>5. FrontInHand'
    BY <1>1, <2>1, <2>2, <2>3 DEF ListsInv, FrontInHand
  <2>6. ASSUME NEW r \in Requests, Untouched(r)
        PROVE  Untouched(r)'
    <3>1. r # list[1]
      BY <1>1, <2>1, <2>6 DEF Untouched
    <3>2. pc'[r] = "none"
      BY <1>1, <1>3, <2>6 DEF Untouched
    <3> QED
      BY <2>2, <2>3, <2>6, <3>1, <3>2 DEF Untouched
  <2>7. Fresh'
    BY <1>1, <2>6 DEF ListsInv, Fresh
  <2>8. NoDanglingPointer'
    <3>1. \A q \in Requests : pc[q] = "pop" => pc'[q] = "pop" /\ cur'[q] = cur[q]
      BY <1>1, <1>3
    <3> QED
      BY <1>1, <3>1 DEF ListsInv, NoDanglingPointer
  <2> QED
    BY <2>4, <2>5, <2>7, <2>8
<1> QED
  BY <1>2, <1>3 DEF TakeFront, Goto

(* UnmarkCancelable: the framework's part changes, the lists do not.       *)
LEMMA UnmarkLists ==
  ASSUME ListsInv, NEW p \in Requests, UnmarkCancelable(p)
  PROVE  Lists' /\ Fresh' /\ FrontInHand' /\ NoDanglingPointer'
<1>1. /\ pc[p] = "unmark" /\ UNCHANGED <<waitIpr, callback, cur>>
      /\ cur[p] \in Requests
      /\ pc \in [Requests -> PollerSteps] /\ io \in [Requests -> IoStates]
  BY DEF UnmarkCancelable, ListsInv, Inv, TypeOK
<1>2. \E step \in {"unmark", "complete", "pop"} :
        pc' = [pc EXCEPT ![p] = step]
  BY <1>1 DEF UnmarkCancelable, Goto
<1>3. \A q \in Requests :
        /\ InLoopBody(q)' <=> InLoopBody(q)
        /\ pc[q] = "pop" => pc'[q] = "pop"
        /\ pc[q] = "none" => pc'[q] = "none"
  BY <1>1, <1>2 DEF InLoopBody
<1>4. io' \in {io, [io EXCEPT ![cur[p]] = "owned"]}
  BY DEF UnmarkCancelable
<1>5. ~Untouched(cur[p])
  BY <1>1 DEF Untouched, InLoopBody
<1>6. Fresh'
  <2>1. \A r \in Requests : r # cur[p] => io'[r] = io[r]
    BY <1>1, <1>4
  <2>2. io'[cur[p]] # "new"
    BY <1>1, <1>4, <1>5 DEF ListsInv, Fresh
  <2> QED
    BY <1>1, <1>3, <1>5, <2>1, <2>2, HandsKept DEF ListsInv, Fresh
<1>7. \A r \in Requests : io'[r] = "done" => io[r] = "done"
  BY <1>1, <1>4
<1> QED
  BY <1>1, <1>3, <1>6, <1>7, HandsKept, NothingDangles

(* A thread that completes its request has its pop_front() before it.      *)
LEMMA CompleteRequestLists ==
  ASSUME ListsInv, NEW p \in Requests, CompleteRequest(p)
  PROVE  Lists' /\ Fresh' /\ FrontInHand' /\ NoDanglingPointer'
<1>1. /\ pc[p] = "complete" /\ pc' = [pc EXCEPT ![p] = "pop"]
      /\ UNCHANGED <<waitIpr, callback, cur>>
      /\ cur[p] \in Requests /\ io' = [io EXCEPT ![cur[p]] = "done"]
      /\ pc \in [Requests -> PollerSteps] /\ io \in [Requests -> IoStates]
  BY DEF CompleteRequest, Complete, Goto, ListsInv, Inv, TypeOK
<1>2. \A q \in Requests :
        /\ InLoopBody(q)' <=> InLoopBody(q)
        /\ pc[q] = "pop" => pc'[q] = "pop"
        /\ pc[q] = "none" => pc'[q] = "none"
  BY <1>1 DEF InLoopBody
<1>3. ~Untouched(cur[p])
  BY <1>1 DEF Untouched, InLoopBody
<1>4. Fresh'
  <2>1. \A r \in Requests : r # cur[p] => io'[r] = io[r]
    BY <1>1
  <2>2. io'[cur[p]] # "new"
    BY <1>1
  <2> QED
    BY <1>1, <1>2, <1>3, <2>1, <2>2, HandsKept DEF ListsInv, Fresh
<1>5. NoDanglingPointer'
  <2>1. ASSUME NEW k \in Kinds, NEW r \in Requests,
               r \in ToSet(waitIpr'[k]), io'[r] = "done"
        PROVE  \E q \in Requests : pc'[q] = "pop" /\ cur'[q] = r
    <3>1. CASE r = cur[p]
      BY <1>1, <3>1
    <3>2. CASE r # cur[p]
      BY <1>1, <1>2, <2>1, <3>2 DEF ListsInv, NoDanglingPointer
    <3> QED
      BY <3>1, <3>2
  <2> QED
    BY <2>1 DEF NoDanglingPointer
<1> QED
  BY <1>1, <1>2, <1>4, <1>5, HandsKept

(* pop_front() removes the request in hand if it is still there, because   *)
(* then it is at the front.                                                *)
LEMMA PopFrontLists ==
  ASSUME ListsInv, NEW p \in Requests, PopFront(p)
  PROVE  Lists' /\ Fresh' /\ FrontInHand' /\ NoDanglingPointer'
<1> DEFINE k == Kind(p)
           list == waitIpr[k]
<1>1. /\ pc[p] = "pop" /\ UNCHANGED <<io, callback>>
      /\ k \in Kinds /\ list \in Seq(Requests)
      /\ waitIpr \in [Kinds -> Seq(Requests)]
      /\ pc \in [Requests -> PollerSteps]
      /\ cur \in [Requests -> Requests \cup {NoRequest}]
  BY KindType DEF PopFront, ListsInv, Inv, TypeOK
<1>2. CASE UNCHANGED <<waitIpr, pc, cur>>
  <2>1. \A q \in Requests : InLoopBody(q)' <=> InLoopBody(q)
    BY <1>2 DEF InLoopBody
  <2>2. Fresh'
    BY <1>1, <1>2, <2>1, HandsKept DEF ListsInv, Fresh
  <2> QED
    BY <1>1, <1>2, <2>1, <2>2, HandsKept, NothingDangles
<1>3. CASE /\ list # <<>>
           /\ waitIpr' = [waitIpr EXCEPT ![k] = Tail(@)]
           /\ pc' = [pc EXCEPT ![p] = "inner"]
           /\ cur' = [cur EXCEPT ![p] = NoRequest]
  <2>1. NoDuplicates(list)
    BY <1>1 DEF ListsInv, Lists
  <2> PICK first : first = list[1]
    OBVIOUS
  <2> HIDE DEF k
  <2>2. /\ NoDuplicates(waitIpr'[k])
        /\ \A q : q \in ToSet(waitIpr'[k]) <=> q \in ToSet(list) /\ q # first
        /\ \A l \in Kinds \ {k} : waitIpr'[l] = waitIpr[l]
    BY <1>1, <1>3, <2>1, PopList
  <2>3. /\ \A l \in Kinds : \A q : Listed(l, q)' => Listed(l, q)
        /\ ~Listed(k, first)'
    BY <2>2 DEF Listed
  <2>4. \A q \in Requests :
          /\ InLoopBody(q)' => q # p /\ InLoopBody(q)
          /\ pc[q] = "none" => pc'[q] = "none"
          /\ q # p => pc'[q] = pc[q] /\ cur'[q] = cur[q]
    BY <1>1, <1>3 DEF InLoopBody
  <2>5. Lists'
    BY <2>2, <2>3 DEF ListsInv, Lists
  <2>6. FrontInHand'
    <3>1. ASSUME NEW q \in Requests, NEW r \in Requests,
                 InLoopBody(q)', cur'[q] = r
          PROVE  /\ Kind(r) = Kind(q)
                 /\ Listed(Kind(q), r)' => waitIpr'[Kind(q)][1] = r
      <4>1. InLoopBody(q) /\ cur[q] = r /\ Kind(q) \in Kinds
        BY <2>4, <3>1, KindType
      <4>2. /\ Kind(r) = Kind(q)
            /\ Listed(Kind(q), r) => waitIpr[Kind(q)][1] = r
        BY <4>1 DEF ListsInv, FrontInHand
      <4>3. CASE Kind(q) = k
        <5>1. Listed(k, r) => r = first
          BY <4>2, <4>3
        <5>2. ~Listed(k, r)'
          BY <1>1, <2>3, <5>1
        <5> QED
          BY <4>2, <4>3, <5>2
      <4>4. CASE Kind(q) # k
        BY <2>2, <2>3, <4>1, <4>2, <4>4
      <4> QED
        BY <4>3, <4>4
    <3> QED
      BY <3>1 DEF FrontInHand
  <2>7. \A r \in Requests : Untouched(r) => Untouched(r)'
    BY <2>3, <2>4 DEF Untouched
  <2>8. Fresh'
    BY <1>1, <2>7 DEF ListsInv, Fresh
  <2>9. NoDanglingPointer'
    <3>1. ASSUME NEW l \in Kinds, NEW r \in Requests,
                 r \in ToSet(waitIpr'[l]), io'[r] = "done"
          PROVE  \E q \in Requests : pc'[q] = "pop" /\ cur'[q] = r
      <4>1. Listed(l, r) /\ Listed(l, r)' /\ io[r] = "done" /\ Kind(r) = l
        BY <1>1, <2>3, <3>1 DEF Listed, ListsInv, Lists
      <4>2. PICK q \in Requests : pc[q] = "pop" /\ cur[q] = r
        BY <4>1 DEF Listed, ListsInv, NoDanglingPointer
      <4>3. Kind(q) = l /\ waitIpr[l][1] = r
        BY <4>1, <4>2 DEF ListsInv, FrontInHand, InLoopBody
      <4>4. q # p
        <5>1. CASE q = p
          <6>1. l = k /\ r = first
            BY <4>3, <5>1 DEF k
          <6> QED
            BY <2>3, <4>1, <6>1
        <5> QED
          BY <5>1
      <4> QED
        BY <2>4, <4>2, <4>4
    <3> QED
      BY <3>1 DEF NoDanglingPointer
  <2> QED
    BY <2>5, <2>6, <2>8, <2>9
<1> QED
  BY <1>2, <1>3 DEF PopFront, Goto

(* Every step preserves the invariant of the lists.                        *)
LEMMA NextLists == ListsInv /\ [Next]_vars => ListsInv'
<1> SUFFICES ASSUME ListsInv, [Next]_vars
             PROVE  Lists' /\ Fresh' /\ FrontInHand' /\ NoDanglingPointer'
  BY NextType, NextOneCompleter DEF ListsInv, Inv
<1>1. ASSUME NEW r \in Requests, Cancel(r)
      PROVE  Lists' /\ Fresh' /\ FrontInHand' /\ NoDanglingPointer'
  <2>1. /\ io[r] \in {"owned", "cancelable"}
        /\ io' = [io EXCEPT ![r] = IF @ = "cancelable" THEN "canceling" ELSE @]
        /\ UNCHANGED <<waitIpr, callback, pc, cur>>
        /\ io \in [Requests -> IoStates]
    BY <1>1 DEF Cancel, ListsInv, Inv, TypeOK
  <2>2. \A p \in Requests : InLoopBody(p)' <=> InLoopBody(p)
    BY <2>1 DEF InLoopBody
  <2>3. \A q \in Requests :
          /\ io'[q] = "new" => io[q] = "new"
          /\ io'[q] = "done" => io[q] = "done"
          /\ io[q] \in {"cancelable", "canceling", "ignored"} =>
               io'[q] \in {"cancelable", "canceling", "ignored"}
    BY <2>1
  <2>4. Fresh'
    BY <2>1, <2>2, <2>3, HandsKept DEF ListsInv, Fresh
  <2> QED
    BY <2>1, <2>2, <2>3, <2>4, HandsKept, NothingDangles
<1>2. CASE ListRace \/ CardChanges \/ UNCHANGED vars
  <2>1. UNCHANGED <<waitIpr, io, callback, pc, cur>>
    BY <1>2 DEF ListRace, CardChanges, vars
  <2>2. \A p \in Requests : InLoopBody(p)' <=> InLoopBody(p)
    BY <2>1 DEF InLoopBody
  <2>3. Fresh'
    BY <2>1, <2>2, HandsKept DEF ListsInv, Fresh
  <2> QED
    BY <2>1, <2>2, <2>3, HandsKept, NothingDangles
<1> QED
  BY <1>1, <1>2, DispatchLists, HandlerAnswerLists, TestEmptyLists, PushLists,
     OnCancelLists, CompleteCancelledLists, OutsideLoopBodyLists,
     TakeFrontLists, UnmarkLists, CompleteRequestLists, PopFrontLists
     DEF Next, Callback, Poller

(* A completed request is in a list only until the thread that completed   *)
(* it has executed its pop_front() (device.cpp:64-67, 137-140), although   *)
(* other threads may pop and OnCancel may remove meanwhile.                *)
THEOREM NoDanglingPointerHolds == Spec => []NoDanglingPointer
<1>1. Init => ListsInv
  BY InitLists
<1>2. ListsInv /\ [Next]_vars => ListsInv'
  BY NextLists
<1>3. ListsInv => NoDanglingPointer
  BY DEF ListsInv
<1> QED
  BY <1>1, <1>2, <1>3, PTL DEF Spec

-----------------------------------------------------------------------------
(* Threads.                                                                *)

(* CreateThread succeeds, and Sleep(SLEEP_TIME) is longer than a handler   *)
(* takes from its empty() to its push_back().                              *)
CreationAndSleep == ~ThreadCreationFails /\ SleepOutlastsHandler

(* A thread that does not end before the handler of r has pushed it.       *)
Stays(p, r) ==
  \/ pc[p] \in {"inner", "front", "unmark", "complete", "pop"}
  \/ pc[p] = "sleep" /\ window[p] = r

(* A handler that relies on a thread it has not created is between its     *)
(* empty() and its push_back(); if the list it saw has become empty since, *)
(* then a thread stays.                                                    *)
HandlerIsWatched ==
  \A r \in Requests :
    callback.at = "push" /\ ~callback.newThread /\ callback.request = r =>
      \/ waitIpr[Kind(r)] # <<>>
      \/ \E p \in Requests : Kind(p) = Kind(r) /\ Stays(p, r)

WatchInv == TypeOK /\ WaitersAreWatched /\ HandlerIsWatched

(* Nothing waits at first.                                                 *)
LEMMA InitWatch == Init => WatchInv
BY InitType DEF Init, Idle, WatchInv, WaitersAreWatched, HandlerIsWatched

(* Steps of a callback that touch no list and no thread.                   *)
LEMMA CallbackWatch ==
  ASSUME WatchInv, UNCHANGED <<waitIpr, pc>>, callback'.at # "push"
  PROVE  WaitersAreWatched' /\ HandlerIsWatched'
BY DEF WatchInv, WaitersAreWatched, HandlerIsWatched

(* Steps that end no thread on which the handler or a list relies.         *)
LEMMA ThreadWatch ==
  ASSUME WatchInv, UNCHANGED <<waitIpr, callback>>,
         \A p \in Requests :
           /\ pc[p] # "none" => pc'[p] # "none" \/ waitIpr[Kind(p)] = <<>>
           /\ \A r \in Requests :
                callback.at = "push" /\ callback.request = r /\ Stays(p, r) =>
                  Stays(p, r)'
  PROVE  WaitersAreWatched' /\ HandlerIsWatched'
<1>1. WaitersAreWatched'
  <2>1. ASSUME NEW k \in Kinds, waitIpr'[k] # <<>>
        PROVE  \E p \in Requests : Kind(p) = k /\ pc'[p] # "none"
    <3>1. PICK p \in Requests : Kind(p) = k /\ pc[p] # "none"
      BY <2>1 DEF WatchInv, WaitersAreWatched
    <3> QED
      BY <2>1, <3>1
  <2> QED
    BY <2>1 DEF WaitersAreWatched
<1>2. HandlerIsWatched'
  <2>1. ASSUME NEW r \in Requests,
               callback.at = "push", ~callback.newThread, callback.request = r
        PROVE  \/ waitIpr[Kind(r)] # <<>>
               \/ \E p \in Requests : Kind(p) = Kind(r) /\ Stays(p, r)'
    BY <2>1 DEF WatchInv, HandlerIsWatched
  <2> QED
    BY <2>1 DEF HandlerIsWatched
<1> QED
  BY <1>1, <1>2

(* A list that was not empty at empty() has been seen with its thread.     *)
LEMMA TestEmptyWatch ==
  ASSUME WatchInv, TestEmpty
  PROVE  WaitersAreWatched' /\ HandlerIsWatched'
<1>1. /\ callback'.request = callback.request
      /\ callback'.newThread = (waitIpr[Kind(callback.request)] = <<>>)
      /\ UNCHANGED <<waitIpr, pc>>
  BY DEF TestEmpty, WatchInv, TypeOK
<1>2. WaitersAreWatched'
  BY <1>1 DEF WatchInv, WaitersAreWatched
<1>3. HandlerIsWatched'
  BY <1>1 DEF HandlerIsWatched
<1> QED
  BY <1>2, <1>3

(* A request is pushed when its thread is created or one stays.            *)
LEMMA PushWatch ==
  ASSUME CreationAndSleep, WatchInv, PushAndCreateThread
  PROVE  WaitersAreWatched' /\ HandlerIsWatched'
<1> DEFINE r == callback.request
<1>1. /\ callback.at = "push" /\ r \in Requests /\ Kind(r) \in Kinds
      /\ waitIpr' = [waitIpr EXCEPT ![Kind(r)] = Append(@, r)]
      /\ callback' = Idle
      /\ pc \in [Requests -> PollerSteps]
  BY KindType DEF PushAndCreateThread, WatchInv, TypeOK
<1>2. HandlerIsWatched'
  BY <1>1 DEF HandlerIsWatched, Idle
<1>3. /\ callback.newThread => pc' = [pc EXCEPT ![r] = "outer"]
      /\ ~callback.newThread => pc' = pc
  BY DEF PushAndCreateThread, CreationAndSleep
<1>4. \A p \in Requests : pc[p] # "none" => pc'[p] # "none"
  BY <1>1, <1>3
<1>5. \E p \in Requests : Kind(p) = Kind(r) /\ pc'[p] # "none"
  <2>1. CASE callback.newThread
    BY <1>1, <1>3, <2>1
  <2>2. CASE ~callback.newThread
    <3>1. CASE waitIpr[Kind(r)] # <<>>
      BY <1>1, <1>4, <3>1 DEF WatchInv, WaitersAreWatched
    <3>2. CASE \E p \in Requests : Kind(p) = Kind(r) /\ Stays(p, r)
      BY <1>4, <3>2 DEF Stays
    <3> QED
      BY <1>1, <2>2, <3>1, <3>2 DEF WatchInv, HandlerIsWatched
  <2> QED
    BY <2>1, <2>2
<1>6. ASSUME NEW k \in Kinds, waitIpr'[k] # <<>>
      PROVE  \E p \in Requests : Kind(p) = k /\ pc'[p] # "none"
  <2>1. CASE k = Kind(r)
    BY <1>5, <2>1
  <2>2. CASE k # Kind(r)
    <3>1. waitIpr[k] # <<>>
      BY <1>1, <1>6, <2>2 DEF WatchInv, TypeOK
    <3> QED
      BY <1>4, <3>1 DEF WatchInv, WaitersAreWatched
  <2> QED
    BY <2>1, <2>2
<1> QED
  BY <1>2, <1>6 DEF WaitersAreWatched

(* remove() makes no list longer.                                          *)
LEMMA CompleteCancelledWatch ==
  ASSUME WatchInv, CompleteCancelled
  PROVE  WaitersAreWatched' /\ HandlerIsWatched'
<1> DEFINE r == callback.request
<1>1. /\ waitIpr' = [waitIpr EXCEPT ![Kind(r)] = Without(@, r)]
      /\ callback' = Idle /\ UNCHANGED pc
      /\ waitIpr \in [Kinds -> Seq(Requests)]
  BY DEF CompleteCancelled, WatchInv, TypeOK
<1>2. Without(<<>>, r) = <<>>
  BY NoReplySet DEF Without
<1>3. \A k \in Kinds : waitIpr'[k] # <<>> => waitIpr[k] # <<>>
  BY <1>1, <1>2
<1> QED
  BY <1>1, <1>3
     DEF WatchInv, WaitersAreWatched, HandlerIsWatched, Idle

(* Who pops is in the inner loop afterwards, and stays.                    *)
LEMMA PopFrontWatch ==
  ASSUME WatchInv, NEW p \in Requests, PopFront(p)
  PROVE  WaitersAreWatched' /\ HandlerIsWatched'
<1>1. CASE UNCHANGED <<waitIpr, pc, cur>>
  BY <1>1, ThreadWatch DEF PopFront, Stays
<1>2. CASE /\ waitIpr' = [waitIpr EXCEPT ![Kind(p)] = Tail(@)]
           /\ pc' = [pc EXCEPT ![p] = "inner"]
  <2>1. /\ UNCHANGED <<callback, window>>
        /\ pc \in [Requests -> PollerSteps]
        /\ waitIpr \in [Kinds -> Seq(Requests)]
    BY DEF PopFront, WatchInv, TypeOK
  <2>2. /\ pc'[p] = "inner"
        /\ \A q \in Requests \ {p} : pc'[q] = pc[q]
        /\ \A k \in Kinds \ {Kind(p)} : waitIpr'[k] = waitIpr[k]
    BY <1>2, <2>1
  <2>3. ASSUME NEW k \in Kinds, waitIpr'[k] # <<>>
        PROVE  \E q \in Requests : Kind(q) = k /\ pc'[q] # "none"
    BY <2>2, <2>3 DEF WatchInv, WaitersAreWatched
  <2>4. ASSUME NEW r \in Requests, callback.at = "push",
               ~callback.newThread, callback.request = r
        PROVE  \/ waitIpr'[Kind(r)] # <<>>
               \/ \E q \in Requests : Kind(q) = Kind(r) /\ Stays(q, r)'
    <3>1. CASE Kind(r) = Kind(p)
      BY <2>2, <3>1 DEF Stays
    <3>2. CASE Kind(r) # Kind(p)
      <4>1. \/ waitIpr[Kind(r)] # <<>>
            \/ \E q \in Requests : Kind(q) = Kind(r) /\ Stays(q, r)
        BY <2>4 DEF WatchInv, HandlerIsWatched
      <4> QED
        BY <2>1, <2>2, <3>2, <4>1, KindType DEF Stays
    <3> QED
      BY <3>1, <3>2
  <2> QED
    BY <2>1, <2>3, <2>4 DEF WaitersAreWatched, HandlerIsWatched
<1> QED
  BY <1>1, <1>2 DEF PopFront, Goto

(* The other steps of a thread: it ends only with an empty list before it, *)
(* and goes to sleep knowing the handler that it must outlast.             *)
LEMMA PollerWatch ==
  ASSUME CreationAndSleep, WatchInv, NEW p \in Requests, NEW card,
         \/ TestOuter(p) \/ QueryCard(p, card) \/ TestInner(p)
         \/ TakeFront(p) \/ UnmarkCancelable(p) \/ CompleteRequest(p)
         \/ WakeUp(p)
  PROVE  WaitersAreWatched' /\ HandlerIsWatched'
<1>1. /\ UNCHANGED <<waitIpr, callback>>
      /\ pc \in [Requests -> PollerSteps]
      /\ window \in [Requests -> Requests \cup {NoRequest}]
  BY DEF TestOuter, QueryCard, TestInner, TakeFront, UnmarkCancelable,
         CompleteRequest, WakeUp, WatchInv, TypeOK
<1>2. \A q \in Requests \ {p} : pc'[q] = pc[q] /\ window'[q] = window[q]
  BY <1>1 DEF TestOuter, QueryCard, TestInner, TakeFront, UnmarkCancelable,
              CompleteRequest, WakeUp, FallAsleep, Goto
<1>3. pc'[p] # "none" \/ waitIpr[Kind(p)] = <<>>
  BY <1>1 DEF TestOuter, QueryCard, TestInner, TakeFront, UnmarkCancelable,
              CompleteRequest, WakeUp, FallAsleep, Goto
<1>4. ASSUME NEW r \in Requests, callback.at = "push",
             callback.request = r, Stays(p, r)
      PROVE  Stays(p, r)'
  <2>1. CASE TestOuter(p) \/ QueryCard(p, card)
    BY <1>4, <2>1 DEF TestOuter, QueryCard, Stays
  <2>2. CASE TestInner(p)
    BY <1>1, <1>4, <2>2
       DEF TestInner, FallAsleep, HandlerInWindow, Goto, Stays
  <2>3. CASE TakeFront(p) \/ UnmarkCancelable(p) \/ CompleteRequest(p)
    BY <1>1, <1>4, <2>3
       DEF TakeFront, UnmarkCancelable, CompleteRequest, Goto, Stays
  <2>4. CASE WakeUp(p)
    BY <1>4, <2>4, RequestsAssumption
       DEF WakeUp, HandlerInWindow, CreationAndSleep, Stays
  <2> QED
    BY <2>1, <2>2, <2>3, <2>4
<1> QED
  BY <1>1, <1>2, <1>3, <1>4, ThreadWatch DEF Stays

(* Every step keeps each list watched.                                     *)
LEMMA NextWatch ==
  ASSUME CreationAndSleep, WatchInv, [Next]_vars
  PROVE  WatchInv'
<1>1. TypeOK'
  BY NextType DEF WatchInv
<1> SUFFICES WaitersAreWatched' /\ HandlerIsWatched'
  BY <1>1 DEF WatchInv
<1>2. ASSUME NEW r \in Requests, Dispatch(r) \/ OnCancel(r)
      PROVE  WaitersAreWatched' /\ HandlerIsWatched'
  <2>1. UNCHANGED <<waitIpr, pc>> /\ callback'.at # "push"
    <3>1. /\ Idle.at = "idle"
          /\ [Idle EXCEPT !.at = "query", !.request = r].at = "query"
          /\ [Idle EXCEPT !.at = "cancel", !.request = r].at = "cancel"
      BY DEF Idle
    <3> QED
      BY <1>2, <3>1 DEF Dispatch, OnCancel
  <2> QED
    BY <2>1, CallbackWatch
<1>3. CASE AnswerAtOnce(present) \/ MarkCancelable(present)
  <2>1. UNCHANGED <<waitIpr, pc>> /\ callback'.at # "push"
    BY <1>3 DEF AnswerAtOnce, MarkCancelable, Idle, WatchInv, TypeOK
  <2> QED
    BY <2>1, CallbackWatch
<1>4. ASSUME UNCHANGED <<waitIpr, callback, pc, window>>
      PROVE  WaitersAreWatched' /\ HandlerIsWatched'
  BY <1>4, ThreadWatch DEF Stays
<1>5. CASE ListRace \/ CardChanges \/ UNCHANGED vars
  BY <1>4, <1>5 DEF ListRace, CardChanges, vars
<1>6. ASSUME NEW r \in Requests, Cancel(r)
      PROVE  WaitersAreWatched' /\ HandlerIsWatched'
  BY <1>4, <1>6 DEF Cancel
<1> QED
  BY <1>2, <1>3, <1>5, <1>6, TestEmptyWatch, PushWatch,
     CompleteCancelledWatch, PopFrontWatch, PollerWatch
     DEF Next, Callback, Poller

(* Whenever a request waits, a thread looks after its list                 *)
(* (device.cpp:60, 96-100, 133, 169-173), given that CreateThread succeeds *)
(* and that a thread does not sleep less than a handler needs.             *)
THEOREM WaitersAreWatchedHolds ==
  ASSUME CreationAndSleep
  PROVE  Spec => []WaitersAreWatched
<1>1. Init => WatchInv
  BY InitWatch
<1>2. WatchInv /\ [Next]_vars => WatchInv'
  BY NextWatch
<1>3. WatchInv => WaitersAreWatched
  BY DEF WatchInv
<1> QED
  BY <1>1, <1>2, <1>3, PTL DEF Spec

-----------------------------------------------------------------------------
(* Requests that nobody completes.                                         *)

(* A thread has not left the request it is about to pop to OnCancel or     *)
(* other threads: it has completed it, or could not take it back.          *)
NotLeftCancelable ==
  \A p \in Requests : pc[p] = "pop" => io[cur[p]] # "cancelable"

(* What is with OnCancel has been cancelled by its sender.                 *)
OnlyOnDemand ==
  \A r \in Requests : io[r] \in {"canceling", "ignored"} =>
    r \in cancelRequested

HoldInv == ListsInv /\ OwnedHasCompleter /\ NotLeftCancelable /\ OnlyOnDemand

(* At first no request is with the driver.                                 *)
LEMMA InitHold == Init => HoldInv
BY InitLists
   DEF Init, HoldInv, OwnedHasCompleter, NotLeftCancelable, OnlyOnDemand

(* What the steps of the callbacks mean for who has a request.             *)
LEMMA CallbackHold ==
  ASSUME HoldInv, NEW card,
         \/ AnswerAtOnce(card) \/ MarkCancelable(card) \/ TestEmpty
         \/ PushAndCreateThread \/ CompleteCancelled
         \/ \E r \in Requests : Dispatch(r) \/ OnCancel(r)
  PROVE  OwnedHasCompleter' /\ NotLeftCancelable' /\ OnlyOnDemand'
<1> USE DEF HoldInv, OwnedHasCompleter, NotLeftCancelable, OnlyOnDemand
<1>1. /\ io \in [Requests -> IoStates] /\ pc \in [Requests -> PollerSteps]
      /\ UNCHANGED <<cur, cancelRequested>>
      /\ \A p \in Requests : pc[p] \in {"complete", "pop"} => cur[p] \in Requests
  BY DEF AnswerAtOnce, MarkCancelable, TestEmpty, PushAndCreateThread,
         CompleteCancelled, Dispatch, OnCancel, ListsInv, Inv, TypeOK
<1>2. ASSUME NEW r \in Requests, Dispatch(r)
      PROVE  OwnedHasCompleter' /\ NotLeftCancelable' /\ OnlyOnDemand'
  <2>1. /\ callback.at = "idle" /\ io' = [io EXCEPT ![r] = "owned"]
        /\ callback'.at = "query" /\ callback'.request = r /\ UNCHANGED pc
    BY <1>2 DEF Dispatch, Idle
  <2> QED
    BY <1>1, <2>1
<1>3. CASE AnswerAtOnce(card)
  <2>1. /\ callback.request \in Requests
        /\ io' = [io EXCEPT ![callback.request] = "done"] /\ UNCHANGED pc
    BY <1>3 DEF AnswerAtOnce, Complete, ListsInv, Inv, TypeOK
  <2> QED
    BY <1>1, <2>1
<1>4. CASE MarkCancelable(card)
  <2> DEFINE q == callback.request
  <2>1. q \in Requests /\ Untouched(q) /\ UNCHANGED pc
    BY <1>4 DEF MarkCancelable, ListsInv, Fresh, Inv, TypeOK
  <2>2. \E s \in {"ignored", "canceling", "cancelable"} :
          /\ io' = [io EXCEPT ![q] = s]
          /\ s # "cancelable" => q \in cancelRequested
    BY <1>4 DEF MarkCancelable
  <2>3. \A p \in Requests : pc[p] = "pop" => cur[p] # q
    BY <2>1 DEF Untouched, InLoopBody
  <2> QED
    BY <1>1, <2>1, <2>2, <2>3
<1>5. CASE TestEmpty \/ PushAndCreateThread
  <2>1. /\ callback.at # "query" /\ UNCHANGED io
        /\ \A p \in Requests :
             /\ pc'[p] = "complete" <=> pc[p] = "complete"
             /\ pc'[p] = "pop" => pc[p] = "pop"
    <3>1. CASE TestEmpty
      BY <3>1 DEF TestEmpty
    <3>2. CASE PushAndCreateThread
      <4>1. callback.at = "push" /\ callback.request \in Requests
        BY <3>2 DEF PushAndCreateThread, ListsInv, Inv, TypeOK
      <4>2. pc[callback.request] = "none"
        BY <4>1 DEF ListsInv, Fresh, Untouched
      <4> QED
        BY <1>1, <3>2, <4>1, <4>2 DEF PushAndCreateThread
    <3> QED
      BY <1>5, <3>1, <3>2
  <2> QED
    BY <1>1, <2>1
<1>6. CASE CompleteCancelled
  <2>1. /\ callback.at = "cancel" /\ callback.request \in Requests
        /\ io' = [io EXCEPT ![callback.request] = "done"] /\ UNCHANGED pc
    BY <1>6 DEF CompleteCancelled, Complete, ListsInv, Inv, TypeOK
  <2> QED
    BY <1>1, <2>1
<1>7. ASSUME NEW r \in Requests, OnCancel(r)
      PROVE  OwnedHasCompleter' /\ NotLeftCancelable' /\ OnlyOnDemand'
  <2>1. /\ callback.at = "idle" /\ io[r] = "canceling" /\ UNCHANGED pc
        /\ io' \in {io, [io EXCEPT ![r] = "ignored"]}
    BY <1>7 DEF OnCancel, Idle
  <2> QED
    BY <1>1, <2>1
<1> QED
  BY <1>2, <1>3, <1>4, <1>5, <1>6, <1>7

(* The same of the threads' steps.                                         *)
LEMMA PollerHold ==
  ASSUME HoldInv, NEW card, NEW p \in Requests,
         \/ TestOuter(p) \/ QueryCard(p, card) \/ TestInner(p) \/ WakeUp(p)
         \/ TakeFront(p) \/ UnmarkCancelable(p) \/ CompleteRequest(p)
         \/ PopFront(p)
  PROVE  OwnedHasCompleter' /\ NotLeftCancelable' /\ OnlyOnDemand'
<1> USE DEF HoldInv, OwnedHasCompleter, NotLeftCancelable, OnlyOnDemand
<1>1. /\ io \in [Requests -> IoStates] /\ pc \in [Requests -> PollerSteps]
      /\ cur \in [Requests -> Requests \cup {NoRequest}]
      /\ UNCHANGED <<callback, cancelRequested>>
      /\ \A q \in Requests :
           pc[q] \in {"unmark", "complete", "pop"} => cur[q] \in Requests
  BY DEF TestOuter, QueryCard, TestInner, WakeUp, TakeFront,
         UnmarkCancelable, CompleteRequest, PopFront, ListsInv, Inv, TypeOK
<1>2. CASE \/ TestOuter(p) \/ QueryCard(p, card) \/ TestInner(p) \/ WakeUp(p)
           \/ TakeFront(p) \/ PopFront(p)
  <2>1. UNCHANGED io /\ pc[p] # "complete"
    BY <1>2 DEF TestOuter, QueryCard, TestInner, WakeUp, TakeFront, PopFront
  <2>2. pc'[p] \in {"complete", "pop"} => pc'[p] = pc[p] /\ cur'[p] = cur[p]
    BY <1>1, <1>2 DEF TestOuter, QueryCard, TestInner, WakeUp, TakeFront,
                      PopFront, FallAsleep, Goto
  <2>3. \A q \in Requests \ {p} : pc'[q] = pc[q] /\ cur'[q] = cur[q]
    BY <1>1, <1>2 DEF TestOuter, QueryCard, TestInner, WakeUp, TakeFront,
                      PopFront, FallAsleep, Goto
  <2> QED
    BY <1>1, <2>1, <2>2, <2>3
<1>3. CASE UnmarkCancelable(p)
  <2>1. pc[p] = "unmark" /\ cur[p] \in Requests /\ UNCHANGED cur
    BY <1>1, <1>3 DEF UnmarkCancelable
  <2>2. CASE /\ io' = [io EXCEPT ![cur[p]] = "owned"]
             /\ pc' = [pc EXCEPT ![p] = "complete"]
    BY <1>1, <2>1, <2>2
  <2>3. CASE /\ io[cur[p]] # "cancelable" /\ UNCHANGED io
             /\ pc' \in {pc, [pc EXCEPT ![p] = "pop"]}
    BY <1>1, <2>1, <2>3
  <2> QED
    BY <1>3, <2>2, <2>3 DEF UnmarkCancelable, Goto
<1>4. CASE CompleteRequest(p)
  <2>1. /\ pc[p] = "complete" /\ cur[p] \in Requests /\ UNCHANGED cur
        /\ io' = [io EXCEPT ![cur[p]] = "done"]
        /\ pc' = [pc EXCEPT ![p] = "pop"]
    BY <1>1, <1>4 DEF CompleteRequest, Complete, Goto
  <2> QED
    BY <1>1, <2>1
<1> QED
  BY <1>2, <1>3, <1>4

(* Every step preserves who has a request.                                 *)
LEMMA NextHold == HoldInv /\ [Next]_vars => HoldInv'
<1> SUFFICES ASSUME HoldInv, [Next]_vars
             PROVE  OwnedHasCompleter' /\ NotLeftCancelable' /\ OnlyOnDemand'
  BY NextLists DEF HoldInv
<1>1. ASSUME NEW r \in Requests, Cancel(r)
      PROVE  OwnedHasCompleter' /\ NotLeftCancelable' /\ OnlyOnDemand'
  BY <1>1 DEF Cancel, HoldInv, ListsInv, Inv, TypeOK, OwnedHasCompleter,
              NotLeftCancelable, OnlyOnDemand
<1>2. CASE ListRace \/ CardChanges \/ UNCHANGED vars
  BY <1>2 DEF ListRace, CardChanges, vars, HoldInv, OwnedHasCompleter,
              NotLeftCancelable, OnlyOnDemand
<1> QED
  BY <1>1, <1>2, CallbackHold, PollerHold DEF Next, Callback, Poller

(* HoldInv is an invariant.                                                *)
LEMMA HoldInvHolds == Spec => []HoldInv
<1>1. Init => HoldInv
  BY InitHold
<1>2. HoldInv /\ [Next]_vars => HoldInv'
  BY NextHold
<1> QED
  BY <1>1, <1>2, PTL DEF Spec

(* A request that not even its sender can cancel, since the driver has     *)
(* taken it back, is with the one who completes it next                    *)
(* (device.cpp:64-65, 85-92, 137-138).                                     *)
THEOREM OwnedHasCompleterHolds == Spec => []OwnedHasCompleter
BY HoldInvHolds, PTL DEF HoldInv

(* No step of a callback loses a request that is not completed.            *)
LEMMA CallbackKeeps ==
  ASSUME HoldInv, NEW card, NEW r \in Requests, Attended(r), io'[r] # "done",
         \/ AnswerAtOnce(card) \/ MarkCancelable(card) \/ TestEmpty
         \/ PushAndCreateThread \/ CompleteCancelled
         \/ \E q \in Requests : Dispatch(q) \/ OnCancel(q)
  PROVE  Attended(r)'
<1>1. /\ io \in [Requests -> IoStates] /\ pc \in [Requests -> PollerSteps]
      /\ waitIpr \in [Kinds -> Seq(Requests)] /\ UNCHANGED cur
      /\ callback.at # "idle" => callback.request \in Requests
      /\ Kind(r) \in Kinds
  BY KindType
     DEF AnswerAtOnce, MarkCancelable, TestEmpty, PushAndCreateThread,
         CompleteCancelled, Dispatch, OnCancel, HoldInv, ListsInv, Inv, TypeOK
<1>2. ASSUME NEW q \in Requests, Dispatch(q) \/ OnCancel(q)
      PROVE  Attended(r)'
  <2>1. UNCHANGED <<waitIpr, pc>> /\ callback = Idle
    BY <1>2 DEF Dispatch, OnCancel
  <2>2. callback.request # r
    BY <2>1, RequestsAssumption DEF Idle
  <2> QED
    BY <1>1, <2>1, <2>2 DEF Attended
<1>3. CASE AnswerAtOnce(card)
  <2>1. /\ callback.request \in Requests /\ UNCHANGED <<waitIpr, pc>>
        /\ io' = [io EXCEPT ![callback.request] = "done"]
    BY <1>1, <1>3 DEF AnswerAtOnce, Complete
  <2> QED
    BY <1>1, <2>1 DEF Attended
<1>4. CASE MarkCancelable(card) \/ TestEmpty
  <2>1. UNCHANGED <<waitIpr, pc>> /\ callback'.request = callback.request
    BY <1>4 DEF MarkCancelable, TestEmpty, HoldInv, ListsInv, Inv, TypeOK
  <2> QED
    BY <1>1, <2>1 DEF Attended
<1>5. CASE PushAndCreateThread
  <2> DEFINE q == callback.request
  <2>1. /\ callback.at = "push" /\ q \in Requests
        /\ waitIpr' = [waitIpr EXCEPT ![Kind(q)] = Append(@, q)]
        /\ pc' \in {pc, [pc EXCEPT ![q] = "outer"]}
    BY <1>1, <1>5 DEF PushAndCreateThread
  <2>2. Untouched(q) /\ Kind(q) \in Kinds
    BY <2>1, KindType DEF HoldInv, ListsInv, Fresh
  <2>3. waitIpr[Kind(q)] \in Seq(Requests) /\ NoDuplicates(waitIpr[Kind(q)])
    BY <1>1, <2>2 DEF HoldInv, ListsInv, Lists
  <2>4. \A s : s \in ToSet(waitIpr'[Kind(q)]) <=>
                s \in ToSet(waitIpr[Kind(q)]) \/ s = q
    BY <1>1, <2>1, <2>2, <2>3, PushBack DEF Untouched, Listed
  <2>5. \A k \in Kinds \ {Kind(q)} : waitIpr'[k] = waitIpr[k]
    BY <1>1, <2>1
  <2>6. \A p \in Requests : pc[p] = "complete" => pc'[p] = "complete"
    BY <1>1, <2>1, <2>2 DEF Untouched
  <2> QED
    BY <1>1, <2>1, <2>4, <2>5, <2>6 DEF Attended
<1>6. CASE CompleteCancelled
  <2> DEFINE q == callback.request
  <2>1. /\ q \in Requests /\ UNCHANGED pc
        /\ io' = [io EXCEPT ![q] = "done"]
        /\ waitIpr' = [waitIpr EXCEPT ![Kind(q)] = Without(@, q)]
    BY <1>1, <1>6 DEF CompleteCancelled, Complete
  <2>2. waitIpr[Kind(r)] \in Seq(Requests) /\ NoDuplicates(waitIpr[Kind(r)])
    BY <1>1 DEF HoldInv, ListsInv, Lists
  <2>3. r # q
    BY <1>1, <2>1
  <2>4. r \in ToSet(waitIpr[Kind(r)]) => r \in ToSet(waitIpr'[Kind(r)])
    BY <1>1, <2>1, <2>2, <2>3, RemoveFrom
  <2> QED
    BY <1>1, <2>1, <2>3, <2>4 DEF Attended
<1> QED
  BY <1>2, <1>3, <1>4, <1>5, <1>6

(* No step of a thread does, but a pop_front().                            *)
LEMMA PollerKeeps ==
  ASSUME HoldInv, NEW card, NEW r \in Requests, Attended(r), io'[r] # "done",
         NEW p \in Requests,
         \/ TestOuter(p) \/ QueryCard(p, card) \/ TestInner(p) \/ WakeUp(p)
         \/ TakeFront(p) \/ UnmarkCancelable(p) \/ CompleteRequest(p)
  PROVE  Attended(r)'
<1>1. /\ io \in [Requests -> IoStates] /\ pc \in [Requests -> PollerSteps]
      /\ cur \in [Requests -> Requests \cup {NoRequest}]
      /\ UNCHANGED <<waitIpr, callback>>
  BY DEF TestOuter, QueryCard, TestInner, WakeUp, TakeFront,
         UnmarkCancelable, CompleteRequest, HoldInv, ListsInv, Inv, TypeOK
<1>2. \A q \in Requests \ {p} : pc'[q] = pc[q] /\ cur'[q] = cur[q]
  BY <1>1 DEF TestOuter, QueryCard, TestInner, WakeUp, TakeFront,
              UnmarkCancelable, CompleteRequest, FallAsleep, Goto
<1>3. ASSUME pc[p] = "complete", cur[p] = r
      PROVE  io'[r] = "done"
  BY <1>1, <1>3 DEF TestOuter, QueryCard, TestInner, WakeUp, TakeFront,
                    UnmarkCancelable, CompleteRequest, Complete
<1> QED
  BY <1>1, <1>2, <1>3 DEF Attended

(* A pop_front() that removes a request nobody has answered and nobody     *)
(* else has: the request is cancelled, or it is not the one in hand.       *)
LEMMA PopLoses ==
  ASSUME HoldInv, NEW r \in Requests, Attended(r), ~Attended(r)',
         io'[r] # "done", NEW p \in Requests, PopFront(p)
  PROVE  r \in cancelRequested \/ PoppedInPlace(p, r)
<1> DEFINE k == Kind(p)
           list == waitIpr[k]
<1>1. /\ pc[p] = "pop" /\ cur[p] \in Requests /\ UNCHANGED <<io, callback>>
      /\ io \in [Requests -> IoStates] /\ pc \in [Requests -> PollerSteps]
      /\ cur \in [Requests -> Requests \cup {NoRequest}]
      /\ waitIpr \in [Kinds -> Seq(Requests)] /\ k \in Kinds
      /\ Kind(r) \in Kinds
  BY KindType DEF PopFront, HoldInv, ListsInv, Inv, TypeOK
<1>2. /\ list # <<>> /\ waitIpr' = [waitIpr EXCEPT ![k] = Tail(@)]
      /\ pc' = [pc EXCEPT ![p] = "inner"]
      /\ cur' = [cur EXCEPT ![p] = NoRequest]
  <2>1. ~UNCHANGED <<waitIpr, pc, cur, callback>>
    BY DEF Attended
  <2> QED
    BY <1>1, <2>1 DEF PopFront, Goto
<1>3. /\ \A q : q \in ToSet(Tail(list)) <=> q \in ToSet(list) /\ q # list[1]
      /\ Head(list) = list[1]
  <2>1. list \in Seq(Requests) /\ NoDuplicates(list)
    BY <1>1 DEF HoldInv, ListsInv, Lists
  <2> QED
    BY <1>2, <2>1, PopList
<1>4. /\ callback.request # r
      /\ \A q \in Requests : pc[q] = "complete" => cur[q] # r
  BY <1>1, <1>2 DEF Attended
<1>5. Kind(r) = k /\ r = list[1] /\ Listed(k, r)
  <2>1. r \in ToSet(waitIpr[Kind(r)]) /\ r \notin ToSet(waitIpr'[Kind(r)])
    BY <1>4 DEF Attended
  <2>2. Kind(r) = k
    BY <1>1, <1>2, <2>1
  <2>3. waitIpr'[k] = Tail(list)
    BY <1>1, <1>2
  <2> QED
    BY <1>3, <2>1, <2>2, <2>3 DEF Listed
<1>6. CASE cur[p] = r
  <2>1. io[r] # "done" /\ io[r] # "cancelable"
    BY <1>1, <1>6 DEF HoldInv, NotLeftCancelable
  <2>2. io[r] # "new"
    BY <1>1, <1>6 DEF HoldInv, ListsInv, Fresh, Untouched, InLoopBody
  <2>3. io[r] # "owned"
    BY <1>4 DEF HoldInv, OwnedHasCompleter
  <2>4. io[r] \in {"canceling", "ignored"}
    BY <1>1, <2>1, <2>2, <2>3 DEF IoStates
  <2> QED
    BY <2>4 DEF HoldInv, OnlyOnDemand
<1>7. CASE cur[p] # r
  <2>1. cur[p] \notin ToSet(list)
    <3>1. Listed(k, cur[p]) => list[1] = cur[p]
      BY <1>1 DEF HoldInv, ListsInv, FrontInHand, InLoopBody
    <3> QED
      BY <1>5, <1>7, <3>1 DEF Listed
  <2> QED
    BY <1>1, <1>2, <1>3, <1>5, <1>7, <2>1 DEF PoppedInPlace
<1> QED
  BY <1>6, <1>7

(* A step that loses a request does so in one of these two ways.           *)
LEMMA NextLoses ==
  ASSUME HoldInv, [Next]_vars, NEW r \in Requests,
         Attended(r), ~Attended(r)', io'[r] # "done"
  PROVE  r \in cancelRequested \/ \E p \in Requests : PoppedInPlace(p, r)
<1>1. CASE UNCHANGED <<waitIpr, callback, pc, cur>>
  BY <1>1 DEF Attended
<1>2. /\ ~(ListRace \/ CardChanges \/ UNCHANGED vars)
      /\ ~\E q \in Requests : Cancel(q)
  BY <1>1 DEF ListRace, CardChanges, Cancel, vars, Attended
<1> QED
  BY <1>2, CallbackKeeps, PollerKeeps, PopLoses DEF Next, Callback, Poller

(* There are two ways only to lose the last hold of a request that is not  *)
(* completed (device.cpp:64-67, 92, 137-140, 556): its sender has          *)
(* cancelled it, or a thread pops it in the place of a request that has    *)
(* been removed before.                                                    *)
THEOREM ForgottenWithCauseHolds == Spec => ForgottenWithCause
<1>1. HoldInv /\ [Next]_vars =>
        [\A r \in Requests :
           Attended(r) /\ ~Attended(r)' /\ io'[r] # "done" =>
             \/ r \in cancelRequested
             \/ \E p \in Requests : PoppedInPlace(p, r)]_vars
  BY NextLoses
<1> QED
  BY <1>1, HoldInvHolds, PTL DEF Spec, ForgottenWithCause
=============================================================================
