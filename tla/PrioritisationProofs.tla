------------------------- MODULE PrioritisationProofs -------------------------
(***************************************************************************)
(* Proofs about the searchers that the plugin's receiver thread and S2E's  *)
(* thread hand to one another, and about the two directions of the socket  *)
(* between window and plugin, for any number of forks, kills, double       *)
(* clicks and batches of links and any sizes of header and buffer.         *)
(***************************************************************************)
EXTENDS Prioritisation, StreamLemmas, FiniteSetTheorems, TLAPS

-----------------------------------------------------------------------------
(* What the threads' state is made of.                                     *)

ExecutorTyped ==
  /\ forks \in Seq(Nat) /\ Len(forks) <= MaxForks
  /\ at \in Seq(Nat) /\ Len(at) = Len(forks) + 1
  /\ states \subseteq 0 .. Len(forks) /\ dead \subseteq 0 .. Len(forks)

HandingTyped ==
  /\ searchers \in Seq(Searcher)
  /\ installed \in DOMAIN searchers /\ pending \in {0} \cup DOMAIN searchers

ThreadTyped ==
  /\ receiver \in {"none", "receive", "filter", "build", "walk", "ended"}
  /\ walked \subseteq Guids /\ excluded \subseteq 0 .. Len(forks)

\* Of the requests that were taken only their number is asked.
TakenTyped == taken \in Seq({taken[i] : i \in DOMAIN taken})

Typed == ExecutorTyped /\ HandingTyped /\ ThreadTyped /\ TakenTyped

-----------------------------------------------------------------------------
(* Who holds what, and asked for when.                                     *)

OneOfEach == installed # pending

\* A fork is younger than every list of dead states a searcher was made with.
ForkedLater == \A i \in DOMAIN searchers : searchers[i].dead \subseteq 0 .. Len(forks)

Filtered == ids \cap excluded = {}

RequestsTaken == \A i \in DOMAIN searchers : searchers[i].request <= Len(taken)

\* The request being looked at has no searcher yet.
LookedAt ==
  receiver \in {"filter", "build", "walk"} =>
    \A i \in DOMAIN searchers : searchers[i].request < Len(taken)

SearchersInv ==
  /\ Typed /\ OneOfEach /\ SearchersFreedOnce
  /\ ForkedLater /\ Filtered /\ DeadLeftOut
  /\ RequestsTaken /\ LookedAt /\ NewestChoiceWaits

\* What SearchersInv speaks of.
Concerned ==
  <<forks, at, states, dead, searchers, installed, pending, receiver, ids, excluded, walked, taken>>

LEMMA InitSearchersInv == Init => SearchersInv
<1> SUFFICES ASSUME Init PROVE SearchersInv
  OBVIOUS
<1> USE PrioritiesAssumption DEF Init, Down!Init
<1>1. Typed
  BY DEF Typed, ExecutorTyped, HandingTyped, ThreadTyped, TakenTyped, Searcher, NewSearcher, Guids
<1>2. OneOfEach /\ SearchersFreedOnce
  BY DEF OneOfEach, SearchersFreedOnce, NewSearcher
<1>3. ForkedLater /\ Filtered /\ DeadLeftOut
  BY DEF ForkedLater, Filtered, DeadLeftOut, NewSearcher
<1>4. RequestsTaken /\ LookedAt /\ NewestChoiceWaits
  BY DEF RequestsTaken, LookedAt, NewestChoiceWaits, NewSearcher
<1> QED
  BY <1>1, <1>2, <1>3, <1>4 DEF SearchersInv

(* States that are listed or dead are Guids.                               *)
LEMMA StatesAreGuids ==
  ASSUME ExecutorTyped
  PROVE  0 .. Len(forks) \subseteq Guids /\ Len(forks) \in Nat
<1>1. Len(forks) \in Nat /\ Len(forks) <= MaxForks
  BY DEF ExecutorTyped
<1> QED
  BY <1>1, PrioritiesAssumption DEF Guids

LEMMA SearcherFields ==
  ASSUME NEW list \in Seq(Searcher), NEW i \in DOMAIN list
  PROVE  /\ list[i] \in Searcher
         /\ list[i].holds \subseteq Guids /\ list[i].dead \subseteq Guids
         /\ list[i].request \in Nat /\ list[i].freed \in Nat
<1>1. list[i] \in Searcher
  OBVIOUS
<1> QED
  BY <1>1 DEF Searcher

(* To free one searcher leaves the list as it is otherwise.                *)
LEMMA FreedFields ==
  ASSUME NEW list \in Seq(Searcher), NEW j \in {0} \cup DOMAIN list
  PROVE  /\ Freed(list, j) \in Seq(Searcher)
         /\ DOMAIN Freed(list, j) = DOMAIN list
         /\ \A i \in DOMAIN list :
              /\ Freed(list, j)[i].holds = list[i].holds
              /\ Freed(list, j)[i].request = list[i].request
              /\ Freed(list, j)[i].dead = list[i].dead
              /\ Freed(list, j)[i].freed = IF i = j THEN list[i].freed + 1 ELSE list[i].freed
<1>1. CASE j = 0
  BY <1>1 DEF Freed
<1>2. CASE j # 0
  <2> DEFINE one == [list[j] EXCEPT !.freed = @ + 1]
  <2>0. list[j] \in Searcher /\ list[j].freed \in Nat
    BY <1>2, SearcherFields
  <2>1. one \in Searcher
    BY <2>0, SMTT(30) DEF Searcher
  <2>2. /\ one.holds = list[j].holds /\ one.request = list[j].request
        /\ one.dead = list[j].dead /\ one.freed = list[j].freed + 1
    BY <2>0 DEF Searcher
  <2>3. Freed(list, j) = [list EXCEPT ![j] = one]
    BY <1>2 DEF Freed
  <2> HIDE DEF one
  <2>4. /\ Freed(list, j) \in Seq(Searcher) /\ DOMAIN Freed(list, j) = DOMAIN list
        /\ \A i \in DOMAIN list : Freed(list, j)[i] = IF i = j THEN one ELSE list[i]
    BY <1>2, <2>1, <2>3
  <2> QED
    BY <2>2, <2>4
<1> QED
  BY <1>1, <1>2

(* A searcher that is told of a fork or of dead states.                    *)
Told(list, j, now) == [list EXCEPT ![j].holds = now]

LEMMA HoldsFields ==
  ASSUME NEW list \in Seq(Searcher), NEW j \in DOMAIN list, NEW now \in SUBSET Guids
  PROVE  /\ Told(list, j, now) \in Seq(Searcher)
         /\ DOMAIN Told(list, j, now) = DOMAIN list
         /\ \A i \in DOMAIN list :
              /\ Told(list, j, now)[i].holds = IF i = j THEN now ELSE list[i].holds
              /\ Told(list, j, now)[i].request = list[i].request
              /\ Told(list, j, now)[i].dead = list[i].dead
              /\ Told(list, j, now)[i].freed = list[i].freed
<1> DEFINE one == [list[j] EXCEPT !.holds = now]
<1>1. one \in Searcher
  BY SearcherFields DEF Searcher
<1>2. /\ one.holds = now /\ one.request = list[j].request
      /\ one.dead = list[j].dead /\ one.freed = list[j].freed
  BY SearcherFields DEF Searcher
<1>3. Told(list, j, now) = [list EXCEPT ![j] = one]
  BY DEF Told
<1> HIDE DEF one
<1>4. /\ Told(list, j, now) \in Seq(Searcher) /\ DOMAIN Told(list, j, now) = DOMAIN list
      /\ \A i \in DOMAIN list : Told(list, j, now)[i] = IF i = j THEN one ELSE list[i]
  BY <1>1, <1>3
<1> QED
  BY <1>2, <1>4

(* One more searcher.                                                      *)
LEMMA OneMoreSearcher ==
  ASSUME NEW list \in Seq(Searcher), NEW one \in Searcher
  PROVE  /\ Append(list, one) \in Seq(Searcher)
         /\ Len(list) \in Nat /\ DOMAIN list = 1 .. Len(list)
         /\ DOMAIN Append(list, one) = 1 .. Len(list) + 1
         /\ \A i \in DOMAIN list : Append(list, one)[i] = list[i]
         /\ Append(list, one)[Len(list) + 1] = one
  OBVIOUS

(* What is not concerned keeps the invariant.                              *)
LEMMA UnconcernedSearchersInv ==
  ASSUME SearchersInv, UNCHANGED Concerned
  PROVE  SearchersInv'
  BY DEF SearchersInv, Concerned, Typed, ExecutorTyped, HandingTyped, ThreadTyped, TakenTyped,
         OneOfEach, SearchersFreedOnce, ForkedLater, Filtered, DeadLeftOut, RequestsTaken,
         LookedAt, NewestChoiceWaits

(* A request that is received makes one more that were taken.              *)
LEMMA OneMoreTaken ==
  ASSUME TakenTyped, NEW m, taken' = Append(taken, m)
  PROVE  TakenTyped' /\ Len(taken) \in Nat /\ Len(taken') = Len(taken) + 1
<1> DEFINE S == {taken[i] : i \in DOMAIN taken}
           T == S \cup {m}
<1>1. taken \in Seq(T)
  BY DEF TakenTyped
<1>2. taken' \in Seq(T) /\ Len(taken') = Len(taken) + 1 /\ Len(taken) \in Nat
  <2> HIDE DEF T
  <2>1. m \in T
    BY DEF T
  <2> QED
    BY <1>1, <2>1
<1>3. taken' \in Seq({taken'[i] : i \in DOMAIN taken'})
  <2> HIDE DEF T
  <2> QED
    BY <1>2
<1> QED
  BY <1>2, <1>3 DEF TakenTyped

(* polling_receive says "message" of what it appends, and of nothing else. *)
LEMMA ReceivedOrNot ==
  ASSUME Down!PollingReceive
  PROVE  \/ result' = "message" /\ \E m : taken' = Append(taken, m)
         \/ result' # "message" /\ taken' = taken
  BY DEF Down!PollingReceive, Down!Decoded

-----------------------------------------------------------------------------
(* The receiver thread.                                                    *)

LEMMA StopInv ==
  ASSUME SearchersInv, Stop
  PROVE  SearchersInv'
  BY DEF Stop, executor, handing, walk, down, SearchersInv, Typed, ExecutorTyped, HandingTyped,
         ThreadTyped, TakenTyped, OneOfEach, SearchersFreedOnce, ForkedLater, Filtered,
         DeadLeftOut, RequestsTaken, LookedAt, NewestChoiceWaits

(* A packet that was read leaves its request to be looked at; all others   *)
(* came before it.                                                         *)
LEMMA ReceiveInv ==
  ASSUME SearchersInv, Receive
  PROVE  SearchersInv'
<1> USE DEF SearchersInv
<1>1. UNCHANGED <<forks, at, states, dead, searchers, installed, pending, ids, excluded, walked>>
  BY DEF Receive, executor, handing, walk
<1>2. CASE result' = "message"
  <2>1. PICK m : taken' = Append(taken, m)
    BY <1>2, ReceivedOrNot DEF Receive
  <2>2. TakenTyped' /\ Len(taken) \in Nat /\ Len(taken') = Len(taken) + 1
    BY <2>1, OneMoreTaken DEF Typed
  <2>3. receiver' = "filter"
    BY <1>2 DEF Receive
  <2>4. Typed'
    BY <1>1, <2>2, <2>3 DEF Typed, ExecutorTyped, HandingTyped, ThreadTyped
  <2>5. \A i \in DOMAIN searchers : searchers[i].request \in Nat
    BY SearcherFields DEF Typed, HandingTyped
  <2>6. RequestsTaken' /\ LookedAt'
    BY <1>1, <2>2, <2>3, <2>5 DEF RequestsTaken, LookedAt
  <2>7. (OneOfEach /\ SearchersFreedOnce /\ ForkedLater /\ Filtered /\ DeadLeftOut
           /\ NewestChoiceWaits)'
    BY <1>1 DEF OneOfEach, SearchersFreedOnce, ForkedLater, Filtered, DeadLeftOut, NewestChoiceWaits
  <2> QED
    BY <2>4, <2>6, <2>7
<1>3. CASE result' # "message"
  <2>1. taken' = taken /\ receiver' = receiver
    BY <1>3, ReceivedOrNot DEF Receive
  <2> QED
    BY <1>1, <2>1, UnconcernedSearchersInv DEF Concerned
<1> QED
  BY <1>2, <1>3

LEMMA FilterInv ==
  ASSUME SearchersInv, Filter
  PROVE  SearchersInv'
<1> USE DEF SearchersInv, Filter, executor, handing, walk, down
<1>1. Typed'
  BY DEF Typed, ExecutorTyped, HandingTyped, ThreadTyped, TakenTyped
<1>2. Filtered'
  BY DEF Filtered, LiveOf
<1>3. (OneOfEach /\ SearchersFreedOnce /\ ForkedLater /\ DeadLeftOut /\ RequestsTaken
         /\ LookedAt /\ NewestChoiceWaits)'
  BY DEF OneOfEach, SearchersFreedOnce, ForkedLater, DeadLeftOut, RequestsTaken, LookedAt,
         NewestChoiceWaits
<1> QED
  BY <1>1, <1>2, <1>3

LEMMA WalkInv ==
  ASSUME SearchersInv, Walk
  PROVE  SearchersInv'
<1> USE DEF SearchersInv, Walk, executor, handing, walk, down
<1>1. Typed'
  BY PrioritiesAssumption
     DEF Typed, ExecutorTyped, HandingTyped, ThreadTyped, TakenTyped, Guids
<1>2. (OneOfEach /\ SearchersFreedOnce /\ ForkedLater /\ Filtered /\ DeadLeftOut /\ RequestsTaken
         /\ LookedAt /\ NewestChoiceWaits)'
  BY DEF OneOfEach, SearchersFreedOnce, ForkedLater, Filtered, DeadLeftOut, RequestsTaken,
         LookedAt, NewestChoiceWaits
<1> QED
  BY <1>1, <1>2

(* The new searcher takes the place of the one that still waits, which is  *)
(* freed; it was asked for last and holds nothing that was dead.           *)
LEMMA PublishInv ==
  ASSUME SearchersInv, Publish
  PROVE  SearchersInv'
<1> USE DEF SearchersInv
<1> DEFINE new == Len(searchers) + 1
           Made(add) == NewSearcher(add, Len(taken), excluded)
<1>1. PICK add \in Additions :
        /\ pending' = new
        /\ searchers' = Freed(Append(searchers, Made(add)), pending)
  BY DEF Publish, Newest
<1>2. /\ receiver = "walk" /\ receiver' = "receive"
      /\ ids' = {} /\ excluded' = {} /\ walked' = {}
      /\ UNCHANGED <<taken, forks, at, states, dead, installed>>
  BY DEF Publish, down, executor
<1>3. /\ searchers \in Seq(Searcher) /\ installed \in DOMAIN searchers
      /\ pending \in {0} \cup DOMAIN searchers /\ installed # pending
  BY DEF Typed, HandingTyped, OneOfEach
<1>4. add \subseteq Guids /\ add \cap excluded = {}
  <2>1. add \subseteq ids /\ (add \subseteq states \/ add \subseteq walked)
    BY DEF Additions
  <2>2. states \subseteq Guids /\ walked \subseteq Guids
    BY StatesAreGuids DEF Typed, ExecutorTyped, ThreadTyped
  <2> QED
    BY <2>1, <2>2 DEF Filtered
<1>5. Len(taken) \in Nat
  BY DEF Typed, TakenTyped
<1>6. Made(add) \in Searcher
  BY <1>4, <1>5, PrioritiesAssumption
     DEF NewSearcher, Searcher, Typed, ThreadTyped, ExecutorTyped, Guids
<1>7. /\ searchers' \in Seq(Searcher) /\ DOMAIN searchers' = 1 .. new
      /\ \A i \in DOMAIN searchers :
           /\ searchers'[i].holds = searchers[i].holds
           /\ searchers'[i].request = searchers[i].request
           /\ searchers'[i].dead = searchers[i].dead
           /\ searchers'[i].freed = IF i = pending THEN searchers[i].freed + 1
                                    ELSE searchers[i].freed
      /\ searchers'[new].holds = add /\ searchers'[new].request = Len(taken)
      /\ searchers'[new].dead = excluded /\ searchers'[new].freed = 0
  <2> DEFINE list == Append(searchers, Made(add))
  <2>1. /\ list \in Seq(Searcher) /\ DOMAIN list = 1 .. new
        /\ \A i \in DOMAIN searchers : list[i] = searchers[i]
        /\ list[new] = Made(add)
        /\ DOMAIN searchers = 1 .. Len(searchers) /\ Len(searchers) \in Nat
    BY <1>3, <1>6, OneMoreSearcher
  <2>2. pending \in {0} \cup DOMAIN list /\ new \in DOMAIN list /\ new # pending
    BY <1>3, <2>1
  <2>3. /\ Made(add).holds = add /\ Made(add).request = Len(taken)
        /\ Made(add).dead = excluded /\ Made(add).freed = 0
    BY DEF NewSearcher
  <2>4. DOMAIN searchers \subseteq DOMAIN list
    BY <2>1
  <2>5. searchers' = Freed(list, pending)
    BY <1>1
  <2> HIDE DEF list, Made, new
  <2>6. /\ searchers' \in Seq(Searcher) /\ DOMAIN searchers' = 1 .. new
        /\ \A i \in DOMAIN list :
             /\ searchers'[i].holds = list[i].holds
             /\ searchers'[i].request = list[i].request
             /\ searchers'[i].dead = list[i].dead
             /\ searchers'[i].freed = IF i = pending THEN list[i].freed + 1 ELSE list[i].freed
    BY <2>1, <2>2, <2>5, FreedFields, ZenonT(60)
  <2> QED
    BY <2>1, <2>2, <2>3, <2>4, <2>6
<1>8. DOMAIN searchers = 1 .. Len(searchers) /\ Len(searchers) \in Nat
  BY <1>3
<1> HIDE DEF Made
<1>9. \A i \in DOMAIN searchers : searchers[i].request < Len(taken)
  BY <1>2 DEF LookedAt
<1>10. \A i \in DOMAIN searchers : searchers[i].request \in Nat /\ searchers[i].freed \in Nat
  BY <1>3, SearcherFields
<1>11. Typed'
  <2>1. HandingTyped'
    BY <1>1, <1>2, <1>3, <1>7, <1>8 DEF HandingTyped
  <2>2. (ExecutorTyped /\ TakenTyped)'
    BY <1>2 DEF Typed, ExecutorTyped, TakenTyped
  <2>3. ThreadTyped'
    BY <1>2 DEF ThreadTyped
  <2> QED
    BY <2>1, <2>2, <2>3 DEF Typed
<1>12. (OneOfEach /\ SearchersFreedOnce)'
  BY <1>1, <1>2, <1>3, <1>7, <1>8, <1>10, SMTT(30) DEF OneOfEach, SearchersFreedOnce
<1>13. (ForkedLater /\ Filtered /\ DeadLeftOut)'
  <2>1. \A i \in DOMAIN searchers' : i \in DOMAIN searchers \/ i = new
    BY <1>7, <1>8
  <2>2. excluded \subseteq 0 .. Len(forks)
    BY DEF Typed, ThreadTyped
  <2> HIDE DEF new
  <2>3. ForkedLater'
    BY <1>2, <1>7, <2>1, <2>2 DEF ForkedLater
  <2>4. DeadLeftOut'
    BY <1>4, <1>7, <2>1 DEF DeadLeftOut
  <2> QED
    BY <1>2, <2>3, <2>4 DEF Filtered
<1>14. (RequestsTaken /\ LookedAt /\ NewestChoiceWaits)'
  BY <1>1, <1>2, <1>5, <1>7, <1>8, <1>9, <1>10 DEF RequestsTaken, LookedAt, NewestChoiceWaits
<1> QED
  BY <1>11, <1>12, <1>13, <1>14

-----------------------------------------------------------------------------
(* S2E's thread.                                                           *)

LEMMA InitializeInv ==
  ASSUME SearchersInv, Initialize
  PROVE  SearchersInv'
<1>1. /\ UNCHANGED <<forks, at, states, dead, searchers, installed, pending, ids, excluded,
                    walked, taken>>
      /\ receiver' \in {"receive", "none"}
  BY DEF Initialize, down, executor, handing, walk
<1>2. Typed'
  BY <1>1 DEF SearchersInv, Typed, ExecutorTyped, HandingTyped, ThreadTyped, TakenTyped
<1> QED
  BY <1>1, <1>2 DEF SearchersInv, OneOfEach, SearchersFreedOnce, ForkedLater, Filtered,
     DeadLeftOut, RequestsTaken, LookedAt, NewestChoiceWaits

(* A state that is forked is in no list of the dead, and only the searcher *)
(* in use is told of it.                                                   *)
LEMMA ForkInv ==
  ASSUME SearchersInv, Fork
  PROVE  SearchersInv'
<1> USE DEF SearchersInv
<1> DEFINE k == Len(forks) + 1
<1>1. PICK s \in states \ dead :
        /\ forks' = Append(forks, at[s + 1])
        /\ at' = Append([at EXCEPT ![s + 1] = 2 * k - 1], 2 * k)
        /\ states' = states \cup {k}
        /\ searchers' = [searchers EXCEPT ![installed].holds = @ \cup {k}]
  BY DEF Fork
<1>2. /\ Len(forks) < MaxForks
      /\ UNCHANGED <<taken, dead, installed, pending, receiver, ids, excluded>>
      /\ walked' = IF receiver = "walk" THEN walked \cup states' ELSE walked
  BY DEF Fork, Walked, down, thread
<1>3. /\ searchers \in Seq(Searcher) /\ installed \in DOMAIN searchers
      /\ ExecutorTyped /\ ThreadTyped
  BY DEF Typed, HandingTyped
<1>4. k \in Guids /\ Len(forks) \in Nat /\ states \cup {k} \subseteq Guids
  <2>1. Len(forks) \in Nat /\ states \subseteq Guids
    BY <1>3, StatesAreGuids DEF ExecutorTyped
  <2>2. k \in Guids
    BY <1>2, <2>1, PrioritiesAssumption DEF Guids
  <2> QED
    BY <2>1, <2>2
<1>5. s + 1 \in 1 .. Len(at) /\ at \in Seq(Nat) /\ at[s + 1] \in Nat
  BY <1>3, <1>4 DEF ExecutorTyped
<1>6. forks' \in Seq(Nat) /\ Len(forks') = k
  BY <1>1, <1>3, <1>5 DEF ExecutorTyped
<1>7. at' \in Seq(Nat) /\ Len(at') = k + 1
  <2>1. 2 * k - 1 \in Nat /\ 2 * k \in Nat /\ Len(at) = k
    BY <1>3, <1>4 DEF ExecutorTyped
  <2> DEFINE moved == [at EXCEPT ![s + 1] = 2 * k - 1]
  <2>2. moved \in Seq(Nat) /\ Len(moved) = Len(at)
    BY <1>5, <2>1
  <2>3. at' = Append(moved, 2 * k)
    BY <1>1
  <2> HIDE DEF moved
  <2> QED
    BY <2>1, <2>2, <2>3
<1>8. /\ searchers' \in Seq(Searcher) /\ DOMAIN searchers' = DOMAIN searchers
      /\ \A i \in DOMAIN searchers :
           /\ searchers'[i].holds = IF i = installed THEN searchers[i].holds \cup {k}
                                    ELSE searchers[i].holds
           /\ searchers'[i].request = searchers[i].request
           /\ searchers'[i].dead = searchers[i].dead
           /\ searchers'[i].freed = searchers[i].freed
  <2> DEFINE now == searchers[installed].holds \cup {k}
  <2>1. now \in SUBSET Guids
    BY <1>3, <1>4, SearcherFields
  <2>2. searchers' = Told(searchers, installed, now)
    BY <1>1, <1>3 DEF Told
  <2> HIDE DEF now
  <2>3. /\ searchers' \in Seq(Searcher) /\ DOMAIN searchers' = DOMAIN searchers
        /\ \A i \in DOMAIN searchers :
             /\ searchers'[i].holds = IF i = installed THEN now ELSE searchers[i].holds
             /\ searchers'[i].request = searchers[i].request
             /\ searchers'[i].dead = searchers[i].dead
             /\ searchers'[i].freed = searchers[i].freed
    BY <1>3, <2>1, <2>2, HoldsFields
  <2> QED
    BY <2>3 DEF now
<1>9. 0 .. Len(forks) \subseteq 0 .. Len(forks') /\ k \notin 0 .. Len(forks) /\ k \in 0 .. Len(forks')
  BY <1>4, <1>6
<1>10. Typed'
  <2>0. Len(forks') <= MaxForks
    BY <1>2, <1>4, <1>6, PrioritiesAssumption
  <2>1. ExecutorTyped'
    <3> HIDE DEF k
    <3>1. states' \subseteq 0 .. Len(forks') /\ dead' \subseteq 0 .. Len(forks')
      BY <1>1, <1>2, <1>3, <1>9 DEF ExecutorTyped
    <3> QED
      BY <1>6, <1>7, <2>0, <3>1 DEF ExecutorTyped
  <2>2. HandingTyped'
    BY <1>2, <1>8 DEF Typed, HandingTyped
  <2>3. ThreadTyped'
    BY <1>1, <1>2, <1>3, <1>4, <1>9 DEF ThreadTyped
  <2>4. TakenTyped'
    BY <1>2 DEF Typed, TakenTyped
  <2> QED
    BY <2>1, <2>2, <2>3, <2>4 DEF Typed
<1> HIDE DEF k
<1>11. (OneOfEach /\ SearchersFreedOnce)'
  BY <1>2, <1>8 DEF OneOfEach, SearchersFreedOnce
<1>12. (ForkedLater /\ Filtered)'
  BY <1>2, <1>8, <1>9 DEF ForkedLater, Filtered
<1>13. DeadLeftOut'
  <2> SUFFICES ASSUME NEW i \in DOMAIN searchers
               PROVE  searchers'[i].holds \cap searchers'[i].dead = {}
    BY <1>8 DEF DeadLeftOut
  <2>1. searchers[i].holds \cap searchers[i].dead = {} /\ k \notin searchers[i].dead
    BY <1>9 DEF DeadLeftOut, ForkedLater
  <2>2. searchers'[i].holds \subseteq searchers[i].holds \cup {k}
        /\ searchers'[i].dead = searchers[i].dead
    BY <1>8
  <2> QED
    BY <2>1, <2>2
<1>14. (RequestsTaken /\ LookedAt /\ NewestChoiceWaits)'
  BY <1>2, <1>8 DEF RequestsTaken, LookedAt, NewestChoiceWaits, Typed, HandingTyped
<1> QED
  BY <1>10, <1>11, <1>12, <1>13, <1>14

(* The searcher of the first state that is forked anew was asked for by    *)
(* nobody.                                                                 *)
LEMMA KillInv ==
  ASSUME SearchersInv, Kill
  PROVE  SearchersInv'
<1> USE DEF SearchersInv
<1> DEFINE new == Len(searchers) + 1
           made == NewSearcher({}, 0, {})
<1>1. PICK s \in states \ dead : dead' = dead \cup {s} /\ states' \in {states, states \ {s}}
  BY DEF Kill
<1>2. /\ UNCHANGED <<taken, forks, at, pending, receiver, ids, excluded>>
      /\ walked' = IF receiver = "walk" THEN walked \cup states' ELSE walked
  BY DEF Kill, Walked, down, thread
<1>3. /\ searchers \in Seq(Searcher) /\ installed \in DOMAIN searchers
      /\ pending \in {0} \cup DOMAIN searchers /\ installed # pending
      /\ ExecutorTyped /\ ThreadTyped
      /\ DOMAIN searchers = 1 .. Len(searchers) /\ Len(searchers) \in Nat
  BY DEF Typed, HandingTyped, OneOfEach
<1>4. (ExecutorTyped /\ ThreadTyped /\ TakenTyped)'
  <2>1. states \subseteq Guids
    BY <1>3, StatesAreGuids DEF ExecutorTyped
  <2> QED
    BY <1>1, <1>2, <1>3, <2>1 DEF Typed, ExecutorTyped, ThreadTyped, TakenTyped
<1>5. CASE UNCHANGED <<searchers, installed>>
  BY <1>2, <1>4, <1>5 DEF Typed, HandingTyped, OneOfEach, SearchersFreedOnce, ForkedLater,
     Filtered, DeadLeftOut, RequestsTaken, LookedAt, NewestChoiceWaits
<1>6. CASE searchers' = Freed(Append(searchers, made), installed) /\ installed' = new
  <2>1. made \in Searcher
    BY DEF NewSearcher, Searcher
  <2>2. made.holds = {} /\ made.request = 0 /\ made.dead = {} /\ made.freed = 0
    BY DEF NewSearcher
  <2> DEFINE list == Append(searchers, made)
  <2>3. /\ list \in Seq(Searcher) /\ DOMAIN list = 1 .. new
        /\ \A i \in DOMAIN searchers : list[i] = searchers[i]
        /\ list[new] = made
    BY <1>3, <2>1, OneMoreSearcher
  <2>4. installed \in DOMAIN list /\ new \in DOMAIN list /\ new # installed /\ new # pending
    BY <1>3, <2>3
  <2>5. \A i \in 1 .. new : i \in DOMAIN searchers \/ i = new
    BY <1>3
  <2>6. DOMAIN searchers \subseteq 1 .. new
    BY <1>3
  <2> HIDE DEF list, made, new
  <2>7. /\ searchers' \in Seq(Searcher) /\ DOMAIN searchers' = 1 .. new
        /\ \A i \in DOMAIN list :
             /\ searchers'[i].holds = list[i].holds
             /\ searchers'[i].request = list[i].request
             /\ searchers'[i].dead = list[i].dead
             /\ searchers'[i].freed = IF i = installed THEN list[i].freed + 1 ELSE list[i].freed
    BY <1>6, <2>3, <2>4, FreedFields, ZenonT(60) DEF list
  <2>8. /\ \A i \in DOMAIN searchers :
             /\ searchers'[i].holds = searchers[i].holds
             /\ searchers'[i].request = searchers[i].request
             /\ searchers'[i].dead = searchers[i].dead
             /\ searchers'[i].freed = IF i = installed THEN searchers[i].freed + 1
                                      ELSE searchers[i].freed
        /\ searchers'[new].holds = {} /\ searchers'[new].request = 0
        /\ searchers'[new].dead = {} /\ searchers'[new].freed = 0
    BY <2>2, <2>3, <2>4, <2>6, <2>7
  <2>9. \A i \in DOMAIN searchers : searchers[i].request \in Nat /\ searchers[i].freed \in Nat
    BY <1>3, SearcherFields
  <2>10. HandingTyped'
    BY <1>2, <1>3, <1>6, <2>3, <2>4, <2>6, <2>7 DEF HandingTyped
  <2>11. (OneOfEach /\ SearchersFreedOnce)'
    BY <1>2, <1>3, <1>6, <2>4, <2>5, <2>7, <2>8, <2>9 DEF OneOfEach, SearchersFreedOnce
  <2>12. (ForkedLater /\ Filtered /\ DeadLeftOut)'
    BY <1>2, <2>5, <2>7, <2>8 DEF ForkedLater, Filtered, DeadLeftOut
  <2>13. Len(taken) \in Nat
    BY DEF Typed, TakenTyped
  <2>14. (RequestsTaken /\ LookedAt)'
    BY <1>2, <1>3, <2>5, <2>7, <2>8, <2>9, <2>13, SMTT(30) DEF RequestsTaken, LookedAt
  <2>15. NewestChoiceWaits'
    BY <1>2, <1>3, <2>4, <2>5, <2>7, <2>8, <2>9 DEF NewestChoiceWaits
  <2> QED
    BY <1>4, <2>10, <2>11, <2>12, <2>14, <2>15 DEF Typed
<1> QED
  BY <1>5, <1>6 DEF Kill

LEMMA UpdateInv ==
  ASSUME SearchersInv, Update
  PROVE  SearchersInv'
<1> USE DEF SearchersInv
<1>1. PICK s : /\ states' = states \ {s}
               /\ searchers' = [searchers EXCEPT ![installed].holds = @ \ {s}]
  BY DEF Update
<1>2. /\ UNCHANGED <<taken, forks, at, dead, installed, pending, receiver, ids, excluded>>
      /\ walked' = IF receiver = "walk" THEN walked \cup states' ELSE walked
  BY DEF Update, Walked, down, thread
<1>3. /\ searchers \in Seq(Searcher) /\ installed \in DOMAIN searchers
      /\ ExecutorTyped /\ ThreadTyped
  BY DEF Typed, HandingTyped
<1>4. (ExecutorTyped /\ ThreadTyped /\ TakenTyped)'
  <2>1. states \subseteq Guids
    BY <1>3, StatesAreGuids DEF ExecutorTyped
  <2> QED
    BY <1>1, <1>2, <1>3, <2>1 DEF Typed, ExecutorTyped, ThreadTyped, TakenTyped
<1>5. /\ searchers' \in Seq(Searcher) /\ DOMAIN searchers' = DOMAIN searchers
      /\ \A i \in DOMAIN searchers :
           /\ searchers'[i].holds \subseteq searchers[i].holds
           /\ searchers'[i].request = searchers[i].request
           /\ searchers'[i].dead = searchers[i].dead
           /\ searchers'[i].freed = searchers[i].freed
  <2> DEFINE now == searchers[installed].holds \ {s}
  <2>1. now \in SUBSET Guids
    BY <1>3, SearcherFields
  <2>2. searchers' = Told(searchers, installed, now)
    BY <1>1, <1>3 DEF Told
  <2> HIDE DEF now
  <2>3. /\ searchers' \in Seq(Searcher) /\ DOMAIN searchers' = DOMAIN searchers
        /\ \A i \in DOMAIN searchers :
             /\ searchers'[i].holds = IF i = installed THEN now ELSE searchers[i].holds
             /\ searchers'[i].request = searchers[i].request
             /\ searchers'[i].dead = searchers[i].dead
             /\ searchers'[i].freed = searchers[i].freed
    BY <1>3, <2>1, <2>2, HoldsFields
  <2> QED
    BY <2>3 DEF now
<1>6. Typed'
  BY <1>2, <1>4, <1>5 DEF Typed, HandingTyped
<1>7. (OneOfEach /\ SearchersFreedOnce /\ ForkedLater /\ Filtered)'
  BY <1>2, <1>5 DEF OneOfEach, SearchersFreedOnce, ForkedLater, Filtered
<1>8. DeadLeftOut'
  BY <1>5 DEF DeadLeftOut
<1>9. (RequestsTaken /\ LookedAt /\ NewestChoiceWaits)'
  BY <1>2, <1>5 DEF RequestsTaken, LookedAt, NewestChoiceWaits, Typed, HandingTyped
<1> QED
  BY <1>6, <1>7, <1>8, <1>9

(* The one in use goes, and the one that waited takes its place.           *)
LEMMA SwitchInv ==
  ASSUME SearchersInv, Switch
  PROVE  SearchersInv'
<1> USE DEF SearchersInv
<1>1. /\ pending # 0 /\ installed' = pending /\ pending' = 0
      /\ searchers' = Freed(searchers, installed)
      /\ UNCHANGED <<forks, at, states, dead, receiver, ids, excluded, walked, taken>>
  BY DEF Switch, Taken, down, executor, thread, walk
<1>2. /\ searchers \in Seq(Searcher) /\ installed \in DOMAIN searchers
      /\ pending \in {0} \cup DOMAIN searchers /\ installed # pending
      /\ \A i \in DOMAIN searchers : i # 0
  BY DEF Typed, HandingTyped, OneOfEach
<1>3. /\ searchers' \in Seq(Searcher) /\ DOMAIN searchers' = DOMAIN searchers
      /\ \A i \in DOMAIN searchers :
           /\ searchers'[i].holds = searchers[i].holds
           /\ searchers'[i].request = searchers[i].request
           /\ searchers'[i].dead = searchers[i].dead
           /\ searchers'[i].freed = IF i = installed THEN searchers[i].freed + 1
                                    ELSE searchers[i].freed
  BY <1>1, <1>2, FreedFields, ZenonT(60)
<1>4. Typed'
  BY <1>1, <1>2, <1>3 DEF Typed, ExecutorTyped, HandingTyped, ThreadTyped, TakenTyped
<1>5. (OneOfEach /\ SearchersFreedOnce)'
  BY <1>1, <1>2, <1>3 DEF OneOfEach, SearchersFreedOnce
<1>6. (ForkedLater /\ Filtered /\ DeadLeftOut)'
  BY <1>1, <1>3 DEF ForkedLater, Filtered, DeadLeftOut
<1>7. (RequestsTaken /\ LookedAt /\ NewestChoiceWaits)'
  BY <1>1, <1>3 DEF RequestsTaken, LookedAt, NewestChoiceWaits
<1> QED
  BY <1>4, <1>5, <1>6, <1>7

-----------------------------------------------------------------------------
LEMMA NextSearchersInv ==
  ASSUME SearchersInv, [Next]_vars
  PROVE  SearchersInv'
<1>1. CASE UNCHANGED vars
  BY <1>1, UnconcernedSearchersInv DEF vars, down, executor, handing, thread, walk, Concerned
<1>2. CASE ReceiveBatch \/ Prioritise \/ CloseWindow
  <2>1. taken' = taken
    BY <1>2 DEF ReceiveBatch, Prioritise, CloseWindow, Down!Send, Down!Shutdown, down
  <2> QED
    BY <1>2, <2>1, UnconcernedSearchersInv
       DEF ReceiveBatch, Prioritise, CloseWindow, executor, handing, thread, walk, Concerned
<1>3. CASE Timer \/ Destroy \/ Join \/ WalkCrashes
  BY <1>3, UnconcernedSearchersInv
     DEF Timer, Destroy, Join, WalkCrashes, down, executor, handing, thread, walk, Concerned
<1>4. CASE Initialize
  BY <1>4, InitializeInv
<1>5. CASE Fork \/ Kill \/ Update \/ Switch
  BY <1>5, ForkInv, KillInv, UpdateInv, SwitchInv
<1>6. CASE Stop \/ Receive \/ Filter \/ Walk \/ Publish
  BY <1>6, StopInv, ReceiveInv, FilterInv, WalkInv, PublishInv
<1> QED
  BY <1>1, <1>2, <1>3, <1>4, <1>5, <1>6 DEF Next, S2E, Receiver

LEMMA SearchersInvHolds == Spec => []SearchersInv
  BY InitSearchersInv, NextSearchersInv, PTL DEF Spec

(* StatePrioritisation.cpp and AmbaPlugin.cpp hand searchers over through  *)
(* one atomic pointer: whatever is forked, killed, switched and asked for  *)
(* while the receiver filters and walks, each searcher is deleted once and *)
(* not while it waits or is in use, and none holds what was dead.          *)
THEOREM SearchersStaySound == Spec => []SearchersSound
<1>1. SearchersInv => SearchersSound
  BY DEF SearchersInv, SearchersSound
<1> QED
  BY <1>1, SearchersInvHolds, PTL

(* A switch never goes back to an older choice of the user.                *)
THEOREM NewestChoiceIsNext == Spec => []NewestChoiceWaits
<1>1. SearchersInv => NewestChoiceWaits
  BY DEF SearchersInv
<1> QED
  BY <1>1, SearchersInvHolds, PTL

-----------------------------------------------------------------------------
(* The states around a node are some Guids, so that what the window sends  *)
(* is a request: both recursive definitions define functions.              *)

\* A fork is at a node that was there before.
ForksEarlier == \A k \in 1 .. Len(forks) : forks[k] \in 0 .. 2 * k - 2

LEMMA Halves ==
  ASSUME NEW l \in Nat, NEW n \in 0 .. 2 * l
  PROVE  /\ n % 2 = 0 => n \div 2 \in 0 .. l
         /\ n % 2 # 0 => (n + 1) \div 2 \in 1 .. l /\ 2 * ((n + 1) \div 2) - 2 = n - 1
  OBVIOUS

\* How the guid of a node comes from those of the nodes before it.
GuidFrom(f, n) ==
  IF n = 0 THEN 0 ELSE IF n % 2 = 0 THEN n \div 2 ELSE f[forks[(n + 1) \div 2]]

LEMMA GuidType ==
  ASSUME forks \in Seq(Nat), ForksEarlier, NEW node \in 0 .. 2 * Len(forks)
  PROVE  GuidOf(node) \in 0 .. Len(forks)
<1>1. PICK l \in Nat : l = Len(forks)
  OBVIOUS
<1> DEFINE D == 0 .. 2 * l
           S == 0 .. l
           F == CHOOSE f : f = [n \in D |-> GuidFrom(f, n)]
           rank == [n \in D |-> n]
           step == [n \in D |-> [f \in [D -> S] |-> GuidFrom(f, n)]]
<1>2. GuidOf(node) = F[node]
  BY <1>1 DEF GuidOf, GuidFrom
<1>3. ASSUME NEW n \in D, n % 2 # 0
      PROVE  forks[(n + 1) \div 2] \in D /\ forks[(n + 1) \div 2] < n
  <2>1. PICK k \in 1 .. l : k = (n + 1) \div 2 /\ 2 * k - 2 = n - 1
    BY <1>3, Halves
  <2>2. forks[k] \in 0 .. 2 * k - 2
    BY <1>1 DEF ForksEarlier
  <2> QED
    BY <2>1, <2>2
<1>4. ASSUME NEW f, NEW n \in D, \A m \in D : m < n => f[m] \in S
      PROVE  GuidFrom(f, n) \in S
  <2>1. n % 2 = 0 => n \div 2 \in S
    BY Halves
  <2>2. n % 2 # 0 => f[forks[(n + 1) \div 2]] \in S
    BY <1>3, <1>4
  <2> QED
    BY <2>1, <2>2 DEF GuidFrom
<1>5. PICK f \in [D -> S] : \A n \in D : f[n] = step[n][f]
  <2>1. rank \in [D -> Nat] /\ \A n \in D : rank[n] = n
    OBVIOUS
  <2>2. step \in StepMaps(D, S)
    BY <1>4 DEF StepMaps
  <2>3. Causal(D, S, rank, step)
    <3>1. ASSUME NEW n \in D, NEW f \in [D -> S], NEW g \in [D -> S],
                 \A m \in D : rank[m] < rank[n] => f[m] = g[m]
          PROVE  step[n][f] = step[n][g]
      <4>1. step[n][f] = GuidFrom(f, n) /\ step[n][g] = GuidFrom(g, n)
        OBVIOUS
      <4>2. \A m \in D : m < n => f[m] = g[m]
        BY <2>1, <3>1
      <4>3. GuidFrom(f, n) = GuidFrom(g, n)
        BY <1>3, <4>2 DEF GuidFrom
      <4> QED
        BY <4>1, <4>3
    <3> HIDE DEF step, rank, D, S
    <3> QED
      BY <3>1 DEF Causal
  <2>4. PICK top \in Nat : \A n \in D : rank[n] < top
    <3>1. 2 * l + 1 \in Nat /\ \A n \in D : n < 2 * l + 1
      OBVIOUS
    <3> QED
      BY <2>1, <3>1
  <2>5. 0 \in S
    OBVIOUS
  <2> HIDE DEF step, rank, D, S
  <2> QED
    BY <2>1, <2>2, <2>3, <2>4, <2>5, RecursionExists, Z3
<1>6. F = [n \in D |-> GuidFrom(F, n)]
  <2>1. f = [n \in D |-> GuidFrom(f, n)]
    <3>1. \A n \in D : f[n] = GuidFrom(f, n)
      BY <1>5
    <3> QED
      BY <3>1
  <2> QED
    BY <2>1, Zenon
<1> HIDE DEF F
<1>7. \A n \in D : F[n] = GuidFrom(F, n)
  BY <1>6
<1>8. \A n \in D : F[n] \in S
  <2> SUFFICES ASSUME NEW b \in D, F[b] \notin S PROVE FALSE
    OBVIOUS
  <2> DEFINE T == {n \in D : F[n] \notin S}
  <2>1. b \in T
    OBVIOUS
  <2>2. PICK n \in T : \A m \in T : n <= m
    <3>1. T \subseteq Nat /\ T # {}
      <4>1. D \subseteq Nat
        OBVIOUS
      <4> HIDE DEF D
      <4> QED
        BY <2>1, <4>1
    <3> HIDE DEF T
    <3> QED
      BY <3>1, LeastNumber
  <2>3. \A m \in D : m < n => F[m] \in S
    BY <2>2
  <2> QED
    BY <1>4, <1>7, <2>2, <2>3
<1> QED
  BY <1>1, <1>2, <1>8

LEMMA LinksGoUp ==
  ASSUME forks \in Seq(Nat), ForksEarlier, NEW count \in 0 .. Len(forks), NEW link \in Links(count)
  PROVE  link[1] \in 0 .. 2 * Len(forks) /\ link[2] \in 0 .. 2 * Len(forks) /\ link[1] < link[2]
<1>1. PICK k \in 1 .. count : link \in {<<forks[k], 2 * k - 1>>, <<forks[k], 2 * k>>}
  BY DEF Links
<1>2. Len(forks) \in Nat /\ k \in 1 .. Len(forks)
  BY <1>1
<1>3. forks[k] \in 0 .. 2 * k - 2
  BY <1>2 DEF ForksEarlier
<1>4. link[1] = forks[k] /\ link[2] \in {2 * k - 1, 2 * k}
  BY <1>1
<1> QED
  BY <1>2, <1>3, <1>4, SMTT(30)

\* How the states around a node come from those around the nodes after it.
StatesFrom(f, n, links) == {GuidOf(n)} \cup UNION {f[l[2]] : l \in {k \in links : k[1] = n}}

LEMMA NeighbourType ==
  ASSUME forks \in Seq(Nat), ForksEarlier, NEW count \in 0 .. Len(forks),
         NEW prio \in 0 .. 2 * Len(forks)
  PROVE  NeighbourStates(Links(count), prio) \in SUBSET (0 .. Len(forks)) \ {{}}
<1>1. PICK l \in Nat : l = Len(forks)
  OBVIOUS
<1>2. PICK links : links = Links(count)
  OBVIOUS
<1> DEFINE D == 0 .. 2 * l
           S == SUBSET (0 .. l)
           F == CHOOSE f : f = [n \in D |-> StatesFrom(f, n, links)]
           rank == [n \in D |-> 2 * l - n]
           step == [n \in D |-> [f \in [D -> S] |-> StatesFrom(f, n, links)]]
<1>3. NeighbourStates(Links(count), prio) = F[prio]
  BY <1>1, <1>2 DEF NeighbourStates, StatesFrom
<1>4. \A k \in links : k[1] \in D /\ k[2] \in D /\ k[1] < k[2]
  BY <1>1, <1>2, LinksGoUp
<1>5. \A n \in D : GuidOf(n) \in 0 .. l
  BY <1>1, GuidType
<1>6. ASSUME NEW f, NEW n \in D, \A m \in D : m > n => f[m] \in S
      PROVE  StatesFrom(f, n, links) \in S
  <2>1. \A k \in links : k[1] = n => f[k[2]] \in S
    BY <1>4, <1>6
  <2>2. GuidOf(n) \in 0 .. l
    BY <1>5
  <2> HIDE DEF D
  <2> QED
    BY <2>1, <2>2 DEF StatesFrom
<1>7. PICK f \in [D -> S] : \A n \in D : f[n] = step[n][f]
  <2>1. rank \in [D -> Nat] /\ \A n \in D : rank[n] = 2 * l - n
    OBVIOUS
  <2>2. step \in StepMaps(D, S)
    <3>1. \A n \in D, f \in [D -> S] : StatesFrom(f, n, links) \in S
      BY <1>6
    <3> HIDE DEF D, S
    <3> QED
      BY <3>1 DEF StepMaps
  <2>3. Causal(D, S, rank, step)
    <3>1. ASSUME NEW n \in D, NEW f \in [D -> S], NEW g \in [D -> S],
                 \A m \in D : rank[m] < rank[n] => f[m] = g[m]
          PROVE  step[n][f] = step[n][g]
      <4>1. step[n][f] = StatesFrom(f, n, links) /\ step[n][g] = StatesFrom(g, n, links)
        OBVIOUS
      <4>2. \A m \in D : m > n => f[m] = g[m]
        BY <2>1, <3>1
      <4>3. \A k \in links : k[1] = n => f[k[2]] = g[k[2]]
        BY <1>4, <4>2
      <4>4. {f[k[2]] : k \in {i \in links : i[1] = n}} = {g[k[2]] : k \in {i \in links : i[1] = n}}
        BY <4>3
      <4> HIDE DEF step
      <4> QED
        BY <4>1, <4>4, Zenon DEF StatesFrom
    <3> HIDE DEF step, rank, D, S
    <3> QED
      BY <3>1 DEF Causal
  <2>4. PICK top \in Nat : \A n \in D : rank[n] < top
    <3>1. 2 * l + 1 \in Nat /\ \A n \in D : 2 * l - n < 2 * l + 1
      OBVIOUS
    <3> QED
      BY <2>1, <3>1
  <2>5. PICK none \in S : TRUE
    OBVIOUS
  <2>6. rank \in [D -> Nat]
    BY <2>1
  <2> HIDE DEF step, rank, D, S
  <2> QED
    BY <2>2, <2>3, <2>4, <2>5, <2>6, RecursionExists, Z3
<1>8. F = [n \in D |-> StatesFrom(F, n, links)]
  <2>1. f = [n \in D |-> StatesFrom(f, n, links)]
    <3>1. \A n \in D : f[n] = StatesFrom(f, n, links)
      BY <1>7
    <3> QED
      BY <3>1
  <2> QED
    BY <2>1, Zenon
<1> HIDE DEF F
<1>9. \A n \in D : F[n] = StatesFrom(F, n, links)
  BY <1>8
<1>10. \A n \in D : F[n] \in S
  <2> SUFFICES ASSUME NEW b \in D, F[b] \notin S PROVE FALSE
    OBVIOUS
  <2> DEFINE T == {i \in D : F[2 * l - i] \notin S}
  <2>1. 2 * l - b \in T
    <3>1. 2 * l - b \in D /\ 2 * l - (2 * l - b) = b
      OBVIOUS
    <3> QED
      BY <3>1
  <2>2. PICK i \in T : \A j \in T : i <= j
    <3>1. T \subseteq Nat /\ T # {}
      <4>1. D \subseteq Nat
        OBVIOUS
      <4> HIDE DEF D
      <4> QED
        BY <2>1, <4>1
    <3> HIDE DEF T
    <3> QED
      BY <3>1, LeastNumber
  <2>3. PICK n \in D : n = 2 * l - i /\ F[n] \notin S
    BY <2>2
  <2>4. ASSUME NEW m \in D, m > n PROVE F[m] \in S
    <3>1. 2 * l - m \in D /\ 2 * l - (2 * l - m) = m /\ ~ (i <= 2 * l - m)
      BY <2>2, <2>3, <2>4
    <3> QED
      BY <2>2, <3>1
  <2>5. F[n] \in S
    <3>1. \A m \in D : m > n => F[m] \in S
      BY <2>4
    <3>2. StatesFrom(F, n, links) \in S
      BY <1>6, <3>1
    <3>3. F[n] = StatesFrom(F, n, links)
      BY <1>9
    <3> QED
      BY <3>2, <3>3
  <2> QED
    BY <2>3, <2>5
<1>11. F[prio] \in S /\ GuidOf(prio) \in F[prio]
  <2>1. prio \in D
    BY <1>1
  <2>2. F[prio] = StatesFrom(F, prio, links)
    BY <1>9, <2>1
  <2> QED
    BY <1>10, <2>1, <2>2 DEF StatesFrom
<1> QED
  BY <1>1, <1>3, <1>11, SMTT(30)

-----------------------------------------------------------------------------
(* The two directions of the socket.                                       *)

DownProofs == INSTANCE FramingProofs WITH
  Messages <- Priorities, Size <- [p \in Priorities |-> 1 + Cardinality(p)]

UpProofs == INSTANCE FramingProofs WITH
  Messages <- Batches, Size <- [b \in Batches |-> 1], Header <- 1,
  sent <- upSent, taken <- upTaken, wire <- upWire, buffer <- upBuffer,
  partial <- upPartial, open <- upOpen, result <- upResult, overflown <- upOverflown

(* The proofs are about the same operations.                               *)
LEMMA DownOperations ==
  /\ Down!Init <=> DownProofs!Init
  /\ \A m : Down!Send(m) <=> DownProofs!Send(m)
  /\ Down!Shutdown <=> DownProofs!Shutdown
  /\ Down!PollingReceive <=> DownProofs!PollingReceive
<1>1. Down!Init <=> DownProofs!Init
  BY DEF Down!Init, DownProofs!Init
<1>2. ASSUME NEW m PROVE Down!Send(m) <=> DownProofs!Send(m)
  BY DEF Down!Send, DownProofs!Send, Down!Packet, DownProofs!Packet, Down!PacketSize,
         DownProofs!PacketSize
<1>3. Down!Shutdown <=> DownProofs!Shutdown
  BY DEF Down!Shutdown, DownProofs!Shutdown
<1>4. Down!PollingReceive <=> DownProofs!PollingReceive
  BY Zenon DEF Down!PollingReceive, DownProofs!PollingReceive, Down!Packet, DownProofs!Packet,
     Down!PacketSize, DownProofs!PacketSize, Down!View, DownProofs!View, Down!Rest, DownProofs!Rest,
     Down!Least, DownProofs!Least, Down!Verdict, DownProofs!Verdict, Down!Decoded,
     DownProofs!Decoded, Down!Consumed, DownProofs!Consumed, Down!KeptView, DownProofs!KeptView,
     Down!Ok, DownProofs!Ok
<1> QED
  BY <1>1, <1>2, <1>3, <1>4

LEMMA UpOperations ==
  /\ Up!Init <=> UpProofs!Init
  /\ \A m : Up!Send(m) <=> UpProofs!Send(m)
  /\ Up!BlockingReceive <=> UpProofs!BlockingReceive
<1>1. Up!Init <=> UpProofs!Init
  BY DEF Up!Init, UpProofs!Init
<1>2. ASSUME NEW m PROVE Up!Send(m) <=> UpProofs!Send(m)
  BY DEF Up!Send, UpProofs!Send, Up!Packet, UpProofs!Packet, Up!PacketSize, UpProofs!PacketSize
<1>3. Up!BlockingReceive <=> UpProofs!BlockingReceive
  BY Zenon DEF Up!BlockingReceive, UpProofs!BlockingReceive, Up!Packet, UpProofs!Packet,
     Up!PacketSize, UpProofs!PacketSize, Up!View, UpProofs!View, Up!Rest, UpProofs!Rest,
     Up!Least, UpProofs!Least, Up!Decoded, UpProofs!Decoded, Up!Consumed, UpProofs!Consumed,
     Up!Ok, UpProofs!Ok
<1> QED
  BY <1>1, <1>2, <1>3

LEMMA DownSizes == DownProofs!SizesSound
<1>1. IsFiniteSet(Guids)
  BY FS_Interval, PrioritiesAssumption DEF Guids
<1>2. \A p \in Priorities : 1 + Cardinality(p) \in Nat
  BY <1>1, FS_Subset, FS_CardinalityType DEF Priorities
<1> QED
  BY <1>2, PrioritiesAssumption DEF DownProofs!SizesSound

LEMMA UpSizes == UpProofs!SizesSound
  BY PrioritiesAssumption DEF UpProofs!SizesSound

-----------------------------------------------------------------------------
(* What the window and the plugin send one another.                        *)

AtNodes == \A i \in 1 .. Len(at) : at[i] \in 0 .. 2 * Len(forks)

\* A batch completes forks that happened.
Reported == \A i \in 1 .. Len(upSent) : upSent[i] <= Len(forks)

RestTyped ==
  /\ gone \subseteq dead /\ ids \subseteq Guids
  /\ alive \in BOOLEAN /\ changed \in BOOLEAN
  /\ s2e \in {"early", "running", "joining", "ended", "aborted"}

DeliveryInv ==
  /\ SearchersInv /\ RestTyped
  /\ ForksEarlier /\ AtNodes /\ Reported
  /\ DownProofs!PollingInv /\ UpProofs!FramingInv

DownSteps == Down!Stream!Send \/ Down!Stream!Take \/ UNCHANGED <<sent, taken>>
UpSteps == Up!Stream!Send \/ Up!Stream!Take \/ UNCHANGED <<upSent, upTaken>>

\* What a step has to show beyond SearchersInv.
Delivers == DeliveryInv' /\ DownSteps /\ UpSteps

LEMMA DownUnconcerned ==
  ASSUME DownProofs!PollingInv, UNCHANGED down
  PROVE  DownProofs!PollingInv' /\ DownSteps
<1> USE DEF down
<1>1. DownProofs!FramingInv'
  BY DEF DownProofs!PollingInv, DownProofs!FramingInv, DownProofs!FramingTyped,
     DownProofs!TakenAsSent, DownProofs!Kept, DownProofs!Ahead, DownProofs!PartOfPacket
<1>2. (DownProofs!WholePackets /\ DownProofs!FailsOnlyOverflown)'
  BY DEF DownProofs!PollingInv, DownProofs!WholePackets, DownProofs!Ahead,
     DownProofs!FailsOnlyOverflown
<1> QED
  BY <1>1, <1>2 DEF DownProofs!PollingInv, DownSteps

LEMMA UpUnconcerned ==
  ASSUME UpProofs!FramingInv, UNCHANGED up
  PROVE  UpProofs!FramingInv' /\ UpSteps
  BY DEF up, UpProofs!FramingInv, UpProofs!FramingTyped, UpProofs!TakenAsSent, UpProofs!Kept,
     UpProofs!Ahead, UpProofs!PartOfPacket, UpSteps

\* What no step but a fork, a batch or S2E's ends touches.
RestUnchanged ==
  UNCHANGED <<forks, at, upSent, gone, dead, ids, alive, changed, s2e>>

LEMMA RestUnconcerned ==
  ASSUME DeliveryInv, RestUnchanged
  PROVE  (RestTyped /\ ForksEarlier /\ AtNodes /\ Reported)'
  BY DEF DeliveryInv, RestUnchanged, RestTyped, ForksEarlier, AtNodes, Reported

(* A double click in the window sends a request.                           *)
LEMMA ShownForks ==
  ASSUME DeliveryInv
  PROVE  Shown \in 0 .. Len(forks)
<1>1. /\ upTaken \in Seq(Batches) /\ upSent \in Seq(Batches) /\ Len(upTaken) <= Len(upSent)
      /\ \A i \in 1 .. Len(upTaken) : upTaken[i] = upSent[i]
  BY DEF DeliveryInv, UpProofs!FramingInv, UpProofs!FramingTyped, UpProofs!TakenAsSent
<1>2. Len(forks) \in Nat
  BY DEF DeliveryInv, SearchersInv, Typed, ExecutorTyped
<1>3. CASE upTaken = <<>>
  BY <1>2, <1>3 DEF Shown
<1>4. CASE upTaken # <<>>
  <2>1. PICK i \in 1 .. Len(upTaken) : i = Len(upTaken)
    BY <1>1, <1>4
  <2>2. Shown = upTaken[i] /\ upTaken[i] \in Batches
    <3>1. Shown = Last(upTaken)
      BY <1>4 DEF Shown
    <3>2. Last(upTaken) = upTaken[Len(upTaken)]
      BY DEF Last
    <3> QED
      BY <1>1, <2>1, <3>1, <3>2
  <2>3. upTaken[i] = upSent[i] /\ i \in 1 .. Len(upSent)
    BY <1>1
  <2>4. upSent[i] <= Len(forks)
    BY <2>3 DEF DeliveryInv, Reported
  <2> QED
    BY <1>2, <2>2, <2>3, <2>4, PrioritiesAssumption DEF Batches
<1> QED
  BY <1>3, <1>4

LEMMA PrioritiseDelivers ==
  ASSUME DeliveryInv, SearchersInv', Prioritise
  PROVE  Delivers
<1> USE DEF DeliveryInv
<1>0. PICK prio \in 0 .. 2 * Shown : Down!Send(NeighbourStates(Links(Shown), prio))
  BY DEF Prioritise
<1>1. PICK m : m = NeighbourStates(Links(Shown), prio) /\ Down!Send(m)
  BY <1>0
<1>2. /\ forks \in Seq(Nat) /\ Len(forks) \in Nat /\ Len(forks) <= MaxForks
  BY DEF SearchersInv, Typed, ExecutorTyped
<1>3. PICK count \in 0 .. Len(forks) : count = Shown
  BY ShownForks
<1>4. prio \in 0 .. 2 * Len(forks)
  BY <1>1, <1>2, <1>3
<1>5. m \in Priorities
  <2>1. m \in SUBSET (0 .. Len(forks)) \ {{}}
    BY <1>1, <1>2, <1>3, <1>4, NeighbourType
  <2>2. 0 .. Len(forks) \subseteq Guids
    BY <1>2, PrioritiesAssumption DEF Guids
  <2> QED
    BY <2>1, <2>2 DEF Priorities
<1>6. UNCHANGED up /\ RestUnchanged
  BY DEF Prioritise, RestUnchanged, up, executor, thread, walk
<1>7. DownProofs!PollingInv'
  BY <1>1, <1>5, DownOperations, DownSizes, DownProofs!SendPolling
<1>8. DownSteps
  BY <1>1, <1>5 DEF DownSteps, Down!Stream!Send, Down!Send
<1> QED
  BY <1>6, <1>7, <1>8, RestUnconcerned, UpUnconcerned DEF Delivers

LEMMA CloseWindowDelivers ==
  ASSUME DeliveryInv, SearchersInv', CloseWindow
  PROVE  Delivers
<1>1. UNCHANGED up /\ RestUnchanged
  BY DEF CloseWindow, RestUnchanged, up, executor, thread, walk
<1>2. DownProofs!PollingInv'
  BY DownOperations, DownProofs!ShutdownPolling DEF CloseWindow, DeliveryInv
<1>3. DownSteps
  BY DEF DownSteps, CloseWindow, Down!Shutdown
<1> QED
  BY <1>1, <1>2, <1>3, RestUnconcerned, UpUnconcerned DEF Delivers, DeliveryInv

LEMMA ReceiveBatchDelivers ==
  ASSUME DeliveryInv, SearchersInv', ReceiveBatch
  PROVE  Delivers
<1>1. UpProofs!FramingInv' /\ (UpProofs!Stream!Take \/ UNCHANGED <<upSent, upTaken>>)
  BY UpOperations, UpSizes, UpProofs!BlockingFraming DEF DeliveryInv, ReceiveBatch
<1>2. UpSteps /\ upSent' = upSent
  BY <1>1 DEF UpSteps, UpProofs!Stream!Take, Up!Stream!Take
<1>3. UNCHANGED down /\ RestUnchanged
  BY <1>2 DEF ReceiveBatch, RestUnchanged, down, executor, thread, walk
<1> QED
  BY <1>1, <1>2, <1>3, RestUnconcerned, DownUnconcerned DEF Delivers, DeliveryInv

(* A packet of the window is received, or the receiver panics.             *)
LEMMA ReceiveDelivers ==
  ASSUME DeliveryInv, SearchersInv', Receive
  PROVE  Delivers
<1>1. DownProofs!PollingInv' /\ (DownProofs!Stream!Take \/ UNCHANGED <<sent, taken>>)
  BY DownOperations, DownSizes, DownProofs!PollingFraming DEF DeliveryInv, Receive
<1>2. DownSteps
  BY <1>1 DEF DownSteps, DownProofs!Stream!Take, Down!Stream!Take
<1>3. UNCHANGED up /\ UNCHANGED <<forks, at, upSent, gone, dead, ids, alive, changed>>
  BY DEF Receive, up, executor, walk
<1>4. s2e' \in {"early", "running", "joining", "ended", "aborted"}
  BY DEF Receive, DeliveryInv, RestTyped
<1>5. (RestTyped /\ ForksEarlier /\ AtNodes /\ Reported)'
  BY <1>3, <1>4 DEF DeliveryInv, RestTyped, ForksEarlier, AtNodes, Reported
<1> QED
  BY <1>1, <1>2, <1>3, <1>5, UpUnconcerned DEF Delivers, DeliveryInv

(* A batch tells of forks that happened.                                   *)
LEMMA TimerDelivers ==
  ASSUME DeliveryInv, SearchersInv', Timer
  PROVE  Delivers
<1> USE DEF DeliveryInv
<1>1. Up!Send(Len(forks)) /\ forks # <<>> /\ UNCHANGED down
      /\ UNCHANGED <<forks, at, gone, dead, ids, alive, changed, s2e>>
  BY DEF Timer, down, executor, thread, walk
<1>2. Len(forks) \in Batches
  BY <1>1, PrioritiesAssumption DEF SearchersInv, Typed, ExecutorTyped, Batches
<1>3. UpProofs!FramingInv'
  BY <1>1, <1>2, UpOperations, UpSizes, UpProofs!SendFraming
<1>4. upSent' = Append(upSent, Len(forks)) /\ upTaken' = upTaken
  BY <1>1 DEF Up!Send
<1>5. UpSteps
  BY <1>2, <1>4 DEF UpSteps, Up!Stream!Send
<1>6. Reported'
  <2>1. upSent \in Seq(Batches) /\ Len(forks) \in Nat
    BY <1>2 DEF UpProofs!FramingInv, UpProofs!FramingTyped, Batches
  <2>2. Len(upSent') = Len(upSent) + 1
        /\ \A i \in 1 .. Len(upSent') : upSent'[i] = IF i = Len(upSent) + 1 THEN Len(forks) ELSE upSent[i]
    BY <1>2, <1>4, <2>1
  <2> QED
    BY <1>1, <2>1, <2>2 DEF Reported
<1>7. (RestTyped /\ ForksEarlier /\ AtNodes)'
  BY <1>1 DEF RestTyped, ForksEarlier, AtNodes
<1> QED
  BY <1>1, <1>3, <1>5, <1>6, <1>7, DownUnconcerned DEF Delivers

(* A fork is at a node that is there, and its new nodes come after it.     *)
LEMMA ForkDelivers ==
  ASSUME DeliveryInv, SearchersInv', Fork
  PROVE  Delivers
<1> USE DEF DeliveryInv
<1>1. UNCHANGED down /\ UNCHANGED up /\ UNCHANGED <<gone, dead, ids, alive, s2e>>
      /\ changed' \in BOOLEAN
  BY DEF Fork, Walked, thread, RestTyped
<1>2. /\ forks \in Seq(Nat) /\ at \in Seq(Nat) /\ Len(at) = Len(forks) + 1
      /\ states \subseteq 0 .. Len(forks) /\ Len(forks) \in Nat
  BY DEF SearchersInv, Typed, ExecutorTyped
<1>3. PICK s \in states, k \in Nat :
        /\ k = Len(forks) + 1
        /\ forks' = Append(forks, at[s + 1])
        /\ at' = Append([at EXCEPT ![s + 1] = 2 * k - 1], 2 * k)
  <2>1. PICK k \in Nat : k = Len(forks) + 1
    BY <1>2
  <2>2. \E s \in states : /\ forks' = Append(forks, at[s + 1])
                         /\ at' = Append([at EXCEPT ![s + 1] = 2 * k - 1], 2 * k)
    BY <2>1 DEF Fork
  <2> QED
    BY <2>1, <2>2
<1>4. s + 1 \in 1 .. Len(at) /\ at[s + 1] \in 0 .. 2 * Len(forks)
  BY <1>2 DEF AtNodes
<1>5. /\ Len(forks') = k
      /\ \A i \in 1 .. k : forks'[i] = IF i = k THEN at[s + 1] ELSE forks[i]
  BY <1>2, <1>3, <1>4
<1>6. ForksEarlier'
  BY <1>2, <1>3, <1>4, <1>5 DEF ForksEarlier
<1>7. AtNodes'
  <2> DEFINE moved == [at EXCEPT ![s + 1] = 2 * k - 1]
  <2>1. /\ moved \in Seq(Nat) /\ Len(moved) = k
        /\ \A i \in 1 .. k : moved[i] = IF i = s + 1 THEN 2 * k - 1 ELSE at[i]
    BY <1>2, <1>3, <1>4
  <2>2. at' = Append(moved, 2 * k)
    BY <1>3
  <2> HIDE DEF moved
  <2>3. Len(at') = k + 1 /\ \A i \in 1 .. k + 1 : at'[i] = IF i = k + 1 THEN 2 * k ELSE moved[i]
    BY <1>3, <2>1, <2>2
  <2>4. \A i \in 1 .. k + 1 : at'[i] \in 0 .. 2 * k
    BY <1>2, <1>3, <2>1, <2>3, SMTT(30) DEF AtNodes
  <2> QED
    BY <1>5, <2>3, <2>4 DEF AtNodes
<1>8. Reported'
  <2>1. Len(forks) <= Len(forks') /\ Len(forks') \in Nat
    BY <1>2, <1>3, <1>5
  <2>2. upSent \in Seq(Batches)
    BY DEF UpProofs!FramingInv, UpProofs!FramingTyped
  <2>3. \A i \in 1 .. Len(upSent) : upSent[i] \in Nat
    BY <2>2, PrioritiesAssumption DEF Batches
  <2> QED
    BY <1>1, <1>2, <2>1, <2>3 DEF Reported, up
<1>9. RestTyped'
  BY <1>1 DEF RestTyped
<1> QED
  BY <1>1, <1>6, <1>7, <1>8, <1>9, DownUnconcerned, UpUnconcerned DEF Delivers

(* What is left touches neither the nodes nor the socket.                  *)
LEMMA OthersDeliver ==
  ASSUME DeliveryInv, SearchersInv',
         UNCHANGED down, UNCHANGED up, UNCHANGED <<forks, at>>, RestTyped'
  PROVE  Delivers
<1>1. (ForksEarlier /\ AtNodes /\ Reported)'
  BY DEF DeliveryInv, ForksEarlier, AtNodes, Reported, up
<1> QED
  BY <1>1, DownUnconcerned, UpUnconcerned DEF Delivers, DeliveryInv

LEMMA NextDelivers ==
  ASSUME DeliveryInv, [Next]_vars
  PROVE  Delivers
<1>1. SearchersInv'
  BY NextSearchersInv DEF DeliveryInv
<1> USE DEF DeliveryInv
<1>2. CASE UNCHANGED vars
  <2>1. RestTyped'
    BY <1>2 DEF vars, executor, thread, walk, RestTyped
  <2> QED
    BY <1>1, <1>2, <2>1, OthersDeliver DEF vars, executor
<1>3. CASE ReceiveBatch \/ Prioritise \/ CloseWindow
  BY <1>1, <1>3, ReceiveBatchDelivers, PrioritiseDelivers, CloseWindowDelivers
<1>4. CASE Fork \/ Timer \/ Receive
  BY <1>1, <1>4, ForkDelivers, TimerDelivers, ReceiveDelivers
<1>5. CASE Initialize \/ Switch \/ Destroy \/ Join
  <2>1. /\ UNCHANGED <<down, up, forks, at, gone, dead, ids, changed>>
        /\ alive' \in BOOLEAN /\ s2e' \in {"early", "running", "joining", "ended", "aborted"}
    BY <1>5 DEF Initialize, Switch, Destroy, Join, executor, thread, walk, RestTyped
  <2>2. RestTyped'
    BY <2>1 DEF RestTyped
  <2> QED
    BY <1>1, <2>1, <2>2, OthersDeliver
<1>6. CASE Kill \/ Update
  <2>1. /\ UNCHANGED <<down, up, forks, at, ids, alive, s2e>>
        /\ changed' \in BOOLEAN
    BY <1>6 DEF Kill, Update, Walked, thread, RestTyped
  <2>2. gone' \subseteq dead'
    BY <1>6 DEF Kill, Update, RestTyped
  <2>3. RestTyped'
    BY <2>1, <2>2 DEF RestTyped
  <2> QED
    BY <1>1, <2>1, <2>3, OthersDeliver
<1>7. CASE Stop \/ Walk \/ Publish \/ WalkCrashes
  <2>1. /\ UNCHANGED <<down, up, forks, at, gone, dead, alive>>
        /\ ids' \in {ids, {}} /\ changed' \in {changed, FALSE} /\ s2e' \in {s2e, "aborted"}
    BY <1>7 DEF Stop, Walk, Publish, WalkCrashes, executor, thread, walk
  <2>2. RestTyped'
    BY <2>1 DEF RestTyped
  <2> QED
    BY <1>1, <2>1, <2>2, OthersDeliver
<1>8. CASE Filter
  <2>1. UNCHANGED <<down, up, forks, at, gone, dead, alive, changed, s2e>>
        /\ ids' = LiveOf(Last(taken)) /\ receiver = "filter"
    BY <1>8 DEF Filter, executor, walk
  <2>2. taken \in Seq(Priorities) /\ Len(taken) \in Nat
    BY DEF DownProofs!PollingInv, DownProofs!FramingInv, DownProofs!FramingTyped
  <2>3. Len(taken) > 0
    <3>1. installed \in DOMAIN searchers /\ searchers \in Seq(Searcher)
      BY DEF SearchersInv, Typed, HandingTyped
    <3>2. searchers[installed].request \in Nat
      BY <3>1, SearcherFields
    <3>3. searchers[installed].request < Len(taken)
      BY <2>1, <3>1 DEF SearchersInv, LookedAt
    <3> QED
      BY <2>2, <3>2, <3>3
  <2>4. Last(taken) \in Priorities
    <3>1. Last(taken) = taken[Len(taken)]
      BY DEF Last
    <3> QED
      BY <2>2, <2>3, <3>1
  <2>5. RestTyped'
    BY <2>1, <2>4 DEF RestTyped, LiveOf, Priorities
  <2> QED
    BY <1>1, <2>1, <2>5, OthersDeliver
<1> QED
  BY <1>2, <1>3, <1>4, <1>5, <1>6, <1>7, <1>8 DEF Next, S2E, Receiver

LEMMA InitDelivers == Init => DeliveryInv /\ Down!Stream!Init /\ Up!Stream!Init
<1> SUFFICES ASSUME Init PROVE DeliveryInv /\ Down!Stream!Init /\ Up!Stream!Init
  OBVIOUS
<1>1. SearchersInv
  BY InitSearchersInv
<1>2. RestTyped /\ ForksEarlier /\ AtNodes /\ Reported
  <2>1. forks = <<>> /\ at = <<0>> /\ upSent = <<>>
    BY DEF Init, Up!Init
  <2>2. ForksEarlier /\ AtNodes /\ Reported
    BY <2>1 DEF ForksEarlier, AtNodes, Reported
  <2> QED
    BY <2>2 DEF Init, RestTyped
<1>3. DownProofs!PollingInv
  BY DownOperations, DownSizes, DownProofs!InitPolling DEF Init
<1>4. UpProofs!FramingInv
  BY UpOperations, UpSizes, UpProofs!InitFraming DEF Init
<1>5. Down!Stream!Init /\ Up!Stream!Init
  BY DEF Init, Down!Init, Up!Init, Down!Stream!Init, Up!Stream!Init
<1> QED
  BY <1>1, <1>2, <1>3, <1>4, <1>5 DEF DeliveryInv

LEMMA DeliveryKeepsBuffers == DeliveryInv => BufferSuffices
<1> SUFFICES ASSUME DeliveryInv PROVE BufferSuffices
  OBVIOUS
<1> USE DEF DeliveryInv
<1>1. Down!TypeOK
  <2>1. DownProofs!TypeOK
    BY DownProofs!FramingKeepsType DEF DownProofs!PollingInv
  <2> QED
    BY <2>1 DEF DownProofs!TypeOK, Down!TypeOK, DownProofs!Bytes, Down!Bytes, DownProofs!Ok, Down!Ok
<1>2. Up!TypeOK
  <2>1. UpProofs!TypeOK
    BY UpProofs!FramingKeepsType
  <2> QED
    BY <2>1 DEF UpProofs!TypeOK, Up!TypeOK, UpProofs!Bytes, Up!Bytes, UpProofs!Ok, Up!Ok
<1>3. PrioritiesKept
  <2>1. DownProofs!NothingLost
    BY DownSizes, DownProofs!FramingLosesNothing DEF DownProofs!PollingInv
  <2> QED
    BY <2>1, Zenon DEF PrioritiesKept, Down!NothingLost, DownProofs!NothingLost, Down!Untaken,
       DownProofs!Untaken, Down!FlattenSeq, DownProofs!FlattenSeq, Down!Packet, DownProofs!Packet,
       Down!PacketSize, DownProofs!PacketSize
<1>4. PanicsOnlyOverflown
  BY DEF DownProofs!PollingInv, DownProofs!FailsOnlyOverflown, PanicsOnlyOverflown,
     Down!FailsOnlyOverflown
<1>5. TypeOK
  <2>1. 0 .. Len(forks) \subseteq Guids /\ ExecutorTyped /\ HandingTyped /\ ThreadTyped
    BY StatesAreGuids DEF SearchersInv, Typed
  <2>2. states \subseteq Guids /\ dead \subseteq Guids /\ excluded \subseteq Guids
    BY <2>1 DEF ExecutorTyped, ThreadTyped
  <2> QED
    BY <1>1, <1>2, <2>1, <2>2 DEF TypeOK, ExecutorTyped, HandingTyped, ThreadTyped, RestTyped
<1> QED
  BY <1>3, <1>4, <1>5 DEF BufferSuffices

LEMMA DeliveryInvHolds == Spec => []DeliveryInv
<1>1. Init => DeliveryInv
  BY InitDelivers
<1>2. DeliveryInv /\ [Next]_vars => DeliveryInv'
  BY NextDelivers DEF Delivers
<1> QED
  BY <1>1, <1>2, PTL DEF Spec

(* ipc.rs: no byte of what the window sends is lost, also not by a receive *)
(* that fails, and the receiver thread only panics when more waited in the *)
(* socket than its buffer holds, for any sizes of header and buffer and    *)
(* any number of requests; and every variable keeps to its type.           *)
THEOREM BufferIsEnough == Spec => []BufferSuffices
  BY DeliveryInvHolds, DeliveryKeepsBuffers, PTL

(* In both directions messages are taken whole, in order and once, however *)
(* the stream is cut into reads: each direction implements a queue.        *)
THEOREM PacketsAreDelivered == Spec => PacketsDelivered
<1>1. Init => Down!Stream!Init /\ Up!Stream!Init
  BY InitDelivers
<1>2. DeliveryInv /\ [Next]_vars => [Down!Stream!Next]_(Down!Stream!vars) /\ [Up!Stream!Next]_(Up!Stream!vars)
  <2> SUFFICES ASSUME DeliveryInv, [Next]_vars
               PROVE  [Down!Stream!Next]_(Down!Stream!vars) /\ [Up!Stream!Next]_(Up!Stream!vars)
    OBVIOUS
  <2>1. DownSteps /\ UpSteps
    BY NextDelivers DEF Delivers
  <2> QED
    BY <2>1 DEF DownSteps, UpSteps, Down!Stream!Next, Up!Stream!Next, Down!Stream!vars, Up!Stream!vars
<1> QED
  BY <1>1, <1>2, DeliveryInvHolds, PTL
     DEF Spec, PacketsDelivered, PrioritiesDelivered, BatchesDelivered, Down!Stream!Spec, Up!Stream!Spec
=============================================================================
