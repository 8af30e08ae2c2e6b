-------------------------- MODULE MethodSetProofs ---------------------------
(***************************************************************************)
(* Proofs about MethodSet, for any number of threads, sets and queries and *)
(* every configuration string.                                             *)
(***************************************************************************)
EXTENDS MethodSet, NatLemmas, TLAPS

-----------------------------------------------------------------------------
(* The inductive invariant. *)

Working == {"insert", "swap", "store"}
PCs == Working \union {"idle", "query", "init", "contains"}
ListStates == {"none", "live", "deleted"}

TypeOK ==
  /\ Initialized \in [Sets -> {0, 1}]
  /\ MethodIDList \in [Sets -> Threads \union {"null"}]
  /\ lists \in [Sets -> [Threads -> ListStates]]
  /\ pc \in [Threads -> PCs]
  /\ query \in [Threads -> Seq(Sets)]
  /\ \A t \in Threads : pc[t] # "idle" => query[t] # <<>>

\* Thread t has a list for set s that it has neither published nor deleted.
Inside(t, s) == pc[t] \in Working /\ Head(query[t]) = s

\* The live lists are those being made and the published one, which is not one of
\* those being made.
LiveLists ==
  \A s \in Sets : \A t \in Threads :
    /\ lists[s][t] = "live" <=> Inside(t, s) \/ MethodIDList[s] = t
    /\ Inside(t, s) => MethodIDList[s] # t

\* One thread at most has swapped the flag of a set and not yet stored its list.
OneFirst ==
  \A s \in Sets :
    /\ Initialized[s] = 0 => ~isInitialized(s)
    /\ \A t \in Threads : pc[t] = "store" /\ Head(query[t]) = s =>
         /\ Initialized[s] = 1 /\ ~isInitialized(s)
         /\ \A u \in Threads : pc[u] = "store" /\ Head(query[u]) = s => u = t

IInv == TypeOK /\ LiveLists /\ OneFirst

(* No list exists at the start. *)
LEMMA IInvInit == Init => IInv
<1> SUFFICES ASSUME Init PROVE IInv
  OBVIOUS
<1>1. TypeOK
  BY DEF Init, TypeOK, PCs, ListStates
<1>2. LiveLists
  BY ThreadsAssumption DEF Init, LiveLists, Inside, Working
<1>3. OneFirst
  BY DEF Init, OneFirst, isInitialized
<1>4. QED
  BY <1>1, <1>2, <1>3 DEF IInv

(* The set a busy thread works on is one of the sets. *)
LEMMA CurrentSet ==
  ASSUME TypeOK, NEW t \in Threads, pc[t] # "idle"
  PROVE  Head(query[t]) \in Sets /\ query[t] \in Seq(Sets) /\ query[t] # <<>>
  BY DEF TypeOK

(* The steps that touch neither the flags nor the lists, and after which the same
   threads have a list in the making, preserve the invariant. *)
LEMMA ListsUntouched ==
  ASSUME IInv, TypeOK', UNCHANGED <<Initialized, MethodIDList, lists>>,
         \A t \in Threads, s \in Sets : Inside(t, s)' <=> Inside(t, s),
         \A t \in Threads, s \in Sets : (pc[t] = "store" /\ Head(query[t]) = s)' =>
                                          pc[t] = "store" /\ Head(query[t]) = s
  PROVE  IInv'
<1>1. LiveLists'
  BY DEF IInv, LiveLists
<1>2. OneFirst'
  BY DEF IInv, OneFirst, isInitialized
<1>3. QED
  BY <1>1, <1>2 DEF IInv

-----------------------------------------------------------------------------
(* The steps, of any thread. *)

(* JitOptions, queryMethodSet and contains: no list is made or published. *)
LEMMA QueryStep ==
  ASSUME IInv, NEW t \in Threads, JitOptions(t) \/ queryMethodSet(t) \/ contains(t)
  PROVE  IInv'
<1>0. TypeOK
  BY DEF IInv
<1>1. UNCHANGED <<Initialized, MethodIDList, lists>>
  BY DEF JitOptions, queryMethodSet, contains
<1>2. /\ pc[t] \notin Working /\ pc' \in [Threads -> PCs] /\ pc'[t] \notin Working
      /\ query' \in [Threads -> Seq(Sets)]
      /\ pc'[t] # "idle" => query'[t] # <<>>
      /\ \A u \in Threads \ {t} : pc'[u] = pc[u] /\ query'[u] = query[u]
  <2>1. CASE JitOptions(t)
    <3>1. PICK altJit \in AltJitSets : query' = [query EXCEPT ![t] = <<altJit>> \o Queries]
      BY <2>1 DEF JitOptions
    <3>2. Queries \in Seq(Sets) /\ altJit \in Sets
      <4>1. \A i \in 1 .. Len(Queries) : Queries[i] \in Sets
        BY DEF Sets
      <4>2. QED
        BY <4>1, QueriesAssumption DEF Sets
    <3>3. <<altJit>> \o Queries \in Seq(Sets) /\ <<altJit>> \o Queries # <<>>
      BY <3>2
    <3>4. QED
      BY <1>0, <2>1, <3>1, <3>3 DEF JitOptions, TypeOK, Working, PCs
  <2>2. CASE queryMethodSet(t)
    BY <1>0, <2>2 DEF queryMethodSet, TypeOK, Working, PCs
  <2>3. CASE contains(t)
    <3>1. query[t] \in Seq(Sets) /\ query[t] # <<>>
      BY <1>0, <2>3, CurrentSet DEF contains
    <3>2. Tail(query[t]) \in Seq(Sets)
      BY <3>1
    <3>3. QED
      BY <1>0, <2>3, <3>2 DEF contains, TypeOK, Working, PCs
  <2>4. QED
    BY <2>1, <2>2, <2>3
<1>3. TypeOK'
  BY <1>0, <1>1, <1>2 DEF TypeOK
<1>4. QED
  BY <1>1, <1>2, <1>3, ListsUntouched DEF Inside, Working

(* The parsing of one pattern: the list stays in the making. *)
LEMMA InsertStep ==
  ASSUME IInv, NEW t \in Threads, insert(t)
  PROVE  IInv'
<1>0. TypeOK
  BY DEF IInv
<1>1. UNCHANGED <<Initialized, MethodIDList, lists, query>>
  BY DEF insert
<1>2. /\ pc[t] = "insert" /\ pc' \in [Threads -> PCs] /\ pc'[t] \in {"insert", "swap"}
      /\ \A u \in Threads \ {t} : pc'[u] = pc[u]
  BY <1>0 DEF insert, TypeOK, Working, PCs
<1>3. TypeOK'
  BY <1>0, <1>1, <1>2 DEF TypeOK
<1>4. QED
  BY <1>1, <1>2, <1>3, ListsUntouched DEF Inside, Working

(* A list is made only for a set that has none. *)
LEMMA InitStep ==
  ASSUME IInv, NEW t \in Threads, init(t)
  PROVE  IInv'
<1> DEFINE s == Head(query[t])
<1>0. TypeOK
  BY DEF IInv
<1>1. pc[t] = "init" /\ s \in Sets /\ UNCHANGED <<Initialized, MethodIDList, query>>
  BY <1>0, CurrentSet DEF init
<1>2. CASE isInitialized(s)
  <2>1. pc' = [pc EXCEPT ![t] = "contains"] /\ UNCHANGED lists
    BY <1>2 DEF init
  <2>2. TypeOK'
    BY <1>0, <1>1, <2>1 DEF TypeOK, PCs
  <2>3. QED
    BY <1>0, <1>1, <2>1, <2>2, ListsUntouched DEF Inside, Working, TypeOK
<1>3. CASE ~isInitialized(s)
  <2>1. pc' = [pc EXCEPT ![t] = "insert"] /\ lists' = [lists EXCEPT ![s][t] = "live"]
    BY <1>3 DEF init
  <2>2. TypeOK'
    <3>1. lists' \in [Sets -> [Threads -> ListStates]]
      BY <1>0, <1>1, <2>1 DEF TypeOK, ListStates
    <3>2. QED
      BY <1>0, <1>1, <2>1, <3>1 DEF TypeOK, PCs, Working
  <2>3. \A u \in Threads, r \in Sets : Inside(u, r)' <=> Inside(u, r) \/ (u = t /\ r = s)
    BY <1>0, <1>1, <2>1 DEF Inside, Working, TypeOK
  <2>4. \A u \in Threads, r \in Sets :
          lists'[r][u] = IF u = t /\ r = s THEN "live" ELSE lists[r][u]
    BY <1>0, <1>1, <2>1 DEF TypeOK
  <2>5. LiveLists'
    BY <1>1, <1>3, <2>3, <2>4, ThreadsAssumption DEF IInv, LiveLists, isInitialized
  <2>6. OneFirst'
    BY <1>0, <1>1, <2>1 DEF IInv, OneFirst, isInitialized, TypeOK
  <2>7. QED
    BY <2>2, <2>5, <2>6 DEF IInv
<1>4. QED
  BY <1>2, <1>3

(* The swap lets one thread go on to the store, and deletes the list of another. *)
LEMMA SwapStep ==
  ASSUME IInv, NEW t \in Threads, CompareAndSwap(t)
  PROVE  IInv'
<1> DEFINE s == Head(query[t])
<1>0. TypeOK
  BY DEF IInv
<1>1. pc[t] = "swap" /\ s \in Sets /\ UNCHANGED <<MethodIDList, query>>
  BY <1>0, CurrentSet DEF CompareAndSwap
<1>2. CASE Initialized[s] = 0
  <2>1. pc' = [pc EXCEPT ![t] = "store"] /\ Initialized' = [Initialized EXCEPT ![s] = 1]
        /\ UNCHANGED lists
    BY <1>2 DEF CompareAndSwap
  <2>2. TypeOK'
    BY <1>0, <1>1, <2>1 DEF TypeOK, PCs, Working
  <2>3. \A u \in Threads, r \in Sets : Inside(u, r)' <=> Inside(u, r)
    BY <1>0, <1>1, <2>1 DEF Inside, Working, TypeOK
  <2>4. LiveLists'
    BY <1>1, <2>1, <2>3 DEF IInv, LiveLists
  <2>5. \A u \in Threads : ~(pc[u] = "store" /\ Head(query[u]) = s)
    BY <1>1, <1>2 DEF IInv, OneFirst
  <2>6. \A u \in Threads : pc'[u] = IF u = t THEN "store" ELSE pc[u]
    BY <1>0, <2>1 DEF TypeOK
  <2>7. \A r \in Sets : Initialized'[r] = IF r = s THEN 1 ELSE Initialized[r]
    BY <1>0, <1>1, <2>1 DEF TypeOK
  <2>8. ~isInitialized(s)
    BY <1>1, <1>2 DEF IInv, OneFirst
  <2>9. OneFirst'
    <3> SUFFICES ASSUME NEW r \in Sets
                 PROVE  /\ Initialized'[r] = 0 => ~isInitialized(r)
                        /\ \A u \in Threads : pc'[u] = "store" /\ Head(query[u]) = r =>
                             /\ Initialized'[r] = 1 /\ ~isInitialized(r)
                             /\ \A v \in Threads : pc'[v] = "store" /\ Head(query[v]) = r => v = u
      BY <1>1 DEF OneFirst, isInitialized
    <3>1. CASE r = s
      BY <2>5, <2>6, <2>7, <2>8, <3>1
    <3>2. CASE r # s
      BY <2>6, <2>7, <3>2 DEF IInv, OneFirst
    <3>3. QED
      BY <3>1, <3>2
  <2>10. QED
    BY <2>2, <2>4, <2>9 DEF IInv
<1>3. CASE Initialized[s] # 0
  <2>1. pc' = [pc EXCEPT ![t] = "contains"] /\ lists' = [lists EXCEPT ![s][t] = "deleted"]
        /\ UNCHANGED Initialized
    BY <1>3 DEF CompareAndSwap
  <2>2. TypeOK'
    <3>1. lists' \in [Sets -> [Threads -> ListStates]]
      BY <1>0, <1>1, <2>1 DEF TypeOK, ListStates
    <3>2. QED
      BY <1>0, <1>1, <2>1, <3>1 DEF TypeOK, PCs, Working
  <2>3. \A u \in Threads, r \in Sets : Inside(u, r)' <=> Inside(u, r) /\ ~(u = t /\ r = s)
    BY <1>0, <1>1, <2>1 DEF Inside, Working, TypeOK
  <2>4. \A u \in Threads, r \in Sets :
          lists'[r][u] = IF u = t /\ r = s THEN "deleted" ELSE lists[r][u]
    BY <1>0, <1>1, <2>1 DEF TypeOK
  <2>5. MethodIDList[s] # t
    BY <1>1 DEF IInv, LiveLists, Inside, Working
  <2>6. LiveLists'
    BY <1>1, <2>3, <2>4, <2>5 DEF IInv, LiveLists
  <2>7. OneFirst'
    BY <1>0, <1>1, <2>1 DEF IInv, OneFirst, isInitialized, TypeOK
  <2>8. QED
    BY <2>2, <2>6, <2>7 DEF IInv
<1>4. QED
  BY <1>2, <1>3

(* The store publishes the list of the thread that was first, where there was none. *)
LEMMA StoreStep ==
  ASSUME IInv, NEW t \in Threads, store(t)
  PROVE  IInv'
<1> DEFINE s == Head(query[t])
<1>0. TypeOK
  BY DEF IInv
<1>1. pc[t] = "store" /\ s \in Sets /\ UNCHANGED <<Initialized, lists, query>>
      /\ pc' = [pc EXCEPT ![t] = "contains"]
      /\ MethodIDList' = [MethodIDList EXCEPT ![s] = t]
  BY <1>0, CurrentSet DEF store
<1>2. Initialized[s] = 1 /\ MethodIDList[s] = "null"
      /\ \A u \in Threads : pc[u] = "store" /\ Head(query[u]) = s => u = t
  BY <1>1 DEF IInv, OneFirst, isInitialized
<1>3. TypeOK'
  BY <1>0, <1>1 DEF TypeOK, PCs
<1>4. \A u \in Threads, r \in Sets : Inside(u, r)' <=> Inside(u, r) /\ ~(u = t /\ r = s)
  BY <1>0, <1>1 DEF Inside, Working, TypeOK
<1>5. \A r \in Sets : MethodIDList'[r] = IF r = s THEN t ELSE MethodIDList[r]
  BY <1>0, <1>1 DEF TypeOK
<1>6. LiveLists'
  <2>1. Inside(t, s)
    BY <1>1 DEF Inside, Working
  <2>2. QED
    BY <1>1, <1>2, <1>4, <1>5, <2>1, ThreadsAssumption DEF IInv, LiveLists
<1>7. \A u \in Threads : pc'[u] = IF u = t THEN "contains" ELSE pc[u]
  BY <1>0, <1>1 DEF TypeOK
<1>8. OneFirst'
  <2> SUFFICES ASSUME NEW r \in Sets
               PROVE  /\ Initialized[r] = 0 => MethodIDList'[r] = "null"
                      /\ \A u \in Threads : pc'[u] = "store" /\ Head(query[u]) = r =>
                           /\ Initialized[r] = 1 /\ MethodIDList'[r] = "null"
                           /\ \A v \in Threads : pc'[v] = "store" /\ Head(query[v]) = r => v = u
    BY <1>1 DEF OneFirst, isInitialized
  <2>1. CASE r = s
    BY <1>2, <1>5, <1>7, <2>1
  <2>2. CASE r # s
    BY <1>5, <1>7, <2>2 DEF IInv, OneFirst, isInitialized
  <2>3. QED
    BY <2>1, <2>2
<1>9. QED
  BY <1>3, <1>6, <1>8 DEF IInv

(* The inductive invariant holds in every state. *)
LEMMA SpecIInv == Spec => []IInv
<1>1. IInv /\ [Next]_vars => IInv'
  <2> SUFFICES ASSUME IInv, [Next]_vars PROVE IInv'
    OBVIOUS
  <2>1. CASE UNCHANGED vars
    BY <2>1 DEF vars, IInv, TypeOK, LiveLists, Inside, OneFirst, isInitialized
  <2>2. CASE Next
    BY <2>2, QueryStep, InsertStep, InitStep, SwapStep, StoreStep DEF Next, Step
  <2>3. QED
    BY <2>1, <2>2
<1>2. QED
  BY <1>1, IInvInit, PTL DEF Spec

(* The list a query walks through is never a deleted one, and when no thread is
   inside init the published list is the only one that exists: however many threads
   race for a set, the lists of all but the first are deleted. *)
THEOREM OneListSurvivesHolds == Spec => []OneListSurvives
<1>1. IInv => OneListSurvives
  <2> SUFFICES ASSUME IInv, NEW s \in Sets
               PROVE  /\ isInitialized(s) => lists[s][MethodIDList[s]] = "live"
                      /\ (\A t \in Threads : ~Inside(t, s)) =>
                           {t \in Threads : lists[s][t] = "live"} = {MethodIDList[s]} \ {"null"}
    BY DEF OneListSurvives, Inside, Working
  <2>1. MethodIDList[s] \in Threads \union {"null"}
    BY DEF IInv, TypeOK
  <2>2. \A t \in Threads : lists[s][t] = "live" <=> Inside(t, s) \/ MethodIDList[s] = t
    BY DEF IInv, LiveLists
  <2>3. QED
    BY <2>1, <2>2, ThreadsAssumption DEF isInitialized
<1>2. QED
  BY <1>1, SpecIInv, PTL
-----------------------------------------------------------------------------
(* What the lists hold.  A parse of string c is traced by the indices it has come
   to: each is where the pattern before it ended. *)
Traces(c, n, tr) ==
  /\ tr[0] = 1
  /\ \A m \in 1 .. n : Parses[c][tr[m - 1]].ok /\ tr[m] = Parses[c][tr[m - 1]].I
ListOf(c, n, tr) == [m \in 1 .. n |-> Parses[c][tr[m - 1]].MId]

\* L is what has been parsed when the index is i, or all there is to parse.
PartOf(c, L, i) == \E n \in Nat : \E tr : Traces(c, n, tr) /\ L = ListOf(c, n, tr) /\ i = tr[n]
AllOf(c, L) == \E i : PartOf(c, L, i) /\ ~Parses[c][i].ok

\* A thread makes one list for a set at most.
MadeOnce ==
  \A s \in Sets : \A t \in Threads :
    /\ lists[s][t] = "none" => MIdList[s][t] = <<>>
    /\ ~isInitialized(s) /\ lists[s][t] # "none" =>
         aborted \/ (pc[t] \in Working \union {"contains"} /\ Head(query[t]) = s)

Parsing ==
  \A s \in Sets : \A t \in Threads :
    /\ pc[t] = "insert" /\ Head(query[t]) = s => PartOf(config, MIdList[s][t], I[t])
    /\ pc[t] \in {"swap", "store"} /\ Head(query[t]) = s => AllOf(config, MIdList[s][t])
    /\ MethodIDList[s] = t => AllOf(config, MIdList[s][t])

ListTypeOK ==
  /\ config \in Configs
  /\ DOMAIN I = Threads
  /\ DOMAIN MIdList = Sets
  /\ \A s \in Sets : DOMAIN MIdList[s] = Threads

ListInv == ListTypeOK /\ MadeOnce /\ Parsing

(* Two traces of one string agree as far as both go. *)
LEMMA TracesAgree ==
  ASSUME NEW c, NEW n \in Nat, NEW k \in Nat, NEW tr, NEW ur,
         Traces(c, n, tr), Traces(c, k, ur)
  PROVE  \A m \in Nat : m <= n /\ m <= k => tr[m] = ur[m]
<1> DEFINE T == {m \in Nat : m <= n /\ m <= k /\ tr[m] # ur[m]}
<1> SUFFICES ASSUME T # {} PROVE FALSE
  OBVIOUS
<1>1. PICK m \in T : \A l \in T : m <= l
  BY Least
<1>2. m # 0
  BY DEF Traces
<1>3. m - 1 \in Nat /\ m - 1 <= n /\ m - 1 <= k /\ m \in 1 .. n /\ m \in 1 .. k
  BY <1>2
<1>4. tr[m - 1] = ur[m - 1]
  <2>1. ~(m <= m - 1)
    BY <1>3
  <2>2. m - 1 \notin T
    BY <1>1, <2>1
  <2>3. QED
    BY <1>3, <2>2
<1>5. tr[m] = ur[m]
  BY <1>3, <1>4 DEF Traces
<1>6. QED
  BY <1>5

(* A string has one complete list. *)
LEMMA OneCompleteList ==
  ASSUME NEW c, NEW L, NEW M, AllOf(c, L), AllOf(c, M)
  PROVE  L = M
<1>1a. PICK n \in Nat : \E tr : Traces(c, n, tr) /\ L = ListOf(c, n, tr) /\ ~Parses[c][tr[n]].ok
  BY DEF AllOf, PartOf
<1>1. PICK tr : Traces(c, n, tr) /\ L = ListOf(c, n, tr) /\ ~Parses[c][tr[n]].ok
  BY <1>1a
<1>2a. PICK k \in Nat : \E ur : Traces(c, k, ur) /\ M = ListOf(c, k, ur) /\ ~Parses[c][ur[k]].ok
  BY DEF AllOf, PartOf
<1>2. PICK ur : Traces(c, k, ur) /\ M = ListOf(c, k, ur) /\ ~Parses[c][ur[k]].ok
  BY <1>2a
<1>3. \A m \in Nat : m <= n /\ m <= k => tr[m] = ur[m]
  BY <1>1, <1>2, TracesAgree
<1>4. ~(n < k)
  <2> SUFFICES ASSUME n < k PROVE FALSE
    OBVIOUS
  <2>1. n + 1 \in 1 .. k /\ (n + 1) - 1 = n
    OBVIOUS
  <2>2. Parses[c][ur[n]].ok
    BY <1>2, <2>1 DEF Traces
  <2>3. QED
    BY <1>1, <1>3, <2>2
<1>5. ~(k < n)
  <2> SUFFICES ASSUME k < n PROVE FALSE
    OBVIOUS
  <2>1. k + 1 \in 1 .. n /\ (k + 1) - 1 = k
    OBVIOUS
  <2>2. Parses[c][tr[k]].ok
    BY <1>1, <2>1 DEF Traces
  <2>3. QED
    BY <1>2, <1>3, <2>2
<1>6. n = k
  BY <1>4, <1>5
<1>7. \A m \in 1 .. n : tr[m - 1] = ur[m - 1]
  <2>1. \A m \in 1 .. n : m - 1 \in Nat /\ m - 1 <= n /\ m - 1 <= k
    BY <1>6
  <2>2. QED
    BY <1>3, <2>1
<1>8. QED
  BY <1>1, <1>2, <1>6, <1>7 DEF ListOf

(* The parse of one more pattern makes the list longer by it. *)
LEMMA PartGrows ==
  ASSUME NEW c, NEW L, NEW i, PartOf(c, L, i), Parses[c][i].ok
  PROVE  PartOf(c, Append(L, Parses[c][i].MId), Parses[c][i].I)
<1>1a. PICK n \in Nat : \E tr : Traces(c, n, tr) /\ L = ListOf(c, n, tr) /\ i = tr[n]
  BY DEF PartOf
<1>1. PICK tr : Traces(c, n, tr) /\ L = ListOf(c, n, tr) /\ i = tr[n]
  BY <1>1a
<1> DEFINE ur == [m \in 0 .. n + 1 |-> IF m <= n THEN tr[m] ELSE Parses[c][i].I]
<1>2. ur[n + 1] = Parses[c][i].I /\ ur[n] = i /\ n + 1 \in Nat
      /\ \A m \in 0 .. n : ur[m] = tr[m]
  BY <1>1
<1> HIDE DEF ur
<1>3. Traces(c, n + 1, ur)
  <2>1. ur[0] = 1
    BY <1>1, <1>2 DEF Traces
  <2>2. ASSUME NEW m \in 1 .. n + 1
        PROVE  Parses[c][ur[m - 1]].ok /\ ur[m] = Parses[c][ur[m - 1]].I
    <3>1. CASE m = n + 1
      BY <1>2, <3>1, m - 1 = n
    <3>2. CASE m # n + 1
      <4>1. m \in 1 .. n /\ m - 1 \in 0 .. n /\ m \in 0 .. n
        BY <3>2
      <4>2. QED
        BY <1>1, <1>2, <4>1 DEF Traces
    <3>3. QED
      BY <3>1, <3>2
  <2>3. QED
    BY <2>1, <2>2 DEF Traces
<1>4. Append(L, Parses[c][i].MId) = ListOf(c, n + 1, ur)
  <2> DEFINE f == [m \in 1 .. n |-> Parses[c][tr[m - 1]].MId]
             g == [m \in 1 .. n + 1 |-> Parses[c][ur[m - 1]].MId]
             e == Parses[c][i].MId
             S == {g[m] : m \in 1 .. n + 1}
  <2>1. L = f /\ ListOf(c, n + 1, ur) = g
    BY <1>1 DEF ListOf
  <2>2. \A m \in 1 .. n : f[m] = g[m]
    <3>1. \A m \in 1 .. n : m - 1 \in 0 .. n /\ m \in 1 .. n + 1
      OBVIOUS
    <3>2. QED
      BY <1>2, <3>1
  <2>3. g[n + 1] = e
    BY <1>2, (n + 1) - 1 = n
  <2>4. g \in [1 .. n + 1 -> S] /\ f = [m \in 1 .. n |-> f[m]]
    OBVIOUS
  <2> HIDE DEF f, g, e, S
  <2>5. f \in Seq(S) /\ Len(f) = n /\ g \in Seq(S) /\ Len(g) = n + 1 /\ e \in S
    <3>1. \A m \in 1 .. n : f[m] \in S
      BY <2>2, <2>4
    <3>2. f \in [1 .. n -> S]
      BY <2>4, <3>1
    <3>3. e \in S
      BY <2>3, <2>4
    <3>4. QED
      BY <2>4, <3>2, <3>3
  <2>6. Append(f, e) = g
    BY <2>2, <2>3, <2>5
  <2>7. QED
    BY <2>1, <2>6 DEF e
<1>5. QED
  BY <1>2, <1>3, <1>4 DEF PartOf

(* The parse starts at the first character with an empty list. *)
LEMMA PartStarts ==
  ASSUME NEW c
  PROVE  PartOf(c, <<>>, 1)
<1> DEFINE tr == [m \in {0} |-> 1]
<1>1. Traces(c, 0, tr)
  BY DEF Traces
<1>2. <<>> = ListOf(c, 0, tr)
  BY DEF ListOf
<1>3. QED
  BY <1>1, <1>2 DEF PartOf
(* JitOptions, queryMethodSet and contains leave every list as it is; contains
   stops the process if the set it asks has no list. *)
LEMMA QueryLists ==
  ASSUME IInv, ListInv, NEW t \in Threads, JitOptions(t) \/ queryMethodSet(t) \/ contains(t)
  PROVE  ListInv'
<1>0. TypeOK
  BY DEF IInv
<1>1. UNCHANGED <<config, MIdList, I, MethodIDList, lists>> /\ ~aborted
  BY DEF JitOptions, queryMethodSet, contains, parseVars
<1>2. /\ pc[t] \notin Working /\ pc'[t] \notin Working
      /\ \A u \in Threads \ {t} : pc'[u] = pc[u] /\ query'[u] = query[u]
  BY <1>0 DEF JitOptions, queryMethodSet, contains, TypeOK, Working
<1>3. ListTypeOK'
  BY <1>1 DEF ListInv, ListTypeOK
<1>4. Parsing'
  BY <1>1, <1>2 DEF ListInv, Parsing, Working
<1>5. MadeOnce'
  <2> SUFFICES ASSUME NEW s \in Sets, NEW u \in Threads, ~isInitialized(s), lists[s][u] # "none"
               PROVE  aborted' \/ (pc'[u] \in Working \union {"contains"} /\ Head(query'[u]) = s)
    BY <1>1 DEF ListInv, MadeOnce, isInitialized
  <2>1. pc[u] \in Working \union {"contains"} /\ Head(query[u]) = s
    BY <1>1 DEF ListInv, MadeOnce
  <2>2. CASE u # t
    BY <1>2, <2>1, <2>2
  <2>3. CASE u = t
    <3>1. pc[t] = "contains"
      BY <1>2, <2>1, <2>3
    <3>2. contains(t)
      BY <3>1 DEF JitOptions, queryMethodSet
    <3>3. aborted' = ~isInitialized(Head(query[t]))
      BY <3>2 DEF contains
    <3>4. QED
      BY <2>1, <2>3, <3>3
  <2>4. QED
    BY <2>2, <2>3
<1>6. QED
  BY <1>3, <1>4, <1>5 DEF ListInv

(* A new list is empty, and the parse starts at the first character. *)
LEMMA InitLists ==
  ASSUME IInv, ListInv, NEW t \in Threads, init(t)
  PROVE  ListInv'
<1> DEFINE s == Head(query[t])
<1>0. TypeOK
  BY DEF IInv
<1>1. pc[t] = "init" /\ s \in Sets /\ UNCHANGED <<config, MethodIDList, MIdList, query, aborted>>
      /\ ~aborted
  BY <1>0, CurrentSet DEF init
<1>2. CASE isInitialized(s)
  <2>1. UNCHANGED <<lists, I>> /\ \A u \in Threads : pc'[u] = IF u = t THEN "contains" ELSE pc[u]
    BY <1>0, <1>2 DEF init, TypeOK
  <2>2. ListTypeOK' /\ Parsing'
    BY <1>1, <2>1 DEF ListInv, ListTypeOK, Parsing
  <2>3. MadeOnce'
    BY <1>1, <2>1 DEF ListInv, MadeOnce, isInitialized, Working
  <2>4. QED
    BY <2>2, <2>3 DEF ListInv
<1>3. CASE ~isInitialized(s)
  <2>1. /\ \A u \in Threads : pc'[u] = IF u = t THEN "insert" ELSE pc[u]
        /\ \A u \in Threads, r \in Sets :
             lists'[r][u] = IF u = t /\ r = s THEN "live" ELSE lists[r][u]
    BY <1>0, <1>1, <1>3 DEF init, TypeOK
  <2>2. DOMAIN I' = Threads /\ \A u \in Threads : I'[u] = IF u = t THEN 1 ELSE I[u]
    BY <1>3 DEF init, ListInv, ListTypeOK
  <2>3. MIdList[s][t] = <<>>
    <3>1. lists[s][t] = "none"
      BY <1>1, <1>3 DEF ListInv, MadeOnce, Working
    <3>2. QED
      BY <1>1, <3>1 DEF ListInv, MadeOnce
  <2>4. ListTypeOK'
    BY <1>1, <2>2 DEF ListInv, ListTypeOK
  <2>5. MadeOnce'
    BY <1>1, <2>1 DEF ListInv, MadeOnce, isInitialized, Working
  <2>6. Parsing'
    <3>1. PartOf(config, MIdList[s][t], 1)
      BY <2>3, PartStarts
    <3>2. ASSUME NEW r \in Sets, NEW u \in Threads
          PROVE  /\ pc'[u] = "insert" /\ Head(query[u]) = r => PartOf(config, MIdList[r][u], I'[u])
                 /\ pc'[u] \in {"swap", "store"} /\ Head(query[u]) = r => AllOf(config, MIdList[r][u])
                 /\ MethodIDList[r] = u => AllOf(config, MIdList[r][u])
      <4>1. CASE u = t
        BY <1>1, <2>1, <2>2, <3>1, <4>1 DEF ListInv, Parsing
      <4>2. CASE u # t
        BY <2>1, <2>2, <4>2 DEF ListInv, Parsing
      <4>3. QED
        BY <4>1, <4>2
    <3>3. QED
      BY <1>1, <3>2 DEF Parsing
  <2>7. QED
    BY <2>4, <2>5, <2>6 DEF ListInv
<1>4. QED
  BY <1>2, <1>3

(* insert's loop adds the pattern it parsed, or has come to the end. *)
LEMMA InsertLists ==
  ASSUME IInv, ListInv, NEW t \in Threads, insert(t)
  PROVE  ListInv'
<1> DEFINE s == Head(query[t])
           r == Parses[config][I[t]]
<1>0. TypeOK
  BY DEF IInv
<1>1. pc[t] = "insert" /\ s \in Sets /\ UNCHANGED <<config, MethodIDList, lists, query>>
  BY <1>0, CurrentSet DEF insert
<1>2. /\ I' = [I EXCEPT ![t] = IF r.ok THEN r.I ELSE 1]
      /\ MIdList' = IF r.ok THEN [MIdList EXCEPT ![s][t] = Append(@, r.MId)] ELSE MIdList
      /\ pc' = [pc EXCEPT ![t] = IF r.ok THEN "insert" ELSE "swap"]
  BY DEF insert
<1>3. PartOf(config, MIdList[s][t], I[t])
  BY <1>1 DEF ListInv, Parsing
<1>4. r.ok => PartOf(config, Append(MIdList[s][t], r.MId), r.I)
  BY <1>3, PartGrows
<1>5. ~r.ok => AllOf(config, MIdList[s][t])
  BY <1>3 DEF AllOf
<1> HIDE DEF r
<1>6. ListTypeOK'
  BY <1>1, <1>2 DEF ListInv, ListTypeOK
<1>7. \A u \in Threads : /\ pc'[u] = IF u # t THEN pc[u] ELSE IF r.ok THEN "insert" ELSE "swap"
                         /\ I'[u] = IF u # t THEN I[u] ELSE IF r.ok THEN r.I ELSE 1
  BY <1>0, <1>2 DEF TypeOK, ListInv, ListTypeOK
<1>8. \A u \in Threads, q \in Sets :
        MIdList'[q][u] = IF u = t /\ q = s /\ r.ok THEN Append(MIdList[s][t], r.MId) ELSE MIdList[q][u]
  BY <1>1, <1>2 DEF ListInv, ListTypeOK
<1>9. lists[s][t] = "live" /\ MethodIDList[s] # t
  BY <1>1 DEF IInv, LiveLists, Inside, Working
<1>10. MadeOnce'
  <2> SUFFICES ASSUME NEW q \in Sets, NEW u \in Threads
               PROVE  /\ lists[q][u] = "none" => MIdList'[q][u] = <<>>
                      /\ ~isInitialized(q) /\ lists[q][u] # "none" =>
                           aborted' \/ (pc'[u] \in Working \union {"contains"} /\ Head(query[u]) = q)
    BY <1>1 DEF MadeOnce, isInitialized
  <2>1. lists[q][u] = "none" => MIdList'[q][u] = <<>>
    BY <1>8, <1>9 DEF ListInv, MadeOnce
  <2>2. ~isInitialized(q) /\ lists[q][u] # "none" =>
          pc[u] \in Working \union {"contains"} /\ Head(query[u]) = q
    BY DEF ListInv, MadeOnce, insert
  <2>3. pc[u] \in Working \union {"contains"} => pc'[u] \in Working \union {"contains"}
    BY <1>7 DEF Working
  <2>4. QED
    BY <2>1, <2>2, <2>3
<1>11. Parsing'
  <2> SUFFICES ASSUME NEW q \in Sets, NEW u \in Threads
               PROVE  /\ pc'[u] = "insert" /\ Head(query[u]) = q => PartOf(config, MIdList'[q][u], I'[u])
                      /\ pc'[u] \in {"swap", "store"} /\ Head(query[u]) = q => AllOf(config, MIdList'[q][u])
                      /\ MethodIDList[q] = u => AllOf(config, MIdList'[q][u])
    BY <1>1 DEF Parsing
  <2>1. CASE u = t /\ q = s
    BY <1>4, <1>5, <1>7, <1>8, <1>9, <2>1
  <2>2. CASE ~(u = t /\ q = s)
    <3>1. MIdList'[q][u] = MIdList[q][u]
      BY <1>8, <2>2
    <3>2. QED
      BY <1>7, <2>2, <3>1 DEF ListInv, Parsing
  <2>3. QED
    BY <2>1, <2>2
<1>12. QED
  BY <1>6, <1>10, <1>11 DEF ListInv

(* The swap and the store: a complete list is published or deleted. *)
LEMMA PublishLists ==
  ASSUME IInv, ListInv, NEW t \in Threads, CompareAndSwap(t) \/ store(t)
  PROVE  ListInv'
<1> DEFINE s == Head(query[t])
<1>0. TypeOK
  BY DEF IInv
<1>1. s \in Sets /\ UNCHANGED <<config, MIdList, I, query, aborted>> /\ ~aborted
  BY <1>0, CurrentSet DEF CompareAndSwap, store, parseVars
<1>2. ListTypeOK'
  BY <1>1 DEF ListInv, ListTypeOK
<1>3. AllOf(config, MIdList[s][t])
  BY <1>1 DEF CompareAndSwap, store, ListInv, Parsing
<1>4. CASE CompareAndSwap(t)
  <2>1. pc[t] = "swap" /\ UNCHANGED MethodIDList
        /\ \A u \in Threads : IF u # t THEN pc'[u] = pc[u] ELSE pc'[u] \in {"store", "contains"}
    BY <1>0, <1>4 DEF CompareAndSwap, TypeOK
  <2>2. \A q \in Sets, u \in Threads :
          /\ lists'[q][u] = "none" => lists[q][u] = "none"
          /\ lists'[q][u] # "none" => lists[q][u] # "none" \/ (u = t /\ q = s)
    <3>1. lists' = lists \/ lists' = [lists EXCEPT ![s][t] = "deleted"]
      BY <1>4 DEF CompareAndSwap
    <3>2. CASE lists' = lists
      BY <3>2
    <3>3. CASE lists' = [lists EXCEPT ![s][t] = "deleted"]
      <4>1. \A q \in Sets, u \in Threads :
              lists'[q][u] = IF u = t /\ q = s THEN "deleted" ELSE lists[q][u]
        BY <1>0, <1>1, <3>3 DEF TypeOK
      <4>2. lists[s][t] # "none"
        BY <1>1, <2>1 DEF IInv, LiveLists, Inside, Working
      <4>3. QED
        BY <4>1, <4>2
    <3>4. QED
      BY <3>1, <3>2, <3>3
  <2>3. MadeOnce'
    BY <1>1, <2>1, <2>2 DEF ListInv, MadeOnce, isInitialized, Working
  <2>4. Parsing'
    BY <1>1, <1>3, <2>1 DEF ListInv, Parsing
  <2>5. QED
    BY <1>2, <2>3, <2>4 DEF ListInv
<1>5. CASE store(t)
  <2>1. pc[t] = "store" /\ UNCHANGED lists
        /\ (\A u \in Threads : pc'[u] = IF u # t THEN pc[u] ELSE "contains")
        /\ (\A q \in Sets : MethodIDList'[q] = IF q = s THEN t ELSE MethodIDList[q])
    BY <1>0, <1>1, <1>5 DEF store, TypeOK
  <2>2. MadeOnce'
    BY <1>1, <2>1, ThreadsAssumption DEF ListInv, MadeOnce, isInitialized, Working
  <2>3. Parsing'
    BY <1>1, <1>3, <2>1 DEF ListInv, Parsing
  <2>4. QED
    BY <1>2, <2>2, <2>3 DEF ListInv
<1>6. QED
  BY <1>4, <1>5

(* What the lists hold is right in every state. *)
LEMMA SpecListInv == Spec => []ListInv
<1>1. Init => ListInv
  BY ThreadsAssumption DEF Init, ListInv, ListTypeOK, MadeOnce, Parsing, isInitialized
<1>2. IInv /\ ListInv /\ [Next]_vars => ListInv'
  <2> SUFFICES ASSUME IInv, ListInv, [Next]_vars PROVE ListInv'
    OBVIOUS
  <2>1. CASE UNCHANGED vars
    BY <2>1 DEF vars, ListInv, ListTypeOK, MadeOnce, Parsing, isInitialized
  <2>2. CASE Next
    BY <2>2, QueryLists, InitLists, InsertLists, PublishLists DEF Next, Step
  <2>3. QED
    BY <2>1, <2>2
<1>3. QED
  BY <1>1, <1>2, SpecIInv, PTL DEF Spec

(* A published list: readers need no lock, since no step replaces it, adds to it or
   deletes it. *)
PublishedIsFinal ==
  [][\A s \in Sets : isInitialized(s) =>
       /\ MethodIDList'[s] = MethodIDList[s]
       /\ MIdList'[s][MethodIDList[s]] = MIdList[s][MethodIDList[s]]
       /\ lists'[s][MethodIDList[s]] = "live"]_vars

(* Once isInitialized() finds a list, contains() may walk through it without a lock
   while other threads run init on the same set: the pointer and what it points to
   never change again. *)
THEOREM PublishedIsFinalHolds == Spec => PublishedIsFinal
<1> DEFINE Final == \A s \in Sets : isInitialized(s) =>
                      /\ MethodIDList'[s] = MethodIDList[s]
                      /\ MIdList'[s][MethodIDList[s]] = MIdList[s][MethodIDList[s]]
                      /\ lists'[s][MethodIDList[s]] = "live"
<1>1. IInv /\ IInv' /\ ListInv /\ Next => Final
  <2> SUFFICES ASSUME IInv, IInv', ListInv, Next, NEW s \in Sets, isInitialized(s)
               PROVE  /\ MethodIDList'[s] = MethodIDList[s]
                      /\ MIdList'[s][MethodIDList[s]] = MIdList[s][MethodIDList[s]]
                      /\ lists'[s][MethodIDList[s]] = "live"
    OBVIOUS
  <2> DEFINE p == MethodIDList[s]
  <2>1. p \in Threads
    BY DEF IInv, TypeOK, isInitialized
  <2>2. PICK t \in Threads : JitOptions(t) \/ Step(t)
    BY DEF Next
  <2>3. MethodIDList'[s] = p
    <3>1. CASE store(t)
      <4>1. Head(query[t]) # s
        BY <3>1 DEF store, IInv, OneFirst
      <4>2. QED
        BY <3>1, <4>1 DEF store, IInv, TypeOK
    <3>2. CASE ~store(t)
      BY <2>2, <3>2 DEF Step, JitOptions, queryMethodSet, init, insert, CompareAndSwap, contains
    <3>3. QED
      BY <3>1, <3>2
  <2>4. MIdList'[s][p] = MIdList[s][p]
    <3>1. CASE insert(t)
      <4>1. ~(Head(query[t]) = s /\ t = p)
        BY <2>1, <3>1 DEF insert, IInv, LiveLists, Inside, Working
      <4>2. Head(query[t]) \in Sets
        BY <3>1, CurrentSet DEF insert, IInv
      <4> DEFINE q == Head(query[t])
      <4>3. \/ MIdList' = MIdList
            \/ \E x : MIdList' = [MIdList EXCEPT ![q][t] = x]
        BY <3>1 DEF insert
      <4>4. q \in Sets /\ ~(q = s /\ t = p)
        BY <4>1, <4>2
      <4>5. DOMAIN MIdList = Sets /\ DOMAIN MIdList[s] = Threads
        BY DEF ListInv, ListTypeOK
      <4> HIDE DEF q, p
      <4>6. CASE MIdList' = MIdList
        BY <4>6
      <4>7. CASE \E x : MIdList' = [MIdList EXCEPT ![q][t] = x]
        <5>1. PICK x : MIdList' = [MIdList EXCEPT ![q][t] = x]
          BY <4>7
        <5>2. CASE q # s
          <6>1. MIdList'[s] = MIdList[s]
            BY <4>4, <4>5, <5>1, <5>2
          <6>2. QED
            BY <6>1
        <5>3. CASE q = s
          <6>1. MIdList'[s] = [MIdList[s] EXCEPT ![t] = x]
            BY <4>4, <4>5, <5>1, <5>3
          <6>2. t # p
            BY <4>4, <5>3
          <6>3. QED
            BY <2>1, <4>5, <6>1, <6>2
        <5>4. QED
          BY <5>2, <5>3
      <4>8. QED
        BY <4>3, <4>6, <4>7
    <3>2. CASE ~insert(t)
      BY <2>2, <3>2 DEF Step, JitOptions, queryMethodSet, init, store, CompareAndSwap, contains, parseVars
    <3>3. QED
      BY <3>1, <3>2
  <2>5. lists'[s][p] = "live"
    BY <2>1, <2>3 DEF IInv, LiveLists
  <2>6. QED
    BY <2>3, <2>4, <2>5
<1>2. IInv /\ ListInv /\ IInv' /\ [Next]_vars => [Final]_vars
  BY <1>1
<1>3. QED
  BY <1>2, SpecIInv, SpecListInv, PTL DEF Spec, PublishedIsFinal

(* Whichever thread wins the race for a set, and however the others are interleaved
   with it, the list that is published is the whole list of its configuration string:
   two sets that are initialised from one string have the same list. *)
ListsAgree ==
  \A r, s \in Sets : isInitialized(r) /\ isInitialized(s) =>
    MIdList[r][MethodIDList[r]] = MIdList[s][MethodIDList[s]]

(* The list a set is published with does not depend on which thread was first. *)
THEOREM ListsAgreeHolds == Spec => []ListsAgree
<1>1. IInv /\ ListInv => ListsAgree
  <2> SUFFICES ASSUME IInv, ListInv, NEW r \in Sets, NEW s \in Sets,
                      isInitialized(r), isInitialized(s)
               PROVE  MIdList[r][MethodIDList[r]] = MIdList[s][MethodIDList[s]]
    BY DEF ListsAgree
  <2>1. MethodIDList[r] \in Threads /\ MethodIDList[s] \in Threads
    BY DEF IInv, TypeOK, isInitialized
  <2>2. AllOf(config, MIdList[r][MethodIDList[r]]) /\ AllOf(config, MIdList[s][MethodIDList[s]])
    BY <2>1 DEF ListInv, Parsing
  <2>3. QED
    BY <2>2, OneCompleteList
<1>2. QED
  BY <1>1, SpecIInv, SpecListInv, PTL

\* MethodID::parse, run to the end of a string on one thread, finds the patterns
\* that were written, and throws only when it has found them all and a blank is left.
ParserRight ==
  \A c \in Configs : \A L :
    /\ AllOf(c, L) =>
         \A m \in Methods : Selects(L, m) <=>
           \E k \in 1 .. Len(c.written) : m \in DenotesWithArgs(c.written[k])
    /\ \A i : PartOf(c, L, i) /\ Parses[c][i].throws =>
         TrailingBlank(c) /\ Len(L) = Len(c.written)

(* The race adds no error of its own: if the parser is right when one thread runs it,
   a set that several threads initialise selects what is written, and an initialisation
   that throws is one that a single thread would throw in. *)
THEOREM SelectsIfParserRight ==
  ASSUME ParserRight
  PROVE  Spec => []SelectsWhatIsWritten
<1>1. IInv /\ ListInv => SelectsWhatIsWritten
  <2> SUFFICES ASSUME IInv, ListInv, NEW s \in Sets
               PROVE  /\ isInitialized(s) =>
                           \A m \in Methods : Selects(MIdList[s][MethodIDList[s]], m) <=>
                             \E k \in 1 .. Len(config.written) : m \in DenotesWithArgs(config.written[k])
                      /\ \A t \in Threads :
                           pc[t] = "insert" /\ Head(query[t]) = s /\ Parses[config][I[t]].throws =>
                             TrailingBlank(config) /\ Len(MIdList[s][t]) = Len(config.written)
    BY DEF SelectsWhatIsWritten
  <2>0. config \in Configs
    BY DEF ListInv, ListTypeOK
  <2>1. ASSUME isInitialized(s), NEW m \in Methods
        PROVE  Selects(MIdList[s][MethodIDList[s]], m) <=>
                 \E k \in 1 .. Len(config.written) : m \in DenotesWithArgs(config.written[k])
    <3>1. MethodIDList[s] \in Threads
      BY <2>1 DEF IInv, TypeOK, isInitialized
    <3>2. AllOf(config, MIdList[s][MethodIDList[s]])
      BY <3>1 DEF ListInv, Parsing
    <3>3. QED
      BY <2>0, <3>2, ParserRight DEF ParserRight
  <2>2. ASSUME NEW t \in Threads, pc[t] = "insert", Head(query[t]) = s, Parses[config][I[t]].throws
        PROVE  TrailingBlank(config) /\ Len(MIdList[s][t]) = Len(config.written)
    <3>1. PartOf(config, MIdList[s][t], I[t])
      BY <2>2 DEF ListInv, Parsing
    <3>2. QED
      BY <2>0, <2>2, <3>1, ParserRight DEF ParserRight
  <2>3. QED
    BY <2>1, <2>2
<1>2. QED
  BY <1>1, SpecIInv, SpecListInv, PTL
=============================================================================
