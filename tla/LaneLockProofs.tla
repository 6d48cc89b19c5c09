---------------------------- MODULE LaneLockProofs ----------------------------
(***************************************************************************)
(* Proofs about the promise-chain mutex, for any set of calls and lanes:   *)
(* its type invariant, the chain invariant, mutual exclusion, and that it  *)
(* implements the FIFO lock.                                               *)
(***************************************************************************)
EXTENDS LaneLock, SequenceTheorems, TLAPS

IInv == TypeOK /\ ChainInv

(* A pending call whose awaited promise is resolved is the oldest one of    *)
(* its lane; a running call is such a call.                                 *)
LEMMA ResolvedIsHead ==
  ASSUME IInv, NEW c \in Calls, phase[c] # "idle", prev[c] = Resolved
  PROVE  /\ order[lane[c]] \in Seq(Calls)
         /\ Len(order[lane[c]]) \in Nat \ {0}
         /\ order[lane[c]] # <<>>
         /\ order[lane[c]][1] = c
<1>1. order[lane[c]] \in Seq(Calls) /\ lane[c] \in Lanes
  BY DEF IInv, TypeOK
<1>2. PICK i \in 1..Len(order[lane[c]]) : order[lane[c]][i] = c
  BY DEF IInv, ChainInv, PendingListed
<1>3. prev[c] = IF i = 1 THEN Resolved ELSE order[lane[c]][i - 1]
  BY <1>1, <1>2 DEF IInv, ChainInv, AwaitsPredecessor
<1>4. i # 1 => order[lane[c]][i - 1] \in Calls
  BY <1>1, <1>2, ElementOfSeq, LenProperties
<1>5. i = 1
  BY <1>3, <1>4, LockAssumption
<1> QED
  BY <1>1, <1>2, <1>5, EmptySeq, LenProperties

LEMMA RunningIsHead ==
  ASSUME IInv, NEW c \in Calls, phase[c] = "running"
  PROVE  /\ order[lane[c]] \in Seq(Calls)
         /\ Len(order[lane[c]]) \in Nat \ {0}
         /\ order[lane[c]] # <<>>
         /\ order[lane[c]][1] = c
<1>1. prev[c] = Resolved
  BY DEF IInv, ChainInv, RunningIsOldest
<1> QED
  BY <1>1, ResolvedIsHead

LEMMA InitEstablishes == Init => IInv
<1> SUFFICES ASSUME Init PROVE IInv
  OBVIOUS
<1>1. <<>> \in Seq(Calls) /\ Len(<<>>) = 0
  BY EmptySeq
<1>2. TypeOK
  BY <1>1 DEF Init, TypeOK
<1>3. \A l \in Lanes : order[l] = <<>> /\ Len(order[l]) = 0
  BY <1>1 DEF Init
<1>4. EntryIsYoungest
  BY <1>3 DEF EntryIsYoungest, Init
<1>5. AwaitsPredecessor /\ NoRepeats
  BY <1>3 DEF AwaitsPredecessor, NoRepeats
<1>6. PendingListed /\ RunningIsOldest
  BY DEF PendingListed, RunningIsOldest, Init
<1> QED
  BY <1>2, <1>4, <1>5, <1>6 DEF IInv, ChainInv

LEMMA CallPreserves ==
  ASSUME IInv, NEW c \in Calls, NEW l \in Lanes, Call(c, l)
  PROVE  IInv'
<1> DEFINE n == Len(order[l])
<1>1. /\ order[l] \in Seq(Calls)
      /\ n \in Nat
      /\ order'[l] \in Seq(Calls)
      /\ Len(order'[l]) = n + 1
      /\ order'[l][n + 1] = c
      /\ \A i \in 1..n : order'[l][i] = order[l][i]
  <2>1. order[l] \in Seq(Calls) /\ order'[l] = Append(order[l], c)
    BY DEF IInv, TypeOK, Call
  <2> QED
    BY <2>1, AppendProperties, LenProperties
<1>2. \A k \in Lanes : k # l => order'[k] = order[k]
  BY DEF IInv, TypeOK, Call
<1>3. EntryPromise(l) = IF n = 0 THEN Resolved ELSE order[l][n]
  <2>1. n # 0 => order[l][n] \in Calls
    BY <1>1, ElementOfSeq
  <2> QED
    BY <2>1, LockAssumption DEF EntryPromise, IInv, ChainInv, EntryIsYoungest
<1>4. EntryPromise(l) \in Calls \cup {Resolved}
  BY DEF EntryPromise, IInv, TypeOK
<1>5. /\ phase' = [phase EXCEPT ![c] = "waiting"]
      /\ lane' = [lane EXCEPT ![c] = l]
      /\ prev' = [prev EXCEPT ![c] = EntryPromise(l)]
      /\ laneLocks' = [laneLocks EXCEPT ![l] = c]
      /\ phase[c] = "idle"
  BY DEF Call
<1>6. \A k \in Lanes : \A i \in 1..Len(order[k]) : order[k][i] # c
  BY <1>5 DEF IInv, ChainInv, AwaitsPredecessor
<1>7. TypeOK'
  BY <1>1, <1>4, <1>5 DEF IInv, TypeOK, Call
<1>8. EntryIsYoungest'
  BY <1>1, <1>2, <1>5 DEF IInv, TypeOK, ChainInv, EntryIsYoungest
<1>9. AwaitsPredecessor'
  <2> SUFFICES ASSUME NEW k \in Lanes, NEW i \in 1..Len(order'[k])
               PROVE  /\ phase'[order'[k][i]] # "idle"
                      /\ lane'[order'[k][i]] = k
                      /\ prev'[order'[k][i]] = IF i = 1 THEN Resolved ELSE order'[k][i - 1]
    BY DEF AwaitsPredecessor
  <2>1. CASE k = l /\ i = n + 1
    BY <2>1, <1>1, <1>3, <1>5 DEF IInv, TypeOK
  <2>2. CASE k # l \/ i # n + 1
    <3>1. i \in 1..Len(order[k]) /\ order'[k][i] = order[k][i]
      <4>1. CASE k # l
        BY <4>1, <1>2
      <4>2. CASE k = l
        <5>1. Len(order'[k]) = n + 1 /\ i \in 1..n
          BY <4>2, <2>2, <1>1
        <5> QED
          BY <5>1, <4>2, <1>1
      <4> QED
        BY <4>1, <4>2
    <3>2. order[k][i] \in Calls /\ order[k][i] # c
      BY <3>1, <1>6, ElementOfSeq DEF IInv, TypeOK
    <3>3. i # 1 => order'[k][i - 1] = order[k][i - 1]
      <4>1. CASE k # l
        BY <4>1, <1>2
      <4>2. i # 1 => i - 1 \in 1..Len(order[k])
        BY <3>1, LenProperties DEF IInv, TypeOK
      <4>3. CASE k = l
        BY <4>2, <4>3, <1>1
      <4> QED
        BY <4>1, <4>3
    <3>4. /\ phase[order[k][i]] # "idle"
          /\ lane[order[k][i]] = k
          /\ prev[order[k][i]] = IF i = 1 THEN Resolved ELSE order[k][i - 1]
      BY <3>1 DEF IInv, ChainInv, AwaitsPredecessor
    <3> QED
      BY <3>1, <3>2, <3>3, <3>4, <1>5 DEF IInv, TypeOK
  <2> QED
    BY <2>1, <2>2
<1>10. NoRepeats'
  <2> SUFFICES ASSUME NEW k \in Lanes, NEW i \in 1..Len(order'[k]), NEW j \in 1..Len(order'[k]),
                      order'[k][i] = order'[k][j]
               PROVE  i = j
    BY DEF NoRepeats
  <2>1. CASE k # l
    BY <2>1, <1>2 DEF IInv, ChainInv, NoRepeats
  <2>2. CASE k = l
    <3>1. i \in 1..(n + 1) /\ j \in 1..(n + 1) /\ order'[l][i] = order'[l][j]
      BY <2>2, <1>1
    <3>2. \A m \in 1..n : order'[l][m] # c
      BY <1>1, <1>6
    <3>3. \A m, o \in 1..n : order[l][m] = order[l][o] => m = o
      BY DEF IInv, ChainInv, NoRepeats
    <3> HIDE DEF n
    <3> QED
      BY <3>1, <3>2, <3>3, <1>1
  <2> QED
    BY <2>1, <2>2
<1>11. PendingListed'
  <2> SUFFICES ASSUME NEW d \in Calls
               PROVE  IF phase'[d] = "idle"
                        THEN prev'[d] = Resolved
                        ELSE \E i \in 1..Len(order'[lane'[d]]) : order'[lane'[d]][i] = d
    BY DEF PendingListed
  <2>1. CASE d = c
    <3>1. phase'[d] = "waiting" /\ lane'[d] = l
      BY <2>1, <1>5 DEF IInv, TypeOK
    <3> QED
      BY <3>1, <2>1, <1>1
  <2>2. CASE d # c
    <3>1. phase'[d] = phase[d] /\ lane'[d] = lane[d] /\ prev'[d] = prev[d] /\ lane[d] \in Lanes
      BY <2>2, <1>5 DEF IInv, TypeOK
    <3>2. CASE phase[d] = "idle"
      BY <3>1, <3>2 DEF IInv, ChainInv, PendingListed
    <3>3. CASE phase[d] # "idle"
      <4>1. PICK i \in 1..Len(order[lane[d]]) : order[lane[d]][i] = d
        BY <3>3 DEF IInv, ChainInv, PendingListed
      <4>2. i \in 1..Len(order'[lane[d]]) /\ order'[lane[d]][i] = d
        BY <4>1, <3>1, <1>1, <1>2
      <4> QED
        BY <4>2, <3>1, <3>3
    <3> QED
      BY <3>2, <3>3
  <2> QED
    BY <2>1, <2>2
<1>12. RunningIsOldest'
  BY <1>5 DEF IInv, TypeOK, ChainInv, RunningIsOldest
<1> QED
  BY <1>7, <1>8, <1>9, <1>10, <1>11, <1>12 DEF IInv, ChainInv

LEMMA RunPreserves ==
  ASSUME IInv, NEW c \in Calls, Run(c)
  PROVE  IInv'
<1>1. TypeOK'
  BY DEF IInv, TypeOK, Run
<1>2. EntryIsYoungest' /\ NoRepeats'
  BY DEF IInv, ChainInv, EntryIsYoungest, NoRepeats, Run
<1>3. AwaitsPredecessor'
  BY ElementOfSeq DEF IInv, TypeOK, ChainInv, AwaitsPredecessor, Run
<1>4. PendingListed'
  BY DEF IInv, TypeOK, ChainInv, PendingListed, Run
<1>5. RunningIsOldest'
  BY DEF IInv, TypeOK, ChainInv, RunningIsOldest, Run
<1> QED
  BY <1>1, <1>2, <1>3, <1>4, <1>5 DEF IInv, ChainInv

LEMMA SettlePreserves ==
  ASSUME IInv, NEW c \in Calls, Settle(c)
  PROVE  IInv'
<1> DEFINE l == lane[c]
           n == Len(order[l])
<1>1. /\ phase[c] = "running"
      /\ phase' = [phase EXCEPT ![c] = "idle"]
      /\ prev' = [d \in Calls |-> IF prev[d] = c THEN Resolved ELSE prev[d]]
      /\ laneLocks' = IF laneLocks[l] = c THEN [laneLocks EXCEPT ![l] = NoEntry] ELSE laneLocks
      /\ order' = [order EXCEPT ![l] = Tail(@)]
      /\ lane' = lane
  BY DEF Settle, DropEntry
<1>2. /\ l \in Lanes
      /\ order[l] \in Seq(Calls)
      /\ n \in Nat \ {0}
      /\ order[l] # <<>>
      /\ order[l][1] = c
  BY <1>1, RunningIsHead DEF IInv, TypeOK
<1>3. /\ order'[l] \in Seq(Calls)
      /\ Len(order'[l]) = n - 1
      /\ \A i \in 1..(n - 1) : order'[l][i] = order[l][i + 1]
  <2>1. order'[l] = Tail(order[l])
    BY <1>1, <1>2 DEF IInv, TypeOK
  <2> QED
    BY <2>1, <1>2, HeadTailProperties
<1>4. \A k \in Lanes : k # l => order'[k] = order[k]
  BY <1>1 DEF IInv, TypeOK
<1>5. \A k \in Lanes : \A i \in 1..Len(order[k]) :
        order[k][i] \in Calls /\ (order[k][i] = c => k = l /\ i = 1)
  <2> SUFFICES ASSUME NEW k \in Lanes, NEW i \in 1..Len(order[k])
               PROVE  order[k][i] \in Calls /\ (order[k][i] = c => k = l /\ i = 1)
    OBVIOUS
  <2>1. order[k][i] \in Calls
    BY ElementOfSeq DEF IInv, TypeOK
  <2>2. order[k][i] = c => k = l
    BY DEF IInv, ChainInv, AwaitsPredecessor
  <2>3. order[k][i] = c /\ k = l => i = 1
    BY <1>2 DEF IInv, ChainInv, NoRepeats
  <2> QED
    BY <2>1, <2>2, <2>3
<1>6. TypeOK'
  BY <1>1, <1>2, <1>3 DEF IInv, TypeOK
<1>7. EntryIsYoungest'
  <2> SUFFICES ASSUME NEW k \in Lanes
               PROVE  laneLocks'[k] = IF Len(order'[k]) = 0 THEN NoEntry
                                                          ELSE order'[k][Len(order'[k])]
    BY DEF EntryIsYoungest
  <2>1. laneLocks[k] = IF Len(order[k]) = 0 THEN NoEntry ELSE order[k][Len(order[k])]
    BY DEF IInv, ChainInv, EntryIsYoungest
  <2>2. CASE k # l
    BY <2>1, <2>2, <1>1, <1>4 DEF IInv, TypeOK
  <2>3. CASE k = l /\ n = 1
    BY <2>1, <2>3, <1>1, <1>2, <1>3 DEF IInv, TypeOK
  <2>4. CASE k = l /\ n # 1
    <3>0. n \in 1..n /\ n - 1 \in 1..(n - 1) /\ (n - 1) + 1 = n /\ n # 1
      <4>1. n \in Nat \ {0} /\ n # 1
        BY <2>4, <1>2
      <4> HIDE DEF n
      <4> QED
        BY <4>1
    <3>1. laneLocks[l] = order[l][n]
      BY <2>1, <2>4, <1>2
    <3>2. laneLocks[l] # c
      BY <3>0, <3>1, <1>2, <1>5
    <3>3. order'[l][n - 1] = order[l][n]
      BY <3>0, <1>3
    <3>4. laneLocks'[l] = laneLocks[l]
      BY <3>2, <1>1
    <3> QED
      BY <3>0, <3>1, <3>3, <3>4, <2>4, <1>3
  <2> QED
    BY <2>2, <2>3, <2>4
<1>8. AwaitsPredecessor'
  <2> SUFFICES ASSUME NEW k \in Lanes, NEW i \in 1..Len(order'[k])
               PROVE  /\ phase'[order'[k][i]] # "idle"
                      /\ lane'[order'[k][i]] = k
                      /\ prev'[order'[k][i]] = IF i = 1 THEN Resolved ELSE order'[k][i - 1]
    BY DEF AwaitsPredecessor
  <2> DEFINE j == IF k = l THEN i + 1 ELSE i
             d == order[k][j]
  <2>0. order[k] \in Seq(Calls) /\ Len(order[k]) \in Nat
    BY LenProperties DEF IInv, TypeOK
  <2>1. j \in 1..Len(order[k]) /\ order'[k][i] = d
    BY <2>0, <1>2, <1>3, <1>4
  <2>2. d \in Calls /\ d # c
    BY <2>1, <1>5
  <2>3. phase[d] # "idle" /\ lane[d] = k /\ prev[d] = IF j = 1 THEN Resolved ELSE order[k][j - 1]
    BY <2>1 DEF IInv, ChainInv, AwaitsPredecessor
  <2>4. phase'[d] # "idle" /\ lane'[d] = k
    BY <2>2, <2>3, <1>1 DEF IInv, TypeOK
  <2>5. prev'[d] = IF prev[d] = c THEN Resolved ELSE prev[d]
    BY <2>2, <1>1
  <2>6. CASE k = l /\ i = 1
    BY <2>1, <2>3, <2>4, <2>5, <2>6, <1>2
  <2>7. CASE k = l /\ i # 1
    <3>1. prev[d] = order[l][i] /\ i \in 1..n
      BY <2>7, <2>1, <2>3, <1>2
    <3>2. prev[d] # c
      BY <3>1, <2>7, <1>2, <1>5
    <3>3. order'[l][i - 1] = order[l][i]
      BY <2>7, <1>2, <1>3
    <3> QED
      BY <3>1, <3>2, <3>3, <2>1, <2>4, <2>5, <2>7
  <2>8. CASE k # l
    <3>1. i # 1 => i - 1 \in 1..Len(order[k])
      BY <2>0, <2>1, <2>8
    <3>2. prev[d] # c
      BY <3>1, <2>3, <2>8, <1>5, LockAssumption
    <3> QED
      BY <3>2, <2>1, <2>3, <2>4, <2>5, <2>8, <1>4
  <2> QED
    BY <2>1, <2>4, <2>6, <2>7, <2>8
<1>9. NoRepeats'
  <2> SUFFICES ASSUME NEW k \in Lanes, NEW i \in 1..Len(order'[k]), NEW j \in 1..Len(order'[k]),
                      order'[k][i] = order'[k][j]
               PROVE  i = j
    BY DEF NoRepeats
  <2>1. CASE k # l
    BY <2>1, <1>4 DEF IInv, ChainInv, NoRepeats
  <2>2. CASE k = l
    <3>0. i \in 1..(n - 1) /\ j \in 1..(n - 1) /\ order'[l][i] = order'[l][j]
      BY <2>2, <1>2, <1>3
    <3>1. order[l][i + 1] = order[l][j + 1] /\ i + 1 \in 1..n /\ j + 1 \in 1..n
      BY <3>0, <1>2, <1>3
    <3>2. i + 1 = j + 1
      BY <3>1, <1>2 DEF IInv, ChainInv, NoRepeats
    <3> QED
      BY <3>2
  <2> QED
    BY <2>1, <2>2
<1>10. PendingListed'
  <2> SUFFICES ASSUME NEW d \in Calls
               PROVE  IF phase'[d] = "idle"
                        THEN prev'[d] = Resolved
                        ELSE \E i \in 1..Len(order'[lane'[d]]) : order'[lane'[d]][i] = d
    BY DEF PendingListed
  <2>1. lane'[d] = lane[d] /\ lane[d] \in Lanes
    BY <1>1 DEF IInv, TypeOK
  <2>2. CASE d = c
    <3>1. phase'[c] = "idle" /\ prev[c] = Resolved
      BY <1>1 DEF IInv, TypeOK, ChainInv, RunningIsOldest
    <3> QED
      BY <3>1, <2>2, <1>1, LockAssumption
  <2>3. CASE d # c /\ phase[d] = "idle"
    <3>1. phase'[d] = "idle" /\ prev[d] = Resolved
      BY <2>3, <1>1 DEF IInv, TypeOK, ChainInv, PendingListed
    <3> QED
      BY <3>1, <1>1, LockAssumption
  <2>4. CASE d # c /\ phase[d] # "idle"
    <3>1. PICK i \in 1..Len(order[lane[d]]) : order[lane[d]][i] = d
      BY <2>4 DEF IInv, ChainInv, PendingListed
    <3>2. phase'[d] # "idle"
      BY <2>4, <1>1 DEF IInv, TypeOK
    <3>3. CASE lane[d] = l
      <4>1. i # 1
        BY <3>1, <3>3, <2>4, <1>2
      <4>2. i - 1 \in 1..(n - 1) /\ order'[l][i - 1] = d
        BY <4>1, <3>1, <3>3, <1>2, <1>3
      <4> QED
        BY <4>2, <3>2, <3>3, <2>1, <1>3
    <3>4. CASE lane[d] # l
      BY <3>1, <3>2, <3>4, <2>1, <1>4
    <3> QED
      BY <3>3, <3>4
  <2> QED
    BY <2>2, <2>3, <2>4
<1>11. RunningIsOldest'
  BY <1>1 DEF IInv, TypeOK, ChainInv, RunningIsOldest
<1> QED
  BY <1>6, <1>7, <1>8, <1>9, <1>10, <1>11 DEF IInv, ChainInv

(* The inductive invariant: the types and the shape of every lane's chain.  *)
THEOREM ChainInvariant == Spec => [](TypeOK /\ ChainInv)
<1>1. Init => IInv
  BY InitEstablishes
<1>2. IInv /\ [Next]_vars => IInv'
  <2> SUFFICES ASSUME IInv, [Next]_vars PROVE IInv'
    OBVIOUS
  <2>1. CASE Next
    BY <2>1, CallPreserves, RunPreserves, SettlePreserves DEF Next
  <2>2. CASE UNCHANGED vars
    BY <2>2 DEF vars, IInv, TypeOK, ChainInv, EntryIsYoungest, AwaitsPredecessor, NoRepeats,
                PendingListed, RunningIsOldest
  <2> QED
    BY <2>1, <2>2
<1> QED
  BY <1>1, <1>2, PTL DEF Spec, IInv

(* withLaneLock never lets two callbacks of one lane overlap, however many   *)
(* calls are pending and whenever the map's entry is deleted.                *)
THEOREM Mutex == Spec => []MutualExclusion
<1>1. IInv => MutualExclusion
  BY RunningIsHead DEF MutualExclusion
<1> QED
  BY <1>1, ChainInvariant, PTL DEF IInv

(* The promise chain implements the FIFO lock: each call joins the lane's   *)
(* queue, runs when it is the oldest, and leaves it when it settles.        *)
LEMMA FifoStep ==
  ASSUME IInv, [Next]_vars
  PROVE  [Fifo!Next]_(Fifo!vars)
<1> DEFINE running == {c \in Calls : phase[c] = "running"}
<1>1. ASSUME NEW c \in Calls, NEW l \in Lanes, Call(c, l)
      PROVE  Fifo!Ask(c, l)
  <2>1. running' = running
    BY <1>1 DEF Call, IInv, TypeOK
  <2>2. \A k \in Lanes : \A i \in DOMAIN order[k] : order[k][i] # c
    <3>1. \A k \in Lanes : order[k] \in Seq(Calls)
      BY DEF IInv, TypeOK
    <3>2. \A k \in Lanes : DOMAIN order[k] = 1..Len(order[k])
      BY <3>1, LenProperties
    <3>3. \A k \in Lanes : \A i \in 1..Len(order[k]) : order[k][i] # c
      BY <1>1 DEF Call, IInv, ChainInv, AwaitsPredecessor
    <3> QED
      BY <3>2, <3>3
  <2> QED
    BY <1>1, <2>1, <2>2 DEF Fifo!Ask, Call
<1>2. ASSUME NEW c \in Calls, NEW l \in Lanes, lane[c] = l, Run(c)
      PROVE  Fifo!Start(c, l)
  <2>1. order[lane[c]] \in Seq(Calls) /\ order[lane[c]] # <<>> /\ order[lane[c]][1] = c
    BY <1>2, ResolvedIsHead DEF Run
  <2>2. Head(order[lane[c]]) = c
    BY <2>1
  <2>3. c \notin running /\ running' = running \cup {c}
    BY <1>2 DEF Run, IInv, TypeOK
  <2> QED
    BY <1>2, <2>1, <2>2, <2>3 DEF Fifo!Start, Run
<1>3. ASSUME NEW c \in Calls, NEW l \in Lanes, lane[c] = l, Settle(c)
      PROVE  Fifo!Finish(c, l)
  <2>1. order[lane[c]] \in Seq(Calls) /\ order[lane[c]] # <<>> /\ order[lane[c]][1] = c
    BY <1>3, RunningIsHead DEF Settle
  <2>2. Head(order[lane[c]]) = c
    BY <2>1
  <2>3. c \in running /\ running' = running \ {c}
    BY <1>3 DEF Settle, IInv, TypeOK
  <2> QED
    BY <1>3, <2>1, <2>2, <2>3 DEF Fifo!Finish, Settle
<1>4. \A c \in Calls : lane[c] \in Lanes
  BY DEF IInv, TypeOK
<1>5. CASE Next
  <2>1. CASE \E c \in Calls, l \in Lanes : Call(c, l)
    BY <2>1, <1>1 DEF Fifo!Next
  <2>2. CASE \E c \in Calls : Run(c)
    <3>1. PICK c \in Calls, l \in Lanes : Run(c) /\ lane[c] = l
      BY <2>2, <1>4
    <3>2. Fifo!Start(c, l)
      BY <3>1, <1>2
    <3> QED
      BY <3>2 DEF Fifo!Next
  <2>3. CASE \E c \in Calls : Settle(c)
    <3>1. PICK c \in Calls, l \in Lanes : Settle(c) /\ lane[c] = l
      BY <2>3, <1>4
    <3>2. Fifo!Finish(c, l)
      BY <3>1, <1>3
    <3> QED
      BY <3>2 DEF Fifo!Next
  <2> QED
    BY <1>5, <2>1, <2>2, <2>3 DEF Next
<1>6. CASE UNCHANGED vars
  BY <1>6 DEF vars, Fifo!vars
<1> QED
  BY <1>5, <1>6

THEOREM ImplementsFifo == Spec => ImplementsFifoMutex
<1>1. Init => Fifo!Init
  BY DEF Init, Fifo!Init
<1> QED
  BY <1>1, FifoStep, ChainInvariant, PTL DEF Spec, ImplementsFifoMutex, Fifo!Spec, IInv

(* Nothing blocks the chain: wherever a call is pending, the oldest call of  *)
(* its lane awaits a resolved promise, so it can start or is running. With  *)
(* the order ImplementsFifo fixes, this is the part of EveryCallRuns that   *)
(* does not depend on fairness: the chain has no cycle, and no call awaits  *)
(* a promise whose owner has gone.                                          *)
OldestCanMove ==
  \A c \in Calls : phase[c] # "idle" =>
    LET oldest == order[lane[c]][1]
    IN  /\ oldest \in Calls
        /\ lane[oldest] = lane[c]
        /\ phase[oldest] \in {"waiting", "running"}
        /\ prev[oldest] = Resolved

(* In every reachable state the oldest pending call of a lane can move.     *)
THEOREM NoneIsStuck == Spec => []OldestCanMove
<1>1. IInv => OldestCanMove
  <2> SUFFICES ASSUME IInv, NEW c \in Calls, phase[c] # "idle"
               PROVE  LET oldest == order[lane[c]][1]
                      IN  /\ oldest \in Calls
                          /\ lane[oldest] = lane[c]
                          /\ phase[oldest] \in {"waiting", "running"}
                          /\ prev[oldest] = Resolved
    BY DEF OldestCanMove
  <2>1. lane[c] \in Lanes /\ order[lane[c]] \in Seq(Calls)
    BY DEF IInv, TypeOK
  <2>2. PICK i \in 1..Len(order[lane[c]]) : order[lane[c]][i] = c
    BY DEF IInv, ChainInv, PendingListed
  <2>3. 1 \in 1..Len(order[lane[c]])
    BY <2>1, <2>2, LenProperties
  <2>4. order[lane[c]][1] \in Calls
    BY <2>1, <2>3, ElementOfSeq
  <2>5. /\ phase[order[lane[c]][1]] # "idle"
        /\ lane[order[lane[c]][1]] = lane[c]
        /\ prev[order[lane[c]][1]] = Resolved
    BY <2>1, <2>3 DEF IInv, ChainInv, AwaitsPredecessor
  <2> QED
    BY <2>4, <2>5 DEF IInv, TypeOK
<1> QED
  BY <1>1, ChainInvariant, PTL DEF IInv
===============================================================================
