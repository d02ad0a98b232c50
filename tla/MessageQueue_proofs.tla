------------------------ MODULE MessageQueue_proofs ------------------------
(***************************************************************************)
(* The linked list of message_queue.c is a FIFO for every set of producers *)
(* and every set of nodes: the invariant IInv is inductive, and under it   *)
(* each step is a step of Fifo or changes neither the queue nor the        *)
(* message the owner holds.                                                *)
(***************************************************************************)
EXTENDS MessageQueue, SequenceTheorems, TLAPS

IInv == TypeOK /\ ChainIntact /\ SingleOwner /\ ControlInv

\* What the four ways to change the list do to it.
LEMMA AppendFacts ==
  ASSUME NEW s \in Seq(Nodes), NEW n \in Nodes
  PROVE  /\ Append(s, n) \in Seq(Nodes)
         /\ Append(s, n) # <<>>
         /\ Len(s) \in Nat
         /\ DOMAIN s = 1 .. Len(s)
         /\ Len(Append(s, n)) = Len(s) + 1
         /\ DOMAIN Append(s, n) = 1 .. Len(s) + 1
         /\ \A i \in 1 .. Len(s) : Append(s, n)[i] = s[i]
         /\ Append(s, n)[Len(s) + 1] = n
  BY AppendProperties, LenProperties

LEMMA TailFacts ==
  ASSUME NEW s \in Seq(Nodes), s # <<>>
  PROVE  /\ Tail(s) \in Seq(Nodes)
         /\ Head(s) = s[1]
         /\ Len(s) \in Nat \ {0}
         /\ DOMAIN s = 1 .. Len(s)
         /\ Len(Tail(s)) = Len(s) - 1
         /\ DOMAIN Tail(s) = 1 .. Len(s) - 1
         /\ \A i \in 1 .. Len(s) - 1 : Tail(s)[i] = s[i + 1]
         /\ Tail(s) = <<>> <=> Len(s) = 1
<1>1. Len(s) \in Nat \ {0} /\ DOMAIN s = 1 .. Len(s)
  BY EmptySeq, LenProperties
<1>2. /\ Tail(s) \in Seq(Nodes)
      /\ Len(Tail(s)) = Len(s) - 1
      /\ \A i \in 1 .. Len(Tail(s)) : Tail(s)[i] = s[i + 1]
  BY HeadTailProperties
<1>3. DOMAIN Tail(s) = 1 .. Len(s) - 1
  BY <1>2, LenProperties
<1>4. Tail(s) = <<>> <=> Len(s) = 1
  BY <1>1, <1>2, EmptySeq
<1> QED
  BY <1>1, <1>2, <1>3, <1>4

LEMMA InitInv == Init => IInv
<1> SUFFICES ASSUME Init PROVE IInv
  OBVIOUS
<1> USE QueueAssumption DEF Init, Threads
<1>1. DOMAIN list = {}
  BY EmptySeq, LenProperties
<1>2. TypeOK
  <2>1. list \in Seq(Nodes)
    BY EmptySeq
  <2>2. /\ pc \in [Threads -> ProducerPC \cup OwnerPC]
        /\ \A p \in Producers : pc[p] \in ProducerPC
        /\ pc[Owner] \in OwnerPC
    BY DEF ProducerPC, OwnerPC
  <2>3. hand \in [Threads -> Ptr] /\ iter \in [Producers -> Ptr]
    BY DEF Ptr
  <2>4. queue \in {"absent", "live", "freed"} /\ mutex \in Threads \cup {NULL}
        /\ head \in Ptr /\ next \in [Nodes -> Ptr] /\ live \in SUBSET Nodes
        /\ shutdown \in BOOLEAN /\ undefined \in BOOLEAN
    BY DEF Ptr
  <2> QED
    BY <2>1, <2>2, <2>3, <2>4 DEF TypeOK
<1>3. ChainIntact /\ SingleOwner
  BY <1>1 DEF ChainIntact, SingleOwner, Queued
<1>4. ControlInv
  BY DEF ControlInv, InCritical, InPush
<1> QED
  BY <1>2, <1>3, <1>4 DEF IInv

LEMMA TypeStep == IInv /\ [Next]_vars => TypeOK'
<1> SUFFICES ASSUME IInv, [Next]_vars PROVE TypeOK'
  OBVIOUS
<1> USE QueueAssumption DEF IInv, TypeOK, Threads, ProducerPC, OwnerPC, Ptr,
      Goto, Lock, Unlock, heapVars, ctrlVars, Undefined
<1>1. ASSUME NEW p \in Producers, NEW n \in Nodes, CreateMessage(p, n)
      PROVE  TypeOK'
  BY <1>1 DEF CreateMessage
<1>2. ASSUME NEW p \in Producers, ProducerLoop(p) \/ WorkDone(p) \/ LockPush(p)
      PROVE  TypeOK'
  BY <1>2 DEF ProducerLoop, WorkDone, LockPush
<1>3. ASSUME NEW p \in Producers, SendMessage(p) \/ UnlockPush(p)
      PROVE  TypeOK'
  BY <1>3 DEF SendMessage, UnlockPush
<1>4. ASSUME NEW p \in Producers, AppendToEmpty(p)
      PROVE  TypeOK'
  <2>1. hand[p] \in Nodes
    BY <1>4 DEF AppendToEmpty, ControlInv
  <2>2. <<hand[p]>> \in Seq(Nodes)
    BY <2>1
  <2> QED
    BY <1>4, <2>1, <2>2 DEF AppendToEmpty
<1>5. ASSUME NEW p \in Producers, ScanBegin(p) \/ ScanNext(p)
      PROVE  TypeOK'
  <2>1. CASE ScanBegin(p)
    BY <2>1 DEF ScanBegin
  <2>2. CASE ScanNext(p)
    <3>1. iter[p] \in Nodes
      BY <2>2, LenProperties DEF ScanNext, ControlInv, Queued
    <3> QED
      BY <2>2, <3>1 DEF ScanNext
  <2> QED
    BY <1>5, <2>1, <2>2
<1>6. ASSUME NEW p \in Producers, LinkAtEnd(p)
      PROVE  TypeOK'
  <2>1. hand[p] \in Nodes
    BY <1>6 DEF LinkAtEnd, ControlInv
  <2>2. Append(list, hand[p]) \in Seq(Nodes)
    BY <2>1, AppendFacts
  <2> QED
    BY <1>6, <2>1, <2>2 DEF LinkAtEnd
<1>7. CASE CreateQueue \/ OwnerLoop \/ LockPop \/ TakeNothing
  BY <1>7 DEF CreateQueue, OwnerLoop, LockPop, TakeNothing
<1>8. CASE TakeHead
  <2>1. list # <<>>
    BY <1>8 DEF TakeHead, ChainIntact
  <2>2. Tail(list) \in Seq(Nodes)
    BY <2>1, TailFacts
  <2> QED
    BY <1>8, <2>2 DEF TakeHead
<1>9. CASE UnlockPop \/ FreeMessage \/ DropMessage \/ SetShutdown
  BY <1>9 DEF UnlockPop, FreeMessage, DropMessage, SetShutdown
<1>10. CASE FreeQueue
  <2>1. <<>> \in Seq(Nodes)
    BY EmptySeq
  <2> QED
    BY <1>10, <2>1 DEF FreeQueue
<1>11. CASE UNCHANGED vars
  BY <1>11 DEF vars
<1> QED
  BY <1>1, <1>2, <1>3, <1>4, <1>5, <1>6, <1>7, <1>8, <1>9, <1>10, <1>11
     DEF Next, OwnerStep, ProducerStep, Push, Finished
LEMMA ChainStep == IInv /\ [Next]_vars => ChainIntact'
<1> SUFFICES ASSUME IInv, [Next]_vars PROVE ChainIntact'
  OBVIOUS
<1> USE QueueAssumption DEF IInv, Threads, heapVars, ctrlVars
<1>0. /\ list \in Seq(Nodes)
      /\ Len(list) \in Nat
      /\ DOMAIN list = 1 .. Len(list)
      /\ \A i \in DOMAIN list : list[i] \in Nodes
  BY LenProperties, ElementOfSeq DEF TypeOK
<1>1. ASSUME UNCHANGED <<head, next, list>>
      PROVE  ChainIntact'
  BY <1>1 DEF ChainIntact
<1>2. ASSUME NEW p \in Producers, NEW n \in Nodes, CreateMessage(p, n)
      PROVE  ChainIntact'
  <2>1. \A i \in DOMAIN list : list[i] # n
    BY <1>2 DEF CreateMessage, SingleOwner, Queued
  <2>2. \A i \in DOMAIN list : next'[list[i]] = next[list[i]]
    BY <1>0, <1>2, <2>1 DEF CreateMessage, TypeOK
  <2> QED
    BY <1>2, <2>2 DEF CreateMessage, ChainIntact
<1>3. ASSUME NEW p \in Producers, AppendToEmpty(p)
      PROVE  ChainIntact'
  <2>1. hand[p] \in Nodes /\ next[hand[p]] = NULL
    BY <1>3 DEF AppendToEmpty, ControlInv, TypeOK, Ptr
  <2>2. Len(list') = 1 /\ DOMAIN list' = {1} /\ list'[1] = hand[p]
        /\ list' # <<>>
    BY <1>3, <2>1 DEF AppendToEmpty
  <2> QED
    BY <1>3, <2>1, <2>2 DEF AppendToEmpty, ChainIntact
<1>4. ASSUME NEW p \in Producers, LinkAtEnd(p)
      PROVE  ChainIntact'
  <2> DEFINE n == hand[p]
             k == Len(list)
  <2>1. n \in Nodes /\ next[n] = NULL /\ n \notin Queued
    BY <1>4 DEF LinkAtEnd, ControlInv, TypeOK, Ptr, SingleOwner
  <2>2. PICK e \in DOMAIN list : iter[p] = list[e]
    BY <1>4 DEF LinkAtEnd, ControlInv, Queued
  <2>3. e = k
    BY <1>0, <1>4, <2>2 DEF LinkAtEnd, ChainIntact
  <2>4. /\ list' = Append(list, n) /\ list' # <<>>
        /\ Len(list') = k + 1
        /\ DOMAIN list' = 1 .. k + 1
        /\ \A i \in 1 .. k : list'[i] = list[i]
        /\ list'[k + 1] = n
    BY <1>0, <1>4, <2>1, AppendFacts DEF LinkAtEnd
  <2>5. /\ next'[list[k]] = n
        /\ next'[n] = NULL
        /\ \A i \in 1 .. k - 1 : next'[list[i]] = list[i + 1]
    <3>1. next' = [next EXCEPT ![list[k]] = n] /\ list[k] \in Nodes
      BY <1>0, <1>4, <2>2, <2>3 DEF LinkAtEnd
    <3>2. next'[list[k]] = n
      BY <3>1 DEF TypeOK
    <3>3. next'[n] = NULL
      BY <1>0, <2>1, <2>2, <2>3, <3>1 DEF TypeOK, Queued
    <3>4. ASSUME NEW i \in 1 .. k - 1 PROVE next'[list[i]] = list[i + 1]
      <4>1. i \in DOMAIN list /\ k \in DOMAIN list /\ i # k
        BY <1>0, <2>2, <2>3
      <4>2. list[i] # list[k] /\ next[list[i]] = list[i + 1]
        BY <4>1 DEF ChainIntact
      <4> QED
        BY <1>0, <3>1, <4>1, <4>2 DEF TypeOK
    <3> QED
      BY <3>2, <3>3, <3>4
  <2>6. head' = list'[1]
    <3>1. list # <<>> /\ 1 \in 1 .. k
      BY <1>0, <2>2, EmptySeq
    <3> QED
      BY <1>4, <2>4, <3>1 DEF ChainIntact, LinkAtEnd
  <2>7. ASSUME NEW i \in DOMAIN list'
        PROVE  next'[list'[i]] = IF i = Len(list') THEN NULL ELSE list'[i + 1]
    <3>1. i = k + 1 \/ i = k \/ i \in 1 .. k - 1
      BY <1>0, <2>4
    <3>2. k \in 1 .. k
      BY <1>0, <2>2, <2>3
    <3> QED
      BY <1>0, <2>4, <2>5, <3>1, <3>2
  <2>8. ASSUME NEW i \in DOMAIN list', NEW j \in DOMAIN list', list'[i] = list'[j]
        PROVE  i = j
    <3>1. \A m \in 1 .. k : list[m] # n
      BY <1>0, <2>1 DEF Queued
    <3>2. \A m, o \in 1 .. k : list[m] = list[o] => m = o
      BY <1>0 DEF ChainIntact
    <3>3. (i \in 1 .. k \/ i = k + 1) /\ (j \in 1 .. k \/ j = k + 1)
      BY <1>0, <2>4
    <3> QED
      BY <2>4, <2>8, <3>1, <3>2, <3>3
  <2> QED
    BY <2>4, <2>6, <2>7, <2>8 DEF ChainIntact
<1>5. CASE CreateQueue
  BY <1>0, <1>5 DEF CreateQueue, ControlInv, ChainIntact
<1>6. CASE TakeHead
  <2>1. list # <<>>
    BY <1>6 DEF TakeHead, ChainIntact
  <2> DEFINE k == Len(list)
  <2>2. /\ list' = Tail(list)
        /\ k \in Nat \ {0}
        /\ Len(list') = k - 1
        /\ DOMAIN list' = 1 .. k - 1
        /\ \A i \in 1 .. k - 1 : list'[i] = list[i + 1]
        /\ list' = <<>> <=> k = 1
    BY <1>0, <1>6, <2>1, TailFacts DEF TakeHead
  <2>3. head' = next[list[1]]
    BY <1>6, <2>1 DEF TakeHead, ChainIntact
  <2>4. \A i \in 1 .. k : next[list[i]] = IF i = k THEN NULL ELSE list[i + 1]
    BY <1>0 DEF ChainIntact
  <2>5. head' = IF list' = <<>> THEN NULL ELSE list'[1]
    <3>1. CASE k = 1
      BY <2>2, <2>3, <2>4, <3>1
    <3>2. CASE k # 1
      <4>1. 1 \in 1 .. k /\ 1 \in 1 .. k - 1
        BY <2>2, <3>2
      <4>2. next[list[1]] = list[1 + 1] /\ list'[1] = list[1 + 1]
        BY <2>2, <2>4, <3>2, <4>1
      <4> QED
        BY <2>2, <2>3, <3>2, <4>2
    <3> QED
      BY <3>1, <3>2
  <2>6. ASSUME NEW i \in DOMAIN list'
        PROVE  next'[list'[i]] = IF i = Len(list') THEN NULL ELSE list'[i + 1]
    <3>1. i \in 1 .. k - 1 /\ i + 1 \in 1 .. k /\ (i = k - 1 <=> i + 1 = k)
      BY <2>2
    <3>2. next'[list'[i]] = next[list[i + 1]]
      BY <1>6, <2>2, <3>1 DEF TakeHead
    <3>3. next[list[i + 1]] = IF i + 1 = k THEN NULL ELSE list[(i + 1) + 1]
      BY <2>4, <3>1
    <3>4. CASE i = k - 1
      BY <2>2, <3>1, <3>2, <3>3, <3>4
    <3>5. CASE i # k - 1
      <4>1. i + 1 \in 1 .. k - 1
        BY <2>2, <3>1, <3>5
      <4>2. list'[i + 1] = list[(i + 1) + 1]
        BY <2>2, <4>1
      <4> QED
        BY <2>2, <3>1, <3>2, <3>3, <3>5, <4>2
    <3> QED
      BY <3>4, <3>5
  <2>7. ASSUME NEW i \in DOMAIN list', NEW j \in DOMAIN list', list'[i] = list'[j]
        PROVE  i = j
    <3>1. i + 1 \in DOMAIN list /\ j + 1 \in DOMAIN list
      BY <1>0, <2>2
    <3>2. list[i + 1] = list[j + 1]
      BY <2>2, <2>7
    <3>3. i + 1 = j + 1
      BY <3>1, <3>2 DEF ChainIntact
    <3> QED
      BY <2>2, <3>3
  <2> QED
    BY <2>5, <2>6, <2>7 DEF ChainIntact
<1>7. CASE FreeQueue
  <2>1. CASE list' = <<>> /\ head' = NULL
    BY <2>1 DEF ChainIntact
  <2> QED
    BY <1>1, <1>7, <2>1 DEF FreeQueue, Undefined
<1>8. ASSUME NEW p \in Producers, ProducerLoop(p) \/ WorkDone(p) \/ SendMessage(p)
                                  \/ LockPush(p) \/ ScanBegin(p) \/ ScanNext(p)
                                  \/ UnlockPush(p)
      PROVE  ChainIntact'
  BY <1>1, <1>8 DEF ProducerLoop, WorkDone, SendMessage, LockPush, ScanBegin,
                    ScanNext, UnlockPush, Undefined
<1>9. CASE OwnerLoop \/ LockPop \/ TakeNothing \/ UnlockPop \/ FreeMessage
           \/ DropMessage \/ SetShutdown \/ UNCHANGED vars
  BY <1>1, <1>9 DEF OwnerLoop, LockPop, TakeNothing, UnlockPop, FreeMessage,
                    DropMessage, SetShutdown, vars
<1> QED
  BY <1>2, <1>3, <1>4, <1>5, <1>6, <1>7, <1>8, <1>9
     DEF Next, OwnerStep, ProducerStep, Push, Finished

\* What the steps that change the list do to the set of queued nodes.
LEMMA QueuedStep ==
  ASSUME IInv
  PROVE  /\ \A p \in Producers : AppendToEmpty(p) => Queued' = Queued \cup {hand[p]}
         /\ \A p \in Producers : LinkAtEnd(p) => Queued' = Queued \cup {hand[p]}
         /\ TakeHead => head \in Queued /\ Queued' = Queued \ {head}
         /\ list' = <<>> => Queued' = {}
         /\ list' = list => Queued' = Queued
<1> USE DEF IInv
<1>0. /\ list \in Seq(Nodes)
      /\ Len(list) \in Nat
      /\ DOMAIN list = 1 .. Len(list)
  BY LenProperties DEF TypeOK
<1>1. list' = <<>> => Queued' = {}
  BY EmptySeq, LenProperties DEF Queued
<1>2. list' = list => Queued' = Queued
  BY DEF Queued
<1>3. ASSUME NEW p \in Producers, AppendToEmpty(p)
      PROVE  Queued' = Queued \cup {hand[p]}
  <2>1. list = <<>>
    BY <1>0, <1>3, ElementOfSeq, EmptySeq, QueueAssumption
       DEF AppendToEmpty, ChainIntact, TypeOK
  <2>2. Queued = {}
    BY <2>1, <1>0 DEF Queued
  <2>3. DOMAIN list' = {1} /\ list'[1] = hand[p]
    BY <1>3 DEF AppendToEmpty
  <2> QED
    BY <2>2, <2>3 DEF Queued
<1>4. ASSUME NEW p \in Producers, LinkAtEnd(p)
      PROVE  Queued' = Queued \cup {hand[p]}
  <2>1. hand[p] \in Nodes /\ list' = Append(list, hand[p])
    BY <1>4 DEF LinkAtEnd, ControlInv, TypeOK, Ptr, Threads
  <2>2. /\ DOMAIN list' = 1 .. Len(list) + 1
        /\ \A i \in 1 .. Len(list) : list'[i] = list[i]
        /\ list'[Len(list) + 1] = hand[p]
    BY <1>0, <2>1, AppendFacts
  <2>3. 1 .. Len(list) + 1 = (1 .. Len(list)) \cup {Len(list) + 1}
    BY <1>0
  <2>4. Queued' = {list'[i] : i \in (1 .. Len(list)) \cup {Len(list) + 1}}
    BY <2>2, <2>3 DEF Queued
  <2> QED
    BY <1>0, <2>2, <2>4 DEF Queued
<1>5. ASSUME TakeHead
      PROVE  head \in Queued /\ Queued' = Queued \ {head}
  <2>1. list # <<>> /\ head = list[1]
    BY <1>5 DEF TakeHead, ChainIntact
  <2>2. /\ list' = Tail(list)
        /\ Len(list) \in Nat \ {0}
        /\ DOMAIN list' = 1 .. Len(list) - 1
        /\ \A i \in 1 .. Len(list) - 1 : list'[i] = list[i + 1]
    BY <1>0, <1>5, <2>1, TailFacts DEF TakeHead
  <2>3. \A i, j \in 1 .. Len(list) : list[i] = list[j] => i = j
    BY <1>0 DEF ChainIntact
  <2>4. head \in Queued
    BY <1>0, <2>1, <2>2 DEF Queued
  <2>5. ASSUME NEW n \in Queued' PROVE n \in Queued \ {head}
    <3>1. PICK i \in 1 .. Len(list) - 1 : n = list'[i]
      BY <2>2 DEF Queued
    <3>2. i + 1 \in 1 .. Len(list) /\ 1 \in 1 .. Len(list) /\ i + 1 # 1
      BY <2>2
    <3> QED
      BY <1>0, <2>1, <2>2, <2>3, <3>1, <3>2 DEF Queued
  <2>6. ASSUME NEW n \in Queued, n # head PROVE n \in Queued'
    <3>1. PICK i \in 1 .. Len(list) : n = list[i]
      BY <1>0 DEF Queued
    <3>2. i - 1 \in 1 .. Len(list) - 1 /\ (i - 1) + 1 = i
      BY <2>1, <2>2, <2>6, <3>1
    <3> QED
      BY <2>2, <3>1, <3>2 DEF Queued
  <2> QED
    BY <2>4, <2>5, <2>6
<1> QED
  BY <1>1, <1>2, <1>3, <1>4, <1>5

LEMMA SingleOwnerStep == IInv /\ [Next]_vars => SingleOwner'
<1> SUFFICES ASSUME IInv, [Next]_vars PROVE SingleOwner'
  OBVIOUS
<1> USE QueueAssumption DEF IInv, Threads, heapVars, ctrlVars
<1>1. ASSUME UNCHANGED <<live, list, hand>>
      PROVE  SingleOwner'
  BY <1>1, QueuedStep DEF SingleOwner
<1>2. ASSUME NEW p \in Producers, NEW n \in Nodes, CreateMessage(p, n)
      PROVE  SingleOwner'
  <2>1. Queued' = Queued
    BY <1>2, QueuedStep DEF CreateMessage
  <2>2. hand' = [hand EXCEPT ![p] = n] /\ live' = live \cup {n} /\ n \notin live
    BY <1>2 DEF CreateMessage
  <2> QED
    BY <2>1, <2>2 DEF SingleOwner, TypeOK
<1>3. ASSUME NEW p \in Producers, AppendToEmpty(p) \/ LinkAtEnd(p)
      PROVE  SingleOwner'
  <2>1. Queued' = Queued \cup {hand[p]}
    BY <1>3, QueuedStep
  <2>2. hand' = [hand EXCEPT ![p] = NULL] /\ live' = live
    BY <1>3 DEF AppendToEmpty, LinkAtEnd
  <2>3. hand[p] # NULL
    BY <1>3 DEF AppendToEmpty, LinkAtEnd, ControlInv
  <2> QED
    BY <2>1, <2>2, <2>3 DEF SingleOwner, TypeOK
<1>4. CASE TakeHead
  <2>1. head \in Queued /\ Queued' = Queued \ {head}
    BY <1>4, QueuedStep
  <2>2. hand' = [hand EXCEPT ![Owner] = head] /\ live' = live
    BY <1>4 DEF TakeHead
  <2> QED
    BY <2>1, <2>2 DEF SingleOwner, TypeOK
<1>5. CASE FreeMessage
  <2>1. hand[Owner] # NULL
    BY <1>5 DEF FreeMessage, ControlInv
  <2>2. /\ hand' = [hand EXCEPT ![Owner] = NULL]
        /\ live' = live \ {hand[Owner]}
        /\ Queued' = Queued
    BY <1>5, QueuedStep DEF FreeMessage
  <2> QED
    BY <2>1, <2>2 DEF SingleOwner, TypeOK
<1>6. CASE DropMessage
  <2>1. hand' = [hand EXCEPT ![Owner] = NULL] /\ live' = live /\ Queued' = Queued
    BY <1>6, QueuedStep DEF DropMessage
  <2> QED
    BY <2>1 DEF SingleOwner, TypeOK
<1>7. CASE FreeQueue
  <2>1. CASE list' = <<>> /\ live' = live \ Queued /\ hand' = hand
    BY <2>1, QueuedStep DEF SingleOwner
  <2> QED
    BY <1>1, <1>7, <2>1 DEF FreeQueue, Undefined, Queued
<1>8. ASSUME NEW p \in Producers, ProducerLoop(p) \/ WorkDone(p) \/ SendMessage(p)
                                  \/ LockPush(p) \/ ScanBegin(p) \/ ScanNext(p)
                                  \/ UnlockPush(p)
      PROVE  SingleOwner'
  BY <1>1, <1>8 DEF ProducerLoop, WorkDone, SendMessage, LockPush, ScanBegin,
                    ScanNext, UnlockPush, Undefined
<1>9. CASE CreateQueue \/ OwnerLoop \/ LockPop \/ TakeNothing \/ UnlockPop
           \/ SetShutdown \/ UNCHANGED vars
  BY <1>1, <1>9 DEF CreateQueue, OwnerLoop, LockPop, TakeNothing, UnlockPop,
                    SetShutdown, vars
<1> QED
  BY <1>2, <1>3, <1>4, <1>5, <1>6, <1>7, <1>8, <1>9
     DEF Next, OwnerStep, ProducerStep, Push, Finished

LEMMA ControlStep == IInv /\ [Next]_vars => ControlInv'
<1> SUFFICES ASSUME IInv, [Next]_vars PROVE ControlInv'
  OBVIOUS
<1> USE QueueAssumption DEF IInv, TypeOK, Threads, heapVars, ctrlVars, Goto,
      Lock, Unlock, ControlInv, InCritical, InPush, ProducerPC, OwnerPC
<1>1. ASSUME NEW p \in Producers, ProducerLoop(p) \/ WorkDone(p)
      PROVE  ControlInv'
  BY <1>1, QueuedStep DEF ProducerLoop, WorkDone
<1>2. ASSUME NEW p \in Producers, NEW n \in Nodes, CreateMessage(p, n)
      PROVE  ControlInv'
  BY <1>2, QueuedStep DEF CreateMessage
<1>3. ASSUME NEW p \in Producers, SendMessage(p)
      PROVE  ControlInv'
  BY <1>3, QueuedStep DEF SendMessage, Undefined
<1>4. ASSUME NEW p \in Producers, LockPush(p)
      PROVE  ControlInv'
  BY <1>4, QueuedStep DEF LockPush
<1>5. ASSUME NEW p \in Producers, AppendToEmpty(p)
      PROVE  ControlInv'
  BY <1>5, QueuedStep DEF AppendToEmpty
<1>6. ASSUME NEW p \in Producers, ScanBegin(p)
      PROVE  ControlInv'
  <2>1. head \in Queued
    BY <1>6, LenProperties, EmptySeq DEF ScanBegin, ChainIntact, Queued
  <2> QED
    BY <1>6, <2>1, QueuedStep DEF ScanBegin
<1>7. ASSUME NEW p \in Producers, ScanNext(p)
      PROVE  ControlInv'
  <2>1. PICK e \in DOMAIN list : iter[p] = list[e]
    BY <1>7 DEF ScanNext, Queued
  <2>2. e # Len(list) /\ next[iter[p]] = list[e + 1]
    BY <1>7, <2>1 DEF ScanNext, ChainIntact
  <2>3. next[iter[p]] \in Queued
    BY <2>1, <2>2, LenProperties DEF Queued
  <2> QED
    BY <1>7, <2>3, QueuedStep DEF ScanNext
<1>8. ASSUME NEW p \in Producers, LinkAtEnd(p)
      PROVE  ControlInv'
  <2>1. Queued' = Queued \cup {hand[p]}
    BY <1>8, QueuedStep
  <2>2. \A r \in Producers : hand[r] # NULL => hand[r] # iter[p]
    BY <1>8 DEF LinkAtEnd, SingleOwner
  <2> QED
    BY <1>8, <2>1, <2>2 DEF LinkAtEnd, Ptr
<1>9. ASSUME NEW p \in Producers, UnlockPush(p)
      PROVE  ControlInv'
  BY <1>9, QueuedStep DEF UnlockPush
<1>10. CASE CreateQueue
  BY <1>10, QueuedStep DEF CreateQueue
<1>11. CASE OwnerLoop \/ LockPop
  BY <1>11, QueuedStep DEF OwnerLoop, LockPop
<1>12. CASE TakeHead
  BY <1>12, QueuedStep DEF TakeHead
<1>13. CASE TakeNothing \/ UnlockPop
  BY <1>13, QueuedStep DEF TakeNothing, UnlockPop
<1>14. CASE FreeMessage \/ DropMessage
  BY <1>14, QueuedStep DEF FreeMessage, DropMessage
<1>15. CASE FreeQueue
  BY <1>15, QueuedStep DEF FreeQueue, Undefined
<1>16. CASE SetShutdown \/ UNCHANGED vars
  BY <1>16, QueuedStep DEF SetShutdown, vars
<1> QED
  BY <1>1, <1>2, <1>3, <1>4, <1>5, <1>6, <1>7, <1>8, <1>9, <1>10, <1>11,
     <1>12, <1>13, <1>14, <1>15, <1>16
     DEF Next, OwnerStep, ProducerStep, Push, Finished

\* IInv is an invariant of the queue and of the threads around it.
THEOREM Invariant == Spec => []IInv
<1>1. IInv /\ [Next]_vars => IInv'
  BY TypeStep, ChainStep, SingleOwnerStep, ControlStep DEF IInv
<1> QED
  BY InitInv, <1>1, PTL DEF Spec

\* Every variable keeps its type, for any number of producers and messages.
THEOREM TypeCorrect == Spec => []TypeOK
<1>1. IInv => TypeOK
  BY DEF IInv
<1> QED
  BY Invariant, <1>1, PTL

\* message_queue_push and _pop keep the list linked in the order of the
\* pushes, whatever threads run them.
THEOREM ChainCorrect == Spec => []ChainIntact
<1>1. IInv => ChainIntact
  BY DEF IInv
<1> QED
  BY Invariant, <1>1, PTL

\* No message is in two places, and none is used after it was freed.
THEOREM OwnershipCorrect == Spec => []SingleOwner
<1>1. IInv => SingleOwner
  BY DEF IInv
<1> QED
  BY Invariant, <1>1, PTL

\* message_queue->mutex excludes the threads from each other's list
\* operations, and each finds what its place in the code expects.
THEOREM ControlCorrect == Spec => []ControlInv
<1>1. IInv => ControlInv
  BY DEF IInv
<1> QED
  BY Invariant, <1>1, PTL

\* Every step of the threads is a step of the FIFO or invisible in it.
LEMMA FifoStep == IInv /\ [Next]_vars => [FifoQueue!Next]_(FifoQueue!vars)
<1> SUFFICES ASSUME IInv, [Next]_vars
             PROVE  FifoQueue!Next \/ UNCHANGED <<list, hand[Owner]>>
  BY DEF FifoQueue!vars
<1> USE QueueAssumption DEF IInv, Threads, heapVars, ctrlVars
<1>1. ASSUME NEW p \in Producers,
             ProducerLoop(p) \/ WorkDone(p) \/ SendMessage(p) \/ LockPush(p)
               \/ ScanBegin(p) \/ ScanNext(p) \/ UnlockPush(p)
               \/ \E n \in Nodes : CreateMessage(p, n)
      PROVE  UNCHANGED <<list, hand[Owner]>>
  BY <1>1 DEF ProducerLoop, WorkDone, SendMessage, LockPush, ScanBegin,
              ScanNext, UnlockPush, CreateMessage, Undefined, TypeOK
<1>2. ASSUME NEW p \in Producers, AppendToEmpty(p) \/ LinkAtEnd(p)
      PROVE  FifoQueue!Enqueue(hand[p]) /\ hand[p] \in Nodes
  <2>1. /\ hand[p] # NULL /\ hand[p] \in Nodes
        /\ hand' = [hand EXCEPT ![p] = NULL]
    BY <1>2 DEF AppendToEmpty, LinkAtEnd, ControlInv, TypeOK, Ptr
  <2>2. hand[p] # hand[Owner] /\ \A i \in DOMAIN list : list[i] # hand[p]
    BY <2>1 DEF SingleOwner, Queued
  <2>3. list' = Append(list, hand[p])
    <3>1. CASE AppendToEmpty(p)
      <4>1. list = <<>>
        BY <3>1, LenProperties, ElementOfSeq, EmptySeq
           DEF AppendToEmpty, ChainIntact, TypeOK
      <4> QED
        BY <2>1, <3>1, <4>1 DEF AppendToEmpty
    <3> QED
      BY <1>2, <3>1 DEF LinkAtEnd
  <2>4. UNCHANGED hand[Owner]
    BY <2>1 DEF TypeOK
  <2> QED
    BY <2>1, <2>2, <2>3, <2>4 DEF FifoQueue!Enqueue
<1>3. ASSUME TakeHead
      PROVE  FifoQueue!Dequeue
  <2>1. list # <<>> /\ head = list[1]
    BY <1>3 DEF TakeHead, ChainIntact
  <2>2. hand[Owner] = NULL
    BY <1>3 DEF TakeHead, ControlInv
  <2>3. hand'[Owner] = Head(list) /\ list' = Tail(list)
    BY <1>3, <2>1, TailFacts DEF TakeHead, TypeOK
  <2> QED
    BY <2>1, <2>2, <2>3 DEF FifoQueue!Dequeue
<1>4. ASSUME FreeMessage \/ DropMessage
      PROVE  FifoQueue!Release
  BY <1>4 DEF FreeMessage, DropMessage, FifoQueue!Release, TypeOK, ControlInv
<1>5. ASSUME FreeQueue
      PROVE  FifoQueue!Discard \/ UNCHANGED <<list, hand[Owner]>>
  BY <1>5 DEF FreeQueue, Undefined, FifoQueue!Discard
<1>6. CASE CreateQueue \/ OwnerLoop \/ LockPop \/ TakeNothing \/ UnlockPop
           \/ SetShutdown \/ UNCHANGED vars
  BY <1>6 DEF CreateQueue, OwnerLoop, LockPop, TakeNothing, UnlockPop,
              SetShutdown, vars
<1> QED
  BY <1>1, <1>2, <1>3, <1>4, <1>5, <1>6
     DEF Next, OwnerStep, ProducerStep, Push, Finished, FifoQueue!Next

\* The queue of message_queue.c implements the FIFO of message_queue.h: each
\* message comes out once, in the order of the pushes.
THEOREM Refinement == Spec => ImplementsFifo
<1>1. Init => FifoQueue!Init
  BY DEF Init, FifoQueue!Init, Threads
<1> QED
  BY Invariant, <1>1, FifoStep, PTL DEF Spec, ImplementsFifo, FifoQueue!Spec
=============================================================================
