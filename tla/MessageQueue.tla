---------------------------- MODULE MessageQueue ----------------------------
(***************************************************************************)
(* message_queue.c at the level of its linked list, with the threads that  *)
(* use one queue: the Owner, which creates the queue, pops from it in its  *)
(* main loop and frees it when it ends (command_client.c, file_client.c),  *)
(* and the Producers, which push to it through the owner's *_send_message  *)
(* function (the broadcast thread, the command client).                    *)
(*                                                                         *)
(* A list node is one malloc'ed message_queue_entry_type; `live` is the    *)
(* set of nodes allocated and not yet freed, so a freed node may come back *)
(* from a later malloc.  A call on a queue that does not exist (yet, or    *)
(* any more) is undefined behaviour in C: the step sets `undefined`, and   *)
(* nothing is claimed of what would follow.                                *)
(***************************************************************************)
EXTENDS Naturals, Sequences

CONSTANTS Producers,  \* the threads that push
          Owner,      \* the thread that creates, pops and frees
          Nodes,      \* what malloc can return: bounds the messages alive
          NULL

ASSUME QueueAssumption == Owner \notin Producers /\ NULL \notin Nodes
                          /\ NULL \notin Producers /\ NULL # Owner

Threads == Producers \cup {Owner}

VARIABLES
  queue,      \* the static message_queue of the owner's module
  mutex,      \* message_queue->mutex: the thread that holds it, or NULL
  head,       \* message_queue->head
  next,       \* the next field of every node
  live,       \* the nodes allocated
  pc,         \* where each thread is
  hand,       \* the message a thread holds: created, or popped
  iter,       \* the iterator of message_queue_push
  shutdown,   \* shouldShutdown
  undefined,  \* a call was made outside the contract of the queue
  list        \* auxiliary: the nodes linked from head, in order

heapVars == <<head, next, live, list>>
ctrlVars == <<queue, shutdown, undefined>>
vars == <<queue, mutex, head, next, live, pc, hand, iter, shutdown,
          undefined, list>>

ProducerPC == {"loop", "work", "send", "lock", "append", "scan", "unlock",
               "ended"}
OwnerPC == {"start", "loop", "pop", "take", "release", "handle", "closing",
            "ended"}

Init ==
  /\ queue = "absent" /\ mutex = NULL /\ head = NULL
  /\ next = [n \in Nodes |-> NULL] /\ live = {} /\ list = <<>>
  /\ pc = [t \in Threads |-> IF t = Owner THEN "start" ELSE "loop"]
  /\ hand = [t \in Threads |-> NULL]
  /\ iter = [p \in Producers |-> NULL]
  /\ shutdown = FALSE /\ undefined = FALSE

Goto(t, label) == pc' = [pc EXCEPT ![t] = label]

Lock(t) == mutex = NULL /\ mutex' = t
Unlock == mutex' = NULL

\* Undefined behaviour: the program stops meaning anything.
Undefined ==
  /\ undefined' = TRUE
  /\ UNCHANGED <<queue, mutex, heapVars, pc, hand, iter, shutdown>>

-----------------------------------------------------------------------------
(* A producer: while(!get_shutdown()) { ... *_send_message(...) ... }      *)

\* Mutant: the exit of the owner's loop, copied to a producer.
ProducerLoopCopied(p) ==
  /\ pc[p] = "loop"
  /\ Goto(p, IF shutdown THEN "closing" ELSE "work")
  /\ UNCHANGED <<ctrlVars, mutex, heapVars, hand, iter>>

\* The loop condition.
ProducerLoop(p) ==
  /\ pc[p] = "loop"
  /\ Goto(p, IF shutdown THEN "ended" ELSE "work")
  /\ UNCHANGED <<ctrlVars, mutex, heapVars, hand, iter>>

\* Nothing (more) to send in this iteration.
WorkDone(p) ==
  /\ pc[p] = "work"
  /\ Goto(p, "loop")
  /\ UNCHANGED <<ctrlVars, mutex, heapVars, hand, iter>>

\* Mutant: malloc without the memset, next is what the node held before.
CreateMessageDirty(p, n) ==
  /\ pc[p] = "work"
  /\ n \notin live
  /\ live' = live \cup {n}
  /\ hand' = [hand EXCEPT ![p] = n]
  /\ Goto(p, "send")
  /\ UNCHANGED <<ctrlVars, mutex, head, next, list, iter>>

\* message_queue_create_message: malloc, and memset sets next to NULL.
CreateMessage(p, n) ==
  /\ pc[p] = "work"
  /\ n \notin live
  /\ live' = live \cup {n}
  /\ next' = [next EXCEPT ![n] = NULL]
  /\ hand' = [hand EXCEPT ![p] = n]
  /\ Goto(p, "send")
  /\ UNCHANGED <<ctrlVars, mutex, head, list, iter>>

\* *_thread_send_message passes the module's queue pointer on.
SendMessage(p) ==
  /\ pc[p] = "send"
  /\ \/ /\ queue = "live"
        /\ Goto(p, "lock")
        /\ UNCHANGED <<ctrlVars, mutex, heapVars, hand, iter>>
     \/ queue # "live" /\ Undefined

\* Mutant: the queue is locked only once the end of the list is found.
LockPushLate(p) ==
  /\ pc[p] = "lock"
  /\ Goto(p, "append")
  /\ UNCHANGED <<ctrlVars, mutex, heapVars, hand, iter>>

LockPush(p) ==
  /\ pc[p] = "lock"
  /\ Lock(p)
  /\ Goto(p, "append")
  /\ UNCHANGED <<ctrlVars, heapVars, hand, iter>>

\* The special case of an empty queue.
AppendToEmpty(p) ==
  /\ pc[p] = "append"
  /\ head = NULL
  /\ head' = hand[p]
  /\ list' = <<hand[p]>>
  /\ hand' = [hand EXCEPT ![p] = NULL]
  /\ Goto(p, "unlock")
  /\ UNCHANGED <<ctrlVars, mutex, next, live, iter>>

ScanBegin(p) ==
  /\ pc[p] = "append"
  /\ head # NULL
  /\ iter' = [iter EXCEPT ![p] = head]
  /\ Goto(p, "scan")
  /\ UNCHANGED <<ctrlVars, mutex, heapVars, hand>>

ScanNext(p) ==
  /\ pc[p] = "scan"
  /\ next[iter[p]] # NULL
  /\ iter' = [iter EXCEPT ![p] = next[iter[p]]]
  /\ UNCHANGED <<ctrlVars, mutex, heapVars, pc, hand>>

\* Mutant: the message is linked at the head of the scan, not at its end.
LinkAtHead(p) ==
  /\ pc[p] = "scan"
  /\ next' = [next EXCEPT ![head] = hand[p]]
  /\ list' = Append(list, hand[p])
  /\ hand' = [hand EXCEPT ![p] = NULL]
  /\ iter' = [iter EXCEPT ![p] = NULL]
  /\ Goto(p, "unlock")
  /\ UNCHANGED <<ctrlVars, mutex, head, live>>

\* iterator->next = message, at the last node.
LinkAtEnd(p) ==
  /\ pc[p] = "scan"
  /\ next[iter[p]] = NULL
  /\ next' = [next EXCEPT ![iter[p]] = hand[p]]
  /\ list' = Append(list, hand[p])
  /\ hand' = [hand EXCEPT ![p] = NULL]
  /\ iter' = [iter EXCEPT ![p] = NULL]
  /\ Goto(p, "unlock")
  /\ UNCHANGED <<ctrlVars, mutex, head, live>>

UnlockPush(p) ==
  /\ pc[p] = "unlock"
  /\ Unlock
  /\ Goto(p, "work")
  /\ UNCHANGED <<ctrlVars, heapVars, hand, iter>>

-----------------------------------------------------------------------------
(* The owner: create the queue, pop and handle until shutdown, free it.    *)

CreateQueue ==
  /\ pc[Owner] = "start"
  /\ queue' = "live" /\ head' = NULL /\ mutex' = NULL
  /\ Goto(Owner, "loop")
  /\ UNCHANGED <<next, live, list, hand, iter, shutdown, undefined>>

\* Mutant: the loop never pops, as in file_server.c, whose pop is commented out.
OwnerLoopNoPop ==
  /\ pc[Owner] = "loop"
  /\ Goto(Owner, IF shutdown THEN "closing" ELSE "loop")
  /\ UNCHANGED <<ctrlVars, mutex, heapVars, hand, iter>>

OwnerLoop ==
  /\ pc[Owner] = "loop"
  /\ Goto(Owner, IF shutdown THEN "closing" ELSE "pop")
  /\ UNCHANGED <<ctrlVars, mutex, heapVars, hand, iter>>

LockPop ==
  /\ pc[Owner] = "pop"
  /\ Lock(Owner)
  /\ Goto(Owner, "take")
  /\ UNCHANGED <<ctrlVars, heapVars, hand, iter>>

\* message = head; head = head->next.
TakeHead ==
  /\ pc[Owner] = "take"
  /\ head # NULL
  /\ hand' = [hand EXCEPT ![Owner] = head]
  /\ head' = next[head]
  /\ list' = Tail(list)
  /\ Goto(Owner, "release")
  /\ UNCHANGED <<ctrlVars, mutex, next, live, iter>>

\* The queue is empty: message_queue_pop returns NULL.
TakeNothing ==
  /\ pc[Owner] = "take"
  /\ head = NULL
  /\ Goto(Owner, "release")
  /\ UNCHANGED <<ctrlVars, mutex, heapVars, hand, iter>>

\* Mutant: an empty queue is polled again without a look at the flag.
UnlockPopPolling ==
  /\ pc[Owner] = "release"
  /\ Unlock
  /\ Goto(Owner, IF hand[Owner] = NULL THEN "pop" ELSE "handle")
  /\ UNCHANGED <<ctrlVars, heapVars, hand, iter>>

\* The inner loop ends with a NULL message, the outer one then sleeps.
UnlockPop ==
  /\ pc[Owner] = "release"
  /\ Unlock
  /\ Goto(Owner, IF hand[Owner] = NULL THEN "loop" ELSE "handle")
  /\ UNCHANGED <<ctrlVars, heapVars, hand, iter>>

\* Mutant: the message is freed and the loop keeps the pointer.
FreeAndKeep ==
  /\ pc[Owner] = "handle"
  /\ live' = live \ {hand[Owner]}
  /\ Goto(Owner, "pop")
  /\ UNCHANGED <<ctrlVars, mutex, head, next, list, hand, iter>>

\* The message is handled and freed.
FreeMessage ==
  /\ pc[Owner] = "handle"
  /\ live' = live \ {hand[Owner]}
  /\ hand' = [hand EXCEPT ![Owner] = NULL]
  /\ Goto(Owner, "pop")
  /\ UNCHANGED <<ctrlVars, mutex, head, next, list, iter>>

\* The command client could not connect and continues with the next
\* message; the one in hand stays allocated for ever.
DropMessage ==
  /\ pc[Owner] = "handle"
  /\ hand' = [hand EXCEPT ![Owner] = NULL]
  /\ Goto(Owner, "pop")
  /\ UNCHANGED <<ctrlVars, mutex, heapVars, iter>>

\* A producer is between its *_send_message call and the end of the push.
InPush(p) == pc[p] \in {"lock", "append", "scan", "unlock"}

\* message_queue_free_queue takes no lock: its contract leaves it to the
\* callers that no push is going on.
FreeQueue ==
  /\ pc[Owner] = "closing"
  /\ \/ /\ \A p \in Producers : ~InPush(p)
        /\ queue' = "freed" /\ head' = NULL /\ list' = <<>>
        /\ live' = live \ {list[i] : i \in DOMAIN list}
        /\ Goto(Owner, "ended")
        /\ UNCHANGED <<mutex, next, hand, iter, shutdown, undefined>>
     \/ (\E p \in Producers : InPush(p)) /\ Undefined

-----------------------------------------------------------------------------
\* The SIGINT handler, in whichever thread it runs.
SetShutdown ==
  /\ ~shutdown
  /\ shutdown' = TRUE
  /\ UNCHANGED <<queue, undefined, mutex, heapVars, pc, hand, iter>>

\* Every thread has returned, or the behaviour is undefined.
Finished ==
  /\ undefined \/ \A t \in Threads : pc[t] = "ended"
  /\ UNCHANGED vars

Push(p) == \/ LockPush(p) \/ AppendToEmpty(p) \/ ScanBegin(p) \/ ScanNext(p)
           \/ LinkAtEnd(p) \/ UnlockPush(p)

ProducerStep(p) ==
  \/ ProducerLoop(p) \/ WorkDone(p) \/ SendMessage(p) \/ Push(p)
  \/ \E n \in Nodes : CreateMessage(p, n)

OwnerStep == \/ CreateQueue \/ OwnerLoop \/ LockPop \/ TakeHead \/ TakeNothing
             \/ UnlockPop \/ FreeMessage \/ DropMessage \/ FreeQueue

Next ==
  \/ ~undefined /\ (OwnerStep \/ SetShutdown \/ \E p \in Producers : ProducerStep(p))
  \/ Finished

Spec == Init /\ [][Next]_vars

\* Every thread is scheduled; a mutex that is free again and again is
\* eventually obtained (its holders release it after a few instructions and
\* then sleep or block in select); the messages of one iteration are finite.
FairSpec ==
  /\ Spec
  /\ WF_vars(~undefined /\ OwnerStep)
  /\ SF_vars(~undefined /\ LockPop)
  /\ \A p \in Producers : /\ WF_vars(~undefined /\ ProducerStep(p))
                          /\ SF_vars(~undefined /\ LockPush(p))
                          /\ SF_vars(~undefined /\ WorkDone(p))

-----------------------------------------------------------------------------
(* Properties.                                                             *)

Ptr == Nodes \cup {NULL}

TypeOK ==
  /\ queue \in {"absent", "live", "freed"}
  /\ mutex \in Threads \cup {NULL}
  /\ head \in Ptr
  /\ next \in [Nodes -> Ptr]
  /\ live \in SUBSET Nodes
  /\ pc \in [Threads -> ProducerPC \cup OwnerPC]
  /\ \A p \in Producers : pc[p] \in ProducerPC
  /\ pc[Owner] \in OwnerPC
  /\ hand \in [Threads -> Ptr]
  /\ iter \in [Producers -> Ptr]
  /\ shutdown \in BOOLEAN /\ undefined \in BOOLEAN
  /\ list \in Seq(Nodes)

\* The nodes that the queue holds.
Queued == {list[i] : i \in DOMAIN list}

\* Following next from head visits the nodes of `list` and ends: a push that
\* runs with a pop or another push never drops, repeats or cycles a node.
ChainIntact ==
  /\ head = IF list = <<>> THEN NULL ELSE list[1]
  /\ \A i \in DOMAIN list :
       next[list[i]] = IF i = Len(list) THEN NULL ELSE list[i + 1]
  /\ \A i, j \in DOMAIN list : list[i] = list[j] => i = j

\* A message is in the queue or in the hand of one thread, never two, and it
\* is allocated: no thread uses a message after free or frees it twice.
SingleOwner ==
  /\ Queued \subseteq live
  /\ \A t \in Threads : hand[t] # NULL =>
       /\ hand[t] \in live \ Queued
       /\ \A u \in Threads : hand[u] = hand[t] => u = t

InCritical(t) == pc[t] \in {"append", "scan", "unlock", "take", "release"}

\* Only the thread that holds the mutex reads or writes the list, and what a
\* thread still has to do fits what it holds: a message on its way in is
\* unlinked, the iterator of a push stays inside the list, and no push is
\* under way on a queue that does not exist.
ControlInv ==
  /\ \A t \in Threads : InCritical(t) <=> mutex = t
  /\ \A p \in Producers :
       /\ hand[p] # NULL <=> pc[p] \in {"send", "lock", "append", "scan"}
       /\ hand[p] # NULL => next[hand[p]] = NULL
       /\ pc[p] = "scan" => iter[p] \in Queued
       /\ InPush(p) => queue = "live"
  /\ hand[Owner] # NULL => pc[Owner] \in {"release", "handle"}
  /\ pc[Owner] = "handle" => hand[Owner] # NULL
  /\ queue = "absent" <=> pc[Owner] = "start"
  /\ pc[Owner] = "start" => list = <<>>

\* The queue behaves as the FIFO that message_queue.h describes.
FifoQueue == INSTANCE Fifo WITH Messages <- Nodes, q <- list,
                                out <- hand[Owner]
ImplementsFifo == FifoQueue!Spec

\* A message that was pushed leaves the queue: it is popped, or discarded
\* when the owner ends.
PushedLeaves == \A n \in Nodes : n \in Queued ~> (n \notin Queued \/ undefined)

\* Once shutdown is set, every thread around the queue ends; the owner's
\* inner loop, which does not look at the flag, cannot keep it from that.
ThreadsEnd == shutdown ~> (undefined \/ \A t \in Threads : pc[t] = "ended")

\* message_queue.c:15: "the callers have to make sure that [free_queue] is
\* not called while another thread wants to use synchronized functions".
ClosedWhenUnused == \A p \in Producers :
  queue = "freed" => pc[p] \notin {"send", "lock", "append", "scan", "unlock"}
=============================================================================
