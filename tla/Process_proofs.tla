--------------------------- MODULE Process_proofs ---------------------------
(***************************************************************************)
(* For any number of threads: the critical sections of the mutexes exclude *)
(* each other, wherever signals interrupt the threads; and if SIGINT comes *)
(* at most once, no mutex is used after main destroyed it.                 *)
(***************************************************************************)
EXTENDS Process, TLAPS

LogPC == {"log", "peer_log", "exit_log", "main_log"}
PeerPC == {"peer", "peer_log", "peer_end", "freeing"}

\* main has joined the threads.
JoinedPC == {"joined", "main_log", "free", "freeing", "destroy_shutdown",
             "destroy_peer_list", "destroy_logger", "ended"}

\* Exclusive, lock by lock.
Sections == \A t \in Threads :
  /\ pc[t] \in LogPC \/ hpc[t] = "logging" <=> lock["logger"] = t
  /\ pc[t] = "read" \/ hpc[t] = "setting" <=> lock["shutdown"] = t
  /\ pc[t] \in PeerPC <=> lock["peer_list"] = t

\* A handler waits for a lock its own thread has, it never gets it twice.
NoDouble == \A t \in Threads :
  /\ hpc[t] = "logging" => pc[t] \notin LogPC
  /\ hpc[t] = "setting" => pc[t] # "read"

\* main's place in its code tells what else can be under way.
Order ==
  /\ installed <=> pc[Main] \notin {"init", "create"}
  /\ ~installed => \A t \in Threads : hpc[t] = "none"
  /\ \A t \in Threads : pc[t] \in {"none", "ended"} => hpc[t] = "none"
  /\ pc[Main] = "init" => \A w \in Workers : pc[w] = "none"
  /\ pc[Main] \in JoinedPC => \A w \in Workers : pc[w] = "ended"
  /\ \A l \in Locks : lock[l] = "none" <=> pc[Main] = "init"
  /\ lock["shutdown"] = "destroyed" =>
       pc[Main] \in {"destroy_peer_list", "destroy_logger", "ended"}
  /\ lock["peer_list"] = "destroyed" => pc[Main] \in {"destroy_logger", "ended"}
  /\ lock["logger"] = "destroyed" => pc[Main] = "ended"

IInv == TypeOK /\ Sections /\ NoDouble /\ Order

LEMMA InitInv == Init => IInv
<1> SUFFICES ASSUME Init PROVE IInv
  OBVIOUS
<1> USE ProcessAssumption
<1>1. /\ shutdown \in BOOLEAN /\ installed \in BOOLEAN /\ killed \in BOOLEAN
      /\ ~installed
  BY Zenon DEF Init
<1>2. signals \in 0 .. MaxSignals
  BY DEF Init
<1>3. /\ lock \in [Locks -> {"none", "free", "destroyed"} \cup Threads]
      /\ \A l \in Locks : lock[l] = "none"
  BY DEF Init
<1>4. /\ hpc \in [Threads -> {"none", "log", "logging", "set", "setting"}]
      /\ \A t \in Threads : hpc[t] = "none"
  BY DEF Init
<1>5. /\ pc \in [Threads -> WorkerPC \cup MainPC]
      /\ pc[Main] = "init" /\ \A w \in Workers : pc[w] = "none"
  BY DEF Init, Threads, WorkerPC, MainPC
<1>6. TypeOK
  BY <1>1, <1>2, <1>3, <1>4, <1>5 DEF TypeOK, WorkerPC, MainPC
<1>7. Sections
  BY <1>3, <1>4, <1>5 DEF Sections, LogPC, PeerPC, Locks, Threads
<1>8. NoDouble /\ Order
  BY <1>1, <1>3, <1>4, <1>5 DEF NoDouble, Order, JoinedPC, Locks
<1> QED
  BY <1>6, <1>7, <1>8 DEF IInv

-----------------------------------------------------------------------------
(* Every step preserves it.                                                *)

\* get_shutdown and the waits, of main and of the threads.
LEMMA LoopInv == ASSUME IInv, NEW t \in Threads, LoopStep(t) PROVE IInv'
<1> USE ProcessAssumption DEF IInv, TypeOK, Sections, NoDouble, Order, Threads, Locks,
           WorkerPC, MainPC, LogPC, PeerPC, JoinedPC, sigVars
<1>1. CASE LockShutdown(t)
  BY <1>1 DEF LockShutdown, Step, Acquire
<1>2. CASE ReadShutdown(t)
  BY <1>2 DEF ReadShutdown, Step, Release
<1>3. CASE Wake(t)
  BY <1>3 DEF Wake, Step
<1> QED
  BY <1>1, <1>2, <1>3 DEF LoopStep

\* sigint_handler, on top of any thread.
LEMMA HandlerInv == ASSUME IInv, NEW t \in Threads, Handler(t) PROVE IInv'
<1> USE ProcessAssumption DEF IInv, TypeOK, Sections, NoDouble, Order, Threads, Locks,
           WorkerPC, MainPC, LogPC, PeerPC, JoinedPC, sigVars
<1>1. CASE HandlerLogBegin(t)
  BY <1>1 DEF HandlerLogBegin, HandlerStep, Acquire
<1>2. CASE HandlerLogEnd(t)
  BY <1>2 DEF HandlerLogEnd, HandlerStep, Release
<1>3. CASE HandlerSetBegin(t)
  BY <1>3 DEF HandlerSetBegin, HandlerStep, Acquire
<1>4. CASE HandlerSetEnd(t)
  BY <1>4 DEF HandlerSetEnd, HandlerStep, Release
<1> QED
  BY <1>1, <1>2, <1>3, <1>4 DEF Handler

\* What a thread does in an iteration, and its end.
LEMMA WorkerInv == ASSUME IInv, NEW t \in Workers, WorkerStep(t) PROVE IInv'
<1> USE ProcessAssumption DEF IInv, TypeOK, Sections, NoDouble, Order, Threads, Locks,
           WorkerPC, MainPC, LogPC, PeerPC, JoinedPC, sigVars
<1>1. CASE LogBegin(t)
  BY <1>1 DEF LogBegin, Step, Acquire
<1>2. CASE LogEnd(t)
  BY <1>2 DEF LogEnd, Step, Release
<1>3. CASE PeerBegin(t)
  BY <1>3 DEF PeerBegin, Step, Acquire
<1>4. CASE PeerLogBegin(t)
  BY <1>4 DEF PeerLogBegin, Step, Acquire
<1>5. CASE PeerLogEnd(t)
  BY <1>5 DEF PeerLogEnd, Step, Release
<1>6. CASE PeerEnd(t)
  BY <1>6 DEF PeerEnd, Step, Release
<1>7. CASE Block(t)
  BY <1>7 DEF Block, Step
<1>8. CASE ExitBegin(t)
  BY <1>8 DEF ExitBegin, Step, Acquire
<1>9. CASE ExitEnd(t)
  BY <1>9 DEF ExitEnd, Step, Release
<1> QED
  BY <1>1, <1>2, <1>3, <1>4, <1>5, <1>6, <1>7, <1>8, <1>9 DEF WorkerStep

\* main, from the locks' initialisation to their destruction.
LEMMA MainInv == ASSUME IInv, MainStep PROVE IInv'
<1> USE ProcessAssumption DEF IInv, TypeOK, Sections, NoDouble, Order, Threads, Locks,
           WorkerPC, MainPC, LogPC, PeerPC, JoinedPC, sigVars
<1>1. CASE Initialize
  BY <1>1 DEF Initialize, Step
<1>2. ASSUME NEW w \in Workers, Create(w)
      PROVE  IInv'
  BY <1>2 DEF Create
<1>3. CASE InstallHandler
  BY <1>3 DEF InstallHandler
<1>4. CASE Join
  BY <1>4 DEF Join, Step
<1>5. CASE MainLogBegin
  BY <1>5 DEF MainLogBegin, Step, Acquire
<1>6. CASE MainLogEnd
  BY <1>6 DEF MainLogEnd, Step, Release
<1>7. CASE FreeBegin
  BY <1>7 DEF FreeBegin, Step, Acquire
<1>8. CASE FreeEnd
  BY <1>8 DEF FreeEnd, Step, Release
<1>9. CASE DestroyLocks
  BY <1>9 DEF DestroyLocks, Destroy, Step
<1> QED
  BY <1>1, <1>2, <1>3, <1>4, <1>5, <1>6, <1>7, <1>8, <1>9 DEF MainStep

\* The arrival of a signal.
LEMMA SignalInv == ASSUME IInv, (\E t \in Threads : Sigint(t)) \/ SigintEarly PROVE IInv'
<1> USE ProcessAssumption DEF IInv, TypeOK, Sections, NoDouble, Order, Threads, Locks,
           WorkerPC, MainPC, LogPC, PeerPC, JoinedPC, sigVars
<1>1. ASSUME NEW t \in Threads, Sigint(t)
      PROVE  IInv'
  BY <1>1 DEF Sigint
<1>2. CASE SigintEarly
  BY <1>2 DEF SigintEarly
<1> QED
  BY <1>1, <1>2

LEMMA StepInv == IInv /\ [Next]_vars => IInv'
<1> SUFFICES ASSUME IInv, [Next]_vars PROVE IInv'
  OBVIOUS
<1>1. CASE UNCHANGED vars
  BY <1>1 DEF vars, IInv, TypeOK, Sections, NoDouble, Order, Threads, Locks,
           WorkerPC, MainPC, LogPC, PeerPC, JoinedPC, sigVars
<1> QED
  BY <1>1, LoopInv, HandlerInv, WorkerInv, MainInv, SignalInv DEF Next

\* However many threads there are, and wherever signals interrupt them.
LEMMA Invariant == Spec => []IInv
BY InitInv, StepInv, PTL DEF Spec

\* The variables keep their types.
THEOREM TypeCorrect == Spec => []TypeOK
<1>1. IInv => TypeOK
  BY DEF IInv
<1> QED
  BY <1>1, Invariant, PTL

\* The critical sections of the three mutexes exclude each other, those of
\* the SIGINT handler included: also when a signal finds a thread inside one.
THEOREM MutualExclusion == Spec => []Exclusive
<1>1. IInv => Exclusive
  BY DEF IInv, Sections, Exclusive, Inside, Locks, LogPC, PeerPC
<1> QED
  BY <1>1, Invariant, PTL

-----------------------------------------------------------------------------
(* The locks outlive their users.                                          *)

\* With one SIGINT at most one handler ever runs, and main leaves its loop
\* only after that handler has set the flag, with its very last step.
OneHandler ==
  /\ signals = 0 => \A t \in Threads : hpc[t] = "none"
  /\ \A t, u \in Threads : hpc[t] # "none" /\ hpc[u] # "none" => t = u
  /\ shutdown => signals # 0 /\ \A t \in Threads : hpc[t] = "none"
  /\ pc[Main] \in {"join"} \cup JoinedPC => shutdown

LEMMA OneHandlerInit == Init => OneHandler
BY ProcessAssumption DEF Init, OneHandler, Threads, JoinedPC

LEMMA OneHandlerStep ==
  ASSUME MaxSignals <= 1, IInv, OneHandler, [Next]_vars
  PROVE  OneHandler'
<1> USE ProcessAssumption DEF IInv, TypeOK, OneHandler, Threads, JoinedPC, sigVars
<1>1. ASSUME NEW t \in Threads, LoopStep(t)
      PROVE  OneHandler'
  BY <1>1 DEF LoopStep, LockShutdown, ReadShutdown, Wake, Step
<1>2. ASSUME NEW t \in Threads, Handler(t)
      PROVE  OneHandler'
  BY <1>2 DEF Handler, HandlerLogBegin, HandlerLogEnd, HandlerSetBegin,
              HandlerSetEnd, HandlerStep
<1>3. ASSUME NEW t \in Workers, WorkerStep(t)
      PROVE  OneHandler'
  BY <1>3 DEF WorkerStep, LogBegin, LogEnd, PeerBegin, PeerLogBegin, PeerLogEnd,
              PeerEnd, Block, ExitBegin, ExitEnd, Step
<1>4. CASE MainStep
  BY <1>4 DEF MainStep, Initialize, Create, InstallHandler, Join, MainLogBegin,
              MainLogEnd, FreeBegin, FreeEnd, DestroyLocks, Destroy, Step
<1>5. ASSUME NEW t \in Threads, Sigint(t)
      PROVE  OneHandler'
  BY <1>5 DEF Sigint
<1>6. CASE SigintEarly
  BY <1>6 DEF SigintEarly
<1>7. CASE UNCHANGED vars
  BY <1>7 DEF vars
<1> QED
  BY <1>1, <1>2, <1>3, <1>4, <1>5, <1>6, <1>7 DEF Next

\* If SIGINT comes at most once, no handler is left, and no thread, when main
\* destroys the mutexes.
THEOREM LocksAliveCorrect == ASSUME MaxSignals <= 1 PROVE Spec => []LocksAlive
<1>1. Init => IInv /\ OneHandler
  BY InitInv, OneHandlerInit
<1>2. IInv /\ OneHandler /\ [Next]_vars => (IInv /\ OneHandler)'
  BY StepInv, OneHandlerStep
<1>3. IInv /\ OneHandler => LocksAlive
  BY DEF IInv, Order, OneHandler, LocksAlive, Locks, JoinedPC
<1> QED
  BY <1>1, <1>2, <1>3, PTL DEF Spec

-----------------------------------------------------------------------------
(* No deadlock.                                                            *)

\* A handler interrupts only threads that have no lock.
SafePoints == AnyPoint => MaxSignals = 0

\* So that a thread under a handler is outside of its critical sections.
Outside == \A t \in Threads :
  hpc[t] # "none" => pc[t] \notin LogPC \cup PeerPC \cup {"read"}

LEMMA OutsideInit == Init => Outside
BY DEF Init, Outside

LEMMA OutsideStep ==
  ASSUME SafePoints, IInv, Outside, [Next]_vars
  PROVE  Outside'
<1> USE ProcessAssumption DEF IInv, TypeOK, Outside, Threads
<1>1. ASSUME NEW t \in Threads, LoopStep(t)
      PROVE  Outside'
  BY <1>1 DEF LoopStep, LockShutdown, ReadShutdown, Wake, Step
<1>2. ASSUME NEW t \in Threads, Handler(t)
      PROVE  Outside'
  BY <1>2 DEF Handler, HandlerLogBegin, HandlerLogEnd, HandlerSetBegin,
              HandlerSetEnd, HandlerStep
<1>3. ASSUME NEW t \in Workers, WorkerStep(t)
      PROVE  Outside'
  BY <1>3 DEF WorkerStep, LogBegin, LogEnd, PeerBegin, PeerLogBegin, PeerLogEnd,
              PeerEnd, Block, ExitBegin, ExitEnd, Step
<1>4. CASE MainStep
  <2>1. CASE Initialize \/ (\E w \in Workers : Create(w)) \/ InstallHandler
    BY <2>1 DEF Initialize, Create, InstallHandler, Step, Order, LogPC, PeerPC
  <2>2. CASE Join \/ MainLogBegin \/ MainLogEnd \/ FreeBegin \/ FreeEnd \/ DestroyLocks
    BY <2>2 DEF Join, MainLogBegin, MainLogEnd, FreeBegin, FreeEnd, DestroyLocks,
                Destroy, Step
  <2> QED
    BY <1>4, <2>1, <2>2 DEF MainStep
<1>5. ASSUME NEW t \in Threads, Sigint(t)
      PROVE  Outside'
  <2>1. ~HasLock(t)
    BY <1>5 DEF Sigint, SafePoints
  <2>2. pc[t] \notin LogPC \cup PeerPC \cup {"read"}
    BY <2>1 DEF HasLock, Sections, Locks
  <2> QED
    BY <1>5, <2>2 DEF Sigint
<1>6. CASE SigintEarly
  BY <1>6 DEF SigintEarly
<1>7. CASE UNCHANGED vars
  BY <1>7 DEF vars
<1> QED
  BY <1>1, <1>2, <1>3, <1>4, <1>5, <1>6, <1>7 DEF Next

\* The order of the locks: who has the logger's or the flag's asks for none,
\* who has the peer list's at most for the logger's.
LEMMA LockOrder ==
  ASSUME IInv, Outside, NEW t \in Threads
  PROVE  /\ lock["logger"] = t \/ lock["shutdown"] = t => Wants(t) = {}
         /\ lock["peer_list"] = t => Wants(t) \subseteq {"logger"}
<1> USE DEF IInv, TypeOK, Outside
<1>1. ASSUME lock["logger"] = t \/ lock["shutdown"] = t PROVE Wants(t) = {}
  <2>1. \/ pc[t] \in LogPC \cup {"read"} /\ hpc[t] = "none"
        \/ hpc[t] \in {"logging", "setting"}
    BY <1>1 DEF Sections
  <2> QED
    BY <2>1 DEF Wants, LogPC
<1>2. ASSUME lock["peer_list"] = t PROVE Wants(t) \subseteq {"logger"}
  <2>1. pc[t] \in PeerPC /\ hpc[t] = "none"
    BY <1>2 DEF Sections
  <2> QED
    BY <2>1 DEF Wants, PeerPC
<1> QED
  BY <1>1, <1>2

\* Threads that wait for each other would have to have locks: the one with
\* the innermost of them waits for none of the others.
LEMMA InvNoDeadlock == IInv /\ Outside => NoDeadlock
<1> SUFFICES ASSUME IInv, Outside, NEW D \in (SUBSET Threads) \ {{}}
             PROVE  \E t \in D : \A u \in D : ~WaitsFor(t, u)
  BY DEF NoDeadlock
<1>1. ASSUME NEW t \in D, NEW u \in D, WaitsFor(t, u)
      PROVE  \/ \E l \in Wants(t) : lock[l] = u
             \/ t = Main /\ pc[t] = "join" /\ hpc[t] = "none" /\ u \in Workers
  BY <1>1 DEF WaitsFor
<1>2. \A t \in Threads : Wants(t) \subseteq Locks
  <2> SUFFICES ASSUME NEW t \in Threads PROVE Wants(t) \subseteq Locks
    OBVIOUS
  <2>1. hpc[t] \in {"none", "log", "logging", "set", "setting"}
    BY DEF IInv, TypeOK
  <2> QED
    BY <2>1 DEF Wants, Locks
<1>3. CASE \E t \in D : lock["logger"] = t \/ lock["shutdown"] = t
  <2>1. PICK t \in D : lock["logger"] = t \/ lock["shutdown"] = t
    BY <1>3
  <2>2. Wants(t) = {} /\ ~(pc[t] = "join" /\ hpc[t] = "none")
    BY <2>1, LockOrder DEF IInv, Sections, LogPC
  <2> QED
    BY <1>1, <2>2
<1>4. CASE /\ ~\E t \in D : lock["logger"] = t \/ lock["shutdown"] = t
           /\ \E t \in D : lock["peer_list"] = t
  <2>1. PICK t \in D : lock["peer_list"] = t
    BY <1>4
  <2>2. Wants(t) \subseteq {"logger"} /\ pc[t] # "join"
    BY <2>1, LockOrder DEF IInv, Sections, PeerPC
  <2> QED
    BY <1>1, <1>4, <2>2
<1>5. CASE \A t \in D, l \in Locks : lock[l] # t
  <2>1. \A t \in D, u \in D : WaitsFor(t, u) => t = Main /\ u \in Workers
    BY <1>1, <1>2, <1>5
  <2>2. CASE \E w \in Workers : w \in D
    <3>1. PICK w \in Workers : w \in D
      BY <2>2
    <3>2. w # Main
      BY ProcessAssumption
    <3>3. \A u \in D : ~WaitsFor(w, u)
      BY <2>1, <3>1, <3>2
    <3> QED
      BY <3>1, <3>3
  <2>3. CASE ~\E w \in Workers : w \in D
    <3>1. \A t \in D, u \in D : ~WaitsFor(t, u)
      BY <2>1, <2>3
    <3>2. D # {}
      OBVIOUS
    <3> QED
      BY <3>1, <3>2
  <2> QED
    BY <2>2, <2>3
<1> QED
  BY <1>3, <1>4, <1>5 DEF Locks

\* If signals find threads outside of their critical sections, no threads,
\* handlers included, wait for each other, however many there are: neither the
\* nested locks of the peer list nor the join at the end is a deadlock.
THEOREM DeadlockFree == ASSUME SafePoints PROVE Spec => []NoDeadlock
<1>1. Outside /\ IInv /\ [Next]_vars => Outside'
  BY OutsideStep
<1> QED
  BY <1>1, OutsideInit, Invariant, InvNoDeadlock, PTL DEF Spec
=============================================================================
