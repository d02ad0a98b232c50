------------------------------ MODULE Process ------------------------------
(***************************************************************************)
(* One p2pfsync process: main, the threads it starts, the three mutexes    *)
(* they share (shutdown.c, logger.c, peer_list.c), the SIGINT handler and  *)
(* the shutdown it begins.  What the threads do is reduced to the locks    *)
(* they take for it: a log line takes the logger's, a peer list operation  *)
(* that of the list and, inside it, the logger's for a line of its own.    *)
(*                                                                         *)
(* The handler runs on top of whatever thread the signal is delivered to:  *)
(* hpc is where it is in that thread, which does nothing else meanwhile.   *)
(* pthread_create and the mutex calls succeed.                             *)
(***************************************************************************)
EXTENDS Naturals

CONSTANTS Workers,     \* the threads that main creates
          Main,        \* the main thread
          Broadcast,   \* the worker that uses the peer list
          AnyPoint,    \* a signal may also interrupt a thread that has a lock
          MaxSignals   \* bound on the SIGINTs

ASSUME ProcessAssumption ==
  /\ Main \notin Workers /\ Broadcast \in Workers
  /\ AnyPoint \in BOOLEAN /\ MaxSignals \in Nat
  /\ (Workers \cup {Main}) \cap {"none", "free", "destroyed"} = {}

Threads == Workers \cup {Main}
Locks == {"shutdown", "logger", "peer_list"}

VARIABLES
  lock,       \* "none", "free", "destroyed" or the thread that has it
  shutdown,   \* shouldShutdown
  pc, hpc,    \* where a thread is in its code, and in the handler
  installed,  \* signal(SIGINT, sigint_handler) was called
  killed,     \* SIGINT came before that
  signals     \* how many SIGINTs were sent

sigVars == <<installed, killed, signals>>
vars == <<lock, shutdown, pc, hpc, sigVars>>

Init ==
  /\ lock = [l \in Locks |-> "none"] /\ shutdown = FALSE
  /\ pc = [t \in Threads |-> IF t = Main THEN "init" ELSE "none"]
  /\ hpc = [t \in Threads |-> "none"]
  /\ installed = FALSE /\ killed = FALSE /\ signals = 0

Acquire(t, l) == lock[l] = "free" /\ lock' = [lock EXCEPT ![l] = t]
Release(l) == lock' = [lock EXCEPT ![l] = "free"]

\* The thread itself moves on; its handler does not run.
Step(t, from, to) ==
  /\ ~killed /\ hpc[t] = "none" /\ pc[t] = from
  /\ pc' = [pc EXCEPT ![t] = to]
  /\ UNCHANGED <<shutdown, hpc, sigVars>>

-----------------------------------------------------------------------------
(* The threads.                                                            *)

\* get_shutdown, in the loop condition.
LockShutdown(t) == Step(t, "loop", "read") /\ Acquire(t, "shutdown")

\* Mutant: while(1), as long as there is work.
ReadShutdown_ignored(t) ==
  /\ Step(t, "read", IF t # Main THEN "work" ELSE IF shutdown THEN "join" ELSE "wait")
  /\ Release("shutdown")

\* Mutant: main leaves its loop the way the threads do.
ReadShutdown_return(t) ==
  /\ Step(t, "read", IF shutdown THEN "exit" ELSE IF t = Main THEN "wait" ELSE "work")
  /\ Release("shutdown")

ReadShutdown(t) ==
  /\ Step(t, "read",
          IF shutdown THEN IF t = Main THEN "join" ELSE "exit"
                      ELSE IF t = Main THEN "wait" ELSE "work")
  /\ Release("shutdown")

\* Mutant: the line is written without the lock.
LogBegin_unlocked(t) == Step(t, "work", "log") /\ UNCHANGED lock

\* LOGD in the body of the loop.
LogBegin(t) == Step(t, "work", "log") /\ Acquire(t, "logger")
LogEnd(t) == Step(t, "log", "work") /\ Release("logger")

\* is_peer_in_list and add_ip_to_peer; "peer not in list" is logged inside.
PeerBegin(t) == t = Broadcast /\ Step(t, "work", "peer") /\ Acquire(t, "peer_list")
PeerLogBegin(t) == Step(t, "peer", "peer_log") /\ Acquire(t, "logger")
PeerLogEnd(t) == Step(t, "peer_log", "peer_end") /\ Release("logger")
\* Mutant: the path of a new peer returns without the unlock.
PeerEnd_held(t) ==
  \/ Step(t, "peer", "work") /\ Release("peer_list")
  \/ Step(t, "peer_end", "work") /\ UNCHANGED lock

PeerEnd(t) == (Step(t, "peer", "work") \/ Step(t, "peer_end", "work"))
              /\ Release("peer_list")

\* sleep, select or recv; it ends by itself or by EINTR.
Block(t) == Step(t, "work", "wait") /\ UNCHANGED lock
Wake(t) == Step(t, "wait", "loop") /\ UNCHANGED lock

\* LOGD("ended") and return.
ExitBegin(t) == Step(t, "exit", "exit_log") /\ Acquire(t, "logger")
ExitEnd(t) == Step(t, "exit_log", "ended") /\ Release("logger")

-----------------------------------------------------------------------------
(* main.                                                                   *)

\* The locks are initialised, set_shutdown(0).
Initialize ==
  /\ Step(Main, "init", "create")
  /\ lock' = [l \in Locks |-> "free"]

\* pthread_create; the thread starts with its set-up and LOGD("started").
Create(w) ==
  /\ pc[w] = "none" /\ pc[Main] = "create" /\ ~killed
  /\ pc' = [pc EXCEPT ![w] = "work"]
  /\ UNCHANGED <<lock, shutdown, hpc, sigVars>>

InstallHandler ==
  /\ pc[Main] = "create" /\ ~killed /\ \A w \in Workers : pc[w] # "none"
  /\ pc' = [pc EXCEPT ![Main] = "loop"]
  /\ installed' = TRUE
  /\ UNCHANGED <<lock, shutdown, hpc, killed, signals>>

\* Mutant: one thread is not joined.
Join_four ==
  /\ \E v \in Workers : \A w \in Workers \ {v} : pc[w] = "ended"
  /\ Step(Main, "join", "joined") /\ UNCHANGED lock

\* pthread_join, of all threads.
Join ==
  /\ \A w \in Workers : pc[w] = "ended"
  /\ Step(Main, "join", "joined") /\ UNCHANGED lock

MainLogBegin == Step(Main, "joined", "main_log") /\ Acquire(Main, "logger")
MainLogEnd == Step(Main, "main_log", "free") /\ Release("logger")

\* free_peer_list.
FreeBegin == Step(Main, "free", "freeing") /\ Acquire(Main, "peer_list")
FreeEnd == Step(Main, "freeing", "destroy_shutdown") /\ Release("peer_list")

Destroy(from, l, to) ==
  Step(Main, from, to) /\ lock' = [lock EXCEPT ![l] = "destroyed"]

DestroyLocks ==
  \/ Destroy("destroy_shutdown", "shutdown", "destroy_peer_list")
  \/ Destroy("destroy_peer_list", "peer_list", "destroy_logger")
  \/ Destroy("destroy_logger", "logger", "ended")

-----------------------------------------------------------------------------
(* SIGINT.                                                                 *)

HandlerStep(t, from, to) ==
  /\ hpc[t] = from /\ hpc' = [hpc EXCEPT ![t] = to]
  /\ UNCHANGED <<pc, sigVars>>

HasLock(t) == \E l \in Locks : lock[l] = t

\* The kernel delivers the signal to a thread, which does not block it.
Sigint(t) ==
  /\ installed /\ signals < MaxSignals
  /\ pc[t] \notin {"none", "ended"} /\ hpc[t] = "none"
  /\ AnyPoint \/ ~HasLock(t)
  /\ signals' = signals + 1
  /\ hpc' = [hpc EXCEPT ![t] = "log"]
  /\ UNCHANGED <<lock, shutdown, pc, installed, killed>>

\* Without a handler SIGINT ends the process.
SigintEarly ==
  /\ ~installed /\ ~killed /\ signals < MaxSignals
  /\ signals' = signals + 1 /\ killed' = TRUE
  /\ UNCHANGED <<lock, shutdown, pc, hpc, installed>>

\* LOGD("received SIGINT, shutting down...").
HandlerLogBegin(t) ==
  HandlerStep(t, "log", "logging") /\ Acquire(t, "logger") /\ UNCHANGED shutdown
HandlerLogEnd(t) ==
  HandlerStep(t, "logging", "set") /\ Release("logger") /\ UNCHANGED shutdown

\* set_shutdown(1).
HandlerSetBegin(t) ==
  HandlerStep(t, "set", "setting") /\ Acquire(t, "shutdown") /\ UNCHANGED shutdown
HandlerSetEnd(t) ==
  HandlerStep(t, "setting", "none") /\ Release("shutdown") /\ shutdown' = TRUE

Handler(t) == \/ HandlerLogBegin(t) \/ HandlerLogEnd(t)
              \/ HandlerSetBegin(t) \/ HandlerSetEnd(t)

LoopStep(t) == LockShutdown(t) \/ ReadShutdown(t) \/ Wake(t)

WorkerStep(t) ==
  \/ LogBegin(t) \/ LogEnd(t) \/ PeerBegin(t) \/ PeerLogBegin(t) \/ PeerLogEnd(t)
  \/ PeerEnd(t) \/ Block(t) \/ ExitBegin(t) \/ ExitEnd(t)

MainStep == \/ Initialize \/ (\E w \in Workers : Create(w)) \/ InstallHandler
            \/ Join \/ MainLogBegin \/ MainLogEnd \/ FreeBegin \/ FreeEnd
            \/ DestroyLocks

\* The process is over.
Finished == killed \/ (\A t \in Threads : pc[t] = "ended" /\ hpc[t] = "none")

Next ==
  \/ MainStep
  \/ \E t \in Threads : LoopStep(t) \/ Handler(t) \/ Sigint(t)
  \/ \E w \in Workers : WorkerStep(w)
  \/ SigintEarly
  \/ Finished /\ UNCHANGED vars

Spec == Init /\ [][Next]_vars

\* Every thread is scheduled and gets a mutex that is free again and again;
\* the work of one iteration ends, and so does every wait (sleep and select
\* have timeouts; a receive does as long as the peer goes on).
FairSpec ==
  /\ Spec
  /\ WF_vars(MainStep) /\ SF_vars(MainLogBegin)
  /\ \A t \in Threads : SF_vars(LoopStep(t)) /\ SF_vars(Handler(t))
  /\ \A w \in Workers : SF_vars(WorkerStep(w)) /\ SF_vars(Block(w))

-----------------------------------------------------------------------------
(* Properties.                                                             *)

WorkerPC == {"none", "work", "log", "peer", "peer_log", "peer_end", "wait", "loop",
             "read", "exit", "exit_log", "ended"}
MainPC == {"init", "create", "loop", "read", "wait", "join", "joined", "main_log",
           "free", "freeing", "destroy_shutdown", "destroy_peer_list",
           "destroy_logger", "ended"}

TypeOK ==
  /\ lock \in [Locks -> {"none", "free", "destroyed"} \cup Threads]
  /\ shutdown \in BOOLEAN /\ installed \in BOOLEAN /\ killed \in BOOLEAN
  /\ signals \in 0 .. MaxSignals
  /\ hpc \in [Threads -> {"none", "log", "logging", "set", "setting"}]
  /\ pc \in [Threads -> WorkerPC \cup MainPC]
  /\ pc[Main] \in MainPC /\ \A w \in Workers : pc[w] \in WorkerPC

\* What a thread, or the handler on top of it, has between lock and unlock.
Inside(t, l) ==
  \/ l = "shutdown" /\ (pc[t] = "read" \/ hpc[t] = "setting")
  \/ l = "logger" /\ (\/ pc[t] \in {"log", "peer_log", "exit_log", "main_log"}
                      \/ hpc[t] = "logging")
  \/ l = "peer_list" /\ pc[t] \in {"peer", "peer_log", "peer_end", "freeing"}

\* The critical sections of the three mutexes exclude each other, those of
\* the signal handler included: the flag, the log file and the peer list are
\* touched by one thread at a time.
Exclusive == \A t \in Threads, l \in Locks : Inside(t, l) <=> lock[l] = t

\* No thread or handler is about to lock a mutex that was destroyed.  This
\* is so for one SIGINT; the handler of a second one, that comes while main
\* cleans up, may find the locks gone.
LocksAlive ==
  /\ (\E l \in Locks : lock[l] = "destroyed") => \A w \in Workers : pc[w] = "ended"
  /\ \A t \in Threads :
       /\ hpc[t] = "log" => lock["logger"] # "destroyed"
       /\ hpc[t] \in {"log", "set"} => lock["shutdown"] # "destroyed"

\* The locks that the next step of a thread, or of the handler on top of it,
\* may ask for.
Wants(t) ==
  CASE hpc[t] = "log" -> {"logger"}
    [] hpc[t] = "set" -> {"shutdown"}
    [] hpc[t] \in {"logging", "setting"} -> {}
    [] hpc[t] = "none" ->
         CASE pc[t] = "loop" -> {"shutdown"}
           [] pc[t] = "work" -> {"logger", "peer_list"}
           [] pc[t] \in {"peer", "exit", "joined"} -> {"logger"}
           [] pc[t] = "free" -> {"peer_list"}
           [] OTHER -> {}

\* Thread t cannot go on before u does: u has a lock that t asks for, or t is
\* main and joins u.
WaitsFor(t, u) ==
  \/ \E l \in Wants(t) : lock[l] = u
  \/ /\ t = Main /\ pc[t] = "join" /\ hpc[t] = "none"
     /\ u \in Workers /\ pc[u] # "ended"

\* No threads wait for each other, or one for itself: of all that wait, be it
\* for a lock or for the end of a thread, one waits for none of the others.
NoDeadlock == \A D \in (SUBSET Threads) \ {{}} :
  \E t \in D : \A u \in D : ~WaitsFor(t, u)

\* shutdown.h:3: the module is there "to properly shutdown all threads of this
\* application": after SIGINT the process ends.
ShutdownCompletes == signals > 0 ~> Finished
=============================================================================
