----------------------------- MODULE WaitNotify -----------------------------
(***************************************************************************)
(* Object.wait, notify, notifyAll and interrupt on one monitor that two    *)
(* endpoints share: waitMonitor, notifyMonitor and notifyAllMonitor of     *)
(* vm/Sync.cpp with the offObjectNotify and offPerformNotify family of     *)
(* offload/Sync.cpp.                                                       *)
(*                                                                         *)
(* An endpoint knows its own waiters by the monitor's waitSet.  Of the     *)
(* other endpoint's waiters the owner of the lock knows a number only,     *)
(* remoteWaitCount, which came with the ownership; it sends at most so     *)
(* many OFF_ACTION_NOTIFY, each on the channel of the thread that calls    *)
(* notify, and the other endpoint handles them whenever they arrive.       *)
(*                                                                         *)
(* Abstracted: who gets the mutex and the ownership when (LockOwnership    *)
(* has the protocol: here a grant or a move is one step, for nobody reads  *)
(* or writes what it carries while it is under way), recursive entry, and  *)
(* the loss of the connection.  The monitor is fat at both endpoints, as   *)
(* it is from the first wait on.                                           *)
(***************************************************************************)

EXTENDS Naturals, FiniteSets, Sequences, Functions

CONSTANTS Threads, None, MaxSent

ASSUME WaitAssumption ==
  /\ None \notin Threads /\ IsFiniteSet(Threads)
  /\ MaxSent \in Nat \ {0}

VARIABLES
  at,       \* the endpoint where the thread executes (offLocal)
  pc,       \* where it is, see Pc
  woken,    \* its waitCond has been signalled and it has not run since
  intr,     \* thread->interrupted, where the thread is local
  waitSet,  \* mon->waitSet of each endpoint
  remote,   \* info->remoteWaitCount where the ownership is; the other endpoint's
            \* is set before it is read again
  owner,    \* the endpoint with the lock ownership
  last,     \* mon->lastOwner of each endpoint
  sent,     \* the thread's messages to the other endpoint, under way
  wasted,   \* a message that should have woken a waiter has not (history)
  race      \* a thread is in the monitor without the ownership; the end

vars == <<at, pc, woken, intr, waitSet, remote, owner, last, sent, wasted,
          race>>

End == {"phone", "server"}

\* The other endpoint.
Peer(e) == IF e = "phone" THEN "server" ELSE "phone"

(***************************************************************************)
(* run    outside the monitor           hold   inside it                   *)
(* enter  in waitMonitor: in the waitSet and no longer mon->owner, with    *)
(*        the mutex still locked and waitMonitor not set yet               *)
(* wait   in pthread_cond_wait, waitMonitor set                            *)
(* back   awake again, waitMonitor cleared, wants the monitor back         *)
(***************************************************************************)
Pc == {"run", "hold", "enter", "wait", "back"}

\* The object has no waiters when it becomes known to both endpoints.
Init ==
  /\ at = [t \in Threads |-> "phone"]
  /\ pc = [t \in Threads |-> "run"]
  /\ woken = [t \in Threads |-> FALSE]
  /\ intr = [t \in Threads |-> FALSE]
  /\ waitSet = [e \in End |-> <<>>]
  /\ remote = 0
  /\ owner \in End
  /\ last = [e \in End |-> None]
  /\ sent = [t \in Threads |-> <<>>]
  /\ wasted = FALSE
  /\ race = FALSE

Go(t, next) == pc' = [pc EXCEPT ![t] = next]

\* The monitor's mutex is free.
Free(e) == \A t \in Threads : at[t] = e => pc[t] \notin {"hold", "enter"}

\* thread->waitMonitor is this monitor: the thread can be signalled.
Waiting(t, e) == at[t] = e /\ pc[t] = "wait"

\* A waiter nobody has woken yet, whether or not it can be signalled already.
Asleep(e) == {t \in Threads : at[t] = e /\ pc[t] \in {"enter", "wait"} /\ ~woken[t]}

-----------------------------------------------------------------------------
(* Entering, leaving and waiting, vm/Sync.cpp. *)

\* monitor-enter with the ownership and the mutex.
LockObject(t) ==
  /\ pc[t] = "run" /\ owner = at[t] /\ Free(at[t])
  /\ Go(t, "hold")
  /\ UNCHANGED <<at, woken, intr, waitSet, remote, owner, last, sent, wasted,
                 race>>

\* unlockMonitor.
UnlockObject(t) ==
  /\ pc[t] = "hold"
  /\ last' = [last EXCEPT ![at[t]] = t]
  /\ Go(t, "run")
  /\ UNCHANGED <<at, woken, intr, waitSet, remote, owner, sent, wasted, race>>

\* waitMonitor up to dvmChangeStatus: waitSetAppend, mon->owner cleared.  From
\* here the VM may be suspended by others while the thread goes on.
WaitEnter(t) ==
  /\ pc[t] = "hold"
  /\ waitSet' = [waitSet EXCEPT ![at[t]] = Append(@, t)]
  /\ Go(t, "enter")
  /\ UNCHANGED <<at, woken, intr, remote, owner, last, sent, wasted, race>>

\* waitSetRemove: unlink the thread, if it is in the list.
Without(s, t) ==
  IF t \notin Range(s) THEN s
  ELSE LET k == CHOOSE i \in DOMAIN s : s[i] = t
       IN [i \in 1 .. Len(s) - 1 |-> IF i < k THEN s[i] ELSE s[i + 1]]

\* Mutant: the interrupted flag is not looked at before the sleep.
SleepAnyway(t) ==
  /\ pc[t] = "enter"
  /\ Go(t, "wait")
  /\ UNCHANGED <<at, woken, intr, waitSet, remote, owner, last, sent, wasted,
                 race>>

\* Under waitMutex: waitMonitor is set, and an interrupted thread bails out,
\* back to being mon->owner with no look at the ownership; another one unlocks
\* the monitor and sleeps.
WaitSleep(t) ==
  /\ pc[t] = "enter"
  /\ \/ /\ intr[t]
        /\ intr' = [intr EXCEPT ![t] = FALSE]
        /\ waitSet' = [waitSet EXCEPT ![at[t]] = Without(@, t)]
        /\ race' = (owner # at[t])
        /\ Go(t, "hold")
     \/ /\ ~intr[t]
        /\ Go(t, "wait")
        /\ UNCHANGED <<intr, waitSet, race>>
  /\ UNCHANGED <<at, woken, remote, owner, last, sent, wasted>>

\* pthread_cond_wait returns: the thread was signalled, its time is up, or for no
\* reason.  interrupted and waitMonitor are cleared; it stays in the waitSet.
Wake(t) ==
  /\ pc[t] = "wait"
  /\ Go(t, "back")
  /\ woken' = [woken EXCEPT ![t] = FALSE]
  /\ intr' = [intr EXCEPT ![t] = FALSE]
  /\ UNCHANGED <<at, waitSet, remote, owner, last, sent, wasted, race>>

\* Mutant: the thread leaves itself in the waitSet.
RelockQueued(t) ==
  /\ pc[t] = "back" /\ owner = at[t] /\ Free(at[t])
  /\ Go(t, "hold")
  /\ UNCHANGED <<at, woken, intr, waitSet, remote, owner, last, sent, wasted,
                 race>>

\* The end of waitMonitor: lockMonitor, then waitSetRemove.
Relock(t) ==
  /\ pc[t] = "back" /\ owner = at[t] /\ Free(at[t])
  /\ waitSet' = [waitSet EXCEPT ![at[t]] = Without(@, t)]
  /\ Go(t, "hold")
  /\ UNCHANGED <<at, woken, intr, remote, owner, last, sent, wasted, race>>

-----------------------------------------------------------------------------
(* Notification. *)

\* notifyMonitor's loop: how many threads of the waitSet are taken off it, up
\* to and with the first that is still waiting.
PopCount(e) ==
  LET s == waitSet[e]
      live == {i \in DOMAIN s : pc[s[i]] = "wait"}
  IN IF live = {} THEN Len(s) ELSE CHOOSE i \in live : \A j \in live : i <= j

\* notifyMonitor returned true.
FoundLocal(e) == \E t \in Range(waitSet[e]) : pc[t] = "wait"

\* Bound: MaxSent messages under way at a time.
MaySend ==
  Cardinality({x \in Threads \X (1 .. MaxSent) : x[2] <= Len(sent[x[1]])}) < MaxSent

\* The message on the channel of the thread.
Send(t, m) == sent' = [sent EXCEPT ![t] = Append(@, m)]

\* dvmObjectNotify: the first local waiter is signalled; if there is none and
\* the count says the other endpoint has some, offObjectNotify tells it.
Notify(t) ==
  LET e == at[t]
      s == waitSet[e]
      n == PopCount(e)
  IN /\ pc[t] = "hold" /\ MaySend
     /\ waitSet' = [waitSet EXCEPT ![e] = SubSeq(s, n + 1, Len(s))]
     /\ \/ /\ FoundLocal(e)
           /\ woken' = [woken EXCEPT ![s[n]] = TRUE]
           /\ UNCHANGED <<remote, sent>>
        \/ /\ ~FoundLocal(e) /\ remote > 0
           /\ remote' = remote - 1
           /\ Send(t, "notify")
           /\ UNCHANGED woken
        \/ /\ ~FoundLocal(e) /\ remote = 0
           /\ UNCHANGED <<woken, remote, sent>>
     /\ UNCHANGED <<at, pc, intr, owner, last, wasted, race>>

\* Mutant: like notify, notifyAll is done if there was somebody to wake here.
NotifyAllLocal(t) ==
  LET e == at[t]
      all == {u \in Range(waitSet[e]) : pc[u] = "wait"}
  IN /\ pc[t] = "hold" /\ MaySend
     /\ waitSet' = [waitSet EXCEPT ![e] = <<>>]
     /\ woken' = [u \in Threads |-> woken[u] \/ u \in all]
     /\ remote' = 0
     /\ IF all = {} /\ remote > 0 THEN Send(t, "all") ELSE UNCHANGED sent
     /\ UNCHANGED <<at, pc, intr, owner, last, wasted, race>>

\* dvmObjectNotifyAll: all local waiters, then offObjectNotifyAll (which is
\* called twice and finds the count 0 the second time).
NotifyAll(t) ==
  LET e == at[t]
      all == {u \in Range(waitSet[e]) : pc[u] = "wait"}
  IN /\ pc[t] = "hold" /\ MaySend
     /\ waitSet' = [waitSet EXCEPT ![e] = <<>>]
     /\ woken' = [u \in Threads |-> woken[u] \/ u \in all]
     /\ remote' = 0
     /\ IF remote > 0 THEN Send(t, "all") ELSE UNCHANGED sent
     /\ UNCHANGED <<at, pc, intr, owner, last, wasted, race>>

\* The daemon of thread t at endpoint p takes the thread's next message.
Receive(t, m) ==
  /\ sent[t] # <<>> /\ Head(sent[t]) = m
  /\ sent' = [sent EXCEPT ![t] = Tail(@)]
  /\ UNCHANGED <<at, pc, intr, waitSet, remote, owner, last, race>>

\* The message left somebody asleep whom it was to wake.
Spent(p, signalled) ==
  wasted' = (wasted \/ (p # owner /\ Asleep(p) # {}
                        /\ signalled \cap Asleep(p) = {}))

\* offPerformNotify: the first thread of the threadList found waiting on the
\* monitor is signalled, without the monitor's lock and whether or not it has
\* been signalled before; the waitSet is left alone.  The order of the
\* threadList is the order in which threads were attached: any.
PerformNotify(t) ==
  LET p == Peer(at[t])
      all == {u \in Threads : Waiting(u, p)}
  IN /\ Receive(t, "notify")
     /\ \/ /\ all = {}
           /\ UNCHANGED woken
           /\ Spent(p, {})
        \/ \E u \in all :
             /\ woken' = [woken EXCEPT ![u] = TRUE]
             /\ Spent(p, {u})

\* offPerformNotifyAll: every thread found waiting on the monitor.
PerformAll(t) ==
  LET p == Peer(at[t])
      all == {u \in Threads : Waiting(u, p)}
  IN /\ Receive(t, "all")
     /\ woken' = [u \in Threads |-> woken[u] \/ u \in all]
     /\ wasted' = (wasted \/ (p # owner /\ ~(Asleep(p) \subseteq all)))

\* dvmThreadInterruptLocal, called where the thread is local.
Interrupt(t) ==
  /\ ~intr[t]
  /\ intr' = [intr EXCEPT ![t] = TRUE]
  /\ woken' = [woken EXCEPT ![t] = @ \/ pc[t] = "wait"]
  /\ UNCHANGED <<at, pc, waitSet, remote, owner, last, sent, wasted, race>>

-----------------------------------------------------------------------------
(* The ownership moves, and with it the number of waiters left behind. *)

\* offGetLocalWaiters where the ownership leaves, setRemoteWaiters where it
\* arrives.
Take(e) ==
  /\ owner' = e
  /\ remote' = Len(waitSet[Peer(e)])
  /\ wasted' = FALSE

\* offPerformLock for a thread that wants the monitor: its daemon has the mutex.
\* The request follows the thread's earlier messages.
Grant(t) ==
  /\ pc[t] \in {"run", "back"} /\ sent[t] = <<>>
  /\ owner = Peer(at[t]) /\ Free(owner)
  /\ Take(at[t])
  /\ UNCHANGED <<at, pc, woken, intr, waitSet, last, sent, race>>

\* doDeactivate's test on an object of the offLockList: mon->owner is nobody and
\* the thread was the last to unlock it.  The mutex is not looked at.
MayGive(t) ==
  LET e == at[t]
  IN /\ owner = e /\ last[e] = t
     /\ \A u \in Threads : at[u] = e => pc[u] # "hold"

\* deactivate and activate: a thread inside the monitor takes the ownership
\* along (and needs the mutex where it arrives), one outside may.
Migrate(t) ==
  LET p == Peer(at[t])
  IN /\ pc[t] \in {"run", "hold"} /\ sent[t] = <<>>
     /\ at' = [at EXCEPT ![t] = p]
     /\ \/ /\ pc[t] = "hold" /\ Free(p)
           /\ Take(p)
        \/ /\ pc[t] = "run" /\ MayGive(t)
           /\ Take(p)
        \/ /\ pc[t] = "run"
           /\ UNCHANGED <<owner, remote, wasted>>
     /\ UNCHANGED <<pc, woken, intr, waitSet, last, sent, race>>

-----------------------------------------------------------------------------
Step(t) ==
  \/ LockObject(t) \/ UnlockObject(t)
  \/ WaitEnter(t) \/ WaitSleep(t) \/ Wake(t) \/ Relock(t)
  \/ Notify(t) \/ NotifyAll(t) \/ PerformNotify(t) \/ PerformAll(t)
  \/ Interrupt(t) \/ Grant(t) \/ Migrate(t)

Next == ~race /\ \E t \in Threads : Step(t)

Spec == Init /\ [][Next]_vars
-----------------------------------------------------------------------------
(* The properties. *)

\* Types; a message is a NOTIFY or a BROADCAST.
TypeOK ==
  /\ at \in [Threads -> End]
  /\ pc \in [Threads -> Pc]
  /\ woken \in [Threads -> BOOLEAN]
  /\ intr \in [Threads -> BOOLEAN]
  /\ waitSet \in [End -> Seq(Threads)]
  /\ remote \in Nat
  /\ owner \in End
  /\ last \in [End -> Threads \cup {None}]
  /\ sent \in [Threads -> Seq({"notify", "all"})]
  /\ wasted \in BOOLEAN
  /\ race \in BOOLEAN

\* Whoever sleeps without having been woken is in the waitSet of the endpoint it
\* waits at, once; nobody is in a waitSet who is not waiting there or on the way
\* back (waitSetAppend asserts waitNext == NULL, waitSetRemove and the two
\* notify loops take threads off).
WaitSetExact ==
  \A e \in End :
    /\ Asleep(e) \subseteq Range(waitSet[e])
    /\ \A t \in Range(waitSet[e]) : at[t] = e /\ pc[t] \in {"enter", "wait", "back"}
    /\ \A i, j \in DOMAIN waitSet[e] : waitSet[e][i] = waitSet[e][j] => i = j

\* An interrupted thread does not sleep on: waitMutex closes the gap between the
\* look at the flag and pthread_cond_wait (waitMonitor, dvmThreadInterruptLocal).
InterruptWakes == \A t \in Threads : intr[t] /\ pc[t] = "wait" => woken[t]

\* The messages of one kind on their way to endpoint p.
UnderWay(p, m) ==
  {x \in Threads \X (1 .. MaxSent) :
     at[x[1]] # p /\ x[2] <= Len(sent[x[1]]) /\ sent[x[1]][x[2]] = m}

\* Until a message has been spent on a thread that was awake already, nobody who
\* waits at the endpoint without the lock can be forgotten: a BROADCAST is coming,
\* or the owner's remoteWaitCount and the NOTIFYs under way are enough for all of
\* them (offObjectNotify, offObjectNotifyAll, offGetLocalWaiters).
WaitersCounted ==
  LET p == Peer(owner)
  IN wasted \/ UnderWay(p, "all") # {}
     \/ remote + Cardinality(UnderWay(p, "notify")) >= Cardinality(Asleep(p))

\* At most one thread is inside the monitor, and it is where the ownership is,
\* until a thread that bailed out of waitMonitor enters without it.
OneInside ==
  ~race => /\ \A t, u \in Threads : pc[t] = "hold" /\ pc[u] = "hold" => t = u
           /\ \A t \in Threads : pc[t] = "hold" => owner = at[t]

-----------------------------------------------------------------------------
(* What the comments of the code say, and the code does not do. *)

\* offload/Sync.cpp, offPerformNotify: signalling without the monitor's lock and
\* past the waitSet does no harm.
NothingWasted == ~wasted

\* offload/Sync.h: a monitor held by a local thread is owned here.
BailsOutOwned == ~race
=============================================================================
