-------------------------------- MODULE Recovery --------------------------------
(***************************************************************************)
(* Losing and replacing the offload server, as seen by the phone's VM:     *)
(* vm/offload/Recovery.cpp with its callers, and the part of               *)
(* vm/offload/Control.cpp that connects, notices the loss and connects     *)
(* again.  A thread that acts for, or waits on, the server is inside a     *)
(* hazard; when the connection is gone and the last hazard is cleared, the *)
(* thread that cleared it resets the offload state with every other thread *)
(* suspended.                                                              *)
(*                                                                         *)
(* Abstraction.  The offload state (object tables, revisions, write queue, *)
(* buffers) is the set of connections it may hold data of.  What a thread  *)
(* does inside a hazard is reduced to nested hazards, to moving its        *)
(* execution between the endpoints and to touching that state.  Some code  *)
(* touches it outside any hazard, after a look at the connection or at     *)
(* what it left behind; a suspension of all threads, and so a clean-up,    *)
(* fits between the look and the touch.  The critical sections of          *)
(* offRecoveryLock are single steps, except where offConnected, which the  *)
(* control thread writes without the lock, is read twice, and the          *)
(* clean-up.                                                               *)
(***************************************************************************)
EXTENDS Integers, FiniteSets

CONSTANTS Threads,   \* threads started on the phone
          Ghosts,    \* threads the server started, attached here
          NoThread,
          MaxDepth,  \* bound: hazards one thread may nest
          MaxConn    \* bound: connections

ASSUME ThreadAssumption == /\ IsFiniteSet(Threads) /\ IsFiniteSet(Ghosts)
                           /\ Threads \cap Ghosts = {}
                           /\ NoThread \notin Threads \cup Ghosts
ASSUME BoundAssumption == MaxDepth \in Nat \ {0} /\ MaxConn \in Nat

VARIABLES
  connected,  \* offConnected
  recovered,  \* offRecovered
  hazards,    \* offRecoveryHazards
  lock,       \* offRecoveryLock: who holds it between steps
  ctl,        \* where the control thread is
  session,    \* number of the current or last connection
  pc,         \* where each thread is
  depth,      \* hazards each thread is inside of
  since,      \* connection for which a thread entered its outermost hazard,
              \* or for which it is about to act outside any
  local,      \* offLocal
  table,      \* offThreadTable
  residue,    \* connections the offload state may hold data of
  raced,      \* history: a clean-up ended after the next connection was up
  late        \* history: since the last clean-up the offload state was touched,
              \* outside any hazard, for a connection already cleaned up after

flags == <<connected, recovered, ctl, session>>
mine == <<since, local, table, residue>>
vars == <<connected, recovered, hazards, lock, ctl, session, pc, depth, since,
          local, table, residue, raced, late>>
history == <<raced, late>>

All == Threads \cup Ghosts

Init ==
  /\ connected = FALSE
  /\ recovered = FALSE
  /\ hazards = 0
  /\ lock = NoThread
  /\ ctl = "idle"
  /\ session = 0
  /\ pc = [t \in All |-> IF t \in Threads THEN "run" ELSE "none"]
  /\ depth = [t \in All |-> 0]
  /\ since = [t \in All |-> 0]
  /\ local = [t \in All |-> TRUE]
  /\ table = Threads
  /\ residue = {}
  /\ raced = FALSE
  /\ late = FALSE

Goto(t, where) == pc' = [pc EXCEPT ![t] = where]

(* Every other thread stands still while the state is reset. *)
Stopped == \E t \in All : pc[t] = "cleaning"

(* ++offRecoveryHazards. *)
Count(t) ==
  /\ hazards' = hazards + 1
  /\ depth' = [depth EXCEPT ![t] = @ + 1]
  /\ since' = [since EXCEPT ![t] = IF depth[t] = 0 THEN session ELSE @]

(* The thread is out of a hazard. *)
Uncount(t) ==
  /\ depth' = [depth EXCEPT ![t] = @ - 1]
  /\ since' = [since EXCEPT ![t] = IF depth[t] = 1 THEN 0 ELSE @]

--------------------------------------------------------------------------------
(* The control thread.                                                     *)

(* message_loop, after the magic byte came back: offConnected is set... *)
Connect ==
  /\ ctl = "idle"
  /\ session < MaxConn
  /\ connected' = TRUE
  /\ session' = session + 1
  /\ ctl' = "greet"
  /\ UNCHANGED <<recovered, hazards, lock, pc, depth, mine, history>>

(* ...and then offRecovered is cleared, neither under the lock. *)
ConnectDone ==
  /\ ctl = "greet"
  /\ recovered' = FALSE
  /\ ctl' = "up"
  /\ UNCHANGED <<connected, session, hazards, lock, pc, depth, mine, history>>

(* The connection is lost: waiting threads are signalled and the control   *)
(* thread waits for clearance.                                             *)
Lose ==
  /\ ctl = "up"
  /\ connected' = FALSE
  /\ ctl' = "wfc"
  /\ UNCHANGED <<recovered, session, hazards, lock, pc, depth, mine, history>>

ControlNoWait ==
  /\ ctl = "wfc" /\ lock = NoThread
  /\ ctl' = "idle"
  /\ UNCHANGED <<connected, recovered, session, hazards, lock, pc, depth, mine, history>>

(* offRecoveryWaitForClearance(NULL): connect again only when recovered. *)
ControlClearance ==
  /\ ctl = "wfc" /\ lock = NoThread
  /\ ctl' = IF recovered THEN "idle" ELSE "cond"
  /\ UNCHANGED <<connected, recovered, session, hazards, lock, pc, depth, mine, history>>

--------------------------------------------------------------------------------
(* Entering a hazard.                                                      *)

(* A running thread calls offRecoveryCheckEnterHazard or                   *)
(* offRecoveryEnterHazard.  It stays THREAD_RUNNING while it blocks on the *)
(* lock.  Directly inside a hazard only the first is called (by            *)
(* offThreadWaitForResume); the Java code that thread_daemon then runs (a  *)
(* class initialiser the server asked for, frames of a migrated thread)    *)
(* calls both again.                                                       *)
CallEnter(t) ==
  /\ ~Stopped
  /\ t \in Threads
  /\ pc[t] = "run"
  /\ depth[t] < MaxDepth
  /\ \E call \in IF depth[t] = 1 THEN {"check"} ELSE {"check", "enter"} : Goto(t, call)
  /\ UNCHANGED <<flags, hazards, lock, depth, mine, history>>

(* Both functions when connected. *)
EnterConnected(t) ==
  /\ pc[t] \in {"check", "enter"} /\ lock = NoThread
  /\ connected
  /\ Count(t)
  /\ Goto(t, "run")
  /\ UNCHANGED <<flags, lock, local, table, residue, history>>

(* When not, the first returns false and the second waits for clearance. *)
EnterRefused(t) ==
  /\ pc[t] \in {"check", "enter"} /\ lock = NoThread
  /\ ~connected
  /\ Goto(t, IF pc[t] = "check" THEN "run" ELSE "wfc")
  /\ UNCHANGED <<flags, hazards, lock, depth, mine, history>>

(* offRecoveryWaitForClearance(self): wait for those inside a hazard...    *)
Clearance(t) ==
  /\ pc[t] = "wfc" /\ lock = NoThread
  /\ lock' = t
  /\ Goto(t, IF ~connected /\ hazards # 0 THEN "test" ELSE "trigger")
  /\ UNCHANGED <<flags, hazards, depth, mine, history>>

(* ...which is the loop around pthread_cond_wait, entered with the lock or *)
(* left by the broadcast ("woken")...                                      *)
ClearanceTest(t) ==
  /\ \/ pc[t] = "test"
     \/ pc[t] = "woken" /\ lock = NoThread
  /\ lock' = NoThread
  /\ Goto(t, IF ~connected /\ ~recovered THEN "cond" ELSE "run")
  /\ UNCHANGED <<flags, hazards, depth, mine, history>>

(* ...or, with nobody inside one, start the clean-up by clearing a hazard  *)
(* of its own.                                                             *)
Trigger(t) ==
  /\ pc[t] = "trigger"
  /\ lock' = NoThread
  /\ IF recovered
       THEN Goto(t, "run") /\ UNCHANGED <<hazards, depth, since>>
       ELSE Goto(t, "clear") /\ Count(t)
  /\ UNCHANGED <<flags, local, table, residue, history>>

--------------------------------------------------------------------------------
(* Inside a hazard.                                                        *)

(* The thread touches offload state on behalf of the connection it entered *)
(* the hazard with.                                                        *)
Work(t) ==
  /\ ~Stopped
  /\ pc[t] = "run" /\ depth[t] > 0
  /\ residue' = residue \cup {since[t]}
  /\ UNCHANGED <<flags, hazards, lock, pc, depth, since, local, table, history>>

(* offMigrateThread deactivates the thread, connected or not; a migration  *)
(* back activates it.                                                      *)
Migrate(t) ==
  /\ ~Stopped
  /\ t \in Threads
  /\ pc[t] = "run" /\ depth[t] > 0
  /\ local[t] \/ connected
  /\ local' = [local EXCEPT ![t] = ~@]
  /\ UNCHANGED <<flags, hazards, lock, pc, depth, since, table, residue, history>>

CallClearRemote(t) ==
  /\ ~Stopped
  /\ t \in Threads
  /\ pc[t] = "run" /\ depth[t] > 0
  /\ Goto(t, "clear")
  /\ UNCHANGED <<flags, hazards, lock, depth, mine, history>>

(* Leaving a hazard.  A thread that is still remote when its outermost     *)
(* hazard ends (the server is gone) moves back to running locally first.   *)
CallClear(t) ==
  /\ ~Stopped
  /\ t \in Threads
  /\ pc[t] = "run" /\ depth[t] > 0
  /\ local' = [local EXCEPT ![t] = IF depth[t] = 1 THEN TRUE ELSE @]
  /\ Goto(t, "clear")
  /\ UNCHANGED <<flags, hazards, lock, depth, since, table, residue, history>>

ClearEarly(t) ==
  /\ pc[t] = "clear" /\ lock = NoThread
  /\ hazards' = hazards - 1
  /\ Uncount(t)
  /\ IF ~connected /\ hazards <= 2
       THEN lock' = t /\ Goto(t, "suspend")
       ELSE lock' = lock /\ Goto(t, "run")
  /\ UNCHANGED <<flags, local, table, residue, history>>

ClearUncounted(t) ==
  /\ pc[t] = "clear" /\ lock = NoThread
  /\ hazards' = IF connected THEN hazards ELSE hazards - 1
  /\ Uncount(t)
  /\ IF ~connected /\ hazards' = 0
       THEN lock' = t /\ Goto(t, "suspend")
       ELSE lock' = lock /\ Goto(t, "run")
  /\ UNCHANGED <<flags, local, table, residue, history>>

(* offRecoveryClearHazard: the last one out of a lost connection goes on   *)
(* to the clean-up, keeping the lock.                                      *)
Clear(t) ==
  /\ pc[t] = "clear" /\ lock = NoThread
  /\ hazards' = hazards - 1
  /\ Uncount(t)
  /\ IF ~connected /\ hazards' = 0
       THEN lock' = t /\ Goto(t, "suspend")
       ELSE lock' = lock /\ Goto(t, "run")
  /\ UNCHANGED <<flags, local, table, residue, history>>

(* dvmSuspendAllThreads returns when no other thread is THREAD_RUNNING.    *)
(* One that runs code reaches a safe point, one in THREAD_VMWAIT counts as *)
(* suspended; one blocked on the lock does neither.                        *)
Suspend(t) ==
  /\ pc[t] = "suspend"
  /\ \A u \in All \ {t} : pc[u] \notin {"check", "enter", "wfc", "clear"}
  /\ Goto(t, "cleaning")
  /\ UNCHANGED <<flags, hazards, lock, depth, mine, history>>

CleanupSilent(t) ==
  /\ pc[t] = "cleaning"
  /\ hazards' = 0
  /\ residue' = {}
  /\ recovered' = TRUE
  /\ lock' = NoThread
  /\ Goto(t, "run")
  /\ ctl' = IF ctl = "cond" THEN "wfc" ELSE ctl
  /\ raced' = (raced \/ ctl = "up")
  /\ late' = FALSE
  /\ UNCHANGED <<connected, session, depth, since, local, table>>

(* cleanupOffloadState, and the broadcast after it. *)
Cleanup(t) ==
  /\ pc[t] = "cleaning"
  /\ hazards' = 0
  /\ residue' = {}
  /\ recovered' = TRUE
  /\ lock' = NoThread
  /\ pc' = [u \in All |-> IF u = t THEN "run"
                          ELSE IF pc[u] = "cond" THEN "woken" ELSE pc[u]]
  /\ ctl' = IF ctl = "cond" THEN "wfc" ELSE ctl
  /\ raced' = (raced \/ ctl = "up")
  /\ late' = FALSE
  /\ UNCHANGED <<connected, session, depth, since, local, table>>

--------------------------------------------------------------------------------
(* Outside any hazard.                                                     *)

(* A touch of the offload state for connection s that no clean-up is left  *)
(* to undo before the next connection.                                     *)
TooLate(s) == s # session \/ (~connected /\ (recovered \/ session = 0))

Touch(s) == /\ residue' = residue \cup {s}
            /\ late' = (late \/ TooLate(s))

(* A thread finds something to do for the server: offload://push looks at  *)
(* offConnected; offThreadExited (offLocalOnly), dvmThreadInterrupt        *)
(* (offLocal) and offObjectNotify (remoteWaitCount) look at what a         *)
(* connection leaves behind until the clean-up; a daemon has read an event.*)
(* What follows waits for locks and suspensions, which others may win.     *)
CallAside(t) ==
  /\ ~Stopped
  /\ \/ pc[t] = "run" /\ depth[t] = 0 /\ Goto(t, "aside")
     \/ pc[t] = "daemon" /\ Goto(t, "serve")
  /\ \/ connected
     \/ session > 0 /\ ~recovered
     \/ \E u \in table : ~local[u]
  /\ since' = [since EXCEPT ![t] = session]
  /\ UNCHANGED <<flags, hazards, lock, depth, local, table, residue, history>>

(* ...and does it: the action's byte and the push, or the daemon's answer, *)
(* without another look at offConnected.                                   *)
Aside(t) ==
  /\ ~Stopped
  /\ \/ pc[t] = "aside" /\ Goto(t, "run")
     \/ pc[t] = "serve" /\ Goto(t, "daemon")
  /\ Touch(since[t])
  /\ since' = [since EXCEPT ![t] = 0]
  /\ UNCHANGED <<flags, hazards, lock, depth, local, table, raced>>

(* A collection before an OutOfMemoryError writes TRIMGC and the rounds of *)
(* marks, connected or not, with every thread suspended.                   *)
TrimGc(t) ==
  /\ ~Stopped
  /\ pc[t] \in {"run", "daemon"}
  /\ Touch(session)
  /\ UNCHANGED <<flags, hazards, lock, pc, depth, since, local, table, raced>>

--------------------------------------------------------------------------------
(* Threads of the server.                                                  *)

(* thread_attach, for a thread id the phone has not seen: the daemon runs  *)
(* outside any hazard.                                                     *)
Attach(g) ==
  /\ ~Stopped
  /\ g \in Ghosts /\ pc[g] = "none"
  /\ ctl = "up"
  /\ table' = table \cup {g}
  /\ local' = [local EXCEPT ![g] = FALSE]
  /\ Goto(g, "daemon")
  /\ UNCHANGED <<flags, hazards, lock, depth, since, residue, history>>

(* The daemon runs the thread here for a while, or gives it back. *)
DaemonMigrate(g) ==
  /\ ~Stopped
  /\ pc[g] = "daemon"
  /\ connected
  /\ local' = [local EXCEPT ![g] = ~@]
  /\ UNCHANGED <<flags, hazards, lock, pc, depth, since, table, residue, history>>

(* The daemon sees the connection gone: offRecoveryEnterHazard. *)
DaemonLost(g) ==
  /\ ~Stopped
  /\ pc[g] = "daemon"
  /\ ~connected
  /\ Goto(g, "enter")
  /\ UNCHANGED <<flags, hazards, lock, depth, mine, history>>

(* The server tells the daemon to go back to its caller (RESUME, DEATH). *)
DaemonLeave(g) ==
  /\ ~Stopped
  /\ pc[g] = "daemon"
  /\ connected
  /\ Goto(g, "enter")
  /\ UNCHANGED <<flags, hazards, lock, depth, mine, history>>

(* dvmDetachCurrentThread; the hazard is cleared after it, if there is one. *)
Detach(g) ==
  /\ ~Stopped
  /\ g \in Ghosts /\ pc[g] = "run"
  /\ table' = table \ {g}
  /\ Goto(g, IF depth[g] > 0 THEN "clear" ELSE "none")
  /\ UNCHANGED <<flags, hazards, lock, depth, since, local, residue, history>>

Control == Connect \/ ConnectDone \/ Lose \/ ControlClearance

Step(t) ==
  \/ EnterConnected(t) \/ EnterRefused(t)
  \/ Clearance(t) \/ ClearanceTest(t) \/ Trigger(t)
  \/ CallClear(t) \/ Clear(t) \/ Suspend(t) \/ Cleanup(t)
  \/ Aside(t) \/ DaemonLost(t) \/ Detach(t)

Choice(t) ==
  \/ CallEnter(t) \/ Work(t) \/ Migrate(t) \/ CallAside(t) \/ TrimGc(t)
  \/ Attach(t) \/ DaemonMigrate(t) \/ DaemonLeave(t)

Next == Control \/ \E t \in All : Step(t) \/ Choice(t)

Spec == Init /\ [][Next]_vars

(* Every thread that can go on does: mutexes are handed on and no code     *)
(* stays inside a hazard of its own will.                                  *)
Fairness == /\ WF_vars(ControlClearance)
            /\ \A t \in All : SF_vars(Step(t))

FairSpec == Spec /\ Fairness

--------------------------------------------------------------------------------
(* Properties.                                                             *)

ThreadPc == {"none", "run", "check", "enter", "wfc", "test", "trigger", "cond",
             "woken", "clear", "suspend", "cleaning", "daemon", "aside", "serve"}

FlagType == /\ connected \in BOOLEAN /\ recovered \in BOOLEAN /\ raced \in BOOLEAN
            /\ late \in BOOLEAN
            /\ ctl \in {"idle", "greet", "up", "wfc", "cond"}
            /\ session \in 0 .. MaxConn
HazardType == /\ hazards \in Nat
              /\ lock \in All \cup {NoThread}
PcType == pc \in [All -> ThreadPc]
MineType == /\ depth \in [All -> 0 .. MaxDepth]
            /\ since \in [All -> 0 .. MaxConn]
            /\ local \in [All -> BOOLEAN]
            /\ table \in SUBSET All
            /\ residue \in SUBSET (0 .. MaxConn)

(* The shape of every variable; the hazard count never goes negative. *)
TypeOK == FlagType /\ HazardType /\ PcType /\ MineType

(* The hazards held, one token for each level of each thread. *)
Held == {h \in All \X (1 .. MaxDepth) : h[2] <= depth[h[1]]}

(* offRecoveryHazards counts exactly the hazards held, through nesting,    *)
(* refused entries, triggers, losses in the middle and the reset in        *)
(* cleanupOffloadState.                                                    *)
HazardsExact == hazards = Cardinality(Held)

(* From the moment a thread decides to clean up until it is done, no       *)
(* thread is inside a hazard or gets into one.                             *)
CleanupExclusive ==
  \A t \in All : pc[t] \in {"suspend", "cleaning"} => \A u \in All : depth[u] = 0

(* since = 0 below is the hazard a trigger counted before any connection.  *)

(* A connection starts from a clean state: while it is up, no thread is    *)
(* inside a hazard of an earlier one and no state of an earlier one is     *)
(* left, whether it was made inside a hazard or outside, unless a clean-up *)
(* that was triggered before the first connection overlapped it.  What was *)
(* made outside is only wiped when it was made in time: a touch that comes *)
(* after the clean-up of its connection stays.                             *)
ConnectsClean ==
  (connected /\ ~raced) => /\ ~late => residue \subseteq {session}
                           /\ \A t \in All : depth[t] > 0 => since[t] \in {0, session}

(* The same without the exception, which the code does not keep.           *)
NothingLeft == (connected /\ ~raced) => residue \subseteq {session}

(* The control thread is held back by every hazard: "At that point (and    *)
(* only at that point) it is OK to connect to an offload server again."    *)
OnlyThenConnects ==
  connected => \A t \in All : depth[t] > 0 => since[t] \in {0, session}

(* No sleeper is forgotten: nobody is still asleep on offRecoveryCond once *)
(* the state is recovered, and nobody sleeps through a connection but      *)
(* through the first, which nobody broadcasts.                             *)
NobodyForgotten ==
  /\ ctl = "cond" => ~recovered
  /\ \A t \in All : pc[t] = "cond" =>
       ~recovered /\ (connected => session = 1)

(* "Wait until all threads are not in a vulnerable execution position":    *)
(* whoever waits for that is not in such a position itself.                *)
WaiterNotVulnerable == \A t \in All : pc[t] = "cond" => depth[t] = 0

(* cleanupThread asserts offLocal of every thread in the table. *)
LocalAtCleanup ==
  (\E t \in All : pc[t] = "cleaning") => \A u \in table : local[u]

(* The same for the threads the phone started. *)
OwnLocalAtCleanup ==
  (\E t \in All : pc[t] = "cleaning") => \A u \in table \cap Threads : local[u]

(* "a clean-up of offload state will be done when all hazards have been    *)
(* cleared".                                                               *)
CleanupDone == \A t \in All : pc[t] = "suspend" ~> pc[t] # "suspend"

================================================================================
