-------------------------- MODULE WaitNotifyProofs --------------------------
(***************************************************************************)
(* Proofs about WaitNotify, for any number of threads and any bound on the *)
(* messages under way: the wait sets are exact, interrupts wake, one       *)
(* thread is inside, and the count of waiters with the messages under way  *)
(* is enough for all who wait at the endpoint without the ownership.       *)
(*                                                                         *)
(* The first part is about sequences, the second about the wait sets, the  *)
(* third counts waiters and messages.                                      *)
(***************************************************************************)
EXTENDS WaitNotify, WellFoundedInduction, FiniteSetTheorems, TLAPS

(* waitSetAppend asserts that a thread is in one wait set at most once. *)
Distinct(s) == \A i, j \in DOMAIN s : s[i] = s[j] => i = j

(* waitSetAppend. *)
LEMMA AppendRange ==
  ASSUME NEW s \in Seq(Threads), NEW t \in Threads, Distinct(s), t \notin Range(s)
  PROVE  /\ Append(s, t) \in Seq(Threads)
         /\ Distinct(Append(s, t))
         /\ Range(Append(s, t)) = Range(s) \cup {t}
<1>1. /\ Append(s, t) \in Seq(Threads)
      /\ Len(Append(s, t)) = Len(s) + 1
      /\ \A i \in 1 .. Len(s) : Append(s, t)[i] = s[i]
      /\ Append(s, t)[Len(s) + 1] = t
  OBVIOUS
<1>2. DOMAIN Append(s, t) = 1 .. Len(s) + 1 /\ DOMAIN s = 1 .. Len(s) /\ Len(s) \in Nat
  BY <1>1
<1>3. Distinct(Append(s, t))
  BY <1>1, <1>2 DEF Distinct, Range
<1>4. Range(Append(s, t)) = Range(s) \cup {t}
  BY <1>1, <1>2 DEF Range
<1> QED
  BY <1>1, <1>3, <1>4

(* waitSetRemove. *)
LEMMA WithoutRange ==
  ASSUME NEW s \in Seq(Threads), NEW t \in Threads, Distinct(s)
  PROVE  /\ Without(s, t) \in Seq(Threads)
         /\ Distinct(Without(s, t))
         /\ Range(Without(s, t)) = Range(s) \ {t}
<1>1. CASE t \notin Range(s)
  BY <1>1 DEF Without
<1>2. CASE t \in Range(s)
  <2>1. PICK k \in DOMAIN s : k = CHOOSE i \in DOMAIN s : s[i] = t
    BY <1>2 DEF Range
  <2>2. k \in 1 .. Len(s) /\ s[k] = t /\ Len(s) \in Nat
    BY <1>2, <2>1 DEF Range
  <2> DEFINE w == [i \in 1 .. Len(s) - 1 |-> IF i < k THEN s[i] ELSE s[i + 1]]
  <2>3. Without(s, t) = w
    BY <1>2, <2>1 DEF Without
  <2>4. \A i \in 1 .. Len(s) - 1 : w[i] \in Threads
    BY <2>2
  <2>5. w \in Seq(Threads)
    BY <2>2, <2>4
  <2>6. Distinct(w)
    BY <2>2 DEF Distinct
  <2>7. Range(w) \subseteq Range(s) \ {t}
    BY <2>2 DEF Range, Distinct
  <2>8. ASSUME NEW i \in 1 .. Len(s), i # k PROVE s[i] \in Range(w)
    <3>1. CASE i < k
      <4>1. i \in DOMAIN w /\ w[i] = s[i]
        BY <3>1, <2>2
      <4> QED
        BY <4>1 DEF Range
    <3>2. CASE i > k
      <4>1. i - 1 \in DOMAIN w /\ w[i - 1] = s[i]
        BY <3>2, <2>2
      <4> QED
        BY <4>1 DEF Range
    <3> QED
      BY <3>1, <3>2, <2>8, <2>2
  <2>9. Range(s) \ {t} \subseteq Range(w)
    BY <2>2, <2>8 DEF Range
  <2> QED
    BY <2>3, <2>5, <2>6, <2>7, <2>9
<1> QED
  BY <1>1, <1>2

(* The first n are taken off. *)
LEMMA DropRange ==
  ASSUME NEW s \in Seq(Threads), NEW n \in 0 .. Len(s), Distinct(s)
  PROVE  LET d == SubSeq(s, n + 1, Len(s))
         IN  /\ d \in Seq(Threads)
             /\ Distinct(d)
             /\ Range(d) = {s[i] : i \in n + 1 .. Len(s)}
<1> DEFINE d == SubSeq(s, n + 1, Len(s))
<1>1. /\ d \in Seq(Threads) /\ Len(d) = Len(s) - n
      /\ \A i \in 1 .. Len(s) - n : d[i] = s[n + i]
  OBVIOUS
<1>2. Distinct(d)
  BY <1>1 DEF Distinct
<1>3. ASSUME NEW i \in n + 1 .. Len(s) PROVE s[i] \in Range(d)
  <2>1. i - n \in DOMAIN d /\ d[i - n] = s[i]
    BY <1>1
  <2> QED
    BY <2>1 DEF Range
<1>4. Range(d) \subseteq {s[i] : i \in n + 1 .. Len(s)}
  <2> SUFFICES ASSUME NEW i \in DOMAIN d PROVE d[i] \in {s[k] : k \in n + 1 .. Len(s)}
    BY DEF Range
  <2>1. n + i \in n + 1 .. Len(s) /\ d[i] = s[n + i]
    BY <1>1
  <2> QED
    BY <2>1
<1> HIDE DEF d
<1>5. Range(d) = {s[i] : i \in n + 1 .. Len(s)}
  BY <1>3, <1>4
<1> QED
  BY <1>1, <1>2, <1>5 DEF d

(* The first of several places. *)
LEMMA LeastInSet ==
  ASSUME NEW S \in SUBSET Nat, S # {}
  PROVE  \E n \in S : \A m \in S : n <= m
<1>1. \E n \in S : \A m \in S : <<m, n>> \notin OpToRel(<, Nat)
  BY NatLessThanWellFounded, WFMin
<1>2. PICK n \in S : \A m \in S : <<m, n>> \notin OpToRel(<, Nat)
  BY <1>1
<1>3. \A m \in S : ~ (m < n)
  BY <1>2 DEF OpToRel
<1> QED
  BY <1>3

-----------------------------------------------------------------------------
(* What the operations do to the wait sets. *)

(* Where waitSet[e] becomes the sequence d. *)
Becomes(e, d) == d \in Seq(Threads) /\ Distinct(d) /\ waitSet' = [waitSet EXCEPT ![e] = d]

(* The thread enters the wait set. *)
LEMMA Enqueues ==
  ASSUME TypeOK, WaitSetExact, NEW t \in Threads, WaitEnter(t)
  PROVE  \E d : Becomes(at[t], d) /\ Range(d) = Range(waitSet[at[t]]) \cup {t}
<1> DEFINE s == waitSet[at[t]]
<1>1. at[t] \in End /\ s \in Seq(Threads) /\ pc[t] = "hold"
  BY DEF TypeOK, WaitEnter
<1>2. Distinct(s) /\ t \notin Range(s)
  BY <1>1 DEF WaitSetExact, Distinct
<1> QED
  BY <1>1, <1>2, AppendRange DEF Becomes, WaitEnter

(* The thread takes itself off the wait set. *)
LEMMA Dequeues ==
  ASSUME TypeOK, WaitSetExact, NEW t \in Threads,
         waitSet' = [waitSet EXCEPT ![at[t]] = Without(@, t)]
  PROVE  \E d : Becomes(at[t], d) /\ Range(d) = Range(waitSet[at[t]]) \ {t}
<1> DEFINE s == waitSet[at[t]]
<1>1. at[t] \in End /\ s \in Seq(Threads)
  BY DEF TypeOK
<1>2. Distinct(s)
  BY <1>1 DEF WaitSetExact, Distinct
<1> QED
  BY <1>1, <1>2, WithoutRange DEF Becomes

(* notifyMonitor takes off the waitSet the first that waits and whoever is  *)
(* before it and does not.                                                  *)
LEMMA Pops ==
  ASSUME TypeOK, WaitSetExact, NEW t \in Threads, Notify(t),
         NEW e, e = at[t], NEW s, s = waitSet[e], NEW n, n = PopCount(e)
  PROVE  /\ n \in 0 .. Len(s)
         /\ \E d : Becomes(e, d) /\ Range(d) = {s[i] : i \in n + 1 .. Len(s)}
         /\ \A i \in 1 .. n : pc[s[i]] = "wait" => i = n /\ FoundLocal(e)
         /\ FoundLocal(e) => n \in 1 .. Len(s) /\ s[n] \in Threads
<1> DEFINE live == {i \in DOMAIN s : pc[s[i]] = "wait"}
<1>1. /\ e \in End /\ s \in Seq(Threads) /\ DOMAIN s = 1 .. Len(s) /\ Len(s) \in Nat
      /\ Distinct(s) /\ waitSet' = [waitSet EXCEPT ![e] = SubSeq(s, n + 1, Len(s))]
      /\ waitSet \in [End -> Seq(Threads)]
  BY DEF TypeOK, WaitSetExact, Distinct, Notify
<1>2. ASSUME n \in 0 .. Len(s)
      PROVE  \E d : Becomes(e, d) /\ Range(d) = {s[i] : i \in n + 1 .. Len(s)}
  BY <1>1, <1>2, DropRange DEF Becomes
<1>3. CASE live = {}
  <2>1. n = Len(s)
    BY <1>3 DEF PopCount
  <2>2. ~FoundLocal(e) /\ \A i \in 1 .. n : pc[s[i]] # "wait"
    BY <1>1, <1>3, <2>1 DEF FoundLocal, Range
  <2>3. n \in 0 .. Len(s)
    BY <2>1, <1>1
  <2> QED
    BY <1>2, <2>2, <2>3
<1>4. CASE live # {}
  <2>1. live \in SUBSET Nat
    BY <1>1
  <2>2. n = CHOOSE i \in live : \A j \in live : i <= j
    BY <1>4 DEF PopCount
  <2>3. n \in live /\ \A j \in live : n <= j
    <3> HIDE DEF live
    <3>1. \E i \in live : \A j \in live : i <= j
      BY <1>4, <2>1, LeastInSet
    <3> QED
      BY <2>2, <3>1
  <2>4. FoundLocal(e) /\ n \in 1 .. Len(s) /\ s[n] \in Threads
    BY <1>1, <2>3 DEF FoundLocal, Range
  <2>5. \A i \in 1 .. n : pc[s[i]] = "wait" => i = n
    BY <1>1, <2>3, <2>4
  <2> QED
    BY <1>2, <2>4, <2>5
<1> QED
  BY <1>3, <1>4

(* The invariant of one waitSet. *)
Exact(e) ==
  /\ Asleep(e) \subseteq Range(waitSet[e])
  /\ \A t \in Range(waitSet[e]) :
       t \in Threads /\ at[t] = e /\ pc[t] \in {"enter", "wait", "back"}
  /\ Distinct(waitSet[e])

(* WaitSetExact, with Distinct named. *)
LEMMA ExactEverywhere == TypeOK => (WaitSetExact <=> \A e \in End : Exact(e))
<1> SUFFICES ASSUME TypeOK PROVE WaitSetExact <=> \A e \in End : Exact(e)
  OBVIOUS
<1>1. \A e \in End : \A t \in Range(waitSet[e]) : t \in Threads
  BY DEF TypeOK, Range
<1> QED
  BY <1>1 DEF WaitSetExact, Exact, Distinct

(* At each endpoint one thread has the mutex. *)
OneMutex ==
  \A t, u \in Threads :
    at[t] = at[u] /\ pc[t] \in {"hold", "enter"} /\ pc[u] \in {"hold", "enter"} => t = u

(* A notifier holds the mutex, so whoever it takes off without a signal is awake. *)
LEMMA WaitSetStep ==
  ASSUME TypeOK, OneMutex, WaitSetExact, TypeOK', ~race, [Next]_vars
  PROVE  WaitSetExact'
<1>0. \A e \in End : Exact(e)
  BY ExactEverywhere
<1>00. \A e \in End : \A t \in Range(waitSet'[e]) : t \in Threads
  BY DEF TypeOK, Range
<1> SUFFICES ASSUME NEW e \in End PROVE Exact(e)'
  BY <1>00 DEF WaitSetExact, Exact, Distinct
<1> USE <1>0 DEF TypeOK, Peer, End, Pc, Go, Exact, Asleep
<1>1. ASSUME NEW t \in Threads, LockObject(t) PROVE Exact(e)'
  BY <1>1 DEF LockObject
<1>2. ASSUME NEW t \in Threads, UnlockObject(t) PROVE Exact(e)'
  BY <1>2 DEF UnlockObject
<1>3. ASSUME NEW t \in Threads, WaitEnter(t) PROVE Exact(e)'
  <2>1. PICK d : Becomes(at[t], d) /\ Range(d) = Range(waitSet[at[t]]) \cup {t}
    BY <1>3, Enqueues
  <2>2. /\ waitSet'[at[t]] = d /\ Distinct(d)
        /\ \A x \in End : x # at[t] => waitSet'[x] = waitSet[x]
    BY <2>1 DEF Becomes
  <2>3. pc' = [pc EXCEPT ![t] = "enter"] /\ UNCHANGED <<at, woken>>
    BY <1>3 DEF WaitEnter
  <2> QED
    BY <2>1, <2>2, <2>3
<1>4. ASSUME NEW t \in Threads, WaitSleep(t) PROVE Exact(e)'
  <2>1. CASE intr[t]
    <3>1. PICK d : Becomes(at[t], d) /\ Range(d) = Range(waitSet[at[t]]) \ {t}
      BY <1>4, <2>1, Dequeues DEF WaitSleep
    <3>2. /\ waitSet'[at[t]] = d /\ Distinct(d)
          /\ \A x \in End : x # at[t] => waitSet'[x] = waitSet[x]
      BY <3>1 DEF Becomes
    <3>3. pc' = [pc EXCEPT ![t] = "hold"] /\ UNCHANGED <<at, woken>>
      BY <1>4, <2>1 DEF WaitSleep
    <3> QED
      BY <3>1, <3>2, <3>3
  <2>2. CASE ~intr[t]
    BY <1>4, <2>2 DEF WaitSleep
  <2> QED
    BY <2>1, <2>2
<1>5. ASSUME NEW t \in Threads, Wake(t) PROVE Exact(e)'
  BY <1>5 DEF Wake
<1>6. ASSUME NEW t \in Threads, Relock(t) PROVE Exact(e)'
  <2>1. PICK d : Becomes(at[t], d) /\ Range(d) = Range(waitSet[at[t]]) \ {t}
    BY <1>6, Dequeues DEF Relock
  <2> QED
    BY <1>6, <2>1 DEF Relock, Becomes
<1>7. ASSUME NEW t \in Threads, Notify(t) PROVE Exact(e)'
  <2> DEFINE s == waitSet[at[t]]
             n == PopCount(at[t])
  <2>1. /\ n \in 0 .. Len(s)
        /\ \E d : Becomes(at[t], d) /\ Range(d) = {s[i] : i \in n + 1 .. Len(s)}
        /\ \A i \in 1 .. n : pc[s[i]] = "wait" => i = n /\ FoundLocal(at[t])
        /\ FoundLocal(at[t]) => n \in 1 .. Len(s) /\ s[n] \in Threads
    BY <1>7, Pops
  <2>2. PICK d : Becomes(at[t], d) /\ Range(d) = {s[i] : i \in n + 1 .. Len(s)}
    BY <2>1
  <2>3. /\ Range(s) = {s[i] : i \in 1 .. Len(s)}
        /\ s \in Seq(Threads) /\ Len(s) \in Nat
    <3>1. s \in Seq(Threads) /\ DOMAIN s = 1 .. Len(s) /\ Len(s) \in Nat
      OBVIOUS
    <3> QED
      BY <3>1 DEF Range
  <2>4. FoundLocal(at[t]) => woken' = [woken EXCEPT ![s[n]] = TRUE]
    BY <1>7 DEF Notify
  <2>5. /\ UNCHANGED <<at, pc>> /\ pc[t] = "hold"
        /\ \A u \in Threads : woken[u] => woken'[u]
    BY <1>7 DEF Notify
  <2>6. Range(d) \subseteq Range(s)
    BY <2>1, <2>2, <2>3
  <2>7. ASSUME NEW u \in Asleep(at[t])' PROVE u \in Range(d)
    <3>1. u \in Threads /\ u \in Asleep(at[t]) /\ pc[u] = "wait" /\ ~woken'[u]
      BY <2>5, <2>7 DEF OneMutex
    <3>4. u \in Range(s)
      BY <3>1
    <3>2. PICK i \in 1 .. Len(s) : u = s[i]
      BY <2>3, <3>4
    <3>3. ~(i <= n)
      BY <2>1, <2>3, <2>4, <3>1, <3>2
    <3> QED
      BY <2>1, <2>2, <2>3, <3>2, <3>3
  <2> HIDE DEF s, n
  <2>8. CASE e = at[t]
    BY <2>2, <2>5, <2>6, <2>7, <2>8 DEF Becomes, s
  <2>9. CASE e # at[t]
    BY <2>2, <2>5, <2>9 DEF Becomes
  <2> QED
    BY <2>8, <2>9
<1>8. ASSUME NEW t \in Threads, NotifyAll(t) PROVE Exact(e)'
  <2>1. /\ UNCHANGED <<at, pc>> /\ pc[t] = "hold"
        /\ waitSet' = [waitSet EXCEPT ![at[t]] = <<>>]
        /\ woken' = [u \in Threads |->
                       woken[u] \/ u \in {v \in Range(waitSet[at[t]]) : pc[v] = "wait"}]
    BY <1>8 DEF NotifyAll
  <2>2. Asleep(at[t])' = {}
    BY <2>1 DEF OneMutex
  <2>3. Range(<<>>) = {} /\ Distinct(<<>>)
    BY DEF Range, Distinct
  <2>4. CASE e = at[t]
    BY <2>1, <2>2, <2>3, <2>4
  <2>5. CASE e # at[t]
    BY <2>1, <2>5
  <2> QED
    BY <2>4, <2>5
<1>9. ASSUME NEW t \in Threads, PerformNotify(t) PROVE Exact(e)'
  <2>1. \A u \in Threads : woken[u] => woken'[u]
    BY <1>9 DEF PerformNotify
  <2>2. UNCHANGED <<at, pc, waitSet>>
    BY <1>9 DEF PerformNotify, Receive
  <2> QED
    BY <2>1, <2>2
<1>10. ASSUME NEW t \in Threads, PerformAll(t) PROVE Exact(e)'
  BY <1>10 DEF PerformAll, Receive, Waiting
<1>11. ASSUME NEW t \in Threads, Interrupt(t) PROVE Exact(e)'
  BY <1>11 DEF Interrupt
<1>12. ASSUME NEW t \in Threads, Grant(t) PROVE Exact(e)'
  BY <1>12 DEF Grant
<1>13. ASSUME NEW t \in Threads, Migrate(t) PROVE Exact(e)'
  BY <1>13 DEF Migrate
<1>14. CASE UNCHANGED vars
  BY <1>14 DEF vars
<1> QED
  BY <1>1, <1>2, <1>3, <1>4, <1>5, <1>6, <1>7, <1>8, <1>9, <1>10, <1>11,
    <1>12, <1>13, <1>14 DEF Next, Step

(* Types. *)
LEMMA TypeStep ==
  ASSUME TypeOK, WaitSetExact, ~race, [Next]_vars
  PROVE  TypeOK'
<1> DEFINE Rest ==
      /\ at \in [Threads -> End]
      /\ pc \in [Threads -> Pc]
      /\ woken \in [Threads -> BOOLEAN]
      /\ intr \in [Threads -> BOOLEAN]
      /\ remote \in Nat
      /\ owner \in End
      /\ last \in [End -> Threads \cup {None}]
      /\ wasted \in BOOLEAN
      /\ race \in BOOLEAN
    Sets == waitSet \in [End -> Seq(Threads)]
    Messages == sent \in [Threads -> Seq({"notify", "all"})]
<1>0. TypeOK <=> Rest /\ Sets /\ Messages
  BY DEF TypeOK
<1>1. Messages'
  <2>1. \A s \in Seq({"notify", "all"}) :
          /\ \A m \in {"notify", "all"} : Append(s, m) \in Seq({"notify", "all"})
          /\ s # <<>> => Tail(s) \in Seq({"notify", "all"})
    OBVIOUS
  <2>2. ASSUME NEW t \in Threads, Notify(t) \/ NotifyAll(t) PROVE Messages'
    <3>1. UNCHANGED sent \/ \E m \in {"notify", "all"} : Send(t, m)
      BY <2>2 DEF Notify, NotifyAll
    <3>2. ASSUME NEW m \in {"notify", "all"}, Send(t, m) PROVE Messages'
      <4>1. Append(sent[t], m) \in Seq({"notify", "all"})
        BY <1>0, <2>1
      <4> QED
        BY <1>0, <3>2, <4>1 DEF Send
    <3> QED
      BY <1>0, <3>1, <3>2
  <2>3. ASSUME NEW t \in Threads, PerformNotify(t) \/ PerformAll(t) PROVE Messages'
    <3>1. sent[t] # <<>> /\ sent' = [sent EXCEPT ![t] = Tail(@)]
      BY <2>3 DEF PerformNotify, PerformAll, Receive
    <3> QED
      BY <1>0, <2>1, <3>1
  <2>4. CASE UNCHANGED sent
    BY <1>0, <2>4
  <2> QED
    BY <2>2, <2>3, <2>4 DEF Next, Step, vars, LockObject, UnlockObject, WaitEnter,
      WaitSleep, Wake, Relock, Interrupt, Grant, Migrate
<1>2. Sets'
  <2>1. ASSUME NEW e \in End, NEW d, Becomes(e, d) PROVE Sets'
    BY <1>0, <2>1 DEF Becomes
  <2>2. CASE UNCHANGED waitSet
    BY <1>0, <2>2
  <2>3. \A t \in Threads : at[t] \in End
    BY DEF TypeOK
  <2>4. ASSUME NEW t \in Threads, WaitEnter(t) PROVE Sets'
    BY <2>1, <2>3, <2>4, Enqueues
  <2>5. ASSUME NEW t \in Threads, WaitSleep(t) \/ Relock(t) PROVE Sets'
    BY <2>1, <2>2, <2>3, <2>5, Dequeues DEF WaitSleep, Relock
  <2>6. ASSUME NEW t \in Threads, Notify(t) PROVE Sets'
    BY <2>1, <2>3, <2>6, Pops
  <2>7. ASSUME NEW t \in Threads, NotifyAll(t) PROVE Sets'
    BY <1>0, <2>3, <2>7 DEF NotifyAll
  <2> QED
    BY <2>2, <2>4, <2>5, <2>6, <2>7 DEF Next, Step, vars, LockObject, UnlockObject,
      Wake, PerformNotify, PerformAll, Receive, Interrupt, Grant, Migrate
<1>3. Rest'
  <2>1. \A e \in End : Len(waitSet[e]) \in Nat
    BY <1>0
  <2>2. ASSUME NEW t \in Threads, LockObject(t) \/ UnlockObject(t) \/ WaitEnter(t)
        PROVE  Rest'
    <3>1. last' = last \/ last' = [last EXCEPT ![at[t]] = t]
      BY <2>2 DEF LockObject, UnlockObject, WaitEnter
    <3>2. /\ \E next \in Pc : pc' = [pc EXCEPT ![t] = next]
          /\ UNCHANGED <<at, woken, intr, remote, owner, wasted, race>>
      BY <2>2 DEF LockObject, UnlockObject, WaitEnter, Go, Pc
    <3>3. last' \in [End -> Threads \cup {None}]
      BY <1>0, <3>1
    <3>4. pc' \in [Threads -> Pc]
      BY <1>0, <3>2
    <3> QED
      BY <1>0, <3>2, <3>3, <3>4
  <2>3. ASSUME NEW t \in Threads, WaitSleep(t) \/ Wake(t) \/ Relock(t) \/ Interrupt(t)
        PROVE  Rest'
    BY <1>0, <2>3 DEF WaitSleep, Wake, Relock, Interrupt, Go, Pc, End
  <2>4. ASSUME NEW t \in Threads, Notify(t) \/ NotifyAll(t) PROVE Rest'
    <3>3. UNCHANGED <<at, pc, intr, owner, last, wasted, race>>
      BY <2>4 DEF Notify, NotifyAll
    <3>4. remote' = 0 \/ remote' = remote \/ (remote > 0 /\ remote' = remote - 1)
      BY <2>4 DEF Notify, NotifyAll
    <3>1. remote' \in Nat
      BY <1>0, <3>4
    <3>2. woken' \in [Threads -> BOOLEAN]
      BY <1>0, <2>4 DEF Notify, NotifyAll
    <3> QED
      BY <1>0, <3>1, <3>2, <3>3
  <2>5. ASSUME NEW t \in Threads, PerformNotify(t) \/ PerformAll(t) PROVE Rest'
    BY <1>0, <2>5 DEF PerformNotify, PerformAll, Spent, Receive, Pc, End
  <2>6. ASSUME NEW t \in Threads, Grant(t) \/ Migrate(t) PROVE Rest'
    BY <1>0, <2>1, <2>6 DEF Grant, Migrate, Take, Peer, Pc, End
  <2>7. CASE UNCHANGED vars
    BY <1>0, <2>7 DEF vars
  <2> QED
    BY <2>2, <2>3, <2>4, <2>5, <2>6, <2>7 DEF Next, Step
<1> QED
  <2>1. TypeOK' <=> Rest' /\ Sets' /\ Messages'
    BY DEF TypeOK
  <2> QED
    BY <1>1, <1>2, <1>3, <2>1

-----------------------------------------------------------------------------
(* Counting waiters and messages. *)

(* Waiters and messages can be counted. *)
LEMMA FiniteWaiters ==
  \A S \in SUBSET Threads : IsFiniteSet(S) /\ Cardinality(S) \in Nat
  BY WaitAssumption, FS_Subset, FS_CardinalityType

LEMMA FiniteMessages ==
  \A S \in SUBSET (Threads \X (1 .. MaxSent)) : IsFiniteSet(S) /\ Cardinality(S) \in Nat
<1>1. IsFiniteSet(1 .. MaxSent)
  BY WaitAssumption, FS_Interval
<1>2. IsFiniteSet(Threads \X (1 .. MaxSent))
  BY <1>1, WaitAssumption, FS_Product
<1> QED
  BY <1>2, FS_Subset, FS_CardinalityType

(* A waitSet is at least as long as it has threads. *)
LEMMA WaitersAtMost ==
  ASSUME NEW s \in Seq(Threads), NEW A, A \subseteq Range(s)
  PROVE  Cardinality(A) <= Len(s)
<1>1. s \in [1 .. Len(s) -> Threads] /\ Len(s) \in Nat
  OBVIOUS
<1>2. s \in Surjection(1 .. Len(s), Range(s))
  BY <1>1 DEF Surjection, Range
<1>3. IsFiniteSet(1 .. Len(s)) /\ Cardinality(1 .. Len(s)) = Len(s)
  <2>1. \A n \in Nat : IsFiniteSet(1 .. n) /\ Cardinality(1 .. n) = n
    BY FS_Interval
  <2> QED
    BY <1>1, <2>1
<1>4. IsFiniteSet(Range(s)) /\ Cardinality(Range(s)) <= Len(s)
  BY <1>2, <1>3, FS_Surjection
<1>5. Cardinality(A) <= Cardinality(Range(s))
  BY <1>4, FS_Subset
<1>6. Cardinality(A) \in Nat /\ Cardinality(Range(s)) \in Nat
  BY <1>4, FS_Subset, FS_CardinalityType
<1> QED
  BY <1>1, <1>4, <1>5, <1>6

(* Each thread has at most MaxSent messages under way. *)
SentBounded == \A t \in Threads : Len(sent[t]) <= MaxSent

(* A thread that may send has room. *)
LEMMA MaySendBound ==
  ASSUME TypeOK, MaySend, NEW t \in Threads
  PROVE  Len(sent[t]) < MaxSent
<1> DEFINE S == {x \in Threads \X (1 .. MaxSent) : x[2] <= Len(sent[x[1]])}
           T == {t} \X (1 .. MaxSent)
<1>1. Len(sent[t]) \in Nat /\ MaxSent \in Nat
  BY WaitAssumption DEF TypeOK
<1>2. IsFiniteSet(S) /\ Cardinality(S) \in Nat /\ Cardinality(S) < MaxSent
  BY FiniteMessages DEF MaySend
<1>3. Cardinality(T) = MaxSent
  <2>1. IsFiniteSet(1 .. MaxSent) /\ Cardinality(1 .. MaxSent) = MaxSent
    BY <1>1, FS_Interval, WaitAssumption
  <2>2. IsFiniteSet({t}) /\ Cardinality({t}) = 1
    BY FS_Singleton
  <2>3. Cardinality(T) = 1 * MaxSent
    BY <2>1, <2>2, FS_Product
  <2> QED
    BY <2>3, <1>1
<1>4. ~(T \subseteq S)
  <2> HIDE DEF S, T
  <2> QED
    BY <1>1, <1>2, <1>3, FS_Subset
<1>5. ASSUME Len(sent[t]) >= MaxSent PROVE T \subseteq S
  BY <1>1, <1>5
<1> QED
  BY <1>1, <1>4, <1>5

(* One message more. *)
LEMMA SendCounts ==
  ASSUME TypeOK, MaySend, NEW t \in Threads, NEW p \in End, at[t] # p,
         NEW m \in {"notify", "all"}, Send(t, m), UNCHANGED at
  PROVE  /\ UnderWay(p, m)' # {}
         /\ Cardinality(UnderWay(p, m)') = Cardinality(UnderWay(p, m)) + 1
         /\ \A k \in {"notify", "all"} : UnderWay(p, k) \subseteq UnderWay(p, k)'
<1> DEFINE n == Len(sent[t]) + 1
<1>1. /\ sent \in [Threads -> Seq({"notify", "all"})] /\ sent[t] \in Seq({"notify", "all"})
      /\ Len(sent[t]) \in Nat
  BY DEF TypeOK
<1>2. n \in 1 .. MaxSent
  BY <1>1, MaySendBound, WaitAssumption
<1>3. /\ sent'[t] = Append(sent[t], m)
      /\ \A u \in Threads : u # t => sent'[u] = sent[u]
  BY <1>1 DEF Send
<1>4. /\ Len(sent'[t]) = n /\ sent'[t][n] = m
      /\ \A i \in 1 .. Len(sent[t]) : sent'[t][i] = sent[t][i]
  BY <1>1, <1>3
<1>5. <<t, n>> \in UnderWay(p, m)' /\ <<t, n>> \notin UnderWay(p, m)
  BY <1>1, <1>2, <1>4 DEF UnderWay
<1>6. ASSUME NEW k \in {"notify", "all"}, NEW x \in UnderWay(p, k)
      PROVE  x \in UnderWay(p, k)'
  <2>1. /\ x \in Threads \X (1 .. MaxSent) /\ at[x[1]] # p /\ x[2] <= Len(sent[x[1]])
        /\ sent[x[1]][x[2]] = k
    BY <1>6 DEF UnderWay
  <2>2. x[2] <= Len(sent'[x[1]]) /\ sent'[x[1]][x[2]] = k
    <3>1. CASE x[1] = t
      BY <1>1, <1>4, <2>1, <3>1
    <3>2. CASE x[1] # t
      BY <1>3, <2>1, <3>2
    <3> QED
      BY <3>1, <3>2
  <2> QED
    BY <2>1, <2>2 DEF UnderWay
<1>7. ASSUME NEW x \in UnderWay(p, m)', x # <<t, n>> PROVE x \in UnderWay(p, m)
  <2>1. /\ x \in Threads \X (1 .. MaxSent) /\ at[x[1]] # p /\ x[2] <= Len(sent'[x[1]])
        /\ sent'[x[1]][x[2]] = m
    BY <1>7 DEF UnderWay
  <2>2. x[2] <= Len(sent[x[1]]) /\ sent[x[1]][x[2]] = m
    <3>1. CASE x[1] = t
      <4>1. x[2] # n
        BY <1>7, <2>1, <3>1
      <4> QED
        BY <1>1, <1>4, <2>1, <3>1, <4>1
    <3>2. CASE x[1] # t
      BY <1>3, <2>1, <3>2
    <3> QED
      BY <3>1, <3>2
  <2> QED
    BY <2>1, <2>2 DEF UnderWay
<1>8. UnderWay(p, m)' = UnderWay(p, m) \cup {<<t, n>>}
  BY <1>5, <1>6, <1>7
<1>9. IsFiniteSet(UnderWay(p, m))
  BY FiniteMessages DEF UnderWay
<1> HIDE DEF n
<1>10. Cardinality(UnderWay(p, m)') = Cardinality(UnderWay(p, m)) + 1
  BY <1>5, <1>8, <1>9, FS_AddElement
<1> QED
  BY <1>5, <1>6, <1>10

(* One message less. *)
LEMMA ReceiveCounts ==
  ASSUME TypeOK, SentBounded, NEW t \in Threads, NEW p \in End, at[t] # p,
         NEW m \in {"notify", "all"}, Receive(t, m), NEW k \in {"notify", "all"}
  PROVE  /\ Cardinality(UnderWay(p, k)) - (IF k = m THEN 1 ELSE 0)
              <= Cardinality(UnderWay(p, k)')
         /\ UnderWay(p, k) # {} /\ k # m => UnderWay(p, k)' # {}
<1> DEFINE S == UnderWay(p, k) \ {<<t, 1>>}
           T == UnderWay(p, k)'
           f == [x \in S |-> IF x[1] = t THEN <<t, x[2] - 1>> ELSE x]
<1>1. /\ sent[t] \in Seq({"notify", "all"}) /\ Len(sent[t]) \in Nat /\ sent[t] # <<>>
      /\ sent' = [sent EXCEPT ![t] = Tail(@)] /\ Head(sent[t]) = m
      /\ sent \in [Threads -> Seq({"notify", "all"})] /\ UNCHANGED at
  BY DEF TypeOK, Receive
<1>2. /\ sent'[t] = Tail(sent[t])
      /\ \A u \in Threads : u # t => sent'[u] = sent[u]
  BY <1>1
<1>3. /\ Len(sent'[t]) = Len(sent[t]) - 1 /\ sent[t][1] = m
      /\ \A i \in 2 .. Len(sent[t]) : sent'[t][i - 1] = sent[t][i]
  BY <1>1, <1>2
<1>4. ASSUME NEW x \in S PROVE f[x] \in T
  <2>1. /\ x \in Threads \X (1 .. MaxSent) /\ at[x[1]] # p /\ x[2] <= Len(sent[x[1]])
        /\ sent[x[1]][x[2]] = k /\ x # <<t, 1>>
    BY <1>4 DEF UnderWay
  <2>2. CASE x[1] = t
    <3>1. x[2] \in 2 .. Len(sent[t])
      BY <1>1, <2>1, <2>2
    <3>2. f[x] = <<t, x[2] - 1>>
      BY <1>4, <2>2
    <3>3. x[2] - 1 \in 1 .. MaxSent /\ x[2] - 1 <= Len(sent'[t]) /\ sent'[t][x[2] - 1] = k
      BY <1>1, <1>3, <2>1, <2>2, <3>1, WaitAssumption
    <3> QED
      BY <1>1, <3>2, <3>3 DEF UnderWay
  <2>3. CASE x[1] # t
    <3>1. f[x] = x
      BY <1>4, <2>3
    <3> QED
      BY <1>1, <1>2, <2>1, <2>3, <3>1 DEF UnderWay
  <2> QED
    BY <2>2, <2>3
<1>5. ASSUME NEW x \in S, NEW y \in S, f[x] = f[y] PROVE x = y
  <2>1. /\ x \in Threads \X (1 .. MaxSent) /\ y \in Threads \X (1 .. MaxSent)
        /\ (x[1] = t => x[2] - 1 \in Nat) /\ (y[1] = t => y[2] - 1 \in Nat)
    BY WaitAssumption DEF UnderWay
  <2>2. /\ f[x] = (IF x[1] = t THEN <<t, x[2] - 1>> ELSE x)
        /\ f[y] = (IF y[1] = t THEN <<t, y[2] - 1>> ELSE y)
    OBVIOUS
  <2>3. x = <<x[1], x[2]>> /\ y = <<y[1], y[2]>> /\ x[2] \in Nat /\ y[2] \in Nat
    BY <2>1
  <2> HIDE DEF f
  <2>4. f[x][1] = x[1] /\ f[y][1] = y[1]
    BY <2>2
  <2>5. x[1] = y[1]
    BY <1>5, <2>4
  <2>6. CASE x[1] = t
    <3>1. <<t, x[2] - 1>> = <<t, y[2] - 1>>
      BY <1>5, <2>2, <2>5, <2>6
    <3>2. x[2] = y[2]
      BY <2>3, <3>1
    <3> QED
      BY <2>3, <2>5, <3>2
  <2>7. CASE x[1] # t
    BY <1>5, <2>2, <2>5, <2>7
  <2> QED
    BY <2>6, <2>7
<1>6. f \in [S -> T]
  BY <1>4
<1>7. f \in Injection(S, T)
  BY <1>5, <1>6 DEF Injection, IsInjective
<1>8. IsFiniteSet(T) /\ Cardinality(T) \in Nat
  BY FiniteMessages DEF UnderWay
<1>9. IsFiniteSet(UnderWay(p, k)) /\ Cardinality(UnderWay(p, k)) \in Nat
  BY FiniteMessages DEF UnderWay
<1>10. Cardinality(S) <= Cardinality(T)
  <2> HIDE DEF S, T, f
  <2> QED
    BY <1>7, <1>8, FS_Injection
<1>11. Cardinality(S) = IF <<t, 1>> \in UnderWay(p, k) THEN Cardinality(UnderWay(p, k)) - 1
                        ELSE Cardinality(UnderWay(p, k))
  BY <1>9, FS_RemoveElement
<1>12. <<t, 1>> \in UnderWay(p, k) => k = m
  BY <1>3 DEF UnderWay
<1>13. UnderWay(p, k) # {} /\ k # m => T # {}
  BY <1>4, <1>12
<1> HIDE DEF S, T, f
<1> QED
  BY <1>8, <1>9, <1>10, <1>11, <1>12, <1>13 DEF T

(* The bound on messages under way. *)
LEMMA SentStep ==
  ASSUME TypeOK, SentBounded, ~race, [Next]_vars
  PROVE  SentBounded'
<1> SUFFICES ASSUME NEW u \in Threads PROVE Len(sent'[u]) <= MaxSent
  BY DEF SentBounded
<1>1. /\ sent \in [Threads -> Seq({"notify", "all"})] /\ sent[u] \in Seq({"notify", "all"})
      /\ Len(sent[u]) \in Nat /\ Len(sent[u]) <= MaxSent /\ MaxSent \in Nat
  BY WaitAssumption DEF TypeOK, SentBounded
<1>2. CASE UNCHANGED sent
  BY <1>1, <1>2
<1>3. ASSUME NEW t \in Threads, NEW m \in {"notify", "all"}, MaySend, Send(t, m)
      PROVE  Len(sent'[u]) <= MaxSent
  <2>1. Len(sent[u]) < MaxSent
    BY <1>3, MaySendBound
  <2>2. sent'[u] = sent[u] \/ sent'[u] = Append(sent[u], m)
    BY <1>1, <1>3 DEF Send
  <2> QED
    BY <1>1, <2>1, <2>2
<1>4. ASSUME NEW t \in Threads, Notify(t) \/ NotifyAll(t)
      PROVE  Len(sent'[u]) <= MaxSent
  <2>1. UNCHANGED sent \/ \E m \in {"notify", "all"} : MaySend /\ Send(t, m)
    BY <1>4 DEF Notify, NotifyAll
  <2> QED
    BY <1>2, <1>3, <2>1
<1>5. ASSUME NEW t \in Threads, PerformNotify(t) \/ PerformAll(t)
      PROVE  Len(sent'[u]) <= MaxSent
  <2>1. sent[t] # <<>> /\ sent' = [sent EXCEPT ![t] = Tail(@)]
    BY <1>5 DEF PerformNotify, PerformAll, Receive
  <2>2. sent'[u] = sent[u] \/ (sent[u] # <<>> /\ sent'[u] = Tail(sent[u]))
    BY <1>1, <2>1
  <2> QED
    BY <1>1, <2>2
<1> QED
  BY <1>2, <1>4, <1>5 DEF Next, Step, vars, LockObject, UnlockObject, WaitEnter,
    WaitSleep, Wake, Relock, Interrupt, Grant, Migrate

(* No more waiters to count, and no fewer messages. *)
LEMMA NoMoreWaiters ==
  ASSUME TypeOK, WaitersCounted, UNCHANGED <<owner, remote>>, wasted => wasted',
         Asleep(Peer(owner))' \subseteq Asleep(Peer(owner)),
         \A m \in {"notify", "all"} :
           UnderWay(Peer(owner), m) \subseteq UnderWay(Peer(owner), m)'
  PROVE  WaitersCounted'
<1> DEFINE p == Peer(owner)
           A == Asleep(p)
           B == Asleep(p)'
           M == UnderWay(p, "notify")
           N == UnderWay(p, "notify")'
<1>1. A \in SUBSET Threads /\ IsFiniteSet(A) /\ Cardinality(A) \in Nat
  BY FiniteWaiters DEF Asleep
<1>2. Cardinality(B) \in Nat /\ Cardinality(B) <= Cardinality(A)
  <2>1. B \in SUBSET Threads
    BY DEF Asleep
  <2>2. B \subseteq A
    OBVIOUS
  <2> HIDE DEF A, B
  <2> QED
    BY <1>1, <2>1, <2>2, FiniteWaiters, FS_Subset
<1>3. Cardinality(M) \in Nat /\ Cardinality(N) \in Nat /\ Cardinality(M) <= Cardinality(N)
  <2>1. /\ M \in SUBSET (Threads \X (1 .. MaxSent))
        /\ N \in SUBSET (Threads \X (1 .. MaxSent)) /\ M \subseteq N
    BY DEF UnderWay
  <2> HIDE DEF M, N
  <2> QED
    BY <2>1, FiniteMessages, FS_Subset
<1>4. CASE wasted \/ UnderWay(p, "all") # {}
  BY <1>4 DEF WaitersCounted
<1>5. CASE remote + Cardinality(M) >= Cardinality(A)
  <2>1. remote \in Nat
    BY DEF TypeOK
  <2>2. remote' + Cardinality(N) >= Cardinality(B)
    BY <1>1, <1>2, <1>3, <1>5, <2>1
  <2> QED
    BY <2>2 DEF WaitersCounted
<1> QED
  BY <1>4, <1>5 DEF WaitersCounted

(* A notifier trades one of the count for one message; a message that wakes *)
(* nobody asleep is wasted; the count is taken anew with the ownership.     *)
LEMMA CountStep ==
  ASSUME TypeOK, TypeOK', OneInside, WaitSetExact, SentBounded, WaitersCounted,
         ~race, [Next]_vars
  PROVE  WaitersCounted'
<1> DEFINE p == Peer(owner)
<1>0. /\ p \in End /\ p # owner /\ \A e \in End : e = p \/ e = owner
      /\ \A t \in Threads : at[t] \in End /\ (pc[t] = "hold" => at[t] = owner)
      /\ remote \in Nat
  BY DEF TypeOK, End, Peer, OneInside
<1>1. CASE \E t \in Threads : LockObject(t) \/ UnlockObject(t) \/ WaitEnter(t)
                              \/ WaitSleep(t) \/ Wake(t) \/ Relock(t) \/ Interrupt(t)
  <2>1. UNCHANGED <<at, owner, remote, sent, wasted>>
    BY <1>1 DEF LockObject, UnlockObject, WaitEnter, WaitSleep, Wake, Relock, Interrupt
  <2>2. Asleep(p)' \subseteq Asleep(p)
    BY <1>0, <1>1 DEF TypeOK, Asleep, Go, LockObject, UnlockObject, WaitEnter, WaitSleep,
      Wake, Relock, Interrupt
  <2> QED
    BY <2>1, <2>2, NoMoreWaiters DEF UnderWay
<1>2. ASSUME NEW t \in Threads, Notify(t) PROVE WaitersCounted'
  <2>1. UNCHANGED <<at, pc, owner, wasted>> /\ at[t] # p /\ MaySend
    BY <1>0, <1>2 DEF Notify
  <2>2. \A u \in Threads : woken[u] => woken'[u]
    BY <1>2 DEF Notify, TypeOK
  <2>3. Asleep(p)' \subseteq Asleep(p)
    BY <2>1, <2>2 DEF Asleep
  <2>4. CASE UNCHANGED <<remote, sent>>
    BY <2>1, <2>3, <2>4, NoMoreWaiters DEF UnderWay
  <2>5. CASE remote > 0 /\ remote' = remote - 1 /\ Send(t, "notify")
    <3> DEFINE A == Asleep(p)
               B == Asleep(p)'
               M == UnderWay(p, "notify")
               N == UnderWay(p, "notify")'
    <3>1. /\ Cardinality(N) = Cardinality(M) + 1
          /\ UnderWay(p, "all") \subseteq UnderWay(p, "all")'
      BY <1>0, <2>1, <2>5, SendCounts
    <3>2. Cardinality(M) \in Nat
      BY FiniteMessages DEF UnderWay
    <3>3. Cardinality(A) \in Nat /\ Cardinality(B) \in Nat /\ Cardinality(B) <= Cardinality(A)
      <4>1. A \in SUBSET Threads /\ B \in SUBSET Threads /\ B \subseteq A
        BY <2>3 DEF Asleep
      <4> HIDE DEF A, B
      <4> QED
        BY <4>1, FiniteWaiters, FS_Subset
    <3>4. CASE wasted \/ UnderWay(p, "all") # {}
      BY <2>1, <3>1, <3>4 DEF WaitersCounted
    <3>5. CASE remote + Cardinality(M) >= Cardinality(A)
      <4>1. remote' + Cardinality(N) >= Cardinality(B)
        BY <1>0, <2>5, <3>1, <3>2, <3>3, <3>5
      <4> QED
        BY <2>1, <4>1 DEF WaitersCounted
    <3> QED
      BY <3>4, <3>5 DEF WaitersCounted
  <2> QED
    BY <1>2, <2>4, <2>5 DEF Notify
<1>3. ASSUME NEW t \in Threads, NotifyAll(t) PROVE WaitersCounted'
  <2>1. UNCHANGED <<at, pc, owner, wasted>> /\ at[t] # p /\ MaySend /\ remote' = 0
    BY <1>0, <1>3 DEF NotifyAll
  <2>2. \A u \in Threads : woken[u] => woken'[u]
    BY <1>3 DEF NotifyAll
  <2>3. Asleep(p)' \subseteq Asleep(p)
    BY <2>1, <2>2 DEF Asleep
  <2>4. CASE remote > 0
    <3>1. Send(t, "all")
      BY <1>3, <2>4 DEF NotifyAll
    <3>2. UnderWay(p, "all")' # {}
      BY <1>0, <2>1, <3>1, SendCounts
    <3> QED
      BY <2>1, <3>2 DEF WaitersCounted
  <2>5. CASE remote = 0
    <3>1. UNCHANGED <<remote, sent>>
      BY <1>3, <2>1, <2>5 DEF NotifyAll
    <3> QED
      BY <2>1, <2>3, <3>1, NoMoreWaiters DEF UnderWay
  <2> QED
    BY <1>0, <2>4, <2>5
<1>4. ASSUME NEW t \in Threads, PerformNotify(t) \/ PerformAll(t), at[t] = p
      PROVE  WaitersCounted'
  <2>1. UNCHANGED <<at, pc, owner, remote>> /\ (wasted => wasted')
    BY <1>4 DEF PerformNotify, PerformAll, Receive, Spent
  <2>2. \A u \in Threads : woken[u] => woken'[u]
    <3>1. woken \in [Threads -> BOOLEAN]
      BY DEF TypeOK
    <3>2. CASE PerformNotify(t)
      BY <3>1, <3>2 DEF PerformNotify
    <3>3. CASE PerformAll(t)
      BY <3>1, <3>3 DEF PerformAll
    <3> QED
      BY <1>4, <3>2, <3>3
  <2>3. \A u \in Threads : u # t => sent'[u] = sent[u]
    BY <1>4 DEF PerformNotify, PerformAll, Receive, TypeOK
  <2>4. Asleep(p)' \subseteq Asleep(p)
    BY <2>1, <2>2 DEF Asleep
  <2>5. \A m \in {"notify", "all"} : UnderWay(p, m) \subseteq UnderWay(p, m)'
    BY <1>4, <2>1, <2>3 DEF UnderWay
  <2> QED
    BY <2>1, <2>4, <2>5, NoMoreWaiters
<1>5. ASSUME NEW t \in Threads, PerformNotify(t), at[t] # p PROVE WaitersCounted'
  <2> DEFINE A == Asleep(p)
             B == Asleep(p)'
             M == UnderWay(p, "notify")
             N == UnderWay(p, "notify")'
  <2>1. UNCHANGED <<at, pc, owner, remote>> /\ Receive(t, "notify") /\ Peer(at[t]) = p
    BY <1>0, <1>5 DEF PerformNotify, Receive, Peer, End
  <2>2. Cardinality(M) - 1 <= Cardinality(N) /\ (UnderWay(p, "all") # {} => UnderWay(p, "all")' # {})
    <3>1. Cardinality(M) - (IF "notify" = "notify" THEN 1 ELSE 0) <= Cardinality(N)
      BY <1>0, <1>5, <2>1, ReceiveCounts
    <3>2. UnderWay(p, "all") # {} /\ "all" # "notify" => UnderWay(p, "all")' # {}
      BY <1>0, <1>5, <2>1, ReceiveCounts
    <3> QED
      BY <3>1, <3>2
  <2>3. Cardinality(M) \in Nat /\ Cardinality(N) \in Nat
    BY FiniteMessages DEF UnderWay
  <2>4. A \in SUBSET Threads /\ B \in SUBSET Threads /\ B \subseteq A
    BY <1>5, <2>1 DEF PerformNotify, Asleep, TypeOK
  <2>5. Cardinality(A) \in Nat /\ Cardinality(B) \in Nat /\ IsFiniteSet(A) /\ IsFiniteSet(B)
    <3> HIDE DEF A, B
    <3> QED
      BY <2>4, FiniteWaiters
  <2>6. CASE wasted' \/ UnderWay(p, "all") # {}
    BY <2>1, <2>2, <2>6 DEF WaitersCounted
  <2>7. CASE ~wasted' /\ UnderWay(p, "all") = {}
    <3>1. ~wasted /\ (A = {} \/ \E u \in A : woken'[u])
      BY <1>0, <1>5, <2>1, <2>7 DEF PerformNotify, Spent, Asleep, TypeOK
    <3>2. remote + Cardinality(M) >= Cardinality(A)
      BY <2>7, <3>1 DEF WaitersCounted
    <3>3. CASE A = {}
      <4>1. B = {}
        BY <2>4, <3>3
      <4>2. Cardinality(B) = 0
        BY <4>1, FS_EmptySet
      <4>3. remote' + Cardinality(N) >= Cardinality(B)
        BY <1>0, <2>1, <2>3, <4>2
      <4> QED
        BY <2>1, <4>3 DEF WaitersCounted
    <3>4. CASE \E u \in A : woken'[u]
      <4>1. PICK u \in A : woken'[u]
        BY <3>4
      <4>2. B \subseteq A \ {u}
        BY <2>4, <4>1 DEF Asleep
      <4>3. Cardinality(B) <= Cardinality(A) - 1
        <5> HIDE DEF A, B
        <5>1. IsFiniteSet(A \ {u}) /\ Cardinality(A \ {u}) = Cardinality(A) - 1
          BY <2>5, <4>1, FS_RemoveElement
        <5> QED
          BY <4>2, <5>1, FS_Subset
      <4>4. remote' + Cardinality(N) >= Cardinality(B)
        BY <1>0, <2>1, <2>2, <2>3, <2>5, <3>2, <4>3
      <4> QED
        BY <2>1, <4>4 DEF WaitersCounted
    <3> QED
      BY <3>1, <3>3, <3>4
  <2> QED
    BY <2>6, <2>7
<1>6. ASSUME NEW t \in Threads, PerformAll(t), at[t] # p PROVE WaitersCounted'
  <2>1. UNCHANGED <<at, pc, owner, remote>> /\ Peer(at[t]) = p
    BY <1>0, <1>6 DEF PerformAll, Receive, Peer, End
  <2>2. CASE wasted'
    BY <2>2 DEF WaitersCounted
  <2>3. CASE ~wasted'
    <3>1. Asleep(p) \subseteq {u \in Threads : Waiting(u, p)}
      BY <1>0, <1>6, <2>1, <2>3 DEF PerformAll
    <3>2. \A u \in Asleep(p) : woken'[u]
      BY <1>6, <2>1, <3>1 DEF PerformAll, Asleep
    <3>3. Asleep(p)' \subseteq Asleep(p)
      BY <1>6, <2>1 DEF PerformAll, Asleep
    <3>4. Asleep(p)' = {}
      BY <3>2, <3>3 DEF Asleep
    <3>5. Cardinality(Asleep(p)') = 0
      BY <3>4, FS_EmptySet
    <3>6. Cardinality(UnderWay(p, "notify")') \in Nat
      BY FiniteMessages DEF UnderWay
    <3>7. remote' + Cardinality(UnderWay(p, "notify")') >= Cardinality(Asleep(p)')
      BY <1>0, <2>1, <3>5, <3>6
    <3> QED
      BY <2>1, <3>7 DEF WaitersCounted
  <2> QED
    BY <2>2, <2>3
<1>7. ASSUME NEW e \in End, Take(e), UNCHANGED waitSet, Asleep(Peer(e))' \subseteq Asleep(Peer(e))
      PROVE  WaitersCounted'
  <2> DEFINE q == Peer(e)
             B == Asleep(q)'
  <2>1. q \in End /\ waitSet[q] \in Seq(Threads)
    BY DEF Peer, End, TypeOK
  <2>2. Asleep(q) \subseteq Range(waitSet[q])
    BY <2>1 DEF WaitSetExact
  <2>3. Cardinality(B) <= Len(waitSet[q])
    <3> HIDE DEF B, q
    <3> QED
      BY <1>7, <2>1, <2>2, WaitersAtMost DEF B, q
  <2>4. Cardinality(B) \in Nat /\ Cardinality(UnderWay(q, "notify")') \in Nat
    BY FiniteWaiters, FiniteMessages DEF UnderWay, Asleep
  <2>5. owner' = e /\ remote' = Len(waitSet[q]) /\ Len(waitSet[q]) \in Nat
    BY <1>7, <2>1 DEF Take
  <2>6. remote' + Cardinality(UnderWay(q, "notify")') >= Cardinality(B)
    BY <2>3, <2>4, <2>5
  <2>7. Peer(owner)' = q
    BY <2>5 DEF Peer
  <2> QED
    BY <2>6, <2>7 DEF WaitersCounted
<1>8. ASSUME NEW t \in Threads, Grant(t) PROVE WaitersCounted'
  <2>1. Take(at[t]) /\ UNCHANGED <<at, pc, woken, waitSet>>
    BY <1>8 DEF Grant
  <2>2. \A e \in End : Asleep(e)' \subseteq Asleep(e)
    BY <2>1 DEF Asleep
  <2> QED
    BY <1>0, <1>7, <2>1, <2>2 DEF Peer, End
<1>9. ASSUME NEW t \in Threads, Migrate(t) PROVE WaitersCounted'
  <2> DEFINE e == Peer(at[t])
  <2>1. /\ e \in End /\ UNCHANGED <<pc, woken, waitSet, sent>> /\ sent[t] = <<>>
        /\ pc[t] \in {"run", "hold"} /\ at' = [at EXCEPT ![t] = e]
        /\ Take(e) \/ UNCHANGED <<owner, remote, wasted>>
    BY <1>0, <1>9 DEF Migrate, Peer, End
  <2>2. \A x \in End : Asleep(x)' \subseteq Asleep(x)
    BY <2>1 DEF Asleep, TypeOK
  <2>3. CASE Take(e)
    BY <1>7, <2>1, <2>2, <2>3 DEF Peer, End
  <2>4. CASE UNCHANGED <<owner, remote, wasted>>
    <3>1. \A m \in {"notify", "all"} : UnderWay(p, m) \subseteq UnderWay(p, m)'
      <4> SUFFICES ASSUME NEW m \in {"notify", "all"}, NEW x \in UnderWay(p, m)
                   PROVE  x \in UnderWay(p, m)'
        OBVIOUS
      <4>1. /\ x \in Threads \X (1 .. MaxSent) /\ at[x[1]] # p /\ x[2] <= Len(sent[x[1]])
            /\ sent[x[1]][x[2]] = m
        BY DEF UnderWay
      <4>2. x[1] # t
        BY <2>1, <4>1, WaitAssumption
      <4>3. at'[x[1]] = at[x[1]]
        BY <2>1, <4>1, <4>2 DEF TypeOK
      <4> QED
        BY <2>1, <2>4, <4>1, <4>3 DEF UnderWay
    <3> QED
      BY <1>0, <2>2, <2>4, <3>1, NoMoreWaiters
  <2> QED
    BY <2>1, <2>3, <2>4
<1>10. CASE UNCHANGED vars
  BY <1>10, NoMoreWaiters DEF vars, Asleep, UnderWay
<1> QED
  BY <1>1, <1>2, <1>3, <1>4, <1>5, <1>6, <1>8, <1>9, <1>10 DEF Next, Step

(* The mutex is left before another thread gets it. *)
LEMMA MutexStep ==
  ASSUME TypeOK, OneMutex, ~race, [Next]_vars
  PROVE  OneMutex'
<1> USE WaitAssumption DEF TypeOK, OneMutex, Peer, End, Pc, Go
<1>1. ASSUME NEW t \in Threads, LockObject(t) PROVE OneMutex'
  BY <1>1 DEF LockObject, Free
<1>2. ASSUME NEW t \in Threads, UnlockObject(t) PROVE OneMutex'
  BY <1>2 DEF UnlockObject
<1>3. ASSUME NEW t \in Threads, WaitEnter(t) PROVE OneMutex'
  BY <1>3 DEF WaitEnter
<1>4. ASSUME NEW t \in Threads, WaitSleep(t) PROVE OneMutex'
  BY <1>4 DEF WaitSleep
<1>5. ASSUME NEW t \in Threads, Wake(t) PROVE OneMutex'
  BY <1>5 DEF Wake
<1>6. ASSUME NEW t \in Threads, Relock(t) PROVE OneMutex'
  BY <1>6 DEF Relock, Free
<1>7. ASSUME NEW t \in Threads, Notify(t) PROVE OneMutex'
  BY <1>7 DEF Notify, Send, FoundLocal
<1>8. ASSUME NEW t \in Threads, NotifyAll(t) PROVE OneMutex'
  BY <1>8 DEF NotifyAll, Send
<1>9. ASSUME NEW t \in Threads, PerformNotify(t) PROVE OneMutex'
  BY <1>9 DEF PerformNotify, Receive, Waiting
<1>10. ASSUME NEW t \in Threads, PerformAll(t) PROVE OneMutex'
  BY <1>10 DEF PerformAll, Receive, Waiting
<1>11. ASSUME NEW t \in Threads, Interrupt(t) PROVE OneMutex'
  BY <1>11 DEF Interrupt
<1>12. ASSUME NEW t \in Threads, Grant(t) PROVE OneMutex'
  BY <1>12 DEF Grant, Free, Take
<1>13. ASSUME NEW t \in Threads, Migrate(t) PROVE OneMutex'
  BY <1>13 DEF Migrate, Free, Take, MayGive
<1>14. CASE UNCHANGED vars
  BY <1>14 DEF vars
<1>15. QED
  BY <1>1, <1>2, <1>3, <1>4, <1>5, <1>6, <1>7, <1>8, <1>9, <1>10, <1>11,
    <1>12, <1>13, <1>14 DEF Next, Step

(* The flag is set with a signal, and a thread that sleeps has looked at it. *)
LEMMA InterruptStep ==
  ASSUME TypeOK, InterruptWakes, ~race, [Next]_vars
  PROVE  InterruptWakes'
<1> USE WaitAssumption DEF TypeOK, InterruptWakes, End, Pc, Go
<1>1. ASSUME NEW t \in Threads, LockObject(t) PROVE InterruptWakes'
  BY <1>1 DEF LockObject, Free
<1>2. ASSUME NEW t \in Threads, UnlockObject(t) PROVE InterruptWakes'
  BY <1>2 DEF UnlockObject
<1>3. ASSUME NEW t \in Threads, WaitEnter(t) PROVE InterruptWakes'
  BY <1>3 DEF WaitEnter
<1>4. ASSUME NEW t \in Threads, WaitSleep(t) PROVE InterruptWakes'
  BY <1>4 DEF WaitSleep
<1>5. ASSUME NEW t \in Threads, Wake(t) PROVE InterruptWakes'
  BY <1>5 DEF Wake
<1>6. ASSUME NEW t \in Threads, Relock(t) PROVE InterruptWakes'
  BY <1>6 DEF Relock, Free
<1>7. ASSUME NEW t \in Threads, Notify(t) PROVE InterruptWakes'
  BY <1>7 DEF Notify, Send, FoundLocal
<1>8. ASSUME NEW t \in Threads, NotifyAll(t) PROVE InterruptWakes'
  BY <1>8 DEF NotifyAll, Send
<1>9. ASSUME NEW t \in Threads, PerformNotify(t) PROVE InterruptWakes'
  BY <1>9 DEF PerformNotify, Receive, Waiting
<1>10. ASSUME NEW t \in Threads, PerformAll(t) PROVE InterruptWakes'
  BY <1>10 DEF PerformAll, Receive, Waiting
<1>11. ASSUME NEW t \in Threads, Interrupt(t) PROVE InterruptWakes'
  BY <1>11 DEF Interrupt
<1>12. ASSUME NEW t \in Threads, Grant(t) PROVE InterruptWakes'
  BY <1>12 DEF Grant, Free, Take
<1>13. ASSUME NEW t \in Threads, Migrate(t) PROVE InterruptWakes'
  BY <1>13 DEF Migrate, Free, Take, MayGive
<1>14. CASE UNCHANGED vars
  BY <1>14 DEF vars
<1>15. QED
  BY <1>1, <1>2, <1>3, <1>4, <1>5, <1>6, <1>7, <1>8, <1>9, <1>10, <1>11,
    <1>12, <1>13, <1>14 DEF Next, Step

(* The ownership moves only when nobody is inside, or with whoever is. *)
LEMMA InsideStep ==
  ASSUME TypeOK, OneMutex, OneInside, ~race, [Next]_vars
  PROVE  OneInside'
<1> USE WaitAssumption DEF TypeOK, OneMutex, OneInside, Peer, End, Pc, Go
<1>1. ASSUME NEW t \in Threads, LockObject(t) PROVE OneInside'
  BY <1>1 DEF LockObject, Free
<1>2. ASSUME NEW t \in Threads, UnlockObject(t) PROVE OneInside'
  BY <1>2 DEF UnlockObject
<1>3. ASSUME NEW t \in Threads, WaitEnter(t) PROVE OneInside'
  BY <1>3 DEF WaitEnter
<1>4. ASSUME NEW t \in Threads, WaitSleep(t) PROVE OneInside'
  BY <1>4 DEF WaitSleep
<1>5. ASSUME NEW t \in Threads, Wake(t) PROVE OneInside'
  BY <1>5 DEF Wake
<1>6. ASSUME NEW t \in Threads, Relock(t) PROVE OneInside'
  BY <1>6 DEF Relock, Free
<1>7. ASSUME NEW t \in Threads, Notify(t) PROVE OneInside'
  BY <1>7 DEF Notify, Send, FoundLocal
<1>8. ASSUME NEW t \in Threads, NotifyAll(t) PROVE OneInside'
  BY <1>8 DEF NotifyAll, Send
<1>9. ASSUME NEW t \in Threads, PerformNotify(t) PROVE OneInside'
  BY <1>9 DEF PerformNotify, Receive, Waiting
<1>10. ASSUME NEW t \in Threads, PerformAll(t) PROVE OneInside'
  BY <1>10 DEF PerformAll, Receive, Waiting
<1>11. ASSUME NEW t \in Threads, Interrupt(t) PROVE OneInside'
  BY <1>11 DEF Interrupt
<1>12. ASSUME NEW t \in Threads, Grant(t) PROVE OneInside'
  BY <1>12 DEF Grant, Free, Take
<1>13. ASSUME NEW t \in Threads, Migrate(t) PROVE OneInside'
  BY <1>13 DEF Migrate, Free, Take, MayGive
<1>14. CASE UNCHANGED vars
  BY <1>14 DEF vars
<1>15. QED
  BY <1>1, <1>2, <1>3, <1>4, <1>5, <1>6, <1>7, <1>8, <1>9, <1>10, <1>11,
    <1>12, <1>13, <1>14 DEF Next, Step

-----------------------------------------------------------------------------
(* The invariant. *)

IInv == /\ TypeOK /\ OneMutex /\ WaitSetExact /\ InterruptWakes /\ OneInside
        /\ SentBounded /\ WaitersCounted

LEMMA Initially == Init => IInv
<1> SUFFICES ASSUME Init PROVE IInv
  OBVIOUS
<1> USE WaitAssumption DEF Init
<1>1. TypeOK /\ OneMutex /\ InterruptWakes /\ OneInside
  <2>1. <<>> \in Seq(Threads) /\ <<>> \in Seq({"notify", "all"})
    OBVIOUS
  <2>2. TypeOK
    BY <2>1 DEF TypeOK, Pc, End
  <2>3. OneMutex /\ InterruptWakes /\ OneInside
    BY DEF OneMutex, InterruptWakes, OneInside
  <2> QED
    BY <2>2, <2>3
<1>2. WaitSetExact
  BY DEF WaitSetExact, Asleep, End, Range
<1>3. SentBounded
  BY DEF SentBounded
<1>4. WaitersCounted
  <2>1. Asleep(Peer(owner)) = {}
    BY DEF Asleep
  <2>2. Cardinality(Asleep(Peer(owner))) = 0
    BY <2>1, FS_EmptySet
  <2>3. Cardinality(UnderWay(Peer(owner), "notify")) \in Nat
    BY FiniteMessages DEF UnderWay
  <2>4. remote + Cardinality(UnderWay(Peer(owner), "notify")) >= 0
    BY <2>3
  <2> QED
    BY <2>2, <2>4 DEF WaitersCounted
<1> QED
  BY <1>1, <1>2, <1>3, <1>4 DEF IInv

LEMMA Inductive == IInv /\ [Next]_vars => IInv'
<1> SUFFICES ASSUME IInv, [Next]_vars PROVE IInv'
  OBVIOUS
<1>1. CASE ~race
  BY <1>1, TypeStep, MutexStep, WaitSetStep, InterruptStep, InsideStep, SentStep,
    CountStep DEF IInv
<1>2. CASE race
  <2>1. UNCHANGED vars
    BY <1>2 DEF Next
  <2> QED
    BY <2>1 DEF IInv, vars, TypeOK, OneMutex, WaitSetExact, InterruptWakes, OneInside,
      SentBounded, WaitersCounted, Asleep, UnderWay
<1> QED
  BY <1>1, <1>2

LEMMA Always == Spec => []IInv
  BY Initially, Inductive, PTL DEF Spec

-----------------------------------------------------------------------------
(* The theorems. *)

\* Every variable has its type (the fields of Thread, Monitor and
\* ObjectOffInfo that waitMonitor and the notify family use), in particular
\* remoteWaitCount does not go below 0.
THEOREM TypeCorrect == Spec => []TypeOK
<1>1. IInv => TypeOK
  BY DEF IInv
<1> QED
  BY <1>1, Always, PTL

\* Whoever sleeps in Object.wait without having been woken is in the waitSet of
\* its endpoint, once, and nobody is who is not waiting there, whichever of
\* waitSetRemove, notifyMonitor and notifyAllMonitor takes threads off.
THEOREM WaitSetsExact == Spec => []WaitSetExact
<1>1. IInv => WaitSetExact
  BY DEF IInv
<1> QED
  BY <1>1, Always, PTL

\* No interrupt is lost between the look at the flag and the sleep of
\* waitMonitor.
THEOREM InterruptsWake == Spec => []InterruptWakes
<1>1. IInv => InterruptWakes
  BY DEF IInv
<1> QED
  BY <1>1, Always, PTL

\* At most one thread at both endpoints together is inside the monitor, until
\* one bails out of waitMonitor without the ownership.
THEOREM Exclusion == Spec => []OneInside
<1>1. IInv => OneInside
  BY DEF IInv
<1> QED
  BY <1>1, Always, PTL

\* Until a message has been spent on a thread that was awake, the count of
\* waiters that travels with the ownership and the messages under way are enough
\* for all who wait at the other endpoint.
THEOREM NoWaiterForgotten == Spec => []WaitersCounted
<1>1. IInv => WaitersCounted
  BY DEF IInv
<1> QED
  BY <1>1, Always, PTL
=============================================================================
