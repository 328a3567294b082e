-------------------------- MODULE ThreadPoolProofs --------------------------
(***************************************************************************)
(* Theorems about ThreadPool, for any set of workers and callers, any set  *)
(* of tasks and any capacity.  IInv is the inductive invariant; its parts  *)
(* are named, and each is preserved with the help of the others.           *)
(***************************************************************************)
EXTENDS ThreadPool, FiniteSetTheorems, SequenceTheorems, TLAPS

\* Where a thread is decides whether it carries a task.
Roles ==
    /\ \A c \in Callers : callerTask[c] = NoTask <=> callerPC[c] \in {"idle", "notify"}
    /\ \A w \in Workers : workerTask[w] = NoTask <=> workerPC[w] # "execute"
    /\ stop <=> ownerPC # "running"
    /\ \A w \in Workers : workerPC[w] = "exited" => stop
    /\ ownerPC = "done" => \A w \in Workers : workerPC[w] = "exited"

\* A task that a caller still carries is nowhere else, and only tasks offered to
\* enqueue are anywhere.
Fresh ==
    /\ \A c \in Callers : callerTask[c] # NoTask =>
          /\ callerTask[c] \in offered
          /\ callerTask[c] \notin Range(tasks) \cup executed \cup backlog
          /\ \A w \in Workers : workerTask[w] # callerTask[c]
          /\ \A d \in Callers : callerTask[d] = callerTask[c] => d = c
    /\ Range(tasks) \subseteq offered
    /\ executed \subseteq offered
    /\ backlog \subseteq offered
    /\ \A w \in Workers : workerTask[w] \in offered \cup {NoTask}

\* No task of the backlog is lost, and none is queued once a worker has left.
BacklogKept ==
    /\ ~stop => backlog = {}
    /\ \A t \in backlog : \/ t \in executed \cup Range(tasks)
                          \/ \E w \in Workers : workerTask[w] = t
    /\ (\E w \in Workers : workerPC[w] = "exited") => backlog \cap Range(tasks) = {}

\* A caller that has passed the capacity check already has its place.
Admission ==
    MaxQueueSize > 0 =>
       pending_tasks + Cardinality(Charging) < MaxQueueSize + Cardinality(Callers)

IInv == TypeOK /\ PendingExact /\ Admission /\ Roles /\ Fresh /\ BacklogKept

-----------------------------------------------------------------------------
(* Sequences seen as the set of their elements. *)

LEMMA RangeEmpty == Range(<<>>) = {}
BY DEF Range

LEMMA RangeAppend ==
    ASSUME NEW S, NEW s \in Seq(S), NEW e \in S
    PROVE  Range(Append(s, e)) = Range(s) \cup {e}
<1>1. /\ DOMAIN Append(s, e) = 1 .. Len(s) + 1
      /\ \A i \in 1 .. Len(s) : Append(s, e)[i] = s[i]
      /\ Append(s, e)[Len(s) + 1] = e
      /\ DOMAIN s = 1 .. Len(s) /\ Len(s) \in Nat
  OBVIOUS
<1>2. 1 .. Len(s) + 1 = (1 .. Len(s)) \cup {Len(s) + 1}
  BY <1>1
<1>3. QED
  BY <1>1, <1>2, Zenon DEF Range

LEMMA RangeTail ==
    ASSUME NEW S, NEW s \in Seq(S), s # <<>>
    PROVE  Range(s) = {Head(s)} \cup Range(Tail(s))
<1>1. /\ DOMAIN s = 1 .. Len(s) /\ Len(s) \in Nat \ {0}
      /\ DOMAIN Tail(s) = 1 .. Len(s) - 1
      /\ Head(s) = s[1]
      /\ \A i \in 1 .. Len(s) - 1 : Tail(s)[i] = s[i + 1]
  OBVIOUS
<1>2. \A x \in Range(s) : x = Head(s) \/ x \in Range(Tail(s))
  <2>1. TAKE x \in Range(s)
  <2>2. PICK i \in 1 .. Len(s) : x = s[i]
    BY <1>1 DEF Range
  <2>3. CASE i = 1
    BY <1>1, <2>2, <2>3
  <2>4. CASE i # 1
    <3>1. i - 1 \in 1 .. Len(s) - 1 /\ Tail(s)[i - 1] = s[i]
      BY <1>1, <2>4
    <3>2. QED
      BY <1>1, <2>2, <3>1 DEF Range
  <2>5. QED
    BY <2>3, <2>4
<1>3. Head(s) \in Range(s)
  BY <1>1 DEF Range
<1>4. \A x \in Range(Tail(s)) : x \in Range(s)
  <2>1. TAKE x \in Range(Tail(s))
  <2>2. PICK i \in 1 .. Len(s) - 1 : x = s[i + 1]
    BY <1>1 DEF Range
  <2>3. i + 1 \in 1 .. Len(s)
    BY <1>1
  <2>4. QED
    BY <1>1, <2>2, <2>3 DEF Range
<1>5. QED
  BY <1>2, <1>3, <1>4

-----------------------------------------------------------------------------
(* The three counted sets are finite. *)

LEMMA Finiteness ==
    /\ IsFiniteSet(Pushing) /\ Cardinality(Pushing) \in Nat
    /\ IsFiniteSet(Charging) /\ Cardinality(Charging) \in Nat
    /\ IsFiniteSet(Working) /\ Cardinality(Working) \in Nat
    /\ Cardinality(Charging) <= Cardinality(Callers)
    /\ Cardinality(Callers) \in Nat \ {0}
<1>1. Pushing \in SUBSET Callers /\ Charging \in SUBSET Callers /\ Working \in SUBSET Workers
  BY DEF Pushing, Charging, Working
<1>2. IsFiniteSet(Callers) /\ IsFiniteSet(Workers) /\ Callers # {}
  BY PoolAssumption
<1>3. IsFiniteSet(Pushing) /\ IsFiniteSet(Charging) /\ IsFiniteSet(Working)
  BY <1>1, <1>2, FS_Subset
<1>4. Cardinality(Charging) <= Cardinality(Callers)
  BY <1>1, <1>2, FS_Subset
<1>5. QED
  BY <1>2, <1>3, <1>4, FS_CardinalityType, FS_EmptySet

LEMMA SubsetOfCallers ==
    ASSUME NEW S \in SUBSET Callers
    PROVE  Cardinality(S) \in Nat /\ Cardinality(S) <= Cardinality(Callers)
BY PoolAssumption, FS_Subset, FS_CardinalityType

LEMMA InitIInv == Init => IInv
<1> SUFFICES ASSUME Init PROVE IInv
  OBVIOUS
<1> USE PoolAssumption DEF Init
<1>1. TypeOK
  <2>1. tasks \in Seq(Tasks)
    BY EmptySeq
  <2>2. pending_tasks \in Nat /\ completed_tasks \in Nat
    OBVIOUS
  <2>3. QED
    BY <2>1, <2>2, Zenon DEF TypeOK, CallerStates, WorkerStates
<1>2. Pushing = {} /\ Charging = {} /\ Working = {}
  BY DEF Pushing, Charging, Working
<1>3. PendingExact
  BY <1>2, FS_EmptySet DEF PendingExact
<1>4. Admission
  BY <1>2, FS_EmptySet, Finiteness DEF Admission
<1>5. Roles
  BY DEF Roles
<1>6. Fresh
  BY RangeEmpty DEF Fresh
<1>7. BacklogKept
  BY RangeEmpty DEF BacklogKept
<1>8. QED
  BY <1>1, <1>3, <1>4, <1>5, <1>6, <1>7 DEF IInv

LEMMA NextIInv == IInv /\ [Next]_vars => IInv'
<1> SUFFICES ASSUME IInv, [Next]_vars PROVE IInv'
  OBVIOUS
<1> USE DEF IInv
<1>1. ASSUME NEW c \in Callers, Call(c) PROVE IInv'
  <2> USE <1>1 DEF Call, workerVars, ownerVars
  <2>1. TypeOK'
    BY DEF TypeOK, CallerStates, WorkerStates
  <2>2. Pushing' = Pushing /\ Charging' = Charging /\ Working' = Working
    BY DEF TypeOK, Pushing, Charging, Working
  <2>3. PendingExact'
    BY <2>2 DEF PendingExact
  <2>4. Admission'
    BY <2>2 DEF Admission
  <2>5. Roles'
    BY PoolAssumption DEF TypeOK, Roles, CallerStates, WorkerStates
  <2>6. Fresh'
    BY DEF TypeOK, Roles, Fresh
  <2>7. BacklogKept'
    BY DEF TypeOK, Roles, Fresh, BacklogKept
  <2>8. QED
    BY <2>1, <2>3, <2>4, <2>5, <2>6, <2>7 DEF IInv
<1>2. ASSUME NEW c \in Callers, CheckStop(c) PROVE IInv'
  <2> USE <1>2 DEF CheckStop, Throw, CallerMoves, workerVars, ownerVars
  <2>1. TypeOK'
    BY DEF TypeOK, CallerStates, WorkerStates
  <2>2. Pushing' = Pushing /\ Charging' = Charging /\ Working' = Working
    BY DEF TypeOK, Pushing, Charging, Working
  <2>3. PendingExact'
    BY <2>2 DEF PendingExact
  <2>4. Admission'
    BY <2>2 DEF Admission
  <2>5. Roles'
    BY DEF TypeOK, Roles, CallerStates, WorkerStates
  <2>6. Fresh'
    BY DEF TypeOK, Roles, Fresh
  <2>7. BacklogKept'
    BY DEF TypeOK, Roles, Fresh, BacklogKept
  <2>8. QED
    BY <2>1, <2>3, <2>4, <2>5, <2>6, <2>7 DEF IInv
<1>3. ASSUME NEW c \in Callers, CheckCapacity(c) PROVE IInv'
  <2> USE <1>3 DEF CheckCapacity, Throw, CallerMoves, workerVars, ownerVars
  <2>1. TypeOK'
    BY DEF TypeOK, CallerStates, WorkerStates
  <2>2. Pushing' = Pushing /\ Working' = Working /\ Charging' \in {Charging, Charging \cup {c}}
    BY DEF TypeOK, Pushing, Charging, Working
  <2>3. PendingExact'
    BY <2>2 DEF PendingExact
  <2>4. Admission'
    <3>1. CASE pending_tasks >= MaxQueueSize
      <4>1. Charging' = Charging
        BY <3>1, PoolAssumption DEF TypeOK, Charging
      <4>2. QED
        BY <3>1, <4>1 DEF Admission
    <3>2. CASE pending_tasks < MaxQueueSize
      <4>1. pending_tasks' = pending_tasks
        OBVIOUS
      <4>2. Charging' \in SUBSET Callers
        BY DEF Charging
      <4>3. Cardinality(Charging') \in Nat /\ Cardinality(Charging') <= Cardinality(Callers)
        BY <4>2, SubsetOfCallers
      <4>4. QED
        BY <3>2, <4>1, <4>3, PoolAssumption, Finiteness DEF Admission, TypeOK
    <3>3. QED
      BY <3>1, <3>2, PoolAssumption DEF TypeOK
  <2>5. Roles'
    BY DEF TypeOK, Roles, CallerStates, WorkerStates
  <2>6. Fresh'
    BY DEF TypeOK, Roles, Fresh
  <2>7. BacklogKept'
    BY DEF TypeOK, Roles, Fresh, BacklogKept
  <2>8. QED
    BY <2>1, <2>3, <2>4, <2>5, <2>6, <2>7 DEF IInv
<1>4. ASSUME NEW c \in Callers, Charge(c) PROVE IInv'
  <2> USE <1>4 DEF Charge, CallerMoves, workerVars, ownerVars
  <2>1. TypeOK'
    BY DEF TypeOK, CallerStates, WorkerStates
  <2>2. Pushing' = Pushing \cup {c} /\ c \notin Pushing /\ Charging' = Charging \ {c} /\ c \in Charging /\ Working' = Working
    BY DEF TypeOK, Pushing, Charging, Working
  <2>3. PendingExact'
    <3>1. Cardinality(Pushing') = Cardinality(Pushing) + 1
      BY <2>2, FS_AddElement, FS_RemoveElement, Finiteness
    <3>2. QED
      BY <2>2, <3>1, Finiteness, LenProperties DEF PendingExact, TypeOK
  <2>4. Admission'
    <3>1. Cardinality(Charging') = Cardinality(Charging) - 1
      BY <2>2, FS_AddElement, FS_RemoveElement, Finiteness
    <3>2. QED
      BY <2>2, <3>1, Finiteness, PoolAssumption DEF Admission, TypeOK
  <2>5. Roles'
    BY DEF TypeOK, Roles, CallerStates, WorkerStates
  <2>6. Fresh'
    BY DEF TypeOK, Roles, Fresh
  <2>7. BacklogKept'
    BY DEF TypeOK, Roles, Fresh, BacklogKept
  <2>8. QED
    BY <2>1, <2>3, <2>4, <2>5, <2>6, <2>7 DEF IInv
<1>5. ASSUME NEW c \in Callers, Push(c) PROVE IInv'
  <2> USE <1>5 DEF Push, CallerMoves, workerVars, ownerVars
  <2>0. callerTask[c] \in Tasks /\ Range(tasks') = Range(tasks) \cup {callerTask[c]}
    BY RangeAppend DEF TypeOK, Roles
  <2>1. TypeOK'
    BY <2>0 DEF TypeOK, CallerStates, WorkerStates
  <2>2. Pushing' = Pushing \ {c} /\ c \in Pushing /\ Charging' = Charging /\ Working' = Working
    BY DEF TypeOK, Pushing, Charging, Working
  <2>3. PendingExact'
    <3>1. Cardinality(Pushing') = Cardinality(Pushing) - 1
      BY <2>2, FS_AddElement, FS_RemoveElement, Finiteness
    <3>2. Len(tasks') = Len(tasks) + 1 /\ Len(tasks) \in Nat
      BY <2>0 DEF TypeOK
    <3>3. QED
      BY <2>2, <3>1, <3>2, Finiteness DEF PendingExact, TypeOK
  <2>4. Admission'
    BY <2>2 DEF Admission
  <2>5. Roles'
    BY DEF TypeOK, Roles, CallerStates, WorkerStates
  <2>6. Fresh'
    BY <2>0, PoolAssumption DEF TypeOK, Roles, Fresh
  <2>7. BacklogKept'
    BY <2>0, PoolAssumption DEF TypeOK, Roles, Fresh, BacklogKept
  <2>8. QED
    BY <2>1, <2>3, <2>4, <2>5, <2>6, <2>7 DEF IInv
<1>6. ASSUME NEW c \in Callers, NotifyOne(c) PROVE IInv'
  <2> USE <1>6 DEF NotifyOne, CallerMoves, workerVars, ownerVars, Waiting
  <2>1. TypeOK'
    BY DEF TypeOK, CallerStates, WorkerStates
  <2>2. Pushing' = Pushing /\ Charging' = Charging /\ Working' = Working
    BY DEF TypeOK, Pushing, Charging, Working
  <2>3. PendingExact'
    BY <2>2 DEF PendingExact
  <2>4. Admission'
    BY <2>2 DEF Admission
  <2>5. Roles'
    BY DEF TypeOK, Roles, CallerStates, WorkerStates
  <2>6. Fresh'
    BY DEF TypeOK, Roles, Fresh
  <2>7. BacklogKept'
    BY DEF TypeOK, Roles, Fresh, BacklogKept
  <2>8. QED
    BY <2>1, <2>3, <2>4, <2>5, <2>6, <2>7 DEF IInv
<1>7. ASSUME NEW w \in Workers, Sleep(w) \/ Park(w) \/ SpuriousWakeup(w) PROVE IInv'
  <2> USE <1>7 DEF Sleep, Park, SpuriousWakeup, WorkerMoves, callerVars, ownerVars
  <2>1. TypeOK'
    BY DEF TypeOK, CallerStates, WorkerStates
  <2>2. Pushing' = Pushing /\ Charging' = Charging /\ Working' = Working
    BY DEF TypeOK, Pushing, Charging, Working
  <2>3. PendingExact'
    BY <2>2 DEF PendingExact
  <2>4. Admission'
    BY <2>2 DEF Admission
  <2>5. Roles'
    BY DEF TypeOK, Roles, CallerStates, WorkerStates
  <2>6. Fresh'
    BY DEF TypeOK, Roles, Fresh
  <2>7. BacklogKept'
    BY DEF TypeOK, Roles, Fresh, BacklogKept
  <2>8. QED
    BY <2>1, <2>3, <2>4, <2>5, <2>6, <2>7 DEF IInv
<1>8. ASSUME NEW w \in Workers, Exit(w) PROVE IInv'
  <2> USE <1>8 DEF Exit, WorkerMoves, callerVars, ownerVars
  <2>1. TypeOK'
    BY DEF TypeOK, CallerStates, WorkerStates
  <2>2. Pushing' = Pushing /\ Charging' = Charging /\ Working' = Working
    BY DEF TypeOK, Pushing, Charging, Working
  <2>3. PendingExact'
    BY <2>2 DEF PendingExact
  <2>4. Admission'
    BY <2>2 DEF Admission
  <2>5. Roles'
    BY DEF TypeOK, Roles, CallerStates, WorkerStates
  <2>6. Fresh'
    BY DEF TypeOK, Roles, Fresh
  <2>7. BacklogKept'
    BY RangeEmpty DEF TypeOK, Roles, Fresh, BacklogKept
  <2>8. QED
    BY <2>1, <2>3, <2>4, <2>5, <2>6, <2>7 DEF IInv
<1>9. ASSUME NEW w \in Workers, Pop(w) PROVE IInv'
  <2> USE <1>9 DEF Pop, WorkerMoves, callerVars, ownerVars
  <2>0. /\ Head(tasks) \in Tasks /\ tasks' \in Seq(Tasks)
        /\ Len(tasks') = Len(tasks) - 1 /\ Len(tasks) \in Nat
        /\ Range(tasks) = {Head(tasks)} \cup Range(tasks')
    BY RangeTail, HeadTailProperties DEF TypeOK
  <2>1. TypeOK'
    BY <2>0 DEF TypeOK, CallerStates, WorkerStates
  <2>2. Pushing' = Pushing /\ Charging' = Charging /\ Working' = Working \cup {w} /\ w \notin Working
    BY DEF TypeOK, Pushing, Charging, Working
  <2>3. PendingExact'
    <3>1. Cardinality(Working') = Cardinality(Working) + 1
      BY <2>2, FS_AddElement, FS_RemoveElement, Finiteness
    <3>2. QED
      BY <2>2, <2>0, <3>1, Finiteness DEF PendingExact, TypeOK
  <2>4. Admission'
    BY <2>2 DEF Admission
  <2>5. Roles'
    BY <2>0, PoolAssumption DEF TypeOK, Roles, CallerStates, WorkerStates
  <2>6. Fresh'
    BY <2>0, PoolAssumption DEF TypeOK, Roles, Fresh
  <2>7. BacklogKept'
    BY <2>0, PoolAssumption DEF TypeOK, Roles, Fresh, BacklogKept
  <2>8. QED
    BY <2>1, <2>3, <2>4, <2>5, <2>6, <2>7 DEF IInv
<1>10. ASSUME NEW w \in Workers, Execute(w) PROVE IInv'
  <2> USE <1>10 DEF Execute, WorkerMoves, callerVars, ownerVars
  <2>1. TypeOK'
    BY DEF TypeOK, Roles, CallerStates, WorkerStates
  <2>2. Pushing' = Pushing /\ Charging' = Charging /\ Working' = Working
    BY DEF TypeOK, Pushing, Charging, Working
  <2>3. PendingExact'
    BY <2>2 DEF PendingExact
  <2>4. Admission'
    BY <2>2 DEF Admission
  <2>5. Roles'
    BY DEF TypeOK, Roles, CallerStates, WorkerStates
  <2>6. Fresh'
    BY DEF TypeOK, Roles, Fresh
  <2>7. BacklogKept'
    BY DEF TypeOK, Roles, Fresh, BacklogKept
  <2>8. QED
    BY <2>1, <2>3, <2>4, <2>5, <2>6, <2>7 DEF IInv
<1>11. ASSUME NEW w \in Workers, Complete(w) PROVE IInv'
  <2> USE <1>11 DEF Complete, WorkerMoves, callerVars, ownerVars
  <2>1. TypeOK'
    BY DEF TypeOK, CallerStates, WorkerStates
  <2>2. Pushing' = Pushing /\ Charging' = Charging /\ Working' = Working
    BY DEF TypeOK, Pushing, Charging, Working
  <2>3. PendingExact'
    BY <2>2 DEF PendingExact
  <2>4. Admission'
    BY <2>2 DEF Admission
  <2>5. Roles'
    BY DEF TypeOK, Roles, CallerStates, WorkerStates
  <2>6. Fresh'
    BY DEF TypeOK, Roles, Fresh
  <2>7. BacklogKept'
    BY DEF TypeOK, Roles, Fresh, BacklogKept
  <2>8. QED
    BY <2>1, <2>3, <2>4, <2>5, <2>6, <2>7 DEF IInv
<1>12. ASSUME NEW w \in Workers, Retire(w) PROVE IInv'
  <2> USE <1>12 DEF Retire, WorkerMoves, callerVars, ownerVars
  <2>0. pending_tasks \in Nat \ {0}
    <3>1. w \in Working
      BY DEF Working
    <3>2. Cardinality(Working) # 0
      BY <3>1, Finiteness, FS_EmptySet
    <3>3. QED
      BY <3>2, Finiteness, LenProperties DEF PendingExact, TypeOK
  <2>1. TypeOK'
    BY <2>0 DEF TypeOK, CallerStates, WorkerStates
  <2>2. Pushing' = Pushing /\ Charging' = Charging /\ Working' = Working \ {w} /\ w \in Working
    BY DEF TypeOK, Pushing, Charging, Working
  <2>3. PendingExact'
    <3>1. Cardinality(Working') = Cardinality(Working) - 1
      BY <2>2, FS_AddElement, FS_RemoveElement, Finiteness
    <3>2. QED
      BY <2>2, <3>1, Finiteness, LenProperties DEF PendingExact, TypeOK
  <2>4. Admission'
    BY <2>2, FS_AddElement, FS_RemoveElement, Finiteness, PoolAssumption DEF Admission, TypeOK
  <2>5. Roles'
    BY DEF TypeOK, Roles, CallerStates, WorkerStates
  <2>6. Fresh'
    BY DEF TypeOK, Roles, Fresh
  <2>7. BacklogKept'
    BY DEF TypeOK, Roles, Fresh, BacklogKept
  <2>8. QED
    BY <2>1, <2>3, <2>4, <2>5, <2>6, <2>7 DEF IInv
<1>13. ASSUME Stop PROVE IInv'
  <2> USE <1>13 DEF Stop, callerVars, workerVars
  <2>0. backlog' \subseteq Tasks /\ \A t \in backlog' : t \in Range(tasks) \/ \E w \in Workers : workerTask[w] = t /\ t # NoTask
    BY DEF TypeOK, Range, Unfinished
  <2>1. TypeOK'
    BY <2>0 DEF TypeOK, CallerStates, WorkerStates
  <2>2. Pushing' = Pushing /\ Charging' = Charging /\ Working' = Working
    BY DEF TypeOK, Pushing, Charging, Working
  <2>3. PendingExact'
    BY <2>2 DEF PendingExact
  <2>4. Admission'
    BY <2>2 DEF Admission
  <2>5. Roles'
    BY DEF TypeOK, Roles, CallerStates, WorkerStates
  <2>6. Fresh'
    BY <2>0 DEF TypeOK, Roles, Fresh
  <2>7. BacklogKept'
    BY <2>0 DEF TypeOK, Roles, Fresh, BacklogKept
  <2>8. QED
    BY <2>1, <2>3, <2>4, <2>5, <2>6, <2>7 DEF IInv
<1>14. ASSUME NotifyAll PROVE IInv'
  <2> USE <1>14 DEF NotifyAll, callerVars, Waiting
  <2>1. TypeOK'
    BY DEF TypeOK, CallerStates, WorkerStates
  <2>2. Pushing' = Pushing /\ Charging' = Charging /\ Working' = Working
    BY DEF TypeOK, Pushing, Charging, Working
  <2>3. PendingExact'
    BY <2>2 DEF PendingExact
  <2>4. Admission'
    BY <2>2 DEF Admission
  <2>5. Roles'
    BY DEF TypeOK, Roles, CallerStates, WorkerStates
  <2>6. Fresh'
    BY DEF TypeOK, Roles, Fresh
  <2>7. BacklogKept'
    BY DEF TypeOK, Roles, Fresh, BacklogKept
  <2>8. QED
    BY <2>1, <2>3, <2>4, <2>5, <2>6, <2>7 DEF IInv
<1>15. ASSUME JoinAll PROVE IInv'
  <2> USE <1>15 DEF JoinAll, callerVars, workerVars
  <2>1. TypeOK'
    BY DEF TypeOK, CallerStates, WorkerStates
  <2>2. Pushing' = Pushing /\ Charging' = Charging /\ Working' = Working
    BY DEF TypeOK, Pushing, Charging, Working
  <2>3. PendingExact'
    BY <2>2 DEF PendingExact
  <2>4. Admission'
    BY <2>2 DEF Admission
  <2>5. Roles'
    BY DEF TypeOK, Roles, CallerStates, WorkerStates
  <2>6. Fresh'
    BY DEF TypeOK, Roles, Fresh
  <2>7. BacklogKept'
    BY DEF TypeOK, Roles, Fresh, BacklogKept
  <2>8. QED
    BY <2>1, <2>3, <2>4, <2>5, <2>6, <2>7 DEF IInv
<1>16. ASSUME UNCHANGED vars PROVE IInv'
  <2> USE <1>16 DEF vars
  <2>1. TypeOK'
    BY DEF TypeOK, CallerStates, WorkerStates
  <2>2. Pushing' = Pushing /\ Charging' = Charging /\ Working' = Working
    BY DEF TypeOK, Pushing, Charging, Working
  <2>3. PendingExact'
    BY <2>2 DEF PendingExact
  <2>4. Admission'
    BY <2>2 DEF Admission
  <2>5. Roles'
    BY DEF TypeOK, Roles, CallerStates, WorkerStates
  <2>6. Fresh'
    BY DEF TypeOK, Roles, Fresh
  <2>7. BacklogKept'
    BY DEF TypeOK, Roles, Fresh, BacklogKept
  <2>8. QED
    BY <2>1, <2>3, <2>4, <2>5, <2>6, <2>7 DEF IInv
<1>17. QED
  BY <1>1, <1>2, <1>3, <1>4, <1>5, <1>6, <1>7, <1>8, <1>9, <1>10, <1>11, <1>12, <1>13,
     <1>14, <1>15, <1>16
     DEF Next, CallerStep, WorkerStep, OwnerStep, Finished


-----------------------------------------------------------------------------
LEMMA Invariance == Spec => []IInv
BY InitIInv, NextIInv, PTL DEF Spec

(* Every reachable state is well typed: in particular pending_tasks_, an   *)
(* unsigned counter in the code, never goes below zero.                    *)
THEOREM TypeCorrect == Spec => []TypeOK
<1>1. IInv => TypeOK
  BY DEF IInv
<1>2. QED
  BY <1>1, Invariance, PTL

(* The counter of enqueue and of the worker lambda never drifts from the   *)
(* tasks it stands for.                                                    *)
THEOREM PendingNeverDrifts == Spec => []PendingExact
<1>1. IInv => PendingExact
  BY DEF IInv
<1>2. QED
  BY <1>1, Invariance, PTL

(* The capacity check and the increment are two steps of enqueue; however  *)
(* many callers overtake each other there, the excess stays below their    *)
(* number.                                                                 *)
THEOREM OvershootIsBounded == Spec => []OvershootBounded
<1>1. IInv => OvershootBounded
  BY Finiteness, PoolAssumption DEF IInv, TypeOK, Admission, OvershootBounded
<1>2. QED
  BY <1>1, Invariance, PTL

(* When shutdown() returns, each task accepted before stop_ was set has    *)
(* been executed.                                                          *)
THEOREM ShutdownDrains == Spec => []DrainedBeforeExit
<1>1. IInv => DrainedBeforeExit
  <2>1. SUFFICES ASSUME IInv, ownerPC = "done" PROVE backlog \subseteq executed
    BY DEF DrainedBeforeExit
  <2>2. \A w \in Workers : workerPC[w] = "exited" /\ workerTask[w] = NoTask
    BY <2>1 DEF IInv, Roles
  <2>3. backlog \cap Range(tasks) = {}
    BY <2>1, <2>2, PoolAssumption DEF IInv, BacklogKept
  <2>4. NoTask \notin backlog
    BY <2>1, PoolAssumption DEF IInv, TypeOK
  <2>5. QED
    BY <2>1, <2>2, <2>3, <2>4 DEF IInv, BacklogKept
<1>2. QED
  BY <1>1, Invariance, PTL

(* ThreadPool implements TaskPool: a push is a Submit of a task that is    *)
(* nowhere else, a pop is a Take of the oldest task, the return of a task  *)
(* is its Finish, and every other step is a stutter.                       *)
THEOREM PoolRefinement == Spec => ImplementsTaskPool
<1>1. Init => Pool!Init
  BY DEF Init, Pool!Init
<1>2. IInv /\ [Next]_vars => [Pool!Next]_(Pool!vars)
  <2> SUFFICES ASSUME IInv, [Next]_vars PROVE [Pool!Next]_(Pool!vars)
    OBVIOUS
  <2> USE DEF Pool!Next, Pool!vars
  <2>1. ASSUME NEW c \in Callers, Push(c) PROVE \E t \in Tasks : Pool!Submit(t)
    <3>1. callerTask[c] \in Tasks /\ callerTask[c] # NoTask
      BY <2>1, PoolAssumption DEF IInv, TypeOK, Roles, Push, CallerMoves
    <3>2. callerTask[c] \notin Range(tasks) \cup executed
      BY <3>1 DEF IInv, Fresh
    <3>3. callerTask[c] \notin Range(workerTask)
      BY <3>1 DEF IInv, TypeOK, Fresh, Range
    <3>4. Pool!Submit(callerTask[c])
      BY <2>1, <3>2, <3>3 DEF Pool!Submit, Pool!Range, Range, Push, workerVars
    <3>5. QED
      BY <3>1, <3>4
  <2>2. ASSUME NEW w \in Workers, Pop(w) PROVE Pool!Take(w)
    BY <2>2 DEF Pool!Take, Pop, WorkerMoves, IInv, Roles
  <2>3. ASSUME NEW w \in Workers, Execute(w) PROVE Pool!Finish(w)
    BY <2>3 DEF Pool!Finish, Execute, WorkerMoves, IInv, Roles
  <2>4. ASSUME NEW c \in Callers,
               Call(c) \/ CheckStop(c) \/ CheckCapacity(c) \/ Charge(c) \/ NotifyOne(c)
        PROVE  UNCHANGED Pool!vars
    BY <2>4 DEF Call, CheckStop, CheckCapacity, Throw, Charge, NotifyOne, workerVars
  <2>5. ASSUME NEW w \in Workers,
               Sleep(w) \/ Park(w) \/ SpuriousWakeup(w) \/ Exit(w) \/ Complete(w) \/ Retire(w)
        PROVE  UNCHANGED Pool!vars
    BY <2>5 DEF Sleep, Park, SpuriousWakeup, Exit, Complete, Retire
  <2>6. ASSUME Stop \/ NotifyAll \/ JoinAll \/ Finished \/ UNCHANGED vars
        PROVE  UNCHANGED Pool!vars
    BY <2>6 DEF Stop, NotifyAll, JoinAll, Finished, vars, workerVars
  <2>7. QED
    BY <2>1, <2>2, <2>3, <2>4, <2>5, <2>6 DEF Next, CallerStep, WorkerStep, OwnerStep
<1>3. QED
  BY <1>1, <1>2, Invariance, PTL DEF Spec, ImplementsTaskPool, Pool!Spec

-----------------------------------------------------------------------------
(* Wake-ups. *)

LEMMA AwakeFinite ==
    /\ IsFiniteSet(Awake) /\ Cardinality(Awake) \in Nat
    /\ IsFiniteSet(Notifying) /\ Cardinality(Notifying) \in Nat
<1>1. Awake \in SUBSET Workers /\ Notifying \in SUBSET Callers
  BY DEF Awake, Notifying
<1>2. QED
  BY <1>1, PoolAssumption, FS_Subset, FS_CardinalityType

\* A worker on its way to sleep holds mutex_ and has seen an empty queue.
SleepsOnNothing == ~MutexFree => tasks = <<>>

WInv == SleepsOnNothing /\ NobodySleepsOnWork

\* One worker or caller more is awake, or one less.
LEMMA Counting ==
    ASSUME NEW S, NEW T, IsFiniteSet(S), IsFiniteSet(T), NEW x
    PROVE  /\ Cardinality(S) \in Nat
           /\ S \subseteq T => Cardinality(S) <= Cardinality(T)
           /\ T = S \cup {x} /\ x \notin S => Cardinality(T) = Cardinality(S) + 1
           /\ T = S \ {x} /\ x \in S => Cardinality(T) = Cardinality(S) - 1
<1>1. S \subseteq T => Cardinality(S) <= Cardinality(T)
  BY FS_Subset
<1>2. T = S \cup {x} /\ x \notin S => Cardinality(T) = Cardinality(S) + 1
  BY FS_AddElement
<1>3. T = S \ {x} /\ x \in S => Cardinality(T) = Cardinality(S) - 1
  BY FS_RemoveElement
<1>4. QED
  BY <1>1, <1>2, <1>3, FS_CardinalityType

LEMMA InitWInv == Init => WInv
BY DEF Init, WInv, SleepsOnNothing, MutexFree, NobodySleepsOnWork, Waiting

LEMMA NextWInv == IInv /\ IInv' /\ WInv /\ [Next]_vars => WInv'
<1> SUFFICES ASSUME TypeOK, TypeOK', WInv, [Next]_vars PROVE WInv'
  BY DEF IInv
<1> USE DEF WInv, SleepsOnNothing, NobodySleepsOnWork
<1>a. /\ IsFiniteSet(Awake) /\ Cardinality(Awake) \in Nat
      /\ IsFiniteSet(Notifying) /\ Cardinality(Notifying) \in Nat
  BY AwakeFinite
<1>b. /\ IsFiniteSet(Awake') /\ Cardinality(Awake') \in Nat
      /\ IsFiniteSet(Notifying') /\ Cardinality(Notifying') \in Nat
  <2>1. Awake' \in SUBSET Workers /\ Notifying' \in SUBSET Callers
    BY DEF Awake, Notifying
  <2>2. QED
    BY <2>1, PoolAssumption, FS_Subset, FS_CardinalityType
<1>c. Len(tasks) \in Nat /\ Len(tasks') \in Nat /\ Len(<<>>) = 0
  BY DEF TypeOK
<1>1. ASSUME tasks' = tasks, Awake \subseteq Awake', Notifying \subseteq Notifying',
             Waiting' \subseteq Waiting, ~MutexFree' => ~MutexFree
      PROVE  WInv'
  BY <1>1, <1>a, <1>b, <1>c, Counting
<1>2. ASSUME NEW c \in Callers, Call(c) \/ CheckStop(c) \/ CheckCapacity(c) \/ Charge(c) PROVE WInv'
  <2> USE <1>2 DEF Call, CheckStop, CheckCapacity, Charge, Throw, CallerMoves, workerVars
  <2>1. Awake' = Awake /\ Waiting' = Waiting /\ MutexFree' = MutexFree /\ tasks' = tasks
    BY DEF Awake, Waiting, MutexFree
  <2>2. Notifying \subseteq Notifying'
    BY DEF TypeOK, Notifying
  <2>3. QED
    BY <1>1, <2>1, <2>2
<1>3. ASSUME NEW c \in Callers, Push(c) PROVE WInv'
  <2> USE <1>3 DEF Push, CallerMoves, workerVars
  <2>1. Awake' = Awake /\ Waiting' = Waiting /\ MutexFree' /\ Len(tasks') = Len(tasks) + 1
    BY DEF TypeOK, Awake, Waiting, MutexFree
  <2>2. Notifying' = Notifying \cup {c} /\ c \notin Notifying
    BY DEF TypeOK, Notifying
  <2>3. QED
    BY <2>1, <2>2, <1>a, <1>b, <1>c, Counting
<1>4. ASSUME NEW c \in Callers, NotifyOne(c) PROVE WInv'
  <2> USE <1>4 DEF NotifyOne, CallerMoves
  <2>1. Notifying' = Notifying \ {c} /\ c \in Notifying /\ tasks' = tasks
    BY DEF TypeOK, Notifying
  <2>2. CASE Waiting = {} /\ UNCHANGED workerPC
    BY <2>2 DEF Waiting, MutexFree
  <2>3. CASE \E w \in Waiting : workerPC' = [workerPC EXCEPT ![w] = "acquire"]
    <3>1. PICK w \in Waiting : workerPC' = [workerPC EXCEPT ![w] = "acquire"]
      BY <2>3
    <3>2. Awake' = Awake \cup {w} /\ w \notin Awake
      BY <3>1 DEF TypeOK, Awake, Waiting
    <3>3. ~MutexFree' => ~MutexFree
      BY <3>1 DEF TypeOK, MutexFree, Waiting
    <3>4. QED
      BY <2>1, <2>3, <3>2, <3>3, <1>a, <1>b, <1>c, Counting
  <2>4. QED
    BY <2>2, <2>3
<1>5. ASSUME NEW w \in Workers, Sleep(w) \/ Park(w) \/ Exit(w) PROVE WInv'
  <2> USE <1>5 DEF Sleep, Park, Exit, WorkerMoves
  <2>1. tasks' = <<>>
    BY DEF MutexFree
  <2>2. QED
    BY <2>1, <1>a, <1>b, <1>c
<1>6. ASSUME NEW w \in Workers, SpuriousWakeup(w) \/ Execute(w) \/ Complete(w) \/ Retire(w) PROVE WInv'
  <2> USE <1>6 DEF SpuriousWakeup, Execute, Complete, Retire, WorkerMoves, callerVars
  <2>1. Awake \subseteq Awake' /\ Waiting' \subseteq Waiting /\ (~MutexFree' => ~MutexFree) /\ tasks' = tasks
    BY DEF TypeOK, Awake, Waiting, MutexFree
  <2>2. Notifying' = Notifying
    BY DEF Notifying
  <2>3. QED
    BY <1>1, <2>1, <2>2
<1>7. ASSUME NEW w \in Workers, Pop(w) PROVE WInv'
  <2> USE <1>7 DEF Pop, WorkerMoves, callerVars
  <2>1. Awake' = Awake \ {w} /\ w \in Awake /\ Waiting' = Waiting /\ MutexFree'
    BY DEF TypeOK, Awake, Waiting, MutexFree
  <2>2. Notifying' = Notifying
    BY DEF Notifying
  <2>3. Len(tasks') = Len(tasks) - 1
    BY HeadTailProperties DEF TypeOK
  <2>4. QED
    BY <2>1, <2>2, <2>3, <1>a, <1>b, <1>c, Counting
<1>8. ASSUME NotifyAll PROVE WInv'
  <2>1. Waiting' = {} /\ (~MutexFree' => ~MutexFree) /\ tasks' = tasks
    BY <1>8 DEF NotifyAll, TypeOK, Waiting, MutexFree
  <2>2. QED
    BY <2>1
<1>9. ASSUME Stop \/ JoinAll \/ UNCHANGED vars PROVE WInv'
  BY <1>1, <1>9 DEF Stop, JoinAll, vars, workerVars, callerVars, Awake, Notifying, Waiting, MutexFree
<1>10. QED
  BY <1>2, <1>3, <1>4, <1>5, <1>6, <1>7, <1>8, <1>9
     DEF Next, CallerStep, WorkerStep, OwnerStep, Finished

(* While a worker sleeps in cv_.wait, every queued task has an awake       *)
(* worker on its way or its notify_one still to come: although enqueue     *)
(* notifies after it has released mutex_, no wake-up of the worker lambda  *)
(* is lost, before shutdown() or during it.                                *)
THEOREM NoLostWakeup == Spec => []NobodySleepsOnWork
<1>1. WInv => NobodySleepsOnWork
  BY DEF WInv
<1>2. QED
  BY <1>1, InitWInv, NextWInv, Invariance, PTL DEF Spec

=============================================================================
