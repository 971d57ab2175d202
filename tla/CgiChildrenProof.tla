-------------------------- MODULE CgiChildrenProof ---------------------------
(* The children of the server are known and within the limit, for any number   *)
(* of requests, of process numbers and any limit.                              *)
EXTENDS CgiChildren, FiniteSetTheorems, TLAPS

(* A request that waits has a number, and a pipe event is for one that waits.  *)
Waiting ==
    \A r \in Request : /\ phase[r] = "waiting" => pId[r] \in Pid
                       /\ event[r] # "none" => phase[r] = "waiting"

(* Events are pending between one epoll_wait and the next iteration only.      *)
Between == pc # "events" => \A r \in Request : event[r] = "none"

Ended == pc = "exited" => activePids = {}

(* The inductive invariant.                                                    *)
Inv == TypeOK /\ ActiveAreChildren /\ Waiting /\ Between /\ Ended

IsChild(state) == state \in {"forked", "running", "zombie"}

(* The children, by the state of their process.                                *)
LEMMA ChildrenByState ==
    ASSUME TypeOK
    PROVE  /\ \A p \in Pid : p \in Children <=> IsChild(proc[p])
           /\ Children \subseteq Pid
  BY DEF Children, Alive, IsChild, TypeOK

(* activePids is right when it holds the numbers of the children.              *)
LEMMA ActiveByState ==
    ASSUME TypeOK, \A p \in Pid : p \in activePids <=> IsChild(proc[p])
    PROVE  ActiveAreChildren
<1>1. activePids \subseteq Pid
  BY DEF TypeOK
<1> QED
  BY <1>1, ChildrenByState DEF ActiveAreChildren

(* What Inv says of one number.                                                *)
LEMMA ActiveIsChild ==
    ASSUME Inv
    PROVE  \A p \in Pid : p \in activePids <=> IsChild(proc[p])
  BY ChildrenByState DEF Inv, ActiveAreChildren

-----------------------------------------------------------------------------
(* Types.                                                                      *)

(* Processes that end (execve failures, exits).                                *)
LEMMA EndType ==
    ASSUME TypeOK, NEW P \in SUBSET Pid, End(P)
    PROVE  /\ proc' \in [Pid -> {"free", "forked", "running", "zombie", "foreign"}]
           /\ known' \in [Pid -> SUBSET Pid]
           /\ out' \in [Pid -> Request \cup {NoRequest}]
  BY DEF TypeOK, End

LEMMA ReapedType ==
    ASSUME TypeOK, NEW P
    PROVE  Reaped(P) \in [Pid -> {"free", "forked", "running", "zombie", "foreign"}]
  BY DEF TypeOK, Reaped

LEMMA DeleteType ==
    ASSUME TypeOK, NEW r \in Request, DeleteManager(r)
    PROVE  /\ pId' \in [Request -> Pid \cup {NoPid}]
           /\ out' \in [Pid -> Request \cup {NoRequest}]
           /\ held' \in [Request -> BOOLEAN]
           /\ event' \in [Request -> {"none", "in", "hup"}]
  BY DEF TypeOK, DeleteManager

(* One read() takes no more than there is.                                     *)
LEMMA TakenType ==
    ASSUME TypeOK, NEW r \in Request,
           unread' = [unread EXCEPT ![r] = @ - Least(@, ChunkSize)]
    PROVE  unread' \in [Request -> 0..PipeSize]
<1>1. unread[r] \in 0..PipeSize
  BY DEF TypeOK
<1>2. unread[r] - Least(unread[r], ChunkSize) \in 0..PipeSize
  BY <1>1, ChildrenAssumption DEF Least
<1> QED
  BY <1>2 DEF TypeOK

LEMMA SystemType == ASSUME TypeOK, System PROVE TypeOK'
<1> USE DEF TypeOK, pipes
<1>1. ASSUME NEW p \in Pid, Exec(p) PROVE TypeOK'
  BY <1>1 DEF Exec
<1>2. ASSUME NEW p \in Pid, ExecFails(p) PROVE TypeOK'
  <2>1. PICK victims \in SUBSET {q \in known[p] : Alive(q)} :
          End(victims \cup {p})
    BY <1>2 DEF ExecFails
  <2>2. victims \cup {p} \in SUBSET Pid
    BY <2>1
  <2> QED
    BY <1>2, <2>1, <2>2, EndType DEF ExecFails
<1>3. ASSUME NEW p \in Pid, Exit(p) PROVE TypeOK'
  <2>1. {p} \in SUBSET Pid /\ End({p})
    BY <1>3 DEF Exit
  <2>2. held' \in [Request -> BOOLEAN]
    BY <1>3 DEF Exit
  <2> QED
    BY <1>3, <2>1, <2>2, EndType DEF Exit
<1>4. ASSUME NEW p \in Pid, Foreign(p) PROVE TypeOK'
  BY <1>4 DEF Foreign
<1>5. ASSUME NEW r \in Request, Write(r) PROVE TypeOK'
  <2>1. unread[r] + 1 \in 0..PipeSize
    BY <1>5, ChildrenAssumption DEF Write
  <2> QED
    BY <1>5, <2>1 DEF Write
<1>6. ASSUME NEW r \in Request, DescendantEnds(r) PROVE TypeOK'
  BY <1>6 DEF DescendantEnds
<1> QED
  BY <1>1, <1>2, <1>3, <1>4, <1>5, <1>6 DEF System

LEMMA ServerType == ASSUME Inv, Server PROVE TypeOK'
<1>1. TypeOK
  BY DEF Inv
<1> USE <1>1 DEF TypeOK, pipes
<1>2. ASSUME NEW r \in Request, Execute(r) PROVE TypeOK'
  <2>1. PICK p \in Pid :
          /\ proc' = [Reaped(activePids) EXCEPT ![p] = "forked"]
          /\ known' = [known EXCEPT ![p] = StillRunning]
          /\ activePids' = StillRunning \cup {p}
          /\ pId' = [pId EXCEPT ![r] = p]
          /\ out' = [out EXCEPT ![p] = r]
    BY <1>2 DEF Execute
  <2>2. StillRunning \subseteq Pid
    BY DEF StillRunning
  <2>3. proc' \in [Pid -> {"free", "forked", "running", "zombie", "foreign"}]
    BY <2>1, ReapedType
  <2>4. /\ known' \in [Pid -> SUBSET Pid] /\ activePids' \subseteq Pid
        /\ pId' \in [Request -> Pid \cup {NoPid}]
        /\ out' \in [Pid -> Request \cup {NoRequest}]
    BY <2>1, <2>2
  <2>5. unread' \in [Request -> 0..PipeSize]
    BY <1>2, ChildrenAssumption DEF Execute
  <2> QED
    BY <1>2, <2>3, <2>4, <2>5 DEF Execute
<1>3. ASSUME NEW r \in Request, ExecuteFails(r) PROVE TypeOK'
  BY <1>3, ReapedType DEF ExecuteFails, StillRunning
<1>4. ASSUME NEW r \in Request, HandleHup(r) PROVE TypeOK'
  BY <1>4, DeleteType DEF HandleHup
<1>5. ASSUME NEW r \in Request, HandleIn(r) PROVE TypeOK'
  <2>1. unread' \in [Request -> 0..PipeSize]
    BY <1>5, TakenType DEF HandleIn
  <2>2. CASE Alive(pId[r]) /\ event' = [event EXCEPT ![r] = "none"]
             /\ UNCHANGED <<phase, pId, activePids, proc, out, held>>
    BY <1>5, <2>1, <2>2 DEF HandleIn
  <2>3. CASE IsDone(r) /\ phase' = [phase EXCEPT ![r] = "output"]
             /\ DeleteManager(r)
    BY <1>5, <2>1, <2>3, DeleteType, ReapedType DEF HandleIn, IsDone
  <2> QED
    BY <1>5, <2>2, <2>3 DEF HandleIn
<1>6. ASSUME NEW r \in Request, HandleInThrows(r) PROVE TypeOK'
  <2>1. unread' \in [Request -> 0..PipeSize]
    BY <1>6, TakenType DEF HandleInThrows
  <2> QED
    BY <1>6, <2>1 DEF HandleInThrows
<1>7. ASSUME NEW r \in Request, Timeout(r) PROVE TypeOK'
  BY <1>7 DEF Timeout
<1>8. ASSUME NEW r \in Request, Drop(r) PROVE TypeOK'
  BY <1>8, DeleteType DEF Drop
<1>9. ASSUME EpollWait PROVE TypeOK'
  BY <1>9 DEF EpollWait
<1>10. ASSUME NextIteration PROVE TypeOK'
  BY <1>10 DEF NextIteration
<1>11. ASSUME Shutdown PROVE TypeOK'
  <2>1. /\ proc' \in [Pid -> {"free", "forked", "running", "zombie", "foreign"}]
        /\ known' \in [Pid -> SUBSET Pid]
    BY <1>11 DEF Shutdown
  <2> QED
    BY <1>11, <2>1 DEF Shutdown
<1>12. ASSUME PollChildren PROVE TypeOK'
  BY <1>12, ReapedType DEF PollChildren, StillRunning
<1>13. ASSUME KillRemaining PROVE TypeOK'
  BY <1>13 DEF KillRemaining
<1> QED
  BY <1>2, <1>3, <1>4, <1>5, <1>6, <1>7, <1>8, <1>9, <1>10, <1>11, <1>12,
     <1>13 DEF Server

-----------------------------------------------------------------------------
(* The set of active children.                                                 *)

(* A process that ends is still a child, until somebody waits for it.          *)
LEMMA EndActive ==
    ASSUME Inv, NEW P \in SUBSET Pid, \A p \in P : IsChild(proc[p]), End(P),
           activePids' = activePids
    PROVE  \A p \in Pid : p \in activePids' <=> IsChild(proc'[p])
  BY ActiveIsChild DEF End, IsChild, Inv, TypeOK

LEMMA SystemActive ==
    ASSUME Inv, System
    PROVE  \A p \in Pid : p \in activePids' <=> IsChild(proc'[p])
<1>1. TypeOK /\ \A p \in Pid : p \in activePids <=> IsChild(proc[p])
  BY ActiveIsChild DEF Inv
<1>2. activePids' = activePids
  BY DEF System, Exec, ExecFails, Exit, Foreign, Write, DescendantEnds
<1>3. ASSUME NEW p \in Pid, Exec(p) \/ Foreign(p)
      PROVE  \A q \in Pid : IsChild(proc'[q]) <=> IsChild(proc[q])
  BY <1>1, <1>3 DEF Exec, Foreign, TypeOK, IsChild
<1>4. ASSUME NEW p \in Pid, ExecFails(p)
      PROVE  \A q \in Pid : q \in activePids' <=> IsChild(proc'[q])
  <2>1. PICK victims \in SUBSET {q \in known[p] : Alive(q)} :
          End(victims \cup {p})
    BY <1>4 DEF ExecFails
  <2>2. victims \cup {p} \in SUBSET Pid
    BY <1>1, <2>1 DEF TypeOK
  <2>3. \A q \in victims \cup {p} : IsChild(proc[q])
    BY <1>4, <2>1 DEF ExecFails, Alive, IsChild
  <2> QED
    BY <1>2, <2>1, <2>2, <2>3, EndActive
<1>5. ASSUME NEW p \in Pid, Exit(p)
      PROVE  \A q \in Pid : q \in activePids' <=> IsChild(proc'[q])
  <2>1. {p} \in SUBSET Pid /\ End({p}) /\ \A q \in {p} : IsChild(proc[q])
    BY <1>5 DEF Exit, IsChild
  <2> QED
    BY <1>2, <2>1, EndActive
<1>6. ASSUME NEW r \in Request, Write(r) \/ DescendantEnds(r)
      PROVE  proc' = proc
  BY <1>6 DEF Write, DescendantEnds
<1> QED
  BY <1>1, <1>2, <1>3, <1>4, <1>5, <1>6 DEF System

(* What waitpid() on the numbers of activePids leaves are those it keeps.      *)
LEMMA ReapedActive ==
    ASSUME Inv
    PROVE  \A p \in Pid : p \in StillRunning <=> IsChild(Reaped(activePids)[p])
  BY ActiveIsChild DEF StillRunning, Reaped, Alive, IsChild, Inv, TypeOK

LEMMA ServerActive ==
    ASSUME Inv, Server
    PROVE  \A p \in Pid : p \in activePids' <=> IsChild(proc'[p])
<1>1. TypeOK /\ Waiting /\ \A p \in Pid : p \in activePids <=> IsChild(proc[p])
  BY ActiveIsChild DEF Inv
<1>2. ASSUME NEW r \in Request, Execute(r)
      PROVE  \A q \in Pid : q \in activePids' <=> IsChild(proc'[q])
  <2>1. PICK p \in Pid :
          /\ proc' = [Reaped(activePids) EXCEPT ![p] = "forked"]
          /\ activePids' = StillRunning \cup {p}
    BY <1>2 DEF Execute
  <2>2. proc'[p] = "forked" /\ \A q \in Pid : q # p => proc'[q] = Reaped(activePids)[q]
    BY <1>1, <2>1, ReapedType
  <2> QED
    BY <2>1, <2>2, ReapedActive DEF IsChild
<1>3. ASSUME NEW r \in Request, ExecuteFails(r)
      PROVE  \A q \in Pid : q \in activePids' <=> IsChild(proc'[q])
  BY <1>3, ReapedActive DEF ExecuteFails
<1>4. ASSUME NEW r \in Request, HandleHup(r) \/ HandleInThrows(r) \/ Drop(r)
      PROVE  UNCHANGED <<activePids, proc>>
  BY <1>4 DEF HandleHup, HandleInThrows, Drop
<1>5. ASSUME NEW r \in Request, HandleIn(r)
      PROVE  \A q \in Pid : q \in activePids' <=> IsChild(proc'[q])
  <2>1. CASE UNCHANGED <<activePids, proc>>
    BY <1>1, <2>1
  <2>2. CASE IsDone(r)
    <3>1. pId[r] \in Pid
      BY <1>1, <1>5 DEF HandleIn, Waiting
    <3>2. \A q \in Pid : proc'[q] =
            IF q = pId[r] /\ proc[q] = "zombie" THEN "free" ELSE proc[q]
      BY <2>2 DEF IsDone, Reaped
    <3> QED
      BY <1>1, <2>2, <3>1, <3>2 DEF IsDone, Alive, IsChild, TypeOK
  <2> QED
    BY <1>5, <2>1, <2>2 DEF HandleIn
<1>6. ASSUME NEW r \in Request, Timeout(r)
      PROVE  \A q \in Pid : q \in activePids' <=> IsChild(proc'[q])
  <2>1. pId[r] \in Pid
    BY <1>1, <1>6 DEF Timeout, Waiting
  <2>2. ~IsChild(proc'[pId[r]]) /\ \A q \in Pid : q # pId[r] => proc'[q] = proc[q]
    BY <1>1, <1>6, <2>1, ChildrenByState DEF Timeout, TypeOK, IsChild
  <2> QED
    BY <1>1, <1>6, <2>1, <2>2 DEF Timeout
<1>7. ASSUME EpollWait \/ NextIteration PROVE UNCHANGED <<activePids, proc>>
  BY <1>7 DEF EpollWait, NextIteration
<1>8. ASSUME Shutdown
      PROVE  \A q \in Pid : q \in activePids' <=> IsChild(proc'[q])
  <2>1. PICK victims \in SUBSET StillRunning :
          proc' = [p \in Pid |-> IF p \in victims THEN "zombie" ELSE proc[p]]
    BY <1>8 DEF Shutdown
  <2> QED
    BY <1>1, <1>8, <2>1 DEF Shutdown, StillRunning, IsChild
<1>9. ASSUME PollChildren
      PROVE  \A q \in Pid : q \in activePids' <=> IsChild(proc'[q])
  BY <1>9, ReapedActive DEF PollChildren
<1>10. ASSUME KillRemaining
       PROVE  \A q \in Pid : q \in activePids' <=> IsChild(proc'[q])
  BY <1>1, <1>10 DEF KillRemaining, IsChild
<1> QED
  BY <1>1, <1>2, <1>3, <1>4, <1>5, <1>6, <1>7, <1>8, <1>9, <1>10 DEF Server

-----------------------------------------------------------------------------
(* The invariant.                                                              *)

LEMMA WaitingInv == ASSUME Inv, [Next]_vars PROVE Waiting'
<1>1. TypeOK /\ Waiting /\ Between
  BY DEF Inv
<1> USE <1>1 DEF TypeOK, Waiting
<1>2. ASSUME System \/ UNCHANGED vars PROVE Waiting'
  BY <1>2 DEF System, Exec, ExecFails, Exit, Foreign, Write, DescendantEnds, vars
<1>3. ASSUME NEW r \in Request, Execute(r) PROVE Waiting'
  <2>1. PICK p \in Pid : pId' = [pId EXCEPT ![r] = p]
    BY <1>3 DEF Execute
  <2> QED
    BY <1>3, <2>1 DEF Execute
<1>4. ASSUME NEW r \in Request, ExecuteFails(r) PROVE Waiting'
  BY <1>4 DEF ExecuteFails
<1>5. ASSUME NEW r \in Request, HandleHup(r) \/ Drop(r) PROVE Waiting'
  BY <1>5 DEF HandleHup, Drop, DeleteManager
<1>6. ASSUME NEW r \in Request, HandleIn(r) PROVE Waiting'
  BY <1>6 DEF HandleIn, DeleteManager
<1>7. ASSUME NEW r \in Request, HandleInThrows(r) PROVE Waiting'
  BY <1>7 DEF HandleInThrows
<1>8. ASSUME NEW r \in Request, Timeout(r) PROVE Waiting'
  <2>1. event[r] = "none"
    BY <1>8 DEF Timeout, Between
  <2> QED
    BY <1>8, <2>1 DEF Timeout
<1>9. ASSUME EpollWait PROVE Waiting'
  BY <1>9 DEF EpollWait
<1>10. ASSUME NextIteration PROVE Waiting'
  BY <1>10 DEF NextIteration
<1>11. ASSUME Shutdown PROVE Waiting'
  BY <1>11 DEF Shutdown
<1>12. ASSUME PollChildren \/ KillRemaining PROVE Waiting'
  BY <1>12 DEF PollChildren, KillRemaining
<1> QED
  BY <1>2, <1>3, <1>4, <1>5, <1>6, <1>7, <1>8, <1>9, <1>10, <1>11, <1>12
     DEF Next, Server

LEMMA BetweenInv == ASSUME Inv, [Next]_vars PROVE Between'
<1>1. TypeOK /\ Between
  BY DEF Inv
<1> USE <1>1 DEF TypeOK, Between
<1>2. ASSUME System \/ UNCHANGED vars PROVE Between'
  BY <1>2 DEF System, Exec, ExecFails, Exit, Foreign, Write, DescendantEnds, vars
<1>3. ASSUME NEW r \in Request,
             Execute(r) \/ ExecuteFails(r) \/ Timeout(r)
      PROVE  Between'
  BY <1>3 DEF Execute, ExecuteFails, Timeout
<1>4. ASSUME NEW r \in Request,
             HandleHup(r) \/ HandleIn(r) \/ HandleInThrows(r) \/ Drop(r)
      PROVE  Between'
  BY <1>4 DEF HandleHup, HandleIn, HandleInThrows, Drop, DeleteManager
<1>5. ASSUME EpollWait \/ NextIteration \/ Shutdown PROVE Between'
  BY <1>5 DEF EpollWait, NextIteration, Shutdown
<1>6. ASSUME PollChildren \/ KillRemaining PROVE Between'
  BY <1>6 DEF PollChildren, KillRemaining
<1> QED
  BY <1>2, <1>3, <1>4, <1>5, <1>6 DEF Next, Server

LEMMA EndedInv == ASSUME Inv, [Next]_vars PROVE Ended'
<1>1. Ended /\ Between
  BY DEF Inv
<1>2. ASSUME System \/ UNCHANGED vars PROVE Ended'
  BY <1>1, <1>2
     DEF Ended, System, Exec, ExecFails, Exit, Foreign, Write, DescendantEnds, vars
<1>3. ASSUME NEW r \in Request, pc' = pc, pc # "exited" PROVE Ended'
  BY <1>3 DEF Ended
<1>4. ASSUME NEW r \in Request,
             Execute(r) \/ ExecuteFails(r) \/ Timeout(r) \/ Drop(r)
      PROVE  Ended'
  BY <1>4 DEF Ended, Execute, ExecuteFails, Timeout, Drop
<1>5. ASSUME NEW r \in Request, HandleHup(r) \/ HandleIn(r) \/ HandleInThrows(r)
      PROVE  Ended'
  BY <1>1, <1>5 DEF Ended, Between, HandleHup, HandleIn, HandleInThrows
<1>6. ASSUME EpollWait \/ NextIteration \/ Shutdown \/ PollChildren
             \/ KillRemaining
      PROVE  Ended'
  BY <1>6
     DEF Ended, EpollWait, NextIteration, Shutdown, PollChildren, KillRemaining
<1> QED
  BY <1>2, <1>4, <1>5, <1>6 DEF Next, Server

LEMMA InitInv == Init => Inv
<1> SUFFICES ASSUME Init PROVE Inv
  OBVIOUS
<1>1. TypeOK
  BY ChildrenAssumption DEF Init, TypeOK
<1>2. ActiveAreChildren
  BY DEF Init, ActiveAreChildren, Children, Alive
<1>3. Waiting /\ Between /\ Ended
  BY DEF Init, Waiting, Between, Ended
<1> QED
  BY <1>1, <1>2, <1>3 DEF Inv

LEMMA NextInv == Inv /\ [Next]_vars => Inv'
<1> SUFFICES ASSUME Inv, [Next]_vars PROVE Inv'
  OBVIOUS
<1>1. TypeOK'
  <2>1. TypeOK
    BY DEF Inv
  <2>2. ASSUME UNCHANGED vars PROVE TypeOK'
    BY <2>1, <2>2 DEF TypeOK, vars, pipes
  <2> QED
    BY <2>1, <2>2, SystemType, ServerType DEF Next
<1>2. ActiveAreChildren'
  <2>1. ASSUME UNCHANGED vars PROVE ActiveAreChildren'
    BY <2>1 DEF Inv, ActiveAreChildren, Children, Alive, vars
  <2>2. ASSUME Next PROVE ActiveAreChildren'
    <3>1. \A p \in Pid : p \in activePids' <=> IsChild(proc'[p])
      BY <2>2, SystemActive, ServerActive DEF Next
    <3>2. activePids' \subseteq Pid
      BY <1>1 DEF TypeOK
    <3>3. Children' = {p \in Pid : IsChild(proc'[p])}
      BY DEF Children, Alive, IsChild
    <3> QED
      BY <3>1, <3>2, <3>3 DEF ActiveAreChildren
  <2> QED
    BY <2>1, <2>2
<1> QED
  BY <1>1, <1>2, WaitingInv, BetweenInv, EndedInv DEF Inv

(* Inv holds in every state.                                                   *)
THEOREM Invariance == Spec => []Inv
  BY InitInv, NextInv, PTL DEF Spec

(* Every variable always has its type.                                         *)
THEOREM TypeCorrect == Spec => []TypeOK
<1>1. Inv => TypeOK
  BY DEF Inv
<1> QED
  BY <1>1, Invariance, PTL

(* _activePids always holds the children that nobody waited for, and no other  *)
(* process, whoever reaps them and however numbers are reused.                 *)
THEOREM ActiveAreChildrenHolds == Spec => []ActiveAreChildren
<1>1. Inv => ActiveAreChildren
  BY DEF Inv
<1> QED
  BY <1>1, Invariance, PTL

(* When the server has ended it has no child.                                  *)
THEOREM NoneLeftHolds == Spec => []NoneLeft
<1>1. Inv => NoneLeft
  BY DEF Inv, Ended, ActiveAreChildren, NoneLeft
<1> QED
  BY <1>1, Invariance, PTL

-----------------------------------------------------------------------------
(* The limit.                                                                  *)

(* Only execute() adds a child.                                                *)
LEMMA FewerActive ==
    ASSUME [Next]_vars, \A r \in Request : ~Execute(r)
    PROVE  activePids' \subseteq activePids
<1>1. ASSUME System \/ UNCHANGED vars PROVE activePids' = activePids
  BY <1>1 DEF System, Exec, ExecFails, Exit, Foreign, Write, DescendantEnds, vars
<1>2. ASSUME NEW r \in Request,
             ExecuteFails(r) \/ Timeout(r) \/ Drop(r) \/ HandleHup(r)
               \/ HandleIn(r) \/ HandleInThrows(r)
      PROVE  activePids' \subseteq activePids
  BY <1>2 DEF ExecuteFails, Timeout, Drop, HandleHup, HandleIn, HandleInThrows,
              IsDone, StillRunning
<1>3. ASSUME EpollWait \/ NextIteration \/ Shutdown \/ PollChildren
             \/ KillRemaining
      PROVE  activePids' \subseteq activePids
  BY <1>3 DEF EpollWait, NextIteration, Shutdown, PollChildren, KillRemaining,
              StillRunning
<1> QED
  BY <1>1, <1>2, <1>3 DEF Next, Server

Limited == Cardinality(activePids) <= MaxActive

LEMMA LimitedInv == Inv /\ Limited /\ [Next]_vars => Limited'
<1> SUFFICES ASSUME Inv, Limited, [Next]_vars PROVE Limited'
  OBVIOUS
<1>1. activePids \subseteq Pid /\ IsFiniteSet(activePids)
  BY ChildrenAssumption, FS_Subset DEF Inv, TypeOK
<1>2. ASSUME NEW r \in Request, Execute(r) PROVE Limited'
  <2>1. PICK p \in Pid : activePids' = StillRunning \cup {p}
    BY <1>2 DEF Execute
  <2>2. IsFiniteSet(StillRunning)
    BY <1>1, FS_Subset DEF StillRunning
  <2>3. Cardinality(StillRunning) \in Nat
    BY <2>2, FS_CardinalityType
  <2>4. Cardinality(StillRunning) < MaxActive
    BY <1>2, <2>3, ChildrenAssumption DEF Execute, SpawnLimitReached
  <2>5. \/ Cardinality(activePids') = Cardinality(StillRunning)
        \/ Cardinality(activePids') = Cardinality(StillRunning) + 1
    BY <2>1, <2>2, FS_AddElement
  <2> QED
    BY <2>3, <2>4, <2>5, ChildrenAssumption DEF Limited
<1>3. ASSUME \A r \in Request : ~Execute(r) PROVE Limited'
  <2>1. activePids' \subseteq activePids
    BY <1>3, FewerActive
  <2>2. IsFiniteSet(activePids') /\ Cardinality(activePids') <= Cardinality(activePids)
    BY <1>1, <2>1, FS_Subset
  <2>3. Cardinality(activePids') \in Nat /\ Cardinality(activePids) \in Nat
    BY <1>1, <2>2, FS_CardinalityType
  <2> QED
    BY <2>2, <2>3, ChildrenAssumption DEF Limited
<1> QED
  BY <1>2, <1>3

(* The children, zombies counted, are never more than MAX_ACTIVE_CGI_CHILDREN. *)
THEOREM LimitKeptHolds == Spec => []LimitKept
<1>1. Init => Limited
  <2>1. Cardinality({}) = 0
    BY FS_EmptySet
  <2> QED
    BY <2>1, ChildrenAssumption DEF Init, Limited
<1>2. Inv /\ Limited => LimitKept
  BY DEF Inv, ActiveAreChildren, Limited, LimitKept
<1> QED
  BY <1>1, <1>2, LimitedInv, Invariance, PTL DEF Spec
=============================================================================
