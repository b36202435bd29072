------------------------- MODULE TaskServiceProofs -------------------------
(* What is proved of TaskService for every set of tasks, handlers and calls   *)
(* and every workflow graph.  The inductive invariant, IInv, says which locks *)
(* a handler holds at each of its steps and how the copy of the task it works *)
(* on relates to the persisted row.  The second half says what a step writes  *)
(* to the rows and what a handler makes of the task it loads, and from that:  *)
(* the gate holds when it counts, a history is one path, a settled wake stays *)
(* settled, under the dependency lock a claim is for a task that can run and  *)
(* the graph has no cycle, a governor stays dropped under its cascade, and an *)
(* entry into REVIEW makes one review task.                                   *)
EXTENDS StaleCopies, FiniteSetTheorems, SequenceTheorems, TLAPS

(* The persisted record a save leaves is well formed, keeps every recorded    *)
(* transition and gains exactly the entries the writer added.                 *)
LEMMA SavedRow ==
  ASSUME NEW old \in TaskRecord, NEW task \in TaskRecord,
         NEW n \in 1..Len(old.history),
         n <= Len(task.history),
         Len(task.history) > n => Len(old.history) = n
  PROVE  LET new == UpdatedRow(old, task, n)
         IN  /\ new \in TaskRecord
             /\ new.workflow = task.workflow
             /\ new.state = task.state
             /\ Len(new.history) = Len(old.history) + (Len(task.history) - n)
             /\ \A i \in 1..Len(old.history) :
                  TransitionFacts(new.history[i]) = TransitionFacts(old.history[i])
             /\ \A i \in (n + 1)..Len(task.history) :
                  new.history[Len(old.history) + (i - n)] = task.history[i]
<1> DEFINE settled == SettledHistory(old.history, task.history, n)
           added   == SubSeq(task.history, n + 1, Len(task.history))
           new     == UpdatedRow(old, task, n)
<1>1. old.history \in Seq(Entry) /\ task.history \in Seq(Entry)
  BY DEF TaskRecord
<1>2. ASSUME NEW i \in 1..Len(old.history)
      PROVE  /\ settled[i] \in Entry
             /\ TransitionFacts(settled[i]) = TransitionFacts(old.history[i])
  <2>1. old.history[i] \in Entry
    BY <1>1
  <2>2. i <= n => task.history[i] \in Entry
    BY <1>1
  <2>3. settled[i] = IF i < n THEN [old.history[i] EXCEPT !.wake = task.history[i].wake]
                     ELSE IF i = n
                          THEN [old.history[i] EXCEPT !.wake = task.history[i].wake,
                                                      !.promises = task.history[i].promises]
                          ELSE old.history[i]
    BY DEF SettledHistory
  <2> HIDE DEF settled
  <2>7. i \in Int /\ n \in Int
    BY <1>1
  <2>4. CASE i < n
    BY <2>1, <2>2, <2>3, <2>4 DEF TransitionFacts, Entry
  <2>5. CASE i = n
    <3>1. task.history[i] \in Entry
      BY <2>2, <2>5, <2>7
    <3>2. settled[i] = [old.history[i] EXCEPT !.wake = task.history[i].wake,
                                              !.promises = task.history[i].promises]
      BY <2>3, <2>5, <2>7
    <3> QED
      BY <2>1, <3>1, <3>2 DEF TransitionFacts, Entry
  <2>6. CASE i > n
    BY <2>1, <2>3, <2>6
  <2> QED
    BY <2>4, <2>5, <2>6, <2>7
<1>3. settled \in Seq(Entry) /\ Len(settled) = Len(old.history)
  <2>1. settled = [i \in 1..Len(old.history) |-> settled[i]]
    BY DEF SettledHistory
  <2>2. settled \in [1..Len(old.history) -> Entry]
    BY <1>2, <2>1
  <2>3. Len(old.history) \in Nat
    BY <1>1
  <2> QED
    BY <2>2, <2>3
<1>4. added \in Seq(Entry) /\ Len(added) = Len(task.history) - n
      /\ \A i \in 1..Len(added) : added[i] = task.history[n + i]
  <2>1. n + 1 \in Int /\ Len(task.history) \in Nat /\ n \in Nat
    BY <1>1
  <2>2. \A i \in (n + 1)..Len(task.history) : task.history[i] \in Entry
    BY <1>1
  <2> QED
    BY <2>1, <2>2, <1>1, SubSeqProperties
<1>5. /\ settled \o added \in Seq(Entry)
      /\ Len(settled \o added) = Len(old.history) + (Len(task.history) - n)
      /\ \A i \in 1..Len(old.history) : (settled \o added)[i] = settled[i]
      /\ \A i \in 1..Len(added) : (settled \o added)[Len(old.history) + i] = added[i]
  <2> HIDE DEF settled, added
  <2>1. Len(settled) \in Nat /\ Len(added) \in Nat
    BY <1>3, <1>4
  <2>2. /\ settled \o added \in Seq(Entry)
        /\ Len(settled \o added) = Len(settled) + Len(added)
        /\ \A i \in 1..(Len(settled) + Len(added)) :
             (settled \o added)[i] = IF i <= Len(settled) THEN settled[i]
                                     ELSE added[i - Len(settled)]
    <3>1. settled \in Seq(Entry) /\ added \in Seq(Entry)
      BY <1>3, <1>4
    <3> QED
      BY <3>1, ConcatProperties, Zenon
  <2>3. ASSUME NEW i \in 1..Len(added)
        PROVE  (settled \o added)[Len(settled) + i] = added[i]
    <3>1. Len(settled) + i \in 1..(Len(settled) + Len(added))
      BY <2>1
    <3>2. ~(Len(settled) + i <= Len(settled)) /\ (Len(settled) + i) - Len(settled) = i
      BY <2>1
    <3> QED
      BY <2>2, <3>1, <3>2
  <2>4. \A i \in 1..Len(settled) : (settled \o added)[i] = settled[i]
    BY <2>1, <2>2
  <2> QED
    BY <1>3, <1>4, <2>1, <2>2, <2>3, <2>4
<1>6. /\ new.history = settled \o added
      /\ new.workflow = task.workflow
      /\ new.state = task.state
      /\ new \in TaskRecord
  BY <1>5 DEF UpdatedRow, TaskRecord
<1>7. \A i \in (n + 1)..Len(task.history) :
        new.history[Len(old.history) + (i - n)] = task.history[i]
  <2> TAKE i \in (n + 1)..Len(task.history)
  <2>1. i - n \in 1..Len(added) /\ n + (i - n) = i
    BY <1>1, <1>4
  <2> QED
    BY <2>1, <1>4, <1>5, <1>6
<1> QED
  BY <1>2, <1>5, <1>6, <1>7

-----------------------------------------------------------------------------
(* What a step of one handler leaves to the others *)

(* Rows stay, keep their workflow, and their histories only grow. *)
RowGrows ==
  /\ DOMAIN row \subseteq DOMAIN row'
  /\ \A id \in DOMAIN row :
       /\ row'[id].workflow = row[id].workflow
       /\ Len(row'[id].history) >= Len(row[id].history)
       /\ \A i \in 1..Len(row[id].history) :
            TransitionFacts(row'[id].history[i]) = TransitionFacts(row[id].history[i])

(* The step takes nothing from another handler, and a history grows only      *)
(* under both locks.                                                          *)
Undisturbed(r) ==
  /\ \A q \in Req \ {r} :
       /\ request'[q] = request[q]
       /\ arg'[q] = arg[q]
       /\ \A id \in Task : taskLock[id] = q => taskLock'[id] = q
       /\ graphLock = q => graphLock' = q
  /\ \A id \in DOMAIN row :
       Len(row'[id].history) # Len(row[id].history) => taskLock[id] = r /\ graphLock = r

(* The other handlers keep their part of the invariant. *)
LEMMA OthersKeep ==
  ASSUME IInv, TypeOK', RowGrows,
         NEW r \in Req, Undisturbed(r),
         NEW q \in Req \ {r}
  PROVE  StepOK(q)' /\ LocksOK(q)' /\ StackOK(q)' /\ CopyOK(q)'
<1>1. request'[q] = request[q] /\ arg'[q] = arg[q]
  BY DEF Undisturbed
<1>2. StepOK(q)'
  <2>1. StepOK(q)
    BY DEF IInv
  <2> QED
    BY <1>1, <2>1 DEF StepOK, ValidArg
<1>3. request[q] \in RequestRecord /\ DOMAIN row \subseteq Task
  BY DEF IInv, TypeOK
<1>4. StackOK(q)'
  <2>1. StackOK(q)
    BY DEF IInv
  <2>2. DOMAIN row \subseteq DOMAIN row'
    BY DEF RowGrows
  <2>3. \A id \in DOMAIN row : taskLock[id] = q => taskLock'[id] = q
    BY <1>3 DEF Undisturbed
  <2> QED
    BY <1>1, <2>1, <2>2, <2>3 DEF StackOK, Target
<1>5. request[q].pc # "idle" /\ request[q].op # "create_task" => Target(q) \in DOMAIN row
  BY DEF IInv, StackOK
<1>6. LocksOK(q)'
  <2>1. LocksOK(q) /\ StepOK(q)
    BY DEF IInv
  <2>2. request[q].pc \in Holding /\ request[q].op \in TaskLockedOp => Target(q) \in Task
    BY <1>3, <1>5 DEF Holding, Step, TaskLockedOp, TransitionOp
  <2> QED
    BY <1>1, <2>1, <2>2 DEF LocksOK, Target, Undisturbed
<1>7. CopyOK(q)'
  <2> SUFFICES ASSUME request[q].pc \in Saving
               PROVE  CopyOK(q)'
    BY <1>1 DEF CopyOK
  <2>1. StepOK(q) /\ LocksOK(q) /\ CopyOK(q)
    BY DEF IInv
  <2>2. request[q].pc \in Inside /\ request[q].pc \in Holding /\ request[q].op \in Op
        /\ request[q].op # "create_task"
    BY <2>1 DEF Saving, Inside, Holding, Step, StepOK
  <2>3. Target(q) \in DOMAIN row /\ Target(q)' = Target(q)
    BY <1>1, <1>5, <2>2 DEF Saving, Target
  <2>4. request[q].op \notin UnlockedOp => taskLock[Target(q)] = q \/ graphLock = q
    BY <2>1, <2>2 DEF LocksOK, Op, GraphLockedOp, TaskLockedOp, UnlockedOp
  <2>5. request[q].op \notin UnlockedOp => Last(row'[Target(q)]) = Last(row[Target(q)])
    BY <2>3, <2>4 DEF Undisturbed, Last
  <2>6. /\ row'[Target(q)].workflow = row[Target(q)].workflow
        /\ Last(row'[Target(q)]) >= Last(row[Target(q)])
        /\ \A i \in 1..Last(row[Target(q)]) :
             TransitionFacts(row'[Target(q)].history[i]) = TransitionFacts(row[Target(q)].history[i])
    BY <2>3 DEF RowGrows, Last
  <2>7. Last(row[Target(q)]) \in Nat /\ Last(row'[Target(q)]) \in Nat
    <3>1. row[Target(q)] \in TaskRecord /\ row'[Target(q)] \in TaskRecord
      BY <2>3 DEF IInv, TypeOK, RowGrows
    <3> QED
      BY <3>1 DEF TaskRecord, Last
  <2>8. /\ request'[q] = request[q]
        /\ Loaded(q)' = row'[Target(q)]
        /\ Loaded(q) = row[Target(q)]
    BY <1>1, <2>3 DEF Loaded
  <2>9. request[q].task.history # <<>> /\ Last(request[q].task) \in Nat
    <3>1. request[q].task \in TaskRecord /\ request[q].task.history # <<>>
      BY <2>1 DEF CopyOK
    <3> QED
      BY <3>1 DEF TaskRecord, Last
  <2>10. request[q].pc = "update" =>
           /\ request[q].stored \in 1..Last(Loaded(q)')
           /\ \A i \in 1..request[q].stored :
                TransitionFacts(request[q].task.history[i])
                  = TransitionFacts(Loaded(q)'.history[i])
    <3> SUFFICES ASSUME request[q].pc = "update"
                 PROVE  /\ request[q].stored \in 1..Last(row'[Target(q)])
                        /\ \A i \in 1..request[q].stored :
                             TransitionFacts(request[q].task.history[i])
                               = TransitionFacts(row'[Target(q)].history[i])
      BY <2>8
    <3>1. /\ request[q].stored \in 1..Last(row[Target(q)])
          /\ \A i \in 1..request[q].stored :
               TransitionFacts(request[q].task.history[i])
                 = TransitionFacts(row[Target(q)].history[i])
      BY <2>1, <2>8 DEF CopyOK
    <3> QED
      BY <3>1, <2>6, <2>7
  <2>11. Appended(q)' = Appended(q) /\ Appended(q) \in 0..1
    BY <2>8 DEF Appended
  <2>12. Last(request[q].task) <= Last(Loaded(q)') + Appended(q)
    BY <2>1, <2>6, <2>7, <2>8, <2>9, <2>11 DEF CopyOK
  <2> QED
    BY <2>1, <2>5, <2>6, <2>8, <2>10, <2>11, <2>12 DEF CopyOK
<1> QED
  BY <1>2, <1>4, <1>6, <1>7
(* So a step of r keeps the invariant if it keeps r's own part of it. *)
LEMMA Preserved ==
  ASSUME IInv, TypeOK', RowGrows, HistoryFollowsGraph',
         NEW r \in Req, Undisturbed(r),
         StepOK(r)', LocksOK(r)', StackOK(r)', CopyOK(r)'
  PROVE  IInv'
<1>1. ASSUME NEW q \in Req
      PROVE  StepOK(q)' /\ LocksOK(q)' /\ StackOK(q)' /\ CopyOK(q)'
  <2>1. CASE q = r
    BY <2>1
  <2>2. CASE q # r
    BY <2>2, OthersKeep
  <2> QED
    BY <2>1, <2>2
<1> QED
  BY <1>1 DEF IInv

(* What is known of a persisted row. *)
LEMMA RowFacts ==
  ASSUME TypeOK, NEW id \in DOMAIN row
  PROVE  /\ id \in Task
         /\ row[id] \in TaskRecord
         /\ row[id].workflow \in WorkflowName
         /\ row[id].state \in Label(row[id].workflow)
         /\ row[id].history \in Seq(Entry)
         /\ row[id].history # <<>>
         /\ Last(row[id]) \in Nat \ {0}
<1>1. /\ id \in Task
      /\ row[id] \in TaskRecord
      /\ row[id].state \in Label(row[id].workflow)
      /\ row[id].history # <<>>
  BY DEF TypeOK
<1>2. row[id].workflow \in WorkflowName /\ row[id].history \in Seq(Entry)
  BY <1>1 DEF TaskRecord
<1>3. Last(row[id]) \in Nat \ {0}
  BY <1>1, <1>2, EmptySeq, LenProperties DEF Last
<1> QED
  BY <1>1, <1>2, <1>3

(* The case of a step that writes no row. *)
LEMMA SameRow ==
  ASSUME IInv, NEW r \in Req,
         row' = row, calls' = calls,
         request' \in [Req -> RequestRecord],
         arg' = [q \in Req |-> arg'[q]],
         taskLock' \in [Task -> Req \cup {Nil}],
         graphLock' \in Req \cup {Nil},
         \A q \in Req \ {r} :
           /\ request'[q] = request[q]
           /\ arg'[q] = arg[q]
           /\ \A id \in Task : taskLock[id] = q => taskLock'[id] = q
           /\ graphLock = q => graphLock' = q,
         StepOK(r)', LocksOK(r)', StackOK(r)', CopyOK(r)'
  PROVE  IInv'
<1>1. TypeOK'
  BY DEF IInv, TypeOK
<1>2. RowGrows
  <2>1. \A id \in DOMAIN row : Last(row[id]) \in Nat
    BY RowFacts DEF IInv
  <2> QED
    BY <2>1 DEF RowGrows, Last
<1>3. HistoryFollowsGraph'
  BY DEF IInv, HistoryFollowsGraph, Last
<1>4. Undisturbed(r)
  BY DEF Undisturbed
<1> QED
  BY <1>1, <1>2, <1>3, <1>4, Preserved

(* An idle handler holds nothing and works on nothing. *)
LEMMA IdleRequest ==
  /\ Idle \in RequestRecord
  /\ \A r \in Req : request'[r] = Idle => StepOK(r)' /\ LocksOK(r)' /\ StackOK(r)' /\ CopyOK(r)'
<1>1. Idle \in RequestRecord
  BY DEF Idle, RequestRecord, Step
<1> QED
  BY <1>1 DEF Idle, StepOK, LocksOK, StackOK, CopyOK, Holding, Inside, Saving, Step

(* An exception keeps the invariant. *)
LEMMA FailKeeps ==
  ASSUME IInv, NEW r \in Req, Fail(r)
  PROVE  IInv'
<1>1. /\ taskLock \in [Task -> Req \cup {Nil}]
      /\ graphLock \in Req \cup {Nil}
      /\ request \in [Req -> RequestRecord]
      /\ arg = [q \in Req |-> arg[q]]
  BY DEF IInv, TypeOK
<1>2. request' \in [Req -> RequestRecord] /\ request'[r] = Idle
  BY <1>1, IdleRequest DEF Fail
<1>3. StepOK(r)' /\ LocksOK(r)' /\ StackOK(r)' /\ CopyOK(r)'
  BY <1>2, IdleRequest
<1> QED
  BY <1>1, <1>2, <1>3, SameRow DEF Fail, ReleaseGraphLock
(* Going on to save a well-formed copy keeps the invariant. *)
LEMMA SaveKeeps ==
  ASSUME IInv, NEW r \in Req, NEW task \in TaskRecord,
         request[r].pc \in {"load", "ready", "acyclic"},
         request[r].op # "create_task",
         task.state \in Label(task.workflow),
         task.history # <<>>,
         task.workflow = Loaded(r).workflow,
         Last(task) = Last(Loaded(r)),
         Save(r, task)
  PROVE  IInv'
<1>1. /\ taskLock \in [Task -> Req \cup {Nil}]
      /\ graphLock \in Req \cup {Nil}
      /\ request \in [Req -> RequestRecord]
      /\ arg = [q \in Req |-> arg[q]]
  BY DEF IInv, TypeOK
<1>2. StepOK(r) /\ LocksOK(r) /\ StackOK(r)
  BY DEF IInv
<1>3. /\ request' \in [Req -> RequestRecord]
      /\ \A q \in Req \ {r} : request'[q] = request[q]
      /\ request'[r] = [request[r] EXCEPT !.pc = "validate", !.task = task]
  <2> DEFINE now == [request[r] EXCEPT !.pc = "validate", !.task = task]
  <2>1. request[r] \in RequestRecord
    BY <1>1
  <2>2. request' = [request EXCEPT ![r] = now]
    BY DEF Save
  <2>3. now \in RequestRecord
    BY <2>1 DEF RequestRecord, Step
  <2> HIDE DEF now
  <2>4. request' \in [Req -> RequestRecord] /\ request'[r] = now
    BY <1>1, <2>2, <2>3
  <2>5. \A q \in Req \ {r} : request'[q] = request[q]
    BY <1>1, <2>2
  <2> QED
    BY <2>4, <2>5 DEF now
<1>4. /\ request'[r].pc = "validate"
      /\ request'[r].task = task
      /\ request'[r].op = request[r].op
      /\ request'[r].stack = request[r].stack
      /\ request'[r].moved = request[r].moved
  BY <1>1, <1>3 DEF RequestRecord
<1>5. request[r].moved = FALSE
  BY <1>1, <1>2 DEF StepOK, RequestRecord
<1>6. StepOK(r)'
  BY <1>2, <1>4, <1>5 DEF StepOK, Save
<1>7. LocksOK(r)' /\ StackOK(r)'
  <2>1. Target(r)' = Target(r) /\ taskLock' = taskLock /\ graphLock' = graphLock /\ row' = row
    BY <1>4 DEF Target, Save
  <2>2. LocksOK(r)'
    BY <1>2, <1>4, <2>1 DEF LocksOK, Holding, Inside, Step
  <2>3. StackOK(r)'
    BY <1>2, <1>4, <2>1 DEF StackOK
  <2> QED
    BY <2>2, <2>3
<1>8. CopyOK(r)'
  <2>1. Loaded(r)' = Loaded(r)
    BY <1>4 DEF Loaded, Target, Save
  <2>2. Appended(r)' = 0
    BY <1>4, <1>5 DEF Appended
  <2>3. Last(task) \in Nat
    BY DEF TaskRecord, Last
  <2> QED
    BY <1>4, <1>5, <2>1, <2>2, <2>3 DEF CopyOK
<1> QED
  BY <1>1, <1>3, <1>6, <1>7, <1>8, SameRow DEF Save
-----------------------------------------------------------------------------
(* Entering a state *)

(* A history entry for a legal state, its promises pending, is an Entry. *)
LEMMA NewEntryType ==
  ASSUME NEW w \in WorkflowName, NEW to \in Label(w),
         NEW from \in AnyLabel \cup {"none"},
         NEW trigger \in Verb \cup {"start", "set-state", "request", "cascade-drop"},
         Graph[w].promised[to] \subseteq Key
  PROVE  /\ NewEntry(w, from, to, trigger) \in Entry
         /\ NewEntry(w, from, to, trigger).from = from
         /\ NewEntry(w, from, to, trigger).to = to
         /\ NewEntry(w, from, to, trigger).trigger = trigger
<1>1. to \in AnyLabel
  BY DEF AnyLabel
<1>2. [k \in Graph[w].promised[to] |-> "pending"] \in Promises
  BY DEF Promises, Status
<1> QED
  BY <1>1, <1>2 DEF NewEntry, Entry, WakeStatus

(* Only known responsibilities are promised. *)
LEMMA PromisedKeys ==
  ASSUME NEW w \in WorkflowName, NEW to \in Label(w)
  PROVE  Graph[w].promised[to] \subseteq Key
<1>1. SUFFICES ASSUME NEW k \in Graph[w].promised[to]
               PROVE  k \in OwnKey
  BY DEF Key
<1>2. k \in UNION {Graph[w].promised[s] : s \in Label(w)}
  OBVIOUS
<1> QED
  BY <1>2 DEF OwnKey

(* A set of promises is a function from known responsibilities to statuses.   *)
LEMMA KnownKeys ==
  /\ \A promises \in Promises : /\ DOMAIN promises \subseteq Key
                                /\ promises \in [DOMAIN promises -> Status]
  /\ \A keys \in SUBSET Key : \A promises \in [keys -> Status] : promises \in Promises
<1> HIDE DEF Key, Status
<1>1. ASSUME NEW promises \in Promises
      PROVE  DOMAIN promises \subseteq Key /\ promises \in [DOMAIN promises -> Status]
  <2>1. PICK keys \in SUBSET Key : promises \in [keys -> Status]
    BY DEF Promises
  <2> QED
    BY <2>1
<1>2. ASSUME NEW keys \in SUBSET Key, NEW promises \in [keys -> Status]
      PROVE  promises \in Promises
  BY DEF Promises
<1> QED
  BY <1>1, <1>2

(* Entering a state adds the one entry that records it. *)
LEMMA EnterAppends ==
  ASSUME NEW task \in TaskRecord, task.history # <<>>,
         task.state \in Label(task.workflow),
         NEW to \in Label(task.workflow),
         NEW trigger \in Verb \cup {"start", "set-state", "request", "cascade-drop"}
  PROVE  LET entered == Enter(task, to, trigger)
             entry   == entered.history[Last(entered)]
         IN  /\ entered \in TaskRecord
             /\ entered.workflow = task.workflow
             /\ entered.state = to
             /\ entered.history # <<>>
             /\ Last(entered) = Last(task) + 1
             /\ entry.from = task.state
             /\ entry.to = to
             /\ entry.trigger = trigger
<1> DEFINE entry   == NewEntry(task.workflow, task.state, to, trigger)
           entered == Enter(task, to, trigger)
<1>1. task.workflow \in WorkflowName /\ task.state \in AnyLabel /\ to \in AnyLabel
      /\ task.history \in Seq(Entry)
  BY DEF TaskRecord, AnyLabel
<1>2. entry \in Entry /\ entry.from = task.state /\ entry.to = to /\ entry.trigger = trigger
  BY <1>1, NewEntryType, PromisedKeys
<1>3. TurnOnEnter(task.workflow, to) \in Actor
  BY DEF TurnOnEnter, Actor
<1> HIDE DEF entry
<1>4. /\ Append(task.history, entry) \in Seq(Entry)
      /\ Len(Append(task.history, entry)) = Len(task.history) + 1
      /\ Append(task.history, entry)[Len(task.history) + 1] = entry
  BY <1>1, <1>2, AppendProperties
<1>5. /\ entered.history = Append(task.history, entry)
      /\ entered.workflow = task.workflow
      /\ entered.state = to
  BY DEF Enter, TaskRecord, entry
<1>6. entered \in TaskRecord
  BY <1>1, <1>3, <1>4 DEF Enter, TaskRecord, entry
<1>7. entered.history # <<>>
  BY <1>1, <1>4, <1>5
<1> HIDE DEF entered
<1>8. Last(entered) = Last(task) + 1 /\ entered.history[Last(entered)] = entry
  BY <1>4, <1>5 DEF Last
<1> QED
  BY <1>2, <1>5, <1>6, <1>7, <1>8 DEF entered
(* A transition under way keeps the invariant: the loaded copy gains one      *)
(* entry, and unless it is a free move that entry follows the graph.          *)
LEMMA TransitKeeps ==
  ASSUME IInv, NEW r \in Req, NEW task \in TaskRecord,
         NEW to \in Label(task.workflow),
         NEW trigger \in Verb \cup {"start", "set-state", "request", "cascade-drop"},
         request[r].pc = "load",
         request[r].op \in TransitionOp,
         task.state \in Label(task.workflow),
         task.history # <<>>,
         task.workflow = Loaded(r).workflow,
         Last(task) = Last(Loaded(r)),
         trigger # "set-state" => to \in Transitions(task.workflow, task.state),
         Transit(r, task, to, trigger)
  PROVE  IInv'
<1> DEFINE entered  == [Enter(task, to, trigger) EXCEPT !.blocked = FALSE]
           last     == Len(entered.history)
           promised == [k \in DOMAIN entered.history[last].promises \cup {"review-addressed"} |->
                          "pending"]
           saved    == [entered EXCEPT !.history[last].promises = promised]
           review   == to = "REVIEW" /\ Graph[task.workflow].reviewed
           new      == IF review THEN saved ELSE entered
           entry    == new.history[Last(new)]
<1>1. /\ taskLock \in [Task -> Req \cup {Nil}]
      /\ graphLock \in Req \cup {Nil}
      /\ request \in [Req -> RequestRecord]
      /\ arg = [q \in Req |-> arg[q]]
  BY DEF IInv, TypeOK
<1>2. StepOK(r) /\ LocksOK(r) /\ StackOK(r)
  BY DEF IInv
<1>3. LET e == entered.history[last]
      IN  /\ entered \in TaskRecord
          /\ entered.workflow = task.workflow
          /\ entered.state = to
          /\ entered.history # <<>>
          /\ last = Last(task) + 1
          /\ last \in Nat \ {0}
          /\ e \in Entry
          /\ e.from = task.state
          /\ e.to = to
          /\ e.trigger = trigger
  <2>1. LET plain == Enter(task, to, trigger)
        IN  /\ plain \in TaskRecord
            /\ entered.history = plain.history
            /\ entered.workflow = plain.workflow
            /\ entered.state = plain.state
            /\ entered \in TaskRecord
    <3> DEFINE plain == Enter(task, to, trigger)
    <3>1. plain \in TaskRecord
      BY EnterAppends
    <3> HIDE DEF plain
    <3>2. [plain EXCEPT !.blocked = FALSE] \in TaskRecord
          /\ [plain EXCEPT !.blocked = FALSE].history = plain.history
          /\ [plain EXCEPT !.blocked = FALSE].workflow = plain.workflow
          /\ [plain EXCEPT !.blocked = FALSE].state = plain.state
      BY <3>1 DEF TaskRecord
    <3> QED
      BY <3>1, <3>2 DEF plain
  <2>2. Last(Enter(task, to, trigger)) = last
    BY <2>1 DEF Last
  <2>3. Last(task) \in Nat /\ entered.history \in Seq(Entry)
    BY <2>1 DEF TaskRecord, Last
  <2> HIDE DEF entered
  <2>4. last = Last(task) + 1 /\ last \in 1..Len(entered.history)
    BY <2>2, <2>3, EnterAppends
  <2>5. entered.history[last] \in Entry
    BY <2>3, <2>4
  <2> QED
    BY <2>1, <2>2, <2>3, <2>4, <2>5, EnterAppends
<1> HIDE DEF entered
<1>4. /\ saved \in TaskRecord
      /\ saved.workflow = task.workflow
      /\ saved.state = to
      /\ saved.history # <<>>
      /\ Last(saved) = last
      /\ saved.history[last].from = task.state
      /\ saved.history[last].trigger = trigger
      /\ saved.history[last].to = to
  <2>1. entered.history \in Seq(Entry) /\ last \in 1..Len(entered.history)
    BY <1>3 DEF TaskRecord
  <2>2. promised \in Promises
    <3> DEFINE keys == DOMAIN entered.history[last].promises \cup {"review-addressed"}
    <3>1. entered.history[last].promises \in Promises
      BY <1>3 DEF Entry
    <3>2. DOMAIN entered.history[last].promises \subseteq Key
      BY <3>1, KnownKeys
    <3>3. keys \subseteq Key
      <4>1. "review-addressed" \in Key
        BY DEF Key
      <4> QED
        BY <3>2, <4>1
    <3> HIDE DEF keys
    <3>4. [k \in keys |-> "pending"] \in [keys -> Status]
      BY DEF Status
    <3> QED
      BY <3>3, <3>4, KnownKeys DEF keys
  <2> HIDE DEF promised
  <2> DEFINE e == [entered.history[last] EXCEPT !.promises = promised]
  <2>3. e \in Entry /\ e.from = task.state /\ e.trigger = trigger /\ e.to = to
    BY <1>3, <2>2 DEF Entry
  <2>4. saved = [entered EXCEPT !.history = [entered.history EXCEPT ![last] = e]]
    BY <1>3 DEF TaskRecord
  <2> HIDE DEF e
  <2>5. /\ [entered.history EXCEPT ![last] = e] \in Seq(Entry)
        /\ Len([entered.history EXCEPT ![last] = e]) = last
        /\ [entered.history EXCEPT ![last] = e][last] = e
    BY <2>1, <2>3, ExceptSeq
  <2> HIDE DEF saved
  <2>6. /\ saved.history = [entered.history EXCEPT ![last] = e]
        /\ saved.workflow = entered.workflow
        /\ saved.state = entered.state
        /\ saved \in TaskRecord
    BY <1>3, <2>4, <2>5 DEF TaskRecord
  <2>7. saved.history # <<>>
    BY <2>5, <2>6, <1>3, EmptySeq
  <2> QED
    BY <1>3, <2>3, <2>5, <2>6, <2>7 DEF Last
<1> HIDE DEF saved, last
<1>5. /\ new \in TaskRecord
      /\ new.workflow = task.workflow
      /\ new.state = to
      /\ new.history # <<>>
      /\ Last(new) = Last(task) + 1
      /\ entry.from = task.state
      /\ entry.trigger = trigger
      /\ entry.to = to
  BY <1>3, <1>4 DEF Last, last
<1>6. request' = [request EXCEPT ![r].pc = IF review THEN "review" ELSE "validate",
                                 ![r].moved = TRUE, ![r].task = new]
      /\ row' = row /\ arg' = arg /\ taskLock' = taskLock /\ graphLock' = graphLock
      /\ calls' = calls
  BY DEF Transit, entered, saved, last
<1> HIDE DEF new
<1>7. /\ request' \in [Req -> RequestRecord]
      /\ \A q \in Req \ {r} : request'[q] = request[q]
      /\ request'[r].pc \in {"review", "validate"}
      /\ request'[r].moved = TRUE
      /\ request'[r].task = new
      /\ request'[r].op = request[r].op
      /\ request'[r].stack = request[r].stack
  <2> DEFINE pc == IF review THEN "review" ELSE "validate"
             now == [request[r] EXCEPT !.pc = pc, !.moved = TRUE, !.task = new]
  <2>1. request[r] \in RequestRecord /\ pc \in {"review", "validate"}
    BY <1>1
  <2>2. request' = [request EXCEPT ![r] = now]
    BY <1>1, <1>6
  <2> HIDE DEF pc
  <2>3. /\ now \in RequestRecord
        /\ now.pc = pc
        /\ now.moved = TRUE
        /\ now.task = new
        /\ now.op = request[r].op
        /\ now.stack = request[r].stack
    BY <1>5, <2>1 DEF RequestRecord, Step
  <2> QED
    BY <1>1, <2>1, <2>2, <2>3
<1>8. StepOK(r)'
  <2>1. ValidArg(request[r].op, arg'[r])
    BY <1>2, <1>6 DEF StepOK
  <2> QED
    BY <1>2, <1>7, <2>1 DEF StepOK, TransitionOp
<1>9. LocksOK(r)' /\ StackOK(r)'
  <2>1. Target(r)' = Target(r)
    BY <1>7 DEF Target
  <2>2. LocksOK(r)'
    BY <1>2, <1>6, <1>7, <2>1 DEF LocksOK, Holding, Inside, Step
  <2>3. StackOK(r)'
    <3> DEFINE stack == request[r].stack
    <3>1. request'[r].pc # "idle" /\ request[r].pc # "idle" /\ request[r].pc # "waitTask"
      BY <1>1, <1>7
    <3>2. request'[r].stack = stack /\ request'[r].op = request[r].op /\ Target(r)' = Target(r)
      BY <1>7, <2>1
    <3>3. row' = row /\ taskLock' = taskLock
      BY <1>6
    <3>4. /\ stack # <<>>
          /\ request[r].op # "create_task" => Target(r) \in DOMAIN row
          /\ Len(stack) > 1 => request[r].op = "request_transition"
          /\ \A j \in 1..Len(stack) : stack[j].todo \subseteq DOMAIN row
          /\ \A j \in 1..(Len(stack) - 1) :
               /\ stack[j].task \in DOMAIN row
               /\ taskLock[stack[j].task] = r
          /\ \A i, j \in 1..Len(stack) : i < j => stack[i].task # stack[j].task
      BY <1>2, <3>1 DEF StackOK
    <3> QED
      BY <3>2, <3>3, <3>4 DEF StackOK
  <2> QED
    BY <2>2, <2>3
<1>10. CopyOK(r)'
  <2>1. Loaded(r)' = Loaded(r)
    BY <1>6, <1>7 DEF Loaded, Target
  <2>2. Appended(r)' = 1
    BY <1>7 DEF Appended
  <2>3. Last(task) \in Nat
    BY DEF TaskRecord, Last
  <2> QED
    BY <1>5, <1>7, <2>1, <2>2, <2>3 DEF CopyOK
<1> QED
  BY <1>1, <1>6, <1>7, <1>8, <1>9, <1>10, SameRow
(* Where the graph leads from a state of a workflow. *)
LEMMA EdgesStayInside ==
  ASSUME NEW w \in WorkflowName, NEW s \in Label(w)
  PROVE  Transitions(w, s) \subseteq Label(w)
<1>1. WellFormedGraph(Graph[w])
  BY GraphAssumption
<1> QED
  BY <1>1 DEF WellFormedGraph, Transitions, Label

(* Every operation a state offers is a known verb. *)
LEMMA VerbsKnown ==
  ASSUME NEW w \in WorkflowName, NEW s \in Label(w)
  PROVE  Verbs(w, s) \subseteq Verb
<1>1. DOMAIN Graph[w].declared[s] \subseteq OwnVerb
  BY DEF OwnVerb
<1> QED
  BY <1>1 DEF Verbs, Verb

(* A gated transition either raises or gets under way. *)
LEMMA GatedKeeps ==
  ASSUME IInv, NEW r \in Req, NEW task \in TaskRecord, NEW to,
         NEW trigger \in Verb \cup {"start", "set-state", "request", "cascade-drop"},
         request[r].pc = "load",
         request[r].op \in TransitionOp,
         task.state \in Label(task.workflow),
         task.history # <<>>,
         task.workflow = Loaded(r).workflow,
         Last(task) = Last(Loaded(r)),
         Gated(r, task, to, trigger)
  PROVE  IInv'
<1>1. CASE ~MayApply(task, to)
  BY <1>1, FailKeeps DEF Gated
<1>2. CASE MayApply(task, to)
  <2>1. to \in Transitions(task.workflow, task.state)
    BY <1>2 DEF MayApply
  <2>2. task.workflow \in WorkflowName
    BY DEF TaskRecord
  <2>3. to \in Label(task.workflow)
    BY <2>1, <2>2, EdgesStayInside
  <2>4. Transit(r, task, to, trigger)
    BY <1>2 DEF Gated
  <2> QED
    BY <2>1, <2>3, <2>4, TransitKeeps
<1> QED
  BY <1>1, <1>2

(* A handler about to work on its task finds it stored and well formed. *)
LEMMA LoadedRow ==
  ASSUME IInv, NEW r \in Req, request[r].pc # "idle", request[r].op # "create_task"
  PROVE  /\ Target(r) \in DOMAIN row
         /\ Target(r) \in Task
         /\ Loaded(r) \in TaskRecord
         /\ Loaded(r).workflow \in WorkflowName
         /\ Loaded(r).state \in Label(Loaded(r).workflow)
         /\ Loaded(r).history \in Seq(Entry)
         /\ Loaded(r).history # <<>>
         /\ Last(Loaded(r)) \in Nat \ {0}
         /\ ValidArg(request[r].op, arg[r])
<1>1. TypeOK /\ StackOK(r) /\ StepOK(r)
  BY DEF IInv
<1>2. Target(r) \in DOMAIN row
  BY <1>1 DEF StackOK
<1> QED
  BY <1>1, <1>2, RowFacts DEF Loaded, StepOK

(* An operation (apply_operation) keeps the invariant. *)
LEMMA ApplyOperationKeeps ==
  ASSUME IInv, NEW r \in Req, ApplyOperation(r)
  PROVE  IInv'
<1> DEFINE task == Loaded(r)
           verb == arg[r]
<1>1. request[r].pc = "load" /\ request[r].op = "apply_operation"
  BY DEF ApplyOperation, At
<1>2. /\ task \in TaskRecord
      /\ task.workflow \in WorkflowName
      /\ task.state \in Label(task.workflow)
      /\ task.history # <<>>
  BY <1>1, LoadedRow
<1>3. CASE verb \notin Verbs(task.workflow, task.state)
  BY <1>3, FailKeeps DEF ApplyOperation
<1>4. CASE verb \in Verbs(task.workflow, task.state)
  <2>1. verb \in Verb
    BY <1>2, <1>4, VerbsKnown
  <2>2. Gated(r, task, ResolveOperation(task.workflow, task.state, verb), verb)
    BY <1>4 DEF ApplyOperation
  <2> HIDE DEF task, verb
  <2>3. request[r].op \in TransitionOp
    BY <1>1 DEF TransitionOp
  <2>4. task = Loaded(r)
    BY DEF task
  <2> QED
    BY <1>1, <1>2, <2>1, <2>2, <2>3, <2>4, GatedKeeps
<1> QED
  BY <1>3, <1>4

(* A requested transition (request_transition) keeps it. *)
LEMMA RequestTransitionKeeps ==
  ASSUME IInv, NEW r \in Req, RequestTransition(r)
  PROVE  IInv'
<1> DEFINE trigger == IF Len(request[r].stack) > 1 THEN "cascade-drop" ELSE "request"
<1>1. request[r].pc = "load" /\ request[r].op = "request_transition"
      /\ Gated(r, Loaded(r), arg[r], trigger)
  BY DEF RequestTransition, At
<1>2. trigger \in Verb \cup {"start", "set-state", "request", "cascade-drop"}
  OBVIOUS
<1> HIDE DEF trigger
<1>3. request[r].op \in TransitionOp
  BY <1>1 DEF TransitionOp
<1> QED
  BY <1>1, <1>2, <1>3, LoadedRow, GatedKeeps

(* A free move (set_state) keeps it. *)
LEMMA SetStateKeeps ==
  ASSUME IInv, NEW r \in Req, SetState(r)
  PROVE  IInv'
<1>1. request[r].pc = "load" /\ request[r].op = "set_state" /\ request[r].op \in TransitionOp
  BY DEF SetState, At, TransitionOp
<1>2. CASE ~MayForce(Loaded(r), arg[r])
  BY <1>2, FailKeeps DEF SetState
<1>3. CASE MayForce(Loaded(r), arg[r])
  <2>1. Transit(r, Loaded(r), arg[r], "set-state") /\ arg[r] \in Label(Loaded(r).workflow)
    BY <1>3 DEF SetState, MayForce
  <2> QED
    BY <1>1, <2>1, LoadedRow, TransitKeeps
<1> QED
  BY <1>2, <1>3
(* Changing one history entry of a task keeps it a task of the same length. *)
LEMMA EntryChanged ==
  ASSUME NEW task \in TaskRecord, NEW i \in 1..Last(task), NEW e \in Entry
  PROVE  LET new == [task EXCEPT !.history[i] = e]
         IN  /\ new \in TaskRecord
             /\ new.workflow = task.workflow
             /\ new.state = task.state
             /\ Last(new) = Last(task)
             /\ new.history # <<>>
<1> DEFINE history == [task.history EXCEPT ![i] = e]
           new     == [task EXCEPT !.history[i] = e]
<1>1. task.history \in Seq(Entry) /\ i \in 1..Len(task.history)
  BY DEF TaskRecord, Last
<1>2. history \in Seq(Entry) /\ Len(history) = Len(task.history)
  BY <1>1, ExceptSeq
<1>3. Len(task.history) \in Nat /\ Len(task.history) # 0
  BY <1>1
<1>4. new = [task EXCEPT !.history = history]
  BY DEF TaskRecord
<1> HIDE DEF history, new
<1>5. /\ new \in TaskRecord
      /\ new.history = history
      /\ new.workflow = task.workflow
      /\ new.state = task.state
  BY <1>2, <1>4 DEF TaskRecord
<1>6. history # <<>>
  BY <1>2, <1>3, EmptySeq
<1> QED
  BY <1>2, <1>5, <1>6 DEF Last, new

(* Settling a wake (record_stage_entry_wake) keeps it. *)
LEMMA RecordStageEntryWakeKeeps ==
  ASSUME IInv, NEW r \in Req, RecordStageEntryWake(r)
  PROVE  IInv'
<1> DEFINE task == Loaded(r)
           i    == arg[r].index
           new  == [task EXCEPT !.history[i].wake = arg[r].status]
<1>1. request[r].pc = "load" /\ request[r].op = "record_stage_entry_wake"
  BY DEF RecordStageEntryWake, At
<1>2. CASE ~(i \in DOMAIN task.history /\ task.history[i].wake = "pending")
  BY <1>2, FailKeeps DEF RecordStageEntryWake
<1>3. CASE i \in DOMAIN task.history /\ task.history[i].wake = "pending"
  <2>1. Save(r, new)
    BY <1>3 DEF RecordStageEntryWake
  <2>2. /\ task \in TaskRecord
        /\ task.history \in Seq(Entry)
        /\ task.state \in Label(task.workflow)
        /\ arg[r].status \in {"delivered", "skipped"}
    BY <1>1, LoadedRow DEF ValidArg
  <2>3. i \in 1..Len(task.history) /\ task.history[i] \in Entry
    BY <1>3, <2>2
  <2> DEFINE e == [task.history[i] EXCEPT !.wake = arg[r].status]
  <2>4. e \in Entry
    BY <2>2, <2>3 DEF Entry, WakeStatus
  <2>5. new = [task EXCEPT !.history[i] = e]
    BY <2>2, <2>3 DEF TaskRecord
  <2>6. task = Loaded(r)
    OBVIOUS
  <2> HIDE DEF e, new, task, i
  <2>7. /\ new \in TaskRecord
        /\ new.workflow = task.workflow
        /\ new.state = task.state
        /\ Last(new) = Last(task)
        /\ new.history # <<>>
    <3>1. i \in 1..Last(task)
      BY <2>3 DEF Last
    <3> QED
      BY <2>2, <2>4, <2>5, <3>1, EntryChanged
  <2> QED
    BY <1>1, <2>1, <2>2, <2>6, <2>7, SaveKeeps
<1> QED
  BY <1>2, <1>3

(* Resolving a promise, and the advance it may trigger, keep it. *)
LEMMA ResolveResponsibilityKeeps ==
  ASSUME IInv, NEW r \in Req, ResolveResponsibility(r)
  PROVE  IInv'
<1> DEFINE task     == Loaded(r)
           key      == arg[r].key
           last     == Len(task.history)
           resolved == [task EXCEPT !.history[last].promises[key] = arg[r].status]
           advances == Outstanding(CurrentEntry(resolved).promises) = {} /\ AdvancesItself(task)
<1>1. /\ request[r].pc = "load"
      /\ request[r].op = "resolve_responsibility"
      /\ request[r].op \in TransitionOp
      /\ request[r].op # "create_task"
  BY DEF ResolveResponsibility, At, TransitionOp
<1>2. CASE key \notin DOMAIN CurrentEntry(task).promises
  BY <1>2, FailKeeps DEF ResolveResponsibility
<1>3. CASE key \in DOMAIN CurrentEntry(task).promises
  <2>1. IF advances
        THEN Gated(r, resolved, ResolveOperation(task.workflow, task.state, "advance"), "advance")
        ELSE Save(r, resolved)
    BY <1>3 DEF ResolveResponsibility
  <2>2. /\ task \in TaskRecord
        /\ task.history \in Seq(Entry)
        /\ task.state \in Label(task.workflow)
        /\ arg[r].status \in Status
        /\ last \in 1..Len(task.history)
        /\ last = Last(task)
    <3>1. task \in TaskRecord /\ task.history \in Seq(Entry) /\ task.state \in Label(task.workflow)
          /\ Last(task) \in Nat \ {0} /\ ValidArg(request[r].op, arg[r])
      BY <1>1, LoadedRow
    <3> QED
      BY <1>1, <3>1 DEF ValidArg, Status, Last
  <2>3. task.history[last] \in Entry /\ key \in DOMAIN task.history[last].promises
    BY <1>3, <2>2 DEF CurrentEntry
  <2> DEFINE promises == [task.history[last].promises EXCEPT ![key] = arg[r].status]
             e        == [task.history[last] EXCEPT !.promises = promises]
  <2>4. promises \in Promises
    <3> DEFINE old == task.history[last].promises
    <3>1. old \in Promises
      BY <2>3 DEF Entry
    <3>2. DOMAIN old \subseteq Key /\ old \in [DOMAIN old -> Status]
      BY <3>1, KnownKeys
    <3> HIDE DEF old
    <3>3. [old EXCEPT ![key] = arg[r].status] \in [DOMAIN old -> Status]
      BY <2>2, <3>2
    <3> QED
      BY <3>2, <3>3, KnownKeys DEF old
  <2>5. e \in Entry
    BY <2>3, <2>4 DEF Entry
  <2>6. resolved = [task EXCEPT !.history[last] = e]
    BY <2>2, <2>3 DEF TaskRecord, Entry
  <2>7. task = Loaded(r)
    OBVIOUS
  <2> HIDE DEF e, resolved, task, last, advances
  <2>8. /\ resolved \in TaskRecord
        /\ resolved.workflow = task.workflow
        /\ resolved.state = task.state
        /\ Last(resolved) = Last(task)
        /\ resolved.history # <<>>
    BY <2>2, <2>5, <2>6, EntryChanged
  <2>9. CASE advances
    BY <1>1, <2>1, <2>2, <2>7, <2>8, <2>9, GatedKeeps DEF Verb
  <2>10. CASE ~advances
    BY <1>1, <2>1, <2>2, <2>7, <2>8, <2>10, SaveKeeps
  <2> QED
    BY <2>9, <2>10
<1> QED
  BY <1>2, <1>3
-----------------------------------------------------------------------------
(* The other handlers up to the save *)

(* A step inside the sections that writes nothing and takes no lock. *)
LEMMA InsideKeeps ==
  ASSUME IInv, NEW r \in Req, NEW new \in RequestRecord,
         request[r].pc \in Inside, new.pc \in Inside,
         request[r].op # "create_task",
         new.op = request[r].op,
         new.stack = request[r].stack,
         request' = [request EXCEPT ![r] = new],
         UNCHANGED <<row, arg, taskLock, graphLock, calls>>,
         StepOK(r)', CopyOK(r)'
  PROVE  IInv'
<1>1. /\ taskLock \in [Task -> Req \cup {Nil}]
      /\ graphLock \in Req \cup {Nil}
      /\ request \in [Req -> RequestRecord]
      /\ arg = [q \in Req |-> arg[q]]
  BY DEF IInv, TypeOK
<1>2. LocksOK(r) /\ StackOK(r)
  BY DEF IInv
<1>3. /\ request' \in [Req -> RequestRecord]
      /\ \A q \in Req \ {r} : request'[q] = request[q]
      /\ request'[r] = new
  BY <1>1
<1>4. Target(r)' = Target(r)
  BY <1>3 DEF Target
<1>5. LocksOK(r)'
  BY <1>2, <1>3, <1>4 DEF LocksOK, Holding, Inside
<1>6. StackOK(r)'
  <2>1. request[r].pc \notin {"idle", "waitTask"} /\ new.pc \notin {"idle", "waitTask"}
    BY DEF Inside, Holding
  <2> QED
    BY <1>2, <1>3, <1>4, <2>1 DEF StackOK
<1> QED
  BY <1>1, <1>3, <1>5, <1>6, SameRow

(* The handlers that load the task and save it with some fields changed. *)
LEMMA ReplaceKeeps ==
  ASSUME IInv, NEW r \in Req, NEW task \in TaskRecord,
         request[r].pc = "load", request[r].op # "create_task",
         task.workflow = Loaded(r).workflow,
         task.state = Loaded(r).state,
         task.history = Loaded(r).history,
         Save(r, task)
  PROVE  IInv'
BY LoadedRow, SaveKeeps DEF Last

(* The handlers that take no lock keep it. *)
LEMMA UnlockedKeeps ==
  ASSUME IInv, NEW r \in Req,
         \/ Release(r) \/ SetTurn(r) \/ SetBlocked(r) \/ SetAttention(r) \/ SetFact(r)
         \/ SetGovernor(r)
  PROVE  IInv'
<1> DEFINE task == Loaded(r)
<1>1. request[r].pc = "load" /\ request[r].op # "create_task"
  BY DEF Release, SetTurn, SetBlocked, SetAttention, SetFact, SetGovernor, At
<1>2. task \in TaskRecord /\ ValidArg(request[r].op, arg[r]) /\ DOMAIN row \subseteq Task
  BY <1>1, LoadedRow DEF IInv, TypeOK
<1>3. ASSUME NEW new \in TaskRecord, new.workflow = task.workflow, new.state = task.state,
             new.history = task.history, Save(r, new)
      PROVE  IInv'
  BY <1>1, <1>3, ReplaceKeeps
<1> HIDE DEF task
<1>4. CASE Release(r)
  <2>1. Save(r, [task EXCEPT !.claimed = Nil])
    BY <1>4 DEF Release, task
  <2> QED
    BY <1>2, <1>3, <2>1 DEF TaskRecord
<1>5. CASE SetTurn(r)
  <2>1. \/ Save(r, [task EXCEPT !.turn = "agent", !.blocked = FALSE, !.attention = FALSE])
        \/ Save(r, [task EXCEPT !.turn = "user"])
    BY <1>5 DEF SetTurn, task
  <2>2. [task EXCEPT !.turn = "agent", !.blocked = FALSE, !.attention = FALSE] \in TaskRecord
        /\ [task EXCEPT !.turn = "user"] \in TaskRecord
    BY <1>2 DEF TaskRecord, Actor
  <2> QED
    BY <1>2, <1>3, <2>1, <2>2 DEF TaskRecord
<1>6. CASE SetBlocked(r)
  <2>1. Save(r, [task EXCEPT !.blocked = arg[r]]) /\ arg[r] \in BOOLEAN
    BY <1>2, <1>6 DEF SetBlocked, At, ValidArg, task
  <2> QED
    BY <1>2, <1>3, <2>1 DEF TaskRecord
<1>7. CASE SetAttention(r)
  <2>1. Save(r, [task EXCEPT !.attention = arg[r]]) /\ arg[r] \in BOOLEAN
    BY <1>2, <1>7 DEF SetAttention, At, ValidArg, task
  <2> QED
    BY <1>2, <1>3, <2>1 DEF TaskRecord
<1>8. CASE SetFact(r)
  <2>1. Save(r, [task EXCEPT !.fact = arg[r]]) /\ arg[r] \in Fact
    BY <1>2, <1>8 DEF SetFact, At, ValidArg, task
  <2> QED
    BY <1>2, <1>3, <2>1 DEF TaskRecord
<1>9. CASE SetGovernor(r)
  <2>1. CASE arg[r] \notin DOMAIN row \cup {Nil}
    BY <1>9, <2>1, FailKeeps DEF SetGovernor
  <2>2. CASE arg[r] \in DOMAIN row \cup {Nil}
    <3>1. Save(r, [task EXCEPT !.governor = arg[r]]) /\ arg[r] \in Task \cup {Nil}
      BY <1>2, <1>9, <2>2 DEF SetGovernor, task
    <3> QED
      BY <1>2, <1>3, <3>1 DEF TaskRecord
  <2> QED
    BY <2>1, <2>2
<1> QED
  BY <1>4, <1>5, <1>6, <1>7, <1>8, <1>9

(* A handler that keeps the copy it loaded over an await. *)
LEMMA HeldCopyKeeps ==
  ASSUME IInv, NEW r \in Req, NEW pc,
         \/ request[r].op = "claim" /\ pc = "ready"
         \/ request[r].op = "set_dependencies" /\ pc = "acyclic",
         request[r].pc = "load",
         request' = [request EXCEPT ![r].pc = pc, ![r].task = Loaded(r)],
         UNCHANGED <<row, arg, taskLock, graphLock, calls>>
  PROVE  IInv'
<1> DEFINE new == [request[r] EXCEPT !.pc = pc, !.task = Loaded(r)]
<1>1. request[r].op # "create_task"
  OBVIOUS
<1>2. request \in [Req -> RequestRecord] /\ StepOK(r)
  BY DEF IInv, TypeOK
<1>3. /\ Loaded(r) \in TaskRecord
      /\ Loaded(r).state \in Label(Loaded(r).workflow)
      /\ Loaded(r).history # <<>>
      /\ Last(Loaded(r)) \in Nat \ {0}
  BY <1>1, LoadedRow
<1>4. /\ new \in RequestRecord
      /\ new.pc = pc
      /\ new.task = Loaded(r)
      /\ new.op = request[r].op
      /\ new.stack = request[r].stack
      /\ new.moved = request[r].moved
  BY <1>2, <1>3 DEF RequestRecord, Step
<1>5. request' = [request EXCEPT ![r] = new]
  BY <1>1, <1>2
<1> HIDE DEF new
<1>6. request'[r] = new /\ request[r].moved = FALSE
  BY <1>1, <1>2, <1>5 DEF StepOK, RequestRecord
<1>7. StepOK(r)'
  BY <1>1, <1>2, <1>4, <1>6 DEF StepOK
<1>8. CopyOK(r)'
  <2>1. Loaded(r)' = Loaded(r) /\ Appended(r)' = 0
    BY <1>1, <1>4, <1>6 DEF Loaded, Target, Appended
  <2> QED
    BY <1>3, <1>4, <1>6, <2>1 DEF CopyOK
<1> QED
  BY <1>1, <1>4, <1>5, <1>7, <1>8, InsideKeeps DEF Inside, Holding, Step

(* The first half of claim, the look at the task, keeps it. *)
LEMMA ClaimKeeps ==
  ASSUME IInv, NEW r \in Req, Claim(r)
  PROVE  IInv'
<1>1. CASE Fail(r)
  BY <1>1, FailKeeps
<1>2. CASE ~Fail(r)
  BY <1>2, HeldCopyKeeps DEF Claim, At
<1> QED
  BY <1>1, <1>2

(* So does the first half of set_dependencies. *)
LEMMA SetDependenciesKeeps ==
  ASSUME IInv, NEW r \in Req, SetDependencies(r)
  PROVE  IInv'
<1>1. CASE Fail(r)
  BY <1>1, FailKeeps
<1>2. CASE ~Fail(r)
  BY <1>2, HeldCopyKeeps DEF SetDependencies, At
<1> QED
  BY <1>1, <1>2

(* What the copy held over that await still says when it is saved. *)
LEMMA HeldCopy ==
  ASSUME IInv, NEW r \in Req, request[r].pc \in {"ready", "acyclic"}
  PROVE  LET task == request[r].task
         IN  /\ request[r].op = IF request[r].pc = "ready" THEN "claim" ELSE "set_dependencies"
             /\ ValidArg(request[r].op, arg[r])
             /\ task \in TaskRecord
             /\ task.state \in Label(task.workflow)
             /\ task.history # <<>>
             /\ task.workflow = Loaded(r).workflow
             /\ Last(task) = Last(Loaded(r))
<1>1. StepOK(r) /\ CopyOK(r) /\ request \in [Req -> RequestRecord]
  BY DEF IInv, TypeOK
<1>2. request[r].op \in {"claim", "set_dependencies"} /\ Appended(r) = 0
      /\ request[r].op = IF request[r].pc = "ready" THEN "claim" ELSE "set_dependencies"
  BY <1>1 DEF StepOK, Appended
<1>3. request[r].op \notin UnlockedOp
  BY <1>2 DEF UnlockedOp
<1>4. Last(Loaded(r)) \in Nat
  BY <1>2, LoadedRow
<1> QED
  BY <1>1, <1>2, <1>3, <1>4 DEF CopyOK, Saving, StepOK

(* The second half of claim, the look at the dependencies, keeps it. *)
LEMMA ClaimIfReadyKeeps ==
  ASSUME IInv, NEW r \in Req, ClaimIfReady(r)
  PROVE  IInv'
<1> DEFINE new == [request[r].task EXCEPT !.claimed = arg[r]]
<1>1. CASE Fail(r)
  BY <1>1, FailKeeps
<1>2. CASE ~Fail(r)
  <2>1. Save(r, new) /\ request[r].pc = "ready"
    BY <1>2 DEF ClaimIfReady
  <2>2. request[r].op = "claim" /\ request[r].task \in TaskRecord /\ arg[r] \in Runner
    BY <2>1, HeldCopy DEF ValidArg
  <2>3. /\ new \in TaskRecord
        /\ new.workflow = request[r].task.workflow
        /\ new.state = request[r].task.state
        /\ new.history = request[r].task.history
    BY <2>2 DEF TaskRecord
  <2> HIDE DEF new
  <2> QED
    BY <2>1, <2>2, <2>3, HeldCopy, SaveKeeps DEF Last
<1> QED
  BY <1>1, <1>2

(* So does the second half of set_dependencies, the search for a cycle. *)
LEMMA ValidateDependenciesKeeps ==
  ASSUME IInv, NEW r \in Req, ValidateDependencies(r)
  PROVE  IInv'
<1> DEFINE new == [request[r].task EXCEPT !.dependsOn = arg[r]]
<1>1. CASE Fail(r)
  BY <1>1, FailKeeps
<1>2. CASE ~Fail(r)
  <2>1. Save(r, new) /\ request[r].pc = "acyclic"
    BY <1>2 DEF ValidateDependencies
  <2>2. /\ request[r].op = "set_dependencies"
        /\ request[r].task \in TaskRecord
        /\ arg[r] \subseteq Task
    BY <2>1, HeldCopy DEF ValidArg
  <2>3. /\ new \in TaskRecord
        /\ new.workflow = request[r].task.workflow
        /\ new.state = request[r].task.state
        /\ new.history = request[r].task.history
    BY <2>2 DEF TaskRecord
  <2> HIDE DEF new
  <2> QED
    BY <2>1, <2>2, <2>3, HeldCopy, SaveKeeps DEF Last
<1> QED
  BY <1>1, <1>2

(* pause_launch and retry_task decide, then write without re-reading. *)
LEMMA DecideLaunchKeeps ==
  ASSUME IInv, NEW r \in Req, PauseLaunch(r) \/ RetryTask(r)
  PROVE  IInv'
<1> DEFINE new == [request[r] EXCEPT !.pc = "target"]
<1>1. CASE Fail(r)
  BY <1>1, FailKeeps
<1>2. CASE ~Fail(r)
  <2>1. /\ request[r].pc = "load" /\ request[r].op \in {"pause_launch", "retry_task"}
        /\ request' = [request EXCEPT ![r].pc = "target"]
        /\ UNCHANGED <<row, arg, taskLock, graphLock, calls>>
    BY <1>2 DEF PauseLaunch, RetryTask, At
  <2>2. request \in [Req -> RequestRecord] /\ StepOK(r)
    BY DEF IInv, TypeOK
  <2>3. /\ new \in RequestRecord
        /\ new.pc = "target"
        /\ new.op = request[r].op
        /\ new.stack = request[r].stack
        /\ new.moved = request[r].moved
    BY <2>2 DEF RequestRecord, Step
  <2>4. request' = [request EXCEPT ![r] = new]
    BY <2>1, <2>2
  <2> HIDE DEF new
  <2>5. request'[r] = new
    BY <2>2, <2>4
  <2>6. StepOK(r)'
    BY <2>1, <2>2, <2>3, <2>5 DEF StepOK
  <2>7. CopyOK(r)'
    BY <2>3, <2>5 DEF CopyOK, Saving
  <2> QED
    BY <2>1, <2>3, <2>4, <2>6, <2>7, InsideKeeps DEF Inside, Holding, Step
<1> QED
  BY <1>1, <1>2

(* The first half of the save. *)
LEMMA ValidateKeeps ==
  ASSUME IInv, NEW r \in Req, Validate(r)
  PROVE  IInv'
<1> DEFINE n    == Len(Loaded(r).history)
           task == request[r].task
           new  == [request[r] EXCEPT !.pc = "update", !.stored = n]
<1>1. CASE Fail(r)
  BY <1>1, FailKeeps
<1>2. CASE ~Fail(r)
  <2>1. /\ request[r].pc = "validate"
        /\ Consistent(task)
        /\ AppendOnly(Loaded(r).history, task.history)
        /\ request' = [request EXCEPT ![r].pc = "update", ![r].stored = n]
        /\ UNCHANGED <<row, arg, taskLock, graphLock, calls>>
    BY <1>2 DEF Validate
  <2>2. request \in [Req -> RequestRecord] /\ StepOK(r) /\ CopyOK(r)
    BY DEF IInv, TypeOK
  <2>3. request[r].op # "create_task"
    BY <2>1, <2>2 DEF StepOK
  <2>4. n \in Nat \ {0} /\ n = Last(Loaded(r))
    BY <2>1, <2>3, LoadedRow DEF Last
  <2>5. /\ Last(task) >= n
        /\ \A i \in 1..n : TransitionFacts(task.history[i]) = TransitionFacts(Loaded(r).history[i])
    BY <2>1 DEF AppendOnly, Last
  <2>6. /\ new \in RequestRecord
        /\ new.pc = "update"
        /\ new.stored = n
        /\ new.task = task
        /\ new.op = request[r].op
        /\ new.stack = request[r].stack
        /\ new.moved = request[r].moved
    BY <2>2, <2>4 DEF RequestRecord, Step
  <2>7. request' = [request EXCEPT ![r] = new]
    BY <2>1, <2>2
  <2> HIDE DEF new
  <2>8. request'[r] = new
    BY <2>2, <2>7
  <2>9. StepOK(r)'
    BY <2>1, <2>2, <2>6, <2>8 DEF StepOK
  <2>10. CopyOK(r)'
    <3>1. Loaded(r)' = Loaded(r) /\ Appended(r)' = Appended(r) /\ Appended(r) \in {0, 1}
      BY <2>1, <2>6, <2>8 DEF Loaded, Target, Appended
    <3>2. request[r].op \in UnlockedOp => Appended(r) = 0
      BY <2>1, <2>2 DEF StepOK, Appended, TransitionOp, UnlockedOp
    <3>3. /\ task \in TaskRecord
          /\ task.state \in Label(task.workflow)
          /\ task.history # <<>>
          /\ task.workflow = Loaded(r).workflow
          /\ request[r].moved =>
               LET entry == task.history[Last(task)]
               IN  entry.trigger # "set-state" => entry.to \in Transitions(task.workflow, entry.from)
          /\ Last(task) <= n + Appended(r)
          /\ request[r].op \notin UnlockedOp => Last(task) = n + Appended(r)
      BY <2>1, <2>2, <2>4 DEF CopyOK, Saving
    <3>4. Last(task) \in Nat
      BY <3>3 DEF TaskRecord, Last
    <3>5. Last(task) = n + Appended(r)
      BY <2>4, <2>5, <3>1, <3>2, <3>3, <3>4
    <3>6. n \in 1..Last(Loaded(r))
      BY <2>4
    <3> HIDE DEF n, task
    <3> QED
      BY <2>1, <2>4, <2>5, <2>6, <2>8, <3>1, <3>3, <3>5, <3>6 DEF CopyOK, n
  <2> QED
    BY <2>1, <2>3, <2>6, <2>7, <2>9, <2>10, InsideKeeps DEF Inside, Holding, Step
<1> QED
  BY <1>1, <1>2
-----------------------------------------------------------------------------
(* Creating tasks *)

(* A new task is well formed and has only its seed entry. *)
LEMMA NewTaskType ==
  ASSUME NEW w \in WorkflowName, NEW governor \in Task \cup {Nil}
  PROVE  LET new == NewTask(w, governor)
         IN  /\ new \in TaskRecord
             /\ new.workflow = w
             /\ new.state \in Label(w)
             /\ Len(new.history) = 1
             /\ new.history # <<>>
             /\ new.history[1].to = new.state
<1> DEFINE s     == Graph[w].initial
           entry == [NewEntry(w, "none", s, "start") EXCEPT !.wake = "skipped"]
<1>1. s \in Label(w) /\ s \in AnyLabel
  <2>1. WellFormedGraph(Graph[w])
    BY GraphAssumption
  <2> QED
    BY <2>1 DEF WellFormedGraph, Label, AnyLabel
<1>2. NewEntry(w, "none", s, "start") \in Entry /\ NewEntry(w, "none", s, "start").to = s
  <2> HIDE DEF s
  <2>1. Graph[w].promised[s] \subseteq Key
    BY <1>1, PromisedKeys
  <2>2. "none" \in AnyLabel \cup {"none"}
        /\ "start" \in Verb \cup {"start", "set-state", "request", "cascade-drop"}
    OBVIOUS
  <2> QED
    BY <1>1, <2>1, <2>2, NewEntryType
<1>3. entry \in Entry /\ entry.to = s
  BY <1>2 DEF Entry, WakeStatus
<1>4. StartEntry(w) = entry
  BY DEF StartEntry
<1> HIDE DEF entry, s
<1>5. <<entry>> \in Seq(Entry) /\ Len(<<entry>>) = 1 /\ <<entry>>[1] = entry /\ <<entry>> # <<>>
  BY <1>3
<1>6. TurnOnEnter(w, s) \in Actor
  BY DEF TurnOnEnter, Actor
<1> QED
  BY <1>1, <1>3, <1>4, <1>5, <1>6 DEF NewTask, TaskRecord, s

(* Inserting it disturbs no other row. *)
LEMMA InsertedRow ==
  ASSUME IInv, NEW id \in Task \ DOMAIN row, NEW new \in TaskRecord,
         new.state \in Label(new.workflow),
         Len(new.history) = 1, new.history # <<>>,
         row' = Inserted(id, new)
  PROVE  /\ RowGrows
         /\ DOMAIN row' = DOMAIN row \cup {id}
         /\ row' \in [DOMAIN row' -> TaskRecord]
         /\ \A x \in DOMAIN row' : row'[x].state \in Label(row'[x].workflow) /\ row'[x].history # <<>>
         /\ \A x \in DOMAIN row : row'[x] = row[x]
         /\ row'[id] = new
         /\ HistoryFollowsGraph'
<1>1. /\ DOMAIN row' = DOMAIN row \cup {id}
      /\ \A x \in DOMAIN row : row'[x] = row[x]
      /\ row'[id] = new
      /\ row' = [x \in DOMAIN row' |-> row'[x]]
  BY DEF Inserted
<1>2. TypeOK /\ HistoryFollowsGraph
  BY DEF IInv
<1>3. \A x \in DOMAIN row' : /\ row'[x] \in TaskRecord
                            /\ row'[x].state \in Label(row'[x].workflow)
                            /\ row'[x].history # <<>>
  BY <1>1, <1>2 DEF TypeOK
<1>4. RowGrows
  <2>1. \A x \in DOMAIN row : Last(row[x]) \in Nat
    BY <1>2, RowFacts
  <2> QED
    BY <1>1, <2>1 DEF RowGrows, Last
<1>5. HistoryFollowsGraph'
  <2>1. ASSUME NEW x \in DOMAIN row', NEW i \in 2..Last(row'[x]),
               row'[x].history[i].trigger # "set-state"
        PROVE  row'[x].history[i].to \in Transitions(row'[x].workflow, row'[x].history[i].from)
    <3>1. CASE x = id
      BY <1>1, <2>1, <3>1 DEF Last
    <3>2. CASE x \in DOMAIN row
      BY <1>1, <1>2, <2>1, <3>2 DEF HistoryFollowsGraph, Last
    <3> QED
      BY <1>1, <3>1, <3>2
  <2> QED
    BY <2>1 DEF HistoryFollowsGraph, Last
<1> QED
  BY <1>1, <1>3, <1>4, <1>5

(* Creating a task (create_task) keeps it. *)
LEMMA CreateTaskKeeps ==
  ASSUME IInv, NEW r \in Req, CreateTask(r)
  PROVE  IInv'
<1>1. CASE Fail(r)
  BY <1>1, FailKeeps
<1>2. CASE ~Fail(r)
  <2>1. PICK id \in Task \ DOMAIN row :
             /\ arg[r].workflow \in WorkflowName
             /\ arg[r].governor # Nil => arg[r].governor \in DOMAIN row
             /\ arg[r].dependsOn \subseteq DOMAIN row
             /\ row' = Inserted(id, [NewTask(arg[r].workflow, arg[r].governor)
                                       EXCEPT !.dependsOn = arg[r].dependsOn])
             /\ request' = [request EXCEPT ![r] = Idle]
             /\ arg' = [arg EXCEPT ![r] = Nil]
             /\ ReleaseGraphLock(r)
             /\ UNCHANGED <<taskLock, calls>>
    BY <1>2 DEF CreateTask
  <2> DEFINE plain == NewTask(arg[r].workflow, arg[r].governor)
             new   == [plain EXCEPT !.dependsOn = arg[r].dependsOn]
  <2>2. TypeOK
    BY DEF IInv
  <2>3. /\ arg[r].workflow \in WorkflowName
        /\ arg[r].governor \in Task \cup {Nil}
        /\ arg[r].dependsOn \subseteq Task
    BY <2>1, <2>2 DEF TypeOK
  <2>4. /\ plain \in TaskRecord
        /\ plain.state \in Label(plain.workflow)
        /\ Len(plain.history) = 1
        /\ plain.history # <<>>
    BY <2>3, NewTaskType
  <2> HIDE DEF plain
  <2>5. /\ new \in TaskRecord
        /\ new.state \in Label(new.workflow)
        /\ Len(new.history) = 1
        /\ new.history # <<>>
    BY <2>3, <2>4 DEF TaskRecord
  <2>6. row' = Inserted(id, new)
    BY <2>1 DEF plain
  <2> HIDE DEF new
  <2>7. /\ RowGrows
        /\ DOMAIN row' = DOMAIN row \cup {id}
        /\ row' \in [DOMAIN row' -> TaskRecord]
        /\ \A x \in DOMAIN row' : row'[x].state \in Label(row'[x].workflow) /\ row'[x].history # <<>>
        /\ \A x \in DOMAIN row : row'[x] = row[x]
        /\ HistoryFollowsGraph'
    BY <2>5, <2>6, InsertedRow
  <2>8. request' \in [Req -> RequestRecord] /\ request'[r] = Idle
    BY <2>1, <2>2, IdleRequest DEF TypeOK
  <2>9. TypeOK'
    BY <2>1, <2>2, <2>7, <2>8 DEF TypeOK, ReleaseGraphLock
  <2>10. Undisturbed(r)
    BY <2>1, <2>2, <2>7 DEF Undisturbed, TypeOK, ReleaseGraphLock
  <2>11. StepOK(r)' /\ LocksOK(r)' /\ StackOK(r)' /\ CopyOK(r)'
    BY <2>8, IdleRequest
  <2> QED
    BY <2>7, <2>9, <2>10, <2>11, Preserved
<1> QED
  BY <1>1, <1>2

(* Creating a review task before its author is saved keeps it. *)
LEMMA CreateReviewTaskKeeps ==
  ASSUME IInv, NEW r \in Req, CreateReviewTask(r)
  PROVE  IInv'
<1> DEFINE task == request[r].task
<1>1. request[r].pc = "review" /\ UNCHANGED <<arg, taskLock, graphLock, calls>>
  BY DEF CreateReviewTask
<1>2. TypeOK /\ request \in [Req -> RequestRecord] /\ StepOK(r) /\ CopyOK(r) /\ LocksOK(r) /\ StackOK(r)
  BY DEF IInv, TypeOK
<1>3. request[r].moved /\ request[r].op \in TransitionOp /\ request[r].op # "create_task"
  BY <1>1, <1>2 DEF StepOK, TransitionOp
<1>4. /\ task \in TaskRecord
      /\ Target(r) \in Task /\ Target(r) \in DOMAIN row
  BY <1>1, <1>2, <1>3, LoadedRow DEF CopyOK, Saving
<1>5. ASSUME NEW new \in TaskRecord,
             new.workflow = task.workflow, new.state = task.state, new.history = task.history,
             request' = [request EXCEPT ![r].pc = "validate", ![r].task = new],
             Loaded(r)' = Loaded(r),
             DOMAIN row \subseteq DOMAIN row'
      PROVE  /\ request' \in [Req -> RequestRecord]
             /\ \A q \in Req \ {r} : request'[q] = request[q]
             /\ StepOK(r)' /\ LocksOK(r)' /\ StackOK(r)' /\ CopyOK(r)'
  <2> DEFINE now == [request[r] EXCEPT !.pc = "validate", !.task = new]
  <2>1. /\ now \in RequestRecord
        /\ now.pc = "validate"
        /\ now.task = new
        /\ now.op = request[r].op
        /\ now.stack = request[r].stack
        /\ now.moved = request[r].moved
    BY <1>2, <1>5 DEF RequestRecord, Step
  <2>2. request' = [request EXCEPT ![r] = now]
    BY <1>2, <1>5
  <2> HIDE DEF now
  <2>3. request' \in [Req -> RequestRecord] /\ request'[r] = now
        /\ \A q \in Req \ {r} : request'[q] = request[q]
    BY <1>2, <2>1, <2>2
  <2>4. StepOK(r)'
    BY <1>1, <1>2, <1>3, <2>1, <2>3 DEF StepOK
  <2>5. Target(r)' = Target(r) /\ Appended(r)' = Appended(r)
    BY <2>1, <2>3 DEF Target, Appended
  <2>6. LocksOK(r)'
    BY <1>1, <1>2, <2>1, <2>3, <2>5 DEF LocksOK, Holding, Inside, Step
  <2>7. StackOK(r)'
    BY <1>1, <1>2, <1>5, <2>1, <2>3, <2>5 DEF StackOK
  <2>8. CopyOK(r)'
    BY <1>1, <1>2, <1>5, <2>1, <2>3, <2>5 DEF CopyOK, Saving, Last
  <2> QED
    BY <2>3, <2>4, <2>6, <2>7, <2>8
<1>6. CASE row' = row
  <2>1. \/ request' = [request EXCEPT ![r].pc = "validate"]
        \/ request' = [request EXCEPT ![r].pc = "validate", ![r].task.blocked = TRUE]
    BY DEF CreateReviewTask
  <2>2. PICK new \in TaskRecord :
          /\ new.workflow = task.workflow /\ new.state = task.state /\ new.history = task.history
          /\ request' = [request EXCEPT ![r].pc = "validate", ![r].task = new]
    <3>1. CASE request' = [request EXCEPT ![r].pc = "validate"]
      <4>1. request' = [request EXCEPT ![r].pc = "validate", ![r].task = task]
        BY <1>2, <3>1 DEF RequestRecord
      <4> QED
        BY <1>4, <4>1
    <3>2. CASE request' = [request EXCEPT ![r].pc = "validate", ![r].task.blocked = TRUE]
      <4>1. /\ [task EXCEPT !.blocked = TRUE] \in TaskRecord
            /\ [task EXCEPT !.blocked = TRUE].workflow = task.workflow
            /\ [task EXCEPT !.blocked = TRUE].state = task.state
            /\ [task EXCEPT !.blocked = TRUE].history = task.history
        BY <1>4 DEF TaskRecord
      <4>2. request' = [request EXCEPT ![r].pc = "validate", ![r].task = [task EXCEPT !.blocked = TRUE]]
        BY <1>2, <3>2 DEF RequestRecord
      <4> QED
        BY <4>1, <4>2
    <3> QED
      BY <2>1, <3>1, <3>2
  <2>3. Loaded(r)' = Loaded(r)
    BY <1>2, <1>6, <2>2 DEF Loaded, Target, RequestRecord
  <2>4. /\ request' \in [Req -> RequestRecord]
        /\ \A q \in Req \ {r} : request'[q] = request[q]
        /\ StepOK(r)' /\ LocksOK(r)' /\ StackOK(r)' /\ CopyOK(r)'
    BY <1>5, <1>6, <2>2, <2>3
  <2> QED
    BY <1>1, <1>2, <1>6, <2>4, SameRow DEF TypeOK
<1>7. CASE row' # row
  <2> DEFINE new == [task EXCEPT !.blocked = TRUE]
  <2>1. PICK id \in Task \ DOMAIN row :
          /\ ReviewWorkflow \in WorkflowName
          /\ row' = Inserted(id, NewTask(ReviewWorkflow, Target(r)))
          /\ request' = [request EXCEPT ![r].pc = "validate", ![r].task.blocked = TRUE]
    BY <1>7 DEF CreateReviewTask
  <2>2. /\ new \in TaskRecord
        /\ new.workflow = task.workflow
        /\ new.state = task.state
        /\ new.history = task.history
    BY <1>4 DEF TaskRecord
  <2>3. request' = [request EXCEPT ![r].pc = "validate", ![r].task = new]
    BY <1>2, <2>1 DEF RequestRecord
  <2>4. /\ RowGrows
        /\ DOMAIN row' = DOMAIN row \cup {id}
        /\ row' \in [DOMAIN row' -> TaskRecord]
        /\ \A x \in DOMAIN row' : row'[x].state \in Label(row'[x].workflow) /\ row'[x].history # <<>>
        /\ \A x \in DOMAIN row : row'[x] = row[x]
        /\ HistoryFollowsGraph'
    <3> DEFINE review == NewTask(ReviewWorkflow, Target(r))
    <3>1. /\ review \in TaskRecord
          /\ review.state \in Label(review.workflow)
          /\ Len(review.history) = 1
          /\ review.history # <<>>
      BY <1>4, <2>1, NewTaskType
    <3> HIDE DEF review
    <3> QED
      BY <2>1, <3>1, InsertedRow DEF review
  <2>5. Loaded(r)' = Loaded(r)
    BY <1>2, <1>4, <2>3, <2>4 DEF Loaded, Target, RequestRecord
  <2> HIDE DEF new
  <2>6. /\ request' \in [Req -> RequestRecord]
        /\ \A q \in Req \ {r} : request'[q] = request[q]
        /\ StepOK(r)' /\ LocksOK(r)' /\ StackOK(r)' /\ CopyOK(r)'
    BY <1>5, <2>2, <2>3, <2>4, <2>5
  <2>7. TypeOK'
    BY <1>1, <1>2, <2>4, <2>6 DEF TypeOK
  <2>8. Undisturbed(r)
    BY <1>1, <2>4, <2>6 DEF Undisturbed
  <2> QED
    BY <2>4, <2>6, <2>7, <2>8, Preserved
<1> QED
  BY <1>6, <1>7
-----------------------------------------------------------------------------
(* Writing rows *)

(* Replacing one row by a well-formed one that extends it. *)
LEMMA ReplacedRow ==
  ASSUME TypeOK, HistoryFollowsGraph, NEW id \in DOMAIN row, NEW new \in TaskRecord,
         new.workflow = row[id].workflow,
         new.state \in Label(new.workflow),
         Last(new) >= Last(row[id]),
         \A i \in 1..Last(row[id]) :
           TransitionFacts(new.history[i]) = TransitionFacts(row[id].history[i]),
         \A i \in (Last(row[id]) + 1)..Last(new) :
           new.history[i].trigger # "set-state"
             => new.history[i].to \in Transitions(new.workflow, new.history[i].from),
         row' = [row EXCEPT ![id] = new]
  PROVE  /\ RowGrows
         /\ DOMAIN row' = DOMAIN row
         /\ row' \in [DOMAIN row' -> TaskRecord]
         /\ \A x \in DOMAIN row' : row'[x].state \in Label(row'[x].workflow) /\ row'[x].history # <<>>
         /\ \A x \in DOMAIN row : x # id => row'[x] = row[x]
         /\ row'[id] = new
         /\ HistoryFollowsGraph'
<1>1. /\ row \in [DOMAIN row -> TaskRecord]
      /\ \A x \in DOMAIN row : /\ row[x].state \in Label(row[x].workflow)
                              /\ row[x].history # <<>>
                              /\ Last(row[x]) \in Nat \ {0}
  BY RowFacts DEF TypeOK
<1>2. new.history \in Seq(Entry) /\ Last(new) \in Nat
  BY DEF TaskRecord, Last
<1>3. new.history # <<>>
  BY <1>1, <1>2, EmptySeq DEF Last
<1>4. /\ DOMAIN row' = DOMAIN row
      /\ row' \in [DOMAIN row' -> TaskRecord]
      /\ \A x \in DOMAIN row : x # id => row'[x] = row[x]
      /\ row'[id] = new
  BY <1>1
<1>5. RowGrows
  BY <1>1, <1>4 DEF RowGrows, Last
<1>6. HistoryFollowsGraph'
  <2>1. ASSUME NEW x \in DOMAIN row, NEW i \in 2..Last(row'[x]),
               row'[x].history[i].trigger # "set-state"
        PROVE  row'[x].history[i].to \in Transitions(row'[x].workflow, row'[x].history[i].from)
    <3>1. CASE x # id
      BY <1>4, <2>1, <3>1 DEF HistoryFollowsGraph
    <3>2. CASE x = id /\ i <= Last(row[id])
      <4>1. i \in 1..Last(row[id]) /\ i \in 2..Last(row[id])
        BY <1>1, <3>2
      <4>2. /\ new.history[i].to = row[id].history[i].to
            /\ new.history[i].from = row[id].history[i].from
            /\ new.history[i].trigger = row[id].history[i].trigger
        BY <4>1 DEF TransitionFacts
      <4> QED
        BY <1>4, <2>1, <3>2, <4>1, <4>2 DEF HistoryFollowsGraph
    <3>3. CASE x = id /\ i > Last(row[id])
      <4>1. i \in (Last(row[id]) + 1)..Last(new)
        BY <1>1, <1>2, <1>4, <3>3
      <4> QED
        BY <1>4, <2>1, <3>3, <4>1
    <3> QED
      BY <1>1, <3>1, <3>2, <3>3
  <2> QED
    BY <1>4, <2>1 DEF HistoryFollowsGraph, Last
<1> QED
  BY <1>1, <1>3, <1>4, <1>5, <1>6

(* The column update of pause_launch and retry_task keeps it. *)
LEMMA SetLaunchPauseKeeps ==
  ASSUME IInv, NEW r \in Req, SetLaunchPause(r)
  PROVE  IInv'
<1> DEFINE old == Loaded(r)
           new == IF request[r].op = "pause_launch" THEN [old EXCEPT !.launchPaused = TRUE]
                  ELSE [old EXCEPT !.launchPaused = FALSE, !.claimed = Nil]
<1>1. /\ request[r].pc = "target"
      /\ request' = [request EXCEPT ![r] = Idle]
      /\ arg' = [arg EXCEPT ![r] = Nil]
      /\ ReleaseGraphLock(r)
      /\ UNCHANGED <<taskLock, calls>>
  BY DEF SetLaunchPause
<1>2. TypeOK /\ HistoryFollowsGraph /\ StepOK(r)
  BY DEF IInv
<1>3. request[r].op # "create_task"
  BY <1>1, <1>2 DEF StepOK
<1>4. /\ Target(r) \in DOMAIN row
      /\ old \in TaskRecord
      /\ old.state \in Label(old.workflow)
      /\ Last(old) \in Nat \ {0}
      /\ old = row[Target(r)]
  BY <1>1, <1>3, LoadedRow DEF Loaded
<1>5. row' = [row EXCEPT ![Target(r)] = new]
  BY <1>2, <1>4 DEF SetLaunchPause, TypeOK, TaskRecord
<1> HIDE DEF old
<1>6. /\ new \in TaskRecord
      /\ new.workflow = old.workflow
      /\ new.state = old.state
      /\ new.history = old.history
  BY <1>4 DEF TaskRecord
<1> HIDE DEF new
<1>7. Last(new) = Last(old)
  BY <1>6 DEF Last
<1>8. /\ RowGrows
      /\ DOMAIN row' = DOMAIN row
      /\ row' \in [DOMAIN row' -> TaskRecord]
      /\ \A x \in DOMAIN row' : row'[x].state \in Label(row'[x].workflow) /\ row'[x].history # <<>>
      /\ \A x \in DOMAIN row : x # Target(r) => row'[x] = row[x]
      /\ row'[Target(r)] = new
      /\ HistoryFollowsGraph'
  <2>1. /\ \A i \in 1..Last(old) : TransitionFacts(new.history[i]) = TransitionFacts(old.history[i])
        /\ Last(new) >= Last(old)
        /\ (Last(old) + 1)..Last(new) = {}
        /\ new.state \in Label(new.workflow)
    BY <1>4, <1>6, <1>7
  <2> QED
    BY <1>2, <1>4, <1>5, <1>6, <2>1, ReplacedRow
<1>9. request' \in [Req -> RequestRecord] /\ request'[r] = Idle
  BY <1>1, <1>2, IdleRequest DEF TypeOK
<1>10. TypeOK'
  BY <1>1, <1>2, <1>8, <1>9 DEF TypeOK, ReleaseGraphLock
<1>11. Undisturbed(r)
  <2>1. \A x \in DOMAIN row : Len(row'[x].history) = Len(row[x].history)
    BY <1>4, <1>6, <1>8
  <2> QED
    BY <1>1, <1>2, <2>1 DEF Undisturbed, TypeOK, ReleaseGraphLock
<1>12. StepOK(r)' /\ LocksOK(r)' /\ StackOK(r)' /\ CopyOK(r)'
  BY <1>9, IdleRequest
<1> QED
  BY <1>8, <1>10, <1>11, <1>12, Preserved

(* Returning to the cascade that called the handler, or to the client. *)
LEMMA ReturnOK ==
  ASSUME IInv, NEW r \in Req,
         request[r].pc \in {"update", "cascade"},
         ReturnFrom(r),
         DOMAIN row \subseteq DOMAIN row'
  PROVE  /\ request' \in [Req -> RequestRecord]
         /\ taskLock' \in [Task -> Req \cup {Nil}]
         /\ arg' = [q \in Req |-> arg'[q]]
         /\ \A q \in Req \ {r} :
              /\ request'[q] = request[q]
              /\ arg'[q] = arg[q]
              /\ \A id \in Task : taskLock[id] = q => taskLock'[id] = q
         /\ StepOK(r)' /\ LocksOK(r)' /\ StackOK(r)' /\ CopyOK(r)'
<1> DEFINE stack  == request[r].stack
           outer  == SubSeq(stack, 1, Len(stack) - 1)
           caller == [Idle EXCEPT !.pc = "cascade", !.op = "request_transition", !.stack = outer]
           FrameType == [task : Task \cup {Nil}, todo : SUBSET Task]
<1>1. /\ taskLock \in [Task -> Req \cup {Nil}]
      /\ request \in [Req -> RequestRecord]
      /\ arg = [q \in Req |-> arg[q]]
      /\ DOMAIN row \subseteq Task
      /\ StepOK(r) /\ LocksOK(r) /\ StackOK(r)
      /\ Nil \notin Req
  BY ConstantAssumption DEF IInv, TypeOK
<1>2. request[r].op # "create_task"
  BY <1>1 DEF StepOK
<1>3. Target(r) \in Task
  BY <1>2, LoadedRow
<1>4. /\ taskLock' = IF taskLock[Target(r)] = r
                     THEN [taskLock EXCEPT ![Target(r)] = Nil] ELSE taskLock
      /\ request' = [request EXCEPT ![r] = IF outer = <<>> THEN Idle ELSE caller]
      /\ arg' = [arg EXCEPT ![r] = IF outer = <<>> THEN Nil ELSE Dropped]
  BY DEF ReturnFrom
<1>5. /\ stack \in Seq(FrameType)
      /\ stack # <<>>
      /\ Len(stack) \in Nat \ {0}
  <2>1. stack \in Seq(FrameType) /\ stack # <<>>
    BY <1>1 DEF RequestRecord, StackOK
  <2> HIDE DEF stack, FrameType
  <2> QED
    BY <2>1, EmptySeq, LenProperties
<1>6. /\ outer \in Seq(FrameType)
      /\ Len(outer) = Len(stack) - 1
      /\ \A j \in 1..Len(outer) : outer[j] = stack[j]
  <2> HIDE DEF stack, FrameType
  <2> DEFINE n == Len(stack) - 1
  <2>1. n \in Nat /\ 1 \in Int /\ n \in Int /\ \A j \in 1..n : stack[j] \in FrameType
    BY <1>5
  <2> HIDE DEF n
  <2>3. /\ SubSeq(stack, 1, n) \in Seq(FrameType)
        /\ Len(SubSeq(stack, 1, n)) = n
        /\ \A j \in 1..n : SubSeq(stack, 1, n)[j] = stack[j]
    BY <1>5, <2>1, SubSeqProperties
  <2> QED
    BY <2>3 DEF n
<1>7. caller \in RequestRecord
      /\ caller.pc = "cascade" /\ caller.op = "request_transition" /\ caller.stack = outer
      /\ caller.moved = FALSE
  <2> HIDE DEF outer
  <2> QED
    BY <1>6, IdleRequest DEF Idle, RequestRecord, Step, Op, TaskLockedOp, TransitionOp
<1>8. /\ request' \in [Req -> RequestRecord]
      /\ request'[r] = IF outer = <<>> THEN Idle ELSE caller
      /\ \A q \in Req \ {r} : request'[q] = request[q] /\ arg'[q] = arg[q]
      /\ arg' = [q \in Req |-> arg'[q]]
  <2> HIDE DEF outer, caller
  <2> QED
    BY <1>1, <1>4, <1>7, IdleRequest
<1>9. /\ taskLock' \in [Task -> Req \cup {Nil}]
      /\ \A q \in Req \ {r} : \A id \in Task : taskLock[id] = q => taskLock'[id] = q
      /\ \A id \in Task : taskLock[id] = r /\ id # Target(r) => taskLock'[id] = r
  BY <1>1, <1>3, <1>4
<1>10. CASE outer = <<>>
  BY <1>8, <1>9, <1>10, IdleRequest
<1>11. CASE outer # <<>>
  <2> HIDE DEF caller, outer, FrameType
  <2>1. request'[r] = caller
    BY <1>8, <1>11
  <2>2. Len(outer) \in Nat \ {0}
    BY <1>6, <1>11, EmptySeq, LenProperties
  <2>3. StepOK(r)'
    BY <1>7, <2>1 DEF StepOK, ValidArg, Op, TaskLockedOp, TransitionOp, UnlockedOp
  <2>4. \A j \in 1..Len(outer) :
          /\ outer[j].task \in DOMAIN row
          /\ taskLock[outer[j].task] = r
          /\ outer[j].task # Target(r)
          /\ outer[j].todo \subseteq DOMAIN row
    <3> TAKE j \in 1..Len(outer)
    <3>1. j \in 1..(Len(stack) - 1) /\ j \in 1..Len(stack) /\ j < Len(stack)
          /\ Len(stack) \in 1..Len(stack)
      BY <1>5, <1>6
    <3>2. /\ stack[j].task \in DOMAIN row
          /\ taskLock[stack[j].task] = r
          /\ stack[j].todo \subseteq DOMAIN row
          /\ stack[j].task # stack[Len(stack)].task
      BY <1>1, <3>1 DEF StackOK
    <3> QED
      BY <1>6, <3>2 DEF Target
  <2>5. \A i, j \in 1..Len(outer) : i < j => outer[i].task # outer[j].task
    <3> TAKE i, j \in 1..Len(outer)
    <3> HAVE i < j
    <3>1. i \in 1..Len(stack) /\ j \in 1..Len(stack) /\ j < Len(stack)
      BY <1>5, <1>6
    <3>2. stack[i].task # stack[j].task
      BY <1>1, <3>1 DEF StackOK
    <3> QED
      BY <1>6, <3>2
  <2>6. Target(r)' = outer[Len(outer)].task
    BY <1>7, <2>1 DEF Target
  <2>7. LocksOK(r)'
    <3>1. Len(outer) \in 1..Len(outer)
      BY <2>2
    <3>2. taskLock'[outer[Len(outer)].task] = r
      BY <1>1, <1>9, <2>4, <3>1
    <3> QED
      BY <1>7, <2>1, <2>6, <3>2 DEF LocksOK, Inside
  <2>8. StackOK(r)'
    <3>1. Len(outer) \in 1..Len(outer) /\ Len(outer) - 1 \in Int
          /\ \A j \in 1..(Len(outer) - 1) : j \in 1..Len(outer)
      BY <2>2
    <3>2. Target(r)' \in DOMAIN row'
      BY <2>4, <2>6, <3>1
    <3>3. \A j \in 1..(Len(outer) - 1) : outer[j].task \in DOMAIN row' /\ taskLock'[outer[j].task] = r
      BY <1>1, <1>9, <2>4, <3>1
    <3>4. \A j \in 1..Len(outer) : outer[j].todo \subseteq DOMAIN row'
      BY <2>4
    <3> QED
      BY <1>7, <1>11, <2>1, <2>5, <3>2, <3>3, <3>4 DEF StackOK
  <2>9. CopyOK(r)'
    BY <1>7, <2>1 DEF CopyOK, Saving
  <2> QED
    BY <1>8, <1>9, <2>3, <2>7, <2>8, <2>9
<1> QED
  BY <1>10, <1>11
(* What an update leaves in the row it writes. *)
LEMMA UpdateFacts ==
  ASSUME IInv, NEW r \in Req, request[r].pc = "update",
         Writable(Loaded(r), request[r].task, request[r].stored)
  PROVE  LET old  == Loaded(r)
             task == request[r].task
             new  == UpdatedRow(old, task, request[r].stored)
         IN  /\ request[r].op # "create_task"
             /\ Target(r) \in DOMAIN row
             /\ Consistent(task)
             /\ task.history # <<>>
             /\ new \in TaskRecord
             /\ new.workflow = old.workflow
             /\ new.state = task.state
             /\ new.state \in Label(new.workflow)
             /\ Last(old) \in Nat \ {0}
             /\ Last(new) = Last(old) + Appended(r)
             /\ Appended(r) \in {0, 1}
             /\ \A i \in 1..Last(old) :
                  TransitionFacts(new.history[i]) = TransitionFacts(old.history[i])
             /\ request[r].moved =>
                  /\ new.history[Last(new)] = task.history[Last(task)]
                  /\ new.history[Last(new)].trigger # "set-state"
                       => new.history[Last(new)].to
                            \in Transitions(new.workflow, new.history[Last(new)].from)
<1> DEFINE old  == Loaded(r)
           task == request[r].task
           n    == request[r].stored
           new  == UpdatedRow(old, task, n)
<1>1. StepOK(r) /\ CopyOK(r) /\ request[r].op # "create_task"
  BY DEF IInv, StepOK
<1>2. /\ Target(r) \in DOMAIN row
      /\ old \in TaskRecord
      /\ Last(old) \in Nat \ {0}
      /\ Last(old) = Len(old.history)
  BY <1>1, LoadedRow DEF Last
<1>3. /\ task \in TaskRecord
      /\ task.state \in Label(task.workflow)
      /\ task.history # <<>>
      /\ task.workflow = old.workflow
      /\ Consistent(task)
      /\ n \in 1..Last(old)
      /\ Last(task) = n + Appended(r)
      /\ Last(task) = Len(task.history)
      /\ request[r].moved =>
           LET entry == task.history[Last(task)]
           IN  entry.trigger # "set-state" => entry.to \in Transitions(task.workflow, entry.from)
  BY <1>1 DEF CopyOK, Saving, Last
<1>4. Appended(r) \in {0, 1} /\ (request[r].moved => Appended(r) = 1)
  BY DEF Appended
<1>5. Len(task.history) > n => Len(old.history) = n
  BY DEF Writable
<1> HIDE DEF old, task, n
<1>6. n \in 1..Len(old.history) /\ n <= Len(task.history)
  BY <1>2, <1>3, <1>4
<1>7. /\ new \in TaskRecord
      /\ new.workflow = task.workflow
      /\ new.state = task.state
      /\ Len(new.history) = Len(old.history) + (Len(task.history) - n)
      /\ \A i \in 1..Len(old.history) :
           TransitionFacts(new.history[i]) = TransitionFacts(old.history[i])
      /\ \A i \in (n + 1)..Len(task.history) :
           new.history[Len(old.history) + (i - n)] = task.history[i]
  BY <1>2, <1>3, <1>5, <1>6, SavedRow
<1> HIDE DEF new
<1>8. Last(new) = Last(old) + Appended(r)
  BY <1>2, <1>3, <1>4, <1>6, <1>7 DEF Last
<1>9. request[r].moved => new.history[Last(new)] = task.history[Last(task)]
  <2> SUFFICES ASSUME request[r].moved
               PROVE  new.history[Last(new)] = task.history[Last(task)]
    OBVIOUS
  <2>1. Appended(r) = 1 /\ n + 1 \in (n + 1)..Len(task.history) /\ Last(task) = n + 1
    BY <1>3, <1>4, <1>6
  <2>2. new.history[Len(old.history) + ((n + 1) - n)] = task.history[n + 1]
    BY <1>7, <2>1
  <2>3. Len(old.history) + ((n + 1) - n) = Last(new)
    BY <1>2, <1>6, <1>8, <2>1
  <2> QED
    BY <2>1, <2>2, <2>3
<1> QED
  BY <1>1, <1>2, <1>3, <1>4, <1>7, <1>8, <1>9 DEF old, task, n, new, Last

(* The second half of the save, the write, keeps it. *)
LEMMA UpdateKeeps ==
  ASSUME IInv, NEW r \in Req, Update(r)
  PROVE  IInv'
<1> DEFINE task == request[r].task
           new  == UpdatedRow(Loaded(r), task, request[r].stored)
<1>1. CASE Fail(r)
  BY <1>1, FailKeeps
<1>2. CASE ~Fail(r)
  <2>1. /\ request[r].pc = "update"
        /\ Writable(Loaded(r), task, request[r].stored)
        /\ row' = [row EXCEPT ![Target(r)] = new]
        /\ ReleaseGraphLock(r)
        /\ UNCHANGED calls
        /\ \/ /\ request[r].moved
              /\ request' = [request EXCEPT ![r].pc = "list", ![r].task = Nil]
              /\ UNCHANGED <<arg, taskLock>>
           \/ ReturnFrom(r)
    BY <1>2 DEF Update, Loaded
  <2>2. TypeOK /\ HistoryFollowsGraph /\ StepOK(r) /\ LocksOK(r) /\ StackOK(r)
    BY DEF IInv
  <2>3. /\ request[r].op # "create_task"
        /\ Target(r) \in DOMAIN row
        /\ new \in TaskRecord
        /\ new.workflow = row[Target(r)].workflow
        /\ new.state \in Label(new.workflow)
        /\ Last(row[Target(r)]) \in Nat \ {0}
        /\ Last(new) = Last(row[Target(r)]) + Appended(r)
        /\ Appended(r) \in {0, 1}
        /\ \A i \in 1..Last(row[Target(r)]) :
             TransitionFacts(new.history[i]) = TransitionFacts(row[Target(r)].history[i])
        /\ request[r].moved =>
             (new.history[Last(new)].trigger # "set-state"
                => new.history[Last(new)].to
                     \in Transitions(new.workflow, new.history[Last(new)].from))
    BY <2>1, UpdateFacts DEF Loaded
  <2> HIDE DEF new
  <2>4. \A i \in (Last(row[Target(r)]) + 1)..Last(new) :
          new.history[i].trigger # "set-state"
            => new.history[i].to \in Transitions(new.workflow, new.history[i].from)
    <3> TAKE i \in (Last(row[Target(r)]) + 1)..Last(new)
    <3>1. Appended(r) = 1 /\ i = Last(new)
      BY <2>3
    <3>2. request[r].moved
      BY <3>1 DEF Appended
    <3> QED
      BY <2>3, <3>1, <3>2
  <2>5. Last(new) >= Last(row[Target(r)])
    BY <2>3
  <2>6. /\ RowGrows
        /\ DOMAIN row' = DOMAIN row
        /\ row' \in [DOMAIN row' -> TaskRecord]
        /\ \A x \in DOMAIN row' : row'[x].state \in Label(row'[x].workflow) /\ row'[x].history # <<>>
        /\ \A x \in DOMAIN row : x # Target(r) => row'[x] = row[x]
        /\ row'[Target(r)] = new
        /\ HistoryFollowsGraph'
    BY <2>1, <2>2, <2>3, <2>4, <2>5, ReplacedRow
  <2>7. \A x \in DOMAIN row :
          Len(row'[x].history) # Len(row[x].history) => taskLock[x] = r /\ graphLock = r
    <3> SUFFICES ASSUME NEW x \in DOMAIN row, Len(row'[x].history) # Len(row[x].history)
                 PROVE  taskLock[x] = r /\ graphLock = r
      OBVIOUS
    <3>1. x = Target(r) /\ Appended(r) = 1
      BY <2>3, <2>6 DEF Last
    <3>2. request[r].moved
      BY <3>1 DEF Appended
    <3>3. request[r].op \in TransitionOp
      BY <2>2, <3>2 DEF StepOK
    <3> QED
      BY <2>1, <2>2, <3>1, <3>3 DEF LocksOK, Holding, Inside, Step, TaskLockedOp, GraphLockedOp
  <2>8. graphLock' \in Req \cup {Nil} /\ \A q \in Req \ {r} : graphLock = q => graphLock' = q
    BY <2>1, <2>2 DEF ReleaseGraphLock, TypeOK
  <2>9. CASE ReturnFrom(r)
    <3>1. /\ request' \in [Req -> RequestRecord]
          /\ taskLock' \in [Task -> Req \cup {Nil}]
          /\ arg' = [q \in Req |-> arg'[q]]
          /\ \A q \in Req \ {r} :
               /\ request'[q] = request[q]
               /\ arg'[q] = arg[q]
               /\ \A id \in Task : taskLock[id] = q => taskLock'[id] = q
          /\ StepOK(r)' /\ LocksOK(r)' /\ StackOK(r)' /\ CopyOK(r)'
      BY <2>1, <2>6, <2>9, ReturnOK
    <3>2. TypeOK'
      BY <2>1, <2>2, <2>6, <2>8, <3>1 DEF TypeOK
    <3>3. Undisturbed(r)
      BY <2>7, <2>8, <3>1 DEF Undisturbed
    <3> QED
      BY <2>6, <3>1, <3>2, <3>3, Preserved
  <2>10. CASE ~ReturnFrom(r)
    <3> DEFINE now == [request[r] EXCEPT !.pc = "list", !.task = Nil]
    <3>1. /\ request[r].moved
          /\ request' = [request EXCEPT ![r].pc = "list", ![r].task = Nil]
          /\ UNCHANGED <<arg, taskLock>>
      BY <2>1, <2>10
    <3>2. request \in [Req -> RequestRecord]
      BY <2>2 DEF TypeOK
    <3>3. /\ now \in RequestRecord
          /\ now.pc = "list"
          /\ now.op = request[r].op
          /\ now.stack = request[r].stack
          /\ now.moved = request[r].moved
      BY <3>2 DEF RequestRecord, Step
    <3>4. request' = [request EXCEPT ![r] = now]
      BY <3>1, <3>2
    <3> HIDE DEF now
    <3>5. request' \in [Req -> RequestRecord] /\ request'[r] = now
          /\ \A q \in Req \ {r} : request'[q] = request[q]
      BY <3>2, <3>3, <3>4
    <3>6. StepOK(r)'
      BY <2>1, <2>2, <3>1, <3>3, <3>5 DEF StepOK
    <3>7. Target(r)' = Target(r)
      BY <3>3, <3>5 DEF Target
    <3>8. LocksOK(r)'
      BY <2>1, <2>2, <3>1, <3>3, <3>5, <3>7 DEF LocksOK, Holding, Inside, Step
    <3>9. StackOK(r)'
      BY <2>1, <2>2, <2>6, <3>1, <3>3, <3>5, <3>7 DEF StackOK
    <3>10. CopyOK(r)'
      BY <3>3, <3>5 DEF CopyOK, Saving
    <3>11. TypeOK'
      BY <2>1, <2>2, <2>6, <2>8, <3>1, <3>5 DEF TypeOK
    <3>12. Undisturbed(r)
      BY <2>7, <2>8, <3>1, <3>5 DEF Undisturbed
    <3> QED
      BY <2>6, <3>6, <3>8, <3>9, <3>10, <3>11, <3>12, Preserved
  <2> QED
    BY <2>9, <2>10
<1> QED
  BY <1>1, <1>2
-----------------------------------------------------------------------------
(* The cascade, the locks, the arrival of a call, and a crash *)

(* Listing the governed tasks of a dropped task keeps it. *)
LEMMA ListGovernedKeeps ==
  ASSUME IInv, NEW r \in Req, ListGoverned(r)
  PROVE  IInv'
<1> DEFINE stack == request[r].stack
           depth == Len(stack)
           FrameType == [task : Task \cup {Nil}, todo : SUBSET Task]
<1>1. TypeOK /\ request \in [Req -> RequestRecord] /\ StepOK(r) /\ LocksOK(r) /\ StackOK(r)
      /\ DOMAIN row \subseteq Task
  BY DEF IInv, TypeOK
<1>2. PICK governed \in SUBSET DOMAIN row :
        /\ request[r].pc = "list"
        /\ request' = [request EXCEPT ![r].pc = "cascade", ![r].stack[depth].todo = governed]
        /\ UNCHANGED <<row, arg, taskLock, graphLock, calls>>
  <2> DEFINE governed == {id \in DOMAIN row : row[id].governor = Target(r) /\ ~Terminal(row[id])}
  <2>1. governed \in SUBSET DOMAIN row
    OBVIOUS
  <2>2. /\ request[r].pc = "list"
        /\ request' = [request EXCEPT ![r].pc = "cascade", ![r].stack[depth].todo = governed]
        /\ UNCHANGED <<row, arg, taskLock, graphLock, calls>>
    BY DEF ListGoverned
  <2> HIDE DEF governed
  <2> QED
    BY <2>1, <2>2
<1>3. stack \in Seq(FrameType) /\ depth \in 1..Len(stack) /\ depth \in Nat
  <2>1. stack \in Seq(FrameType) /\ stack # <<>>
    BY <1>1, <1>2 DEF RequestRecord, StackOK
  <2> HIDE DEF stack, FrameType
  <2>2. Len(stack) \in Nat \ {0}
    BY <2>1, EmptySeq, LenProperties
  <2> QED
    BY <2>1, <2>2 DEF depth
<1> DEFINE frame == [stack[depth] EXCEPT !.todo = governed]
           next  == [stack EXCEPT ![depth] = frame]
           new   == [request[r] EXCEPT !.pc = "cascade", !.stack = next]
<1>4. frame \in FrameType /\ frame.task = stack[depth].task /\ frame.todo = governed
  <2>1. stack[depth] \in FrameType
    <3> HIDE DEF stack, depth, FrameType
    <3> QED
      BY <1>3
  <2> QED
    BY <1>1, <2>1
<1>5. /\ next \in Seq(FrameType)
      /\ Len(next) = depth
      /\ \A j \in 1..depth : next[j] = IF j = depth THEN frame ELSE stack[j]
  <2> HIDE DEF stack, FrameType, frame
  <2>1. stack \in Seq(FrameType) /\ depth \in 1..Len(stack) /\ frame \in FrameType
    BY <1>3, <1>4
  <2> QED
    BY <2>1, ExceptSeq DEF depth
<1>6. \A j \in 1..depth : /\ next[j].task = stack[j].task
                         /\ next[j].todo \subseteq DOMAIN row
  BY <1>1, <1>2, <1>4, <1>5 DEF StackOK
<1>7. request' = [request EXCEPT ![r] = new]
  BY <1>1, <1>2, <1>3 DEF RequestRecord
<1> HIDE DEF next, frame
<1>8. /\ new \in RequestRecord
      /\ new.pc = "cascade"
      /\ new.op = request[r].op
      /\ new.stack = next
      /\ new.moved = request[r].moved
  BY <1>1, <1>5 DEF RequestRecord, Step
<1> HIDE DEF new
<1>9. request' \in [Req -> RequestRecord] /\ request'[r] = new
      /\ \A q \in Req \ {r} : request'[q] = request[q]
  BY <1>1, <1>7, <1>8
<1>10. Target(r)' = Target(r) /\ next # <<>>
  BY <1>3, <1>5, <1>6, <1>8, <1>9, EmptySeq DEF Target
<1>11. StepOK(r)'
  BY <1>1, <1>2, <1>8, <1>9 DEF StepOK
<1>12. LocksOK(r)'
  BY <1>1, <1>2, <1>8, <1>9, <1>10 DEF LocksOK, Holding, Inside, Step
<1>13. StackOK(r)'
  BY <1>1, <1>2, <1>3, <1>5, <1>6, <1>8, <1>9, <1>10 DEF StackOK
<1>14. CopyOK(r)'
  BY <1>8, <1>9 DEF CopyOK, Saving
<1> QED
  BY <1>1, <1>2, <1>9, <1>11, <1>12, <1>13, <1>14, SameRow DEF TypeOK

(* Starting a governed task's drop keeps it. *)
LEMMA DropGovernedKeeps ==
  ASSUME IInv, NEW r \in Req, DropGoverned(r)
  PROVE  IInv'
<1> DEFINE stack == request[r].stack
           depth == Len(stack)
           FrameType == [task : Task \cup {Nil}, todo : SUBSET Task]
<1>1. TypeOK /\ request \in [Req -> RequestRecord] /\ StepOK(r) /\ LocksOK(r) /\ StackOK(r)
      /\ DOMAIN row \subseteq Task /\ arg = [q \in Req |-> arg[q]]
  BY DEF IInv, TypeOK
<1>2. PICK id \in stack[depth].todo :
        /\ request[r].pc = "cascade"
        /\ request' = [request EXCEPT ![r] =
             [Idle EXCEPT !.pc = "waitTask", !.op = "request_transition",
                !.stack = Append([stack EXCEPT ![depth].todo = @ \ {id}], Frame(id))]]
        /\ arg' = [arg EXCEPT ![r] = Dropped]
        /\ UNCHANGED <<row, taskLock, graphLock, calls>>
  BY DEF DropGoverned
<1>3. stack \in Seq(FrameType) /\ depth \in 1..Len(stack) /\ depth \in Nat
  <2>1. stack \in Seq(FrameType) /\ stack # <<>>
    BY <1>1, <1>2 DEF RequestRecord, StackOK
  <2> HIDE DEF stack, FrameType
  <2>2. Len(stack) \in Nat \ {0}
    BY <2>1, EmptySeq, LenProperties
  <2> QED
    BY <2>1, <2>2 DEF depth
<1>4. \A j \in 1..depth : stack[j].todo \subseteq DOMAIN row
  BY <1>1, <1>2 DEF StackOK
<1>5. id \in DOMAIN row /\ id \in Task
  BY <1>1, <1>2, <1>3, <1>4
<1> DEFINE frame == [stack[depth] EXCEPT !.todo = @ \ {id}]
           outer == [stack EXCEPT ![depth] = frame]
           next  == Append(outer, Frame(id))
           new   == [Idle EXCEPT !.pc = "waitTask", !.op = "request_transition", !.stack = next]
<1>6. /\ frame \in FrameType
      /\ frame.task = stack[depth].task
      /\ frame.todo \subseteq stack[depth].todo
  <2>1. stack[depth] \in FrameType
    <3> HIDE DEF stack, depth, FrameType
    <3> QED
      BY <1>3
  <2> QED
    BY <2>1
<1>7. /\ outer \in Seq(FrameType)
      /\ Len(outer) = depth
      /\ \A j \in 1..depth : outer[j] = IF j = depth THEN frame ELSE stack[j]
  <2> HIDE DEF stack, FrameType, frame
  <2>1. stack \in Seq(FrameType) /\ depth \in 1..Len(stack) /\ frame \in FrameType
    BY <1>3, <1>6
  <2> QED
    BY <2>1, ExceptSeq DEF depth
<1>8. Frame(id) \in FrameType /\ Frame(id).task = id /\ Frame(id).todo = {}
  BY <1>5 DEF Frame
<1>9. /\ next \in Seq(FrameType)
      /\ next # <<>>
      /\ Len(next) = depth + 1
      /\ next[depth + 1] = Frame(id)
      /\ \A j \in 1..depth : next[j] = outer[j]
  <2> HIDE DEF FrameType, outer, stack
  <2>1. outer \in Seq(FrameType) /\ Frame(id) \in FrameType /\ depth \in Nat
    BY <1>3, <1>7, <1>8
  <2>2. /\ next \in Seq(FrameType)
        /\ next # <<>>
        /\ Len(next) = Len(outer) + 1
        /\ next[Len(outer) + 1] = Frame(id)
        /\ \A j \in 1..Len(outer) : next[j] = outer[j]
    BY <2>1, AppendProperties
  <2> QED
    BY <1>7, <2>2
<1>10. \A j \in 1..depth : /\ next[j].task = stack[j].task
                          /\ next[j].todo \subseteq DOMAIN row
  <2> HIDE DEF next, outer, stack, frame, FrameType
  <2>1. depth \in 1..Len(stack)
    BY <1>3, <1>6
  <2> SUFFICES ASSUME NEW j \in 1..depth
               PROVE  next[j].task = stack[j].task /\ next[j].todo \subseteq DOMAIN row
    OBVIOUS
  <2>2. next[j] = IF j = depth THEN frame ELSE stack[j]
    BY <1>7, <1>9
  <2> QED
    BY <1>4, <1>6, <2>1, <2>2
<1>11. request' = [request EXCEPT ![r] = new]
  BY <1>2, <1>3
<1> HIDE DEF next, outer, frame
<1>12. /\ new \in RequestRecord
       /\ new.pc = "waitTask"
       /\ new.op = "request_transition"
       /\ new.stack = next
       /\ new.moved = FALSE
  BY <1>9 DEF RequestRecord, Step, Idle, Op, TaskLockedOp, TransitionOp
<1> HIDE DEF new
<1>13. /\ request' \in [Req -> RequestRecord] /\ request'[r] = new
       /\ \A q \in Req \ {r} : request'[q] = request[q] /\ arg'[q] = arg[q]
       /\ arg' = [q \in Req |-> arg'[q]]
  BY <1>1, <1>2, <1>11, <1>12
<1>14. Target(r)' = id
  BY <1>8, <1>9, <1>12, <1>13 DEF Target
<1>15. StepOK(r)'
  BY <1>12, <1>13 DEF StepOK, ValidArg, Op, TaskLockedOp, TransitionOp, UnlockedOp
<1>16. LocksOK(r)'
  BY <1>12, <1>13 DEF LocksOK, Holding, Inside
<1>17. StackOK(r)'
  <2>1. \A j \in 1..depth : stack[j].task \in DOMAIN row /\ taskLock[stack[j].task] = r
    <3> TAKE j \in 1..depth
    <3>1. CASE j < depth
      <4>1. j \in 1..(Len(stack) - 1)
        BY <1>3, <3>1
      <4> QED
        BY <1>1, <1>2, <4>1 DEF StackOK
    <3>2. CASE j = depth
      <4>1. request[r].op \in TransitionOp
        BY <1>1, <1>2 DEF StepOK
      <4>2. request[r].op \in TaskLockedOp /\ request[r].op # "create_task"
        BY <4>1 DEF TaskLockedOp, TransitionOp
      <4>3. request[r].pc \in Holding
        BY <1>2 DEF Holding, Step
      <4> QED
        BY <1>1, <1>2, <3>2, <4>2, <4>3 DEF LocksOK, StackOK, Target
    <3> QED
      BY <1>3, <3>1, <3>2
  <2>2. \A i, j \in 1..depth : i < j => stack[i].task # stack[j].task
    BY <1>1, <1>2 DEF StackOK
  <2>3. \A j \in 1..(depth + 1) : next[j].todo \subseteq DOMAIN row
    <3> TAKE j \in 1..(depth + 1)
    <3>1. j \in 1..depth \/ j = depth + 1
      BY <1>3
    <3> QED
      BY <1>8, <1>9, <1>10, <3>1
  <2>4. \A j \in 1..((depth + 1) - 1) : next[j].task \in DOMAIN row /\ taskLock[next[j].task] = r
    BY <1>3, <1>10, <2>1
  <2>5. \A i, j \in 1..(depth + 1) : (i < j /\ j < depth + 1) => next[i].task # next[j].task
    <3> TAKE i, j \in 1..(depth + 1)
    <3> HAVE i < j /\ j < depth + 1
    <3>1. i \in 1..depth /\ j \in 1..depth
      BY <1>3
    <3> QED
      BY <1>10, <2>2, <3>1
  <2>6. request'[r].pc = "waitTask" /\ request'[r].stack = next /\ Len(next) = depth + 1
        /\ request'[r].op = "request_transition" /\ row' = row /\ taskLock' = taskLock
    BY <1>2, <1>9, <1>12, <1>13
  <2> HIDE DEF stack, depth
  <2> QED
    BY <1>5, <1>9, <1>14, <2>3, <2>4, <2>5, <2>6 DEF StackOK
<1>18. CopyOK(r)'
  BY <1>12, <1>13 DEF CopyOK, Saving
<1> QED
  BY <1>1, <1>2, <1>13, <1>15, <1>16, <1>17, <1>18, SameRow DEF TypeOK

(* The end of a cascade keeps it. *)
LEMMA FinishCascadeKeeps ==
  ASSUME IInv, NEW r \in Req, FinishCascade(r)
  PROVE  IInv'
<1>1. /\ request[r].pc = "cascade" /\ ReturnFrom(r)
      /\ row' = row /\ graphLock' = graphLock /\ calls' = calls
  BY DEF FinishCascade
<1>2. /\ request' \in [Req -> RequestRecord]
      /\ taskLock' \in [Task -> Req \cup {Nil}]
      /\ arg' = [q \in Req |-> arg'[q]]
      /\ \A q \in Req \ {r} :
           /\ request'[q] = request[q]
           /\ arg'[q] = arg[q]
           /\ \A id \in Task : taskLock[id] = q => taskLock'[id] = q
      /\ StepOK(r)' /\ LocksOK(r)' /\ StackOK(r)' /\ CopyOK(r)'
  BY <1>1, ReturnOK
<1>3. graphLock \in Req \cup {Nil}
  BY DEF IInv, TypeOK
<1> QED
  BY <1>1, <1>2, <1>3, SameRow

(* The start of a handler keeps it. *)
LEMMA BeginKeeps ==
  ASSUME IInv, NEW r \in Req, Begin(r)
  PROVE  IInv'
<1>1. PICK c \in Call :
        /\ c.op # "create_task" => c.task \in DOMAIN row
        /\ request' = [request EXCEPT ![r] =
             [Idle EXCEPT !.pc = FirstStep(c.op), !.op = c.op, !.stack = <<Frame(c.task)>>]]
        /\ arg' = [arg EXCEPT ![r] = c.arg]
        /\ calls < MaxCalls
        /\ calls' = calls + 1
        /\ UNCHANGED <<row, taskLock, graphLock>>
  BY DEF Begin
<1>2. c.op \in Op /\ ValidArg(c.op, c.arg) /\ c.task \in Task \cup {Nil}
  BY CallAssumption
<1>3. TypeOK /\ HistoryFollowsGraph
  BY DEF IInv
<1> DEFINE stack == <<Frame(c.task)>>
           new   == [Idle EXCEPT !.pc = FirstStep(c.op), !.op = c.op, !.stack = stack]
<1>4. /\ FirstStep(c.op) \in {"waitTask", "waitGraph", "load"}
      /\ FirstStep(c.op) = "waitTask" <=> c.op \in TaskLockedOp
      /\ FirstStep(c.op) = "waitGraph" <=> c.op \in GraphLockedOp \ TaskLockedOp
  BY DEF FirstStep
<1>5. /\ stack \in Seq([task : Task \cup {Nil}, todo : SUBSET Task])
      /\ Len(stack) = 1 /\ stack[1].task = c.task /\ stack[1].todo = {} /\ stack # <<>>
  BY <1>2 DEF Frame
<1> HIDE DEF stack
<1>6. /\ new \in RequestRecord
      /\ new.pc = FirstStep(c.op)
      /\ new.op = c.op
      /\ new.stack = stack
      /\ new.moved = FALSE
  BY <1>2, <1>4, <1>5 DEF RequestRecord, Idle, Step
<1>7. request' = [request EXCEPT ![r] = new]
  BY <1>1 DEF stack
<1> HIDE DEF new
<1>8. /\ request' \in [Req -> RequestRecord]
      /\ request'[r] = new
      /\ arg'[r] = c.arg
      /\ arg' = [q \in Req |-> arg'[q]]
      /\ \A q \in Req \ {r} : request'[q] = request[q] /\ arg'[q] = arg[q]
  BY <1>1, <1>3, <1>6, <1>7 DEF TypeOK
<1>9. StepOK(r)'
  <2>1. c.op = "create_task" => FirstStep(c.op) = "waitGraph"
    BY <1>4 DEF GraphLockedOp, TaskLockedOp, TransitionOp
  <2> QED
    BY <1>2, <1>4, <1>6, <1>8, <2>1 DEF StepOK
<1>10. LocksOK(r)'
  BY <1>4, <1>6, <1>8 DEF LocksOK, Holding, Inside
<1>11. StackOK(r)'
  <2>1. Target(r)' = c.task
    BY <1>5, <1>6, <1>8 DEF Target
  <2>2. /\ request'[r].stack = stack
        /\ request'[r].op = c.op
        /\ c.op # "create_task" => c.task \in DOMAIN row
        /\ row' = row
    BY <1>1, <1>6, <1>8
  <2>3. \A j \in 1..Len(stack) : stack[j].todo \subseteq DOMAIN row
    BY <1>5
  <2>4. 1..(Len(stack) - 1) = {} /\ \A i, j \in 1..Len(stack) : ~(i < j)
    BY <1>5
  <2>5. ~(Len(stack) > 1)
    BY <1>5
  <2> QED
    BY <1>5, <2>1, <2>2, <2>3, <2>4, <2>5 DEF StackOK
<1>12. CopyOK(r)'
  BY <1>4, <1>6, <1>8 DEF CopyOK, Saving
<1>13. TypeOK'
  <2>1. calls' \in 0..MaxCalls
    BY <1>1, <1>3, ConstantAssumption DEF TypeOK
  <2> QED
    BY <1>1, <1>3, <1>8, <2>1 DEF TypeOK
<1>14. RowGrows
  <2>1. \A id \in DOMAIN row : Last(row[id]) \in Nat
    BY <1>3, RowFacts
  <2> QED
    BY <1>1, <2>1 DEF RowGrows, Last
<1>15. HistoryFollowsGraph' /\ Undisturbed(r)
  BY <1>1, <1>3, <1>8 DEF HistoryFollowsGraph, Undisturbed, Last
<1> QED
  BY <1>9, <1>10, <1>11, <1>12, <1>13, <1>14, <1>15, Preserved

(* Entering a task's section keeps it. *)
LEMMA AcquireTaskLockKeeps ==
  ASSUME IInv, NEW r \in Req, AcquireTaskLock(r)
  PROVE  IInv'
<1> DEFINE pc  == IF request[r].op \in GraphLockedOp THEN "waitGraph" ELSE "load"
           new == [request[r] EXCEPT !.pc = pc]
<1>1. /\ request[r].pc = "waitTask"
      /\ taskLock[Target(r)] = Nil
      /\ taskLock' = [taskLock EXCEPT ![Target(r)] = r]
      /\ request' = [request EXCEPT ![r].pc = pc]
      /\ UNCHANGED <<row, arg, graphLock, calls>>
  BY DEF AcquireTaskLock
<1>2. TypeOK /\ request \in [Req -> RequestRecord] /\ StepOK(r) /\ StackOK(r) /\ Nil \notin Req
      /\ taskLock \in [Task -> Req \cup {Nil}]
  BY ConstantAssumption DEF IInv, TypeOK
<1>3. request[r].op \in TaskLockedOp /\ request[r].op # "create_task" /\ ~request[r].moved
  BY <1>1, <1>2 DEF StepOK
<1>4. pc \in {"waitGraph", "load"}
      /\ (pc = "waitGraph" <=> request[r].op \in GraphLockedOp)
  OBVIOUS
<1>5. request' = [request EXCEPT ![r] = new]
  BY <1>1, <1>2
<1> HIDE DEF pc
<1>6. /\ new \in RequestRecord
      /\ new.pc = pc
      /\ new.op = request[r].op
      /\ new.stack = request[r].stack
      /\ new.moved = request[r].moved
  BY <1>2, <1>4 DEF RequestRecord, Step
<1> HIDE DEF new
<1>7. /\ request' \in [Req -> RequestRecord] /\ request'[r] = new
      /\ \A q \in Req \ {r} : request'[q] = request[q]
  BY <1>2, <1>5, <1>6
<1>8. Target(r)' = Target(r) /\ Target(r) \in Task /\ Target(r) \in DOMAIN row
  <2>1. Target(r) \in Task /\ Target(r) \in DOMAIN row
    BY <1>1, <1>3, LoadedRow
  <2> QED
    BY <1>6, <1>7, <2>1 DEF Target
<1>9. /\ taskLock' \in [Task -> Req \cup {Nil}]
      /\ taskLock'[Target(r)] = r
      /\ \A q \in Req : \A id \in Task : taskLock[id] = q => taskLock'[id] = q
  BY <1>1, <1>2, <1>8
<1>10. StepOK(r)'
  BY <1>1, <1>2, <1>3, <1>4, <1>6, <1>7 DEF StepOK
<1>11. LocksOK(r)'
  BY <1>1, <1>4, <1>6, <1>7, <1>8, <1>9 DEF LocksOK, Inside, Holding
<1>12. StackOK(r)'
  <2> DEFINE stack == request[r].stack
  <2>1. /\ stack # <<>>
        /\ Len(stack) > 1 => request[r].op = "request_transition"
        /\ \A j \in 1..Len(stack) : stack[j].todo \subseteq DOMAIN row
        /\ \A j \in 1..(Len(stack) - 1) : stack[j].task \in DOMAIN row /\ taskLock[stack[j].task] = r
        /\ \A i, j \in 1..Len(stack) : i < j /\ j < Len(stack) => stack[i].task # stack[j].task
    BY <1>1, <1>2 DEF StackOK
  <2>2. Len(stack) \in Nat
    BY <1>2 DEF RequestRecord
  <2>3. \A j \in 1..(Len(stack) - 1) : /\ taskLock'[stack[j].task] = r
                                      /\ stack[j].task # stack[Len(stack)].task
    <3> TAKE j \in 1..(Len(stack) - 1)
    <3>1. stack[j].task \in Task /\ taskLock[stack[j].task] = r /\ stack[Len(stack)].task = Target(r)
      BY <1>2, <2>1 DEF Target, TypeOK
    <3> QED
      BY <1>1, <1>2, <1>9, <3>1
  <2>4. \A i, j \in 1..Len(stack) : i < j => stack[i].task # stack[j].task
    <3> TAKE i, j \in 1..Len(stack)
    <3> HAVE i < j
    <3>1. CASE j < Len(stack)
      BY <2>1, <3>1
    <3>2. CASE j = Len(stack)
      <4>1. i \in 1..(Len(stack) - 1)
        BY <2>2, <3>2
      <4> QED
        BY <2>3, <3>2, <4>1
    <3> QED
      BY <2>2, <3>1, <3>2
  <2>5. request'[r].stack = stack /\ request'[r].op = request[r].op /\ row' = row
    BY <1>1, <1>6, <1>7
  <2> HIDE DEF stack
  <2> QED
    BY <1>8, <2>1, <2>3, <2>4, <2>5 DEF StackOK
<1>13. CopyOK(r)'
  BY <1>4, <1>6, <1>7 DEF CopyOK, Saving
<1> QED
  BY <1>1, <1>2, <1>7, <1>9, <1>10, <1>11, <1>12, <1>13, SameRow DEF TypeOK

(* Entering the dependency section keeps it. *)
LEMMA AcquireGraphLockKeeps ==
  ASSUME IInv, NEW r \in Req, AcquireGraphLock(r)
  PROVE  IInv'
<1> DEFINE new == [request[r] EXCEPT !.pc = "load"]
<1>1. /\ request[r].pc = "waitGraph"
      /\ graphLock = Nil
      /\ graphLock' = r
      /\ request' = [request EXCEPT ![r].pc = "load"]
      /\ UNCHANGED <<row, arg, taskLock, calls>>
  BY DEF AcquireGraphLock
<1>2. TypeOK /\ request \in [Req -> RequestRecord] /\ StepOK(r) /\ StackOK(r) /\ LocksOK(r)
      /\ Nil \notin Req
  BY ConstantAssumption DEF IInv, TypeOK
<1>3. request' = [request EXCEPT ![r] = new]
  BY <1>1, <1>2
<1>4. /\ new \in RequestRecord
      /\ new.pc = "load"
      /\ new.op = request[r].op
      /\ new.stack = request[r].stack
      /\ new.moved = request[r].moved
  BY <1>2 DEF RequestRecord, Step
<1> HIDE DEF new
<1>5. /\ request' \in [Req -> RequestRecord] /\ request'[r] = new
      /\ \A q \in Req \ {r} : request'[q] = request[q]
  BY <1>2, <1>3, <1>4
<1>6. Target(r)' = Target(r)
  BY <1>4, <1>5 DEF Target
<1>7. StepOK(r)'
  BY <1>1, <1>2, <1>4, <1>5 DEF StepOK
<1>8. LocksOK(r)'
  BY <1>1, <1>2, <1>4, <1>5, <1>6 DEF LocksOK, Holding, Step
<1>9. StackOK(r)'
  BY <1>1, <1>2, <1>4, <1>5, <1>6 DEF StackOK
<1>10. CopyOK(r)'
  BY <1>4, <1>5 DEF CopyOK, Saving
<1> QED
  BY <1>1, <1>2, <1>5, <1>7, <1>8, <1>9, <1>10, SameRow DEF TypeOK

(* A crash of the service keeps it. *)
LEMMA CrashKeeps ==
  ASSUME IInv, Crash
  PROVE  IInv'
<1>1. /\ request' = [r \in Req |-> Idle]
      /\ arg' = [r \in Req |-> Nil]
      /\ taskLock' = [id \in Task |-> Nil]
      /\ graphLock' = Nil
      /\ row' = row /\ calls' = calls
  BY DEF Crash
<1>2. TypeOK'
  <2>1. TypeOK
    BY DEF IInv
  <2> QED
    BY <1>1, <2>1, IdleRequest DEF TypeOK
<1>3. \A r \in Req : StepOK(r)' /\ LocksOK(r)' /\ StackOK(r)' /\ CopyOK(r)'
  BY <1>1, IdleRequest
<1>4. HistoryFollowsGraph'
  BY <1>1 DEF IInv, HistoryFollowsGraph
<1> QED
  BY <1>2, <1>3, <1>4 DEF IInv

-----------------------------------------------------------------------------
(* The invariant *)

(* It holds of the service as it starts. *)
LEMMA InitEstablishes == Init => IInv /\ NoUnlockedRequest /\ StateMatchesTail
<1> SUFFICES ASSUME Init
             PROVE  IInv /\ NoUnlockedRequest /\ StateMatchesTail
  OBVIOUS
<1>1. /\ request = [r \in Req |-> Idle]
      /\ arg = [r \in Req |-> Nil]
      /\ taskLock = [id \in Task |-> Nil]
      /\ graphLock = Nil
      /\ calls = 0
      /\ row = [id \in DOMAIN Born |-> NewTask(Born[id].workflow, Born[id].governor)]
  BY DEF Init
<1>2. \A r \in Req : request[r] = Idle
  BY <1>1
<1>3. ASSUME NEW id \in DOMAIN row
      PROVE  /\ id \in Task
             /\ row[id] \in TaskRecord
             /\ row[id].state \in Label(row[id].workflow)
             /\ Len(row[id].history) = 1
             /\ row[id].history # <<>>
             /\ row[id].history[1].to = row[id].state
  <2>1. id \in Task /\ Born[id].workflow \in WorkflowName /\ Born[id].governor \in Task \cup {Nil}
    BY <1>1, BornAssumption
  <2>2. row[id] = NewTask(Born[id].workflow, Born[id].governor)
    BY <1>1
  <2> QED
    BY <2>1, <2>2, NewTaskType
<1>4. TypeOK
  <2>1. Idle \in RequestRecord
    BY IdleRequest
  <2>2. row \in [DOMAIN row -> TaskRecord] /\ DOMAIN row \subseteq Task
    BY <1>1, <1>3
  <2>3. request \in [Req -> RequestRecord]
    BY <1>1, <2>1
  <2> QED
    BY <1>1, <1>3, <2>2, <2>3, ConstantAssumption DEF TypeOK
<1>5. ASSUME NEW r \in Req
      PROVE  StepOK(r) /\ LocksOK(r) /\ StackOK(r) /\ CopyOK(r)
  BY <1>2 DEF Idle, StepOK, LocksOK, StackOK, CopyOK, Holding, Inside, Saving, Step
<1>6. HistoryFollowsGraph
  BY <1>3 DEF HistoryFollowsGraph, Last
<1>7. NoUnlockedRequest
  BY <1>2 DEF NoUnlockedRequest, Idle
<1>8. StateMatchesTail
  BY <1>3 DEF StateMatchesTail, Consistent, CurrentEntry
<1> QED
  BY <1>4, <1>5, <1>6, <1>7, <1>8 DEF IInv

(* Every step keeps it. *)
LEMMA StepKeeps == IInv /\ [Next]_vars => IInv'
<1> SUFFICES ASSUME IInv, [Next]_vars
             PROVE  IInv'
  OBVIOUS
<1>1. ASSUME UNCHANGED vars
      PROVE  IInv'
  <2>1. TypeOK' /\ HistoryFollowsGraph'
    BY <1>1 DEF vars, IInv, TypeOK, HistoryFollowsGraph
  <2>2. ASSUME NEW r \in Req
        PROVE  /\ Target(r)' = Target(r) /\ Loaded(r)' = Loaded(r)
               /\ Appended(r)' = Appended(r) /\ row' = row /\ request' = request
    BY <1>1 DEF vars, Target, Loaded, Appended
  <2>3. ASSUME NEW r \in Req
        PROVE  StepOK(r)' /\ LocksOK(r)' /\ StackOK(r)'
    <3>1. StepOK(r)'
      BY <1>1, <2>2 DEF vars, IInv, StepOK
    <3>2. LocksOK(r)'
      BY <1>1, <2>2 DEF vars, IInv, LocksOK
    <3>3. StackOK(r)'
      BY <1>1, <2>2 DEF vars, IInv, StackOK
    <3> QED
      BY <3>1, <3>2, <3>3
  <2>4. ASSUME NEW r \in Req
        PROVE  CopyOK(r)'
    BY <2>2 DEF IInv, CopyOK
  <2> QED
    BY <2>1, <2>3, <2>4 DEF IInv
<1>2. ASSUME NEW r \in Req, Handler(r)
      PROVE  IInv'
  BY <1>2, ApplyOperationKeeps, RequestTransitionKeeps, SetStateKeeps, ResolveResponsibilityKeeps,
     CreateReviewTaskKeeps, RecordStageEntryWakeKeeps, ClaimKeeps, ClaimIfReadyKeeps,
     SetDependenciesKeeps, ValidateDependenciesKeeps, CreateTaskKeeps, DecideLaunchKeeps,
     SetLaunchPauseKeeps, UnlockedKeeps, ValidateKeeps, UpdateKeeps, ListGovernedKeeps,
     DropGovernedKeeps, FinishCascadeKeeps
     DEF Handler
<1>3. ASSUME NEW r \in Req, Begin(r) \/ AcquireTaskLock(r) \/ AcquireGraphLock(r)
      PROVE  IInv'
  BY <1>3, BeginKeeps, AcquireTaskLockKeeps, AcquireGraphLockKeeps
<1>4. CASE Crash
  BY <1>4, CrashKeeps
<1> QED
  BY <1>1, <1>2, <1>3, <1>4 DEF Next

(* Whatever calls overlap, every handler holds the locks of the sections it   *)
(* is in and its copy of the task is no older than those locks allow.         *)
THEOREM Invariant == Spec => []IInv
<1>1. Init => IInv
  BY InitEstablishes
<1> QED
  BY <1>1, StepKeeps, PTL DEF Spec
-----------------------------------------------------------------------------
(* What follows from it *)

(* Every persisted task, request and lock keeps its shape, whatever the       *)
(* handlers do to the rows concurrently (the store's columns and the          *)
(* service's bookkeeping).                                                    *)
THEOREM TypeCorrect == Spec => []TypeOK
<1>1. IInv => TypeOK
  BY DEF IInv
<1> QED
  BY <1>1, Invariant, PTL

(* A handler that holds either lock writes back a copy of the newest history: *)
(* the per-task and the dependency lock keep every other history writer out.  *)
THEOREM LockedWritersCurrent == Spec => []LockedSaversCurrent
<1>1. ASSUME IInv
      PROVE  LockedSaversCurrent
  <2> SUFFICES ASSUME NEW r \in Req, request[r].pc = "update", request[r].op \notin UnlockedOp
               PROVE  /\ request[r].stored = Last(Loaded(r))
                      /\ Last(request[r].task)
                           = Last(Loaded(r)) + (IF request[r].moved THEN 1 ELSE 0)
    BY DEF LockedSaversCurrent
  <2>1. CopyOK(r) /\ StepOK(r)
    BY <1>1 DEF IInv
  <2>2. request[r].op # "create_task"
    BY <2>1 DEF StepOK
  <2>3. Last(Loaded(r)) \in Nat
    BY <1>1, <2>2, LoadedRow
  <2>4. Appended(r) \in {0, 1} /\ Appended(r) = IF request[r].moved THEN 1 ELSE 0
    BY DEF Appended
  <2>5. /\ request[r].stored \in 1..Last(Loaded(r))
        /\ Last(request[r].task) = request[r].stored + Appended(r)
        /\ Last(request[r].task) = Last(Loaded(r)) + Appended(r)
    BY <2>1 DEF CopyOK, Saving
  <2> QED
    BY <2>3, <2>4, <2>5
<1> QED
  BY <1>1, Invariant, PTL

(* No recorded transition but a free move leaves the workflow's graph.        *)
THEOREM OnlyDeclaredEdges == Spec => []HistoryFollowsGraph
<1>1. IInv => HistoryFollowsGraph
  BY DEF IInv
<1> QED
  BY <1>1, Invariant, PTL

(* A step of a request leaves the others alone, and goes on with its own      *)
(* operation, with a governed task's drop, or not at all.                     *)
LEMMA OperationStays ==
  ASSUME TypeOK, NEW r \in Req,
         Handler(r) \/ AcquireTaskLock(r) \/ AcquireGraphLock(r)
  PROVE  /\ \A q \in Req \ {r} : request'[q] = request[q]
         /\ request[r].pc # "idle"
         /\ \/ request'[r].pc = "idle"
            \/ request'[r].op \in {request[r].op, "request_transition"}
<1> DEFINE Stays == /\ \A q \in Req \ {r} : request'[q] = request[q]
                    /\ \/ request'[r].pc = "idle"
                       \/ request'[r].op \in {request[r].op, "request_transition"}
<1>1. request \in [Req -> RequestRecord] /\ request[r] \in RequestRecord
  BY DEF TypeOK
<1>2. Fail(r) => Stays
  BY <1>1 DEF Fail, Idle
<1>3. ASSUME NEW task, Save(r, task)
      PROVE  Stays
  BY <1>1, <1>3 DEF Save, RequestRecord
<1>4. ASSUME NEW task, NEW to, NEW trigger, Transit(r, task, to, trigger)
      PROVE  Stays
  BY <1>1, <1>4 DEF Transit, RequestRecord
<1>5. ReturnFrom(r) => Stays
  BY <1>1 DEF ReturnFrom, Idle
<1>6. request[r].pc # "idle"
  BY DEF Handler, ApplyOperation, RequestTransition, SetState, ResolveResponsibility,
         CreateReviewTask, RecordStageEntryWake, Claim, ClaimIfReady, SetDependencies,
         ValidateDependencies, CreateTask, PauseLaunch, RetryTask, SetLaunchPause, Release, SetTurn,
         SetBlocked, SetAttention, SetFact, SetGovernor, Validate, Update, ListGoverned,
         DropGoverned, FinishCascade, AcquireTaskLock, AcquireGraphLock, At
<1> SUFFICES Stays
  BY <1>6
<1>7. CASE ApplyOperation(r) \/ RequestTransition(r) \/ SetState(r) \/ ResolveResponsibility(r)
  <2> HIDE DEF Stays
  <2> QED
    BY <1>2, <1>3, <1>4, <1>7
       DEF ApplyOperation, RequestTransition, SetState, ResolveResponsibility, Gated
<1>8. CASE \/ RecordStageEntryWake(r) \/ ClaimIfReady(r) \/ ValidateDependencies(r) \/ Release(r)
           \/ SetTurn(r) \/ SetBlocked(r) \/ SetAttention(r) \/ SetFact(r) \/ SetGovernor(r)
  <2> HIDE DEF Stays
  <2> QED
    BY <1>2, <1>3, <1>8
       DEF RecordStageEntryWake, ClaimIfReady, ValidateDependencies, Release, SetTurn, SetBlocked,
           SetAttention, SetFact, SetGovernor
<1>9. CASE Claim(r) \/ SetDependencies(r) \/ PauseLaunch(r) \/ RetryTask(r) \/ Validate(r)
  <2>1. CASE Fail(r)
    BY <1>2, <2>1
  <2>2. CASE ~Fail(r)
    BY <1>1, <1>9, <2>2 DEF Claim, SetDependencies, PauseLaunch, RetryTask, Validate, RequestRecord
  <2> QED
    BY <2>1, <2>2
<1>10. CASE CreateReviewTask(r)
  BY <1>1, <1>10 DEF CreateReviewTask, RequestRecord
<1>11. CASE CreateTask(r) \/ SetLaunchPause(r)
  BY <1>1, <1>2, <1>11 DEF CreateTask, SetLaunchPause, Idle
<1>12. CASE Update(r)
  <2>1. CASE Fail(r) \/ ReturnFrom(r)
    BY <1>2, <1>5, <2>1
  <2>2. CASE ~(Fail(r) \/ ReturnFrom(r))
    BY <1>1, <1>12, <2>2 DEF Update, RequestRecord
  <2> QED
    BY <2>1, <2>2
<1>13. CASE ListGoverned(r)
  BY <1>1, <1>13 DEF ListGoverned, RequestRecord
<1>14. CASE DropGoverned(r)
  BY <1>1, <1>14 DEF DropGoverned, Idle
<1>15. CASE FinishCascade(r)
  BY <1>5, <1>15 DEF FinishCascade
<1>16. CASE AcquireTaskLock(r) \/ AcquireGraphLock(r)
  BY <1>1, <1>16 DEF AcquireTaskLock, AcquireGraphLock, RequestRecord
<1> QED
  BY <1>7, <1>8, <1>9, <1>10, <1>11, <1>12, <1>13, <1>14, <1>15, <1>16 DEF Handler

(* Clients that issue no unlocked call never make one run. *)
LEMMA UnlockedStayAway ==
  ASSUME IInv, NoUnlockedRequest, [Next]_vars,
         \A c \in Call : c.op \notin UnlockedOp
  PROVE  NoUnlockedRequest'
<1>1. CASE UNCHANGED vars
  BY <1>1 DEF vars, NoUnlockedRequest
<1>2. ASSUME NEW r \in Req, Handler(r) \/ AcquireTaskLock(r) \/ AcquireGraphLock(r)
      PROVE  NoUnlockedRequest'
  BY <1>2, OperationStays DEF IInv, NoUnlockedRequest, UnlockedOp
<1>3. ASSUME NEW r \in Req, Begin(r)
      PROVE  NoUnlockedRequest'
  <2>1. PICK c \in Call :
          request' = [request EXCEPT ![r] =
            [Idle EXCEPT !.pc = FirstStep(c.op), !.op = c.op, !.stack = <<Frame(c.task)>>]]
    BY <1>3 DEF Begin
  <2>2. request \in [Req -> RequestRecord]
    BY DEF IInv, TypeOK
  <2>3. request'[r].op = c.op /\ \A q \in Req \ {r} : request'[q] = request[q]
    BY <2>1, <2>2 DEF Idle
  <2> QED
    BY <2>3 DEF NoUnlockedRequest
<1>4. CASE Crash
  BY <1>4 DEF Crash, NoUnlockedRequest, Idle
<1> QED
  BY <1>1, <1>2, <1>3, <1>4 DEF Next

(* Writers that hold a lock keep the state on the tail of the history. *)
LEMMA TailKept ==
  ASSUME IInv, IInv', NoUnlockedRequest, StateMatchesTail, [Next]_vars
  PROVE  StateMatchesTail'
<1>1. ASSUME row' = row
      PROVE  StateMatchesTail'
  BY <1>1 DEF StateMatchesTail
<1>2. ASSUME NEW id \in Task \ DOMAIN row, NEW new \in TaskRecord,
             row' = Inserted(id, new), Len(new.history) = 1, new.history[1].to = new.state
      PROVE  StateMatchesTail'
  <2>1. /\ DOMAIN row' = DOMAIN row \cup {id}
        /\ row'[id] = new
        /\ \A x \in DOMAIN row : row'[x] = row[x]
    BY <1>2 DEF Inserted
  <2> QED
    BY <1>2, <2>1 DEF StateMatchesTail, Consistent, CurrentEntry
<1>3. ASSUME NEW r \in Req, CreateReviewTask(r), row' # row
      PROVE  StateMatchesTail'
  <2>1. PICK id \in Task \ DOMAIN row : /\ ReviewWorkflow \in WorkflowName
                                       /\ row' = Inserted(id, NewTask(ReviewWorkflow, Target(r)))
    BY <1>3 DEF CreateReviewTask
  <2>2. StepOK(r)
    BY DEF IInv
  <2>3. request[r].pc # "idle" /\ request[r].op # "create_task"
    BY <1>3, <2>2 DEF CreateReviewTask, StepOK
  <2>4. Target(r) \in Task
    BY <2>3, LoadedRow
  <2> QED
    BY <1>2, <2>1, <2>4, NewTaskType
<1>4. ASSUME NEW r \in Req, CreateTask(r), row' # row
      PROVE  StateMatchesTail'
  <2>1. PICK id \in Task \ DOMAIN row :
             /\ arg[r].workflow \in WorkflowName
             /\ arg[r].governor # Nil => arg[r].governor \in DOMAIN row
             /\ arg[r].dependsOn \subseteq DOMAIN row
             /\ row' = Inserted(id, [NewTask(arg[r].workflow, arg[r].governor)
                                       EXCEPT !.dependsOn = arg[r].dependsOn])
    BY <1>4 DEF CreateTask, Fail
  <2> DEFINE plain == NewTask(arg[r].workflow, arg[r].governor)
             new   == [plain EXCEPT !.dependsOn = arg[r].dependsOn]
  <2>2. /\ arg[r].workflow \in WorkflowName
        /\ arg[r].governor \in Task \cup {Nil}
        /\ arg[r].dependsOn \subseteq Task
    BY <2>1 DEF IInv, TypeOK
  <2>3. /\ plain \in TaskRecord
        /\ Len(plain.history) = 1
        /\ plain.history[1].to = plain.state
    BY <2>2, NewTaskType
  <2> HIDE DEF plain
  <2>4. /\ new \in TaskRecord
        /\ Len(new.history) = 1
        /\ new.history[1].to = new.state
    BY <2>2, <2>3 DEF TaskRecord
  <2>5. row' = Inserted(id, new)
    BY <2>1 DEF plain
  <2> HIDE DEF new
  <2> QED
    BY <1>2, <2>4, <2>5
<1>5. ASSUME NEW r \in Req, SetLaunchPause(r)
      PROVE  StateMatchesTail'
  <2>1. \A x \in DOMAIN row : row[x] \in TaskRecord
    BY DEF IInv, TypeOK
  <2>2. DOMAIN row' = DOMAIN row /\ \A x \in DOMAIN row : row'[x].state = row[x].state
                                                         /\ row'[x].history = row[x].history
    BY <1>5, <2>1 DEF SetLaunchPause, TaskRecord
  <2> QED
    BY <2>2 DEF StateMatchesTail, Consistent, CurrentEntry
<1>6. ASSUME NEW r \in Req, Update(r), row' # row
      PROVE  StateMatchesTail'
  <2> DEFINE task == request[r].task
             new  == UpdatedRow(Loaded(r), task, request[r].stored)
  <2>1. /\ request[r].pc = "update"
        /\ Writable(Loaded(r), task, request[r].stored)
        /\ row' = [row EXCEPT ![Target(r)] = new]
    BY <1>6 DEF Update, Fail, Loaded
  <2>2. /\ Target(r) \in DOMAIN row
        /\ Consistent(task)
        /\ new.state = task.state
        /\ Last(row[Target(r)]) \in Nat \ {0}
        /\ Last(new) = Last(row[Target(r)]) + Appended(r)
        /\ \A i \in 1..Last(row[Target(r)]) :
             TransitionFacts(new.history[i]) = TransitionFacts(row[Target(r)].history[i])
        /\ request[r].moved => new.history[Last(new)] = task.history[Last(task)]
    BY <2>1, UpdateFacts DEF Loaded
  <2> HIDE DEF new
  <2>3. Consistent(new)
    <3>1. CASE request[r].moved
      BY <2>2, <3>1 DEF Consistent, CurrentEntry, Last
    <3>2. CASE ~request[r].moved
      <4>1. StepOK(r) /\ CopyOK(r) /\ request[r].op \notin UnlockedOp
        BY <2>1 DEF IInv, NoUnlockedRequest
      <4>2. Appended(r) = 0
        BY <3>2 DEF Appended
      <4>3. /\ request[r].stored \in 1..Last(row[Target(r)])
            /\ Last(task) = request[r].stored + Appended(r)
            /\ Last(task) = Last(row[Target(r)]) + Appended(r)
            /\ \A i \in 1..request[r].stored :
                 TransitionFacts(task.history[i]) = TransitionFacts(row[Target(r)].history[i])
        BY <2>1, <4>1 DEF CopyOK, Saving, Loaded
      <4>4. /\ Last(new) = Last(row[Target(r)])
            /\ Last(task) = Last(new)
            /\ request[r].stored = Last(new)
            /\ Last(new) \in 1..Last(row[Target(r)])
        BY <2>2, <4>2, <4>3
      <4>5. task.history[Last(task)].to = new.history[Last(new)].to
        <5>1. TransitionFacts(task.history[Last(new)]) = TransitionFacts(new.history[Last(new)])
          BY <2>2, <4>3, <4>4
        <5> QED
          BY <4>4, <5>1 DEF TransitionFacts
      <4> QED
        BY <2>2, <4>5 DEF Consistent, CurrentEntry, Last
    <3> QED
      BY <3>1, <3>2
  <2>4. DOMAIN row' = DOMAIN row /\ row'[Target(r)] = new
        /\ \A x \in DOMAIN row : x # Target(r) => row'[x] = row[x]
    BY <2>1, <2>2 DEF IInv, TypeOK
  <2> QED
    BY <2>3, <2>4 DEF StateMatchesTail
<1>7. ASSUME NEW r \in Req, Handler(r), row' # row
      PROVE  CreateReviewTask(r) \/ CreateTask(r) \/ SetLaunchPause(r) \/ Update(r)
  <2>1. ~Fail(r)
    BY <1>7 DEF Fail
  <2>2. ASSUME NEW task
        PROVE  ~Save(r, task) /\ \A to, trigger : ~Transit(r, task, to, trigger)
    BY <1>7 DEF Save, Transit
  <2> QED
    BY <1>7, <2>1, <2>2
       DEF Handler, ApplyOperation, RequestTransition, SetState, ResolveResponsibility, Gated,
           RecordStageEntryWake, Claim, ClaimIfReady, SetDependencies,
           ValidateDependencies, PauseLaunch, RetryTask, Release, SetTurn,
           SetBlocked, SetAttention, SetFact, SetGovernor, Validate, ListGoverned,
           DropGoverned, FinishCascade
<1>8. ASSUME NEW r \in Req, Begin(r) \/ AcquireTaskLock(r) \/ AcquireGraphLock(r)
      PROVE  row' = row
  BY <1>8 DEF Begin, AcquireTaskLock, AcquireGraphLock
<1>9. Crash \/ UNCHANGED vars => row' = row
  BY DEF Crash, vars
<1> QED
  BY <1>1, <1>3, <1>4, <1>5, <1>6, <1>7, <1>8, <1>9 DEF Next

(* The two locks suffice: as long as every call takes one of them, a task's   *)
(* state is the one its history ends in.  The calls that take none are what   *)
(* breaks it (the run stale_turn).                                            *)
THEOREM LocksKeepTail ==
  ASSUME \A c \in Call : c.op \notin UnlockedOp
  PROVE  Spec => []StateMatchesTail
<1>1. Init => LockedIInv
  BY InitEstablishes DEF LockedIInv
<1>2. LockedIInv /\ [Next]_vars => LockedIInv'
  <2> SUFFICES ASSUME LockedIInv, [Next]_vars
               PROVE  LockedIInv'
    OBVIOUS
  <2>1. IInv' /\ NoUnlockedRequest'
    BY StepKeeps, UnlockedStayAway DEF LockedIInv
  <2>2. StateMatchesTail'
    BY <2>1, TailKept DEF LockedIInv
  <2> QED
    BY <2>1, <2>2 DEF LockedIInv
<1>3. LockedIInv => StateMatchesTail
  BY DEF LockedIInv
<1> QED
  BY <1>1, <1>2, <1>3, PTL DEF Spec

-----------------------------------------------------------------------------
(* What a step writes *)

(* A handler writes the row it loaded, over the copy it works on. *)
Written(r) ==
  /\ request[r].pc = "update"
  /\ Writable(Loaded(r), request[r].task, request[r].stored)
  /\ row' = [row EXCEPT ![Target(r)] =
               UpdatedRow(Loaded(r), request[r].task, request[r].stored)]

(* A handler inserts a new task, which nothing depends on yet, a review task  *)
(* under the task it is of, or under the governor that the call names.        *)
Created(r) ==
  /\ \/ request[r].pc = "review"
     \/ At(r, "load", "create_task")
  /\ \E id \in Task \ DOMAIN row, new \in TaskRecord :
       /\ row' = Inserted(id, new)
       /\ Len(new.history) = 1
       /\ new.history[1].to = new.state
       /\ new.dependsOn \subseteq DOMAIN row
       /\ new.claimed = Nil
       /\ new.workflow = ReviewWorkflow =>
            IF request[r].pc = "review" THEN new.governor = Target(r)
            ELSE arg[r].workflow = ReviewWorkflow /\ arg[r].governor # Nil

(* Nothing else changes a row but the launch pause and what a retry clears. *)
LEMMA RowStep ==
  ASSUME IInv, [Next]_vars, row' # row
  PROVE  \E r \in Req : /\ Handler(r)
                        /\ \/ Update(r) /\ Written(r)
                           \/ Created(r)
                           \/ SetLaunchPause(r)
<1>1. ~UNCHANGED vars /\ ~Crash
  BY DEF vars, Crash
<1>2. ASSUME NEW r \in Req
      PROVE  ~Begin(r) /\ ~AcquireTaskLock(r) /\ ~AcquireGraphLock(r)
  BY DEF Begin, AcquireTaskLock, AcquireGraphLock
<1>3. PICK r \in Req : Handler(r)
  BY <1>1, <1>2 DEF Next, Quiescent
<1>4. ~Fail(r)
  BY DEF Fail
<1>5. ASSUME NEW task
      PROVE  ~Save(r, task) /\ \A to, trigger : ~Transit(r, task, to, trigger)
  BY DEF Save, Transit
<1>6. CreateReviewTask(r) \/ CreateTask(r) \/ SetLaunchPause(r) \/ Update(r)
  BY <1>3, <1>4, <1>5
     DEF Handler, ApplyOperation, RequestTransition, SetState, ResolveResponsibility, Gated,
         RecordStageEntryWake, Claim, ClaimIfReady, SetDependencies,
         ValidateDependencies, PauseLaunch, RetryTask, Release, SetTurn,
         SetBlocked, SetAttention, SetFact, SetGovernor, Validate, ListGoverned,
         DropGoverned, FinishCascade
<1>7. CASE Update(r)
  BY <1>3, <1>4, <1>7 DEF Update, Written, Loaded
<1>8. CASE CreateReviewTask(r)
  <2>1. PICK id \in Task \ DOMAIN row : /\ ReviewWorkflow \in WorkflowName
                                       /\ row' = Inserted(id, NewTask(ReviewWorkflow, Target(r)))
    BY <1>8 DEF CreateReviewTask
  <2>2. request[r].pc = "review"
    BY <1>8 DEF CreateReviewTask
  <2>3. Target(r) \in Task
    <3>1. StepOK(r)
      BY DEF IInv
    <3>2. request[r].pc # "idle" /\ request[r].op # "create_task"
      BY <2>2, <3>1 DEF StepOK
    <3> QED
      BY <3>2, LoadedRow
  <2> DEFINE new == NewTask(ReviewWorkflow, Target(r))
  <2>4. /\ new \in TaskRecord
        /\ Len(new.history) = 1
        /\ new.history[1].to = new.state
    BY <2>1, <2>3, NewTaskType
  <2>5. /\ new.dependsOn \subseteq DOMAIN row
        /\ new.governor = Target(r)
        /\ new.claimed = Nil
    BY DEF NewTask
  <2>6. row' = Inserted(id, new)
    BY <2>1
  <2> HIDE DEF new
  <2>7. Created(r)
    BY <2>1, <2>2, <2>4, <2>5, <2>6 DEF Created
  <2> QED
    BY <1>3, <2>7
<1>9. CASE CreateTask(r)
  <2>1. PICK id \in Task \ DOMAIN row :
             /\ arg[r].workflow \in WorkflowName
             /\ arg[r].workflow = ReviewWorkflow => arg[r].governor # Nil
             /\ arg[r].governor # Nil => arg[r].governor \in DOMAIN row
             /\ arg[r].dependsOn \subseteq DOMAIN row
             /\ row' = Inserted(id, [NewTask(arg[r].workflow, arg[r].governor)
                                       EXCEPT !.dependsOn = arg[r].dependsOn])
    BY <1>4, <1>9 DEF CreateTask
  <2>2. arg[r].governor \in Task \cup {Nil} /\ arg[r].dependsOn \in SUBSET DOMAIN row
    BY <2>1 DEF IInv, TypeOK
  <2>3. At(r, "load", "create_task")
    BY <1>9 DEF CreateTask
  <2> DEFINE plain == NewTask(arg[r].workflow, arg[r].governor)
             new   == [plain EXCEPT !.dependsOn = arg[r].dependsOn]
  <2>4. /\ plain \in TaskRecord
        /\ Len(plain.history) = 1
        /\ plain.history[1].to = plain.state
        /\ plain.workflow = arg[r].workflow
        /\ plain.claimed = Nil
    BY <2>1, <2>2, NewTaskType DEF NewTask
  <2>5. row' = Inserted(id, new)
    BY <2>1
  <2> HIDE DEF plain
  <2>6. /\ new \in TaskRecord
        /\ new.history = plain.history
        /\ new.state = plain.state
        /\ new.dependsOn = arg[r].dependsOn
        /\ new.workflow = arg[r].workflow
        /\ new.claimed = Nil
    BY <2>2, <2>4 DEF TaskRecord, IInv, TypeOK
  <2> HIDE DEF new
  <2>7. Created(r)
    BY <2>1, <2>3, <2>4, <2>5, <2>6 DEF Created, At
  <2> QED
    BY <1>3, <2>7
<1>10. CASE SetLaunchPause(r)
  BY <1>3, <1>10
<1> QED
  BY <1>6, <1>7, <1>8, <1>9, <1>10

(* A created task is new, and the tasks there were are as they were. *)
LEMMA CreatedRow ==
  ASSUME IInv, NEW r \in Req, Created(r)
  PROVE  \E id \in Task \ DOMAIN row :
           /\ DOMAIN row' = DOMAIN row \cup {id}
           /\ \A x \in DOMAIN row : row'[x] = row[x]
           /\ Len(row'[id].history) = 1
           /\ row'[id].history[1].to = row'[id].state
           /\ row'[id].dependsOn \subseteq DOMAIN row
           /\ row'[id].claimed = Nil
           /\ row'[id].workflow = ReviewWorkflow =>
                IF request[r].pc = "review" THEN row'[id].governor = Target(r)
                ELSE arg[r].workflow = ReviewWorkflow /\ arg[r].governor # Nil
<1>1. PICK id \in Task \ DOMAIN row, new \in TaskRecord :
        /\ row' = Inserted(id, new)
        /\ Len(new.history) = 1
        /\ new.history[1].to = new.state
        /\ new.dependsOn \subseteq DOMAIN row
        /\ new.claimed = Nil
        /\ new.workflow = ReviewWorkflow =>
             IF request[r].pc = "review" THEN new.governor = Target(r)
             ELSE arg[r].workflow = ReviewWorkflow /\ arg[r].governor # Nil
  BY DEF Created
<1>2. /\ DOMAIN row' = DOMAIN row \cup {id}
      /\ row'[id] = new
      /\ \A x \in DOMAIN row : row'[x] = row[x]
  BY <1>1 DEF Inserted
<1> QED
  BY <1>1, <1>2

(* The launch pause leaves everything of a task but the pause and the claim,  *)
(* which a retry gives up.                                                    *)
LEMMA PausedRow ==
  ASSUME IInv, NEW r \in Req, SetLaunchPause(r)
  PROVE  /\ DOMAIN row' = DOMAIN row
         /\ Target(r) \in DOMAIN row
         /\ \A x \in DOMAIN row \ {Target(r)} : row'[x] = row[x]
         /\ LET old == row[Target(r)]  new == row'[Target(r)]
            IN  /\ new.state = old.state
                /\ new.workflow = old.workflow
                /\ new.history = old.history
                /\ new.dependsOn = old.dependsOn
                /\ new.governor = old.governor
                /\ new.claimed = old.claimed \/ (new.claimed = Nil /\ request[r].op = "retry_task")
<1>1. request[r].pc = "target" /\ request[r].op \in {"pause_launch", "retry_task"}
  BY DEF SetLaunchPause, IInv, StepOK
<1>2. Target(r) \in DOMAIN row /\ row[Target(r)] \in TaskRecord
  BY <1>1, LoadedRow DEF Loaded
<1>3. row = [x \in DOMAIN row |-> row[x]]
  BY DEF IInv, TypeOK
<1>4. CASE request[r].op = "pause_launch"
  <2>1. row' = [row EXCEPT ![Target(r)].launchPaused = TRUE]
    BY <1>4 DEF SetLaunchPause
  <2> QED
    BY <1>2, <1>3, <2>1 DEF TaskRecord
<1>5. CASE request[r].op = "retry_task"
  <2>1. row' = [row EXCEPT ![Target(r)].launchPaused = FALSE, ![Target(r)].claimed = Nil]
    BY <1>5 DEF SetLaunchPause
  <2> QED
    BY <1>2, <1>3, <1>5, <2>1 DEF TaskRecord
<1> QED
  BY <1>1, <1>4, <1>5

(* The row a save leaves takes the wakes of the entries the writer knew, the  *)
(* promises of the last of them, and the writer's columns but the pause.      *)
LEMMA SettledRow ==
  ASSUME NEW old \in TaskRecord, NEW task \in TaskRecord,
         NEW n \in 1..Len(old.history),
         n <= Len(task.history)
  PROVE  LET new == UpdatedRow(old, task, n)
         IN  /\ new.claimed = task.claimed
             /\ new.dependsOn = task.dependsOn
             /\ new.governor = task.governor
             /\ new.launchPaused = old.launchPaused
             /\ \A i \in 1..Len(old.history) :
                  /\ new.history[i].wake
                       = IF i <= n THEN task.history[i].wake ELSE old.history[i].wake
                  /\ new.history[i].promises
                       = IF i = n THEN task.history[i].promises ELSE old.history[i].promises
<1> DEFINE settled == SettledHistory(old.history, task.history, n)
           added   == SubSeq(task.history, n + 1, Len(task.history))
           new     == UpdatedRow(old, task, n)
<1>1. old.history \in Seq(Entry) /\ task.history \in Seq(Entry)
  BY DEF TaskRecord
<1>2. ASSUME NEW i \in 1..Len(old.history)
      PROVE  /\ settled[i].wake = IF i <= n THEN task.history[i].wake ELSE old.history[i].wake
             /\ settled[i].promises
                  = IF i = n THEN task.history[i].promises ELSE old.history[i].promises
             /\ settled[i] \in Entry
  <2>1. old.history[i] \in Entry /\ (i <= n => task.history[i] \in Entry)
    BY <1>1
  <2>2. settled[i] = IF i < n THEN [old.history[i] EXCEPT !.wake = task.history[i].wake]
                     ELSE IF i = n
                          THEN [old.history[i] EXCEPT !.wake = task.history[i].wake,
                                                      !.promises = task.history[i].promises]
                          ELSE old.history[i]
    BY DEF SettledHistory
  <2> HIDE DEF settled
  <2>3. i \in Int /\ n \in Int
    BY <1>1
  <2>4. CASE i < n
    BY <2>1, <2>2, <2>3, <2>4 DEF Entry
  <2>5. CASE i = n
    <3>1. task.history[i] \in Entry
      BY <2>1, <2>3, <2>5
    <3>2. settled[i] = [old.history[i] EXCEPT !.wake = task.history[i].wake,
                                              !.promises = task.history[i].promises]
      BY <2>2, <2>3, <2>5
    <3>3. /\ settled[i].wake = task.history[i].wake
          /\ settled[i].promises = task.history[i].promises
          /\ settled[i] \in Entry
      BY <2>1, <3>1, <3>2 DEF Entry
    <3> QED
      BY <2>3, <2>5, <3>3
  <2>6. CASE i > n
    <3>1. settled[i] = old.history[i]
      BY <2>2, <2>3, <2>6
    <3> QED
      BY <2>1, <2>3, <2>6, <3>1
  <2> QED
    BY <2>3, <2>4, <2>5, <2>6
<1>3. settled \in Seq(Entry) /\ Len(settled) = Len(old.history)
  <2>1. settled = [i \in 1..Len(old.history) |-> settled[i]]
    BY DEF SettledHistory
  <2>2. settled \in [1..Len(old.history) -> Entry]
    BY <1>2, <2>1
  <2>3. Len(old.history) \in Nat
    BY <1>1
  <2> QED
    BY <2>2, <2>3
<1>4. added \in Seq(Entry)
  <2>1. n + 1 \in Int /\ Len(task.history) \in Nat /\ n \in Nat
    BY <1>1
  <2>2. \A i \in (n + 1)..Len(task.history) : task.history[i] \in Entry
    BY <1>1
  <2> QED
    BY <2>1, <2>2, <1>1, SubSeqProperties
<1>5. settled \o added \in Seq(Entry)
      /\ \A i \in 1..Len(old.history) : (settled \o added)[i] = settled[i]
  <2> HIDE DEF settled, added
  <2>1. /\ settled \o added \in Seq(Entry)
        /\ \A i \in 1..(Len(settled) + Len(added)) :
             (settled \o added)[i] = IF i <= Len(settled) THEN settled[i]
                                     ELSE added[i - Len(settled)]
    <3>1. settled \in Seq(Entry) /\ added \in Seq(Entry)
      BY <1>3, <1>4
    <3> QED
      BY <3>1, ConcatProperties, Zenon
  <2>2. Len(settled) \in Nat /\ Len(added) \in Nat
    BY <1>3, <1>4
  <2> QED
    BY <1>3, <2>1, <2>2
<1>6. new = [task EXCEPT !.launchPaused = old.launchPaused, !.history = settled \o added]
  BY DEF UpdatedRow
<1> HIDE DEF settled, added, new
<1>7. /\ new.history = settled \o added
      /\ new.claimed = task.claimed
      /\ new.dependsOn = task.dependsOn
      /\ new.governor = task.governor
      /\ new.launchPaused = old.launchPaused
  BY <1>5, <1>6 DEF TaskRecord
<1> QED
  BY <1>2, <1>5, <1>7 DEF new

(* A write, put together: which row it changes, and what of the old row and   *)
(* of the writer's copy the new row holds.                                    *)
LEMMA WrittenRow ==
  ASSUME IInv, NEW r \in Req, Written(r)
  PROVE  LET old  == row[Target(r)]
             new  == row'[Target(r)]
             task == request[r].task
             n    == request[r].stored
         IN  /\ request[r].op # "create_task"
             /\ Target(r) \in DOMAIN row
             /\ DOMAIN row' = DOMAIN row
             /\ \A x \in DOMAIN row \ {Target(r)} : row'[x] = row[x]
             /\ Loaded(r) = old
             /\ old \in TaskRecord
             /\ task \in TaskRecord
             /\ new \in TaskRecord
             /\ Consistent(task)
             /\ new.workflow = old.workflow
             /\ new.state = task.state
             /\ new.claimed = task.claimed
             /\ new.dependsOn = task.dependsOn
             /\ new.governor = task.governor
             /\ new.launchPaused = old.launchPaused
             /\ Last(old) \in Nat \ {0}
             /\ n \in 1..Last(old)
             /\ Last(task) = n + Appended(r)
             /\ Last(new) = Last(old) + Appended(r)
             /\ Appended(r) \in {0, 1}
             /\ request[r].op \notin UnlockedOp => n = Last(old)
             /\ request[r].moved => /\ n = Last(old)
                                    /\ new.history[Last(new)] = task.history[Last(task)]
             /\ \A i \in 1..n :
                  TransitionFacts(task.history[i]) = TransitionFacts(old.history[i])
             /\ \A i \in 1..Last(old) :
                  /\ TransitionFacts(new.history[i]) = TransitionFacts(old.history[i])
                  /\ new.history[i].wake
                       = IF i <= n THEN task.history[i].wake ELSE old.history[i].wake
                  /\ new.history[i].promises
                       = IF i = n THEN task.history[i].promises ELSE old.history[i].promises
<1> DEFINE old  == row[Target(r)]
           task == request[r].task
           n    == request[r].stored
           new  == UpdatedRow(old, task, n)
<1>1. request[r].pc = "update" /\ Writable(old, task, n)
  BY DEF Written, Loaded
<1>2. /\ request[r].op # "create_task"
      /\ Target(r) \in DOMAIN row
      /\ Consistent(task)
      /\ new \in TaskRecord
      /\ new.workflow = old.workflow
      /\ new.state = task.state
      /\ Last(old) \in Nat \ {0}
      /\ Last(new) = Last(old) + Appended(r)
      /\ Appended(r) \in {0, 1}
      /\ \A i \in 1..Last(old) :
           TransitionFacts(new.history[i]) = TransitionFacts(old.history[i])
      /\ request[r].moved => new.history[Last(new)] = task.history[Last(task)]
  BY <1>1, UpdateFacts DEF Loaded
<1>3. /\ old \in TaskRecord
      /\ DOMAIN row' = DOMAIN row
      /\ row'[Target(r)] = new
      /\ \A x \in DOMAIN row \ {Target(r)} : row'[x] = row[x]
  BY <1>2 DEF Written, IInv, TypeOK, Loaded
<1>4. CopyOK(r) /\ StepOK(r)
  BY DEF IInv
<1>5. /\ task \in TaskRecord
      /\ n \in 1..Last(old)
      /\ Last(task) = n + Appended(r)
      /\ request[r].op \notin UnlockedOp => Last(task) = Last(old) + Appended(r)
      /\ \A i \in 1..n :
           TransitionFacts(task.history[i]) = TransitionFacts(old.history[i])
  BY <1>1, <1>4 DEF CopyOK, Saving, Loaded
<1>6. request[r].moved => request[r].op \notin UnlockedOp
  BY <1>4 DEF StepOK, TransitionOp, UnlockedOp
<1>7. Loaded(r) = old
  BY DEF Loaded
<1> HIDE DEF old, task, n
<1>8. request[r].op \notin UnlockedOp => n = Last(old)
  BY <1>2, <1>5
<1>9. n \in 1..Len(old.history) /\ n <= Len(task.history)
  BY <1>2, <1>5 DEF Last
<1>10. /\ new.claimed = task.claimed
       /\ new.dependsOn = task.dependsOn
       /\ new.governor = task.governor
       /\ new.launchPaused = old.launchPaused
       /\ \A i \in 1..Last(old) :
            /\ new.history[i].wake
                 = IF i <= n THEN task.history[i].wake ELSE old.history[i].wake
            /\ new.history[i].promises
                 = IF i = n THEN task.history[i].promises ELSE old.history[i].promises
  BY <1>3, <1>5, <1>9, SettledRow DEF Last
<1> HIDE DEF new
<1> QED
  BY <1>2, <1>3, <1>5, <1>6, <1>7, <1>8, <1>10 DEF old, task, n

-----------------------------------------------------------------------------
(* What a handler makes of the task it loads *)

(* The copy of task under way to state to: the one entry that records the     *)
(* transition is added, and nothing is written yet.                           *)
UnderWay(r, task, to, trigger) ==
  LET new   == request'[r].task
      entry == new.history[Last(new)]
  IN  /\ row' = row /\ arg' = arg
      /\ request'[r].pc \in {"review", "validate"}
      /\ request'[r].moved = TRUE
      /\ request'[r].op = request[r].op
      /\ request'[r].stack = request[r].stack
      /\ Last(task) \in Nat \ {0}
      /\ Last(new) = Last(task) + 1
      /\ \A i \in 1..Last(task) : new.history[i] = task.history[i]
      /\ entry.from = task.state /\ entry.to = to /\ entry.trigger = trigger
      /\ new.state = to /\ (request'[r].pc = "review" => to = "REVIEW")
      /\ new.claimed = task.claimed
      /\ new.dependsOn = task.dependsOn
      /\ new.governor = task.governor

(* A transition adds the one entry that records it. *)
LEMMA TransitMakes ==
  ASSUME IInv, NEW r \in Req, NEW task \in TaskRecord, task.history # <<>>,
         task.state \in Label(task.workflow),
         NEW to \in Label(task.workflow),
         NEW trigger \in Verb \cup {"start", "set-state", "request", "cascade-drop"},
         Transit(r, task, to, trigger)
  PROVE  UnderWay(r, task, to, trigger)
<1> DEFINE plain    == Enter(task, to, trigger)
           entered  == [plain EXCEPT !.blocked = FALSE]
           last     == Len(entered.history)
           promised == [k \in DOMAIN entered.history[last].promises \cup {"review-addressed"} |->
                          "pending"]
           saved    == [entered EXCEPT !.history[last].promises = promised]
           review   == to = "REVIEW" /\ Graph[task.workflow].reviewed
           pc       == IF review THEN "review" ELSE "validate"
           new      == IF review THEN saved ELSE entered
           entry    == NewEntry(task.workflow, task.state, to, trigger)
<1>1. /\ task.history \in Seq(Entry)
      /\ Last(task) \in Nat \ {0}
      /\ Last(task) = Len(task.history)
      /\ task.workflow \in WorkflowName
      /\ task.state \in AnyLabel
  BY EmptySeq, LenProperties DEF TaskRecord, Last, AnyLabel
<1>2. entry \in Entry /\ entry.from = task.state /\ entry.to = to /\ entry.trigger = trigger
  BY <1>1, NewEntryType, PromisedKeys
<1>3. /\ plain \in TaskRecord
      /\ plain.history = Append(task.history, entry)
      /\ plain.claimed = task.claimed
      /\ plain.dependsOn = task.dependsOn
      /\ plain.governor = task.governor
      /\ plain.state = to
  BY EnterAppends DEF Enter, TaskRecord
<1> HIDE DEF plain, entry
<1>4. /\ plain.history \in Seq(Entry)
      /\ Len(plain.history) = Last(task) + 1
      /\ \A i \in 1..Last(task) : plain.history[i] = task.history[i]
      /\ plain.history[Last(task) + 1] = entry
  BY <1>1, <1>2, <1>3, AppendProperties
<1>5. /\ entered \in TaskRecord
      /\ entered.history = plain.history
      /\ entered.claimed = plain.claimed
      /\ entered.dependsOn = plain.dependsOn
      /\ entered.governor = plain.governor
      /\ entered.state = plain.state
  BY <1>3 DEF TaskRecord
<1> HIDE DEF entered
<1>6. last = Last(task) + 1 /\ last \in 1..Len(plain.history)
  BY <1>1, <1>4, <1>5
<1> HIDE DEF last
<1>7. /\ saved.history = [plain.history EXCEPT ![last] = [entry EXCEPT !.promises = promised]]
      /\ saved.claimed = plain.claimed
      /\ saved.dependsOn = plain.dependsOn
      /\ saved.governor = plain.governor
      /\ saved.state = plain.state
  <2>1. saved = [entered EXCEPT !.history = [entered.history EXCEPT ![last] =
                   [entered.history[last] EXCEPT !.promises = promised]]]
    BY <1>4, <1>5, <1>6 DEF TaskRecord
  <2>2. entered.history[last] = entry
    BY <1>4, <1>5, <1>6
  <2> HIDE DEF saved, promised
  <2> QED
    BY <1>5, <2>1, <2>2 DEF TaskRecord
<1> HIDE DEF promised, saved
<1>8. /\ Len(saved.history) = last
      /\ saved.history[last] = [entry EXCEPT !.promises = promised]
      /\ \A i \in 1..Last(task) : saved.history[i] = task.history[i]
  <2> DEFINE e == [entry EXCEPT !.promises = promised]
             S == Entry \cup {e}
  <2>1. plain.history \in Seq(S) /\ e \in S /\ last \in 1..Len(plain.history)
    BY <1>4, <1>6
  <2>2. saved.history = [plain.history EXCEPT ![last] = e]
    BY <1>7
  <2> HIDE DEF e, S
  <2>3. /\ Len(saved.history) = Len(plain.history)
        /\ \A i \in 1..Len(plain.history) :
             saved.history[i] = IF i = last THEN e ELSE plain.history[i]
    BY <2>1, <2>2, ExceptSeq
  <2> QED
    BY <1>1, <1>4, <1>6, <2>1, <2>3 DEF e
<1>9. /\ Last(new) = Last(task) + 1
      /\ \A i \in 1..Last(task) : new.history[i] = task.history[i]
      /\ new.history[Last(new)].from = entry.from
      /\ new.history[Last(new)].to = entry.to
      /\ new.history[Last(new)].trigger = entry.trigger
      /\ new.claimed = task.claimed
      /\ new.dependsOn = task.dependsOn
      /\ new.governor = task.governor
      /\ new.state = to
  <2>1. CASE review
    <3>1. /\ [entry EXCEPT !.promises = promised].from = entry.from
          /\ [entry EXCEPT !.promises = promised].to = entry.to
          /\ [entry EXCEPT !.promises = promised].trigger = entry.trigger
      BY <1>2 DEF Entry
    <3>2. new = saved
      BY <2>1
    <3>3. /\ Last(new) = Last(task) + 1 /\ Last(new) = last
          /\ \A i \in 1..Last(task) : new.history[i] = task.history[i]
      BY <1>3, <1>6, <1>8, <3>2 DEF Last
    <3>4. new.history[Last(new)] = [entry EXCEPT !.promises = promised]
      BY <1>8, <3>2, <3>3
    <3>5. /\ new.claimed = task.claimed
          /\ new.dependsOn = task.dependsOn
          /\ new.governor = task.governor
          /\ new.state = to
      BY <1>3, <1>6, <1>7, <3>2
    <3> QED
      BY <3>1, <3>3, <3>4, <3>5
  <2>2. CASE ~review
    BY <1>3, <1>4, <1>5, <1>6, <2>2 DEF Last
  <2> QED
    BY <2>1, <2>2
<1>10. /\ request' = [request EXCEPT ![r].pc = pc, ![r].moved = TRUE, ![r].task = new]
       /\ row' = row /\ arg' = arg
  BY DEF Transit, entered, saved, last, promised, plain
<1> HIDE DEF new, pc
<1>11. request \in [Req -> RequestRecord] /\ pc \in {"review", "validate"}
       /\ (pc = "review" => to = "REVIEW")
  BY DEF IInv, TypeOK, pc
<1>12. /\ request'[r].pc = pc
       /\ request'[r].moved = TRUE
       /\ request'[r].task = new
       /\ request'[r].op = request[r].op
       /\ request'[r].stack = request[r].stack
  BY <1>10, <1>11 DEF RequestRecord
<1> QED
  BY <1>1, <1>2, <1>9, <1>10, <1>11, <1>12 DEF UnderWay

(* Changing one entry leaves the others and the columns as they were. *)
LEMMA OneEntryChanged ==
  ASSUME NEW task \in TaskRecord, NEW i \in 1..Last(task), NEW e \in Entry
  PROVE  LET new == [task EXCEPT !.history[i] = e]
         IN  /\ Last(new) = Last(task)
             /\ \A j \in 1..Last(task) :
                  new.history[j] = IF j = i THEN e ELSE task.history[j]
             /\ new.claimed = task.claimed
             /\ new.dependsOn = task.dependsOn
             /\ new.governor = task.governor
<1> DEFINE history == [task.history EXCEPT ![i] = e]
           new     == [task EXCEPT !.history[i] = e]
<1>1. task.history \in Seq(Entry) /\ i \in 1..Len(task.history)
  BY DEF TaskRecord, Last
<1>2. /\ Len(history) = Len(task.history)
      /\ \A j \in 1..Len(task.history) : history[j] = IF j = i THEN e ELSE task.history[j]
  BY <1>1, ExceptSeq
<1>3. new = [task EXCEPT !.history = history]
  BY DEF TaskRecord
<1> HIDE DEF history, new
<1>4. /\ new.history = history
      /\ new.claimed = task.claimed
      /\ new.dependsOn = task.dependsOn
      /\ new.governor = task.governor
  BY <1>3 DEF TaskRecord
<1> QED
  BY <1>2, <1>4 DEF Last, new

(* The copy new of the task old: the entries it was loaded with record the    *)
(* same transitions and keep a settled wake; what it gains is an entry that   *)
(* leaves the state old is in, through the gate unless it is a free move or a *)
(* drop, and then of the entries it was loaded with at most the promises of   *)
(* the last have changed.                                                     *)
CopyOf(old, new, moved) ==
  /\ \A i \in 1..Last(old) :
       /\ TransitionFacts(new.history[i]) = TransitionFacts(old.history[i])
       /\ old.history[i].wake # "pending" => new.history[i].wake = old.history[i].wake
  /\ new.dependsOn = old.dependsOn
  /\ Last(new) = Last(old) + (IF moved THEN 1 ELSE 0)
  /\ moved =>
       LET entry == new.history[Last(new)]
       IN  /\ entry.from = old.state /\ entry.to = new.state
           /\ SameEntries(old, new)
           /\ (entry.trigger # "set-state" /\ entry.to # Dropped)
                => Outstanding(new.history[Last(old)].promises) = {}

(* A request goes on with its call: it has neither written nor returned. *)
GoesOn(r) ==
  /\ arg' = arg
  /\ request'[r].op = request[r].op
  /\ request'[r].stack = request[r].stack

(* Resolving a promise changes the promises of the last entry alone. *)
LEMMA PromiseResolved ==
  ASSUME NEW task \in TaskRecord, Last(task) \in Nat \ {0},
         NEW key \in DOMAIN CurrentEntry(task).promises, NEW status \in Status
  PROVE  LET last == Len(task.history)
             new  == [task EXCEPT !.history[last].promises[key] = status]
         IN  /\ new \in TaskRecord
             /\ new.workflow = task.workflow
             /\ new.state = task.state
             /\ new.history # <<>>
             /\ Last(new) = Last(task)
             /\ SameEntries(task, new)
             /\ new.claimed = task.claimed
             /\ new.dependsOn = task.dependsOn
             /\ new.governor = task.governor
<1> DEFINE last     == Len(task.history)
           new      == [task EXCEPT !.history[last].promises[key] = status]
           promises == [task.history[last].promises EXCEPT ![key] = status]
           e        == [task.history[last] EXCEPT !.promises = promises]
<1>1. /\ task.history \in Seq(Entry)
      /\ last \in 1..Len(task.history)
      /\ last = Last(task)
      /\ task.history[last] \in Entry
      /\ key \in DOMAIN task.history[last].promises
  BY DEF TaskRecord, Last, CurrentEntry
<1>2. promises \in Promises
  <2> DEFINE old == task.history[last].promises
  <2>1. old \in Promises
    BY <1>1 DEF Entry
  <2>2. DOMAIN old \subseteq Key /\ old \in [DOMAIN old -> Status]
    BY <2>1, KnownKeys
  <2>3. key \in DOMAIN old
    BY <1>1
  <2> HIDE DEF old
  <2>4. [old EXCEPT ![key] = status] \in [DOMAIN old -> Status]
    BY <2>2
  <2> QED
    BY <2>2, <2>4, KnownKeys DEF old
<1>3. /\ e \in Entry
      /\ TransitionFacts(e) = TransitionFacts(task.history[last])
      /\ e.wake = task.history[last].wake
      /\ DOMAIN e.promises = DOMAIN task.history[last].promises
  BY <1>1, <1>2 DEF Entry, TransitionFacts
<1>4. new = [task EXCEPT !.history[last] = e]
  BY <1>1 DEF TaskRecord, Entry
<1> HIDE DEF new, e, last
<1>5. /\ new \in TaskRecord
      /\ new.workflow = task.workflow
      /\ new.state = task.state
      /\ new.history # <<>>
      /\ Last(new) = Last(task)
      /\ \A j \in 1..Last(task) :
           new.history[j] = IF j = last THEN e ELSE task.history[j]
      /\ new.claimed = task.claimed
      /\ new.dependsOn = task.dependsOn
      /\ new.governor = task.governor
  BY <1>1, <1>3, <1>4, EntryChanged, OneEntryChanged
<1>6. SameEntries(task, new)
  BY <1>1, <1>3, <1>5 DEF SameEntries
<1> QED
  BY <1>5, <1>6 DEF last, new

(* A gated transition of a task that agrees with the loaded one. *)
LEMMA GatedMakes ==
  ASSUME IInv, NEW r \in Req, NEW task \in TaskRecord, NEW dest,
         NEW trigger \in Verb \cup {"start", "set-state", "request", "cascade-drop"},
         request[r].pc = "load",
         request[r].op # "create_task",
         task.workflow = Loaded(r).workflow,
         task.state = Loaded(r).state,
         Last(task) = Last(Loaded(r)),
         SameEntries(Loaded(r), task),
         task.claimed = Loaded(r).claimed,
         task.dependsOn = Loaded(r).dependsOn,
         task.governor = Loaded(r).governor,
         task.history # <<>>,
         Gated(r, task, dest, trigger),
         request'[r].pc # "idle"
  PROVE  /\ row' = row
         /\ GoesOn(r)
         /\ request'[r].pc \in {"review", "validate"}
         /\ CopyOf(Loaded(r), request'[r].task, request'[r].moved)
         /\ request'[r].task.claimed = Loaded(r).claimed
         /\ request'[r].task.governor = Loaded(r).governor
         /\ request'[r].pc = "review" => request'[r].task.state = "REVIEW"
<1>1. MayApply(task, dest) /\ Transit(r, task, dest, trigger)
  <2>1. ~Fail(r)
    BY DEF Fail, Idle, IInv, TypeOK
  <2> QED
    BY <2>1 DEF Gated
<1>2. /\ task.workflow \in WorkflowName
      /\ task.state \in Label(task.workflow)
      /\ Last(Loaded(r)) \in Nat \ {0}
  BY LoadedRow
<1>3. dest \in Label(task.workflow)
  BY <1>1, <1>2, EdgesStayInside DEF MayApply
<1> DEFINE new == request'[r].task
<1>4. /\ row' = row /\ arg' = arg
      /\ request'[r].pc \in {"review", "validate"}
      /\ request'[r].moved = TRUE
      /\ request'[r].op = request[r].op
      /\ request'[r].stack = request[r].stack
      /\ Last(new) = Last(task) + 1
      /\ \A i \in 1..Last(task) : new.history[i] = task.history[i]
      /\ new.history[Last(new)].from = task.state
      /\ new.history[Last(new)].to = dest
      /\ new.state = dest /\ (request'[r].pc = "review" => dest = "REVIEW")
      /\ new.claimed = task.claimed
      /\ new.dependsOn = task.dependsOn
      /\ new.governor = task.governor
  <2>1. UnderWay(r, task, dest, trigger)
    BY <1>1, <1>2, <1>3, TransitMakes
  <2> QED
    BY <2>1 DEF UnderWay
<1>5. dest # Dropped => Outstanding(new.history[Last(task)].promises) = {}
  <2>1. dest # Dropped => Outstanding(task.history[Last(task)].promises) = {}
    BY <1>1 DEF MayApply, CurrentEntry, Last
  <2>2. Last(task) \in 1..Last(task)
    BY <1>2
  <2> QED
    BY <1>4, <2>1, <2>2
<1> HIDE DEF new
<1>6. SameEntries(Loaded(r), new)
  BY <1>2, <1>4 DEF SameEntries
<1>7. \A i \in 1..Last(Loaded(r)) :
        /\ TransitionFacts(new.history[i]) = TransitionFacts(Loaded(r).history[i])
        /\ new.history[i].wake = Loaded(r).history[i].wake
  BY <1>6 DEF SameEntries
<1> QED
  BY <1>2, <1>4, <1>5, <1>6, <1>7 DEF CopyOf, GoesOn, new

(* What a handler has made of the task it loads when it goes on to save it,   *)
(* or holds it over the await of a claim or of an edit of the dependencies.   *)
Made(r) ==
  LET old == Loaded(r)  new == request'[r].task  pc == request'[r].pc
  IN  /\ row' = row
      /\ GoesOn(r)
      /\ CopyOf(old, new, request'[r].moved)
      /\ request[r].op # "release" => new.claimed = old.claimed
      /\ request[r].op # "set_governor" => new.governor = old.governor
      /\ pc # "update"
      /\ pc = "review" => new.state = "REVIEW"
      /\ pc \in {"ready", "acyclic"} => new = old
      /\ pc = "ready"   => old.claimed \in {Nil, arg[r]} /\ ~old.launchPaused
      /\ pc = "acyclic" => arg[r] \subseteq DOMAIN row
      /\ pc \in {"review", "validate"} => request[r].op \in TaskLockedOp \cup UnlockedOp

(* Going on to save a copy that keeps the entries makes it one. *)
LEMMA SaveMakes ==
  ASSUME IInv, NEW r \in Req, NEW task,
         request[r].pc = "load",
         request[r].op \in TaskLockedOp \cup UnlockedOp,
         Last(task) = Last(Loaded(r)),
         \A i \in 1..Last(Loaded(r)) :
           /\ TransitionFacts(task.history[i]) = TransitionFacts(Loaded(r).history[i])
           /\ Loaded(r).history[i].wake # "pending"
                => task.history[i].wake = Loaded(r).history[i].wake,
         request[r].op # "release" => task.claimed = Loaded(r).claimed,
         request[r].op # "set_governor" => task.governor = Loaded(r).governor,
         task.dependsOn = Loaded(r).dependsOn,
         Save(r, task)
  PROVE  Made(r)
<1>1. /\ request \in [Req -> RequestRecord]
      /\ request[r].moved = FALSE
  BY DEF IInv, TypeOK, StepOK, RequestRecord
<1>2. /\ request'[r].pc = "validate"
      /\ request'[r].task = task
      /\ request'[r].op = request[r].op
      /\ request'[r].stack = request[r].stack
      /\ request'[r].moved = FALSE
  BY <1>1 DEF Save, RequestRecord
<1>3. row' = row /\ arg' = arg
  BY DEF Save
<1>4. Last(Loaded(r)) \in Nat
  <2>1. request[r].op # "create_task"
    BY DEF TaskLockedOp, TransitionOp, UnlockedOp
  <2> QED
    BY <2>1, LoadedRow
<1> QED
  BY <1>2, <1>3, <1>4 DEF Made, GoesOn, CopyOf

(* Resolving a promise, and the advance it may trigger. *)
LEMMA ResolveMakes ==
  ASSUME IInv, NEW r \in Req, ResolveResponsibility(r), request'[r].pc # "idle"
  PROVE  Made(r)
<1> DEFINE task     == Loaded(r)
           key      == arg[r].key
           last     == Len(task.history)
           resolved == [task EXCEPT !.history[last].promises[key] = arg[r].status]
           advances == Outstanding(CurrentEntry(resolved).promises) = {} /\ AdvancesItself(task)
<1>1. /\ request[r].pc = "load" /\ request[r].op = "resolve_responsibility"
      /\ request[r].op \in TaskLockedOp
  BY DEF ResolveResponsibility, At, TaskLockedOp, TransitionOp
<1>2. ~Fail(r)
  BY DEF Fail, Idle, IInv, TypeOK
<1>3. /\ key \in DOMAIN CurrentEntry(task).promises
      /\ IF advances
         THEN Gated(r, resolved, ResolveOperation(task.workflow, task.state, "advance"), "advance")
         ELSE Save(r, resolved)
  BY <1>2 DEF ResolveResponsibility
<1>4. /\ task \in TaskRecord
      /\ Last(task) \in Nat \ {0}
      /\ arg[r].status \in Status
  <2>1. task \in TaskRecord /\ Last(task) \in Nat \ {0} /\ ValidArg(request[r].op, arg[r])
    BY <1>1, LoadedRow
  <2> QED
    BY <1>1, <2>1 DEF ValidArg, Status
<1>5. task = Loaded(r)
  OBVIOUS
<1> HIDE DEF task, advances
<1>6. /\ resolved \in TaskRecord
      /\ resolved.workflow = task.workflow
      /\ resolved.state = task.state
      /\ resolved.history # <<>>
      /\ Last(resolved) = Last(task)
      /\ SameEntries(task, resolved)
      /\ resolved.claimed = task.claimed
      /\ resolved.dependsOn = task.dependsOn
      /\ resolved.governor = task.governor
  BY <1>3, <1>4, PromiseResolved
<1> HIDE DEF resolved
<1>7. CASE advances
  <2>1. /\ row' = row
        /\ GoesOn(r)
        /\ request'[r].pc \in {"review", "validate"}
        /\ CopyOf(Loaded(r), request'[r].task, request'[r].moved)
        /\ request'[r].task.claimed = Loaded(r).claimed
        /\ request'[r].task.governor = Loaded(r).governor
        /\ request'[r].pc = "review" => request'[r].task.state = "REVIEW"
    <3>1. "advance" \in Verb
      BY DEF Verb
    <3>2. Gated(r, resolved, ResolveOperation(task.workflow, task.state, "advance"), "advance")
      BY <1>3, <1>7
    <3> QED
      BY <1>1, <1>5, <1>6, <3>1, <3>2, GatedMakes
  <2>2. CopyOf(Loaded(r), request'[r].task, request'[r].moved)
          => request'[r].task.dependsOn = Loaded(r).dependsOn
    BY DEF CopyOf
  <2> QED
    BY <1>1, <2>1, <2>2 DEF Made
<1>8. CASE ~advances
  BY <1>1, <1>3, <1>5, <1>6, <1>8, SaveMakes DEF SameEntries
<1> QED
  BY <1>7, <1>8

(* The transitions of an operation, of a request and of a free move. *)
LEMMA MoveMakes ==
  ASSUME IInv, NEW r \in Req,
         ApplyOperation(r) \/ RequestTransition(r) \/ SetState(r),
         request'[r].pc # "idle"
  PROVE  Made(r)
<1> DEFINE task == Loaded(r)
<1>1. /\ request[r].pc = "load"
      /\ request[r].op \in {"apply_operation", "request_transition", "set_state"}
      /\ request[r].op \in TaskLockedOp
  BY DEF ApplyOperation, RequestTransition, SetState, At, TaskLockedOp, TransitionOp
<1>2. ~Fail(r)
  BY DEF Fail, Idle, IInv, TypeOK
<1>3. /\ task \in TaskRecord
      /\ task.workflow \in WorkflowName
      /\ task.state \in Label(task.workflow)
      /\ task.history # <<>>
      /\ Last(task) \in Nat \ {0}
  BY <1>1, LoadedRow
<1>4. task = Loaded(r)
  OBVIOUS
<1> HIDE DEF task
<1>5. ASSUME NEW to, NEW trigger \in Verb \cup {"start", "set-state", "request", "cascade-drop"},
             Gated(r, task, to, trigger)
      PROVE  Made(r)
  <2>1. /\ row' = row
        /\ GoesOn(r)
        /\ request'[r].pc \in {"review", "validate"}
        /\ CopyOf(Loaded(r), request'[r].task, request'[r].moved)
        /\ request'[r].task.claimed = Loaded(r).claimed
        /\ request'[r].task.governor = Loaded(r).governor
        /\ request'[r].pc = "review" => request'[r].task.state = "REVIEW"
    <3>1. SameEntries(task, task)
      BY DEF SameEntries
    <3> QED
      BY <1>1, <1>3, <1>4, <1>5, <3>1, GatedMakes
  <2> QED
    BY <1>1, <2>1 DEF Made
<1>6. CASE ApplyOperation(r)
  <2>1. PICK verb : /\ verb \in Verbs(task.workflow, task.state)
                    /\ Gated(r, task, ResolveOperation(task.workflow, task.state, verb), verb)
    BY <1>2, <1>6 DEF ApplyOperation, task
  <2>2. verb \in Verb
    BY <1>3, <2>1, VerbsKnown
  <2> QED
    BY <1>5, <2>1, <2>2
<1>7. CASE RequestTransition(r)
  BY <1>5, <1>7 DEF RequestTransition, task
<1>8. CASE SetState(r)
  <2>1. arg[r] \in Label(task.workflow) /\ Transit(r, task, arg[r], "set-state")
    BY <1>2, <1>8 DEF SetState, MayForce, task
  <2>2. UnderWay(r, task, arg[r], "set-state")
    BY <1>3, <2>1, TransitMakes
  <2>3. CopyOf(task, request'[r].task, request'[r].moved)
    BY <1>3, <2>2 DEF UnderWay, CopyOf, SameEntries
  <2> QED
    BY <1>1, <1>4, <2>2, <2>3 DEF Made, UnderWay, GoesOn
<1> QED
  BY <1>6, <1>7, <1>8

(* The handlers that save the task with some columns changed, and the one     *)
(* that settles a wake.                                                       *)
LEMMA ColumnsMake ==
  ASSUME IInv, NEW r \in Req,
         \/ Release(r) \/ SetTurn(r) \/ SetBlocked(r) \/ SetAttention(r) \/ SetFact(r)
         \/ SetGovernor(r) \/ RecordStageEntryWake(r),
         request'[r].pc # "idle"
  PROVE  Made(r)
<1> DEFINE task == Loaded(r)
<1>1. /\ request[r].pc = "load"
      /\ request[r].op \in UnlockedOp \cup {"record_stage_entry_wake"}
      /\ ~Release(r) => request[r].op # "release"
  BY DEF Release, SetTurn, SetBlocked, SetAttention, SetFact, SetGovernor, RecordStageEntryWake,
         At, UnlockedOp
<1>2. ~Fail(r)
  BY DEF Fail, Idle, IInv, TypeOK
<1>3. request[r].op # "create_task" /\ request[r].op \in TaskLockedOp \cup UnlockedOp
  BY <1>1 DEF UnlockedOp, TaskLockedOp
<1>4. task \in TaskRecord /\ Last(task) \in Nat \ {0} /\ ValidArg(request[r].op, arg[r])
  BY <1>3, <1>1, LoadedRow
<1>5. task = Loaded(r)
  OBVIOUS
<1> HIDE DEF task
<1>6. ASSUME NEW new, Save(r, new), new.history = task.history, new.dependsOn = task.dependsOn,
             request[r].op # "release" => new.claimed = task.claimed,
             request[r].op # "set_governor" => new.governor = task.governor
      PROVE  Made(r)
  BY <1>1, <1>3, <1>5, <1>6, SaveMakes DEF Last
<1>7. CASE Release(r) \/ SetTurn(r)
  <2>1. \/ Release(r) /\ Save(r, [task EXCEPT !.claimed = Nil])
        \/ ~Release(r) /\ Save(r, [task EXCEPT !.turn = "agent", !.blocked = FALSE,
                                               !.attention = FALSE])
        \/ ~Release(r) /\ Save(r, [task EXCEPT !.turn = "user"])
    BY <1>7 DEF Release, SetTurn, task
  <2>2. Release(r) => request[r].op = "release"
    BY DEF Release, At
  <2> QED
    BY <1>1, <1>4, <1>6, <2>1, <2>2 DEF TaskRecord
<1>8. CASE SetBlocked(r) \/ SetAttention(r) \/ SetFact(r) \/ SetGovernor(r)
  <2>1. \/ Save(r, [task EXCEPT !.blocked = arg[r]])
        \/ Save(r, [task EXCEPT !.attention = arg[r]])
        \/ Save(r, [task EXCEPT !.fact = arg[r]])
        \/ /\ Save(r, [task EXCEPT !.governor = arg[r]])
           /\ request[r].op = "set_governor"
    BY <1>2, <1>8 DEF SetBlocked, SetAttention, SetFact, SetGovernor, At, task
  <2> QED
    BY <1>4, <1>6, <2>1 DEF TaskRecord
<1>9. CASE RecordStageEntryWake(r)
  <2> DEFINE i   == arg[r].index
             e   == [task.history[i] EXCEPT !.wake = arg[r].status]
             new == [task EXCEPT !.history[i] = e]
  <2>1. /\ i \in DOMAIN task.history /\ task.history[i].wake = "pending"
        /\ Save(r, [task EXCEPT !.history[i].wake = arg[r].status])
        /\ request[r].op = "record_stage_entry_wake"
    BY <1>2, <1>9 DEF RecordStageEntryWake, At, task
  <2>2. arg[r].status \in {"delivered", "skipped"}
    BY <1>4, <2>1 DEF ValidArg
  <2>3. i \in 1..Last(task) /\ task.history[i] \in Entry
    BY <1>4, <2>1 DEF TaskRecord, Last
  <2>4. e \in Entry /\ TransitionFacts(e) = TransitionFacts(task.history[i])
    BY <2>2, <2>3 DEF Entry, WakeStatus, TransitionFacts
  <2>5. Save(r, new)
    BY <2>1, <2>3, <1>4 DEF TaskRecord
  <2> HIDE DEF e, new
  <2>6. /\ Last(new) = Last(task)
        /\ \A j \in 1..Last(task) : new.history[j] = IF j = i THEN e ELSE task.history[j]
        /\ new.claimed = task.claimed
        /\ new.dependsOn = task.dependsOn
        /\ new.governor = task.governor
    BY <1>4, <2>3, <2>4, OneEntryChanged DEF new
  <2>7. \A j \in 1..Last(task) :
          /\ TransitionFacts(new.history[j]) = TransitionFacts(task.history[j])
          /\ task.history[j].wake # "pending" => new.history[j].wake = task.history[j].wake
    BY <2>1, <2>4, <2>6
  <2> QED
    BY <1>1, <1>3, <1>5, <2>5, <2>6, <2>7, SaveMakes
<1> QED
  BY <1>7, <1>8, <1>9

(* Every handler that works on a task makes its copy this way. *)
LEMMA CopyMade ==
  ASSUME IInv, NEW r \in Req, Handler(r), request[r].pc = "load", request'[r].pc \in Saving
  PROVE  Made(r)
<1>1. request \in [Req -> RequestRecord] /\ request'[r].pc # "idle"
  BY DEF IInv, TypeOK, Saving
<1>2. ~Fail(r)
  BY <1>1 DEF Fail, Idle
<1>3. CASE Claim(r)
  <2>1. /\ request' = [request EXCEPT ![r].pc = "ready", ![r].task = Loaded(r)]
        /\ UNCHANGED <<row, arg, taskLock, graphLock, calls>>
        /\ Loaded(r).claimed \in {Nil, arg[r]} /\ ~Loaded(r).launchPaused
        /\ request[r].op = "claim"
    BY <1>2, <1>3 DEF Claim, At
  <2>2. /\ request'[r].pc = "ready"
        /\ request'[r].task = Loaded(r)
        /\ request'[r].op = request[r].op
        /\ request'[r].stack = request[r].stack
        /\ request'[r].moved = FALSE
    BY <1>1, <2>1 DEF RequestRecord, IInv, StepOK
  <2>3. CopyOf(Loaded(r), Loaded(r), FALSE)
    <3>1. Last(Loaded(r)) \in Nat
      BY <2>1, LoadedRow
    <3> QED
      BY <3>1 DEF CopyOf
  <2>4. row' = row /\ GoesOn(r)
    BY <2>1, <2>2 DEF GoesOn
  <2> QED
    BY <2>1, <2>2, <2>3, <2>4 DEF Made
<1>4. CASE SetDependencies(r)
  <2>1. /\ request' = [request EXCEPT ![r].pc = "acyclic", ![r].task = Loaded(r)]
        /\ UNCHANGED <<row, arg, taskLock, graphLock, calls>>
        /\ arg[r] \subseteq DOMAIN row
        /\ request[r].op = "set_dependencies"
    BY <1>2, <1>4 DEF SetDependencies, At
  <2>2. /\ request'[r].pc = "acyclic"
        /\ request'[r].task = Loaded(r)
        /\ request'[r].op = request[r].op
        /\ request'[r].stack = request[r].stack
        /\ request'[r].moved = FALSE
    BY <1>1, <2>1 DEF RequestRecord, IInv, StepOK
  <2>3. CopyOf(Loaded(r), Loaded(r), FALSE)
    <3>1. Last(Loaded(r)) \in Nat
      BY <2>1, LoadedRow
    <3> QED
      BY <3>1 DEF CopyOf
  <2>4. row' = row /\ GoesOn(r)
    BY <2>1, <2>2 DEF GoesOn
  <2> QED
    BY <2>1, <2>2, <2>3, <2>4 DEF Made
<1>5. ~CreateTask(r) /\ ~PauseLaunch(r) /\ ~RetryTask(r)
  <2>1. CreateTask(r) => request' = [request EXCEPT ![r] = Idle]
    BY <1>2 DEF CreateTask
  <2>2. PauseLaunch(r) \/ RetryTask(r) => request' = [request EXCEPT ![r].pc = "target"]
    BY <1>2 DEF PauseLaunch, RetryTask
  <2>3. CreateTask(r) => request'[r].pc = "idle"
    BY <1>1, <2>1 DEF Idle
  <2>4. PauseLaunch(r) \/ RetryTask(r) => request'[r].pc = "target"
    BY <1>1, <2>2 DEF RequestRecord
  <2> QED
    BY <2>3, <2>4 DEF Saving
<1>6. ~CreateReviewTask(r) /\ ~ClaimIfReady(r) /\ ~ValidateDependencies(r) /\ ~SetLaunchPause(r)
      /\ ~Validate(r) /\ ~Update(r) /\ ~ListGoverned(r) /\ ~DropGoverned(r) /\ ~FinishCascade(r)
  BY DEF CreateReviewTask, ClaimIfReady, ValidateDependencies, SetLaunchPause, Validate, Update,
         ListGoverned, DropGoverned, FinishCascade
<1> QED
  BY <1>1, <1>3, <1>4, <1>5, <1>6, ResolveMakes, MoveMakes, ColumnsMake DEF Handler

(* Working on, a handler changes its copy no more, but for the block that a   *)
(* created review task means, the claim it decides on and the dependencies it *)
(* validated.                                                                 *)
WorksOn(r) ==
  LET task == request[r].task  new == request'[r].task  pc == request[r].pc
  IN  /\ GoesOn(r)
      /\ request'[r].moved = request[r].moved
      /\ new.history = task.history
      /\ new.governor = task.governor /\ new.state = task.state
      /\ IF pc = "ready" THEN new.claimed = arg[r] ELSE new.claimed = task.claimed
      /\ IF pc = "acyclic" THEN new.dependsOn = arg[r] ELSE new.dependsOn = task.dependsOn
      /\ pc = "review" \/ row' = row
      /\ pc \in {"ready", "acyclic", "review"} <=> request'[r].pc = "validate"
      /\ pc = "validate" <=> request'[r].pc = "update"
      /\ request'[r].pc \in {"validate", "update"}
      /\ pc = "ready" =>
           ~(task.claimed = Nil /\ (Terminal(task) \/ DependenciesBlocking(task)))
      /\ pc = "acyclic" =>
           ~CycleFrom([DependencyGraph EXCEPT ![Target(r)] = arg[r]], Target(r))

(* This is all a handler does between the load and the write. *)
LEMMA CopyKept ==
  ASSUME IInv, NEW r \in Req, Handler(r),
         request[r].pc \in Saving, request'[r].pc \in Saving
  PROVE  WorksOn(r)
<1>1. /\ request \in [Req -> RequestRecord]
      /\ request'[r].pc # "idle"
      /\ request[r].task \in TaskRecord
      /\ StepOK(r)
  BY DEF IInv, TypeOK, Saving, CopyOK
<1>2. ~Fail(r)
  BY <1>1 DEF Fail, Idle
<1>3. CASE CreateReviewTask(r)
  <2>1. /\ request[r].pc = "review"
        /\ arg' = arg
        /\ \/ request' = [request EXCEPT ![r].pc = "validate", ![r].task.blocked = TRUE]
           \/ request' = [request EXCEPT ![r].pc = "validate"]
    BY <1>3 DEF CreateReviewTask
  <2>2. /\ request'[r].pc = "validate"
        /\ request'[r].op = request[r].op
        /\ request'[r].stack = request[r].stack
        /\ request'[r].moved = request[r].moved
        /\ \/ request'[r].task = [request[r].task EXCEPT !.blocked = TRUE]
           \/ request'[r].task = request[r].task
    BY <1>1, <2>1 DEF RequestRecord
  <2>3. /\ request'[r].task.history = request[r].task.history
        /\ request'[r].task.claimed = request[r].task.claimed
        /\ request'[r].task.dependsOn = request[r].task.dependsOn
        /\ request'[r].task.governor = request[r].task.governor
        /\ request'[r].task.state = request[r].task.state
    BY <1>1, <2>2 DEF TaskRecord
  <2> QED
    BY <2>1, <2>2, <2>3 DEF WorksOn, GoesOn
<1>4. CASE ClaimIfReady(r)
  <2>1. /\ request[r].pc = "ready"
        /\ Save(r, [request[r].task EXCEPT !.claimed = arg[r]])
        /\ LET task == request[r].task
           IN  ~(task.claimed = Nil /\ (Terminal(task) \/ DependenciesBlocking(task)))
    BY <1>2, <1>4 DEF ClaimIfReady
  <2>2. /\ request'[r].pc = "validate"
        /\ request'[r].op = request[r].op
        /\ request'[r].stack = request[r].stack
        /\ request'[r].moved = request[r].moved
        /\ request'[r].task = [request[r].task EXCEPT !.claimed = arg[r]]
        /\ arg' = arg /\ row' = row
    BY <1>1, <2>1 DEF RequestRecord, Save
  <2>3. /\ request'[r].task.history = request[r].task.history
        /\ request'[r].task.claimed = arg[r]
        /\ request'[r].task.dependsOn = request[r].task.dependsOn
        /\ request'[r].task.governor = request[r].task.governor
        /\ request'[r].task.state = request[r].task.state
    BY <1>1, <2>2 DEF TaskRecord
  <2> QED
    BY <2>1, <2>2, <2>3 DEF WorksOn, GoesOn
<1>5. CASE ValidateDependencies(r)
  <2>1. /\ request[r].pc = "acyclic"
        /\ Save(r, [request[r].task EXCEPT !.dependsOn = arg[r]])
        /\ ~CycleFrom([DependencyGraph EXCEPT ![Target(r)] = arg[r]], Target(r))
    BY <1>2, <1>5 DEF ValidateDependencies
  <2>2. /\ request'[r].pc = "validate"
        /\ request'[r].op = request[r].op
        /\ request'[r].stack = request[r].stack
        /\ request'[r].moved = request[r].moved
        /\ request'[r].task = [request[r].task EXCEPT !.dependsOn = arg[r]]
        /\ arg' = arg /\ row' = row
    BY <1>1, <2>1 DEF RequestRecord, Save
  <2>3. /\ request'[r].task.history = request[r].task.history
        /\ request'[r].task.claimed = request[r].task.claimed
        /\ request'[r].task.dependsOn = arg[r]
        /\ request'[r].task.governor = request[r].task.governor
        /\ request'[r].task.state = request[r].task.state
    BY <1>1, <2>2 DEF TaskRecord
  <2> QED
    BY <2>1, <2>2, <2>3 DEF WorksOn, GoesOn
<1>6. CASE Validate(r)
  <2>1. /\ request[r].pc = "validate"
        /\ request' = [request EXCEPT ![r].pc = "update", ![r].stored = Len(Loaded(r).history)]
        /\ UNCHANGED <<row, arg, taskLock, graphLock, calls>>
    BY <1>2, <1>6 DEF Validate
  <2>2. /\ request'[r].pc = "update"
        /\ request'[r].op = request[r].op
        /\ request'[r].stack = request[r].stack
        /\ request'[r].moved = request[r].moved
        /\ request'[r].task = request[r].task
    BY <1>1, <2>1 DEF RequestRecord
  <2> QED
    BY <2>1, <2>2 DEF WorksOn, GoesOn
<1>7. ~Update(r)
  <2> SUFFICES ASSUME Update(r)
               PROVE  FALSE
    OBVIOUS
  <2>1. CASE ReturnFrom(r)
    BY <1>1, <2>1 DEF ReturnFrom, Idle, Saving
  <2>2. CASE ~ReturnFrom(r)
    <3>1. request' = [request EXCEPT ![r].pc = "list", ![r].task = Nil]
      BY <1>2, <2>2 DEF Update
    <3> QED
      BY <1>1, <3>1 DEF RequestRecord, Saving
  <2> QED
    BY <2>1, <2>2
<1> QED
  BY <1>3, <1>4, <1>5, <1>6, <1>7
     DEF Handler, ApplyOperation, RequestTransition, SetState, ResolveResponsibility,
         RecordStageEntryWake, Claim, SetDependencies, CreateTask, PauseLaunch, RetryTask,
         SetLaunchPause, Release, SetTurn, SetBlocked, SetAttention, SetFact, SetGovernor,
         ListGoverned, DropGoverned, FinishCascade, At, Saving

(* A handler's step leaves the other requests and their arguments alone. *)
LEMMA OthersStay ==
  ASSUME TypeOK, NEW r \in Req, Handler(r), NEW q \in Req \ {r}
  PROVE  request'[q] = request[q] /\ arg'[q] = arg[q]
<1>1. request'[q] = request[q]
  BY OperationStays
<1>2. arg = [x \in Req |-> arg[x]]
  BY DEF TypeOK
<1>3. Fail(r) \/ ReturnFrom(r) => arg'[q] = arg[q]
  BY <1>2 DEF Fail, ReturnFrom
<1>4. ASSUME NEW task
      PROVE  /\ Save(r, task) => arg' = arg
             /\ \A to, trigger : Transit(r, task, to, trigger) => arg' = arg
  BY DEF Save, Transit
<1>5. arg'[q] = arg[q]
  BY <1>2, <1>3, <1>4
     DEF Handler, ApplyOperation, RequestTransition, SetState, ResolveResponsibility, Gated,
         CreateReviewTask, RecordStageEntryWake, Claim, ClaimIfReady, SetDependencies,
         ValidateDependencies, CreateTask, PauseLaunch, RetryTask, SetLaunchPause, Release,
         SetTurn, SetBlocked, SetAttention, SetFact, SetGovernor, Validate, Update,
         ListGoverned, DropGoverned, FinishCascade
<1> QED
  BY <1>1, <1>5

(* Where a handler at work on a copy comes from. *)
LEMMA CopyStep ==
  ASSUME IInv, [Next]_vars, NEW q \in Req, request'[q].pc \in Saving
  PROVE  \/ request'[q] = request[q] /\ arg'[q] = arg[q]
         \/ Handler(q) /\ request[q].pc = "load" /\ Made(q)
         \/ Handler(q) /\ request[q].pc \in Saving /\ WorksOn(q)
<1>1. request \in [Req -> RequestRecord] /\ arg = [r \in Req |-> arg[r]]
  BY DEF IInv, TypeOK
<1>2. CASE UNCHANGED vars
  BY <1>2 DEF vars
<1>3. CASE Crash
  BY <1>3 DEF Crash, Idle, Saving
<1>4. ASSUME NEW r \in Req, Begin(r) \/ AcquireTaskLock(r) \/ AcquireGraphLock(r)
      PROVE  request'[q] = request[q] /\ arg'[q] = arg[q]
  <2>1. CASE q = r
    <3>1. CASE Begin(r)
      <4>1. PICK c \in Call :
              request' = [request EXCEPT ![r] =
                [Idle EXCEPT !.pc = FirstStep(c.op), !.op = c.op, !.stack = <<Frame(c.task)>>]]
        BY <3>1 DEF Begin
      <4>2. request'[r].pc = FirstStep(c.op)
        BY <1>1, <4>1 DEF Idle
      <4> QED
        BY <2>1, <4>2 DEF FirstStep, Saving
    <3>2. CASE AcquireTaskLock(r)
      <4>1. request' = [request EXCEPT ![r].pc =
              IF request[r].op \in GraphLockedOp THEN "waitGraph" ELSE "load"]
        BY <3>2 DEF AcquireTaskLock
      <4>2. request'[r].pc = IF request[r].op \in GraphLockedOp THEN "waitGraph" ELSE "load"
        BY <1>1, <4>1 DEF RequestRecord
      <4> QED
        BY <2>1, <4>2 DEF Saving
    <3>3. CASE AcquireGraphLock(r)
      <4>1. request'[r].pc = "load"
        BY <1>1, <3>3 DEF AcquireGraphLock, RequestRecord
      <4> QED
        BY <2>1, <4>1 DEF Saving
    <3> QED
      BY <1>4, <3>1, <3>2, <3>3
  <2>2. CASE q # r
    BY <1>1, <1>4, <2>2 DEF Begin, AcquireTaskLock, AcquireGraphLock
  <2> QED
    BY <2>1, <2>2
<1>5. ASSUME NEW r \in Req, Handler(r), r # q
      PROVE  request'[q] = request[q] /\ arg'[q] = arg[q]
  BY <1>5, OthersStay DEF IInv
<1>6. ASSUME Handler(q)
      PROVE  request[q].pc = "load" \/ request[q].pc \in Saving
  <2>1. request'[q].pc \notin {"target", "list", "cascade", "idle"}
    BY DEF Saving
  <2>2. ~ReturnFrom(q) /\ ~Fail(q)
    <3>1. Fail(q) => request'[q].pc = "idle"
      BY <1>1 DEF Fail, Idle
    <3>2. ReturnFrom(q) => request'[q].pc \in {"idle", "cascade"}
      BY <1>1 DEF ReturnFrom, Idle
    <3> QED
      BY <2>1, <3>1, <3>2
  <2>3. ~SetLaunchPause(q) /\ ~ListGoverned(q) /\ ~DropGoverned(q) /\ ~FinishCascade(q)
    <3>1. SetLaunchPause(q) => request'[q].pc = "idle"
      BY <1>1 DEF SetLaunchPause, Idle
    <3>2. ListGoverned(q) => request'[q].pc = "cascade"
      BY <1>1 DEF ListGoverned, RequestRecord
    <3>3. DropGoverned(q) => request'[q].pc = "waitTask"
      BY <1>1 DEF DropGoverned, Idle
    <3> QED
      BY <2>1, <2>2, <3>1, <3>2, <3>3 DEF FinishCascade, Saving
  <2> QED
    BY <1>6, <2>3
       DEF Handler, ApplyOperation, RequestTransition, SetState, ResolveResponsibility,
           CreateReviewTask, RecordStageEntryWake, Claim, ClaimIfReady, SetDependencies,
           ValidateDependencies, CreateTask, PauseLaunch, RetryTask, Release,
           SetTurn, SetBlocked, SetAttention, SetFact, SetGovernor, Validate, Update, At, Saving
<1> QED
  BY <1>2, <1>3, <1>4, <1>5, <1>6, CopyMade, CopyKept DEF Next

-----------------------------------------------------------------------------
(* The gate *)

GatesOK == \A r \in Req : GateOK(r)

(* What was let through the gate stays so until it is saved. *)
LEMMA GatesKept ==
  ASSUME IInv, GatesOK, [Next]_vars
  PROVE  GatesOK'
<1> SUFFICES ASSUME NEW q \in Req, request'[q].pc \in Saving, request'[q].moved
             PROVE  LET task == request'[q].task  n == Last(task)
                    IN  (task.history[n].trigger # "set-state" /\ task.history[n].to # Dropped)
                          => Outstanding(task.history[n - 1].promises) = {}
  BY DEF GatesOK, GateOK
<1>1. CASE request'[q] = request[q]
  BY <1>1 DEF GatesOK, GateOK
<1>2. CASE Handler(q) /\ request[q].pc = "load" /\ Made(q)
  <2>1. CopyOf(Loaded(q), request'[q].task, TRUE)
    <3>1. request'[q].moved = TRUE
      <4>1. IInv'
        BY StepKeeps
      <4> QED
        BY <4>1 DEF IInv, TypeOK, RequestRecord
    <3> QED
      BY <1>2, <3>1 DEF Made
  <2>2. Last(Loaded(q)) \in Nat
    <3>1. StepOK(q)
      BY DEF IInv
    <3>2. request[q].op # "create_task"
      <4>1. request'[q].op = request[q].op
        BY <1>2 DEF Made, GoesOn
      <4>2. StepOK(q)'
        BY StepKeeps DEF IInv
      <4> QED
        BY <4>1, <4>2 DEF StepOK, TransitionOp
    <3> QED
      BY <1>2, <3>2, LoadedRow
  <2>3. Last(request'[q].task) - 1 = Last(Loaded(q))
    BY <2>1, <2>2 DEF CopyOf
  <2> QED
    BY <2>1, <2>3 DEF CopyOf
<1>3. CASE Handler(q) /\ request[q].pc \in Saving /\ WorksOn(q)
  BY <1>3 DEF GatesOK, GateOK, WorksOn, Last
<1> QED
  BY <1>1, <1>2, <1>3, CopyStep

(* At the write, the entry that is left has the promises of the copy. *)
LEMMA GateAtWrite ==
  ASSUME IInv, GatesOK, [Next]_vars,
         NEW id \in DOMAIN row,
         Last(row'[id]) > Last(row[id]),
         row'[id].history[Last(row[id]) + 1].trigger # "set-state",
         row'[id].history[Last(row[id]) + 1].to # Dropped
  PROVE  Outstanding(row'[id].history[Last(row[id])].promises) = {}
<1>1. Last(row[id]) \in Nat \ {0}
  BY RowFacts DEF IInv
<1>2. PICK r \in Req : \/ Update(r) /\ Written(r)
                       \/ Created(r)
                       \/ SetLaunchPause(r)
  <2>1. row' # row
    BY <1>1
  <2> QED
    BY <2>1, RowStep
<1>3. Written(r)
  <2>1. Created(r) => row'[id] = row[id]
    BY CreatedRow
  <2>2. SetLaunchPause(r) => row'[id] = row[id] \/ row'[id].history = row[id].history
    BY PausedRow
  <2> QED
    BY <1>1, <1>2, <2>1, <2>2 DEF Last
<1> DEFINE task == request[r].task
           n    == request[r].stored
           old  == row[Target(r)]
           new  == row'[Target(r)]
<1>4. /\ Last(new) = Last(old) + Appended(r)
      /\ Last(task) = n + Appended(r)
      /\ Appended(r) \in {0, 1}
      /\ request[r].moved => /\ n = Last(old)
                             /\ new.history[Last(new)] = task.history[Last(task)]
      /\ \A i \in 1..Last(old) :
           new.history[i].promises
             = IF i = n THEN task.history[i].promises ELSE old.history[i].promises
      /\ \A x \in DOMAIN row \ {Target(r)} : row'[x] = row[x]
  BY <1>3, WrittenRow
<1>5. id = Target(r)
  BY <1>1, <1>4
<1> HIDE DEF task, n
<1>6. request[r].moved /\ Appended(r) = 1
  BY <1>1, <1>4, <1>5 DEF Appended
<1>7. /\ n = Last(old)
      /\ Last(task) = n + 1
      /\ new.history[n + 1] = task.history[n + 1]
      /\ new.history[n].promises = task.history[n].promises
  BY <1>1, <1>4, <1>5, <1>6
<1>8. GateOK(r) /\ request[r].pc \in Saving
  BY <1>3 DEF GatesOK, Written, Saving
<1>9. (n + 1) - 1 = n
  BY <1>1, <1>5, <1>7
<1> QED
  BY <1>5, <1>6, <1>7, <1>8, <1>9 DEF GateOK, task

(* A gated transition is recorded only with every promise of the state it     *)
(* leaves resolved, whichever other handlers wrote the row since it was       *)
(* loaded (apply_transition's check against save_task's write).               *)
THEOREM GateHolds == Spec => GateHoldsAtAppend
<1>1. Init => IInv /\ GatesOK
  <2>1. Init => GatesOK
    BY DEF Init, GatesOK, GateOK, Idle, Saving
  <2> QED
    BY <2>1, InitEstablishes
<1>2. IInv /\ GatesOK /\ [Next]_vars => (IInv /\ GatesOK)'
  BY StepKeeps, GatesKept
<1>3. IInv /\ GatesOK /\ [Next]_vars
        => [\A id \in DOMAIN row :
              LET n == Last(row[id]) IN
              (/\ Last(row'[id]) > n
               /\ row'[id].history[n + 1].trigger # "set-state"
               /\ row'[id].history[n + 1].to # Dropped)
                => Outstanding(row'[id].history[n].promises) = {}]_row
  BY GateAtWrite
<1> QED
  BY <1>1, <1>2, <1>3, PTL DEF Spec, GateHoldsAtAppend

-----------------------------------------------------------------------------
(* The history is one path *)

PathsOK == \A r \in Req : PathOK(r)

(* The entry under way still leaves the state that was loaded. *)
LEMMA PathsKept ==
  ASSUME IInv, StateMatchesTail, PathsOK, [Next]_vars
  PROVE  PathsOK'
<1> SUFFICES ASSUME NEW q \in Req, request'[q].pc \in Saving, request'[q].moved
             PROVE  LET task == request'[q].task  n == Last(task)
                    IN  task.history[n].from = task.history[n - 1].to
  BY DEF PathsOK, PathOK
<1>1. CASE request'[q] = request[q]
  BY <1>1 DEF PathsOK, PathOK
<1>2. CASE Handler(q) /\ request[q].pc = "load" /\ Made(q)
  <2> DEFINE old == Loaded(q)
             new == request'[q].task
  <2>1. StepOK(q)' /\ request'[q] \in RequestRecord /\ request'[q].op = request[q].op
    BY <1>2, StepKeeps DEF IInv, TypeOK, Made, GoesOn
  <2>2. request[q].op # "create_task" /\ request'[q].moved = TRUE
    BY <2>1 DEF StepOK, TransitionOp, RequestRecord
  <2>3. CopyOf(old, new, TRUE)
    BY <1>2, <2>2 DEF Made
  <2>4. Target(q) \in DOMAIN row /\ Last(old) \in Nat \ {0}
    BY <1>2, <2>2, LoadedRow
  <2>5. old.state = old.history[Last(old)].to
    BY <2>4 DEF StateMatchesTail, Consistent, CurrentEntry, Last, Loaded
  <2> HIDE DEF old, new
  <2>6. /\ Last(new) = Last(old) + 1
        /\ new.history[Last(new)].from = old.state
        /\ TransitionFacts(new.history[Last(old)]) = TransitionFacts(old.history[Last(old)])
    BY <2>3, <2>4 DEF CopyOf
  <2>7. new.history[Last(old)].to = old.history[Last(old)].to /\ Last(new) - 1 = Last(old)
    BY <2>4, <2>6 DEF TransitionFacts
  <2> QED
    BY <2>5, <2>6, <2>7 DEF new
<1>3. CASE Handler(q) /\ request[q].pc \in Saving /\ WorksOn(q)
  BY <1>3 DEF PathsOK, PathOK, WorksOn, Last
<1> QED
  BY <1>1, <1>2, <1>3, CopyStep

(* A locked write continues the path and leaves the promises behind alone. *)
LEMMA PathContinues ==
  ASSUME IInv, NoUnlockedRequest, PathsOK, GatesOK, HistoryIsPath, LeftPromisesResolved,
         NEW r \in Req, Written(r),
         NEW i \in 2..Last(row'[Target(r)])
  PROVE  LET new == row'[Target(r)]
         IN  /\ new.history[i].from = new.history[i - 1].to
             /\ (new.history[i].trigger # "set-state" /\ new.history[i].to # Dropped)
                  => Outstanding(new.history[i - 1].promises) = {}
<1> DEFINE task == request[r].task
           n    == request[r].stored
           old  == row[Target(r)]
           new  == row'[Target(r)]
<1>1. request[r].op \notin UnlockedOp /\ request[r].pc = "update"
  BY DEF Written, NoUnlockedRequest
<1>2. /\ Target(r) \in DOMAIN row
      /\ Last(old) \in Nat \ {0}
      /\ n = Last(old)
      /\ Last(task) = n + Appended(r)
      /\ Last(new) = Last(old) + Appended(r)
      /\ Appended(r) \in {0, 1}
      /\ request[r].moved => new.history[Last(new)] = task.history[Last(task)]
      /\ \A j \in 1..n : TransitionFacts(task.history[j]) = TransitionFacts(old.history[j])
      /\ \A j \in 1..Last(old) :
           /\ TransitionFacts(new.history[j]) = TransitionFacts(old.history[j])
           /\ new.history[j].promises
                = IF j = n THEN task.history[j].promises ELSE old.history[j].promises
  BY <1>1, WrittenRow
<1>3. PathOK(r) /\ GateOK(r) /\ request[r].pc \in Saving
  BY <1>1 DEF PathsOK, GatesOK, Saving
<1>4. \A j \in 2..Last(old) :
        /\ old.history[j].from = old.history[j - 1].to
        /\ (old.history[j].trigger # "set-state" /\ old.history[j].to # Dropped)
             => Outstanding(old.history[j - 1].promises) = {}
  BY <1>2 DEF HistoryIsPath, LeftPromisesResolved
<1> HIDE DEF n
<1>5. CASE i <= Last(old)
  <2>1. i \in 2..Last(old) /\ i \in 1..Last(old) /\ i - 1 \in 1..Last(old) /\ i - 1 # n
    BY <1>2, <1>5
  <2>2. /\ TransitionFacts(new.history[i]) = TransitionFacts(old.history[i])
        /\ TransitionFacts(new.history[i - 1]) = TransitionFacts(old.history[i - 1])
        /\ new.history[i - 1].promises = old.history[i - 1].promises
    BY <1>2, <2>1
  <2> HIDE DEF old, new
  <2> QED
    BY <1>4, <2>1, <2>2 DEF new, TransitionFacts
<1>6. CASE i > Last(old)
  <2>1. /\ Appended(r) = 1 /\ request[r].moved
        /\ i = Last(new) /\ i - 1 = n /\ Last(task) - 1 = n
        /\ n \in 1..n /\ n \in 1..Last(old)
    BY <1>2, <1>6 DEF Appended
  <2>2. /\ new.history[i] = task.history[Last(task)]
        /\ TransitionFacts(new.history[n]) = TransitionFacts(task.history[n])
        /\ new.history[n].promises = task.history[n].promises
    BY <1>2, <2>1
  <2> HIDE DEF old, new, task
  <2>3. /\ task.history[Last(task)].from = task.history[n].to
        /\ (task.history[Last(task)].trigger # "set-state"
              /\ task.history[Last(task)].to # Dropped)
             => Outstanding(task.history[n].promises) = {}
    BY <1>3, <2>1 DEF PathOK, GateOK, task
  <2> QED
    BY <2>1, <2>2, <2>3 DEF new, TransitionFacts
<1> QED
  BY <1>2, <1>5, <1>6

(* Every other write leaves the histories as they are. *)
LEMMA PathKept ==
  ASSUME IInv, NoUnlockedRequest, PathsOK, GatesOK, HistoryIsPath, LeftPromisesResolved,
         [Next]_vars
  PROVE  HistoryIsPath' /\ LeftPromisesResolved'
<1> SUFFICES ASSUME NEW id \in DOMAIN row', NEW i \in 2..Last(row'[id])
             PROVE  LET new == row'[id]
                    IN  /\ new.history[i].from = new.history[i - 1].to
                        /\ (new.history[i].trigger # "set-state" /\ new.history[i].to # Dropped)
                             => Outstanding(new.history[i - 1].promises) = {}
  BY DEF HistoryIsPath, LeftPromisesResolved, Last
<1>1. ASSUME id \in DOMAIN row, row'[id].history = row[id].history
      PROVE  LET new == row'[id]
             IN  /\ new.history[i].from = new.history[i - 1].to
                 /\ (new.history[i].trigger # "set-state" /\ new.history[i].to # Dropped)
                      => Outstanding(new.history[i - 1].promises) = {}
  BY <1>1 DEF HistoryIsPath, LeftPromisesResolved, Last
<1>2. CASE row' = row
  BY <1>1, <1>2
<1>3. ASSUME NEW r \in Req, Created(r)
      PROVE  id \in DOMAIN row /\ row'[id].history = row[id].history
  <2>1. PICK new \in Task \ DOMAIN row :
          /\ DOMAIN row' = DOMAIN row \cup {new}
          /\ \A x \in DOMAIN row : row'[x] = row[x]
          /\ Len(row'[new].history) = 1
    BY <1>3, CreatedRow
  <2>2. id # new
    <3>1. id = new => i \in 2..1
      BY <2>1 DEF Last
    <3> QED
      BY <3>1
  <2> QED
    BY <2>1, <2>2
<1>4. ASSUME NEW r \in Req, SetLaunchPause(r)
      PROVE  id \in DOMAIN row /\ row'[id].history = row[id].history
  BY <1>4, PausedRow
<1>5. ASSUME NEW r \in Req, Written(r)
      PROVE  \/ id = Target(r)
             \/ id \in DOMAIN row /\ row'[id].history = row[id].history
  BY <1>5, WrittenRow
<1>6. ASSUME NEW r \in Req, Written(r), id = Target(r)
      PROVE  LET new == row'[id]
             IN  /\ new.history[i].from = new.history[i - 1].to
                 /\ (new.history[i].trigger # "set-state" /\ new.history[i].to # Dropped)
                      => Outstanding(new.history[i - 1].promises) = {}
  BY <1>6, PathContinues
<1> QED
  BY <1>1, <1>2, <1>3, <1>4, <1>5, <1>6, RowStep

(* Where every call takes a lock, more than the graph's edges is kept: each   *)
(* entry leaves the state its predecessor entered, and the promises of a      *)
(* state left through the gate stay resolved (append-only histories,          *)
(* core/store.py validate_history_append_only).                               *)
THEOREM LocksKeepPath ==
  ASSUME \A c \in Call : c.op \notin UnlockedOp
  PROVE  Spec => [](HistoryIsPath /\ LeftPromisesResolved)
<1>1. Init => PathIInv
  <2> SUFFICES ASSUME Init
               PROVE  PathIInv
    OBVIOUS
  <2>1. LockedIInv
    BY InitEstablishes DEF LockedIInv
  <2>2. \A r \in Req : GateOK(r) /\ PathOK(r)
    BY DEF Init, GateOK, PathOK, Idle, Saving
  <2>3. \A id \in DOMAIN row : Last(row[id]) = 1
    <3>1. \A id \in DOMAIN row : row[id] = NewTask(Born[id].workflow, Born[id].governor)
      BY DEF Init
    <3> QED
      BY <3>1 DEF NewTask, Last
  <2>4. HistoryIsPath /\ LeftPromisesResolved
    BY <2>3 DEF HistoryIsPath, LeftPromisesResolved
  <2> QED
    BY <2>1, <2>2, <2>4 DEF PathIInv
<1>2. PathIInv /\ [Next]_vars => PathIInv'
  <2> SUFFICES ASSUME PathIInv, [Next]_vars
               PROVE  PathIInv'
    OBVIOUS
  <2>1. /\ IInv /\ NoUnlockedRequest /\ StateMatchesTail
        /\ GatesOK /\ PathsOK /\ HistoryIsPath /\ LeftPromisesResolved
    BY DEF PathIInv, LockedIInv, GatesOK, PathsOK
  <2>2. IInv' /\ NoUnlockedRequest'
    BY <2>1, StepKeeps, UnlockedStayAway
  <2>3. StateMatchesTail'
    BY <2>1, <2>2, TailKept
  <2>4. GatesOK' /\ PathsOK'
    BY <2>1, GatesKept, PathsKept
  <2>5. HistoryIsPath' /\ LeftPromisesResolved'
    BY <2>1, PathKept
  <2> QED
    BY <2>2, <2>3, <2>4, <2>5 DEF PathIInv, LockedIInv, GatesOK, PathsOK
<1>3. PathIInv => HistoryIsPath /\ LeftPromisesResolved
  BY DEF PathIInv
<1> QED
  BY <1>1, <1>2, <1>3, PTL DEF Spec

-----------------------------------------------------------------------------
(* Calls of some kind only *)

OnlyOps(S) == \A r \in Req : request[r].pc # "idle" => request[r].op \in S

(* Requests are of the kinds of the calls that start them, and drops.         *)
LEMMA CallsOnly ==
  ASSUME TypeOK, NEW S, OnlyOps(S), [Next]_vars,
         "request_transition" \in S,
         \A c \in Call : c.op \in S
  PROVE  OnlyOps(S)'
<1>1. CASE UNCHANGED vars
  BY <1>1 DEF vars, OnlyOps
<1>2. ASSUME NEW r \in Req, Handler(r) \/ AcquireTaskLock(r) \/ AcquireGraphLock(r)
      PROVE  OnlyOps(S)'
  BY <1>2, OperationStays DEF OnlyOps
<1>3. ASSUME NEW r \in Req, Begin(r)
      PROVE  OnlyOps(S)'
  <2>1. PICK c \in Call :
          request' = [request EXCEPT ![r] =
            [Idle EXCEPT !.pc = FirstStep(c.op), !.op = c.op, !.stack = <<Frame(c.task)>>]]
    BY <1>3 DEF Begin
  <2>2. request \in [Req -> RequestRecord]
    BY DEF TypeOK
  <2>3. request'[r].op = c.op /\ \A q \in Req \ {r} : request'[q] = request[q]
    BY <2>1, <2>2 DEF Idle
  <2> QED
    BY <2>3 DEF OnlyOps
<1>4. CASE Crash
  BY <1>4 DEF Crash, OnlyOps, Idle
<1> QED
  BY <1>1, <1>2, <1>3, <1>4 DEF Next

(* The handler that writes is done with its copy. *)
LEMMA WriteEnds ==
  ASSUME IInv, NEW r \in Req, Update(r), Written(r)
  PROVE  request'[r].pc \notin Saving
<1>1. request \in [Req -> RequestRecord]
  BY DEF IInv, TypeOK
<1>2. CASE ReturnFrom(r)
  BY <1>1, <1>2 DEF ReturnFrom, Idle, Saving
<1>3. CASE ~ReturnFrom(r)
  <2>1. request' = [request EXCEPT ![r].pc = "list", ![r].task = Nil]
    BY <1>3 DEF Update, Written
  <2> QED
    BY <1>1, <2>1 DEF RequestRecord, Saving
<1> QED
  BY <1>2, <1>3

-----------------------------------------------------------------------------
(* Stale copies *)

(* What outdates a copy that does not count as outdated is the write of a     *)
(* handler that the lock keeps apart from it.                                 *)
LEMMA KeptInstep ==
  ASSUME Note, NEW lock \in Lock, NEW q \in Req, AtWork(q), AtWork(q)',
         q \notin missed'[lock]
  PROVE  /\ q \notin missed[lock]
         /\ \A r \in Req \ {q} :
              (request'[r] # request[r] /\ Outdated(lock, q)) => KeptApart(lock, q, r)
BY DEF Note

(* A handler that writes a row moves on. *)
LEMMA WriterMoves ==
  ASSUME IInv, [Next]_vars, row' # row
  PROVE  \E r \in Req : /\ request'[r] # request[r]
                        /\ \/ ~(request[r].pc \in Saving /\ request'[r].pc \in Saving)
                           \/ request[r].pc = "review"
                        /\ \/ Written(r)
                           \/ Created(r)
                           \/ SetLaunchPause(r)
<1>1. request \in [Req -> RequestRecord]
  BY DEF IInv, TypeOK
<1>2. PICK r \in Req : Handler(r) /\ ((Update(r) /\ Written(r)) \/ Created(r) \/ SetLaunchPause(r))
  BY RowStep
<1>3. CASE Update(r) /\ Written(r)
  <2>1. request'[r].pc \notin Saving /\ request[r].pc \in Saving
    BY <1>3, WriteEnds DEF Written, Saving
  <2> QED
    BY <1>3, <2>1
<1>4. CASE SetLaunchPause(r)
  <2>1. request[r].pc = "target" /\ request' = [request EXCEPT ![r] = Idle]
    BY <1>4 DEF SetLaunchPause
  <2>2. request'[r].pc = "idle"
    BY <1>1, <2>1 DEF Idle
  <2> QED
    BY <1>4, <2>1, <2>2 DEF Saving
<1>5. CASE Created(r)
  <2>1. CASE request[r].pc = "review"
    <3>1. request'[r].pc \in Saving => request'[r].pc = "validate"
      BY <1>2, <2>1, CopyKept DEF WorksOn, Saving
    <3> QED
      BY <1>5, <2>1, <3>1 DEF Saving
  <2>2. CASE At(r, "load", "create_task")
    <3>1. CreateTask(r)
      BY <1>2, <2>2
         DEF Handler, ApplyOperation, RequestTransition, SetState, ResolveResponsibility,
             CreateReviewTask, RecordStageEntryWake, Claim, ClaimIfReady, SetDependencies,
             ValidateDependencies, PauseLaunch, RetryTask, SetLaunchPause, Release, SetTurn,
             SetBlocked, SetAttention, SetFact, SetGovernor, Validate, Update, ListGoverned,
             DropGoverned, FinishCascade, At
    <3>2. request' = [request EXCEPT ![r] = Idle]
      BY <3>1 DEF CreateTask, Fail
    <3> QED
      BY <1>1, <1>5, <2>2, <3>2 DEF Idle, At, Saving
  <2> QED
    BY <1>5, <2>1, <2>2 DEF Created
<1> QED
  BY <1>2, <1>3, <1>4, <1>5

(* Which task a handler at work has loaded, and how its copy goes on. *)
LEMMA AtWorkOn ==
  ASSUME IInv, NEW q \in Req, AtWork(q)
  PROVE  /\ Target(q) \in DOMAIN row
         /\ Loaded(q) = row[Target(q)]
         /\ Loaded(q) \in TaskRecord
         /\ request[q].pc # "idle" /\ request[q].pc \in Inside /\ request[q].pc \in Holding
         /\ request[q].op # "create_task"
<1>1. request[q].pc # "idle" /\ request[q].pc \in Inside /\ request[q].pc \in Holding
  BY DEF AtWork, Saving, Inside, Holding, Step
<1>2. request[q].op # "create_task"
  BY DEF AtWork, Saving, IInv, StepOK
<1> QED
  BY <1>1, <1>2, LoadedRow DEF Loaded

(* A handler takes the task it is at work on with it. *)
LEMMA CopyGoesOn ==
  ASSUME IInv, [Next]_vars, NEW q \in Req, AtWork(q)'
  PROVE  \/ /\ AtWork(q)
            /\ Target(q)' = Target(q)
            /\ arg'[q] = arg[q]
            /\ request'[q].op = request[q].op
            /\ request'[q].moved = request[q].moved
            /\ request'[q].task.history = request[q].task.history
            /\ request'[q] = request[q] \/ (Handler(q) /\ WorksOn(q))
         \/ /\ request[q].pc = "load" /\ Handler(q) /\ Made(q)
            /\ Target(q)' = Target(q)
            /\ arg'[q] = arg[q]
            /\ request'[q].op = request[q].op
            /\ row' = row
<1>1. request'[q].pc \in Saving
  BY DEF AtWork
<1>2. CASE request'[q] = request[q] /\ arg'[q] = arg[q]
  BY <1>1, <1>2 DEF Target, AtWork
<1>3. CASE Handler(q) /\ request[q].pc = "load" /\ Made(q)
  BY <1>3 DEF Made, GoesOn, Target
<1>4. CASE Handler(q) /\ request[q].pc \in Saving /\ WorksOn(q)
  BY <1>4 DEF WorksOn, GoesOn, Target, AtWork
<1> QED
  BY <1>1, <1>2, <1>3, <1>4, CopyStep

(* The workflow of a task is for ever. *)
LEMMA SameWorkflow ==
  ASSUME IInv, [Next]_vars, NEW q \in Req, AtWork(q), Target(q)' = Target(q)
  PROVE  Loaded(q)'.workflow = Loaded(q).workflow
<1>1. /\ Target(q) \in DOMAIN row
      /\ Loaded(q) = row[Target(q)]
      /\ Loaded(q)' = row'[Target(q)]
  BY AtWorkOn DEF Loaded
<1>2. ASSUME NEW r \in Req, Written(r) \/ Created(r) \/ SetLaunchPause(r)
      PROVE  row'[Target(q)].workflow = row[Target(q)].workflow
  BY <1>1, <1>2, WrittenRow, CreatedRow, PausedRow
<1> QED
  BY <1>1, <1>2, WriterMoves

-----------------------------------------------------------------------------
(* Settled wakes *)

WakesOK == \A r \in Req : WakeOK(r)

(* While a handler works on a copy that goes on being current, the wakes of   *)
(* its task stay as they are.                                                 *)
LEMMA WakesStay ==
  ASSUME IInv, [Next]_vars, Note, NEW q \in Req, AtWork(q), AtWork(q)',
         Target(q)' = Target(q), q \notin missed'["task"]
  PROVE  ~WakesOverwritten(q)
<1>1. /\ Target(q) \in DOMAIN row
      /\ Loaded(q) = row[Target(q)]
      /\ Loaded(q)' = row'[Target(q)]
      /\ request[q].pc \in Holding
  BY AtWorkOn DEF Loaded
<1> SUFFICES ASSUME row'[Target(q)].history # row[Target(q)].history, WakesOverwritten(q)
             PROVE  FALSE
  BY <1>1 DEF WakesOverwritten
<1>2. PICK r \in Req : /\ request'[r] # request[r]
                       /\ \/ ~(request[r].pc \in Saving /\ request'[r].pc \in Saving)
                          \/ request[r].pc = "review"
                       /\ Written(r) \/ Created(r) \/ SetLaunchPause(r)
  BY WriterMoves
<1>3. ~Created(r) /\ ~SetLaunchPause(r)
  BY <1>1, CreatedRow, PausedRow
<1>4. Written(r)
  BY <1>2, <1>3
<1>5. request[r].pc = "update" /\ AtWork(r) /\ r # q
  BY <1>2, <1>4 DEF Written, AtWork, Saving
<1>6. Target(r) = Target(q)
  BY <1>1, <1>4, WrittenRow
<1>7. KeptApart("task", q, r)
  BY <1>2, <1>5, KeptInstep DEF Lock, Outdated
<1>8. request[q].op \in TaskLockedOp /\ request[r].op \in TaskLockedOp
  BY <1>7 DEF KeptApart, LockedOp
<1>9. request[r].pc \in Holding
  BY <1>5, AtWorkOn
<1>10. taskLock[Target(q)] = q /\ taskLock[Target(r)] = r
  BY <1>1, <1>8, <1>9 DEF IInv, LocksOK
<1> QED
  BY <1>5, <1>6, <1>10

(* So a current copy goes on agreeing with the wakes that are settled. *)
LEMMA WakesKept ==
  ASSUME IInv, WakesOK, [Next]_vars, Note
  PROVE  WakesOK'
<1> SUFFICES ASSUME NEW q \in Req, AtWork(q)', q \notin missed'["task"]
             PROVE  WakeOK(q)'
  BY DEF WakesOK, WakeOK
<1>1. IInv'
  BY StepKeeps
<1>2. CASE /\ AtWork(q)
           /\ Target(q)' = Target(q)
           /\ request'[q].op = request[q].op
           /\ request'[q].moved = request[q].moved
           /\ request'[q].task.history = request[q].task.history
  <2>1. q \notin missed["task"] /\ ~WakesOverwritten(q)
    BY <1>2, KeptInstep, WakesStay DEF Lock
  <2>2. \A i \in DOMAIN Loaded(q).history \cap DOMAIN request[q].task.history :
          Loaded(q).history[i].wake # "pending"
            => request[q].task.history[i].wake = Loaded(q).history[i].wake
    BY <1>2, <2>1 DEF WakesOK, WakeOK
  <2>3. /\ CopyOK(q) /\ CopyOK(q)'
        /\ request[q].pc \in Saving /\ request'[q].pc \in Saving
    BY <1>1, <1>2 DEF IInv, AtWork
  <2>4. /\ Loaded(q) \in TaskRecord /\ Loaded(q)' \in TaskRecord
        /\ request[q].task \in TaskRecord /\ request'[q].task \in TaskRecord
    <3>1. StepOK(q)' /\ StackOK(q)' /\ TypeOK'
      BY <1>1 DEF IInv
    <3>2. request'[q].pc # "idle" /\ request'[q].op # "create_task"
      BY <2>3, <3>1 DEF StepOK, Saving
    <3>3. Loaded(q)' \in TaskRecord
      BY <3>1, <3>2 DEF StackOK, TypeOK, Loaded
    <3> QED
      BY <1>2, <2>3, <3>3, AtWorkOn DEF CopyOK
  <2>5. DOMAIN Loaded(q)'.history \cap DOMAIN request'[q].task.history
          \subseteq DOMAIN Loaded(q).history
    <3>1. CASE request[q].op \notin UnlockedOp
      <4>1. /\ Last(request[q].task) = Last(Loaded(q)) + Appended(q)
            /\ Last(request'[q].task) = Last(Loaded(q)') + Appended(q)
        BY <1>2, <2>3, <3>1 DEF CopyOK, Appended
      <4>2. Last(Loaded(q)') = Last(Loaded(q))
        BY <1>2, <2>4, <4>1 DEF Last, TaskRecord, Appended
      <4> QED
        BY <2>4, <4>2 DEF Last, TaskRecord
    <3>2. CASE request[q].op \in UnlockedOp
      <4>1. StepOK(q)
        BY DEF IInv
      <4>2. ~request[q].moved
        BY <3>2, <4>1 DEF StepOK, UnlockedOp, TransitionOp
      <4>3. Last(request[q].task) <= Last(Loaded(q))
        BY <2>3, <2>4, <4>2 DEF CopyOK, Appended, Last, TaskRecord
      <4> QED
        BY <1>2, <2>4, <4>3 DEF Last, TaskRecord
    <3> QED
      BY <3>1, <3>2
  <2>6. \A i \in DOMAIN Loaded(q).history : Loaded(q)'.history[i].wake = Loaded(q).history[i].wake
    BY <2>1 DEF WakesOverwritten
  <2> QED
    BY <1>2, <2>2, <2>5, <2>6 DEF WakeOK
<1>3. CASE /\ request[q].pc = "load" /\ Made(q)
           /\ Target(q)' = Target(q)
           /\ request'[q].op = request[q].op
           /\ row' = row
  <2>1. CopyOf(Loaded(q), request'[q].task, request'[q].moved) /\ Loaded(q)' = Loaded(q)
    BY <1>3 DEF Made, Loaded
  <2>2. Loaded(q) \in TaskRecord
    <3>1. StepOK(q)'
      BY <1>1 DEF IInv
    <3>2. request[q].op # "create_task"
      BY <1>3, <3>1 DEF StepOK, AtWork, Saving
    <3> QED
      BY <1>3, <3>2, LoadedRow
  <2> QED
    BY <2>1, <2>2 DEF WakeOK, CopyOf, Last, TaskRecord
<1> QED
  BY <1>2, <1>3, CopyGoesOn

(* A write leaves the wakes that are settled as they are. *)
LEMMA WakeAtWrite ==
  ASSUME IInv, WakesOK, [Next]_vars,
         NEW id \in DOMAIN row, NEW i \in 1..Last(row[id]),
         row[id].history[i].wake # "pending",
         row'[id].history[i].wake # row[id].history[i].wake
  PROVE  StaleSave("task", id)
<1>1. PICK r \in Req : /\ request'[r] # request[r]
                       /\ Written(r) \/ Created(r) \/ SetLaunchPause(r)
  BY WriterMoves
<1>2. Written(r)
  BY <1>1, CreatedRow, PausedRow
<1>3. id = Target(r)
  BY <1>2, WrittenRow
<1>4. request[r].pc = "update" /\ AtWork(r)
  BY <1>2 DEF Written, AtWork, Saving
<1>5. CASE r \in missed["task"]
  BY <1>1, <1>3, <1>4, <1>5 DEF StaleSave
<1>6. CASE r \notin missed["task"]
  <2>1. /\ row'[id].history[i].wake
             = IF i <= request[r].stored THEN request[r].task.history[i].wake
               ELSE row[id].history[i].wake
        /\ request[r].stored \in 1..Last(row[id])
        /\ Last(request[r].task) = request[r].stored + Appended(r)
        /\ Appended(r) \in {0, 1}
        /\ Loaded(r) = row[id] /\ row[id] \in TaskRecord /\ request[r].task \in TaskRecord
    BY <1>2, <1>3, WrittenRow
  <2>2. i <= request[r].stored
    BY <2>1
  <2>3. i \in DOMAIN Loaded(r).history \cap DOMAIN request[r].task.history
    BY <2>1, <2>2 DEF Last, TaskRecord
  <2>4. request[r].task.history[i].wake = row[id].history[i].wake
    BY <1>4, <1>6, <2>1, <2>3 DEF WakesOK, WakeOK
  <2> QED
    BY <2>1, <2>2, <2>4
<1> QED
  BY <1>5, <1>6

(* A wake once delivered or skipped never becomes pending again, but for the  *)
(* save of a copy that a handler outside the task's lock has outdated         *)
(* (record_stage_entry_wake against the whole-row save of the others).        *)
THEOREM WakesSettleOnce == NotedSpec => SettledWakeStays
<1>1. NotedInit => IInv /\ WakesOK
  <2>1. Init => WakesOK
    BY DEF Init, WakesOK, WakeOK, AtWork, Idle, Saving
  <2> QED
    BY <2>1, InitEstablishes DEF NotedInit
<1>2. IInv /\ WakesOK /\ [Next /\ Note]_noted => (IInv /\ WakesOK)'
  <2>1. CASE Next /\ Note
    BY <2>1, StepKeeps, WakesKept
  <2>2. CASE UNCHANGED noted
    <3>1. UNCHANGED vars /\ missed' = missed
      BY <2>2 DEF noted
    <3>2. IInv => IInv'
      BY <3>1, StepKeeps
    <3>3. \A r \in Req : WakeOK(r)' <=> WakeOK(r)
      BY <3>1 DEF vars, WakeOK, AtWork, Loaded, Target
    <3> QED
      BY <3>2, <3>3 DEF WakesOK
  <2> QED
    BY <2>1, <2>2
<1>3. IInv /\ WakesOK /\ [Next /\ Note]_noted
        => [\A id \in DOMAIN row : \A i \in 1..Last(row[id]) :
              (row[id].history[i].wake # "pending"
                 /\ row'[id].history[i].wake # row[id].history[i].wake)
                => StaleSave("task", id)]_row
  BY WakeAtWrite DEF noted, vars
<1> QED
  BY <1>1, <1>2, <1>3, PTL DEF NotedSpec, SettledWakeStays

-----------------------------------------------------------------------------
(* Inside the dependency lock *)

SerialsOK   == \A r \in Req : SerialOK(r)
EdgesInside == \A id \in DOMAIN row : row[id].dependsOn \subseteq DOMAIN row

(* While a handler is inside the dependency lock nobody else writes a row.    *)
LEMMA RowsStay ==
  ASSUME IInv, OnlyOps(GraphLockedOp), [Next]_vars, NEW q \in Req,
         request[q].pc \in Saving, request'[q].pc \in Saving
  PROVE  /\ Target(q) \in DOMAIN row
         /\ DOMAIN row \subseteq DOMAIN row'
         /\ \A x \in DOMAIN row : row'[x] = row[x]
         /\ request[q].pc = "review" \/ row' = row
<1>1. request[q].pc # "idle" /\ request[q].pc \in Inside
  BY DEF Saving, Inside, Holding, Step
<1>2. StepOK(q) /\ LocksOK(q) /\ request[q].op \in GraphLockedOp
  BY <1>1 DEF IInv, OnlyOps
<1>3. graphLock = q
  BY <1>1, <1>2 DEF LocksOK
<1>4. Target(q) \in DOMAIN row
  <2>1. request[q].op # "create_task"
    BY <1>2 DEF StepOK, Saving
  <2> QED
    BY <1>1, <2>1, LoadedRow
<1>5. ASSUME NEW r \in Req, (Update(r) /\ Written(r)) \/ Created(r) \/ SetLaunchPause(r)
      PROVE  r = q
  <2>1. request[r].pc \in {"update", "review", "load", "target"}
    BY <1>5 DEF Written, Created, SetLaunchPause, At
  <2>2. request[r].pc \in Inside /\ request[r].pc # "idle"
    BY <2>1 DEF Inside, Holding, Step
  <2>3. LocksOK(r) /\ request[r].op \in GraphLockedOp
    BY <2>2 DEF IInv, OnlyOps
  <2> QED
    BY <1>3, <2>2, <2>3 DEF LocksOK
<1>6. ~(Update(q) /\ Written(q)) /\ ~SetLaunchPause(q)
  BY WriteEnds DEF SetLaunchPause, Saving
<1>7. Created(q) => /\ request[q].pc = "review"
                    /\ DOMAIN row \subseteq DOMAIN row'
                    /\ \A x \in DOMAIN row : row'[x] = row[x]
  <2>1. Created(q) => request[q].pc = "review"
    BY DEF Created, At, Saving
  <2> QED
    BY <2>1, CreatedRow
<1>8. CASE row' = row
  BY <1>4, <1>8
<1>9. CASE row' # row
  <2>1. Created(q)
    BY <1>5, <1>6, <1>9, RowStep
  <2> QED
    BY <1>4, <1>7, <2>1
<1> QED
  BY <1>8, <1>9

(* What a handler decided on inside the dependency lock goes on being what is *)
(* stored, and the copy what it decided.                                      *)
LEMMA SerialsKept ==
  ASSUME IInv, OnlyOps(GraphLockedOp), SerialsOK, [Next]_vars
  PROVE  SerialsOK'
<1> SUFFICES ASSUME NEW q \in Req, request'[q].pc \in Saving
             PROVE  SerialOK(q)'
  BY DEF SerialsOK, SerialOK
<1>1. StepOK(q)' /\ StepOK(q) /\ SerialOK(q)
  BY StepKeeps DEF IInv, SerialsOK
<1>2. row' = row => DependencyGraph' = DependencyGraph
  BY DEF DependencyGraph
<1>3. CASE request'[q] = request[q] /\ arg'[q] = arg[q]
  <2>1. Target(q)' = Target(q)
    BY <1>3 DEF Target
  <2>2. CASE request[q].pc = "review"
    <3>1. request[q].op \in TransitionOp
      BY <1>1, <2>2 DEF StepOK
    <3>2. row'[Target(q)] = row[Target(q)]
      BY <1>3, <2>2, RowsStay
    <3> QED
      BY <1>1, <1>3, <2>1, <3>1, <3>2 DEF SerialOK, Loaded, TransitionOp
  <2>3. CASE request[q].pc # "review"
    <3>1. row' = row
      BY <1>3, <2>3, RowsStay
    <3>2. Loaded(q)' = Loaded(q)
      BY <2>1, <3>1 DEF Loaded
    <3>3. EdgesDecided(q) => EdgesDecided(q)'
      BY <1>2, <1>3, <2>1, <3>1 DEF EdgesDecided
    <3> QED
      BY <1>1, <1>3, <3>2, <3>3 DEF SerialOK
  <2> QED
    BY <2>2, <2>3
<1>4. CASE Handler(q) /\ request[q].pc = "load" /\ Made(q)
  <2>1. /\ row' = row /\ arg' = arg
        /\ request'[q].op = request[q].op
        /\ Target(q)' = Target(q)
        /\ Loaded(q)' = Loaded(q)
    BY <1>4 DEF Made, GoesOn, Target, Loaded
  <2>2. request'[q].pc \in {"ready", "acyclic"} \/ request[q].op \in TaskLockedOp \cup UnlockedOp
    BY <1>4 DEF Made, Saving
  <2>3. request[q].op = "set_dependencies" => request'[q].pc = "acyclic"
    BY <1>1, <2>1, <2>2
       DEF StepOK, GraphLockedOp, TaskLockedOp, TransitionOp, UnlockedOp
  <2>4. request'[q].task.dependsOn = Loaded(q).dependsOn
    BY <1>4, <2>3 DEF Made, CopyOf
  <2>5. request[q].op = "set_dependencies" => EdgesDecided(q)'
    BY <1>4, <2>1, <2>3 DEF Made, EdgesDecided
  <2> QED
    BY <2>1, <2>4, <2>5 DEF SerialOK
<1>5. CASE Handler(q) /\ request[q].pc \in Saving /\ WorksOn(q)
  <2>1. /\ arg' = arg
        /\ request'[q].op = request[q].op
        /\ Target(q)' = Target(q)
        /\ row'[Target(q)] = row[Target(q)]
        /\ Loaded(q)' = Loaded(q)
    BY <1>5, RowsStay DEF WorksOn, GoesOn, Target, Loaded
  <2>2. /\ request[q].pc = "acyclic" => request[q].op = "set_dependencies"
        /\ request[q].pc = "review" => request[q].op \in TransitionOp
    BY <1>1 DEF StepOK
  <2>3. request[q].op = "set_dependencies" => row' = row
    BY <1>5, <2>2 DEF WorksOn, TransitionOp
  <2>4. ASSUME request[q].op = "set_dependencies"
        PROVE  EdgesDecided(q)'
    <3>1. EdgesDecided(q)
      BY <1>1, <1>5, <2>4 DEF SerialOK
    <3>2. /\ request'[q].task.dependsOn = arg[q]
          /\ ~CycleFrom([DependencyGraph EXCEPT ![Target(q)] = arg[q]], Target(q))
      BY <1>5, <3>1 DEF WorksOn, EdgesDecided
    <3> QED
      BY <1>2, <2>1, <2>3, <2>4, <3>1, <3>2 DEF EdgesDecided
  <2>5. request[q].op # "set_dependencies" => request'[q].task.dependsOn = Loaded(q).dependsOn
    BY <1>1, <1>5, <2>2 DEF WorksOn, SerialOK
  <2> QED
    BY <2>1, <2>4, <2>5 DEF SerialOK
<1> QED
  BY <1>3, <1>4, <1>5, CopyStep

-----------------------------------------------------------------------------
(* Dependency graphs *)

IsGraph(G) == \A x \in DOMAIN G : G[x] \subseteq DOMAIN G

(* What is reached from a task is a closed set of tasks with the task in it.  *)
LEMMA ReachableClosed ==
  ASSUME NEW G, IsGraph(G), NEW y \in DOMAIN G
  PROVE  /\ y \in ReachableFrom(G, y)
         /\ ReachableFrom(G, y) \subseteq DOMAIN G
         /\ Closed(G, ReachableFrom(G, y))
<1>1. y \in ReachableFrom(G, y) /\ ReachableFrom(G, y) \subseteq DOMAIN G
  BY DEF ReachableFrom
<1>2. ASSUME NEW u \in ReachableFrom(G, y), NEW v \in G[u]
      PROVE  v \in ReachableFrom(G, y)
  <2>1. v \in DOMAIN G
    BY <1>1 DEF IsGraph
  <2>2. ASSUME NEW ids \in SUBSET DOMAIN G, y \in ids, Closed(G, ids)
        PROVE  v \in ids
    <3>1. u \in ids
      BY <2>2 DEF ReachableFrom
    <3> QED
      BY <2>2, <3>1 DEF Closed
  <2> QED
    BY <2>1, <2>2 DEF ReachableFrom
<1> QED
  BY <1>1, <1>2 DEF Closed

(* A cycle that new edges of one task close goes through that task.           *)
LEMMA NewEdges ==
  ASSUME NEW G, IsGraph(G), \A y \in DOMAIN G : ~CycleFrom(G, y),
         NEW H, IsGraph(H), DOMAIN H = DOMAIN G,
         NEW t \in DOMAIN G, \A x \in DOMAIN G \ {t} : H[x] = G[x],
         ~CycleFrom(H, t)
  PROVE  \A y \in DOMAIN H : ~CycleFrom(H, y)
<1> SUFFICES ASSUME NEW y \in DOMAIN H,
                    NEW x \in ReachableFrom(H, y), NEW z \in H[x], x \in ReachableFrom(H, z)
             PROVE  FALSE
  BY DEF CycleFrom
<1>1. x \in DOMAIN G /\ z \in DOMAIN G
  BY ReachableClosed DEF IsGraph
<1> DEFINE seen == ReachableFrom(H, t)
<1>2. t \in seen /\ seen \subseteq DOMAIN G /\ Closed(H, seen)
  BY ReachableClosed
<1>3. x \notin seen
  BY DEF CycleFrom
<1>4. z \in G[x]
  BY <1>1, <1>2, <1>3
<1>5. ASSUME NEW ids \in SUBSET DOMAIN G, z \in ids, Closed(G, ids)
      PROVE  x \in ids
  <2>1. ASSUME NEW u \in ids \cup seen
        PROVE  H[u] \subseteq ids \cup seen
    <3>1. CASE u \in seen
      BY <1>2, <3>1 DEF Closed
    <3>2. CASE u \notin seen
      <4>1. u \in ids /\ H[u] = G[u]
        BY <1>2, <3>2
      <4> QED
        BY <1>5, <4>1 DEF Closed
    <3> QED
      BY <3>1, <3>2
  <2>2. Closed(H, ids \cup seen) /\ ids \cup seen \in SUBSET DOMAIN H /\ z \in ids \cup seen
    BY <1>2, <1>5, <2>1 DEF Closed
  <2>3. x \in ids \cup seen
    BY <2>2 DEF ReachableFrom
  <2> QED
    BY <1>3, <2>3
<1>6. x \in ReachableFrom(G, z)
  BY <1>1, <1>5 DEF ReachableFrom
<1>7. x \in ReachableFrom(G, x)
  BY <1>1, ReachableClosed
<1> QED
  BY <1>1, <1>4, <1>6, <1>7 DEF CycleFrom

(* A new task that nothing depends on closes no cycle.                        *)
LEMMA NewNode ==
  ASSUME NEW G, IsGraph(G), \A y \in DOMAIN G : ~CycleFrom(G, y),
         NEW id, NEW H, DOMAIN H = DOMAIN G \cup {id},
         id \notin DOMAIN G, H[id] \subseteq DOMAIN G,
         \A x \in DOMAIN G : H[x] = G[x]
  PROVE  \A y \in DOMAIN H : ~CycleFrom(H, y)
<1> SUFFICES ASSUME NEW y \in DOMAIN H,
                    NEW x \in ReachableFrom(H, y), NEW z \in H[x], x \in ReachableFrom(H, z)
             PROVE  FALSE
  BY DEF CycleFrom
<1>1. IsGraph(H) /\ Closed(H, DOMAIN G)
  BY DEF IsGraph, Closed
<1>2. x \in DOMAIN H
  BY DEF ReachableFrom
<1>3. z \in DOMAIN G
  BY <1>2 DEF IsGraph
<1>4. x \in DOMAIN G
  BY <1>1, <1>3 DEF ReachableFrom
<1>5. ASSUME NEW ids \in SUBSET DOMAIN G, z \in ids, Closed(G, ids)
      PROVE  x \in ids
  <2>1. Closed(H, ids) /\ ids \in SUBSET DOMAIN H
    BY <1>5 DEF Closed
  <2> QED
    BY <1>5, <2>1 DEF ReachableFrom
<1>6. x \in ReachableFrom(G, z)
  BY <1>4, <1>5 DEF ReachableFrom
<1>7. x \in ReachableFrom(G, x) /\ z \in G[x]
  BY <1>4, ReachableClosed
<1> QED
  BY <1>4, <1>6, <1>7 DEF CycleFrom

-----------------------------------------------------------------------------
(* Claims and dependencies *)

(* Every edge leads to a task there is, and no edges close a cycle.           *)
LEMMA GraphKept ==
  ASSUME IInv, OnlyOps(GraphLockedOp), SerialsOK, EdgesInside, DependenciesAcyclic, [Next]_vars
  PROVE  EdgesInside' /\ DependenciesAcyclic'
<1> DEFINE G == DependencyGraph
           H == DependencyGraph'
<1>1. /\ DOMAIN G = DOMAIN row /\ \A x \in DOMAIN row : G[x] = row[x].dependsOn
      /\ DOMAIN H = DOMAIN row' /\ \A x \in DOMAIN row' : H[x] = row'[x].dependsOn
  BY DEF DependencyGraph
<1>2. IsGraph(G) /\ \A y \in DOMAIN G : ~CycleFrom(G, y)
  BY <1>1 DEF EdgesInside, IsGraph, DependenciesAcyclic
<1>3. ASSUME IsGraph(H), \A y \in DOMAIN H : ~CycleFrom(H, y)
      PROVE  EdgesInside' /\ DependenciesAcyclic'
  BY <1>1, <1>3 DEF EdgesInside, IsGraph, DependenciesAcyclic
<1> HIDE DEF G, H
<1>4. ASSUME DOMAIN row' = DOMAIN row, \A x \in DOMAIN row : row'[x].dependsOn = row[x].dependsOn
      PROVE  EdgesInside' /\ DependenciesAcyclic'
  <2>1. H = G
    BY <1>4 DEF G, H, DependencyGraph
  <2> QED
    BY <1>2, <1>3, <2>1
<1>5. ASSUME NEW r \in Req, SetLaunchPause(r)
      PROVE  EdgesInside' /\ DependenciesAcyclic'
  BY <1>4, <1>5, PausedRow
<1>6. ASSUME NEW r \in Req, Created(r)
      PROVE  EdgesInside' /\ DependenciesAcyclic'
  <2>1. PICK id \in Task \ DOMAIN row :
           /\ DOMAIN row' = DOMAIN row \cup {id}
           /\ \A x \in DOMAIN row : row'[x] = row[x]
           /\ row'[id].dependsOn \subseteq DOMAIN row
    BY <1>6, CreatedRow
  <2>2. /\ DOMAIN H = DOMAIN G \cup {id} /\ id \notin DOMAIN G
        /\ H[id] \subseteq DOMAIN G
        /\ \A x \in DOMAIN G : H[x] = G[x]
    BY <1>1, <2>1
  <2>3. IsGraph(H)
    BY <1>2, <2>2 DEF IsGraph
  <2> QED
    BY <1>2, <1>3, <2>2, <2>3, NewNode
<1>7. ASSUME NEW r \in Req, Written(r)
      PROVE  EdgesInside' /\ DependenciesAcyclic'
  <2>1. SerialOK(r) /\ request[r].pc \in Saving /\ request[r].pc # "acyclic"
    BY <1>7 DEF SerialsOK, Written, Saving
  <2>2. CASE request[r].op # "set_dependencies"
    <3>1. request[r].task.dependsOn = row[Target(r)].dependsOn
      BY <2>1, <2>2 DEF SerialOK, Loaded
    <3> QED
      BY <1>4, <1>7, <3>1, WrittenRow
  <2>3. CASE request[r].op = "set_dependencies"
    <3>1. /\ request[r].task.dependsOn = arg[r]
          /\ arg[r] \subseteq DOMAIN row
          /\ ~CycleFrom([DependencyGraph EXCEPT ![Target(r)] = arg[r]], Target(r))
      BY <2>1, <2>3 DEF SerialOK, EdgesDecided
    <3>2. /\ Target(r) \in DOMAIN row /\ DOMAIN row' = DOMAIN row
          /\ row'[Target(r)].dependsOn = arg[r]
          /\ \A x \in DOMAIN row \ {Target(r)} : row'[x] = row[x]
      BY <1>7, <3>1, WrittenRow
    <3>3. /\ DOMAIN H = DOMAIN G /\ Target(r) \in DOMAIN G
          /\ H[Target(r)] = arg[r]
          /\ \A x \in DOMAIN G \ {Target(r)} : H[x] = G[x]
      BY <1>1, <3>2
    <3>4. H = [DependencyGraph EXCEPT ![Target(r)] = arg[r]]
      BY <3>2 DEF H, DependencyGraph
    <3>5. IsGraph(H)
      BY <1>1, <1>2, <3>1, <3>3 DEF IsGraph
    <3> QED
      BY <1>2, <1>3, <3>1, <3>3, <3>4, <3>5, NewEdges
  <2> QED
    BY <2>2, <2>3
<1>8. CASE row' = row
  BY <1>4, <1>8
<1> QED
  BY <1>5, <1>6, <1>7, <1>8, RowStep

SerialInv == /\ IInv
             /\ OnlyOps(GraphLockedOp)
             /\ SerialsOK
             /\ EdgesInside
             /\ DependenciesAcyclic

(* Where every call takes the dependency lock, all this is invariant.         *)
LEMMA SerialInvariant ==
  ASSUME \A c \in Call : c.op \in GraphLockedOp
  PROVE  /\ Init => SerialInv
         /\ SerialInv /\ [Next]_vars => SerialInv'
<1>1. ASSUME Init
      PROVE  SerialInv
  <2>1. IInv
    BY <1>1, InitEstablishes
  <2>2. OnlyOps(GraphLockedOp) /\ SerialsOK
    BY <1>1 DEF Init, OnlyOps, SerialsOK, SerialOK, Idle, Saving
  <2>3. \A id \in DOMAIN row : row[id].dependsOn = {}
    BY <1>1 DEF Init, NewTask
  <2>4. DependenciesAcyclic
    <3> SUFFICES ASSUME NEW id \in DOMAIN row,
                        NEW x \in ReachableFrom(DependencyGraph, id),
                        NEW y \in DependencyGraph[x]
                 PROVE  FALSE
      BY DEF DependenciesAcyclic, CycleFrom
    <3>1. x \in DOMAIN row
      BY DEF ReachableFrom, DependencyGraph
    <3> QED
      BY <2>3, <3>1 DEF DependencyGraph
  <2> QED
    BY <2>1, <2>2, <2>3, <2>4 DEF SerialInv, EdgesInside
<1>2. ASSUME SerialInv, [Next]_vars
      PROVE  SerialInv'
  <2>1. IInv' /\ SerialsOK' /\ EdgesInside' /\ DependenciesAcyclic'
    BY <1>2, StepKeeps, SerialsKept, GraphKept DEF SerialInv
  <2>2. OnlyOps(GraphLockedOp)'
    <3>1. "request_transition" \in GraphLockedOp
      BY DEF GraphLockedOp, TransitionOp
    <3> QED
      BY <1>2, <3>1, CallsOnly DEF SerialInv, IInv
  <2> QED
    BY <2>1, <2>2 DEF SerialInv
<1> QED
  BY <1>1, <1>2

(* Edits of the dependencies that overlap never close a cycle: each one is    *)
(* validated against the graph it is written into (set_dependencies and       *)
(* create_task under _dependency_lock, service.py).                           *)
THEOREM NoDependencyCycle ==
  ASSUME \A c \in Call : c.op \in GraphLockedOp
  PROVE  Spec => []DependenciesAcyclic
<1>1. SerialInv => DependenciesAcyclic
  BY DEF SerialInv
<1> QED
  BY <1>1, SerialInvariant, PTL DEF Spec

ClaimsOK == \A r \in Req : ClaimOK(r)

(* While a handler works on a copy that goes on being current, the claim of   *)
(* its task stays as it is, and with it what a claim was decided by.          *)
LEMMA ClaimStays ==
  ASSUME IInv, [Next]_vars, Note, NEW q \in Req, AtWork(q), AtWork(q)',
         Target(q)' = Target(q), q \notin missed'["dependency"]
  PROVE  /\ Loaded(q)'.claimed = Loaded(q).claimed
         /\ request[q].op = "claim" =>
              /\ Readiness(q)' = Readiness(q)
              /\ Loaded(q)'.launchPaused = Loaded(q).launchPaused
<1>1. /\ Target(q) \in DOMAIN row
      /\ Loaded(q) = row[Target(q)]
      /\ Loaded(q)' = row'[Target(q)]
      /\ request[q].pc # "idle" /\ request[q].pc \in Inside
      /\ request[q].op # "create_task"
  BY AtWorkOn DEF Loaded
<1>2. CASE row' = row
  BY <1>1, <1>2 DEF Readiness, DependenciesBlocking, DependencyBlocks
<1>3. ASSUME NEW r \in Req, request'[r] # request[r],
             \/ ~(request[r].pc \in Saving /\ request'[r].pc \in Saving)
             \/ request[r].pc = "review",
             Written(r) \/ Created(r) \/ SetLaunchPause(r)
      PROVE  /\ Loaded(q)'.claimed = Loaded(q).claimed
             /\ request[q].op = "claim" =>
                  /\ Readiness(q)' = Readiness(q)
                  /\ Loaded(q)'.launchPaused = Loaded(q).launchPaused
  <2>1. CASE r = q
    <3>1. request[q].pc = "review"
      BY <1>3, <2>1 DEF AtWork
    <3>2. Created(q) /\ request[q].op # "claim"
      BY <1>3, <2>1, <3>1 DEF Written, SetLaunchPause, IInv, StepOK, TransitionOp
    <3> QED
      BY <1>1, <3>2, CreatedRow
  <2>2. CASE r # q
    <3>1. /\ request[r].pc # "idle" /\ request[r].pc \in Inside
          /\ Written(r) \/ request[r].op \in GraphLockedOp
      <4>1. StepOK(r)
        BY DEF IInv
      <4>2. request[r].pc \in {"update", "review", "load", "target"}
        BY <1>3 DEF Written, Created, SetLaunchPause, At
      <4>3. Created(r) => request[r].op \in TransitionOp \cup {"create_task"}
        BY <4>1 DEF Created, StepOK, At
      <4>4. SetLaunchPause(r) => request[r].op \in {"pause_launch", "retry_task"}
        BY <4>1 DEF SetLaunchPause, StepOK
      <4> QED
        BY <1>3, <4>2, <4>3, <4>4 DEF Inside, Holding, Step, GraphLockedOp
    <3>2. ~KeptApart("dependency", q, r)
      <4> SUFFICES ASSUME KeptApart("dependency", q, r)
                   PROVE  FALSE
        OBVIOUS
      <4>1. request[q].op \in GraphLockedOp /\ request[r].op \in GraphLockedOp
        BY DEF KeptApart, LockedOp
      <4>2. graphLock = q /\ graphLock = r
        BY <1>1, <3>1, <4>1 DEF IInv, LocksOK
      <4> QED
        BY <2>2, <4>2
    <3>3. Readiness(q)' = Readiness(q)
      BY <1>3, <2>2, <3>2, KeptInstep DEF Lock, Outdated
    <3>4. Loaded(q)'.claimed = Loaded(q).claimed
      BY <3>3 DEF Readiness
    <3>5. ASSUME request[q].op = "claim"
          PROVE  Loaded(q)'.launchPaused = Loaded(q).launchPaused
      <4>1. request[q].op \in GraphLockedOp
        BY <3>5 DEF GraphLockedOp
      <4>2. request[r].op \notin GraphLockedOp
        BY <3>2, <4>1 DEF KeptApart, LockedOp
      <4>3. Written(r)
        BY <3>1, <4>2
      <4> QED
        BY <1>1, <4>3, WrittenRow
    <3> QED
      BY <3>3, <3>4, <3>5
  <2> QED
    BY <2>1, <2>2
<1> QED
  BY <1>2, <1>3, WriterMoves

(* A release makes a copy without a claim. *)
LEMMA ReleaseMakes ==
  ASSUME IInv, NEW q \in Req, Handler(q), request[q].pc = "load", request[q].op = "release",
         request'[q].pc \in Saving
  PROVE  request'[q].task.claimed = Nil
<1>1. Release(q)
  BY DEF Handler, ApplyOperation, RequestTransition, SetState, ResolveResponsibility,
         CreateReviewTask, RecordStageEntryWake, Claim, ClaimIfReady, SetDependencies,
         ValidateDependencies, CreateTask, PauseLaunch, RetryTask, SetLaunchPause, SetTurn,
         SetBlocked, SetAttention, SetFact, SetGovernor, Validate, Update, ListGoverned,
         DropGoverned, FinishCascade, At
<1>2. request'[q].task = [Loaded(q) EXCEPT !.claimed = Nil]
  BY <1>1 DEF Release, Save, IInv, TypeOK, RequestRecord
<1>3. Loaded(q) \in TaskRecord
  BY LoadedRow
<1> QED
  BY <1>2, <1>3 DEF TaskRecord

(* So a current copy goes on holding the claim that is stored, or what its    *)
(* handler decided to make of it.                                             *)
LEMMA ClaimsKept ==
  ASSUME IInv, ClaimsOK, [Next]_vars, Note
  PROVE  ClaimsOK'
<1> SUFFICES ASSUME NEW q \in Req, AtWork(q)', q \notin missed'["dependency"]
             PROVE  ClaimOK(q)'
  BY DEF ClaimsOK, ClaimOK
<1>1. IInv' /\ StepOK(q) /\ StepOK(q)'
  BY StepKeeps DEF IInv
<1>2. CASE /\ AtWork(q)
           /\ Target(q)' = Target(q)
           /\ arg'[q] = arg[q]
           /\ request'[q].op = request[q].op
           /\ request'[q] = request[q] \/ (Handler(q) /\ WorksOn(q))
  <2>1. /\ q \notin missed["dependency"]
        /\ Loaded(q)'.claimed = Loaded(q).claimed
        /\ request[q].op = "claim" =>
             /\ Readiness(q)' = Readiness(q)
             /\ Loaded(q)'.launchPaused = Loaded(q).launchPaused
    BY <1>2, KeptInstep, ClaimStays DEF Lock
  <2>2. ClaimOK(q)
    BY DEF ClaimsOK
  <2>3. request[q].pc = "ready" => request[q].op = "claim"
    BY <1>1 DEF StepOK
  <2>4. request[q].op # "claim" => request'[q].task.claimed = request[q].task.claimed
    BY <1>2, <2>3 DEF WorksOn
  <2>5. ASSUME request[q].op = "claim"
        PROVE  ClaimDecided(q)'
    <3> DEFINE task == request[q].task
               old  == Loaded(q)
    <3>1. /\ old'.claimed = old.claimed
          /\ old'.state = old.state
          /\ old'.dependsOn = old.dependsOn
          /\ DependenciesBlocking(old)' <=> DependenciesBlocking(old)
          /\ old'.launchPaused = old.launchPaused
      BY <2>1, <2>5 DEF Readiness
    <3>2. ClaimDecided(q)
      BY <1>2, <2>1, <2>2, <2>5 DEF ClaimOK
    <3>3. /\ task.workflow = old.workflow
          /\ old'.workflow = request'[q].task.workflow
      BY <1>1, <1>2 DEF IInv, CopyOK, AtWork
    <3>4. CASE request'[q] = request[q]
      <4>1. Terminal(old)' <=> Terminal(old)
        BY <3>1, <3>3, <3>4 DEF Terminal
      <4> QED
        BY <1>2, <3>1, <3>2, <3>4, <4>1 DEF ClaimDecided
    <3>5. CASE WorksOn(q) /\ request[q].pc = "ready"
      <4>1. /\ request'[q].task.claimed = arg[q]
            /\ request'[q].pc # "ready"
            /\ ~(task.claimed = Nil /\ (Terminal(task) \/ DependenciesBlocking(task)))
        BY <3>5 DEF WorksOn
      <4>2. task.claimed = old.claimed /\ task.state = old.state /\ task.dependsOn = old.dependsOn
        BY <3>2, <3>5 DEF ClaimDecided
      <4>3. /\ Terminal(task) <=> Terminal(old)
            /\ DependenciesBlocking(task) <=> DependenciesBlocking(old)
        BY <3>3, <4>2 DEF Terminal, DependenciesBlocking
      <4>4. old.workflow = old'.workflow
        BY <1>2, <2>5, SameWorkflow
      <4>5. Terminal(old)' <=> Terminal(old)
        BY <3>1, <4>4 DEF Terminal
      <4> QED
        BY <1>2, <3>1, <3>2, <4>1, <4>2, <4>3, <4>5 DEF ClaimDecided
    <3>6. CASE WorksOn(q) /\ request[q].pc # "ready"
      <4>1. request'[q].task.claimed = task.claimed /\ request'[q].pc # "ready"
        BY <3>6 DEF WorksOn
      <4>2. old.workflow = old'.workflow
        BY <1>2, <2>5, SameWorkflow
      <4>3. Terminal(old)' <=> Terminal(old)
        BY <3>1, <4>2 DEF Terminal
      <4> QED
        BY <1>2, <3>1, <3>2, <3>6, <4>1, <4>3 DEF ClaimDecided
    <3> QED
      BY <1>2, <3>4, <3>5, <3>6
  <2> QED
    BY <1>2, <2>1, <2>2, <2>4, <2>5 DEF ClaimOK
<1>3. CASE /\ request[q].pc = "load" /\ Handler(q) /\ Made(q)
           /\ Target(q)' = Target(q)
           /\ arg'[q] = arg[q]
           /\ request'[q].op = request[q].op
           /\ row' = row
  <2>1. Loaded(q)' = Loaded(q)
    BY <1>3 DEF Loaded
  <2>2. request[q].op = "claim" => request'[q].pc = "ready"
    BY <1>1, <1>3 DEF Made, AtWork, Saving, StepOK, TaskLockedOp, TransitionOp, UnlockedOp
  <2>3. request[q].op = "claim" => ClaimDecided(q)'
    BY <1>3, <2>1, <2>2 DEF Made, ClaimDecided
  <2>4. request[q].op = "release" => request'[q].task.claimed = Nil
    BY <1>3, ReleaseMakes DEF AtWork
  <2>5. request[q].op # "release" => request'[q].task.claimed = Loaded(q)'.claimed
    BY <1>3, <2>1 DEF Made
  <2> QED
    BY <1>3, <2>3, <2>4, <2>5 DEF ClaimOK
<1> QED
  BY <1>2, <1>3, CopyGoesOn

(* A write that changes a claim gives it up, claims a task it found ready, or *)
(* is of a copy that another write has outdated.                              *)
LEMMA ClaimAtWrite ==
  ASSUME IInv, ClaimsOK, [Next]_vars, NEW id \in DOMAIN row, row'[id].claimed # row[id].claimed
  PROVE  \/ /\ row[id].claimed = Nil
            /\ ~Terminal(row[id]) /\ ~row[id].launchPaused /\ ~DependenciesBlocking(row[id])
         \/ GivesUp(id)
         \/ StaleSave("dependency", id)
<1>1. PICK r \in Req : /\ request'[r] # request[r]
                       /\ Written(r) \/ Created(r) \/ SetLaunchPause(r)
  BY WriterMoves
<1>2. ~Created(r)
  BY CreatedRow
<1>3. CASE SetLaunchPause(r)
  BY <1>3, PausedRow DEF GivesUp
<1>4. CASE Written(r)
  <2>1. /\ id = Target(r) /\ row'[id].claimed = request[r].task.claimed
        /\ Loaded(r) = row[id]
    BY <1>4, WrittenRow
  <2>2. request[r].pc = "update" /\ AtWork(r)
    BY <1>4 DEF Written, AtWork, Saving
  <2>3. CASE r \in missed["dependency"]
    BY <1>1, <2>1, <2>2, <2>3 DEF StaleSave
  <2>4. CASE r \notin missed["dependency"]
    <3>1. ClaimOK(r)
      BY DEF ClaimsOK
    <3>2. request[r].op \in {"claim", "release"}
      BY <2>1, <2>2, <2>4, <3>1 DEF ClaimOK
    <3>3. CASE request[r].op = "release"
      BY <2>1, <2>2, <2>4, <3>1, <3>3 DEF ClaimOK, GivesUp
    <3>4. CASE request[r].op = "claim"
      <4>1. ClaimDecided(r)
        BY <2>2, <2>4, <3>1, <3>4 DEF ClaimOK
      <4> QED
        BY <2>1, <2>2, <4>1 DEF ClaimDecided
    <3> QED
      BY <3>2, <3>3, <3>4
  <2> QED
    BY <2>3, <2>4
<1> QED
  BY <1>1, <1>2, <1>3, <1>4

(* With the locks' invariant, this one of the claims holds from the start on: *)
(* the two theorems below read it at the write of a row.                      *)
LEMMA ClaimInvariant ==
  /\ NotedInit => IInv /\ ClaimsOK
  /\ IInv /\ ClaimsOK /\ [Next /\ Note]_noted => (IInv /\ ClaimsOK)'
<1>1. NotedInit => IInv /\ ClaimsOK
  <2>1. Init => ClaimsOK
    BY DEF Init, ClaimsOK, ClaimOK, AtWork, Idle, Saving
  <2> QED
    BY <2>1, InitEstablishes DEF NotedInit
<1>2. IInv /\ ClaimsOK /\ Next /\ Note => (IInv /\ ClaimsOK)'
  BY StepKeeps, ClaimsKept
<1>3. IInv /\ ClaimsOK /\ UNCHANGED noted => (IInv /\ ClaimsOK)'
  <2> SUFFICES ASSUME IInv, ClaimsOK, UNCHANGED noted
               PROVE  (IInv /\ ClaimsOK)'
    OBVIOUS
  <2>1. UNCHANGED vars /\ missed' = missed
    BY DEF noted
  <2>2. IInv'
    BY <2>1, StepKeeps
  <2> QED
    BY <2>1, <2>2
       DEF vars, ClaimsOK, ClaimOK, ClaimDecided, AtWork, Loaded, Target, Terminal,
           DependenciesBlocking, DependencyBlocks
<1> QED
  BY <1>1, <1>2, <1>3

(* A task is claimed only while it can run: what claim found of the task and  *)
(* of its dependencies still holds when the claim is recorded (service.py     *)
(* claim, under _dependency_lock), but for the save of a copy that a handler  *)
(* outside that lock has outdated.                                            *)
THEOREM ClaimsAreReady == NotedSpec => ClaimOnlyReady
<1>1. IInv /\ ClaimsOK /\ [Next /\ Note]_noted
        => [\A id \in DOMAIN row :
              (row[id].claimed = Nil /\ row'[id].claimed # Nil)
                => \/ /\ ~Terminal(row[id])
                      /\ ~row[id].launchPaused
                      /\ \A d \in row[id].dependsOn : Terminal(row[d]) /\ row[d].state # Dropped
                   \/ StaleSave("dependency", id)]_row
  BY ClaimAtWrite DEF DependenciesBlocking, DependencyBlocks, GivesUp, noted, vars
<1> QED
  BY <1>1, ClaimInvariant, PTL DEF NotedSpec, ClaimOnlyReady

(* And it loses its runner only to a release or a retry of that task, or to   *)
(* such a save.                                                               *)
THEOREM ClaimsAreKept == NotedSpec => ClaimGivenUpOnly
<1>1. IInv /\ ClaimsOK /\ [Next /\ Note]_noted
        => [\A id \in DOMAIN row :
              (row[id].claimed # Nil /\ row'[id].claimed # row[id].claimed)
                => GivesUp(id) \/ StaleSave("dependency", id)]_row
  BY ClaimAtWrite DEF noted, vars
<1> QED
  BY <1>1, ClaimInvariant, PTL DEF NotedSpec, ClaimGivenUpOnly

-----------------------------------------------------------------------------
(* Cascades *)

(* The j-th frame of q's stack is of a governor whose cascade is under way.   *)
Governs(q, j) ==
  /\ j \in 1..Len(request[q].stack)
  /\ j < Len(request[q].stack) \/ request[q].pc \in {"list", "cascade"}

(* The frames whose cascade q goes on with, and the one it may begin: that of *)
(* the task whose drop it has just recorded.                                  *)
Begins(q, j) ==
  /\ Update(q) /\ Written(q)
  /\ request'[q].stack[j].task = Target(q)
  /\ request[q].task.state = Dropped

GoesOnGoverning(q, j) ==
  /\ Governs(q, j)
  /\ request'[q].stack[j].task = request[q].stack[j].task

(* A handler at rest has nothing on its stack. *)
Rested == \A r \in Req : request[r].pc = "idle" => request[r].stack = <<>>

(* A governor has its task's lock, and nobody else works on its row.          *)
LEMMA GovernorHolds ==
  ASSUME IInv, Rested, NEW q \in Req, NEW j, Governs(q, j)
  PROVE  LET id == request[q].stack[j].task
         IN  /\ id \in DOMAIN row
             /\ taskLock[id] = q
             /\ request[q].pc \notin {"list", "cascade", "waitTask", "idle"} => id # Target(q)
<1>1. /\ StackOK(q) /\ StepOK(q) /\ LocksOK(q)
      /\ request[q].stack \in Seq([task : Task \cup {Nil}, todo : SUBSET Task])
  BY DEF IInv, TypeOK, RequestRecord
<1>2. request[q].pc # "idle"
  BY DEF Governs, Rested
<1>3. CASE j < Len(request[q].stack)
  <2>1. j \in 1..(Len(request[q].stack) - 1) /\ Len(request[q].stack) \in Nat
    BY <1>1, <1>3 DEF Governs
  <2>2. request[q].stack[j].task \in DOMAIN row /\ taskLock[request[q].stack[j].task] = q
    BY <1>1, <1>2, <2>1 DEF StackOK
  <2>3. request[q].pc # "waitTask" => request[q].stack[j].task # Target(q)
    <3> DEFINE stack == request[q].stack
               len == Len(stack)
    <3>1. j \in 1..len /\ len \in 1..len
      BY <2>1
    <3>2. ASSUME request[q].pc # "waitTask", NEW m \in 1..len, NEW n \in 1..len, m < n
          PROVE  stack[m].task # stack[n].task
      BY <1>1, <1>2, <3>2 DEF StackOK
    <3>3. Target(q) = stack[len].task
      BY DEF Target
    <3> HIDE DEF len, stack
    <3>4. request[q].pc # "waitTask" => stack[j].task # stack[len].task
      BY <1>3, <3>1, <3>2 DEF len, stack
    <3> QED
      BY <3>3, <3>4 DEF stack
  <2> QED
    BY <2>2, <2>3
<1>4. CASE j = Len(request[q].stack)
  <2>1. request[q].pc \in {"list", "cascade"} /\ request[q].op \in TransitionOp
    BY <1>1, <1>4 DEF Governs, StepOK
  <2>2. taskLock[Target(q)] = q
    BY <1>1, <2>1 DEF LocksOK, TaskLockedOp, Holding, Step
  <2>3. Target(q) \in DOMAIN row
    BY <1>1, <1>2, <2>1 DEF StackOK, TransitionOp
  <2> QED
    BY <1>4, <2>1, <2>2, <2>3 DEF Target
<1> QED
  BY <1>1, <1>3, <1>4 DEF Governs

(* So its state stays while its cascade runs. *)
LEMMA GovernorStays ==
  ASSUME IInv, Rested, NoUnlockedRequest, StateMatchesTail, [Next]_vars,
         NEW q \in Req, NEW j, Governs(q, j)
  PROVE  LET id == request[q].stack[j].task
         IN  id \in DOMAIN row /\ row'[id].state = row[id].state
<1> DEFINE id == request[q].stack[j].task
<1>1. /\ id \in DOMAIN row
      /\ taskLock[id] = q
      /\ request[q].pc = "update" => id # Target(q)
  BY GovernorHolds
<1> HIDE DEF id
<1>2. ASSUME NEW r \in Req, Created(r) \/ SetLaunchPause(r)
      PROVE  row'[id].state = row[id].state
  BY <1>1, <1>2, CreatedRow, PausedRow
<1>3. ASSUME NEW r \in Req, Written(r)
      PROVE  row'[id].state = row[id].state
  <2>1. CASE id # Target(r)
    BY <1>1, <1>3, <2>1, WrittenRow
  <2>2. CASE id = Target(r) /\ request[r].op \in TaskLockedOp
    <3>1. taskLock[id] = r
      BY <1>3, <2>2 DEF IInv, LocksOK, Written, Holding, Step
    <3> QED
      BY <1>1, <1>3, <2>2, <3>1 DEF Written
  <2>3. CASE id = Target(r) /\ request[r].op \notin TaskLockedOp
    <3> DEFINE task == request[r].task
               old  == row[id]
    <3>1. StepOK(r) /\ CopyOK(r) /\ request[r].pc = "update" /\ request[r].op \notin UnlockedOp
      BY <1>3 DEF IInv, Written, NoUnlockedRequest
    <3>2. ~request[r].moved
      BY <2>3, <3>1 DEF StepOK, TaskLockedOp
    <3>3. /\ request[r].stored = Last(old)
          /\ Last(task) = Last(old)
          /\ Last(old) \in Nat \ {0}
          /\ Consistent(task)
          /\ row'[id].state = task.state
      BY <1>3, <2>3, <3>1, <3>2, WrittenRow DEF Appended
    <3>4. TransitionFacts(task.history[Last(old)]) = TransitionFacts(old.history[Last(old)])
      BY <2>3, <3>1, <3>3 DEF CopyOK, Saving, Loaded
    <3>5. task.history[Last(old)].to = old.history[Last(old)].to
      BY <3>4 DEF TransitionFacts
    <3>6. Consistent(old)
      BY <1>1 DEF StateMatchesTail
    <3> QED
      BY <3>3, <3>5, <3>6 DEF Consistent, CurrentEntry, Last
  <2> QED
    BY <2>1, <2>2, <2>3
<1>4. row'[id].state = row[id].state
  BY <1>2, <1>3, RowStep
<1> QED
  BY <1>1, <1>4 DEF id

(* Returning leaves the frames of the cascades that called the handler.       *)
LEMMA ReturnGoverns ==
  ASSUME IInv, NEW q \in Req, request[q].pc # "idle", ReturnFrom(q)
  PROVE  /\ request'[q].pc = "idle" => request'[q].stack = <<>>
         /\ \A j : Governs(q, j)' => GoesOnGoverning(q, j)
<1> DEFINE stack == request[q].stack
           outer == SubSeq(stack, 1, Len(stack) - 1)
<1>1. request \in [Req -> RequestRecord] /\ stack \in Seq([task : Task \cup {Nil}, todo : SUBSET Task])
      /\ stack # <<>>
  BY DEF IInv, TypeOK, RequestRecord, StackOK
<1>2. request'[q] = IF outer = <<>> THEN Idle
                    ELSE [Idle EXCEPT !.pc = "cascade", !.op = "request_transition", !.stack = outer]
  BY <1>1 DEF ReturnFrom
<1> HIDE DEF stack
<1>3. Len(outer) = Len(stack) - 1 /\ \A j \in 1..Len(outer) : outer[j] = stack[j]
  <2> DEFINE n == Len(stack) - 1
             Type == [task : Task \cup {Nil}, todo : SUBSET Task]
  <2>1. stack \in Seq(Type) /\ stack # <<>>
    BY <1>1
  <2> HIDE DEF Type
  <2>2. Len(stack) \in Nat \ {0}
    BY <2>1, EmptySeq, LenProperties
  <2>3. n \in Nat /\ 1 \in Int /\ n \in Int /\ \A j \in 1..n : stack[j] \in Type
    BY <2>1, <2>2
  <2> HIDE DEF n
  <2>4. /\ Len(SubSeq(stack, 1, n)) = n
        /\ \A j \in 1..n : SubSeq(stack, 1, n)[j] = stack[j]
    BY <2>1, <2>3, SubSeqProperties
  <2> QED
    BY <2>4 DEF n
<1> HIDE DEF outer
<1>4. request'[q].stack = outer /\ (request'[q].pc = "idle" => outer = <<>>)
  <2>1. CASE outer = <<>>
    BY <1>2, <2>1 DEF Idle
  <2>2. CASE outer # <<>>
    <3>1. request'[q] = [Idle EXCEPT !.pc = "cascade", !.op = "request_transition", !.stack = outer]
      BY <1>2, <2>2
    <3> QED
      BY <3>1 DEF Idle
  <2> QED
    BY <2>1, <2>2
<1>5. ASSUME NEW j, Governs(q, j)'
      PROVE  GoesOnGoverning(q, j)
  <2>1. j \in 1..Len(outer)
    BY <1>4, <1>5 DEF Governs
  <2>2. j \in 1..Len(stack) /\ j < Len(stack) /\ outer[j] = stack[j]
    BY <1>1, <1>3, <2>1
  <2> QED
    BY <1>4, <2>2 DEF GoesOnGoverning, Governs, stack
<1> QED
  BY <1>4, <1>5

(* A step of a handler that neither returns nor goes on to save.              *)
LEMMA OwnStepGoverns ==
  ASSUME IInv, NEW q \in Req, Handler(q), request'[q].pc \notin Saving
  PROVE  /\ request'[q].pc = "idle" => request'[q].stack = <<>>
         /\ \A j : Governs(q, j)' => GoesOnGoverning(q, j) \/ Begins(q, j)
<1>1. /\ request \in [Req -> RequestRecord]
      /\ request[q].stack \in Seq([task : Task \cup {Nil}, todo : SUBSET Task])
      /\ request[q].pc # "idle"
      /\ StackOK(q)
  BY OperationStays DEF IInv, TypeOK, RequestRecord
<1>2. request[q].stack # <<>> /\ Len(request[q].stack) \in Nat \ {0}
  BY <1>1 DEF StackOK
<1> DEFINE Goal == /\ request'[q].pc = "idle" => request'[q].stack = <<>>
                   /\ \A j : Governs(q, j)' => GoesOnGoverning(q, j) \/ Begins(q, j)
<1> SUFFICES Goal
  OBVIOUS
<1>3. ASSUME request'[q] = Idle
      PROVE  Goal
  BY <1>3 DEF Idle, Governs
<1>4. ASSUME ReturnFrom(q)
      PROVE  Goal
  BY <1>1, <1>4, ReturnGoverns
<1>5. CASE Fail(q) \/ CreateTask(q) \/ SetLaunchPause(q)
  <2>1. request' = [request EXCEPT ![q] = Idle]
    BY <1>5 DEF Fail, CreateTask, SetLaunchPause
  <2> QED
    BY <1>1, <1>3, <2>1
<1>6. CASE (PauseLaunch(q) \/ RetryTask(q)) /\ ~Fail(q)
  <2>1. request' = [request EXCEPT ![q].pc = "target"]
    BY <1>6 DEF PauseLaunch, RetryTask
  <2>2. request'[q].pc = "target" /\ request'[q].stack = request[q].stack
    BY <1>1, <2>1 DEF RequestRecord
  <2> QED
    BY <2>2 DEF Governs, GoesOnGoverning
<1>7. CASE Update(q) /\ ~Fail(q) /\ ~ReturnFrom(q)
  <2>1. /\ request' = [request EXCEPT ![q].pc = "list", ![q].task = Nil]
        /\ request[q].task.state = Dropped
        /\ Written(q)
    BY <1>7 DEF Update, Written, Loaded
  <2>2. request'[q].pc = "list" /\ request'[q].stack = request[q].stack
    BY <1>1, <2>1 DEF RequestRecord
  <2>3. ASSUME NEW j, Governs(q, j)'
        PROVE  GoesOnGoverning(q, j) \/ Begins(q, j)
    <3>1. j \in 1..Len(request[q].stack)
      BY <2>2, <2>3 DEF Governs
    <3>2. CASE j < Len(request[q].stack)
      BY <2>2, <3>1, <3>2 DEF Governs, GoesOnGoverning
    <3>3. CASE j = Len(request[q].stack)
      BY <1>7, <2>1, <2>2, <3>3 DEF Begins, Target
    <3> QED
      BY <1>2, <3>1, <3>2, <3>3
  <2> QED
    BY <2>2, <2>3
<1>8. CASE ListGoverned(q)
  <2> DEFINE n == Len(request[q].stack)
             governed == {id \in DOMAIN row : row[id].governor = Target(q) /\ ~Terminal(row[id])}
  <2>1. /\ request[q].pc = "list"
        /\ request' = [request EXCEPT ![q].pc = "cascade", ![q].stack[n].todo = governed]
    BY <1>8 DEF ListGoverned
  <2> HIDE DEF governed
  <2>2. /\ request'[q].pc = "cascade"
        /\ Len(request'[q].stack) = n
        /\ \A j \in 1..n : request'[q].stack[j].task = request[q].stack[j].task
    BY <1>1, <2>1 DEF RequestRecord
  <2> QED
    BY <2>1, <2>2 DEF Governs, GoesOnGoverning
<1>9. CASE DropGoverned(q)
  <2> DEFINE n == Len(request[q].stack)
  <2>1. PICK id \in request[q].stack[n].todo :
          request' = [request EXCEPT ![q] =
            [Idle EXCEPT !.pc = "waitTask", !.op = "request_transition",
               !.stack = Append([request[q].stack EXCEPT ![n].todo = @ \ {id}], Frame(id))]]
    BY <1>9 DEF DropGoverned
  <2> DEFINE rest == [request[q].stack EXCEPT ![n].todo = @ \ {id}]
  <2>2. rest \in Seq([task : Task \cup {Nil}, todo : SUBSET Task]) /\ Len(rest) = n
        /\ \A j \in 1..n : rest[j].task = request[q].stack[j].task
    <3> DEFINE stack == request[q].stack
               Type  == [task : Task \cup {Nil}, todo : SUBSET Task]
               frame == stack[n]
               left  == [frame EXCEPT !.todo = @ \ {id}]
    <3>1. stack \in Seq(Type) /\ n \in 1..Len(stack)
      BY <1>1, <1>2
    <3>2. frame \in Type
      <4> HIDE DEF stack, n, Type
      <4> QED
        BY <3>1
    <3>3. left \in Type /\ left.task = frame.task
      BY <3>2
    <3>4. rest = [stack EXCEPT ![n] = left]
      OBVIOUS
    <3> HIDE DEF left, rest, Type, stack
    <3>5. /\ rest \in Seq(Type) /\ Len(rest) = Len(stack)
          /\ \A j \in 1..Len(stack) : rest[j] = IF j = n THEN left ELSE stack[j]
      BY <3>1, <3>3, <3>4, ExceptSeq
    <3>6. Len(rest) = n
      BY <3>5 DEF stack
    <3>7. \A j \in 1..n : rest[j].task = request[q].stack[j].task
      BY <3>3, <3>5 DEF stack
    <3> QED
      BY <3>5, <3>6, <3>7 DEF Type
  <2>3. /\ request'[q].pc = "waitTask"
        /\ request'[q].stack = Append(rest, Frame(id))
        /\ request[q].pc = "cascade"
    BY <1>1, <1>9, <2>1 DEF Idle, DropGoverned
  <2> HIDE DEF rest
  <2>4. Len(request'[q].stack) = n + 1 /\ \A j \in 1..n : request'[q].stack[j] = rest[j]
    BY <2>2, <2>3
  <2>5. ASSUME NEW j, Governs(q, j)'
        PROVE  GoesOnGoverning(q, j)
    <3>1. j \in 1..n
      BY <1>2, <2>3, <2>4, <2>5 DEF Governs
    <3> QED
      BY <2>2, <2>3, <2>4, <3>1 DEF Governs, GoesOnGoverning
  <2> QED
    BY <2>3, <2>5
<1>10. ASSUME NEW task
       PROVE  /\ ~Save(q, task)
              /\ \A to, trigger : ~Transit(q, task, to, trigger)
              /\ \A to, trigger : Gated(q, task, to, trigger) => Fail(q)
  <2>1. ~Save(q, task)
    BY <1>1 DEF Save, RequestRecord, Saving
  <2>2. ASSUME NEW to, NEW trigger
        PROVE  ~Transit(q, task, to, trigger)
    BY <1>1 DEF Transit, RequestRecord, Saving
  <2> QED
    BY <2>1, <2>2 DEF Gated
<1>11. ~CreateReviewTask(q) /\ (Claim(q) \/ SetDependencies(q) \/ Validate(q) => Fail(q))
  <2>1. CreateReviewTask(q) => request'[q].pc = "validate"
    BY <1>1 DEF CreateReviewTask, RequestRecord
  <2>2. (Claim(q) \/ SetDependencies(q) \/ Validate(q)) /\ ~Fail(q)
          => request'[q].pc \in {"ready", "acyclic", "update"}
    BY <1>1 DEF Claim, SetDependencies, Validate, RequestRecord
  <2> QED
    BY <2>1, <2>2 DEF Saving
<1>12. FinishCascade(q) => ReturnFrom(q)
  BY DEF FinishCascade
<1> HIDE DEF Goal
<1>13. ApplyOperation(q) \/ RequestTransition(q) \/ SetState(q) \/ ResolveResponsibility(q) => Fail(q)
  BY <1>10 DEF ApplyOperation, RequestTransition, SetState, ResolveResponsibility
<1>14. RecordStageEntryWake(q) \/ ClaimIfReady(q) \/ ValidateDependencies(q) \/ SetGovernor(q)
         => Fail(q)
  BY <1>10 DEF RecordStageEntryWake, ClaimIfReady, ValidateDependencies, SetGovernor
<1>15. ~Release(q) /\ ~SetTurn(q) /\ ~SetBlocked(q) /\ ~SetAttention(q) /\ ~SetFact(q)
  BY <1>10 DEF Release, SetTurn, SetBlocked, SetAttention, SetFact
<1> QED
  <2>1. CASE Fail(q) \/ ReturnFrom(q)
    BY <1>4, <1>5, <2>1
  <2>2. CASE ~(Fail(q) \/ ReturnFrom(q))
    <3>1. \/ CreateTask(q) \/ SetLaunchPause(q) \/ PauseLaunch(q) \/ RetryTask(q) \/ Update(q)
          \/ ListGoverned(q) \/ DropGoverned(q)
      BY <1>11, <1>12, <1>13, <1>14, <1>15, <2>2 DEF Handler
    <3> QED
      BY <1>5, <1>6, <1>7, <1>8, <1>9, <2>2, <3>1
  <2> QED
    BY <2>1, <2>2

(* So a step leads only to cascades that were under way, and to the one that  *)
(* follows the drop it records.                                               *)
LEMMA FramesStep ==
  ASSUME IInv, Rested, [Next]_vars, NEW q \in Req
  PROVE  /\ request'[q].pc = "idle" => request'[q].stack = <<>>
         /\ \A j : Governs(q, j)' => GoesOnGoverning(q, j) \/ Begins(q, j)
<1>1. request \in [Req -> RequestRecord]
  BY DEF IInv, TypeOK
<1>2. CASE request'[q] = request[q]
  BY <1>2 DEF Rested, Governs, GoesOnGoverning
<1>3. CASE request'[q].pc \in Saving
  <2>1. request'[q].stack = request[q].stack
    BY <1>3, CopyStep DEF Made, WorksOn, GoesOn
  <2> QED
    BY <1>3, <2>1 DEF Governs, GoesOnGoverning, Saving
<1>4. CASE Crash
  BY <1>4 DEF Crash, Governs, Idle
<1>5. CASE Begin(q)
  <2>1. PICK c \in Call :
          request' = [request EXCEPT ![q] =
            [Idle EXCEPT !.pc = FirstStep(c.op), !.op = c.op, !.stack = <<Frame(c.task)>>]]
    BY <1>5 DEF Begin
  <2>2. request'[q].pc = FirstStep(c.op) /\ request'[q].stack = <<Frame(c.task)>>
    BY <1>1, <2>1 DEF Idle
  <2>3. request'[q].pc \in {"waitTask", "waitGraph", "load"} /\ Len(request'[q].stack) = 1
    BY <2>2 DEF FirstStep
  <2> QED
    BY <2>3 DEF Governs
<1>6. CASE AcquireTaskLock(q) \/ AcquireGraphLock(q)
  <2>1. \/ request' = [request EXCEPT ![q].pc = "waitGraph"]
        \/ request' = [request EXCEPT ![q].pc = "load"]
    BY <1>6 DEF AcquireTaskLock, AcquireGraphLock
  <2>2. request'[q].pc \in {"waitGraph", "load"} /\ request'[q].stack = request[q].stack
    BY <1>1, <2>1 DEF RequestRecord
  <2> QED
    BY <2>2 DEF Governs, GoesOnGoverning
<1>7. CASE Handler(q) /\ request'[q].pc \notin Saving
  BY <1>7, OwnStepGoverns
<1>8. ASSUME NEW r \in Req \ {q},
             Begin(r) \/ Handler(r) \/ AcquireTaskLock(r) \/ AcquireGraphLock(r)
      PROVE  request'[q] = request[q]
  BY <1>1, <1>8, OperationStays DEF Begin, IInv
<1> QED
  BY <1>2, <1>3, <1>4, <1>5, <1>6, <1>7, <1>8 DEF Next, vars, Quiescent

CascadeInv == LockedIInv /\ Rested /\ GovernorStaysDropped

(* Every cascade under way is of a governor that is dropped and stays so. *)
LEMMA CascadeKept ==
  ASSUME CascadeInv, [Next]_vars
  PROVE  Rested' /\ GovernorStaysDropped'
<1>1. IInv /\ Rested /\ NoUnlockedRequest /\ StateMatchesTail
  BY DEF CascadeInv, LockedIInv
<1>2. \A q \in Req : \A j : Governs(q, j) => row[request[q].stack[j].task].state = Dropped
  BY DEF CascadeInv, GovernorStaysDropped, Governs
<1>3. ASSUME NEW q \in Req, NEW j, Governs(q, j)'
      PROVE  row'[request'[q].stack[j].task].state = Dropped
  <2>1. CASE GoesOnGoverning(q, j)
    <3>1. Governs(q, j) /\ request'[q].stack[j].task = request[q].stack[j].task
      BY <2>1 DEF GoesOnGoverning
    <3> QED
      BY <1>1, <1>2, <3>1, GovernorStays
  <2>2. CASE Begins(q, j)
    <3>1. /\ Written(q)
          /\ request'[q].stack[j].task = Target(q)
          /\ request[q].task.state = Dropped
      BY <2>2 DEF Begins
    <3>2. row'[Target(q)].state = request[q].task.state
      BY <1>1, <3>1, WrittenRow
    <3> QED
      BY <3>1, <3>2
  <2> QED
    BY <1>1, <1>3, <2>1, <2>2, FramesStep
<1>4. GovernorStaysDropped'
  BY <1>3 DEF GovernorStaysDropped, Governs
<1>5. Rested'
  BY <1>1, FramesStep DEF Rested
<1> QED
  BY <1>4, <1>5

(* While a governor's cascade runs nothing revives the governor: its request  *)
(* holds the task's lock from the drop to the last governed task's            *)
(* (_cascade_drop_governed inside _transition_lock, service.py), as long as   *)
(* every call takes a lock.                                                   *)
THEOREM CascadesHoldGovernor ==
  ASSUME \A c \in Call : c.op \notin UnlockedOp
  PROVE  Spec => []GovernorStaysDropped
<1>1. Init => CascadeInv
  <2>1. Init => Rested /\ GovernorStaysDropped
    BY DEF Init, Rested, GovernorStaysDropped, Idle
  <2> QED
    BY <2>1, InitEstablishes DEF CascadeInv, LockedIInv
<1>2. CascadeInv /\ [Next]_vars => CascadeInv'
  <2> SUFFICES ASSUME CascadeInv, [Next]_vars
               PROVE  CascadeInv'
    OBVIOUS
  <2>1. IInv' /\ NoUnlockedRequest'
    BY StepKeeps, UnlockedStayAway DEF CascadeInv, LockedIInv
  <2>2. StateMatchesTail'
    BY <2>1, TailKept DEF CascadeInv, LockedIInv
  <2> QED
    BY <2>1, <2>2, CascadeKept DEF CascadeInv, LockedIInv
<1>3. CascadeInv => GovernorStaysDropped
  BY DEF CascadeInv
<1> QED
  BY <1>1, <1>2, <1>3, PTL DEF Spec

-----------------------------------------------------------------------------
(* Review tasks *)

MovesOK     == \A r \in Req : MoveOK(r)
GovernorsOK == \A r \in Req : GovernorKept(r)
CreatesOK   == \A r \in Req : CreatesNoReview(r)

(* A handler that is at work on a copy after a step, whose task that is. *)
LEMMA SaverTarget ==
  ASSUME IInv, [Next]_vars, NEW q \in Req, request'[q].pc \in Saving
  PROVE  /\ request'[q].op = request[q].op
         /\ Target(q)' = Target(q)
         /\ Target(q) \in DOMAIN row
         /\ Last(Loaded(q)) \in Nat \ {0}
         /\ request'[q].moved \in BOOLEAN
<1>1. request'[q].op = request[q].op /\ request'[q].stack = request[q].stack
  BY CopyStep DEF Made, WorksOn, GoesOn
<1>2. /\ StepOK(q)'
      /\ request' \in [Req -> RequestRecord]
  BY StepKeeps DEF IInv, TypeOK
<1>3. request[q].op # "create_task" /\ request'[q].moved \in BOOLEAN
  BY <1>1, <1>2 DEF StepOK, Saving, RequestRecord
<1>4. request[q].pc # "idle"
  BY CopyStep DEF Saving
<1> QED
  BY <1>1, <1>3, <1>4, LoadedRow DEF Target

(* No write changes the workflow of a task or whom it is governed by. *)
LEMMA GovernorsStay ==
  ASSUME IInv, GovernorsOK, [Next]_vars, NEW id \in DOMAIN row
  PROVE  /\ id \in DOMAIN row'
         /\ row'[id].governor = row[id].governor
         /\ row'[id].workflow = row[id].workflow
<1>1. ASSUME NEW r \in Req, Written(r)
      PROVE  /\ id \in DOMAIN row'
             /\ row'[id].governor = row[id].governor
             /\ row'[id].workflow = row[id].workflow
  <2>1. request[r].task.governor = Loaded(r).governor
    BY <1>1 DEF GovernorsOK, GovernorKept, Written, Saving
  <2> QED
    BY <1>1, <2>1, WrittenRow
<1>2. ASSUME NEW r \in Req, Created(r)
      PROVE  id \in DOMAIN row' /\ row'[id] = row[id]
  BY <1>2, CreatedRow
<1>3. ASSUME NEW r \in Req, SetLaunchPause(r)
      PROVE  /\ id \in DOMAIN row'
             /\ row'[id].governor = row[id].governor
             /\ row'[id].workflow = row[id].workflow
  BY <1>3, PausedRow
<1> QED
  BY <1>1, <1>2, <1>3, RowStep

(* So every copy keeps the governor it was loaded with. *)
LEMMA GovernorsKept ==
  ASSUME IInv, NoUnlockedRequest, GovernorsOK, [Next]_vars
  PROVE  GovernorsOK'
<1> SUFFICES ASSUME NEW q \in Req, request'[q].pc \in Saving
             PROVE  request'[q].task.governor = row'[Target(q)'].governor
  BY DEF GovernorsOK, GovernorKept, Loaded
<1>1. /\ Target(q)' = Target(q)
      /\ row'[Target(q)].governor = Loaded(q).governor
  BY SaverTarget, GovernorsStay DEF Loaded
<1>2. CASE request'[q] = request[q]
  BY <1>1, <1>2 DEF GovernorsOK, GovernorKept
<1>3. CASE Handler(q) /\ request[q].pc = "load" /\ Made(q)
  <2>1. request[q].op # "set_governor"
    BY <1>3 DEF NoUnlockedRequest, UnlockedOp
  <2> QED
    BY <1>1, <1>3, <2>1 DEF Made
<1>4. CASE Handler(q) /\ request[q].pc \in Saving /\ WorksOn(q)
  BY <1>1, <1>4 DEF GovernorsOK, GovernorKept, WorksOn
<1> QED
  BY <1>2, <1>3, <1>4, CopyStep

(* While a transition is under way nobody else writes its task's history: the *)
(* handler is inside both sections.                                           *)
LEMMA MovesAlone ==
  ASSUME IInv, NoUnlockedRequest, [Next]_vars, NEW q \in Req,
         request[q].pc \in Saving, request[q].moved, request'[q].pc \in Saving
  PROVE  row'[Target(q)].history = row[Target(q)].history
<1>1. Target(q) \in DOMAIN row
  BY SaverTarget
<1>2. request[q].op \in TransitionOp /\ request[q].pc \in Inside /\ request[q].pc \in Holding
  BY DEF IInv, StepOK, Holding, Inside, Saving, Step
<1>3. taskLock[Target(q)] = q /\ graphLock = q
  BY <1>2 DEF IInv, LocksOK, TaskLockedOp, GraphLockedOp
<1>4. ASSUME NEW r \in Req, Update(r), Written(r)
      PROVE  Target(r) # Target(q)
  <2>1. r # q
    BY <1>4, WriteEnds
  <2>2. /\ request[r].op \in Op \ UnlockedOp
        /\ request[r].pc \in Holding
        /\ request[r].pc \in Inside
    BY <1>4 DEF Written, NoUnlockedRequest, IInv, StepOK, Holding, Inside, Step
  <2>3. request[r].op \in TaskLockedOp \cup GraphLockedOp
    BY <2>2 DEF Op
  <2>4. \/ taskLock[Target(r)] = r
        \/ graphLock = r
    BY <2>2, <2>3 DEF IInv, LocksOK
  <2> QED
    BY <1>3, <2>1, <2>4
<1>5. ASSUME NEW r \in Req, Created(r)
      PROVE  row'[Target(q)].history = row[Target(q)].history
  BY <1>1, <1>5, CreatedRow
<1>6. ASSUME NEW r \in Req, SetLaunchPause(r)
      PROVE  row'[Target(q)].history = row[Target(q)].history
  BY <1>1, <1>6, PausedRow
<1>7. ASSUME NEW r \in Req, Update(r), Written(r)
      PROVE  row'[Target(q)].history = row[Target(q)].history
  BY <1>1, <1>4, <1>7, WrittenRow
<1> QED
  BY <1>5, <1>6, <1>7, RowStep

(* So the copy of a transition under way stays one that can be saved. *)
LEMMA MovesKept ==
  ASSUME IInv, NoUnlockedRequest, MovesOK, [Next]_vars
  PROVE  MovesOK'
<1> SUFFICES ASSUME NEW q \in Req, request'[q].pc \in Saving, request'[q].moved
             PROVE  /\ SameEntries(row'[Target(q)'], request'[q].task)
                    /\ Consistent(request'[q].task)
                    /\ request'[q].pc = "review" => request'[q].task.state = "REVIEW"
  BY DEF MovesOK, MoveOK, Loaded
<1>1. /\ Target(q)' = Target(q)
      /\ Target(q) \in DOMAIN row
      /\ Last(Loaded(q)) \in Nat \ {0}
      /\ request'[q].moved = TRUE
  BY SaverTarget
<1>2. CASE request'[q] = request[q]
  <2>1. row'[Target(q)].history = Loaded(q).history
    BY <1>2, MovesAlone DEF Loaded
  <2> QED
    BY <1>1, <1>2, <2>1 DEF MovesOK, MoveOK, SameEntries, Last
<1>3. CASE Handler(q) /\ request[q].pc = "load" /\ Made(q)
  <2>1. CopyOf(Loaded(q), request'[q].task, TRUE) /\ row' = row
    BY <1>1, <1>3 DEF Made
  <2>2. /\ SameEntries(Loaded(q), request'[q].task)
        /\ Consistent(request'[q].task)
    BY <2>1 DEF CopyOf, Consistent, CurrentEntry, Last
  <2> QED
    BY <1>1, <1>3, <2>1, <2>2 DEF Loaded, Made
<1>4. CASE Handler(q) /\ request[q].pc \in Saving /\ WorksOn(q)
  <2>1. /\ request[q].moved
        /\ request'[q].task.history = request[q].task.history
        /\ request'[q].task.state = request[q].task.state
        /\ request'[q].pc # "review"
    BY <1>4 DEF WorksOn
  <2>2. row'[Target(q)].history = Loaded(q).history
    BY <1>4, <2>1, MovesAlone DEF Loaded
  <2>3. SameEntries(Loaded(q), request[q].task) /\ Consistent(request[q].task)
    BY <1>4, <2>1 DEF MovesOK, MoveOK
  <2> QED
    BY <1>1, <2>1, <2>2, <2>3 DEF SameEntries, Last, Consistent, CurrentEntry
<1> QED
  BY <1>2, <1>3, <1>4, CopyStep

(* A call that creates a task is as the client issued it until it is done. *)
LEMMA CreatesKept ==
  ASSUME IInv, CreatesOK, [Next]_vars,
         \A c \in Call : (c.op = "create_task" /\ c.arg.workflow = ReviewWorkflow)
                           => c.arg.governor = Nil
  PROVE  CreatesOK'
<1> SUFFICES ASSUME NEW q \in Req, request'[q].pc # "idle", request'[q].op = "create_task",
                    arg'[q].workflow = ReviewWorkflow
             PROVE  arg'[q].governor = Nil
  BY DEF CreatesOK, CreatesNoReview
<1>1. /\ request \in [Req -> RequestRecord]
      /\ arg = [r \in Req |-> arg[r]]
      /\ TypeOK /\ StepOK(q)
  BY DEF IInv, TypeOK
<1>2. CASE UNCHANGED vars
  BY <1>2 DEF vars, CreatesOK, CreatesNoReview
<1>3. CASE Crash
  BY <1>3 DEF Crash, Idle
<1>4. ASSUME NEW r \in Req, Begin(r)
      PROVE  arg'[q].governor = Nil
  <2>1. PICK c \in Call :
          /\ request' = [request EXCEPT ![r] =
               [Idle EXCEPT !.pc = FirstStep(c.op), !.op = c.op, !.stack = <<Frame(c.task)>>]]
          /\ arg' = [arg EXCEPT ![r] = c.arg]
    BY <1>4 DEF Begin
  <2>2. CASE q = r
    <3>1. request'[q].op = c.op /\ arg'[q] = c.arg
      BY <1>1, <2>1, <2>2 DEF Idle
    <3> QED
      BY <3>1
  <2>3. CASE q # r
    BY <1>1, <2>1, <2>3 DEF CreatesOK, CreatesNoReview
  <2> QED
    BY <2>2, <2>3
<1>5. ASSUME NEW r \in Req, AcquireTaskLock(r) \/ AcquireGraphLock(r)
      PROVE  arg'[q].governor = Nil
  <2>1. arg' = arg /\ request[r].pc # "idle"
    BY <1>5 DEF AcquireTaskLock, AcquireGraphLock
  <2>2. request'[q].op = request[q].op /\ (q # r => request'[q].pc = request[q].pc)
    BY <1>1, <1>5 DEF AcquireTaskLock, AcquireGraphLock, RequestRecord
  <2> QED
    BY <2>1, <2>2 DEF CreatesOK, CreatesNoReview
<1>6. ASSUME NEW r \in Req, Handler(r)
      PROVE  arg'[q].governor = Nil
  <2>1. CASE q # r
    <3>1. request'[q] = request[q] /\ arg'[q] = arg[q]
      BY <1>1, <1>6, <2>1, OthersStay
    <3> QED
      BY <3>1 DEF CreatesOK, CreatesNoReview
  <2>2. CASE q = r
    <3>1. request[q].pc # "idle" /\ request[q].op = "create_task"
      BY <1>1, <1>6, <2>2, OperationStays
    <3>2. request[q].pc \in {"waitGraph", "load"}
      BY <1>1, <3>1 DEF StepOK
    <3>3. CreateTask(q)
      BY <1>6, <2>2, <3>1, <3>2
         DEF Handler, ApplyOperation, RequestTransition, SetState, ResolveResponsibility,
             CreateReviewTask, RecordStageEntryWake, Claim, ClaimIfReady, SetDependencies,
             ValidateDependencies, PauseLaunch, RetryTask, SetLaunchPause, Release,
             SetTurn, SetBlocked, SetAttention, SetFact, SetGovernor, Validate, Update,
             ListGoverned, DropGoverned, FinishCascade, At
    <3>4. request'[q].pc = "idle"
      BY <1>1, <3>3 DEF CreateTask, Fail, Idle
    <3> QED
      BY <3>4
  <2> QED
    BY <2>1, <2>2
<1> QED
  BY <1>2, <1>3, <1>4, <1>5, <1>6 DEF Next

OneSaver == \A id : SavingReview(id) \subseteq {taskLock[id]}

(* Who saves an entry into REVIEW holds that task's lock, so there is one. *)
LEMMA OneSaves == IInv => OneSaver
<1> SUFFICES ASSUME IInv, NEW id, NEW r \in SavingReview(id)
             PROVE  taskLock[id] = r
  BY DEF OneSaver
<1>1. /\ r \in Req /\ request[r].pc \in {"validate", "update"}
      /\ request[r].moved /\ Target(r) = id
  BY DEF SavingReview
<1>2. request[r].op \in TaskLockedOp /\ request[r].pc \in Holding
  BY <1>1 DEF IInv, StepOK, TaskLockedOp, Holding, Step
<1> QED
  BY <1>1, <1>2 DEF IInv, LocksOK

(* Nothing rejects the save of a transition under way, and nothing but the    *)
(* write ends it.                                                             *)
LEMMA SavesOn ==
  ASSUME IInv, NoUnlockedRequest, MovesOK, [Next]_vars, ~MayCrash,
         NEW id, NEW q \in SavingReview(id)
  PROVE  q \in SavingReview(id)' \/ (Update(q) /\ Written(q))
<1>1. /\ q \in Req /\ request[q].pc \in {"validate", "update"}
      /\ request[q].moved /\ Target(q) = id
      /\ request[q].task.state = "REVIEW"
      /\ request[q].pc \in Saving
      /\ request \in [Req -> RequestRecord]
  BY DEF SavingReview, Saving, IInv, TypeOK
<1>2. CASE request'[q] = request[q]
  BY <1>1, <1>2 DEF SavingReview, Target
<1>3. request'[q] # request[q] => Handler(q)
  <2>1. ~Crash
    BY DEF Crash
  <2>2. ASSUME NEW r \in Req, Begin(r) \/ AcquireTaskLock(r) \/ AcquireGraphLock(r)
        PROVE  request'[q] = request[q]
    BY <1>1, <2>2 DEF Begin, AcquireTaskLock, AcquireGraphLock
  <2>3. ASSUME NEW r \in Req \ {q}, Handler(r)
        PROVE  request'[q] = request[q]
    BY <1>1, <2>3, OthersStay DEF IInv
  <2> QED
    BY <2>1, <2>2, <2>3 DEF Next, vars
<1>4. /\ SameEntries(Loaded(q), request[q].task)
      /\ Consistent(request[q].task)
  BY <1>1 DEF MovesOK, MoveOK
<1>5. /\ StepOK(q) /\ CopyOK(q)
      /\ request[q].op \notin UnlockedOp
      /\ request[q].op # "create_task"
      /\ request[q].pc # "idle"
  BY <1>1 DEF IInv, NoUnlockedRequest, StepOK
<1>6. /\ Last(Loaded(q)) \in Nat \ {0}
      /\ Last(request[q].task) = Last(Loaded(q)) + 1
  BY <1>1, <1>5, LoadedRow DEF CopyOK, Appended
<1>7. CASE Validate(q)
  <2> DEFINE old  == Loaded(q)
             task == request[q].task
  <2>1. AppendOnly(old.history, task.history)
    <3>1. Len(task.history) >= Len(old.history)
      BY <1>6 DEF Last
    <3> HIDE DEF old, task
    <3> QED
      BY <1>4, <3>1 DEF AppendOnly, SameEntries, Last, old, task
  <2>2. request' = [request EXCEPT ![q].pc = "update", ![q].stored = Len(Loaded(q).history)]
    BY <1>4, <1>7, <2>1 DEF Validate
  <2>3. /\ request'[q].pc = "update"
        /\ request'[q].moved = request[q].moved
        /\ request'[q].stack = request[q].stack
        /\ request'[q].task = request[q].task
    BY <1>1, <2>2 DEF RequestRecord
  <2> QED
    BY <1>1, <2>3 DEF SavingReview, Target
<1>8. CASE Update(q)
  <2>1. request[q].stored = Last(Loaded(q)) /\ request[q].pc = "update"
    BY <1>1, <1>5, <1>6, <1>8 DEF CopyOK, Appended, Update
  <2>2. Writable(Loaded(q), request[q].task, request[q].stored)
    BY <1>4, <2>1 DEF Writable, SameEntries, Last
  <2> QED
    BY <1>8, <2>1, <2>2 DEF Update, Written, Loaded
<1>9. Handler(q) => Validate(q) \/ Update(q)
  BY <1>1
     DEF Handler, ApplyOperation, RequestTransition, SetState, ResolveResponsibility,
         CreateReviewTask, RecordStageEntryWake, Claim, ClaimIfReady, SetDependencies,
         ValidateDependencies, CreateTask, PauseLaunch, RetryTask, SetLaunchPause, Release,
         SetTurn, SetBlocked, SetAttention, SetFact, SetGovernor,
         ListGoverned, DropGoverned, FinishCascade, At
<1> QED
  BY <1>2, <1>3, <1>7, <1>8, <1>9

(* No step loses an entry that is recorded. *)
LEMMA EntriesStay ==
  ASSUME IInv, [Next]_vars, NEW id \in DOMAIN row
  PROVE  /\ ReviewEntries(id) \subseteq ReviewEntries(id)'
         /\ IsFiniteSet(ReviewEntries(id))
         /\ IsFiniteSet(ReviewEntries(id)')
<1>1. /\ id \in DOMAIN row'
      /\ Last(row[id]) \in Nat
      /\ Last(row'[id]) \in Nat
      /\ Last(row'[id]) >= Last(row[id])
      /\ \A i \in 1..Last(row[id]) : row'[id].history[i].to = row[id].history[i].to
  <2>1. row \in [DOMAIN row -> TaskRecord] /\ Last(row[id]) \in Nat
    BY DEF IInv, TypeOK, TaskRecord, Last
  <2>2. ASSUME NEW r \in Req, Written(r)
        PROVE  /\ id \in DOMAIN row'
               /\ Last(row'[id]) >= Last(row[id])
               /\ \A i \in 1..Last(row[id]) : row'[id].history[i].to = row[id].history[i].to
    <3>1. CASE id # Target(r)
      BY <2>1, <2>2, <3>1, WrittenRow
    <3>2. CASE id = Target(r)
      <4>1. /\ id \in DOMAIN row'
            /\ Last(row'[id]) = Last(row[id]) + Appended(r)
            /\ Appended(r) \in {0, 1}
            /\ \A i \in 1..Last(row[id]) :
                 TransitionFacts(row'[id].history[i]) = TransitionFacts(row[id].history[i])
        BY <2>2, <3>2, WrittenRow
      <4> QED
        BY <2>1, <4>1 DEF TransitionFacts
    <3> QED
      BY <3>1, <3>2
  <2>3. ASSUME NEW r \in Req, Created(r)
        PROVE  id \in DOMAIN row' /\ row'[id] = row[id]
    BY <2>3, CreatedRow
  <2>4. ASSUME NEW r \in Req, SetLaunchPause(r)
        PROVE  id \in DOMAIN row' /\ row'[id].history = row[id].history
    BY <2>4, PausedRow
  <2>5. /\ id \in DOMAIN row'
        /\ Last(row'[id]) >= Last(row[id])
        /\ \A i \in 1..Last(row[id]) : row'[id].history[i].to = row[id].history[i].to
    BY <2>1, <2>2, <2>3, <2>4, RowStep DEF Last
  <2>6. row' \in [DOMAIN row' -> TaskRecord]
    BY StepKeeps DEF IInv, TypeOK
  <2>7. Last(row'[id]) \in Nat
    BY <2>5, <2>6 DEF TaskRecord, Last
  <2> QED
    BY <2>1, <2>5, <2>7
<1>2. IsFiniteSet(1..Last(row[id])) /\ IsFiniteSet(1..Last(row'[id]))
  BY <1>1, FS_Interval
<1>3. ReviewEntries(id) \subseteq 1..Last(row[id]) /\ ReviewEntries(id)' \subseteq 1..Last(row'[id])
  BY DEF ReviewEntries, Last
<1>4. IsFiniteSet(ReviewEntries(id)) /\ IsFiniteSet(ReviewEntries(id)')
  BY <1>2, <1>3, FS_Subset
<1>5. ReviewEntries(id) \subseteq ReviewEntries(id)'
  BY <1>1 DEF ReviewEntries, Last
<1> QED
  BY <1>4, <1>5

(* The write that ends the save of an entry into REVIEW adds that entry.      *)
LEMMA EntryAdded ==
  ASSUME IInv, NoUnlockedRequest, MovesOK, [Next]_vars, NEW id \in DOMAIN row,
         NEW q \in SavingReview(id), Written(q)
  PROVE  Cardinality(ReviewEntries(id)') >= Cardinality(ReviewEntries(id)) + 1
<1> DEFINE n == Last(row[id]) + 1
<1>1. q \in Req /\ request[q].moved /\ Target(q) = id /\ request[q].task.state = "REVIEW"
  BY DEF SavingReview
<1>2. /\ Last(row[id]) \in Nat
      /\ Last(row'[id]) = n
      /\ row'[id].history[n] = request[q].task.history[Last(request[q].task)]
  BY <1>1, WrittenRow DEF Appended
<1>3. Consistent(request[q].task)
  BY DEF MovesOK, MoveOK, Written, Saving, SavingReview
<1>4. row'[id].history[n].to = "REVIEW"
  BY <1>1, <1>2, <1>3 DEF Consistent, CurrentEntry, Last
<1>5. n \in ReviewEntries(id)' /\ n \notin ReviewEntries(id)
  <2>1. Last(row[id]) \in Nat /\ n = Last(row[id]) + 1 /\ Last(row'[id]) = n
    BY <1>2
  <2>2. ReviewEntries(id)' = {i \in 1..Last(row'[id]) : row'[id].history[i].to = "REVIEW"}
    BY DEF ReviewEntries, Last
  <2>3. ReviewEntries(id) \subseteq 1..Last(row[id])
    BY DEF ReviewEntries
  <2> HIDE DEF n
  <2>4. n \in 1..Last(row'[id]) /\ n \notin 1..Last(row[id])
    BY <2>1
  <2> QED
    BY <1>4, <2>2, <2>3, <2>4
<1> HIDE DEF n
<1>6. /\ IsFiniteSet(ReviewEntries(id)) /\ IsFiniteSet(ReviewEntries(id)')
      /\ ReviewEntries(id) \cup {n} \subseteq ReviewEntries(id)'
  BY <1>5, EntriesStay
<1>7. /\ IsFiniteSet(ReviewEntries(id) \cup {n})
      /\ Cardinality(ReviewEntries(id) \cup {n}) = Cardinality(ReviewEntries(id)) + 1
  BY <1>5, <1>6, FS_AddElement
<1>8. Cardinality(ReviewEntries(id) \cup {n}) <= Cardinality(ReviewEntries(id)')
  BY <1>6, FS_Subset
<1>9. /\ Cardinality(ReviewEntries(id)) \in Nat
      /\ Cardinality(ReviewEntries(id)') \in Nat
  BY <1>6, FS_CardinalityType
<1> QED
  BY <1>7, <1>8, <1>9

(* Review tasks have their governor among the tasks, and there are finitely   *)
(* many of each.                                                              *)
ReviewsGoverned ==
  /\ \A c \in DOMAIN row : row[c].workflow = ReviewWorkflow => row[c].governor \in DOMAIN row
  /\ \A id \in DOMAIN row : IsFiniteSet(ReviewsOf(id))

(* A step adds at most one review task, on the entry that is then saved.      *)
LEMMA ReviewAdded ==
  ASSUME IInv, GovernorsOK, CreatesOK, ReviewsGoverned, [Next]_vars, NEW id \in DOMAIN row'
  PROVE  \/ id \in DOMAIN row /\ ReviewsOf(id)' \subseteq ReviewsOf(id)
         \/ id \notin DOMAIN row /\ ReviewsOf(id)' = {}
         \/ /\ id \in DOMAIN row
            /\ \E new : ReviewsOf(id)' \subseteq ReviewsOf(id) \cup {new}
            /\ \E r \in Req : request[r].pc = "review" /\ Handler(r) /\ Target(r) = id
<1>1. \A c \in DOMAIN row : /\ c \in DOMAIN row'
                            /\ row'[c].governor = row[c].governor
                            /\ row'[c].workflow = row[c].workflow
  BY GovernorsStay
<1>2. CASE DOMAIN row' = DOMAIN row
  BY <1>1, <1>2 DEF ReviewsOf
<1>3. ASSUME NEW r \in Req, Handler(r), Created(r)
      PROVE  \/ id \in DOMAIN row /\ ReviewsOf(id)' \subseteq ReviewsOf(id)
             \/ id \notin DOMAIN row /\ ReviewsOf(id)' = {}
             \/ /\ id \in DOMAIN row
                /\ \E new : ReviewsOf(id)' \subseteq ReviewsOf(id) \cup {new}
                /\ \E q \in Req : request[q].pc = "review" /\ Handler(q) /\ Target(q) = id
  <2>1. PICK new \in Task \ DOMAIN row :
          /\ DOMAIN row' = DOMAIN row \cup {new}
          /\ row'[new].workflow = ReviewWorkflow =>
               IF request[r].pc = "review" THEN row'[new].governor = Target(r)
               ELSE arg[r].workflow = ReviewWorkflow /\ arg[r].governor # Nil
    BY <1>3, CreatedRow
  <2>2. request[r].pc # "review" => row'[new].workflow # ReviewWorkflow
    <3>1. request[r].pc = "review" \/ At(r, "load", "create_task")
      BY <1>3 DEF Created
    <3> QED
      BY <2>1, <3>1 DEF At, CreatesOK, CreatesNoReview
  <2>3. request[r].pc = "review" => Target(r) \in DOMAIN row
    <3>1. request[r].pc = "review" => request[r].op # "create_task"
      BY DEF IInv, StepOK
    <3> QED
      BY <3>1, LoadedRow
  <2>4. CASE id \notin DOMAIN row
    <3>1. id = new
      BY <2>1, <2>4
    <3>2. \A c \in DOMAIN row : ~(row'[c].workflow = ReviewWorkflow /\ row'[c].governor = id)
      BY <1>1, <2>4 DEF ReviewsGoverned
    <3>3. ~(row'[new].workflow = ReviewWorkflow /\ row'[new].governor = id)
      BY <2>1, <2>2, <2>3, <2>4
    <3> QED
      BY <2>1, <2>4, <3>2, <3>3 DEF ReviewsOf
  <2>5. CASE id \in DOMAIN row
    <3>1. ReviewsOf(id)' \subseteq ReviewsOf(id) \cup {new}
      BY <1>1, <2>1 DEF ReviewsOf
    <3>2. CASE request[r].pc = "review" /\ Target(r) = id
      BY <1>3, <2>5, <3>1, <3>2
    <3>3. CASE ~(request[r].pc = "review" /\ Target(r) = id)
      <4>1. new \notin ReviewsOf(id)'
        BY <2>1, <2>2, <3>3 DEF ReviewsOf
      <4> QED
        BY <2>5, <3>1, <4>1
    <3> QED
      BY <3>2, <3>3
  <2> QED
    BY <2>4, <2>5
<1>4. ASSUME NEW r \in Req, Written(r) \/ SetLaunchPause(r)
      PROVE  DOMAIN row' = DOMAIN row
  BY <1>4, WrittenRow, PausedRow
<1> QED
  BY <1>2, <1>3, <1>4, RowStep

(* On the step past the review task, its entry is the one being saved.        *)
LEMMA ReviewSaved ==
  ASSUME IInv, MovesOK, [Next]_vars, NEW id, NEW r \in Req,
         request[r].pc = "review", Handler(r), Target(r) = id
  PROVE  r \in SavingReview(id)' /\ SavingReview(id) = {}
<1>1. /\ request \in [Req -> RequestRecord]
      /\ request[r].moved
      /\ request[r].task \in TaskRecord
      /\ request[r].task.state = "REVIEW"
  BY DEF IInv, TypeOK, StepOK, CopyOK, MovesOK, MoveOK, Saving
<1>2. CreateReviewTask(r)
  BY DEF Handler, ApplyOperation, RequestTransition, SetState, ResolveResponsibility,
         RecordStageEntryWake, Claim, ClaimIfReady, SetDependencies,
         ValidateDependencies, CreateTask, PauseLaunch, RetryTask, SetLaunchPause, Release,
         SetTurn, SetBlocked, SetAttention, SetFact, SetGovernor, Validate, Update,
         ListGoverned, DropGoverned, FinishCascade, At
<1>3. /\ request'[r].pc = "validate"
      /\ request'[r].moved = request[r].moved
      /\ request'[r].stack = request[r].stack
      /\ request'[r].task.state = request[r].task.state
  <2>1. \/ request' = [request EXCEPT ![r].pc = "validate", ![r].task.blocked = TRUE]
        \/ request' = [request EXCEPT ![r].pc = "validate"]
    BY <1>2 DEF CreateReviewTask
  <2>2. CASE request' = [request EXCEPT ![r].pc = "validate", ![r].task.blocked = TRUE]
    <3>1. /\ request'[r].pc = "validate"
          /\ request'[r].moved = request[r].moved
          /\ request'[r].stack = request[r].stack
          /\ request'[r].task = [request[r].task EXCEPT !.blocked = TRUE]
      BY <1>1, <2>2 DEF RequestRecord
    <3> QED
      BY <1>1, <3>1 DEF TaskRecord
  <2>3. CASE request' = [request EXCEPT ![r].pc = "validate"]
    BY <1>1, <2>3 DEF RequestRecord
  <2> QED
    BY <2>1, <2>2, <2>3
<1>4. r \in SavingReview(id)'
  BY <1>1, <1>3 DEF SavingReview, Target
<1>5. taskLock[id] = r
  <2>1. request[r].op \in TaskLockedOp /\ request[r].pc \in Holding
    BY <1>1 DEF IInv, StepOK, TaskLockedOp, Holding, Step
  <2> QED
    BY <2>1 DEF IInv, LocksOK
<1>6. r \notin SavingReview(id)
  BY DEF SavingReview
<1> QED
  BY <1>4, <1>5, <1>6, OneSaves DEF OneSaver

(* So no step makes a review task that has no entry. *)
LEMMA ReviewsKept ==
  ASSUME IInv, NoUnlockedRequest, MovesOK, GovernorsOK, CreatesOK, ReviewsGoverned,
         ReviewPerEntry, [Next]_vars, ~MayCrash
  PROVE  ReviewsGoverned' /\ ReviewPerEntry'
<1> SUFFICES ASSUME NEW id \in DOMAIN row'
             PROVE  /\ row'[id].workflow = ReviewWorkflow => row'[id].governor \in DOMAIN row'
                    /\ IsFiniteSet(ReviewsOf(id)')
                    /\ Cardinality(ReviewsOf(id)')
                         <= Cardinality(ReviewEntries(id)') + Cardinality(SavingReview(id)')
  BY DEF ReviewsGoverned, ReviewPerEntry
<1>1. \A c \in DOMAIN row : /\ c \in DOMAIN row'
                            /\ row'[c].governor = row[c].governor
                            /\ row'[c].workflow = row[c].workflow
  BY GovernorsStay
<1>2. \A x : SavingReview(x) \subseteq {taskLock[x]} /\ SavingReview(x)' \subseteq {taskLock'[x]}
  <2>1. IInv' => OneSaver'
    BY OneSaves, PTL
  <2> QED
    BY <2>1, OneSaves, StepKeeps DEF OneSaver
<1>3. \A x : IsFiniteSet({x}) /\ Cardinality({x}) = 1
  BY FS_Singleton
<1>4. /\ IsFiniteSet(SavingReview(id)) /\ Cardinality(SavingReview(id)) \in {0, 1}
      /\ IsFiniteSet(SavingReview(id)') /\ Cardinality(SavingReview(id)') \in {0, 1}
  <2>1. ASSUME NEW S, NEW x, S \subseteq {x}
        PROVE  IsFiniteSet(S) /\ Cardinality(S) \in {0, 1}
    <3>1. S = {} \/ S = {x}
      BY <2>1
    <3> QED
      BY <1>3, <3>1, FS_EmptySet
  <2> QED
    BY <1>2, <2>1
<1>5. row'[id].workflow = ReviewWorkflow => row'[id].governor \in DOMAIN row'
  <2>1. CASE id \in DOMAIN row
    BY <1>1, <2>1 DEF ReviewsGoverned
  <2>2. CASE id \notin DOMAIN row
    <3>1. ASSUME NEW r \in Req, Created(r)
          PROVE  row'[id].workflow = ReviewWorkflow => row'[id].governor \in DOMAIN row'
      <4>1. PICK new \in Task \ DOMAIN row :
              /\ DOMAIN row' = DOMAIN row \cup {new}
              /\ row'[new].workflow = ReviewWorkflow =>
                   IF request[r].pc = "review" THEN row'[new].governor = Target(r)
                   ELSE arg[r].workflow = ReviewWorkflow /\ arg[r].governor # Nil
        BY <3>1, CreatedRow
      <4>2. request[r].pc = "review" \/ At(r, "load", "create_task")
        BY <3>1 DEF Created
      <4>3. id = new
        BY <2>2, <4>1
      <4>4. CASE request[r].pc = "review"
        <5>1. request[r].op # "create_task"
          BY <4>4 DEF IInv, StepOK
        <5>2. Target(r) \in DOMAIN row
          BY <4>4, <5>1, LoadedRow
        <5> QED
          BY <4>1, <4>3, <4>4, <5>2
      <4>5. CASE request[r].pc # "review"
        BY <4>1, <4>2, <4>3, <4>5 DEF At, CreatesOK, CreatesNoReview
      <4> QED
        BY <4>4, <4>5
    <3>2. ASSUME NEW r \in Req, Written(r) \/ SetLaunchPause(r)
          PROVE  FALSE
      BY <2>2, <3>2, WrittenRow, PausedRow
    <3> QED
      BY <2>2, <3>1, <3>2, RowStep
  <2> QED
    BY <2>1, <2>2
<1>6. ASSUME id \in DOMAIN row
      PROVE  /\ IsFiniteSet(ReviewsOf(id))
             /\ Cardinality(ReviewsOf(id)) \in Nat
             /\ Cardinality(ReviewEntries(id)) \in Nat
             /\ Cardinality(ReviewEntries(id)') \in Nat
             /\ Cardinality(ReviewEntries(id)) <= Cardinality(ReviewEntries(id)')
             /\ Cardinality(ReviewsOf(id))
                  <= Cardinality(ReviewEntries(id)) + Cardinality(SavingReview(id))
  <2>1. IsFiniteSet(ReviewsOf(id))
    BY <1>6 DEF ReviewsGoverned
  <2>2. /\ IsFiniteSet(ReviewEntries(id)) /\ IsFiniteSet(ReviewEntries(id)')
        /\ ReviewEntries(id) \subseteq ReviewEntries(id)'
    BY <1>6, EntriesStay
  <2>3. Cardinality(ReviewEntries(id)) <= Cardinality(ReviewEntries(id)')
    BY <2>2, FS_Subset
  <2>4. /\ Cardinality(ReviewsOf(id)) \in Nat
        /\ Cardinality(ReviewEntries(id)) \in Nat
        /\ Cardinality(ReviewEntries(id)') \in Nat
    BY <2>1, <2>2, FS_CardinalityType
  <2> QED
    BY <1>6, <2>1, <2>3, <2>4 DEF ReviewPerEntry
<1>7. CASE id \notin DOMAIN row /\ ReviewsOf(id)' = {}
  <2>1. IsFiniteSet(ReviewsOf(id)') /\ Cardinality(ReviewsOf(id)') = 0
    BY <1>7, FS_EmptySet
  <2>2. IsFiniteSet(ReviewEntries(id)')
    <3>1. row' \in [DOMAIN row' -> TaskRecord]
      BY StepKeeps DEF IInv, TypeOK
    <3>2. Len(row'[id].history) \in Nat
      BY <3>1 DEF TaskRecord
    <3>3. IsFiniteSet(1..Len(row'[id].history))
      BY <3>2, FS_Interval
    <3>4. ReviewEntries(id)' \subseteq 1..Len(row'[id].history)
      BY DEF ReviewEntries, Last
    <3> QED
      BY <3>3, <3>4, FS_Subset
  <2>3. Cardinality(ReviewEntries(id)') \in Nat
    BY <2>2, FS_CardinalityType
  <2> QED
    BY <1>4, <1>5, <2>1, <2>3
<1>8. CASE id \in DOMAIN row /\ ReviewsOf(id)' \subseteq ReviewsOf(id)
  <2>1. /\ IsFiniteSet(ReviewsOf(id)')
        /\ Cardinality(ReviewsOf(id)') <= Cardinality(ReviewsOf(id))
    BY <1>6, <1>8, FS_Subset
  <2>2. Cardinality(ReviewsOf(id)') \in Nat
    BY <2>1, FS_CardinalityType
  <2>3. ASSUME NEW q \in SavingReview(id), Written(q)
        PROVE  Cardinality(ReviewEntries(id)') >= Cardinality(ReviewEntries(id)) + 1
    BY <1>8, <2>3, EntryAdded
  <2>4. ASSUME \A q \in SavingReview(id) : ~Written(q)
        PROVE  Cardinality(SavingReview(id)) <= Cardinality(SavingReview(id)')
    <3>1. SavingReview(id) \subseteq SavingReview(id)'
      BY <2>4, SavesOn
    <3> QED
      BY <1>4, <3>1, FS_Subset
  <2>5. Cardinality(ReviewsOf(id)')
          <= Cardinality(ReviewEntries(id)') + Cardinality(SavingReview(id)')
    <3>1. CASE \E q \in SavingReview(id) : Written(q)
      <4>1. Cardinality(ReviewEntries(id)') >= Cardinality(ReviewEntries(id)) + 1
        BY <2>3, <3>1
      <4> QED
        BY <1>4, <1>6, <1>8, <2>1, <2>2, <4>1
    <3>2. CASE \A q \in SavingReview(id) : ~Written(q)
      <4>1. Cardinality(SavingReview(id)) <= Cardinality(SavingReview(id)')
        BY <2>4, <3>2
      <4> QED
        BY <1>4, <1>6, <1>8, <2>1, <2>2, <4>1
    <3> QED
      BY <3>1, <3>2
  <2> QED
    BY <1>5, <2>1, <2>5
<1>9. CASE /\ id \in DOMAIN row
           /\ \E new : ReviewsOf(id)' \subseteq ReviewsOf(id) \cup {new}
           /\ \E r \in Req : request[r].pc = "review" /\ Handler(r) /\ Target(r) = id
  <2>1. PICK new : ReviewsOf(id)' \subseteq ReviewsOf(id) \cup {new}
    BY <1>9
  <2>2. PICK r \in Req : request[r].pc = "review" /\ Handler(r) /\ Target(r) = id
    BY <1>9
  <2>3. r \in SavingReview(id)' /\ SavingReview(id) = {}
    BY <2>2, ReviewSaved
  <2>4. Cardinality(SavingReview(id)) = 0 /\ Cardinality(SavingReview(id)') = 1
    BY <1>4, <2>3, FS_EmptySet
  <2>5. /\ IsFiniteSet(ReviewsOf(id) \cup {new})
        /\ Cardinality(ReviewsOf(id) \cup {new}) <= Cardinality(ReviewsOf(id)) + 1
    <3>1. IsFiniteSet(ReviewsOf(id)) /\ Cardinality(ReviewsOf(id)) \in Nat
      BY <1>6, <1>9
    <3>2. /\ IsFiniteSet(ReviewsOf(id) \cup {new})
          /\ Cardinality(ReviewsOf(id) \cup {new})
               = IF new \in ReviewsOf(id) THEN Cardinality(ReviewsOf(id))
                 ELSE Cardinality(ReviewsOf(id)) + 1
      BY <3>1, FS_AddElement
    <3> QED
      BY <3>1, <3>2
  <2>6. /\ IsFiniteSet(ReviewsOf(id)')
        /\ Cardinality(ReviewsOf(id)') <= Cardinality(ReviewsOf(id) \cup {new})
    BY <2>1, <2>5, FS_Subset
  <2>7. Cardinality(ReviewsOf(id)') \in Nat /\ Cardinality(ReviewsOf(id) \cup {new}) \in Nat
    BY <2>5, <2>6, FS_CardinalityType
  <2> QED
    BY <1>5, <1>6, <1>9, <2>4, <2>5, <2>6, <2>7
<1> QED
  BY <1>5, <1>7, <1>8, <1>9, ReviewAdded

(* One review task per entry into REVIEW: where every call takes a lock, none *)
(* creates a review task itself and the process does not die, the child that  *)
(* _create_review_task_on_entry inserts is followed by the saved entry (no    *)
(* save of a transition is rejected) before the next one is (service.py).     *)
THEOREM ReviewsHaveEntries ==
  ASSUME ~MayCrash,
         \A c \in Call : c.op \notin UnlockedOp,
         \A c \in Call : (c.op = "create_task" /\ c.arg.workflow = ReviewWorkflow)
                           => c.arg.governor = Nil,
         \A id \in DOMAIN Born : Born[id].workflow # ReviewWorkflow
  PROVE  Spec => []ReviewPerEntry
<1>1. Init => ReviewIInv
  <2> SUFFICES ASSUME Init
               PROVE  ReviewIInv
    OBVIOUS
  <2>1. LockedIInv
    BY InitEstablishes DEF LockedIInv
  <2>2. \A r \in Req : MoveOK(r) /\ GovernorKept(r) /\ CreatesNoReview(r)
    BY DEF Init, MoveOK, GovernorKept, CreatesNoReview, Idle, Saving
  <2>3. \A id \in DOMAIN row : row[id].workflow # ReviewWorkflow
    BY DEF Init, NewTask
  <2>4. \A id : ReviewsOf(id) = {}
    BY <2>3 DEF ReviewsOf
  <2>5. \A id : IsFiniteSet(ReviewsOf(id)) /\ Cardinality(ReviewsOf(id)) = 0
    BY <2>4, FS_EmptySet
  <2>6. ASSUME NEW id \in DOMAIN row
        PROVE  Cardinality(ReviewEntries(id)) \in Nat /\ Cardinality(SavingReview(id)) \in Nat
    <3>1. Last(row[id]) \in Nat
      BY <2>1 DEF LockedIInv, IInv, TypeOK, TaskRecord, Last
    <3>2. IsFiniteSet(1..Last(row[id])) /\ ReviewEntries(id) \subseteq 1..Last(row[id])
      BY <3>1, FS_Interval DEF ReviewEntries
    <3>3. IsFiniteSet(ReviewEntries(id))
      BY <3>2, FS_Subset
    <3>4. SavingReview(id) = {}
      BY DEF Init, SavingReview, Idle
    <3> QED
      BY <3>3, <3>4, FS_CardinalityType, FS_EmptySet
  <2>7. ReviewPerEntry
    BY <2>5, <2>6 DEF ReviewPerEntry
  <2> QED
    BY <2>1, <2>2, <2>3, <2>5, <2>7 DEF ReviewIInv
<1>2. ReviewIInv /\ [Next]_vars => ReviewIInv'
  <2> SUFFICES ASSUME ReviewIInv, [Next]_vars
               PROVE  ReviewIInv'
    OBVIOUS
  <2>1. /\ IInv /\ NoUnlockedRequest /\ StateMatchesTail
        /\ MovesOK /\ GovernorsOK /\ CreatesOK /\ ReviewsGoverned /\ ReviewPerEntry
    BY DEF ReviewIInv, LockedIInv, MovesOK, GovernorsOK, CreatesOK, ReviewsGoverned
  <2>2. IInv' /\ NoUnlockedRequest'
    BY <2>1, StepKeeps, UnlockedStayAway
  <2>3. StateMatchesTail'
    BY <2>1, <2>2, TailKept
  <2>4. MovesOK' /\ GovernorsOK' /\ CreatesOK'
    BY <2>1, MovesKept, GovernorsKept, CreatesKept
  <2>5. ReviewsGoverned' /\ ReviewPerEntry'
    BY <2>1, ReviewsKept
  <2> QED
    BY <2>2, <2>3, <2>4, <2>5
       DEF ReviewIInv, LockedIInv, MovesOK, GovernorsOK, CreatesOK, ReviewsGoverned
<1>3. ReviewIInv => ReviewPerEntry
  BY DEF ReviewIInv
<1> QED
  BY <1>1, <1>2, <1>3, PTL DEF Spec
=============================================================================
