-------------------------- MODULE HostSessionProofs --------------------------
(* What is proved of HostSession for every set of hosts and operator inputs   *)
(* and every bound on what happens: that the two threads that type into a     *)
(* pane keep out of each other's way, and that the records of what was typed  *)
(* are true.                                                                  *)
EXTENDS HostSession, FiniteSetTheorems, WellFoundedInduction, SequenceTheorems, TLAPS

-----------------------------------------------------------------------------
(* Types *)

Seen == [entries : 0 .. MaxEntries, live : BOOLEAN, turn : {"user", "agent"}, current : BOOLEAN]

(* Where a thread has an item in its hands. *)
Held == {"drop", "prefill", "poll", "paste", "enter", "record", "settle", "reply", "next"}

(* What is true of a thread by itself. *)
ThreadOK(t) ==
  /\ t \in Thread
  /\ t.kind = "wake" => /\ t.item \in Entries \cup {Nil} /\ t.todo \subseteq Entries
                        /\ t.pc \notin {"settle", "reply", "next", "capture"}
  /\ t.kind = "input" => /\ t.item \in Keys \cup {Nil} /\ t.todo \subseteq Keys
                         /\ t.pc \notin {"skip", "drop", "record"}
  /\ t.pc = "load" => t.seen \in Seen
  /\ t.pc \in Held <=> t.item # Nil
  /\ t.item \notin t.todo

Bounds == [hosts : SUBSET Hosts, entries : Nat, inputs : Nat, turns : Nat, claims : Nat,
           panes : Nat, faults : Nat]

(* What is known of a session. *)
Pane == [pane : Nat, stage : {"none", "placeholder", "watched", "agent"}, armed : BOOLEAN,
         ready : BOOLEAN, composer : SUBSET Texts]

(* The variables but the threads. *)
DataOK ==
  /\ owner \in Hosts \cup {Nil} /\ turn \in {"user", "agent"} /\ linked \subseteq Hosts
  /\ wakes \in Seq({"pending", "delivered", "skipped"})
  /\ inputs \in [Keys -> [status : {"none", "pending", "delivered", "failed"},
                          submit : BOOLEAN]]
  /\ accepting \subseteq [key : Keys, submit : BOOLEAN]
  /\ settling \subseteq [host : Hosts, key : Keys, ok : BOOLEAN]
  /\ transcript \in Hosts \cup {Nil} /\ memo \subseteq Hosts
  /\ spawn \in [Hosts -> {"idle", "run", "session", "watch", "agent"}]
  /\ container \in [Hosts -> {"none", "running", "exited"}]
  /\ session \in [Hosts -> Pane]
  /\ marker \subseteq Hosts /\ snapshots \subseteq Hosts
  /\ pasted \in [Texts -> 0 .. 2] /\ doubtful \subseteq Texts
  /\ seenDown \subseteq Entries /\ torn \subseteq Hosts
  /\ left \in Bounds
  /\ Len(wakes) + left.entries <= MaxEntries

TypeInv == DataOK /\ \A t \in threads : ThreadOK(t)

(* v is u, whose observation may have gone out of date. *)
Kept(u, v) == v = u \/ (u.pc = "load" /\ v = [u EXCEPT !.seen.current = FALSE])

(* All that is there of a thread but its observation is kept. *)
LEMMA KeptFields ==
  ASSUME NEW u, NEW v, ThreadOK(u), Kept(u, v)
  PROVE  /\ ThreadOK(v)
         /\ v.host = u.host /\ v.kind = u.kind /\ v.pc = u.pc /\ v.item = u.item
         /\ v.todo = u.todo /\ v.pane = u.pane /\ v.early = u.early /\ v.ok = u.ok
         /\ u.pc = "load" => v.seen.entries = u.seen.entries /\ v.seen.live = u.seen.live
<1>1. CASE v = u
  BY <1>1
<1>2. CASE u.pc = "load" /\ v = [u EXCEPT !.seen.current = FALSE]
  <2> DEFINE s == [u.seen EXCEPT !.current = FALSE]
  <2>1. u \in Thread /\ u.seen \in Seen
    BY <1>2 DEF ThreadOK
  <2>2. s \in Seen /\ s.entries = u.seen.entries /\ s.live = u.seen.live
    BY <2>1 DEF Seen
  <2>3. v = [u EXCEPT !.seen = s]
    BY <1>2, <2>1 DEF Thread
  <2> HIDE DEF s
  <2>4. v \in Thread /\ v.seen = s
    BY <2>1, <2>2, <2>3 DEF Thread, Seen
  <2>5. /\ v.host = u.host /\ v.kind = u.kind /\ v.pc = u.pc /\ v.item = u.item
        /\ v.todo = u.todo /\ v.pane = u.pane /\ v.early = u.early /\ v.ok = u.ok
    BY <2>1, <2>3 DEF Thread
  <2> QED
    BY <2>2, <2>4, <2>5 DEF ThreadOK
<1> QED
  BY <1>1, <1>2 DEF Kept

(* Stamping the task keeps every thread. *)
LEMMA StampKeeps ==
  ASSUME NEW u \in threads
  PROVE  /\ Kept(u, Stamped[u])
         /\ u.pc # "load" => Stamped[u] = u
BY DEF Stamped, Kept

-----------------------------------------------------------------------------
(* The steps of a thread *)

(* Thread t becomes n, and the others stay as they are, or the task is        *)
(* stamped for them.                                                          *)
Goes(t, n) ==
  /\ \/ threads' = (threads \ {t}) \cup {n}
     \/ threads' = {Stamped[u] : u \in threads \ {t}} \cup {n}
  /\ ThreadOK(n)
  /\ n.host = t.host /\ n.kind = t.kind /\ n.pc # "load"

Exits(t) == threads' = threads \ {t}

(* The other fields that matter stay. *)
SameItem(t, n) == n.item = t.item /\ n.todo = t.todo
SamePane(t, n) == n.pane = t.pane /\ n.early = t.early

(* The waker loads what is due ... *)
LEMMA LoadWakesGoes ==
  ASSUME NEW t, ThreadOK(t), LoadWakes(t), wakes \in Seq({"pending", "delivered", "skipped"}),
         Len(wakes) <= MaxEntries
  PROVE  \/ Exits(t)
         \/ \E n : /\ Goes(t, n)
                   /\ n.pc \in {"check", "skip"} /\ n.item = Nil /\ n.todo = Due(t)
                   /\ n.pc = "skip" => ~t.seen.live
<1>1. t \in Thread /\ t.kind = "wake" /\ t.pc = "load" /\ t.item = Nil
  BY DEF ThreadOK, LoadWakes, Held
<1>2. Due(t) \subseteq Entries /\ Nil \notin Due(t)
  BY SessionAssumption DEF Due, Pending, Entries
<1>3. ASSUME NEW pc \in {"check", "skip"}, Begin(t, pc, Due(t))
      PROVE  \E n : Goes(t, n) /\ n.pc = pc /\ n.item = Nil /\ n.todo = Due(t)
  <2> DEFINE n == [t EXCEPT !.pc = pc, !.seen = Nil, !.todo = Due(t)]
  <2>1. /\ n \in Thread /\ n.host = t.host /\ n.kind = t.kind /\ n.pc = pc /\ n.item = Nil
        /\ n.todo = Due(t)
    BY <1>1, <1>2 DEF Thread
  <2>2. threads' = (threads \ {t}) \cup {n}
    BY <1>3 DEF Begin, Become
  <2> HIDE DEF n
  <2>3. Goes(t, n)
    BY <1>1, <1>2, <2>1, <2>2 DEF Goes, ThreadOK, Held
  <2> QED
    BY <2>1, <2>3
<1>4. \/ Exits(t)
      \/ Begin(t, "skip", Due(t)) /\ ~t.seen.live
      \/ Begin(t, "check", Due(t))
  BY DEF LoadWakes, Exit, Become, Exits
<1> QED
  BY <1>3, <1>4

(* A set of natural numbers with a bound has a least element. *)
LEMMA LeastOf ==
  ASSUME NEW n \in Nat, NEW S, S \subseteq 1 .. n, S # {}
  PROVE  \E i \in S : \A j \in S : i <= j
<1> DEFINE Below(i) == {j \in S : j < i}
           T == {Below(i) : i \in S}
<1>1. IsFiniteSet(S)
  <2>1. IsFiniteSet(1 .. n)
    BY FS_Interval
  <2> QED
    BY <2>1, FS_Subset
<1>2. T \subseteq FiniteSubsetsOf(S) /\ T # {}
  <2>1. \A i \in S : Below(i) \in SUBSET S /\ IsFiniteSet(Below(i))
    BY <1>1, FS_Subset
  <2> QED
    BY <2>1 DEF FiniteSubsetsOf
<1>3. IsWellFoundedOn(StrictSubsetOrdering(S), FiniteSubsetsOf(S))
  BY <1>1, FS_StrictSubsetOrderingWellFounded
<1> HIDE DEF T
<1>4. PICK x \in T : \A y \in T : <<y, x>> \notin StrictSubsetOrdering(S)
  BY <1>2, <1>3, WFMin
<1>5. PICK i \in S : x = Below(i)
  BY DEF T
<1>6. ASSUME NEW j \in S, j < i
      PROVE  FALSE
  <2>1. Below(j) \subseteq Below(i) /\ j \in Below(i) /\ j \notin Below(j)
    <3>1. i \in Nat /\ j \in Nat /\ S \subseteq Nat
      OBVIOUS
    <3>2. \A k \in S : k < j => k < i
      BY <1>6, <3>1
    <3>3. ~(j < j)
      BY <3>1
    <3> QED
      BY <1>6, <3>2, <3>3
  <2>2. Below(j) \in T
    BY DEF T
  <2>3. <<Below(j), x>> \in StrictSubsetOrdering(S)
    BY <1>5, <2>1 DEF StrictSubsetOrdering
  <2> QED
    BY <1>4, <2>2, <2>3
<1>7. S \subseteq Nat
  OBVIOUS
<1> QED
  BY <1>6, <1>7

(* ... and takes the entries up in order, while the claim is its host's. *)
LEMMA CheckWakeGoes ==
  ASSUME NEW t, ThreadOK(t), CheckWake(t), MaxEntries \in Nat
  PROVE  \/ Exits(t)
         \/ \E n : /\ Goes(t, n)
                   /\ n.pc = t.pc /\ n.item = Nil /\ n.todo \subseteq t.todo
         \/ \E n : /\ Goes(t, n)
                   /\ n.pc \in {"prefill", "drop"} /\ (n.pc = "drop" <=> t.pc = "skip")
                   /\ n.item \in t.todo \cap Pending /\ n.todo \subseteq t.todo
                   /\ owner = t.host
<1>1. t \in Thread /\ t.kind = "wake" /\ t.pc \in {"check", "skip"} /\ t.item = Nil
      /\ t.todo \subseteq Entries
  BY DEF ThreadOK, CheckWake, Held
<1>2. CASE t.todo = {} \/ owner # t.host \/ (t.pc = "check" /\ ~Live)
  BY <1>2 DEF CheckWake, Exit, Become, Exits
<1>3. CASE ~(t.todo = {} \/ owner # t.host \/ (t.pc = "check" /\ ~Live))
  <2> DEFINE i == First(t.todo)
             pc == IF t.pc = "check" THEN "prefill" ELSE "drop"
  <2>1. i \in t.todo
    BY <1>1, <1>3, LeastOf DEF First, Entries
  <2>2. i \in Entries /\ i # Nil
    BY <1>1, <2>1, SessionAssumption DEF Entries
  <2>3. IF i \in Pending THEN TakeUp(t, i, pc) ELSE PassOver(t, i)
    BY <1>3 DEF CheckWake
  <2> HIDE DEF i
  <2>4. CASE i \in Pending
    <3> DEFINE n == [t EXCEPT !.pc = pc, !.todo = @ \ {i}, !.item = i]
    <3>1. /\ n \in Thread /\ n.host = t.host /\ n.kind = t.kind /\ n.pc = pc /\ n.item = i
          /\ n.todo = t.todo \ {i}
      <4>1. pc \in {"prefill", "drop"}
        OBVIOUS
      <4> HIDE DEF pc
      <4>2. n \in Thread
        BY <1>1, <2>2, <4>1 DEF Thread
      <4>3. /\ n.host = t.host /\ n.kind = t.kind /\ n.pc = pc /\ n.item = i
            /\ n.todo = t.todo \ {i}
        BY <1>1 DEF Thread
      <4> QED
        BY <4>2, <4>3
    <3>2. threads' = (threads \ {t}) \cup {n}
      BY <2>3, <2>4 DEF TakeUp, Become
    <3> HIDE DEF n
    <3>3. Goes(t, n)
      BY <1>1, <2>2, <3>1, <3>2 DEF Goes, ThreadOK, Held
    <3> QED
      BY <1>1, <1>3, <2>1, <2>4, <3>1, <3>3
  <2>5. CASE i \notin Pending
    <3> DEFINE n == [t EXCEPT !.todo = @ \ {i}]
    <3>1. /\ n \in Thread /\ n.host = t.host /\ n.kind = t.kind /\ n.pc = t.pc /\ n.item = Nil
          /\ n.todo = t.todo \ {i}
      BY <1>1, <2>2 DEF Thread
    <3>2. threads' = (threads \ {t}) \cup {n}
      BY <2>3, <2>5 DEF PassOver, Become
    <3> HIDE DEF n
    <3>3. Goes(t, n)
      BY <1>1, <2>2, <3>1, <3>2 DEF Goes, ThreadOK, Held
    <3> QED
      BY <3>1, <3>3
  <2> QED
    BY <2>4, <2>5
<1> QED
  BY <1>2, <1>3

(* The I/O worker loads what is pending while the turn is the user's ... *)
LEMMA LoadInputsGoes ==
  ASSUME NEW t, ThreadOK(t), LoadInputs(t)
  PROVE  \/ Exits(t)
         \/ \E n : /\ Goes(t, n)
                   /\ n.pc \in {"check", "capture"} /\ n.item = Nil /\ n.todo \subseteq PendingInputs
<1>1. t \in Thread /\ t.kind = "input" /\ t.pc = "load" /\ t.item = Nil
  BY DEF ThreadOK, LoadInputs, Held
<1>2. Nil \notin Keys
  BY SessionAssumption
<1>3. ASSUME NEW pc \in {"check", "capture"}, NEW todo \in SUBSET PendingInputs, Begin(t, pc, todo)
      PROVE  \E n : Goes(t, n) /\ n.pc = pc /\ n.item = Nil /\ n.todo = todo
  <2> DEFINE n == [t EXCEPT !.pc = pc, !.seen = Nil, !.todo = todo]
  <2>0. todo \subseteq Keys
    BY DEF PendingInputs
  <2>1. /\ n \in Thread /\ n.host = t.host /\ n.kind = t.kind /\ n.pc = pc /\ n.item = Nil
        /\ n.todo = todo
    BY <1>1, <2>0 DEF Thread
  <2>2. threads' = (threads \ {t}) \cup {n}
    BY <1>3 DEF Begin, Become
  <2> HIDE DEF n
  <2>3. Goes(t, n)
    BY <1>1, <1>2, <2>0, <2>1, <2>2 DEF Goes, ThreadOK, Held
  <2> QED
    BY <2>1, <2>3
<1>4. \/ Exits(t)
      \/ Begin(t, "capture", {})
      \/ Begin(t, "check", PendingInputs)
  BY DEF LoadInputs, Exit, Become, Exits, pending_session_input
<1> QED
  BY <1>3, <1>4

(* ... and takes one up while the claim is its host's. *)
LEMMA CheckInputGoes ==
  ASSUME NEW t, ThreadOK(t), CheckInput(t)
  PROVE  \/ \E n : Goes(t, n) /\ n.pc = "capture" /\ SameItem(t, n)
         \/ \E n : /\ Goes(t, n) /\ n.pc = "prefill"
                   /\ n.item \in t.todo /\ n.todo = t.todo \ {n.item}
                   /\ owner = t.host
<1>1. t \in Thread /\ t.kind = "input" /\ t.pc = "check" /\ t.item = Nil /\ t.todo \subseteq Keys
  BY DEF ThreadOK, CheckInput, Held
<1>2. CASE Goto(t, "capture")
  <2> DEFINE n == [t EXCEPT !.pc = "capture"]
  <2>1. /\ n \in Thread /\ n.host = t.host /\ n.kind = t.kind /\ n.pc = "capture"
        /\ n.item = t.item /\ n.todo = t.todo
    BY <1>1 DEF Thread
  <2>2. threads' = (threads \ {t}) \cup {n}
    BY <1>2 DEF Goto, Become
  <2> HIDE DEF n
  <2>3. Goes(t, n)
    BY <1>1, <2>1, <2>2 DEF Goes, ThreadOK, Held
  <2> QED
    BY <2>1, <2>3 DEF SameItem
<1>3. ASSUME NEW k \in t.todo, TakeUp(t, k, "prefill"), owner = t.host
      PROVE  \E n : /\ Goes(t, n) /\ n.pc = "prefill"
                    /\ n.item \in t.todo /\ n.todo = t.todo \ {n.item}
  <2> DEFINE n == [t EXCEPT !.pc = "prefill", !.todo = @ \ {k}, !.item = k]
  <2>0. k \in Keys /\ k # Nil
    BY <1>1, SessionAssumption
  <2>1. /\ n \in Thread /\ n.host = t.host /\ n.kind = t.kind /\ n.pc = "prefill" /\ n.item = k
        /\ n.todo = t.todo \ {k}
    BY <1>1, <2>0 DEF Thread
  <2>2. threads' = (threads \ {t}) \cup {n}
    BY <1>3 DEF TakeUp, Become
  <2> HIDE DEF n
  <2>3. Goes(t, n)
    BY <1>1, <2>0, <2>1, <2>2 DEF Goes, ThreadOK, Held
  <2> QED
    BY <2>1, <2>3
<1>4. Goto(t, "capture") \/ (owner = t.host /\ \E k \in t.todo : TakeUp(t, k, "prefill"))
  BY DEF CheckInput
<1> QED
  BY <1>2, <1>3, <1>4

(* prefill_pane returns. *)
LEMMA ReturnGoes ==
  ASSUME NEW t, ThreadOK(t), t.pc \in {"prefill", "poll", "paste", "enter"},
         NEW ok \in BOOLEAN, Return(t, ok)
  PROVE  \/ Exits(t) /\ t.kind = "wake" /\ ~ok
         \/ \E n : /\ Goes(t, n) /\ SameItem(t, n)
                   /\ \/ t.kind = "wake" /\ n.pc = "record" /\ ok
                      \/ t.kind = "input" /\ n.pc = "settle" /\ n.ok = ok
<1>1. t \in Thread /\ t.item # Nil
  BY DEF ThreadOK, Held
<1>2. CASE t.kind = "wake" /\ ok
  <2> DEFINE n == [[t EXCEPT !.pane = 0, !.early = FALSE] EXCEPT !.pc = "record"]
  <2>1. /\ n \in Thread /\ n.host = t.host /\ n.kind = t.kind /\ n.pc = "record"
        /\ n.item = t.item /\ n.todo = t.todo
    BY <1>1 DEF Thread
  <2>2. threads' = (threads \ {t}) \cup {n}
    BY <1>2 DEF Return, Become
  <2> HIDE DEF n
  <2>3. Goes(t, n)
    BY <1>1, <1>2, <2>1, <2>2 DEF Goes, ThreadOK, Held
  <2> QED
    BY <1>2, <2>1, <2>3 DEF SameItem
<1>3. CASE t.kind = "wake" /\ ~ok
  BY <1>3 DEF Return, Become, Exits
<1>4. CASE t.kind = "input"
  <2> DEFINE n == [[t EXCEPT !.pane = 0, !.early = FALSE] EXCEPT !.pc = "settle", !.ok = ok]
  <2>1. /\ n \in Thread /\ n.host = t.host /\ n.kind = t.kind /\ n.pc = "settle"
        /\ n.item = t.item /\ n.todo = t.todo /\ n.ok = ok
    BY <1>1 DEF Thread
  <2>2. threads' = (threads \ {t}) \cup {n}
    BY <1>4 DEF Return, Become
  <2> HIDE DEF n
  <2>3. Goes(t, n)
    BY <1>1, <1>4, <2>1, <2>2 DEF Goes, ThreadOK, Held
  <2> QED
    BY <1>4, <2>1, <2>3 DEF SameItem
<1> QED
  BY <1>1, <1>2, <1>3, <1>4 DEF Thread

(* The session lock is taken and the pane found ... *)
LEMMA FindPaneGoes ==
  ASSUME NEW t, ThreadOK(t), FindPane(t), session[t.host].pane \in Nat
  PROVE  \/ Exits(t)
         \/ \E n : Goes(t, n) /\ SameItem(t, n) /\ n.pc = "settle" /\ ~n.ok
         \/ \E n : /\ Goes(t, n) /\ SameItem(t, n)
                   /\ n.pc = "poll" /\ n.pane = session[t.host].pane /\ n.pane # 0
<1>1. t \in Thread /\ t.item # Nil /\ t.pc = "prefill"
  BY DEF ThreadOK, Held, FindPane
<1>2. CASE session[t.host].pane = 0
  <2>1. Return(t, FALSE)
    BY <1>2 DEF FindPane
  <2> QED
    BY <1>1, <2>1, ReturnGoes
<1>3. CASE session[t.host].pane # 0
  <2> DEFINE n == [t EXCEPT !.pc = "poll", !.pane = session[t.host].pane]
  <2>1. /\ n \in Thread /\ n.host = t.host /\ n.kind = t.kind /\ n.pc = "poll"
        /\ n.item = t.item /\ n.todo = t.todo /\ n.pane = session[t.host].pane
    BY <1>1 DEF Thread
  <2>2. threads' = (threads \ {t}) \cup {n}
    BY <1>3 DEF FindPane, Become
  <2> HIDE DEF n
  <2>3. Goes(t, n)
    BY <1>1, <2>1, <2>2 DEF Goes, ThreadOK, Held
  <2> QED
    BY <1>3, <2>1, <2>3 DEF SameItem
<1> QED
  BY <1>2, <1>3

(* ... the marker seen ... *)
LEMMA SeeMarkerGoes ==
  ASSUME NEW t, ThreadOK(t), SeeMarker(t)
  PROVE  \E n : /\ Goes(t, n) /\ SameItem(t, n)
                /\ n.pc = "paste" /\ n.pane = t.pane
                /\ n.early <=> session[t.host].stage = "placeholder"
<1>1. t \in Thread /\ t.item # Nil /\ t.pc = "poll"
  BY DEF ThreadOK, Held, SeeMarker
<1> DEFINE b == session[t.host].stage = "placeholder"
           n == [t EXCEPT !.pc = "paste", !.early = b]
<1>0. b \in BOOLEAN
  OBVIOUS
<1>2. threads' = (threads \ {t}) \cup {n}
  BY DEF SeeMarker, Become
<1> HIDE DEF b
<1>3. /\ n \in Thread /\ n.host = t.host /\ n.kind = t.kind /\ n.pc = "paste"
      /\ n.item = t.item /\ n.todo = t.todo /\ n.pane = t.pane /\ n.early = b
  BY <1>0, <1>1 DEF Thread
<1> HIDE DEF n
<1>4. Goes(t, n)
  BY <1>1, <1>2, <1>3 DEF Goes, ThreadOK, Held
<1> QED
  BY <1>3, <1>4 DEF SameItem, b

(* ... and the thread goes on to press Enter. *)
LEMMA GotoGoes ==
  ASSUME NEW t, ThreadOK(t), NEW pc \in {"enter", "reply", "next"}, Goto(t, pc),
         \/ pc = "enter" /\ t.pc = "paste"
         \/ pc \in {"reply", "next"} /\ t.pc = "settle"
  PROVE  \E n : /\ Goes(t, n) /\ SameItem(t, n) /\ SamePane(t, n)
                /\ n.pc = pc /\ n.ok = t.ok
<1>1. t \in Thread /\ t.item # Nil
  BY DEF ThreadOK, Held
<1>2. pc # "enter" => t.kind = "input"
  BY <1>1 DEF ThreadOK, Thread
<1> DEFINE n == [t EXCEPT !.pc = pc]
<1>3. threads' = (threads \ {t}) \cup {n}
  BY DEF Goto, Become
<1>4. /\ n \in Thread /\ n.host = t.host /\ n.kind = t.kind /\ n.pc = pc
      /\ n.item = t.item /\ n.todo = t.todo /\ n.pane = t.pane /\ n.early = t.early /\ n.ok = t.ok
  BY <1>1 DEF Thread
<1> HIDE DEF n
<1>5. Goes(t, n)
  BY <1>1, <1>2, <1>3, <1>4 DEF Goes, ThreadOK, Held
<1> QED
  BY <1>4, <1>5 DEF SameItem, SamePane

(* An input that is dealt with makes room for the next. *)
LEMMA NextInputGoes ==
  ASSUME NEW t, ThreadOK(t), NextInput(t)
  PROVE  \E n : /\ Goes(t, n) /\ n.pc \in {"capture", "check"}
                /\ n.item = Nil /\ n.todo = t.todo
<1>1. t \in Thread /\ t.pc = "next" /\ t.kind = "input"
  BY DEF ThreadOK, NextInput, Thread
<1>2. Nil \notin t.todo
  BY <1>1, SessionAssumption DEF ThreadOK
<1> DEFINE pc == IF t.ok /\ Submit(t) THEN "capture" ELSE "check"
<1>0. pc \in {"capture", "check"}
  OBVIOUS
<1> HIDE DEF pc
<1> DEFINE n == [t EXCEPT !.pc = pc, !.item = Nil, !.ok = FALSE]
<1>3. threads' = (threads \ {t}) \cup {n}
  BY DEF NextInput, Become, pc
<1>4. /\ n \in Thread /\ n.host = t.host /\ n.kind = t.kind /\ n.pc = pc
      /\ n.item = Nil /\ n.todo = t.todo
  BY <1>0, <1>1 DEF Thread
<1> HIDE DEF n
<1>5. Goes(t, n)
  BY <1>0, <1>1, <1>2, <1>3, <1>4 DEF Goes, ThreadOK, Held
<1> QED
  BY <1>0, <1>4, <1>5

(* A wake is recorded, or its record refused. *)
LEMMA RecordWakeGoes ==
  ASSUME NEW t, ThreadOK(t), NEW status, NEW next, RecordWake(t, status, next),
         \/ t.pc = "drop" /\ next = "skip"
         \/ t.pc = "record" /\ next = "check"
  PROVE  \/ Exits(t) /\ wakes' = wakes /\ Refused(t.item, status)
         \/ /\ wakes' = [wakes EXCEPT ![t.item] = status]
            /\ ~Refused(t.item, status)
            /\ \E n : Goes(t, n) /\ n.pc = next /\ n.item = Nil /\ n.todo = t.todo
<1>1. t \in Thread /\ t.kind = "wake" /\ t.item # Nil
  BY DEF ThreadOK, Held, Thread
<1>2. Nil \notin t.todo
  BY <1>1, SessionAssumption DEF ThreadOK, Entries
<1>3. CASE Refused(t.item, status)
  BY <1>3 DEF RecordWake, Exit, Become, Exits
<1>4. CASE ~Refused(t.item, status)
  <2> DEFINE n == [t EXCEPT !.pc = next, !.item = Nil]
  <2>1. /\ n \in Thread /\ n.host = t.host /\ n.kind = t.kind /\ n.pc = next
        /\ n.item = Nil /\ n.todo = t.todo
    BY <1>1 DEF Thread
  <2>2. \/ threads' = (threads \ {t}) \cup {n}
        \/ threads' = {Stamped[u] : u \in threads \ {t}} \cup {n}
    BY <1>4 DEF RecordWake, Become
  <2> HIDE DEF n
  <2>3. Goes(t, n)
    BY <1>1, <1>2, <2>1, <2>2 DEF Goes, ThreadOK, Held
  <2>4. wakes' = [wakes EXCEPT ![t.item] = status]
    BY <1>4 DEF RecordWake
  <2> QED
    BY <1>4, <2>1, <2>3, <2>4
<1> QED
  BY <1>3, <1>4

(* The threads that are left are those of S. *)
Survive(S) ==
  /\ \A v \in threads' : \E u \in S : Kept(u, v)
  /\ \A u \in S : u.pc # "load" => u \in threads'

(* What becomes of the others when t goes on. *)
LEMMA GoesFacts ==
  ASSUME NEW t, NEW n, Goes(t, n)
  PROVE  /\ n \in threads'
         /\ \A v \in threads' : v = n \/ \E u \in threads \ {t} : Kept(u, v)
         /\ \A u \in threads \ {t} : u.pc # "load" => u \in threads'
<1>1. CASE threads' = (threads \ {t}) \cup {n}
  BY <1>1 DEF Kept
<1>2. CASE threads' = {Stamped[u] : u \in threads \ {t}} \cup {n}
  BY <1>2, StampKeeps
<1> QED
  BY <1>1, <1>2 DEF Goes

(* Which threads are left when none goes on. *)
LEMMA SurviveFacts ==
  /\ threads' = threads => Survive(threads)
  /\ Stamp => Survive(threads)
  /\ \A t : Exits(t) => Survive(threads \ {t})
  /\ \A h : CrashDaemon(h) => Survive({t \in threads : t.host # h})
<1>1. Stamp => Survive(threads)
  BY StampKeeps DEF Stamp, Survive
<1> QED
  BY <1>1 DEF Survive, Kept, Exits, CrashDaemon

(* Every step of a thread ends it or takes it on; and how it comes to hold    *)
(* the session lock and what it then does.                                    *)
LEMMA ThreadGoes ==
  ASSUME TypeInv, NEW t \in threads, ThreadStep(t) \/ FailCall(t)
  PROVE  \/ Exits(t)
         \/ \E n :
              /\ Goes(t, n)
              /\ \/ n.pc \notin Writing
                 \/ /\ n.pc = "poll" /\ _session_lock(t.host)
                    /\ n.pane = session[t.host].pane /\ n.pane # 0
                 \/ /\ n.pc = "paste" /\ t.pc = "poll" /\ n.pane = t.pane
                    /\ t.host \in marker /\ session[t.host].pane # 0
                    /\ n.early <=> session[t.host].stage = "placeholder"
                 \/ n.pc = "enter" /\ t.pc = "paste" /\ n.pane = t.pane
<1>1. ThreadOK(t) /\ session[t.host].pane \in Nat /\ MaxEntries \in Nat
      /\ wakes \in Seq({"pending", "delivered", "skipped"}) /\ Len(wakes) <= MaxEntries
  <2>1. ThreadOK(t) /\ t.host \in Hosts
    BY DEF TypeInv, ThreadOK, Thread
  <2> QED
    BY <2>1, LenProperties, SessionAssumption DEF TypeInv, DataOK, Bounds, Pane
<1>2. CASE LoadWakes(t)
  BY <1>1, <1>2, LoadWakesGoes DEF Writing
<1>3. CASE CheckWake(t)
  <2>1. t.pc \in {"check", "skip"}
    BY <1>3 DEF CheckWake
  <2> QED
    BY <1>1, <1>3, <2>1, CheckWakeGoes DEF Writing
<1>4. CASE SkipWake(t) \/ DeliverWake(t)
  BY <1>1, <1>4, RecordWakeGoes DEF SkipWake, DeliverWake, Writing
<1>5. CASE LoadInputs(t)
  BY <1>1, <1>5, LoadInputsGoes DEF Writing
<1>6. CASE CheckInput(t)
  BY <1>1, <1>6, CheckInputGoes DEF Writing
<1>7. CASE SettleRead(t)
  <2>1. t.pc = "settle" /\ (Goto(t, "reply") \/ Goto(t, "next") \/ Exits(t))
    BY <1>7 DEF SettleRead, Exit, Become, Exits
  <2> QED
    BY <1>1, <2>1, GotoGoes DEF Writing
<1>8. CASE NextInput(t)
  BY <1>1, <1>8, NextInputGoes DEF Writing
<1>9. CASE PublishTranscript(t) \/ FailCall(t)
  BY <1>9 DEF PublishTranscript, FailCall, Exit, Become, Exits
<1>10. CASE FindPane(t)
  <2>1. _session_lock(t.host)
    BY <1>10 DEF FindPane
  <2> QED
    BY <1>1, <1>10, <2>1, FindPaneGoes DEF Writing
<1>11. CASE SeeMarker(t)
  <2>1. t.pc = "poll" /\ t.host \in marker /\ session[t.host].pane # 0
    BY <1>11 DEF SeeMarker
  <2> QED
    BY <1>1, <1>11, <2>1, SeeMarkerGoes
<1>12. CASE GiveUp(t) \/ Paste(t) \/ Enter(t)
  <2>1. t.pc \in {"poll", "paste", "enter"}
        /\ ((\E ok \in BOOLEAN : Return(t, ok)) \/ (t.pc = "paste" /\ Goto(t, "enter")))
    BY <1>12 DEF GiveUp, Paste, Enter, There
  <2>2. CASE t.pc = "paste" /\ Goto(t, "enter")
    BY <1>1, <2>2, GotoGoes DEF SamePane
  <2>3. ASSUME NEW ok \in BOOLEAN, Return(t, ok)
        PROVE  Exits(t) \/ \E n : Goes(t, n) /\ n.pc \notin Writing
    BY <1>1, <2>1, <2>3, ReturnGoes DEF Writing
  <2> QED
    BY <2>1, <2>2, <2>3
<1> QED
  BY <1>2, <1>3, <1>4, <1>5, <1>6, <1>7, <1>8, <1>9, <1>10, <1>11, <1>12 DEF ThreadStep

(* A pass starts one. *)
LEMMA ObserveType ==
  ASSUME TypeInv, NEW h \in Hosts, NEW kind \in {"wake", "input"}
  PROVE  /\ ThreadOK(Observe(h, kind))
         /\ Observe(h, kind).host = h /\ Observe(h, kind).kind = kind
         /\ Observe(h, kind).pc = "load" /\ Observe(h, kind).item = Nil
         /\ Observe(h, kind).todo = {}
         /\ Observe(h, kind).seen.entries = Len(wakes) /\ Observe(h, kind).seen.live = Live
<1> DEFINE s == [entries |-> Len(wakes), live |-> Live, turn |-> turn, current |-> TRUE]
           n == Observe(h, kind)
<1>1. s \in Seen /\ s.entries = Len(wakes) /\ s.live = Live
  <2>1. Len(wakes) \in 0 .. MaxEntries /\ turn \in {"user", "agent"}
    BY LenProperties, SessionAssumption DEF TypeInv, DataOK, Bounds
  <2>2. Live \in BOOLEAN
    BY DEF Live
  <2> QED
    BY <2>1, <2>2 DEF Seen
<1>2. n = [host |-> h, kind |-> kind, pc |-> "load", seen |-> s, todo |-> {}, item |-> Nil,
           pane |-> 0, early |-> FALSE, ok |-> FALSE]
  BY DEF Observe
<1> HIDE DEF s, n
<1>3. n \in Thread /\ n.seen = s
      /\ n.host = h /\ n.kind = kind /\ n.pc = "load" /\ n.item = Nil /\ n.todo = {}
  BY <1>1, <1>2 DEF Thread, Seen
<1>4. ThreadOK(n)
  BY <1>1, <1>3 DEF ThreadOK, Held
<1> QED
  BY <1>1, <1>3, <1>4 DEF n

-----------------------------------------------------------------------------
(* The types are kept *)

(* Every thread keeps its shape. *)
LEMMA ThreadsType ==
  ASSUME TypeInv, Next
  PROVE  \A v \in threads' : ThreadOK(v)
<1> USE DEF TypeInv
<1>1. ASSUME NEW S \in SUBSET threads, Survive(S)
      PROVE  \A v \in threads' : ThreadOK(v)
  BY <1>1, KeptFields DEF Survive
<1>2. ASSUME NEW t \in threads, ThreadStep(t) \/ FailCall(t)
      PROVE  \A v \in threads' : ThreadOK(v)
  <2>1. CASE Exits(t)
    BY <1>1, <2>1, SurviveFacts
  <2>2. ASSUME NEW n, Goes(t, n)
        PROVE  \A v \in threads' : ThreadOK(v)
    <3>1. ThreadOK(n)
      BY <2>2 DEF Goes
    <3> QED
      BY <2>2, <3>1, GoesFacts, KeptFields
  <2> QED
    BY <1>2, <2>1, <2>2, ThreadGoes
<1>3. ASSUME NEW s \in settling, SettleWrite(s)
      PROVE  \A v \in threads' : ThreadOK(v)
  <2> SUFFICES ASSUME NEW u \in threads, u.pc = "reply"
               PROVE  ThreadOK([u EXCEPT !.pc = "next"])
    BY <1>3 DEF SettleWrite
  <2>1. u \in Thread /\ ThreadOK(u)
    BY DEF ThreadOK
  <2> QED
    BY <2>1 DEF ThreadOK, Thread, Held
<1>4. CASE Service
  <2>1. CASE EnterState \/ set_turn
    BY <1>1, <2>1, SurviveFacts DEF EnterState, set_turn
  <2>2. CASE ~(EnterState \/ set_turn \/ \E s \in settling : SettleWrite(s))
    <3>1. threads' = threads
      BY <1>4, <2>2 DEF Service, release, claim, register, unregister, create_session_input,
                        StoreInput, daemon
    <3> QED
      BY <3>1
  <2> QED
    BY <1>3, <2>1, <2>2
<1>5. ASSUME NEW h \in Hosts, Host(h)
      PROVE  \A v \in threads' : ThreadOK(v)
  <2>1. CASE wake(h) \/ process(h)
    BY <2>1, ObserveType DEF wake, process
  <2>2. CASE CrashDaemon(h)
    BY <1>1, <2>2, SurviveFacts
  <2>3. CASE ~(wake(h) \/ process(h) \/ CrashDaemon(h))
    <3>1. threads' = threads
      BY <1>5, <2>3 DEF Host, SpawnStep, SpawnClear, SpawnRun, SpawnSession, watch_pane, SpawnAgent,
                        SpawnFail, stop, AgentReady, LoseSession, LoseContainer, daemon
    <3> QED
      BY <3>1
  <2> QED
    BY <2>1, <2>2, <2>3
<1> QED
  BY <1>2, <1>4, <1>5 DEF Next

(* What is spent is taken off its bound. *)
LEMMA UseType ==
  ASSUME left \in Bounds,
         NEW what \in {"entries", "inputs", "turns", "claims", "panes", "faults"}, Use(what)
  PROVE  /\ left' \in Bounds /\ left[what] > 0
         /\ left'[what] = left[what] - 1
         /\ left'.hosts = left.hosts
         /\ \A other \in {"entries", "inputs", "turns", "claims", "panes", "faults"} :
              other # what => left'[other] = left[other]
BY DEF Use, Bounds

(* The text of what a thread has in its hands. *)
LEMMA TextType ==
  ASSUME TypeInv, NEW t \in threads, t.item # Nil
  PROVE  Text(t) \in Texts
<1>1. ThreadOK(t) /\ t \in Thread
  BY DEF TypeInv, ThreadOK
<1> QED
  BY <1>1 DEF ThreadOK, Thread, Text, Texts

(* The steps of the service keep the types ... *)
LEMMA ServiceType ==
  ASSUME TypeInv, Service
  PROVE  DataOK'
<1> USE DEF TypeInv, DataOK, record, queue, daemon, machine, observed
<1>1. CASE EnterState
  <2>1. left' \in Bounds /\ left.entries > 0 /\ left'.entries = left.entries - 1
    BY <1>1, UseType DEF EnterState
  <2>2. wakes' \in Seq({"pending", "delivered", "skipped"}) /\ Len(wakes') = Len(wakes) + 1
    BY <1>1, AppendProperties DEF EnterState
  <2>3. Len(wakes) \in Nat /\ left.entries \in Nat /\ MaxEntries \in Nat
    BY LenProperties, SessionAssumption DEF Bounds
  <2>4. Len(wakes') + left'.entries <= MaxEntries
    BY <2>1, <2>2, <2>3
  <2>5. memo' \subseteq Hosts /\ turn' \in {"user", "agent"}
    BY <1>1 DEF EnterState, Stamp
  <2> QED
    BY <1>1, <2>1, <2>2, <2>4, <2>5 DEF EnterState
<1>2. CASE set_turn
  <2>1. left' \in Bounds /\ left'.entries = left.entries
    BY <1>2, UseType DEF set_turn
  <2>2. memo' \subseteq Hosts /\ turn' \in {"user", "agent"}
    BY <1>2 DEF set_turn, Stamp
  <2> QED
    BY <1>2, <2>1, <2>2 DEF set_turn
<1>3. CASE release
  <2>1. {Text(t) : t \in {u \in threads : u.item # Nil}} \subseteq Texts
    BY TextType
  <2> QED
    BY <1>3, <2>1 DEF release
<1>4. ASSUME NEW h \in Hosts, claim(h)
      PROVE  DataOK'
  <2>1. left' \in Bounds /\ left'.entries = left.entries
    BY <1>4, UseType DEF claim
  <2> QED
    BY <1>4, <2>1 DEF claim
<1>5. ASSUME NEW h \in Hosts, register(h) \/ unregister(h)
      PROVE  DataOK'
  BY <1>5 DEF register, unregister
<1>6. ASSUME NEW k \in Keys, NEW submit \in BOOLEAN, create_session_input(k, submit)
      PROVE  DataOK'
  <2>1. left' \in Bounds /\ left'.entries = left.entries
    BY <1>6, UseType DEF create_session_input
  <2> QED
    BY <1>6, <2>1 DEF create_session_input
<1>7. ASSUME NEW a \in accepting, StoreInput(a)
      PROVE  DataOK'
  BY <1>7 DEF StoreInput
<1>8. ASSUME NEW s \in settling, SettleWrite(s)
      PROVE  DataOK'
  <2>1. inputs' \in [Keys -> [status : {"none", "pending", "delivered", "failed"},
                             submit : BOOLEAN]]
    BY <1>8 DEF SettleWrite
  <2> QED
    BY <1>8, <2>1 DEF SettleWrite
<1> QED
  BY <1>1, <1>2, <1>3, <1>4, <1>5, <1>6, <1>7, <1>8 DEF Service

(* ... those of a host, whose session is replaced as a whole or in part ... *)
LEMMA HostType ==
  ASSUME TypeInv, NEW h \in Hosts, Host(h)
  PROVE  DataOK'
<1> USE DEF TypeInv, DataOK, record, queue, daemon, machine, observed
<1>0. /\ NoSession \in Pane
      /\ session[h] \in Pane
  BY DEF NoSession, Pane
<1>1. CASE wake(h)
  <2>1. DOMAIN wakes \subseteq Entries
    BY LenProperties, SessionAssumption DEF Entries, Bounds
  <2> QED
    BY <1>1, <2>1 DEF wake
<1>2. CASE process(h)
  BY <1>2 DEF process
<1>3. ASSUME Fault \/ UNCHANGED left
      PROVE  left' \in Bounds /\ left'.entries = left.entries
  BY <1>3, UseType DEF Fault
<1>4. CASE SpawnClear(h)
  <2>1. session' = [session EXCEPT ![h] = NoSession]
        /\ (container' = container \/ container' = [container EXCEPT ![h] = "none"])
        /\ (snapshots' = snapshots \cup {h} \/ snapshots' = snapshots \ {h})
        /\ (spawn' = spawn \/ spawn' = [spawn EXCEPT ![h] = "run"])
        /\ (Fault \/ UNCHANGED left)
    BY <1>4 DEF SpawnClear, Spawning
  <2>2. session' \in [Hosts -> Pane]
    BY <1>0, <2>1
  <2>3. container' \in [Hosts -> {"none", "running", "exited"}] /\ snapshots' \subseteq Hosts
        /\ spawn' \in [Hosts -> {"idle", "run", "session", "watch", "agent"}]
    BY <2>1
  <2> QED
    BY <1>3, <1>4, <2>1, <2>2, <2>3 DEF SpawnClear
<1>5. CASE SpawnRun(h)
  BY <1>3, <1>5 DEF SpawnRun, Spawning
<1>6. CASE SpawnSession(h)
  <2>1. left' \in Bounds /\ left'.entries = left.entries
    BY <1>6, UseType DEF SpawnSession
  <2>2. [NoSession EXCEPT !.pane = left.panes, !.stage = "placeholder"]
          \in Pane
    BY <1>0 DEF Bounds, Pane
  <2> QED
    BY <1>6, <2>1, <2>2 DEF SpawnSession, Spawning
<1>7. CASE watch_pane(h)
  <2>1. [session[h] EXCEPT !.stage = "watched", !.armed = TRUE] \in Pane
    BY <1>0 DEF Pane
  <2>2. session' = session
        \/ session' = [session EXCEPT ![h] = [session[h] EXCEPT !.stage = "watched", !.armed = TRUE]]
    BY <1>7 DEF watch_pane
  <2>3. session' \in [Hosts -> Pane]
    BY <2>1, <2>2
  <2> QED
    BY <1>7, <2>3 DEF watch_pane, Spawning
<1>8. CASE SpawnAgent(h)
  <2>1. [session[h] EXCEPT !.stage = "agent", !.composer = {}] \in Pane
    BY <1>0 DEF Pane
  <2>2. session' = [session EXCEPT ![h] = [session[h] EXCEPT !.stage = "agent", !.composer = {}]]
    BY <1>8 DEF SpawnAgent
  <2>3. session' \in [Hosts -> Pane]
    BY <2>1, <2>2
  <2> QED
    BY <1>8, <2>3 DEF SpawnAgent, Spawning
<1>9. CASE SpawnFail(h)
  BY <1>0, <1>3, <1>9 DEF SpawnFail, Spawning
<1>10. CASE stop(h)
  BY <1>0, <1>10 DEF stop
<1>11. CASE AgentReady(h)
  <2>1. [session[h] EXCEPT !.ready = TRUE] \in Pane
    BY <1>0 DEF Pane
  <2>2. session' = [session EXCEPT ![h] = [session[h] EXCEPT !.ready = TRUE]]
    BY <1>11 DEF AgentReady
  <2>3. session' \in [Hosts -> Pane]
    BY <2>1, <2>2
  <2> QED
    BY <1>11, <2>3 DEF AgentReady
<1>12. CASE LoseSession(h) \/ LoseContainer(h)
  <2>1. session' \in [Hosts -> Pane]
    BY <1>0, <1>12 DEF LoseSession, LoseContainer
  <2> QED
    BY <1>3, <1>12, <2>1 DEF LoseSession, LoseContainer
<1>13. CASE CrashDaemon(h)
  <2>1. ASSUME NEW t \in threads, t.pc \in Typing
        PROVE  t.item # Nil
    BY <2>1 DEF ThreadOK, Held, Typing
  <2>2. {Text(t) : t \in {u \in threads : u.host = h /\ u.pc \in Typing}} \subseteq Texts
    BY <2>1, TextType
  <2> QED
    BY <1>3, <1>13, <2>2 DEF CrashDaemon, Spawning
<1> QED
  BY <1>1, <1>2, <1>4, <1>5, <1>6, <1>7, <1>8, <1>9, <1>10, <1>11, <1>12, <1>13 DEF Host, SpawnStep

(* ... and those of its threads. *)
LEMMA ThreadType ==
  ASSUME TypeInv, NEW t \in threads, ThreadStep(t) \/ FailCall(t)
  PROVE  DataOK'
<1> USE DEF TypeInv, DataOK, record, queue, daemon, machine, observed
<1>0. ThreadOK(t) /\ t \in Thread /\ t.host \in Hosts
  BY DEF ThreadOK, Thread
<1>9. session[t.host] \in Pane
  BY <1>0
<1>1. CASE LoadWakes(t)
  BY <1>0, <1>1 DEF LoadWakes, _remember
<1>2. CASE CheckWake(t) \/ LoadInputs(t) \/ CheckInput(t) \/ NextInput(t) \/ FindPane(t)
           \/ SeeMarker(t) \/ GiveUp(t)
  BY <1>2 DEF CheckWake, LoadInputs, CheckInput, NextInput, FindPane, SeeMarker, GiveUp
<1>3. ASSUME NEW status \in {"delivered", "skipped"}, NEW next, RecordWake(t, status, next)
      PROVE  DataOK'
  <2>1. wakes' = wakes \/ wakes' = [wakes EXCEPT ![t.item] = status]
    BY <1>3 DEF RecordWake
  <2>2. wakes' \in Seq({"pending", "delivered", "skipped"}) /\ Len(wakes') = Len(wakes)
    BY <2>1, ExceptSeq
  <2>3. memo' \subseteq Hosts
    BY <1>3 DEF RecordWake
  <2> QED
    BY <1>3, <2>2, <2>3 DEF RecordWake
<1>4. CASE SettleRead(t)
  <2>1. t.pc = "settle" => t.item \in Keys
    BY <1>0 DEF ThreadOK, Thread, Held
  <2>2. settling' \subseteq [host : Hosts, key : Keys, ok : BOOLEAN]
    BY <1>0, <1>4, <2>1 DEF SettleRead, Thread
  <2> QED
    BY <1>4, <2>2 DEF SettleRead
<1>5. CASE PublishTranscript(t)
  BY <1>0, <1>5 DEF PublishTranscript
<1>6. CASE FailCall(t)
  <2>1. left' \in Bounds /\ left'.entries = left.entries
    BY <1>6, UseType DEF FailCall, Fault
  <2>2. t.pc \in Typing => Text(t) \in Texts
    BY <1>0, TextType DEF ThreadOK, Held, Typing
  <2> QED
    BY <1>6, <2>1, <2>2 DEF FailCall
<1>7. CASE Paste(t)
  <2>1. Text(t) \in Texts
    BY <1>0, <1>7, TextType DEF ThreadOK, Held, Paste
  <2>2. pasted' \in [Texts -> 0 .. 2]
    <3>1. Typed(pasted[Text(t)]) \in 0 .. 2
      BY DEF Typed
    <3>2. pasted' = pasted \/ pasted' = [pasted EXCEPT ![Text(t)] = Typed(pasted[Text(t)])]
      BY <1>7, <2>1 DEF Paste
    <3> QED
      BY <3>1, <3>2
  <2>3. session' = session
        \/ session' = [session EXCEPT ![t.host] = [session[t.host] EXCEPT !.composer = @ \cup {Text(t)}]]
    BY <1>0, <1>7 DEF Paste
  <2>4. [session[t.host] EXCEPT !.composer = @ \cup {Text(t)}] \in Pane
    BY <1>9, <2>1 DEF Pane
  <2>5. session' \in [Hosts -> Pane]
    BY <2>3, <2>4
  <2> QED
    BY <1>7, <2>2, <2>5 DEF Paste
<1>8. CASE Enter(t)
  <2>1. Text(t) \in Texts
    BY <1>0, <1>8, TextType DEF ThreadOK, Held, Enter
  <2>2. session' = session
        \/ session' = [session EXCEPT ![t.host] = [session[t.host] EXCEPT !.composer = {}]]
    BY <1>0, <1>8 DEF Enter
  <2>3. [session[t.host] EXCEPT !.composer = {}] \in Pane
    BY <1>9 DEF Pane
  <2>4. session' \in [Hosts -> Pane]
    BY <2>2, <2>3
  <2> QED
    BY <1>8, <2>1, <2>4 DEF Enter
<1> QED
  BY <1>1, <1>2, <1>3, <1>4, <1>5, <1>6, <1>7, <1>8 DEF ThreadStep, SkipWake, DeliverWake

(* Every variable keeps its type, and no bound is exceeded. *)
LEMMA TypesKept == TypeInv /\ [Next]_vars => TypeInv'
<1> SUFFICES ASSUME TypeInv, [Next]_vars PROVE TypeInv'
  OBVIOUS
<1>1. CASE Next
  <2>1. DataOK'
    BY <1>1, ServiceType, HostType, ThreadType DEF Next
  <2>2. \A v \in threads' : ThreadOK(v)
    BY <1>1, ThreadsType
  <2> QED
    BY <2>1, <2>2 DEF TypeInv, ThreadOK
<1>2. CASE UNCHANGED vars
  BY <1>2 DEF vars, record, queue, daemon, machine, observed, TypeInv, DataOK, ThreadOK
<1> QED
  BY <1>1, <1>2

(* The variables start with their types. *)
LEMMA InitTypes == Init => TypeInv
<1> SUFFICES ASSUME Init PROVE TypeInv
  OBVIOUS
<1>1. left \in Bounds /\ left.entries \in 0 .. MaxEntries
  BY SessionAssumption DEF Init, Bounds
<1>2. wakes \in Seq({"pending", "delivered", "skipped"}) /\ Len(wakes) = 0
  BY EmptySeq DEF Init
<1>3. Len(wakes) + left.entries <= MaxEntries
  BY <1>1, <1>2, SessionAssumption
<1> QED
  BY <1>1, <1>2, <1>3 DEF Init, TypeInv, DataOK, Pane, NoInput, NoSession

(* What is promised of the types. *)
LEMMA TypesPromised == TypeInv => TypeOK
<1> SUFFICES ASSUME TypeInv PROVE TypeOK
  OBVIOUS
<1>1. Len(wakes) <= MaxEntries
  BY LenProperties, SessionAssumption DEF TypeInv, DataOK, Bounds
<1>2. threads \subseteq Thread
  BY DEF TypeInv, ThreadOK
<1>3. pasted \in [Texts -> Nat]
  BY DEF TypeInv, DataOK
<1> QED
  BY <1>1, <1>2, <1>3 DEF TypeInv, DataOK, Pane, TypeOK

-----------------------------------------------------------------------------
(* Panes and who types into them *)

(* What a host's session is while it is started and replaced. *)
PaneOK(h) ==
  /\ session[h].pane = 0 => session[h] = NoSession
  /\ session[h].pane # 0 => session[h].pane > left.panes /\ session[h].stage # "none"
  /\ spawn[h] \in {"run", "session"} => session[h] = NoSession
  /\ spawn[h] = "watch" => session[h].stage \in {"placeholder", "none"}
  /\ spawn[h] = "agent" => session[h].stage \in {"watched", "none"}
  /\ h \in marker /\ session[h].stage \in {"watched", "agent"} => session[h].ready

(* A thread that has noted a pane's id knows no later pane by it. *)
WriterOK(t) ==
  /\ t.pc \in Writing => t.pane > left.panes
  /\ t.pc = "paste" /\ There(t) => t.early \/ session[t.host].ready

WritesAlone ==
  \A t, u \in threads : t.host = u.host /\ t.pc \in Writing /\ u.pc \in Writing => t = u

PaneInv ==
  /\ TypeInv
  /\ \A h \in Hosts : PaneOK(h)
  /\ \A t \in threads : WriterOK(t)
  /\ WritesAlone

(* What typing leaves of the session of h. *)
SameSession(h) ==
  /\ session'[h].pane = session[h].pane /\ session'[h].stage = session[h].stage
  /\ session'[h].ready = session[h].ready
  /\ session[h].pane = 0 => session'[h] = session[h]

(* A thread changes nothing of a session but its composer, and only one that  *)
(* is there.                                                                  *)
LEMMA ThreadLeavesPanes ==
  ASSUME PaneInv, NEW t \in threads, ThreadStep(t) \/ FailCall(t)
  PROVE  /\ UNCHANGED <<marker, spawn, container, snapshots, torn>> /\ left'.panes = left.panes
         /\ left'.hosts = left.hosts /\ left'.claims = left.claims
         /\ \A h \in Hosts : SameSession(h)
<1> USE DEF machine, record, queue, observed
<1>1. t.host \in Hosts /\ left \in Bounds /\ session \in [Hosts -> Pane]
  BY DEF PaneInv, TypeInv, ThreadOK, Thread, DataOK
<1>2. CASE Paste(t)
  <2>1. t.pane > left.panes /\ left.panes \in Nat /\ t.pane \in Nat
    BY <1>1, <1>2 DEF Paste, PaneInv, WriterOK, Writing, Bounds, TypeInv, ThreadOK, Thread
  <2>2. CASE There(t)
    <3>1. session' = [session EXCEPT ![t.host] =
                        [session[t.host] EXCEPT !.composer = session[t.host].composer \cup {Text(t)}]]
      BY <1>1, <1>2, <2>2 DEF Paste
    <3>2. session[t.host].pane # 0 /\ session[t.host] \in Pane
      BY <1>1, <2>1, <2>2 DEF There
    <3>3. \A h \in Hosts : SameSession(h)
      BY <1>1, <3>1, <3>2 DEF SameSession, Pane
    <3> QED
      BY <1>2, <3>3 DEF Paste
  <2>3. CASE ~There(t)
    BY <1>2, <2>3 DEF Paste, SameSession
  <2> QED
    BY <2>2, <2>3
<1>3. CASE Enter(t)
  <2>1. t.pane > left.panes /\ left.panes \in Nat /\ t.pane \in Nat
    BY <1>1, <1>3 DEF Enter, PaneInv, WriterOK, Writing, Bounds, TypeInv, ThreadOK, Thread
  <2>2. CASE There(t)
    <3>1. session' = [session EXCEPT ![t.host] = [@ EXCEPT !.composer = {}]]
      BY <1>3, <2>2 DEF Enter
    <3>2. session[t.host].pane # 0 /\ session[t.host] \in Pane
      BY <1>1, <2>1, <2>2 DEF There
    <3>3. \A h \in Hosts : SameSession(h)
      BY <1>1, <3>1, <3>2 DEF SameSession, Pane
    <3> QED
      BY <1>3, <3>3 DEF Enter
  <2>3. CASE ~There(t)
    BY <1>3, <2>3 DEF Enter, SameSession
  <2> QED
    BY <2>2, <2>3
<1>4. CASE FailCall(t)
  <2>1. left'.panes = left.panes /\ left'.hosts = left.hosts /\ left'.claims = left.claims
    BY <1>1, <1>4, UseType DEF FailCall, Fault
  <2> QED
    BY <1>4, <2>1 DEF FailCall, SameSession
<1>5. CASE SkipWake(t) \/ DeliverWake(t)
  BY <1>5 DEF SkipWake, DeliverWake, RecordWake, SameSession
<1>6. CASE \/ LoadWakes(t) \/ CheckWake(t) \/ LoadInputs(t) \/ CheckInput(t) \/ SettleRead(t)
           \/ NextInput(t) \/ PublishTranscript(t) \/ FindPane(t) \/ SeeMarker(t) \/ GiveUp(t)
  BY <1>6 DEF LoadWakes, CheckWake, LoadInputs, CheckInput, SettleRead, NextInput,
              PublishTranscript, FindPane, SeeMarker, GiveUp, SameSession
<1> QED
  BY <1>2, <1>3, <1>4, <1>5, <1>6 DEF ThreadStep

(* The steps of a thread keep the panes in order. *)
LEMMA ThreadPanes ==
  ASSUME PaneInv, NEW t \in threads, ThreadStep(t) \/ FailCall(t)
  PROVE  /\ \A h \in Hosts : PaneOK(h)'
         /\ \A v \in threads' : WriterOK(v)'
         /\ WritesAlone'
<1>1. /\ UNCHANGED <<marker, spawn>> /\ left'.panes = left.panes
      /\ \A h \in Hosts : SameSession(h)
  BY ThreadLeavesPanes
<1>2. TypeInv /\ \A u \in threads : ThreadOK(u) /\ u.host \in Hosts
  BY DEF PaneInv, TypeInv, ThreadOK, Thread
<1>3. ASSUME NEW h \in Hosts PROVE PaneOK(h)'
  BY <1>1 DEF PaneInv, PaneOK, SameSession, NoSession
<1>4. ASSUME NEW u \in threads, NEW v, Kept(u, v)
      PROVE  WriterOK(v)' /\ (v.pc \in Writing => v = u)
  <2>1. /\ v.pc = u.pc /\ v.pane = u.pane /\ v.host = u.host /\ v.early = u.early
        /\ v.host \in Hosts
    BY <1>2, <1>4, KeptFields
  <2>2. WriterOK(u)
    BY DEF PaneInv
  <2>3. v.pc \in Writing => v = u
    BY <1>4, <2>1 DEF Kept, Writing
  <2> QED
    BY <1>1, <2>1, <2>2, <2>3 DEF WriterOK, SameSession, There
<1>5. ASSUME Exits(t)
      PROVE  (\A v \in threads' : WriterOK(v)') /\ WritesAlone'
  BY <1>4, <1>5 DEF Exits, Kept, PaneInv, WritesAlone
<1>6. ASSUME NEW n, Goes(t, n),
              \/ n.pc \notin Writing
              \/ /\ n.pc = "poll" /\ _session_lock(t.host)
                 /\ n.pane = session[t.host].pane /\ n.pane # 0
              \/ /\ n.pc = "paste" /\ t.pc = "poll" /\ n.pane = t.pane
                 /\ t.host \in marker /\ session[t.host].pane # 0
                 /\ n.early <=> session[t.host].stage = "placeholder"
              \/ n.pc = "enter" /\ t.pc = "paste" /\ n.pane = t.pane
      PROVE  (\A v \in threads' : WriterOK(v)') /\ WritesAlone'
  <2>1. n.host = t.host /\ t.host \in Hosts
    BY <1>2, <1>6 DEF Goes
  <2>2. WriterOK(n)'
    <3>1. CASE n.pc \notin Writing
      BY <3>1 DEF WriterOK, Writing
    <3>2. CASE n.pc = "poll" /\ n.pane = session[t.host].pane /\ n.pane # 0
      BY <1>1, <2>1, <3>2 DEF WriterOK, Writing, PaneInv, PaneOK
    <3>3. CASE /\ n.pc = "paste" /\ t.pc = "poll" /\ n.pane = t.pane
               /\ t.host \in marker /\ session[t.host].pane # 0
               /\ n.early <=> session[t.host].stage = "placeholder"
      <4>1. PaneOK(t.host) /\ WriterOK(t) /\ session[t.host] \in Pane
        BY <2>1 DEF PaneInv, TypeInv, DataOK
      <4>2. n.early \/ session[t.host].ready
        BY <3>3, <4>1 DEF PaneOK, Pane
      <4> QED
        BY <1>1, <2>1, <3>3, <4>1, <4>2 DEF WriterOK, Writing, SameSession
    <3>4. CASE n.pc = "enter" /\ t.pc = "paste" /\ n.pane = t.pane
      BY <1>1, <2>1, <3>4 DEF WriterOK, Writing, PaneInv
    <3> QED
      BY <1>6, <3>1, <3>2, <3>3, <3>4
  <2>3. \A v \in threads' : v = n \/ \E u \in threads \ {t} : Kept(u, v)
    BY <1>6, GoesFacts
  <2>4. \A v \in threads' : WriterOK(v)'
    BY <1>4, <2>2, <2>3
  <2>5. ASSUME NEW u \in threads \ {t}, u.host = n.host, u.pc \in Writing, n.pc \in Writing
        PROVE  FALSE
    BY <1>6, <2>1, <2>5 DEF PaneInv, WritesAlone, _session_lock, Writing
  <2>6. WritesAlone'
    <3> SUFFICES ASSUME NEW v \in threads', NEW w \in threads', v.host = w.host,
                        v.pc \in Writing, w.pc \in Writing
                 PROVE  v = w
      BY DEF WritesAlone
    <3>1. (v = n \/ v \in threads \ {t}) /\ (w = n \/ w \in threads \ {t})
      BY <1>4, <2>3
    <3> QED
      BY <2>5, <3>1 DEF PaneInv, WritesAlone
  <2> QED
    BY <2>4, <2>6
<1> QED
  BY <1>2, <1>3, <1>5, <1>6, ThreadGoes

(* What a step of the service leaves of the threads. *)
LEMMA ServiceThreads ==
  ASSUME TypeInv, Service
  PROVE  \/ Survive(threads)
         \/ \E s \in settling : SettleWrite(s)
<1>1. CASE EnterState \/ set_turn
  BY <1>1, SurviveFacts DEF EnterState, set_turn
<1>2. CASE ~(EnterState \/ set_turn \/ \E s \in settling : SettleWrite(s))
  <2>1. threads' = threads
    BY <1>2 DEF Service, release, claim, register, unregister, create_session_input,
                StoreInput, daemon
  <2> QED
    BY <2>1, SurviveFacts
<1> QED
  BY <1>1, <1>2

(* A thread that waits for the reply of the settlement is past its pane. *)
LEMMA SettledThreads ==
  ASSUME TypeInv, NEW s \in settling, SettleWrite(s)
  PROVE  /\ \A v \in threads' : v \in threads \/ v.pc = "next"
         /\ \A v \in threads' : \E u \in threads :
              /\ v.host = u.host /\ v.kind = u.kind /\ v.item = u.item /\ v.todo = u.todo
              /\ v.ok = u.ok
              /\ v = u \/ (u.pc = "reply" /\ v.pc = "next" /\ u.host = s.host /\ u.item = s.key)
         /\ \A u \in threads : u.pc # "reply" => u \in threads'
         /\ \A u \in threads : <<u.host, u.pc, u.item>> # <<s.host, "reply", s.key>> => u \in threads'
<1> DEFINE f(u) == IF <<u.host, u.pc, u.item>> = <<s.host, "reply", s.key>>
                   THEN [u EXCEPT !.pc = "next"] ELSE u
<1>1. threads' = {f(u) : u \in threads}
  BY DEF SettleWrite
<1>2. ASSUME NEW u \in threads
      PROVE  /\ f(u).host = u.host /\ f(u).kind = u.kind /\ f(u).item = u.item
             /\ f(u).todo = u.todo /\ f(u).ok = u.ok
             /\ f(u) = u \/ (u.pc = "reply" /\ f(u).pc = "next" /\ u.host = s.host /\ u.item = s.key)
             /\ <<u.host, u.pc, u.item>> # <<s.host, "reply", s.key>> => f(u) = u
             /\ u.pc # "reply" => f(u) = u
  <2>1. u \in Thread
    BY DEF TypeInv, ThreadOK
  <2> QED
    BY <2>1 DEF Thread
<1> HIDE DEF f
<1> QED
  BY <1>1, <1>2

(* The service has no part in a host's session ... *)
LEMMA ServiceLeavesPanes ==
  ASSUME TypeInv, Service
  PROVE  UNCHANGED <<marker, spawn, session, container, snapshots, torn>> /\ left'.panes = left.panes
<1> USE DEF machine, record, queue, observed, daemon
<1>1. left \in Bounds
  BY DEF TypeInv, DataOK
<1>2. left'.panes = left.panes
  BY <1>1, UseType DEF Service, EnterState, set_turn, release, claim, register, unregister,
                       create_session_input, StoreInput, SettleWrite
<1> QED
  BY <1>2 DEF Service, EnterState, set_turn, release, claim, register, unregister,
              create_session_input, StoreInput, SettleWrite

(* ... and leaves the panes and their writers in order. *)
LEMMA ServicePanes ==
  ASSUME PaneInv, Service
  PROVE  /\ \A h \in Hosts : PaneOK(h)'
         /\ \A v \in threads' : WriterOK(v)'
         /\ WritesAlone'
<1>1. UNCHANGED <<marker, spawn, session>> /\ left'.panes = left.panes
  BY ServiceLeavesPanes DEF PaneInv
<1>2. \A u \in threads : ThreadOK(u)
  BY DEF PaneInv, TypeInv
<1>3. ASSUME NEW h \in Hosts PROVE PaneOK(h)'
  BY <1>1 DEF PaneInv, PaneOK
<1>4. ASSUME NEW v \in threads'
      PROVE  v \in threads \/ v.pc \notin Writing
  <2>1. CASE Survive(threads)
    <3>1. PICK u \in threads : Kept(u, v)
      BY <2>1 DEF Survive
    <3>2. v.pc = u.pc
      BY <1>2, <3>1, KeptFields
    <3> QED
      BY <3>1, <3>2 DEF Kept, Writing
  <2>2. CASE \E s \in settling : SettleWrite(s)
    BY <2>2, SettledThreads DEF PaneInv, Writing
  <2> QED
    BY <2>1, <2>2, ServiceThreads DEF PaneInv
<1>5. \A v \in threads' : WriterOK(v)'
  BY <1>1, <1>4 DEF PaneInv, WriterOK, There, Writing
<1>6. WritesAlone'
  BY <1>4 DEF PaneInv, WritesAlone
<1> QED
  BY <1>3, <1>5, <1>6

(* A session is started, replaced and lost without its writers taking one     *)
(* pane for another.                                                          *)
LEMMA HostPanes ==
  ASSUME PaneInv, NEW h \in Hosts, Host(h)
  PROVE  /\ \A g \in Hosts : PaneOK(g)'
         /\ \A v \in threads' : WriterOK(v)'
         /\ WritesAlone'
<1> DEFINE Fine == /\ \A g \in Hosts : PaneOK(g)'
                   /\ \A v \in threads' : WriterOK(v)'
                   /\ WritesAlone'
<1> SUFFICES Fine
  OBVIOUS
<1> USE DEF machine, record, queue, observed, daemon
<1>1. /\ session \in [Hosts -> Pane] /\ left \in Bounds /\ left.panes \in Nat
      /\ spawn \in [Hosts -> {"idle", "run", "session", "watch", "agent"}]
      /\ \A t \in threads : t.host \in Hosts /\ t.pane \in Nat
      /\ NoSession.pane = 0 /\ NoSession.stage = "none"
  BY DEF PaneInv, TypeInv, ThreadOK, Thread, DataOK, Bounds, NoSession
<1>2. ASSUME threads' = threads, left'.panes = left.panes,
             \A g \in Hosts \ {h} : /\ session'[g] = session[g] /\ spawn'[g] = spawn[g]
                                    /\ g \in marker' <=> g \in marker,
             PaneOK(h)',
             \/ session'[h].pane = 0
             \/ session'[h].pane = session[h].pane /\ (session[h].ready => session'[h].ready)
      PROVE  Fine
  <2>1. \A g \in Hosts : PaneOK(g)'
    BY <1>2 DEF PaneInv, PaneOK
  <2>2. ASSUME NEW v \in threads' PROVE WriterOK(v)'
    <3>1. v \in threads /\ WriterOK(v) /\ v.host \in Hosts /\ v.pane \in Nat
      BY <1>1, <1>2 DEF PaneInv
    <3> QED
      BY <1>1, <1>2, <3>1 DEF WriterOK, There, Writing
  <2>3. WritesAlone'
    BY <1>2 DEF PaneInv, WritesAlone
  <2> QED
    BY <2>1, <2>2, <2>3
<1>3. ASSUME Fault \/ UNCHANGED left
      PROVE  left'.panes = left.panes
  BY <1>1, <1>3, UseType DEF Fault
<1>4. PaneOK(h)
  BY DEF PaneInv
<1>5. CASE wake(h) \/ process(h)
  <2>1. PICK kind \in {"wake", "input"} : threads' = threads \cup {Observe(h, kind)}
    BY <1>5 DEF wake, process
  <2>2. UNCHANGED <<session, spawn, marker, left>>
    BY <1>5 DEF wake, process
  <2>3. Observe(h, kind).pc = "load"
    BY ObserveType DEF PaneInv
  <2> QED
    BY <2>1, <2>2, <2>3 DEF PaneInv, PaneOK, WriterOK, WritesAlone, There, Writing
<1>6. CASE SpawnClear(h)
  <2>1. /\ threads' = threads /\ marker' = marker /\ left'.panes = left.panes
        /\ session' = [session EXCEPT ![h] = NoSession]
        /\ spawn' = spawn \/ spawn' = [spawn EXCEPT ![h] = "run"]
    BY <1>3, <1>6 DEF SpawnClear, Spawning
  <2>2. PaneOK(h)'
    BY <1>1, <2>1 DEF PaneOK, NoSession
  <2> QED
    BY <1>1, <1>2, <2>1, <2>2
<1>7. CASE SpawnRun(h)
  <2>1. /\ threads' = threads /\ marker' = marker /\ left'.panes = left.panes
        /\ session' = session /\ session[h] = NoSession
        /\ spawn' = [spawn EXCEPT ![h] = "session"] \/ spawn' = [spawn EXCEPT ![h] = "idle"]
    BY <1>3, <1>4, <1>7 DEF SpawnRun, Spawning, PaneOK
  <2>2. PaneOK(h)'
    BY <1>1, <2>1 DEF PaneOK, NoSession
  <2> QED
    BY <1>1, <1>2, <2>1, <2>2
<1>8. CASE SpawnSession(h)
  <2> DEFINE new == [NoSession EXCEPT !.pane = left.panes, !.stage = "placeholder"]
  <2>1. /\ threads' = threads /\ marker' = marker
        /\ left.panes > 0 /\ left'.panes = left.panes - 1
        /\ session' = [session EXCEPT ![h] = new]
        /\ spawn' = [spawn EXCEPT ![h] = "watch"]
    BY <1>1, <1>8, UseType DEF SpawnSession, Spawning
  <2>2. new.pane = left.panes /\ new.stage = "placeholder"
    BY DEF NoSession
  <2> HIDE DEF new
  <2>3. ASSUME NEW g \in Hosts PROVE PaneOK(g)'
    <3>1. CASE g = h
      BY <1>1, <2>1, <2>2, <3>1 DEF PaneOK
    <3>2. CASE g # h
      <4>1. PaneOK(g) /\ session[g].pane \in Nat
        BY <1>1 DEF PaneInv, Pane
      <4> QED
        BY <1>1, <2>1, <3>2, <4>1 DEF PaneOK
    <3> QED
      BY <3>1, <3>2
  <2>4. ASSUME NEW v \in threads' PROVE WriterOK(v)'
    <3>1. v \in threads /\ WriterOK(v) /\ v.host \in Hosts /\ v.pane \in Nat
      BY <1>1, <2>1 DEF PaneInv
    <3> QED
      BY <1>1, <2>1, <2>2, <3>1 DEF WriterOK, There, Writing
  <2>5. WritesAlone'
    BY <2>1 DEF PaneInv, WritesAlone
  <2> QED
    BY <2>3, <2>4, <2>5
<1>9. CASE watch_pane(h)
  <2>1. /\ threads' = threads /\ left' = left /\ spawn[h] = "watch"
        /\ spawn' = [spawn EXCEPT ![h] = "agent"]
    BY <1>9 DEF watch_pane, Spawning
  <2>2. CASE session[h].pane = 0
    <3>1. session' = session /\ marker' = marker
      BY <1>9, <2>2 DEF watch_pane
    <3>2. PaneOK(h)'
      BY <1>1, <1>4, <2>1, <2>2, <3>1 DEF PaneOK
    <3> QED
      BY <1>1, <1>2, <2>1, <3>1, <3>2
  <2>3. CASE session[h].pane # 0
    <3> DEFINE new == [session[h] EXCEPT !.stage = "watched", !.armed = TRUE]
    <3>1. session' = [session EXCEPT ![h] = new] /\ marker' = marker \ {h}
      BY <1>9, <2>3 DEF watch_pane
    <3>2. new.pane = session[h].pane /\ new.stage = "watched" /\ new.ready = session[h].ready
      BY <1>1 DEF Pane
    <3> HIDE DEF new
    <3>3. PaneOK(h)'
      BY <1>1, <1>4, <2>1, <2>3, <3>1, <3>2 DEF PaneOK
    <3> QED
      BY <1>1, <1>2, <2>1, <3>1, <3>2, <3>3
  <2> QED
    BY <2>2, <2>3
<1>10. CASE SpawnAgent(h)
  <2> DEFINE new == [session[h] EXCEPT !.stage = "agent", !.composer = {}]
  <2>1. /\ threads' = threads /\ left' = left /\ spawn[h] = "agent" /\ session[h].pane # 0
        /\ spawn' = [spawn EXCEPT ![h] = "idle"] /\ marker' = marker
        /\ session' = [session EXCEPT ![h] = new]
    BY <1>10 DEF SpawnAgent, Spawning
  <2>2. new.pane = session[h].pane /\ new.stage = "agent" /\ new.ready = session[h].ready
    BY <1>1 DEF Pane
  <2> HIDE DEF new
  <2>3. PaneOK(h)'
    BY <1>1, <1>4, <2>1, <2>2 DEF PaneOK
  <2> QED
    BY <1>1, <1>2, <2>1, <2>2, <2>3
<1>11. CASE SpawnFail(h) \/ stop(h) \/ LoseSession(h)
  <2>1. /\ threads' = threads /\ left'.panes = left.panes /\ marker' = marker
        /\ spawn' = [spawn EXCEPT ![h] = "idle"] \/ spawn' = spawn
        /\ session' = [session EXCEPT ![h] = NoSession]
    BY <1>3, <1>11 DEF SpawnFail, stop, LoseSession, Spawning
  <2>2. PaneOK(h)'
    BY <1>1, <2>1 DEF PaneOK
  <2> QED
    BY <1>1, <1>2, <2>1, <2>2
<1>12. CASE AgentReady(h)
  <2> DEFINE new == [session[h] EXCEPT !.ready = TRUE]
  <2>1. /\ threads' = threads /\ left' = left /\ spawn' = spawn /\ session[h].stage = "agent"
        /\ marker' = marker \/ marker' = marker \cup {h}
        /\ session' = [session EXCEPT ![h] = new]
    BY <1>12 DEF AgentReady
  <2>2. new.pane = session[h].pane /\ new.stage = session[h].stage /\ new.ready
    BY <1>1 DEF Pane
  <2> HIDE DEF new
  <2>3. session[h].pane # 0
    BY <1>1, <1>4, <2>1 DEF PaneOK
  <2>4. PaneOK(h)'
    BY <1>1, <1>4, <2>1, <2>2, <2>3 DEF PaneOK
  <2> QED
    BY <1>1, <1>2, <2>1, <2>2, <2>4
<1>13. CASE LoseContainer(h)
  <2>1. /\ threads' = threads /\ left'.panes = left.panes /\ marker' = marker /\ spawn' = spawn
        /\ session' = session
    BY <1>3, <1>13 DEF LoseContainer
  <2>2. PaneOK(h)'
    BY <1>4, <2>1 DEF PaneOK
  <2> QED
    BY <1>2, <2>1, <2>2
<1>14. CASE CrashDaemon(h)
  <2>1. /\ threads' \subseteq threads /\ left'.panes = left.panes /\ marker' = marker
        /\ spawn' = [spawn EXCEPT ![h] = "idle"] /\ session' = session
    BY <1>3, <1>14 DEF CrashDaemon, Spawning
  <2>2. \A g \in Hosts : PaneOK(g)'
    BY <1>1, <2>1 DEF PaneInv, PaneOK
  <2>3. \A v \in threads' : WriterOK(v)'
    BY <2>1 DEF PaneInv, WriterOK, There
  <2>4. WritesAlone'
    BY <2>1 DEF PaneInv, WritesAlone
  <2> QED
    BY <2>2, <2>3, <2>4
<1> QED
  BY <1>5, <1>6, <1>7, <1>8, <1>9, <1>10, <1>11, <1>12, <1>13, <1>14 DEF Host, SpawnStep

(* The panes stay in order. *)
LEMMA PanesKept == PaneInv /\ [Next]_vars => PaneInv'
<1> SUFFICES ASSUME PaneInv, [Next]_vars PROVE PaneInv'
  OBVIOUS
<1>1. TypeInv'
  BY TypesKept DEF PaneInv
<1>2. CASE Next
  BY <1>1, <1>2, ThreadPanes, ServicePanes, HostPanes DEF Next, PaneInv
<1>3. CASE UNCHANGED vars
  BY <1>1, <1>3 DEF vars, record, queue, daemon, machine, observed, PaneInv, PaneOK, WriterOK,
                    WritesAlone, There
<1> QED
  BY <1>2, <1>3

(* At first nothing runs. *)
LEMMA InitPanes == Init => PaneInv
<1> SUFFICES ASSUME Init PROVE PaneInv
  OBVIOUS
<1>1. TypeInv
  BY InitTypes
<1> QED
  BY <1>1 DEF Init, PaneInv, PaneOK, WriterOK, WritesAlone, NoSession

-----------------------------------------------------------------------------
(* Typing *)

(* What happens to the composer of a host's session: its threads paste into   *)
(* it or press Enter, or its pane goes or begins anew.                        *)
LEMMA WhoTypes ==
  ASSUME PaneInv, Next, NEW h \in Hosts
  PROVE  \/ \E t \in threads : t.host = h /\ There(t) /\ Paste(t)
         \/ \E t \in threads : t.host = h /\ There(t) /\ Enter(t)
         \/ session'[h].composer = session[h].composer
         \/ /\ session'[h].composer = {}
            /\ \/ session'[h].pane # session[h].pane
               \/ session'[h].stage # session[h].stage
               \/ session[h].composer = {}
<1> DEFINE Goal == \/ \E t \in threads : t.host = h /\ There(t) /\ Paste(t)
                   \/ \E t \in threads : t.host = h /\ There(t) /\ Enter(t)
                   \/ session'[h].composer = session[h].composer
                   \/ /\ session'[h].composer = {}
                      /\ \/ session'[h].pane # session[h].pane
                         \/ session'[h].stage # session[h].stage
                         \/ session[h].composer = {}
<1> SUFFICES Goal
  OBVIOUS
<1> USE DEF machine, record, queue, observed, daemon
<1>1. /\ session \in [Hosts -> Pane] /\ \A g \in Hosts : PaneOK(g) /\ session[g] \in Pane
      /\ \A t \in threads : t.host \in Hosts
      /\ NoSession.pane = 0 /\ NoSession.stage = "none" /\ NoSession.composer = {}
  BY DEF PaneInv, TypeInv, ThreadOK, Thread, DataOK, NoSession
<1>2. ASSUME session' = session
      PROVE  Goal
  BY <1>2
<1>3. ASSUME NEW t \in threads, ThreadStep(t) \/ FailCall(t)
      PROVE  Goal
  <2>1. CASE Paste(t)
    <3>1. CASE There(t) /\ t.host = h
      BY <2>1, <3>1
    <3>2. CASE ~There(t)
      BY <1>2, <2>1, <3>2 DEF Paste
    <3>3. CASE There(t) /\ t.host # h
      BY <1>1, <2>1, <3>3 DEF Paste
    <3> QED
      BY <3>1, <3>2, <3>3
  <2>2. CASE Enter(t)
    <3>1. CASE There(t) /\ t.host = h
      BY <2>2, <3>1
    <3>2. CASE ~There(t)
      BY <1>2, <2>2, <3>2 DEF Enter
    <3>3. CASE There(t) /\ t.host # h
      BY <1>1, <2>2, <3>3 DEF Enter
    <3> QED
      BY <3>1, <3>2, <3>3
  <2>3. CASE ~Paste(t) /\ ~Enter(t)
    <3>1. session' = session
      BY <1>3, <2>3 DEF ThreadStep, LoadWakes, CheckWake, SkipWake, DeliverWake, RecordWake, LoadInputs,
        CheckInput, SettleRead, NextInput, PublishTranscript, FindPane, SeeMarker, GiveUp, FailCall
    <3> QED
      BY <1>2, <3>1
  <2> QED
    BY <2>1, <2>2, <2>3
<1>4. CASE Service
  BY <1>2, <1>4, ServiceLeavesPanes DEF PaneInv
<1>5. ASSUME NEW g \in Hosts, Host(g)
      PROVE  Goal
  <2>1. ASSUME session' = [session EXCEPT ![g] = NoSession]
        PROVE  Goal
    <3>1. CASE g = h
      <4>1. session'[h] = NoSession
        BY <1>1, <2>1, <3>1
      <4>2. session[h].pane = 0 => session[h].composer = {}
        BY <1>1 DEF PaneOK
      <4> QED
        BY <1>1, <4>1, <4>2
    <3>2. CASE g # h
      BY <1>1, <2>1, <3>2
    <3> QED
      BY <3>1, <3>2
  <2>2. CASE SpawnSession(g)
    <3> DEFINE new == [NoSession EXCEPT !.pane = left.panes, !.stage = "placeholder"]
    <3>1. new.composer = {}
      BY DEF NoSession
    <3>2. session' = [session EXCEPT ![g] = new] /\ session[g].composer = {}
      BY <1>1, <2>2 DEF SpawnSession, PaneOK
    <3> HIDE DEF new
    <3> QED
      BY <1>1, <3>1, <3>2
  <2>3. CASE watch_pane(g)
    <3> DEFINE new == [session[g] EXCEPT !.stage = "watched", !.armed = TRUE]
    <3>1. session' = session \/ session' = [session EXCEPT ![g] = new]
      BY <2>3 DEF watch_pane
    <3>2. new.composer = session[g].composer
      BY <1>1 DEF Pane
    <3> HIDE DEF new
    <3> QED
      BY <1>1, <3>1, <3>2
  <2>4. CASE SpawnAgent(g)
    <3> DEFINE new == [session[g] EXCEPT !.stage = "agent", !.composer = {}]
    <3>1. session' = [session EXCEPT ![g] = new]
      BY <2>4 DEF SpawnAgent
    <3>2. new.composer = {} /\ new.stage = "agent" /\ session[g].stage # "agent"
      BY <1>1, <2>4 DEF Pane, PaneOK, SpawnAgent
    <3> HIDE DEF new
    <3> QED
      BY <1>1, <3>1, <3>2
  <2>5. CASE AgentReady(g)
    <3> DEFINE new == [session[g] EXCEPT !.ready = TRUE]
    <3>1. session' = [session EXCEPT ![g] = new]
      BY <2>5 DEF AgentReady
    <3>2. new.composer = session[g].composer
      BY <1>1 DEF Pane
    <3> HIDE DEF new
    <3> QED
      BY <1>1, <3>1, <3>2
  <2>6. CASE SpawnClear(g) \/ SpawnFail(g) \/ stop(g) \/ LoseSession(g)
    BY <2>1, <2>6 DEF SpawnClear, SpawnFail, stop, LoseSession
  <2>7. CASE wake(g) \/ process(g) \/ SpawnRun(g) \/ LoseContainer(g) \/ CrashDaemon(g)
    BY <1>2, <2>7 DEF wake, process, SpawnRun, LoseContainer, CrashDaemon
  <2> QED
    BY <1>5, <2>2, <2>3, <2>4, <2>5, <2>6, <2>7 DEF Host, SpawnStep
<1> QED
  BY <1>3, <1>4, <1>5 DEF Next

(* An Enter sends the text of the one thread that has still to press it: the  *)
(* waker and the I/O worker of a host serialize on the session lock           *)
(* (prefill.py). And a text is pasted only where the agent has asked for      *)
(* input, but for a writer that met the placeholder of a new pane with the    *)
(* marker of the session before it.                                           *)
THEOREM TypingOrderly == Spec => TypingIsOrderly
<1> DEFINE Sends ==
             \A h \in Hosts :
               session[h].composer # {} /\ session'[h].composer = {}
                 /\ session'[h].pane = session[h].pane /\ session'[h].stage = session[h].stage
               => Cardinality({t \in threads : t.host = h /\ t.pc = "enter" /\ There(t)}) = 1
           Meets ==
             \A h \in Hosts :
               session[h].composer \subseteq session'[h].composer
                 /\ session[h].composer # session'[h].composer
               => session[h].ready \/ \E t \in threads : t.host = h /\ t.pc = "paste" /\ t.early
<1>1. Init => PaneInv
  BY InitPanes
<1>2. PaneInv /\ [Next]_vars => PaneInv'
  BY PanesKept
<1>3. PaneInv /\ Next => Sends
  <2> SUFFICES ASSUME PaneInv, Next, NEW h \in Hosts,
                      session[h].composer # {}, session'[h].composer = {},
                      session'[h].pane = session[h].pane, session'[h].stage = session[h].stage
               PROVE  Cardinality({t \in threads : t.host = h /\ t.pc = "enter" /\ There(t)}) = 1
    OBVIOUS
  <2>1. ASSUME NEW t \in threads, t.host = h, There(t), Paste(t)
        PROVE  FALSE
    <3>1. session \in [Hosts -> Pane] /\ session[h] \in Pane
      BY DEF PaneInv, TypeInv, DataOK
    <3>2. session'[h].composer = session[h].composer \cup {Text(t)}
      BY <2>1, <3>1 DEF Paste, Pane
    <3> QED
      BY <3>2
  <2>2. PICK t \in threads : t.host = h /\ There(t) /\ Enter(t)
    BY <2>1, WhoTypes
  <2>3. {u \in threads : u.host = h /\ u.pc = "enter" /\ There(u)} = {t}
    BY <2>2 DEF PaneInv, WritesAlone, Writing, Enter
  <2> QED
    BY <2>3, FS_Singleton
<1>4. PaneInv /\ Next => Meets
  <2> SUFFICES ASSUME PaneInv, Next, NEW h \in Hosts,
                      session[h].composer \subseteq session'[h].composer,
                      session[h].composer # session'[h].composer
               PROVE  session[h].ready \/ \E t \in threads : t.host = h /\ t.pc = "paste" /\ t.early
    OBVIOUS
  <2>1. ASSUME NEW t \in threads, t.host = h, There(t), Enter(t)
        PROVE  session'[h].composer = {}
    <3>1. session \in [Hosts -> Pane] /\ session[h] \in Pane
      BY DEF PaneInv, TypeInv, DataOK
    <3> QED
      BY <2>1, <3>1 DEF Enter, Pane
  <2>2. PICK t \in threads : t.host = h /\ There(t) /\ Paste(t)
    BY <2>1, WhoTypes
  <2> QED
    BY <2>2 DEF PaneInv, WriterOK, Paste
<1>5. PaneInv /\ [Next]_vars => [Sends]_vars /\ [Meets]_vars
  BY <1>3, <1>4
<1> QED
  BY <1>1, <1>2, <1>5, PTL DEF Spec, TypingIsOrderly, EnterSendsOwnText, PasteMeetsPrompt

-----------------------------------------------------------------------------
(* What the threads go by *)

(* What a thread goes by: what it saw is in the records, and what it is past  *)
(* pasting was pasted.                                                        *)
Knows(t) ==
  /\ t.kind = "wake" =>
       /\ t.pc = "load" => /\ t.seen.entries <= Len(wakes)
                           /\ ~t.seen.live => 1 .. t.seen.entries \subseteq seenDown
       /\ \A i \in Entries : i = t.item \/ i \in t.todo =>
            i <= Len(wakes) /\ (t.pc \in {"skip", "drop"} => i \in seenDown)
  /\ t.kind = "input" =>
       \A k \in Keys : k = t.item \/ k \in t.todo => inputs[k].status # "none"
  /\ t.pc \in {"enter", "record"} => pasted[Text(t)] # 0
  /\ t.pc \in {"settle", "reply"} /\ t.ok => pasted[Text(t)] # 0

(* One input at a time is accepted, stored and pending. *)
OneInput ==
  /\ \A a, b \in accepting : a = b
  /\ accepting # {} => PendingInputs = {}
  /\ \A a \in accepting : inputs[a.key].status = "none"
  /\ \A k, l \in PendingInputs : k = l

(* What is about to be stored of an input is true. *)
Justified(s) ==
  inputs[s.key].status # "none" /\ (s.ok => pasted[<<"input", s.key>>] # 0)

KnowledgeInv ==
  /\ TypeInv
  /\ \A t \in threads : Knows(t)
  /\ OneInput
  /\ \A s \in settling : Justified(s)
  /\ DeliveredWasTyped /\ SkippedWasSeenDown /\ SnapshotHasContainer

(* Nothing that a thread goes by is taken back. *)
LEMMA NothingForgotten ==
  ASSUME TypeInv, Next
  PROVE  /\ Len(wakes) <= Len(wakes') /\ seenDown \subseteq seenDown'
         /\ \A x \in Texts : pasted[x] # 0 => pasted'[x] # 0
         /\ \A k \in Keys : inputs[k].status # "none" => inputs'[k].status # "none"
<1> DEFINE Same == /\ wakes' = wakes /\ seenDown' = seenDown /\ pasted' = pasted
                   /\ inputs' = inputs
           Goal == /\ Len(wakes) <= Len(wakes') /\ seenDown \subseteq seenDown'
                   /\ \A x \in Texts : pasted[x] # 0 => pasted'[x] # 0
                   /\ \A k \in Keys : inputs[k].status # "none" => inputs'[k].status # "none"
<1> SUFFICES Goal
  OBVIOUS
<1> USE DEF TypeInv, DataOK, record, queue, daemon, machine, observed
<1>1. Len(wakes) \in Nat
  BY LenProperties
<1>2. Same => Goal
  BY <1>1
<1>3. ASSUME NEW t \in threads, ThreadStep(t) \/ FailCall(t)
      PROVE  Goal
  <2>1. ASSUME NEW status \in {"delivered", "skipped"}, NEW next, RecordWake(t, status, next)
        PROVE  Goal
    <3>1. wakes' = wakes \/ wakes' = [wakes EXCEPT ![t.item] = status]
      BY <2>1 DEF RecordWake
    <3>2. Len(wakes') = Len(wakes)
      BY <3>1, ExceptSeq
    <3> QED
      BY <1>1, <2>1, <3>2 DEF RecordWake
  <2>2. CASE Paste(t)
    <3>1. pasted' = pasted \/ pasted' = [pasted EXCEPT ![Text(t)] = Typed(pasted[Text(t)])]
      BY <2>2 DEF Paste
    <3>2. Typed(pasted[Text(t)]) # 0
      BY DEF Typed
    <3> HIDE DEF DataOK
    <3>3. pasted \in [Texts -> 0 .. 2]
      BY DEF DataOK
    <3>4. \A x \in Texts : pasted[x] # 0 => pasted'[x] # 0
      BY <3>1, <3>2, <3>3
    <3> QED
      BY <1>1, <2>2, <3>4 DEF Paste
  <2>3. CASE ~Paste(t) /\ ~SkipWake(t) /\ ~DeliverWake(t)
    BY <1>2, <1>3, <2>3 DEF ThreadStep, LoadWakes, CheckWake, LoadInputs, CheckInput, SettleRead,
      NextInput, PublishTranscript, FindPane, SeeMarker, GiveUp, Enter, FailCall
  <2> QED
    BY <2>1, <2>2, <2>3 DEF SkipWake, DeliverWake
<1>4. CASE EnterState
  <2>1. Len(wakes') = Len(wakes) + 1
    BY <1>4, AppendProperties DEF EnterState
  <2> QED
    BY <1>1, <1>4, <2>1 DEF EnterState
<1>5. ASSUME NEW a \in accepting, StoreInput(a)
      PROVE  Goal
  <2>1. \A k \in Keys : inputs'[k] = inputs[k] \/ inputs'[k].status # "none"
    BY <1>5 DEF StoreInput
  <2> QED
    BY <1>1, <1>5, <2>1 DEF StoreInput
<1>6. ASSUME NEW s \in settling, SettleWrite(s)
      PROVE  Goal
  <2>1. \A k \in Keys : inputs'[k] = inputs[k] \/ inputs'[k].status # "none"
    BY <1>6 DEF SettleWrite
  <2> QED
    BY <1>1, <1>6, <2>1 DEF SettleWrite
<1>7. CASE Service /\ ~EnterState /\ ~(\E a \in accepting : StoreInput(a))
                   /\ ~(\E s \in settling : SettleWrite(s))
  BY <1>2, <1>7 DEF Service, set_turn, release, claim, register, unregister, create_session_input
<1>8. ASSUME NEW h \in Hosts, Host(h)
      PROVE  Goal
  <2>1. CASE wake(h)
    BY <1>1, <2>1 DEF wake
  <2>2. CASE ~wake(h)
    BY <1>2, <1>8, <2>2 DEF Host, SpawnStep, process, SpawnClear, SpawnRun, SpawnSession, watch_pane,
      SpawnAgent, SpawnFail, stop, AgentReady, LoseSession, LoseContainer, CrashDaemon
  <2> QED
    BY <2>1, <2>2
<1> QED
  BY <1>3, <1>4, <1>5, <1>6, <1>7, <1>8 DEF Next

(* What a thread knew it still knows. *)
LEMMA KnowsStill ==
  ASSUME TypeInv, Next, NEW u \in threads, Knows(u), NEW v, Kept(u, v)
  PROVE  Knows(v)'
<1>1. /\ v.kind = u.kind /\ v.pc = u.pc /\ v.item = u.item /\ v.todo = u.todo /\ v.ok = u.ok
      /\ u.pc = "load" => v.seen.entries = u.seen.entries /\ v.seen.live = u.seen.live
      /\ ThreadOK(u) /\ Text(v) = Text(u)
  BY KeptFields DEF TypeInv, Text
<1>2. u.pc \in {"enter", "record", "settle", "reply"} => Text(u) \in Texts
  BY <1>1, TextType DEF ThreadOK, Held
<1>3. Len(wakes) \in Nat /\ Len(wakes') \in Nat
  BY TypesKept, LenProperties DEF TypeInv, DataOK
<1>4. u.pc = "load" => u.seen.entries \in Nat
  BY <1>1, SessionAssumption DEF ThreadOK, Seen
<1>5. u.pc = "load" => 1 .. v.seen.entries = 1 .. u.seen.entries
  BY <1>1
<1>6. /\ Len(wakes) <= Len(wakes') /\ seenDown \subseteq seenDown'
      /\ \A x \in Texts : pasted[x] # 0 => pasted'[x] # 0
      /\ \A k \in Keys : inputs[k].status # "none" => inputs'[k].status # "none"
  BY NothingForgotten
<1>7. u.kind = "wake" /\ u.pc = "load" =>
        v.seen.entries <= Len(wakes') /\ (~v.seen.live => 1 .. v.seen.entries \subseteq seenDown')
  BY <1>1, <1>3, <1>4, <1>6 DEF Knows
<1>8. u.kind = "wake" => \A i \in Entries : i = v.item \/ i \in v.todo =>
        i <= Len(wakes') /\ (v.pc \in {"skip", "drop"} => i \in seenDown')
  <2> SUFFICES ASSUME u.kind = "wake", NEW i \in Entries, i = v.item \/ i \in v.todo
               PROVE  i <= Len(wakes') /\ (v.pc \in {"skip", "drop"} => i \in seenDown')
    OBVIOUS
  <2>1. i <= Len(wakes) /\ (u.pc \in {"skip", "drop"} => i \in seenDown)
    BY <1>1 DEF Knows
  <2>2. i \in Nat
    BY SessionAssumption DEF Entries
  <2> QED
    BY <1>1, <1>3, <1>6, <2>1, <2>2
<1>9. u.kind = "input" => \A k \in Keys : k = v.item \/ k \in v.todo => inputs'[k].status # "none"
  BY <1>1, <1>6 DEF Knows
<1>10. /\ v.pc \in {"enter", "record"} => pasted'[Text(v)] # 0
       /\ v.pc \in {"settle", "reply"} /\ v.ok => pasted'[Text(v)] # 0
  BY <1>1, <1>2, <1>6 DEF Knows
<1> QED
  BY <1>1, <1>7, <1>8, <1>9, <1>10 DEF Knows, Text

(* And it goes on by what it knows. *)
LEMMA ThreadKnows ==
  ASSUME TypeInv, NEW t \in threads, Knows(t), ThreadStep(t) \/ FailCall(t)
  PROVE  Exits(t) \/ \E n : Goes(t, n) /\ Knows(n)'
<1>1. ThreadOK(t) /\ session[t.host].pane \in Nat /\ MaxEntries \in Nat
      /\ wakes \in Seq({"pending", "delivered", "skipped"})
      /\ Len(wakes) <= MaxEntries /\ Len(wakes) \in Nat /\ DOMAIN wakes = 1 .. Len(wakes)
  <2>1. ThreadOK(t) /\ t.host \in Hosts
    BY DEF TypeInv, ThreadOK, Thread
  <2> QED
    BY <2>1, LenProperties, SessionAssumption DEF TypeInv, DataOK, Bounds, Pane
<1>2. /\ Len(wakes) <= Len(wakes') /\ seenDown \subseteq seenDown'
      /\ \A x \in Texts : pasted[x] # 0 => pasted'[x] # 0
      /\ \A k \in Keys : inputs[k].status # "none" => inputs'[k].status # "none"
      /\ Len(wakes') \in Nat
  <2>1. Next
    BY DEF Next
  <2> QED
    BY <2>1, NothingForgotten, TypesKept, LenProperties DEF TypeInv, DataOK
<1>3. \A i \in Entries : i <= Len(wakes) => i <= Len(wakes')
  BY <1>1, <1>2 DEF Entries
<1>4. ASSUME NEW n, Goes(t, n), n.pc \notin {"skip", "drop"} \/ t.pc \in {"skip", "drop"},
             n.item \in {Nil, t.item} \cup t.todo, n.todo \subseteq t.todo,
             n.pc \in {"enter", "record"} => n.item = t.item /\ pasted'[Text(t)] # 0,
             n.pc \in {"settle", "reply"} => n.item = t.item /\ (n.ok => pasted'[Text(t)] # 0)
      PROVE  \E m : Goes(t, m) /\ Knows(m)'
  <2>1. n.kind = t.kind /\ n.pc # "load"
    BY <1>4 DEF Goes
  <2>2. n.kind = "wake" => \A i \in Entries : i = n.item \/ i \in n.todo =>
          i <= Len(wakes') /\ (n.pc \in {"skip", "drop"} => i \in seenDown')
    <3> SUFFICES ASSUME n.kind = "wake", NEW i \in Entries, i = n.item \/ i \in n.todo
                 PROVE  i <= Len(wakes') /\ (n.pc \in {"skip", "drop"} => i \in seenDown')
      OBVIOUS
    <3>1. i = t.item \/ i \in t.todo
      BY <1>4, SessionAssumption DEF Entries
    <3> QED
      BY <1>2, <1>3, <1>4, <2>1, <3>1 DEF Knows
  <2>3. n.kind = "input" => \A k \in Keys : k = n.item \/ k \in n.todo => inputs'[k].status # "none"
    <3> SUFFICES ASSUME n.kind = "input", NEW k \in Keys, k = n.item \/ k \in n.todo
                 PROVE  inputs'[k].status # "none"
      OBVIOUS
    <3>1. k = t.item \/ k \in t.todo
      BY <1>4, SessionAssumption
    <3> QED
      BY <1>2, <2>1, <3>1 DEF Knows
  <2>4. n.item = t.item => Text(n) = Text(t)
    BY <2>1 DEF Text
  <2>5. Knows(n)'
    BY <1>4, <2>1, <2>2, <2>3, <2>4 DEF Knows, Text
  <2> QED
    BY <1>4, <2>5
<1>5. ASSUME NEW ok \in BOOLEAN, Return(t, ok), t.pc \in {"prefill", "poll", "paste", "enter"},
             ok => pasted'[Text(t)] # 0
      PROVE  Exits(t) \/ \E n : Goes(t, n) /\ Knows(n)'
  <2>1. CASE Exits(t)
    BY <2>1
  <2>2. ASSUME NEW n, Goes(t, n), SameItem(t, n),
               \/ t.kind = "wake" /\ n.pc = "record" /\ ok
               \/ t.kind = "input" /\ n.pc = "settle" /\ n.ok = ok
        PROVE  \E m : Goes(t, m) /\ Knows(m)'
    <3>1. /\ n.pc \notin {"skip", "drop"} /\ n.item = t.item /\ n.todo = t.todo
          /\ n.pc \in {"enter", "record"} => pasted'[Text(t)] # 0
          /\ n.pc \in {"settle", "reply"} => (n.ok => pasted'[Text(t)] # 0)
      BY <1>5, <2>2 DEF SameItem
    <3> QED
      BY <1>4, <2>2, <3>1
  <2> QED
    BY <1>1, <1>5, <2>1, <2>2, ReturnGoes
<1>6. CASE LoadWakes(t)
  <2>1. ASSUME NEW n, Goes(t, n), n.pc \in {"check", "skip"}, n.item = Nil, n.todo = Due(t),
               n.pc = "skip" => ~t.seen.live
        PROVE  Knows(n)'
    <3>1. t.kind = "wake" /\ t.pc = "load" /\ n.kind = "wake"
      BY <1>6, <2>1 DEF LoadWakes, Goes
    <3>2. ASSUME NEW i \in Entries, i = n.item \/ i \in n.todo
          PROVE  i <= Len(wakes') /\ (n.pc = "skip" => i \in seenDown')
      <4>1. i \in Due(t)
        BY <2>1, <3>2, SessionAssumption DEF Entries
      <4>2. i \in Nat /\ i >= 1 /\ t.seen.entries \in Nat /\ i <= t.seen.entries
        BY <1>1, <3>1, <4>1, SessionAssumption DEF Due, Entries, ThreadOK, Seen
      <4>3. i \in 1 .. t.seen.entries /\ i <= Len(wakes)
        BY <1>1, <4>1, <4>2 DEF Due, Pending
      <4> QED
        BY <1>2, <1>3, <2>1, <3>1, <4>3 DEF Knows
    <3> QED
      BY <2>1, <3>1, <3>2 DEF Knows
  <2> QED
    BY <1>1, <1>6, <2>1, LoadWakesGoes
<1>7. CASE CheckWake(t)
  <2>1. t.pc \in {"check", "skip"} /\ t.kind = "wake"
    BY <1>7 DEF CheckWake
  <2>2. ASSUME NEW n, Goes(t, n), n.pc = t.pc, n.item = Nil, n.todo \subseteq t.todo
        PROVE  \E m : Goes(t, m) /\ Knows(m)'
    <3>1. n.pc \notin {"skip", "drop"} \/ t.pc \in {"skip", "drop"}
      BY <2>2
    <3> QED
      BY <1>4, <2>1, <2>2, <3>1
  <2>3. ASSUME NEW n, Goes(t, n), n.pc \in {"prefill", "drop"}, n.pc = "drop" <=> t.pc = "skip",
               n.item \in t.todo \cap Pending, n.todo \subseteq t.todo
        PROVE  \E m : Goes(t, m) /\ Knows(m)'
    BY <1>4, <2>1, <2>3
  <2> QED
    BY <1>1, <1>7, <2>2, <2>3, CheckWakeGoes
<1>8. ASSUME NEW status, NEW next, RecordWake(t, status, next),
             \/ t.pc = "drop" /\ next = "skip"
             \/ t.pc = "record" /\ next = "check"
      PROVE  Exits(t) \/ \E n : Goes(t, n) /\ Knows(n)'
  <2>1. ASSUME NEW n, Goes(t, n), n.pc = next, n.item = Nil, n.todo = t.todo
        PROVE  \E m : Goes(t, m) /\ Knows(m)'
    BY <1>4, <1>8, <2>1
  <2> QED
    BY <1>1, <1>8, <2>1, RecordWakeGoes
<1>9. CASE LoadInputs(t)
  <2>1. ASSUME NEW n, Goes(t, n), n.pc \in {"check", "capture"}, n.item = Nil,
               n.todo \subseteq PendingInputs
        PROVE  Knows(n)'
    <3>1. n.kind = "input"
      BY <1>9, <2>1 DEF LoadInputs, Goes
    <3>2. ASSUME NEW k \in Keys, k = n.item \/ k \in n.todo
          PROVE  inputs'[k].status # "none"
      <4>1. k \in PendingInputs
        BY <2>1, <3>2, SessionAssumption
      <4> QED
        BY <1>2, <4>1 DEF PendingInputs
    <3> QED
      BY <2>1, <3>1, <3>2 DEF Knows
  <2> QED
    BY <1>1, <1>9, <2>1, LoadInputsGoes
<1>10. CASE CheckInput(t)
  <2>1. ASSUME NEW n, Goes(t, n), n.pc = "capture", SameItem(t, n)
        PROVE  \E m : Goes(t, m) /\ Knows(m)'
    BY <1>4, <2>1 DEF SameItem
  <2>2. ASSUME NEW n, Goes(t, n), n.pc = "prefill", n.item \in t.todo, n.todo = t.todo \ {n.item}
        PROVE  \E m : Goes(t, m) /\ Knows(m)'
    BY <1>4, <2>2
  <2> QED
    BY <1>1, <1>10, <2>1, <2>2, CheckInputGoes
<1>11. CASE SettleRead(t)
  <2>1. t.pc = "settle" /\ pasted' = pasted
        /\ (Goto(t, "reply") \/ Goto(t, "next") \/ Exits(t))
    BY <1>11 DEF SettleRead, Exit, Become, Exits, observed
  <2>2. ASSUME NEW pc \in {"reply", "next"}, Goto(t, pc)
        PROVE  \E m : Goes(t, m) /\ Knows(m)'
    <3>1. PICK n : /\ Goes(t, n) /\ SameItem(t, n) /\ SamePane(t, n)
                   /\ n.pc = pc /\ n.ok = t.ok
      BY <1>1, <2>1, <2>2, GotoGoes
    <3>2. n.ok => pasted'[Text(t)] # 0
      BY <2>1, <3>1 DEF Knows
    <3> QED
      BY <1>4, <3>1, <3>2 DEF SameItem
  <2> QED
    BY <2>1, <2>2
<1>12. CASE NextInput(t)
  <2>1. ASSUME NEW n, Goes(t, n), n.pc \in {"capture", "check"}, n.item = Nil, n.todo = t.todo
        PROVE  \E m : Goes(t, m) /\ Knows(m)'
    BY <1>4, <2>1
  <2> QED
    BY <1>1, <1>12, <2>1, NextInputGoes
<1>13. CASE FindPane(t)
  <2>1. ASSUME NEW n, Goes(t, n), SameItem(t, n), (n.pc = "settle" /\ ~n.ok) \/ n.pc = "poll"
        PROVE  \E m : Goes(t, m) /\ Knows(m)'
    BY <1>4, <2>1 DEF SameItem
  <2> QED
    BY <1>1, <1>13, <2>1, FindPaneGoes
<1>14. CASE SeeMarker(t)
  <2>1. ASSUME NEW n, Goes(t, n), SameItem(t, n), n.pc = "paste"
        PROVE  \E m : Goes(t, m) /\ Knows(m)'
    BY <1>4, <2>1 DEF SameItem
  <2> QED
    BY <1>1, <1>14, <2>1, SeeMarkerGoes
<1>15. CASE GiveUp(t)
  <2>1. Return(t, FALSE) /\ t.pc = "poll"
    BY <1>15 DEF GiveUp
  <2> QED
    BY <1>5, <2>1
<1>16. CASE Paste(t)
  <2>1. t.pc = "paste" /\ t.item # Nil /\ Text(t) \in Texts
    BY <1>1, <1>16, TextType DEF Paste, ThreadOK, Held
  <2>2. There(t) => pasted'[Text(t)] # 0
    <3>1. pasted \in [Texts -> 0 .. 2]
      BY DEF TypeInv, DataOK
    <3>2. There(t) => pasted' = [pasted EXCEPT ![Text(t)] = Typed(pasted[Text(t)])]
      BY <1>16 DEF Paste
    <3>3. Typed(pasted[Text(t)]) # 0
      BY DEF Typed
    <3> QED
      BY <2>1, <3>1, <3>2, <3>3
  <2>3. CASE Goto(t, "enter") /\ There(t)
    <3>1. PICK n : /\ Goes(t, n) /\ SameItem(t, n) /\ SamePane(t, n)
                   /\ n.pc = "enter" /\ n.ok = t.ok
      BY <1>1, <2>1, <2>3, GotoGoes
    <3> QED
      BY <1>4, <2>2, <2>3, <3>1 DEF SameItem
  <2>4. (There(t) /\ Return(t, TRUE)) \/ Return(t, FALSE) \/ (There(t) /\ Goto(t, "enter"))
    BY <1>16 DEF Paste
  <2> QED
    BY <1>5, <2>1, <2>2, <2>3, <2>4
<1>17. CASE Enter(t)
  <2>1. t.pc = "enter" /\ Return(t, There(t)) /\ There(t) \in BOOLEAN /\ pasted' = pasted
    BY <1>17 DEF Enter, There
  <2>2. pasted[Text(t)] # 0
    BY <2>1 DEF Knows
  <2>3. pasted'[Text(t)] # 0
    BY <2>1, <2>2
  <2> QED
    BY <1>5, <2>1, <2>3
<1>18. CASE PublishTranscript(t) \/ FailCall(t)
  BY <1>18 DEF PublishTranscript, FailCall, Exit, Become, Exits
<1> QED
  BY <1>6, <1>7, <1>8, <1>9, <1>10, <1>11, <1>12, <1>13, <1>14, <1>15, <1>16, <1>17, <1>18
     DEF ThreadStep, SkipWake, DeliverWake

(* Every thread goes by what is so. *)
LEMMA ThreadsKnow ==
  ASSUME KnowledgeInv, Next
  PROVE  \A v \in threads' : Knows(v)'
<1>0. TypeInv /\ \A t \in threads : Knows(t) /\ ThreadOK(t)
  BY DEF KnowledgeInv, TypeInv
<1>1. ASSUME NEW S \in SUBSET threads, Survive(S)
      PROVE  \A v \in threads' : Knows(v)'
  BY <1>0, <1>1, KnowsStill DEF Survive
<1>2. ASSUME NEW t \in threads, ThreadStep(t) \/ FailCall(t)
      PROVE  \A v \in threads' : Knows(v)'
  <2>1. CASE Exits(t)
    BY <1>1, <2>1, SurviveFacts
  <2>2. ASSUME NEW n, Goes(t, n), Knows(n)'
        PROVE  \A v \in threads' : Knows(v)'
    <3>1. \A v \in threads' : v = n \/ \E u \in threads \ {t} : Kept(u, v)
      BY <2>2, GoesFacts
    <3> QED
      BY <1>0, <2>2, <3>1, KnowsStill
  <2> QED
    BY <1>0, <1>2, <2>1, <2>2, ThreadKnows
<1>3. ASSUME NEW s \in settling, SettleWrite(s)
      PROVE  \A v \in threads' : Knows(v)'
  <2> SUFFICES ASSUME NEW v \in threads' PROVE Knows(v)'
    OBVIOUS
  <2>1. PICK u \in threads :
          /\ v.host = u.host /\ v.kind = u.kind /\ v.item = u.item /\ v.todo = u.todo
          /\ v.ok = u.ok
          /\ v = u \/ (u.pc = "reply" /\ v.pc = "next" /\ u.host = s.host /\ u.item = s.key)
    BY <1>0, <1>3, SettledThreads
  <2>2. Knows(u)'
    BY <1>0, KnowsStill DEF Kept
  <2>3. u.pc = "reply" => u.kind = "input"
    BY <1>0 DEF ThreadOK, Thread
  <2> QED
    BY <2>1, <2>2, <2>3 DEF Knows
<1>4. ASSUME NEW h \in Hosts, NEW kind \in {"wake", "input"},
             threads' = threads \cup {Observe(h, kind)}, wakes' = wakes,
             kind = "wake" /\ ~Live => DOMAIN wakes \subseteq seenDown'
      PROVE  \A v \in threads' : Knows(v)'
  <2>0. PICK n : n = Observe(h, kind)
    OBVIOUS
  <2>1. /\ n.kind = kind /\ n.pc = "load" /\ n.item = Nil /\ n.todo = {}
        /\ n.seen.entries = Len(wakes) /\ n.seen.live = Live
    BY <1>0, <2>0, ObserveType
  <2>2. Len(wakes) \in Nat /\ DOMAIN wakes = 1 .. Len(wakes)
    BY <1>0, LenProperties DEF TypeInv, DataOK
  <2>3. Nil \notin Entries \cup Keys
    BY SessionAssumption DEF Entries
  <2>4. /\ n.seen.entries <= Len(wakes')
        /\ n.kind = "wake" /\ ~n.seen.live => 1 .. n.seen.entries \subseteq seenDown'
    <3>1. ~n.seen.live <=> ~Live
      BY <2>1
    <3> QED
      BY <1>4, <2>1, <2>2, <3>1
  <2>5. Knows(n)'
    <3>1. \A i \in Entries \cup Keys : i # n.item /\ i \notin n.todo
      BY <2>1, <2>3
    <3> QED
      BY <2>1, <2>4, <3>1 DEF Knows
  <2>6. \A v \in threads' : v \in threads \/ v = n
    BY <1>4, <2>0
  <2>7. \A v \in threads : Knows(v)'
    BY <1>0, KnowsStill DEF Kept
  <2> QED
    BY <2>5, <2>6, <2>7
<1>5. ASSUME NEW h \in Hosts, Host(h)
      PROVE  \A v \in threads' : Knows(v)'
  <2>1. CASE wake(h)
    BY <1>4, <2>1 DEF wake, record
  <2>2. CASE process(h)
    BY <1>4, <2>2 DEF process, record
  <2>3. CASE CrashDaemon(h)
    BY <1>1, <2>3, SurviveFacts
  <2>4. CASE ~(wake(h) \/ process(h) \/ CrashDaemon(h))
    <3>1. threads' = threads
      BY <1>5, <2>4 DEF Host, SpawnStep, SpawnClear, SpawnRun, SpawnSession, watch_pane, SpawnAgent,
                        SpawnFail, stop, AgentReady, LoseSession, LoseContainer, daemon
    <3> QED
      BY <1>1, <3>1, SurviveFacts
  <2> QED
    BY <2>1, <2>2, <2>3, <2>4
<1> QED
  BY <1>0, <1>1, <1>2, <1>3, <1>5, ServiceThreads DEF Next

(* An input is accepted only when none is pending, and stored before the next *)
(* is accepted.                                                               *)
LEMMA InputsOneByOne ==
  ASSUME KnowledgeInv, Next
  PROVE  OneInput'
<1> USE DEF record, queue, daemon, machine, observed
<1>1. /\ inputs \in [Keys -> [status : {"none", "pending", "delivered", "failed"},
                              submit : BOOLEAN]]
      /\ accepting \subseteq [key : Keys, submit : BOOLEAN]
      /\ settling \subseteq [host : Hosts, key : Keys, ok : BOOLEAN]
      /\ OneInput /\ \A s \in settling : Justified(s)
  BY DEF KnowledgeInv, TypeInv, DataOK
<1>2. CASE UNCHANGED <<inputs, accepting>>
  BY <1>1, <1>2 DEF OneInput, PendingInputs
<1>3. ASSUME NEW k \in Keys, NEW submit \in BOOLEAN, create_session_input(k, submit)
      PROVE  OneInput'
  BY <1>1, <1>3 DEF create_session_input, OneInput, PendingInputs, NoInput
<1>4. ASSUME NEW a \in accepting, StoreInput(a)
      PROVE  OneInput'
  <2>1. PendingInputs' = {a.key}
    BY <1>1, <1>4 DEF StoreInput, OneInput, PendingInputs
  <2>2. accepting' = {}
    BY <1>1, <1>4 DEF StoreInput, OneInput
  <2> QED
    BY <2>1, <2>2 DEF OneInput
<1>5. ASSUME NEW s \in settling, SettleWrite(s)
      PROVE  OneInput'
  <2>1. PendingInputs' \subseteq PendingInputs
    BY <1>1, <1>5 DEF SettleWrite, PendingInputs
  <2>2. \A a \in accepting : a.key # s.key
    BY <1>1 DEF OneInput, Justified
  <2>3. accepting' = accepting /\ \A a \in accepting : inputs'[a.key] = inputs[a.key]
    BY <1>1, <1>5, <2>2 DEF SettleWrite
  <2> QED
    BY <1>1, <2>1, <2>3 DEF OneInput
<1>6. CASE Service
  BY <1>2, <1>3, <1>4, <1>5, <1>6 DEF Service, EnterState, set_turn, release, claim, register,
                                      unregister
<1>7. ASSUME NEW h \in Hosts, Host(h)
      PROVE  UNCHANGED <<inputs, accepting>>
  BY <1>7 DEF Host, SpawnStep, wake, process, SpawnClear, SpawnRun, SpawnSession, watch_pane,
    SpawnAgent, SpawnFail, stop, AgentReady, LoseSession, LoseContainer, CrashDaemon
<1>8. ASSUME NEW t \in threads, ThreadStep(t) \/ FailCall(t)
      PROVE  UNCHANGED <<inputs, accepting>>
  BY <1>8 DEF ThreadStep, LoadWakes, CheckWake, LoadInputs, CheckInput, SettleRead, SkipWake,
      DeliverWake, RecordWake, NextInput, PublishTranscript, FindPane, SeeMarker, GiveUp, Paste,
      Enter, FailCall
<1> QED
  BY <1>2, <1>6, <1>7, <1>8 DEF Next

(* What is stored of an input, and of a wake, was so. *)
LEMMA RecordsJustified ==
  ASSUME KnowledgeInv, Next
  PROVE  /\ \A s \in settling' : Justified(s)'
         /\ DeliveredWasTyped' /\ SkippedWasSeenDown'
<1> USE DEF record, queue, daemon, machine, observed
<1>1. /\ inputs \in [Keys -> [status : {"none", "pending", "delivered", "failed"},
                              submit : BOOLEAN]]
      /\ accepting \subseteq [key : Keys, submit : BOOLEAN]
      /\ settling \subseteq [host : Hosts, key : Keys, ok : BOOLEAN]
      /\ \A s \in settling : Justified(s)
      /\ \A t \in threads : ThreadOK(t) /\ Knows(t)
      /\ wakes \in Seq({"pending", "delivered", "skipped"})
      /\ DOMAIN wakes = 1 .. Len(wakes) /\ DOMAIN wakes \subseteq Entries
      /\ DeliveredWasTyped /\ SkippedWasSeenDown
  <2>1. TypeInv /\ DataOK
    BY DEF KnowledgeInv, TypeInv
  <2>2. DOMAIN wakes = 1 .. Len(wakes) /\ DOMAIN wakes \subseteq Entries
    BY <2>1, LenProperties, SessionAssumption DEF DataOK, Bounds, Entries
  <2> QED
    BY <2>1, <2>2 DEF KnowledgeInv, TypeInv, DataOK
<1>2. /\ seenDown \subseteq seenDown'
      /\ \A x \in Texts : pasted[x] # 0 => pasted'[x] # 0
      /\ \A k \in Keys : inputs[k].status # "none" => inputs'[k].status # "none"
      /\ pasted \in [Texts -> 0 .. 2] /\ pasted' \in [Texts -> 0 .. 2]
  BY NothingForgotten, TypesKept DEF KnowledgeInv, TypeInv, DataOK
<1>3. (\A i \in Entries : <<"wake", i>> \in Texts) /\ (\A k \in Keys : <<"input", k>> \in Texts)
  BY DEF Texts
<1>4. ASSUME NEW s \in settling PROVE Justified(s)'
  <2>1. s.key \in Keys /\ Justified(s)
    BY <1>1
  <2> QED
    BY <1>2, <1>3, <2>1 DEF Justified
<1>5. ASSUME \A k \in Keys : inputs'[k].status = inputs[k].status \/ inputs'[k].status # "delivered"
                             \/ pasted'[<<"input", k>>] # 0,
             \A i \in DOMAIN wakes' :
               \/ i \in DOMAIN wakes /\ wakes'[i] = wakes[i]
               \/ wakes'[i] = "pending"
               \/ wakes'[i] = "delivered" /\ pasted'[<<"wake", i>>] # 0
               \/ wakes'[i] = "skipped" /\ i \in seenDown
      PROVE  DeliveredWasTyped' /\ SkippedWasSeenDown'
  <2>1. ASSUME NEW i \in DOMAIN wakes', wakes'[i] = "delivered"
        PROVE  pasted'[<<"wake", i>>] > 0
    <3>1. pasted'[<<"wake", i>>] # 0 /\ i \in Entries
      <4>1. TypeInv' /\ DataOK'
        BY TypesKept DEF KnowledgeInv, TypeInv
      <4>2. i \in Entries
        BY <4>1, LenProperties, SessionAssumption DEF DataOK, Bounds, Entries
      <4>3. CASE i \in DOMAIN wakes /\ wakes'[i] = wakes[i]
        BY <1>1, <1>2, <1>3, <2>1, <4>2, <4>3 DEF DeliveredWasTyped
      <4> QED
        BY <1>5, <2>1, <4>2, <4>3
    <3>2. pasted'[<<"wake", i>>] \in 0 .. 2
      BY <1>2, <1>3, <3>1
    <3> QED
      BY <3>1, <3>2
  <2>2. ASSUME NEW k \in Keys, inputs'[k].status = "delivered"
        PROVE  pasted'[<<"input", k>>] > 0
    <3>1. inputs[k].status = "delivered" => pasted[<<"input", k>>] # 0
      BY <1>1, <1>2, <1>3 DEF DeliveredWasTyped
    <3>2. pasted'[<<"input", k>>] # 0 /\ pasted'[<<"input", k>>] \in 0 .. 2
      BY <1>2, <1>3, <1>5, <2>2, <3>1
    <3> QED
      BY <3>2
  <2>3. ASSUME NEW i \in DOMAIN wakes', wakes'[i] = "skipped"
        PROVE  i \in seenDown'
    BY <1>1, <1>2, <1>5, <2>3 DEF SkippedWasSeenDown
  <2> QED
    BY <2>1, <2>2, <2>3 DEF DeliveredWasTyped, SkippedWasSeenDown
<1>6. ASSUME NEW s \in settling, SettleWrite(s)
      PROVE  (\A r \in settling' : Justified(r)') /\ DeliveredWasTyped' /\ SkippedWasSeenDown'
  <2>1. settling' \subseteq settling /\ wakes' = wakes
    BY <1>6 DEF SettleWrite
  <2>2. \A k \in Keys : inputs'[k].status = inputs[k].status \/ inputs'[k].status # "delivered"
                        \/ pasted'[<<"input", k>>] # 0
    <3> SUFFICES ASSUME NEW k \in Keys, inputs'[k].status = "delivered",
                        inputs'[k].status # inputs[k].status
                 PROVE  pasted'[<<"input", k>>] # 0
      OBVIOUS
    <3>1. k = s.key /\ s.ok
      BY <1>1, <1>6 DEF SettleWrite
    <3> QED
      BY <1>4, <3>1 DEF Justified
  <2> QED
    BY <1>4, <1>5, <2>1, <2>2
<1>7. ASSUME NEW a \in accepting, StoreInput(a)
      PROVE  (\A r \in settling' : Justified(r)') /\ DeliveredWasTyped' /\ SkippedWasSeenDown'
  <2>1. settling' = settling /\ wakes' = wakes
    BY <1>7 DEF StoreInput
  <2>2. \A k \in Keys : inputs'[k].status = inputs[k].status \/ inputs'[k].status # "delivered"
    BY <1>1, <1>7 DEF StoreInput
  <2> QED
    BY <1>4, <1>5, <2>1, <2>2
<1>8. CASE EnterState
  <2>1. settling' = settling /\ inputs' = inputs /\ wakes' = Append(wakes, "pending")
    BY <1>8 DEF EnterState
  <2>2. \A i \in DOMAIN wakes' : (i \in DOMAIN wakes /\ wakes'[i] = wakes[i]) \/ wakes'[i] = "pending"
    BY <1>1, <2>1, AppendProperties
  <2> QED
    BY <1>4, <1>5, <2>1, <2>2
<1>9. CASE UNCHANGED <<settling, inputs, wakes>>
  BY <1>4, <1>5, <1>9
<1>10. CASE Service
  BY <1>6, <1>7, <1>8, <1>9, <1>10 DEF Service, set_turn, release, claim, register, unregister,
                                      create_session_input
<1>11. ASSUME NEW h \in Hosts, Host(h)
       PROVE  UNCHANGED <<settling, inputs, wakes>>
  BY <1>11 DEF Host, SpawnStep, wake, process, SpawnClear, SpawnRun, SpawnSession, watch_pane,
    SpawnAgent, SpawnFail, stop, AgentReady, LoseSession, LoseContainer, CrashDaemon
<1>12. ASSUME NEW t \in threads, SettleRead(t)
       PROVE  (\A r \in settling' : Justified(r)') /\ DeliveredWasTyped' /\ SkippedWasSeenDown'
  <2>1. wakes' = wakes /\ inputs' = inputs /\ pasted' = pasted /\ t.pc = "settle"
    BY <1>12 DEF SettleRead
  <2>2. \A r \in settling' : Justified(r)'
    <3>1. CASE settling' = settling
      BY <1>4, <3>1
    <3>2. CASE owner = t.host /\ inputs[t.item].status = "pending"
      <4> DEFINE r == [host |-> t.host, key |-> t.item, ok |-> t.ok]
      <4>1. settling' = settling \cup {r} /\ r.key = t.item /\ r.ok = t.ok
        BY <1>12, <3>2 DEF SettleRead
      <4> HIDE DEF r
      <4>2. t.kind = "input"
        BY <1>1, <2>1 DEF ThreadOK, Thread
      <4>3. t.ok => pasted[<<"input", t.item>>] # 0
        BY <1>1, <2>1, <4>2 DEF Knows, Text
      <4>4. Justified(r)'
        BY <2>1, <3>2, <4>1, <4>3 DEF Justified
      <4> QED
        BY <1>4, <4>1, <4>4
    <3> QED
      BY <1>12, <3>1, <3>2 DEF SettleRead
  <2> QED
    BY <1>5, <2>1, <2>2
<1>13. ASSUME NEW t \in threads, SkipWake(t) \/ DeliverWake(t)
       PROVE  (\A r \in settling' : Justified(r)') /\ DeliveredWasTyped' /\ SkippedWasSeenDown'
  <2>1. settling' = settling /\ inputs' = inputs /\ pasted' = pasted
    BY <1>13 DEF SkipWake, DeliverWake, RecordWake
  <2>2. PICK status \in {"skipped", "delivered"} :
          /\ wakes' = wakes \/ wakes' = [wakes EXCEPT ![t.item] = status]
          /\ \/ status = "skipped" /\ t.pc = "drop"
             \/ status = "delivered" /\ t.pc = "record"
          /\ t.kind = "wake"
    BY <1>13 DEF SkipWake, DeliverWake, RecordWake
  <2>3. t.item \in Entries
    BY <1>1, <2>2 DEF ThreadOK, Held
  <2>4. /\ status = "skipped" => t.item \in seenDown
        /\ status = "delivered" => pasted'[<<"wake", t.item>>] # 0
    BY <1>1, <2>1, <2>2, <2>3 DEF Knows, Text
  <2>5. DOMAIN wakes' = DOMAIN wakes
        /\ \A i \in DOMAIN wakes' : wakes'[i] = wakes[i] \/ (i = t.item /\ wakes'[i] = status)
    BY <1>1, <2>2
  <2> QED
    BY <1>4, <1>5, <2>1, <2>4, <2>5
<1>14. ASSUME NEW t \in threads, ThreadStep(t) \/ FailCall(t), ~SettleRead(t), ~SkipWake(t),
              ~DeliverWake(t)
       PROVE  UNCHANGED <<settling, inputs, wakes>>
  BY <1>14 DEF ThreadStep, LoadWakes, CheckWake, LoadInputs, CheckInput, NextInput,
      PublishTranscript, FindPane, SeeMarker, GiveUp, Paste, Enter, FailCall
<1> QED
  BY <1>9, <1>10, <1>11, <1>12, <1>13, <1>14 DEF Next

(* A snapshot goes with its container. *)
LEMMA SnapshotsKept ==
  ASSUME KnowledgeInv, Next
  PROVE  SnapshotHasContainer'
<1> USE DEF record, queue, daemon, machine, observed
<1>1. /\ SnapshotHasContainer
      /\ snapshots \subseteq Hosts
      /\ spawn \in [Hosts -> {"idle", "run", "session", "watch", "agent"}]
      /\ container \in [Hosts -> {"none", "running", "exited"}]
  BY DEF KnowledgeInv, TypeInv, DataOK
<1>2. CASE UNCHANGED <<snapshots, spawn, container, torn>>
  BY <1>1, <1>2 DEF SnapshotHasContainer
<1>3. CASE Service
  BY <1>2, <1>3, ServiceLeavesPanes DEF KnowledgeInv
<1>4. ASSUME NEW h \in Hosts, Host(h)
      PROVE  SnapshotHasContainer'
  <2>1. CASE SpawnClear(h)
    BY <1>1, <2>1 DEF SpawnClear, Spawning, SnapshotHasContainer
  <2>2. CASE SpawnRun(h)
    BY <1>1, <2>2 DEF SpawnRun, Spawning, SnapshotHasContainer
  <2>3. CASE SpawnFail(h) \/ stop(h)
    BY <1>1, <2>3 DEF SpawnFail, stop, Spawning, SnapshotHasContainer
  <2>4. CASE SpawnSession(h) \/ watch_pane(h) \/ SpawnAgent(h)
    BY <1>1, <2>4 DEF SpawnSession, watch_pane, SpawnAgent, Spawning, SnapshotHasContainer
  <2>5. CASE LoseContainer(h)
    BY <1>1, <2>5 DEF LoseContainer, SnapshotHasContainer
  <2>6. CASE CrashDaemon(h)
    BY <1>1, <2>6 DEF CrashDaemon, Spawning, SnapshotHasContainer
  <2>7. CASE wake(h) \/ process(h) \/ AgentReady(h) \/ LoseSession(h)
    BY <1>2, <2>7 DEF wake, process, AgentReady, LoseSession
  <2> QED
    BY <1>4, <2>1, <2>2, <2>3, <2>4, <2>5, <2>6, <2>7 DEF Host, SpawnStep
<1>5. ASSUME NEW t \in threads, ThreadStep(t) \/ FailCall(t)
      PROVE  UNCHANGED <<snapshots, spawn, container, torn>>
  BY <1>5 DEF ThreadStep, LoadWakes, CheckWake, LoadInputs, CheckInput, SettleRead, SkipWake,
      DeliverWake, RecordWake, NextInput, PublishTranscript, FindPane, SeeMarker, GiveUp, Paste,
      Enter, FailCall
<1> QED
  BY <1>2, <1>3, <1>4, <1>5 DEF Next

(* What is known stays known. *)
LEMMA KnowledgeKept == KnowledgeInv /\ [Next]_vars => KnowledgeInv'
<1> SUFFICES ASSUME KnowledgeInv, [Next]_vars PROVE KnowledgeInv'
  OBVIOUS
<1>1. TypeInv'
  BY TypesKept DEF KnowledgeInv
<1>2. CASE Next
  BY <1>1, <1>2, ThreadsKnow, InputsOneByOne, RecordsJustified, SnapshotsKept DEF KnowledgeInv
<1>3. CASE UNCHANGED vars
  BY <1>1, <1>3 DEF vars, record, queue, daemon, machine, observed, KnowledgeInv, Knows, OneInput,
    PendingInputs, Justified, DeliveredWasTyped, SkippedWasSeenDown, SnapshotHasContainer
<1> QED
  BY <1>2, <1>3

(* At first nothing is known. *)
LEMMA InitKnowledge == Init => KnowledgeInv
<1> SUFFICES ASSUME Init PROVE KnowledgeInv
  OBVIOUS
<1>1. TypeInv
  BY InitTypes
<1>2. DOMAIN wakes = {}
  BY EmptySeq DEF Init
<1> QED
  BY <1>1, <1>2 DEF Init, KnowledgeInv, OneInput, PendingInputs, NoInput, DeliveredWasTyped,
    SkippedWasSeenDown, SnapshotHasContainer

(* A task has one pending input at most; what is recorded as delivered was    *)
(* typed; a wake is skipped only when a pass saw the task down; and a         *)
(* snapshot of the capability lies only where its container is.               *)
THEOREM RecordsKept ==
  Spec => [](/\ TypeOK /\ OnePendingInput
             /\ DeliveredWasTyped /\ SkippedWasSeenDown /\ SnapshotHasContainer)
<1>1. Init => KnowledgeInv
  BY InitKnowledge
<1>2. KnowledgeInv /\ [Next]_vars => KnowledgeInv'
  BY KnowledgeKept
<1>3. KnowledgeInv => /\ TypeOK /\ OnePendingInput
                      /\ DeliveredWasTyped /\ SkippedWasSeenDown /\ SnapshotHasContainer
  <2> SUFFICES ASSUME KnowledgeInv PROVE TypeOK /\ OnePendingInput
    BY DEF KnowledgeInv
  <2>1. TypeOK
    BY TypesPromised DEF KnowledgeInv
  <2>2. CASE PendingInputs = {}
    BY <2>1, <2>2, FS_EmptySet DEF OnePendingInput
  <2>3. ASSUME NEW k \in PendingInputs PROVE OnePendingInput
    <3>1. PendingInputs = {k}
      BY DEF KnowledgeInv, OneInput
    <3> QED
      BY <3>1, FS_Singleton DEF OnePendingInput
  <2> QED
    BY <2>1, <2>2, <2>3
<1> QED
  BY <1>1, <1>2, <1>3, PTL DEF Spec

-----------------------------------------------------------------------------
(* Nothing is typed twice *)

NoReturn == \A b \in Budgets : b.claims <= 2 \/ \A g, h \in b.hosts : g = h

Certain(x) == x \notin doubtful
Before     == {"prefill", "poll", "paste"}
Several    == \E g, h \in left.hosts : g # h

OneEach == \A t, u \in threads : t.host = u.host /\ t.kind = u.kind => t = u

HoldOK(t) ==
  /\ t.host \in left.hosts
  /\ t.item # Nil /\ Certain(Text(t)) => owner = t.host
  /\ t.pc \in Before /\ Certain(Text(t)) => pasted[Text(t)] = 0
  /\ t.kind = "input" =>
       /\ \A k \in t.todo : Certain(<<"input", k>>) =>
            inputs[k].status = "pending" \/ (owner # t.host /\ left.claims = 0)
       /\ Several => left.claims <= 1 /\ (owner \notin {Nil, t.host} => left.claims = 0)

InHand(x) == \E t \in threads : Text(t) = x /\ t.pc \in Typing

WakeDone(i) ==
  pasted[<<"wake", i>>] # 0 /\ Certain(<<"wake", i>>)
  => InHand(<<"wake", i>>) \/ (i \in DOMAIN wakes /\ wakes[i] # "pending")
InputDone(k) ==
  pasted[<<"input", k>>] # 0 /\ Certain(<<"input", k>>)
  => InHand(<<"input", k>>) \/ inputs[k].status \in {"delivered", "failed"}

Awaited(s) ==
  Certain(<<"input", s.key>>) =>
    \E t \in threads : t.host = s.host /\ t.pc = "reply" /\ t.item = s.key /\ t.ok = s.ok

ClaimsOK ==
  /\ owner \in left.hosts \cup {Nil}
  /\ Several => left.claims <= 2 /\ (owner # Nil => left.claims <= 1)

RecordInv ==
  /\ KnowledgeInv
  /\ OneEach
  /\ \A t \in threads : HoldOK(t)
  /\ \A i \in Entries : WakeDone(i)
  /\ \A k \in Keys : InputDone(k)
  /\ \A s \in settling : Awaited(s)
  /\ ClaimsOK /\ TypedOnce

(* The claim and what is left of the claims stay as they are. *)
Unspent == owner' = owner /\ left'.hosts = left.hosts /\ left'.claims = left.claims

(* The records of wakes and inputs go on from what they were. *)
Recorded == /\ \A i \in DOMAIN wakes : /\ i \in DOMAIN wakes'
                                       /\ wakes[i] # "pending" => wakes'[i] # "pending"
            /\ inputs' = inputs
            /\ doubtful \subseteq doubtful'

(* A daemon never runs two threads of a kind for a task. *)
LEMMA OneEachKept ==
  ASSUME TypeInv, OneEach, Next
  PROVE  OneEach'
<1>0. \A t \in threads : ThreadOK(t)
  BY DEF TypeInv
<1>1. ASSUME NEW S \in SUBSET threads, threads' = S
      PROVE  OneEach'
  BY <1>1 DEF OneEach
<1>2. \A u \in threads : Stamped[u].host = u.host /\ Stamped[u].kind = u.kind
  BY <1>0, StampKeeps, KeptFields
<1>3. CASE threads' = {Stamped[u] : u \in threads}
  BY <1>2, <1>3 DEF OneEach
<1>4. ASSUME NEW t \in threads, NEW n, Goes(t, n)
      PROVE  OneEach'
  <2>1. n.host = t.host /\ n.kind = t.kind
    BY <1>4 DEF Goes
  <2>2. CASE threads' = (threads \ {t}) \cup {n}
    BY <2>1, <2>2 DEF OneEach
  <2>3. CASE threads' = {Stamped[u] : u \in threads \ {t}} \cup {n}
    <3>1. \A v \in threads' : v = n \/ \E u \in threads \ {t} : v = Stamped[u]
      BY <2>3
    <3> QED
      BY <1>2, <2>1, <3>1 DEF OneEach
  <2> QED
    BY <1>4, <2>2, <2>3 DEF Goes
<1>5. ASSUME NEW h \in Hosts, NEW kind \in {"wake", "input"}, ~Flying(h, kind),
             threads' = threads \cup {Observe(h, kind)}
      PROVE  OneEach'
  <2>1. Observe(h, kind).host = h /\ Observe(h, kind).kind = kind
    BY ObserveType
  <2> QED
    BY <1>5, <2>1 DEF OneEach, Flying
<1>6. ASSUME NEW s \in settling, SettleWrite(s)
      PROVE  OneEach'
  <2> DEFINE f(u) == IF <<u.host, u.pc, u.item>> = <<s.host, "reply", s.key>>
                     THEN [u EXCEPT !.pc = "next"] ELSE u
  <2>1. threads' = {f(u) : u \in threads}
    BY <1>6 DEF SettleWrite
  <2>2. \A u \in threads : f(u).host = u.host /\ f(u).kind = u.kind
    BY <1>0 DEF ThreadOK, Thread
  <2> HIDE DEF f
  <2> QED
    BY <2>1, <2>2 DEF OneEach
<1>7. CASE Service
  <2>1. CASE EnterState \/ set_turn
    BY <1>3, <2>1 DEF EnterState, set_turn, Stamp
  <2>2. CASE ~(EnterState \/ set_turn \/ \E s \in settling : SettleWrite(s))
    <3>1. threads' = threads
      BY <1>7, <2>2 DEF Service, release, claim, register, unregister, create_session_input,
                        StoreInput, daemon
    <3> QED
      BY <1>1, <3>1
  <2> QED
    BY <1>6, <2>1, <2>2
<1>8. ASSUME NEW h \in Hosts, Host(h)
      PROVE  OneEach'
  <2>1. CASE wake(h) \/ process(h)
    BY <1>5, <2>1 DEF wake, process
  <2>2. CASE CrashDaemon(h)
    BY <1>1, <2>2 DEF CrashDaemon
  <2>3. CASE ~(wake(h) \/ process(h) \/ CrashDaemon(h))
    <3>1. threads' = threads
      BY <1>8, <2>3 DEF Host, SpawnStep, SpawnClear, SpawnRun, SpawnSession, watch_pane, SpawnAgent,
                        SpawnFail, stop, AgentReady, LoseSession, LoseContainer, daemon
    <3> QED
      BY <1>1, <3>1
  <2> QED
    BY <2>1, <2>2, <2>3
<1>9. ASSUME NEW t \in threads, ThreadStep(t) \/ FailCall(t)
      PROVE  OneEach'
  BY <1>1, <1>4, <1>9, ThreadGoes DEF Exits
<1> QED
  BY <1>7, <1>8, <1>9 DEF Next

(* A thread that does nothing holds what it held. *)
LEMMA HoldStill ==
  ASSUME NEW u \in threads, ThreadOK(u), HoldOK(u), NEW v, Kept(u, v), Unspent,
         doubtful \subseteq doubtful',
         u.pc \in Before /\ Certain(Text(u))' => pasted'[Text(u)] = pasted[Text(u)],
         u.kind = "input" => \A k \in u.todo :
           inputs[k].status = "pending" /\ Certain(<<"input", k>>)'
           => inputs'[k].status = "pending" \/ (owner # u.host /\ left.claims = 0)
  PROVE  HoldOK(v)'
<1>1. /\ v.host = u.host /\ v.kind = u.kind /\ v.pc = u.pc /\ v.item = u.item
      /\ v.todo = u.todo /\ Text(v) = Text(u)
  BY KeptFields DEF Text
<1>2. \A x : Certain(x)' => Certain(x)
  BY DEF Certain
<1>3. owner' = owner /\ left'.hosts = left.hosts /\ left'.claims = left.claims
      /\ Several' = Several
  BY DEF Unspent, Several
<1>4. v.host \in left'.hosts
  BY <1>1, <1>3 DEF HoldOK
<1>5. v.item # Nil /\ Certain(Text(v))' => owner' = v.host
  BY <1>1, <1>2, <1>3 DEF HoldOK
<1>6. v.pc \in Before /\ Certain(Text(v))' => pasted'[Text(v)] = 0
  BY <1>1, <1>2 DEF HoldOK
<1>7. v.kind = "input" => \A k \in v.todo : Certain(<<"input", k>>)' =>
        inputs'[k].status = "pending" \/ (owner' # v.host /\ left'.claims = 0)
  BY <1>1, <1>2, <1>3 DEF HoldOK
<1>8. v.kind = "input" /\ Several' =>
        left'.claims <= 1 /\ (owner' \notin {Nil, v.host} => left'.claims = 0)
  BY <1>1, <1>3 DEF HoldOK
<1> QED
  BY <1>4, <1>5, <1>6, <1>7, <1>8 DEF HoldOK, Certain, Text, Several

(* A thread that takes nothing up holds what it held. *)
LEMMA HoldOn ==
  ASSUME NEW t \in threads, ThreadOK(t), HoldOK(t), NEW n, n.host = t.host, n.kind = t.kind,
         Unspent, doubtful \subseteq doubtful', inputs' = inputs,
         n.item \in {Nil, t.item},
         n.pc \in Before => n.item = t.item /\ t.pc \in Before /\ pasted' = pasted,
         n.kind = "input" => \A k \in n.todo : k \in t.todo \/ inputs[k].status = "pending"
  PROVE  HoldOK(n)'
<1>1. n.item = t.item => Text(n) = Text(t)
  BY DEF Text
<1>2. \A x : Certain(x)' => Certain(x)
  BY DEF Certain
<1>3. owner' = owner /\ left'.hosts = left.hosts /\ left'.claims = left.claims
      /\ Several' = Several
  BY DEF Unspent, Several
<1>4. n.host \in left'.hosts
  BY <1>3 DEF HoldOK
<1>5. n.item # Nil /\ Certain(Text(n))' => owner' = n.host
  BY <1>1, <1>2, <1>3 DEF HoldOK
<1>6. n.pc \in Before /\ Certain(Text(n))' => pasted'[Text(n)] = 0
  BY <1>1, <1>2 DEF HoldOK
<1>7. n.kind = "input" => \A k \in n.todo : Certain(<<"input", k>>)' =>
        inputs'[k].status = "pending" \/ (owner' # n.host /\ left'.claims = 0)
  BY <1>2, <1>3 DEF HoldOK
<1>8. n.kind = "input" /\ Several' =>
        left'.claims <= 1 /\ (owner' \notin {Nil, n.host} => left'.claims = 0)
  BY <1>3 DEF HoldOK
<1> QED
  BY <1>4, <1>5, <1>6, <1>7, <1>8 DEF HoldOK, Certain, Text, Several

(* Of a text that is not in doubt only one thread can be the holder. *)
LEMMA OneHolder ==
  ASSUME RecordInv, NEW t \in threads, NEW u \in threads, t.item # Nil, u.item # Nil,
         Text(t) = Text(u), Certain(Text(t))
  PROVE  t = u
BY DEF RecordInv, HoldOK, OneEach, Text

(* Threads that end leave nothing unrecorded but what is put in doubt. *)
LEMMA Quietly ==
  ASSUME RecordInv, KnowledgeInv', OneEach', NEW S \in SUBSET threads, Survive(S), Unspent, Recorded,
         pasted' = pasted, settling' = settling,
         \A t \in threads \ S : t.pc \in Typing =>
            Text(t) \in doubtful' \/ (t.kind = "wake" /\ t.item \in DOMAIN wakes
                                      /\ wakes[t.item] # "pending")
  PROVE  RecordInv'
<1>0. /\ \A t \in threads : ThreadOK(t) /\ HoldOK(t)
      /\ doubtful \subseteq doubtful' /\ inputs' = inputs
  BY DEF RecordInv, KnowledgeInv, TypeInv, Recorded
<1>1. \A v \in threads' : HoldOK(v)'
  <2> SUFFICES ASSUME NEW v \in threads' PROVE HoldOK(v)'
    OBVIOUS
  <2>1. PICK u \in S : Kept(u, v)
    BY DEF Survive
  <2> QED
    BY <1>0, <2>1, HoldStill
<1>2. \A u \in S : u.pc \in Typing => u \in threads'
  BY DEF Survive, Typing
<1>3. \A i \in Entries : WakeDone(i)'
  <2> SUFFICES ASSUME NEW i \in Entries, pasted'[<<"wake", i>>] # 0, <<"wake", i>> \notin doubtful',
                      ~(i \in DOMAIN wakes' /\ wakes'[i] # "pending")
               PROVE  \E t \in threads' : Text(t) = <<"wake", i>> /\ t.pc \in Typing
    BY DEF WakeDone, Certain, InHand, Text
  <2>1. ~(i \in DOMAIN wakes /\ wakes[i] # "pending")
    BY DEF Recorded
  <2>2. PICK t \in threads : Text(t) = <<"wake", i>> /\ t.pc \in Typing
    BY <1>0, <2>1 DEF RecordInv, WakeDone, Certain, InHand
  <2>3. t.item = i
    BY <2>2 DEF Text
  <2> QED
    BY <1>2, <2>1, <2>2, <2>3
<1>4. \A k \in Keys : InputDone(k)'
  <2> SUFFICES ASSUME NEW k \in Keys, pasted'[<<"input", k>>] # 0, <<"input", k>> \notin doubtful',
                      inputs'[k].status \notin {"delivered", "failed"}
               PROVE  \E t \in threads' : Text(t) = <<"input", k>> /\ t.pc \in Typing
    BY DEF InputDone, Certain, InHand, Text
  <2>1. PICK t \in threads : Text(t) = <<"input", k>> /\ t.pc \in Typing
    BY <1>0 DEF RecordInv, InputDone, Certain, InHand
  <2>2. t.kind # "wake"
    BY <2>1 DEF Text
  <2> QED
    BY <1>2, <2>1, <2>2
<1>5. \A s \in settling' : Awaited(s)'
  <2> SUFFICES ASSUME NEW s \in settling, <<"input", s.key>> \notin doubtful'
               PROVE  \E t \in threads' : t.host = s.host /\ t.pc = "reply" /\ t.item = s.key
                                          /\ t.ok = s.ok
    BY DEF Awaited, Certain
  <2>1. PICK t \in threads : t.host = s.host /\ t.pc = "reply" /\ t.item = s.key /\ t.ok = s.ok
    BY <1>0 DEF RecordInv, Awaited, Certain
  <2>2. t.kind = "input"
    BY <1>0, <2>1 DEF ThreadOK, Thread
  <2>3. Text(t) = <<"input", s.key>> /\ t.pc \in Typing
    BY <2>1, <2>2 DEF Text, Typing
  <2> QED
    BY <1>2, <2>1, <2>2, <2>3
<1>6. ClaimsOK' /\ TypedOnce'
  BY <1>0 DEF RecordInv, Unspent, ClaimsOK, Several, TypedOnce
<1> QED
  BY <1>1, <1>3, <1>4, <1>5, <1>6 DEF RecordInv

(* A thread that goes on keeps a text in its hands until it is recorded or    *)
(* put in doubt; and it pastes only what it alone holds.                      *)
LEMMA Onward ==
  ASSUME RecordInv, KnowledgeInv', OneEach', NEW t \in threads, NEW n, Goes(t, n), HoldOK(n)',
         Unspent, Recorded, t.pc # "reply",
         \/ pasted' = pasted
         \/ /\ t.pc = "paste" /\ n.pc \in Typing /\ n.item = t.item
            /\ pasted' = [pasted EXCEPT ![Text(t)] = Typed(pasted[Text(t)])],
         t.pc \in Typing =>
           \/ n.pc \in Typing /\ n.item = t.item
           \/ Text(t) \in doubtful'
           \/ t.kind = "wake" /\ t.item \in DOMAIN wakes' /\ wakes'[t.item] # "pending"
           \/ t.kind = "input" /\ inputs[t.item].status \in {"delivered", "failed"},
         \A s \in settling' : \/ s \in settling
                              \/ /\ s.host = n.host /\ s.key = n.item /\ s.ok = n.ok
                                 /\ n.pc = "reply"
  PROVE  RecordInv'
<1>0. /\ \A u \in threads : ThreadOK(u) /\ HoldOK(u)
      /\ doubtful \subseteq doubtful' /\ inputs' = inputs
      /\ n.host = t.host /\ n.kind = t.kind
      /\ pasted \in [Texts -> 0 .. 2] /\ pasted' \in [Texts -> 0 .. 2]
  BY DEF RecordInv, KnowledgeInv, TypeInv, DataOK, Recorded, Goes
<1>1. /\ n \in threads'
      /\ \A v \in threads' : v = n \/ \E u \in threads \ {t} : Kept(u, v)
      /\ \A u \in threads \ {t} : u.pc # "load" => u \in threads'
  BY GoesFacts
<1>2. n.item = t.item => Text(n) = Text(t)
  BY <1>0 DEF Text
<1>3. ASSUME NEW x \in Texts, pasted'[x] # pasted[x]
      PROVE  /\ x = Text(t) /\ t.pc = "paste" /\ pasted'[x] = Typed(pasted[x])
             /\ n.pc \in Typing /\ Text(n) = x
  BY <1>0, <1>2, <1>3
<1>4. \A v \in threads' : HoldOK(v)'
  <2> SUFFICES ASSUME NEW v \in threads', v # n PROVE HoldOK(v)'
    OBVIOUS
  <2>1. PICK u \in threads \ {t} : Kept(u, v)
    BY <1>1
  <2>2. Certain(Text(u))' /\ u.pc \in Before => pasted'[Text(u)] = pasted[Text(u)]
    <3> SUFFICES ASSUME Certain(Text(u))', u.pc \in Before,
                        pasted'[Text(u)] # pasted[Text(u)]
                 PROVE  FALSE
      OBVIOUS
    <3>1. u.item # Nil /\ Text(u) \in Texts
      BY <1>0, TextType DEF ThreadOK, Held, Before, RecordInv, KnowledgeInv
    <3>2. t.item # Nil /\ Text(u) = Text(t)
      BY <1>0, <1>3, <3>1 DEF ThreadOK, Held
    <3>3. Certain(Text(t))
      BY <1>0, <3>2 DEF Certain
    <3> QED
      BY <2>1, <3>1, <3>2, <3>3, OneHolder
  <2> QED
    BY <1>0, <2>1, <2>2, HoldStill
<1>5. \A u \in threads \ {t} : u.pc \in Typing => u \in threads'
  BY <1>1 DEF Typing
<1>6. \A i \in Entries : WakeDone(i)'
  <2> SUFFICES ASSUME NEW i \in Entries, pasted'[<<"wake", i>>] # 0, <<"wake", i>> \notin doubtful',
                      ~(i \in DOMAIN wakes' /\ wakes'[i] # "pending")
               PROVE  \E v \in threads' : Text(v) = <<"wake", i>> /\ v.pc \in Typing
    BY DEF WakeDone, Certain, InHand, Text
  <2>0. <<"wake", i>> \in Texts
    BY DEF Texts
  <2>1. ~(i \in DOMAIN wakes /\ wakes[i] # "pending")
    BY DEF Recorded
  <2>2. CASE pasted'[<<"wake", i>>] # pasted[<<"wake", i>>]
    BY <1>1, <1>3, <2>0, <2>2
  <2>3. CASE pasted'[<<"wake", i>>] = pasted[<<"wake", i>>]
    <3>1. PICK u \in threads : Text(u) = <<"wake", i>> /\ u.pc \in Typing
      BY <1>0, <2>1, <2>3 DEF RecordInv, WakeDone, Certain, InHand
    <3>2. u.item = i /\ u.kind = "wake"
      BY <3>1 DEF Text
    <3> QED
      BY <1>1, <1>2, <1>5, <3>1, <3>2
  <2> QED
    BY <2>2, <2>3
<1>7. \A k \in Keys : InputDone(k)'
  <2> SUFFICES ASSUME NEW k \in Keys, pasted'[<<"input", k>>] # 0, <<"input", k>> \notin doubtful',
                      inputs'[k].status \notin {"delivered", "failed"}
               PROVE  \E v \in threads' : Text(v) = <<"input", k>> /\ v.pc \in Typing
    BY DEF InputDone, Certain, InHand, Text
  <2>0. <<"input", k>> \in Texts
    BY DEF Texts
  <2>2. CASE pasted'[<<"input", k>>] # pasted[<<"input", k>>]
    BY <1>1, <1>3, <2>0, <2>2
  <2>3. CASE pasted'[<<"input", k>>] = pasted[<<"input", k>>]
    <3>1. PICK u \in threads : Text(u) = <<"input", k>> /\ u.pc \in Typing
      BY <1>0, <2>3 DEF RecordInv, InputDone, Certain, InHand
    <3>2. u.item = k /\ u.kind = "input"
      BY <3>1 DEF Text
    <3> QED
      BY <1>0, <1>1, <1>2, <1>5, <3>1, <3>2
  <2> QED
    BY <2>2, <2>3
<1>8. \A s \in settling' : Awaited(s)'
  <2> SUFFICES ASSUME NEW s \in settling', <<"input", s.key>> \notin doubtful'
               PROVE  \E v \in threads' : v.host = s.host /\ v.pc = "reply" /\ v.item = s.key
                                          /\ v.ok = s.ok
    BY DEF Awaited, Certain
  <2>1. CASE s \in settling
    <3>1. PICK u \in threads : u.host = s.host /\ u.pc = "reply" /\ u.item = s.key /\ u.ok = s.ok
      BY <1>0, <2>1 DEF RecordInv, Awaited, Certain
    <3> QED
      BY <1>5, <3>1 DEF Typing
  <2>2. CASE s.host = n.host /\ s.key = n.item /\ s.ok = n.ok /\ n.pc = "reply"
    BY <1>1, <2>2
  <2> QED
    BY <2>1, <2>2
<1>9. TypedOnce'
  <2> SUFFICES ASSUME NEW x \in Texts, pasted'[x] = 2 PROVE x \in doubtful'
    BY DEF TypedOnce
  <2>1. CASE pasted[x] = 2
    BY <1>0, <2>1 DEF RecordInv, TypedOnce
  <2>2. CASE pasted[x] # 2
    <3>1. x = Text(t) /\ t.pc = "paste" /\ pasted[x] # 0
      BY <1>3, <2>2 DEF Typed
    <3> QED
      BY <1>0, <3>1 DEF HoldOK, Before, Certain
  <2> QED
    BY <2>1, <2>2
<1>10. ClaimsOK'
  BY DEF RecordInv, Unspent, ClaimsOK, Several
<1> QED
  BY <1>4, <1>6, <1>7, <1>8, <1>9, <1>10 DEF RecordInv

(* A thread that takes a text up is the first to: whoever pasted it before    *)
(* holds it still, recorded it, or left it in doubt.                          *)
LEMMA FreshText ==
  ASSUME RecordInv, NEW t \in threads, t.pc \notin Typing, owner = t.host, NEW i,
         \/ t.kind = "wake" /\ i \in Entries /\ i \in Pending
         \/ t.kind = "input" /\ i \in Keys /\ inputs[i].status = "pending",
         Certain(<<t.kind, i>>)
  PROVE  pasted[<<t.kind, i>>] = 0
<1> SUFFICES ASSUME pasted[<<t.kind, i>>] # 0 PROVE FALSE
  OBVIOUS
<1>1. InHand(<<t.kind, i>>)
  BY DEF RecordInv, WakeDone, InputDone, Pending
<1>2. PICK u \in threads : Text(u) = <<t.kind, i>> /\ u.pc \in Typing
  BY <1>1 DEF InHand
<1>3. ThreadOK(u) /\ HoldOK(u) /\ u.kind = t.kind
  BY <1>2 DEF RecordInv, KnowledgeInv, TypeInv, Text
<1>4. u.item # Nil
  BY <1>2, <1>3 DEF ThreadOK, Held, Typing
<1>5. u.host = t.host
  BY <1>2, <1>3, <1>4 DEF HoldOK
<1> QED
  BY <1>2, <1>3, <1>5 DEF RecordInv, OneEach

(* The steps of a thread keep the records true. *)
LEMMA ThreadRecords ==
  ASSUME RecordInv, KnowledgeInv', OneEach', NEW t \in threads, ThreadStep(t) \/ FailCall(t)
  PROVE  RecordInv'
<1> USE DEF record, queue, machine, observed
<1>1. /\ ThreadOK(t) /\ HoldOK(t) /\ Knows(t) /\ t \in Thread /\ t.host \in Hosts
      /\ session[t.host].pane \in Nat /\ MaxEntries \in Nat /\ left \in Bounds
      /\ wakes \in Seq({"pending", "delivered", "skipped"})
      /\ Len(wakes) <= MaxEntries /\ DOMAIN wakes = 1 .. Len(wakes)
  <2>1. ThreadOK(t) /\ HoldOK(t) /\ Knows(t) /\ DataOK
    BY DEF RecordInv, KnowledgeInv, TypeInv
  <2>2. t \in Thread /\ t.host \in Hosts
    BY <2>1 DEF ThreadOK, Thread
  <2>3. session[t.host].pane \in Nat /\ MaxEntries \in Nat /\ left \in Bounds
        /\ wakes \in Seq({"pending", "delivered", "skipped"})
        /\ Len(wakes) + left.entries <= MaxEntries /\ left.entries \in Nat
    BY <2>1, <2>2, SessionAssumption DEF DataOK, Pane, Bounds
  <2>4. Len(wakes) <= MaxEntries /\ DOMAIN wakes = 1 .. Len(wakes)
    BY <2>3, LenProperties
  <2> QED
    BY <2>1, <2>2, <2>3, <2>4
<1>2. Unspent
  <2>1. CASE FailCall(t)
    BY <1>1, <2>1, UseType DEF FailCall, Fault, Unspent
  <2>2. CASE ThreadStep(t)
    BY <2>2 DEF ThreadStep, LoadWakes, CheckWake, SkipWake, DeliverWake, RecordWake, LoadInputs,
      CheckInput, SettleRead, NextInput, PublishTranscript, FindPane, SeeMarker, GiveUp, Paste,
      Enter, Unspent
  <2> QED
    BY <2>1, <2>2
<1>3. ASSUME Exits(t), Recorded, pasted' = pasted, settling' = settling,
             t.pc \in Typing => Text(t) \in doubtful' \/ (t.kind = "wake" /\ t.item \in DOMAIN wakes
                                                         /\ wakes[t.item] # "pending")
      PROVE  RecordInv'
  <2> DEFINE S == threads \ {t}
  <2>1. Survive(S)
    BY <1>3, SurviveFacts
  <2>2. \A u \in threads \ S : u = t
    OBVIOUS
  <2> HIDE DEF S
  <2>3. S \in SUBSET threads
    BY DEF S
  <2> QED
    BY <1>2, <1>3, <2>1, <2>2, <2>3, Quietly
<1>4. ASSUME NEW n, Goes(t, n), Recorded, pasted' = pasted, settling' = settling,
             t.pc # "reply",
             n.item \in {Nil, t.item},
             n.pc \in Before => n.item = t.item /\ t.pc \in Before,
             n.kind = "input" => \A k \in n.todo : k \in t.todo \/ inputs[k].status = "pending",
             t.pc \in Typing =>
               \/ n.pc \in Typing /\ n.item = t.item
               \/ Text(t) \in doubtful'
               \/ t.kind = "wake" /\ t.item \in DOMAIN wakes' /\ wakes'[t.item] # "pending"
               \/ t.kind = "input" /\ inputs[t.item].status \in {"delivered", "failed"}
      PROVE  RecordInv'
  <2>1. n.host = t.host /\ n.kind = t.kind /\ inputs' = inputs /\ doubtful \subseteq doubtful'
    BY <1>4 DEF Goes, Recorded
  <2>2. HoldOK(n)'
    BY <1>1, <1>2, <1>4, <2>1, HoldOn
  <2> QED
    BY <1>2, <1>4, <2>2, Onward
<1>5. ASSUME NEW n, Goes(t, n), Recorded, pasted' = pasted, settling' = settling,
             t.pc \notin Typing, t.item = Nil, owner = t.host,
             \/ t.kind = "wake" /\ n.item \in Entries /\ n.item \in Pending
             \/ t.kind = "input" /\ n.item \in Keys /\ inputs[n.item].status = "pending"
             \/ Text(n) \in doubtful,
             n.todo \subseteq t.todo
      PROVE  RecordInv'
  <2>1. /\ n.host = t.host /\ n.kind = t.kind /\ inputs' = inputs /\ doubtful \subseteq doubtful'
        /\ owner' = owner /\ left'.hosts = left.hosts /\ left'.claims = left.claims
        /\ Text(n) = <<t.kind, n.item>>
    BY <1>2, <1>5 DEF Goes, Recorded, Unspent, Text
  <2>2. \A x : Certain(x)' => Certain(x)
    BY <2>1 DEF Certain
  <2>3. Certain(Text(n))' => pasted'[Text(n)] = 0
    BY <1>5, <2>1, <2>2, FreshText DEF Certain
  <2>4. n.kind = "input" => \A k \in n.todo : Certain(<<"input", k>>)' => inputs'[k].status = "pending"
    BY <1>1, <1>5, <2>1, <2>2 DEF HoldOK
  <2>5. HoldOK(n)'
    BY <1>1, <1>5, <2>1, <2>3, <2>4 DEF HoldOK, Certain, Text, Several
  <2>6. t.pc # "reply"
    BY <1>5 DEF Typing
  <2> QED
    BY <1>2, <1>5, <2>5, <2>6, Onward
<1>6. ASSUME wakes' = wakes, inputs' = inputs, doubtful' = doubtful
      PROVE  Recorded
  BY <1>6 DEF Recorded
<1>7. CASE LoadWakes(t)
  <2>1. /\ Recorded /\ pasted' = pasted /\ settling' = settling
        /\ t.pc = "load" /\ t.kind = "wake"
    BY <1>6, <1>7 DEF LoadWakes
  <2>2. ASSUME NEW n, Goes(t, n), n.pc \in {"check", "skip"}, n.item = Nil
        PROVE  RecordInv'
    <3>1. n.kind = "wake" /\ n.pc \notin Before /\ t.pc \notin Typing /\ t.pc # "reply"
      BY <2>1, <2>2 DEF Goes, Before, Typing
    <3> QED
      BY <1>4, <2>1, <2>2, <3>1
  <2> QED
    BY <1>1, <1>3, <1>7, <2>1, <2>2, LoadWakesGoes DEF Typing
<1>8. CASE CheckWake(t)
  <2>1. /\ Recorded /\ pasted' = pasted /\ settling' = settling
        /\ t.pc \in {"check", "skip"} /\ t.kind = "wake"
        /\ t.pc \notin Typing /\ t.pc # "reply" /\ t.item = Nil
    BY <1>1, <1>6, <1>8 DEF CheckWake, Typing, ThreadOK, Held
  <2>2. ASSUME NEW n, Goes(t, n), n.pc = t.pc, n.item = Nil, n.todo \subseteq t.todo
        PROVE  RecordInv'
    <3>1. n.kind = "wake" /\ n.pc \notin Before
      BY <2>1, <2>2 DEF Goes, Before
    <3> QED
      BY <1>4, <2>1, <2>2, <3>1
  <2>3. ASSUME NEW n, Goes(t, n), n.item \in t.todo \cap Pending, n.todo \subseteq t.todo,
               owner = t.host
        PROVE  RecordInv'
    <3>1. n.item \in Entries
      BY <1>1, <2>1, <2>3 DEF ThreadOK
    <3> QED
      BY <1>5, <2>1, <2>3, <3>1
  <2> QED
    BY <1>1, <1>3, <1>8, <2>1, <2>2, <2>3, CheckWakeGoes
<1>9. ASSUME NEW status \in {"delivered", "skipped"}, NEW next, RecordWake(t, status, next),
             \/ t.pc = "drop" /\ next = "skip"
             \/ t.pc = "record" /\ next = "check"
      PROVE  RecordInv'
  <2>1. pasted' = pasted /\ settling' = settling /\ inputs' = inputs /\ doubtful' = doubtful
    BY <1>9 DEF RecordWake
  <2>2. t.kind = "wake" /\ t.item \in Entries /\ t.item \in DOMAIN wakes /\ t.pc # "reply"
    <3>1. t.kind = "wake" /\ t.item \in Entries /\ t.pc # "reply"
      BY <1>1, <1>9 DEF ThreadOK, Held, Thread
    <3> QED
      BY <1>1, <3>1, SessionAssumption DEF Knows, Entries
  <2>3. CASE Refused(t.item, status)
    <3>1. Exits(t) /\ wakes' = wakes /\ wakes[t.item] # "pending"
      BY <1>9, <2>3 DEF RecordWake, Exit, Become, Exits, Refused
    <3> QED
      BY <1>3, <1>6, <2>1, <2>2, <3>1
  <2>4. CASE ~Refused(t.item, status)
    <3>1. PICK n : Goes(t, n) /\ n.pc = next /\ n.item = Nil /\ n.todo = t.todo
      BY <1>1, <1>9, <2>4, RecordWakeGoes
    <3>2. wakes' = [wakes EXCEPT ![t.item] = status]
      BY <1>9, <2>4 DEF RecordWake
    <3>3. Recorded
      BY <1>1, <2>1, <2>2, <3>2 DEF Recorded
    <3>4. t.item \in DOMAIN wakes' /\ wakes'[t.item] # "pending"
      BY <1>1, <2>2, <3>2
    <3>5. n.pc \notin Before
      BY <1>9, <3>1 DEF Before
    <3> QED
      BY <1>4, <2>1, <2>2, <3>1, <3>3, <3>4, <3>5
  <2> QED
    BY <2>3, <2>4
<1>10. CASE LoadInputs(t)
  <2>1. /\ Recorded /\ pasted' = pasted /\ settling' = settling
        /\ t.pc = "load" /\ t.pc \notin Typing /\ t.pc # "reply"
    BY <1>6, <1>10 DEF LoadInputs, Typing
  <2>2. ASSUME NEW n, Goes(t, n), n.pc \in {"check", "capture"}, n.item = Nil,
               n.todo \subseteq PendingInputs
        PROVE  RecordInv'
    <3>1. n.pc \notin Before /\ \A k \in n.todo : inputs[k].status = "pending"
      BY <2>2 DEF Before, PendingInputs
    <3> QED
      BY <1>4, <2>1, <2>2, <3>1
  <2> QED
    BY <1>1, <1>3, <1>10, <2>1, <2>2, LoadInputsGoes
<1>11. CASE CheckInput(t)
  <2>1. /\ Recorded /\ pasted' = pasted /\ settling' = settling /\ t.kind = "input"
        /\ t.pc = "check" /\ t.pc \notin Typing /\ t.pc # "reply" /\ t.item = Nil
    BY <1>1, <1>6, <1>11 DEF CheckInput, Typing, ThreadOK, Held
  <2>2. ASSUME NEW n, Goes(t, n), n.pc = "capture", SameItem(t, n)
        PROVE  RecordInv'
    <3>1. n.pc \notin Before /\ n.item = Nil /\ n.todo = t.todo
      BY <2>1, <2>2 DEF Before, SameItem
    <3> QED
      BY <1>4, <2>1, <2>2, <3>1
  <2>3. ASSUME NEW n, Goes(t, n), n.item \in t.todo, n.todo = t.todo \ {n.item}, owner = t.host
        PROVE  RecordInv'
    <3>1. n.item \in Keys /\ Text(n) = <<"input", n.item>>
      BY <1>1, <2>1, <2>3 DEF ThreadOK, Goes, Text
    <3>2. inputs[n.item].status = "pending" \/ Text(n) \in doubtful
      BY <1>1, <2>1, <2>3, <3>1 DEF HoldOK, Certain
    <3> QED
      BY <1>5, <2>1, <2>3, <3>1, <3>2
  <2> QED
    BY <1>1, <1>11, <2>2, <2>3, CheckInputGoes
<1>12. CASE SettleRead(t)
  <2>1. /\ Recorded /\ pasted' = pasted /\ t.pc = "settle" /\ t.item \in Keys
        /\ t.kind = "input" /\ inputs' = inputs /\ doubtful' = doubtful
    BY <1>1, <1>6, <1>12 DEF SettleRead, ThreadOK, Held, Thread
  <2>2. CASE owner = t.host /\ inputs[t.item].status = "pending"
    <3> DEFINE r == [host |-> t.host, key |-> t.item, ok |-> t.ok]
    <3>1. settling' = settling \cup {r} /\ Goto(t, "reply")
          /\ r.host = t.host /\ r.key = t.item /\ r.ok = t.ok
      BY <1>12, <2>2 DEF SettleRead
    <3> HIDE DEF r
    <3>2. PICK n : /\ Goes(t, n) /\ SameItem(t, n) /\ SamePane(t, n)
                   /\ n.pc = "reply" /\ n.ok = t.ok
      BY <1>1, <2>1, <3>1, GotoGoes
    <3>3. n.item = t.item /\ n.todo = t.todo /\ n.host = t.host /\ n.kind = t.kind
          /\ n.pc \in Typing /\ n.pc \notin Before
      BY <3>2 DEF SameItem, Goes, Typing, Before
    <3>4. HoldOK(n)'
      BY <1>1, <1>2, <2>1, <3>3, HoldOn
    <3> QED
      BY <1>2, <2>1, <3>1, <3>2, <3>3, <3>4, Onward
  <2>3. CASE owner = t.host /\ inputs[t.item].status # "pending"
    <3>1. settling' = settling /\ Goto(t, "next")
      BY <1>12, <2>3 DEF SettleRead
    <3>2. PICK n : /\ Goes(t, n) /\ SameItem(t, n) /\ SamePane(t, n)
                   /\ n.pc = "next" /\ n.ok = t.ok
      BY <1>1, <2>1, <3>1, GotoGoes
    <3>3. n.item = t.item /\ n.todo = t.todo /\ n.pc \notin Before
      BY <3>2 DEF SameItem, Before
    <3>4. inputs[t.item].status \in {"delivered", "failed"}
      <4>1. inputs[t.item].status # "none"
        BY <1>1, <2>1 DEF Knows
      <4>2. inputs[t.item].status \in {"none", "pending", "delivered", "failed"}
        BY <2>1 DEF RecordInv, KnowledgeInv, TypeInv, DataOK
      <4> QED
        BY <2>3, <4>1, <4>2
    <3> QED
      BY <1>4, <2>1, <3>1, <3>2, <3>3, <3>4
  <2>4. CASE owner # t.host
    <3>1. settling' = settling /\ Exits(t)
      BY <1>12, <2>4 DEF SettleRead, Exit, Become, Exits
    <3>2. t.item # Nil
      BY <2>1, SessionAssumption
    <3>3. Text(t) \in doubtful
      BY <1>1, <2>4, <3>2 DEF HoldOK, Certain
    <3> QED
      BY <1>3, <2>1, <3>1, <3>3
  <2> QED
    BY <2>2, <2>3, <2>4
<1>13. CASE NextInput(t)
  <2>1. /\ Recorded /\ pasted' = pasted /\ settling' = settling
        /\ t.pc = "next" /\ t.pc \notin Typing /\ t.pc # "reply"
    BY <1>6, <1>13 DEF NextInput, Typing
  <2>2. ASSUME NEW n, Goes(t, n), n.pc \in {"capture", "check"}, n.item = Nil, n.todo = t.todo
        PROVE  RecordInv'
    <3>1. n.pc \notin Before
      BY <2>2 DEF Before
    <3> QED
      BY <1>4, <2>1, <2>2, <3>1
  <2> QED
    BY <1>1, <1>13, <2>2, NextInputGoes
<1>14. CASE PublishTranscript(t)
  <2>1. /\ Recorded /\ pasted' = pasted /\ settling' = settling /\ Exits(t)
        /\ t.pc \notin Typing
    BY <1>6, <1>14 DEF PublishTranscript, Exit, Become, Exits, Typing
  <2> QED
    BY <1>3, <2>1
<1>15. CASE FindPane(t)
  <2>1. /\ Recorded /\ pasted' = pasted /\ settling' = settling /\ t.pc = "prefill"
        /\ t.pc \notin Typing /\ t.pc # "reply" /\ t.pc \in Before
    BY <1>6, <1>15 DEF FindPane, Typing, Before
  <2>2. ASSUME NEW n, Goes(t, n), SameItem(t, n)
        PROVE  RecordInv'
    BY <1>4, <2>1, <2>2 DEF SameItem
  <2> QED
    BY <1>1, <1>3, <1>15, <2>1, <2>2, FindPaneGoes
<1>16. CASE SeeMarker(t)
  <2>1. /\ Recorded /\ pasted' = pasted /\ settling' = settling /\ t.pc = "poll"
        /\ t.pc \notin Typing /\ t.pc # "reply" /\ t.pc \in Before
    BY <1>6, <1>16 DEF SeeMarker, Typing, Before
  <2>2. ASSUME NEW n, Goes(t, n), SameItem(t, n)
        PROVE  RecordInv'
    BY <1>4, <2>1, <2>2 DEF SameItem
  <2> QED
    BY <1>1, <1>16, <2>2, SeeMarkerGoes
<1>17. CASE GiveUp(t)
  <2>1. /\ Recorded /\ pasted' = pasted /\ settling' = settling /\ t.pc = "poll"
        /\ t.pc \notin Typing /\ t.pc # "reply" /\ t.pc \in Before /\ Return(t, FALSE)
    BY <1>6, <1>17 DEF GiveUp, Typing, Before
  <2>2. ASSUME NEW n, Goes(t, n), SameItem(t, n)
        PROVE  RecordInv'
    BY <1>4, <2>1, <2>2 DEF SameItem
  <2> QED
    BY <1>1, <1>3, <2>1, <2>2, ReturnGoes
<1>18. CASE Paste(t)
  <2>1. /\ Recorded /\ settling' = settling /\ t.pc = "paste" /\ inputs' = inputs
        /\ t.pc \notin Typing /\ t.pc # "reply" /\ t.pc \in Before /\ doubtful' = doubtful
    BY <1>6, <1>18 DEF Paste, Typing, Before
  <2>2. CASE ~There(t)
    <3>1. Return(t, FALSE) /\ pasted' = pasted
      BY <1>18, <2>2 DEF Paste
    <3>2. ASSUME NEW n, Goes(t, n), SameItem(t, n)
          PROVE  RecordInv'
      BY <1>4, <2>1, <3>1, <3>2 DEF SameItem
    <3> QED
      BY <1>1, <1>3, <2>1, <3>1, <3>2, ReturnGoes
  <2>3. CASE There(t)
    <3>1. pasted' = [pasted EXCEPT ![Text(t)] = Typed(pasted[Text(t)])]
          /\ (Goto(t, "enter") \/ Return(t, TRUE))
      BY <1>18, <2>3 DEF Paste
    <3>2. PICK n : Goes(t, n) /\ SameItem(t, n) /\ n.pc \in {"enter", "record", "settle"}
      <4>1. CASE Goto(t, "enter")
        BY <1>1, <2>1, <4>1, GotoGoes
      <4>2. CASE Return(t, TRUE)
        BY <1>1, <2>1, <4>2, ReturnGoes
      <4> QED
        BY <3>1, <4>1, <4>2
    <3>3. n.item = t.item /\ n.todo = t.todo /\ n.host = t.host /\ n.kind = t.kind
          /\ n.pc \in Typing /\ n.pc \notin Before
      BY <3>2 DEF SameItem, Goes, Typing, Before
    <3>4. HoldOK(n)'
      BY <1>1, <1>2, <2>1, <3>3, HoldOn
    <3> QED
      BY <1>2, <2>1, <3>1, <3>2, <3>3, <3>4, Onward
  <2> QED
    BY <2>2, <2>3
<1>19. CASE Enter(t)
  <2>1. /\ wakes' = wakes /\ inputs' = inputs /\ pasted' = pasted /\ settling' = settling
        /\ doubtful' = doubtful \cup (IF There(t) THEN {} ELSE {Text(t)})
        /\ t.pc = "enter" /\ Return(t, There(t)) /\ There(t) \in BOOLEAN
    BY <1>19 DEF Enter, There
  <2>2. Recorded /\ (~There(t) => Text(t) \in doubtful')
    BY <2>1 DEF Recorded
  <2>3. ASSUME NEW n, Goes(t, n), SameItem(t, n), n.pc \in {"record", "settle"}
        PROVE  RecordInv'
    <3>1. n.item = t.item /\ n.todo = t.todo /\ n.pc \in Typing /\ n.pc \notin Before
      BY <2>3 DEF SameItem, Typing, Before
    <3> QED
      BY <1>4, <2>1, <2>2, <2>3, <3>1
  <2> QED
    BY <1>1, <1>3, <2>1, <2>2, <2>3, ReturnGoes
<1>20. CASE FailCall(t)
  <2>1. /\ wakes' = wakes /\ inputs' = inputs /\ pasted' = pasted /\ settling' = settling
        /\ doubtful \subseteq doubtful' /\ Exits(t)
        /\ t.pc \in Typing => Text(t) \in doubtful'
    BY <1>20 DEF FailCall, Exit, Become, Exits
  <2> QED
    BY <1>3, <2>1 DEF Recorded
<1> QED
  BY <1>7, <1>8, <1>9, <1>10, <1>11, <1>12, <1>13, <1>14, <1>15, <1>16, <1>17, <1>18, <1>19, <1>20
     DEF ThreadStep, SkipWake, DeliverWake

(* The claim goes, and with it all certainty of what is in hand. *)
LEMMA ReleaseRecords ==
  ASSUME RecordInv, KnowledgeInv', OneEach', release
  PROVE  RecordInv'
<1> USE DEF queue, daemon, machine
<1>1. /\ threads' = threads /\ wakes' = wakes /\ inputs' = inputs /\ settling' = settling
      /\ pasted' = pasted /\ left' = left /\ owner' = Nil /\ doubtful \subseteq doubtful'
      /\ \A t \in threads : t.item # Nil => Text(t) \in doubtful'
  BY DEF release
<1>2. \A t \in threads : /\ ThreadOK(t) /\ HoldOK(t) /\ t.host \in Hosts /\ t.host # Nil
                         /\ t.pc \in Before \cup Typing => t.item # Nil
                         /\ t.pc = "reply" => t.kind = "input"
  BY SessionAssumption DEF RecordInv, KnowledgeInv, TypeInv, ThreadOK, Thread, Held, Before, Typing
<1>3. ASSUME NEW t \in threads' PROVE HoldOK(t)'
  <2>1. t \in threads
    BY <1>1
  <2>2. \A k \in t.todo : t.kind = "input" /\ <<"input", k>> \notin doubtful' =>
          inputs'[k].status = "pending" \/ (owner' # t.host /\ left'.claims = 0)
    BY <1>1, <1>2, <2>1 DEF HoldOK, Certain
  <2>3. t.kind = "input" /\ Several => left.claims <= 1
    BY <1>2, <2>1 DEF HoldOK
  <2> QED
    BY <1>1, <1>2, <2>1, <2>2, <2>3 DEF HoldOK, Certain, Text, Several
<1>4. \A x : InHand(x) => x \in doubtful'
  BY <1>1, <1>2 DEF InHand
<1>5. \A i \in Entries : WakeDone(i)'
  BY <1>1, <1>4 DEF RecordInv, WakeDone, Certain
<1>6. \A k \in Keys : InputDone(k)'
  BY <1>1, <1>4 DEF RecordInv, InputDone, Certain
<1>7. ASSUME NEW s \in settling' PROVE Awaited(s)'
  <2> SUFFICES ASSUME <<"input", s.key>> \notin doubtful' PROVE FALSE
    BY DEF Awaited, Certain
  <2>1. PICK t \in threads : t.pc = "reply" /\ t.item = s.key
    BY <1>1 DEF RecordInv, Awaited, Certain
  <2>2. Text(t) = <<"input", s.key>> /\ t.item # Nil
    BY <1>2, <2>1 DEF Text, Typing
  <2> QED
    BY <1>1, <2>2
<1>8. ClaimsOK' /\ TypedOnce'
  BY <1>1 DEF RecordInv, ClaimsOK, Several, TypedOnce
<1> QED
  BY <1>3, <1>5, <1>6, <1>7, <1>8 DEF RecordInv

(* The claim is taken: nothing certain is in hand, and who still has a list   *)
(* of inputs loses the last claim.                                            *)
LEMMA ClaimRecords ==
  ASSUME RecordInv, KnowledgeInv', OneEach', NEW h \in Hosts, claim(h)
  PROVE  RecordInv'
<1> USE DEF queue, daemon, machine, observed
<1>1. /\ threads' = threads /\ wakes' = wakes /\ inputs' = inputs /\ settling' = settling
      /\ pasted' = pasted /\ owner = Nil /\ owner' = h /\ doubtful' = doubtful
      /\ h \in left.hosts /\ left'.hosts = left.hosts
      /\ left.claims \in Nat /\ left.claims > 0 /\ left'.claims = left.claims - 1
  <2>1. left \in Bounds
    BY DEF RecordInv, KnowledgeInv, TypeInv, DataOK
  <2> QED
    BY <2>1, UseType DEF claim, Bounds
<1>2. \A t \in threads : ThreadOK(t) /\ HoldOK(t) /\ t.host \in Hosts /\ t.host # Nil
  BY SessionAssumption DEF RecordInv, KnowledgeInv, TypeInv, ThreadOK, Thread
<1>3. Several' = Several
  BY <1>1 DEF Several
<1>4. ASSUME NEW t \in threads' PROVE HoldOK(t)'
  <2>1. t \in threads
    BY <1>1
  <2>2. t.kind = "input" => \A k \in t.todo : <<"input", k>> \notin doubtful => inputs[k].status = "pending"
    BY <1>1, <1>2, <2>1 DEF HoldOK, Certain
  <2>3. t.kind = "input" /\ Several => left'.claims = 0
    <3>1. t.kind = "input" /\ Several => left.claims <= 1
      BY <1>2, <2>1 DEF HoldOK
    <3> QED
      BY <1>1, <3>1
  <2>4. t.item # Nil => Text(t) \in doubtful
    BY <1>1, <1>2, <2>1 DEF HoldOK, Certain
  <2>5. t.pc \in Before => t.item # Nil
    BY <1>2, <2>1 DEF ThreadOK, Held, Before
  <2>6. t.host \in left'.hosts
    BY <1>1, <1>2, <2>1 DEF HoldOK
  <2> QED
    BY <1>1, <1>3, <2>2, <2>3, <2>4, <2>5, <2>6 DEF HoldOK, Certain, Text, Several
<1>5. \A i \in Entries : WakeDone(i)'
  BY <1>1 DEF RecordInv, WakeDone, Certain, InHand, Text
<1>6. \A k \in Keys : InputDone(k)'
  BY <1>1 DEF RecordInv, InputDone, Certain, InHand, Text
<1>7. \A s \in settling' : Awaited(s)'
  BY <1>1 DEF RecordInv, Awaited, Certain
<1>8. ClaimsOK'
  <2>1. Several => left.claims <= 2
    BY DEF RecordInv, ClaimsOK
  <2> QED
    BY <1>1, <1>3, <2>1 DEF ClaimsOK, Several
<1>9. TypedOnce'
  BY <1>1 DEF RecordInv, TypedOnce
<1> QED
  BY <1>4, <1>5, <1>6, <1>7, <1>8, <1>9 DEF RecordInv

(* An input is stored. *)
LEMMA StoreRecords ==
  ASSUME RecordInv, KnowledgeInv', OneEach', NEW a \in accepting, StoreInput(a)
  PROVE  RecordInv'
<1> USE DEF record, queue, daemon, machine, observed
<1>1. /\ threads' = threads /\ wakes' = wakes /\ settling' = settling /\ pasted' = pasted
      /\ left' = left /\ owner' = owner /\ doubtful' = doubtful
      /\ \A k \in Keys : \/ inputs'[k] = inputs[k]
                         \/ inputs[k].status = "none" /\ inputs'[k].status = "pending"
  <2>1. /\ inputs \in [Keys -> [status : {"none", "pending", "delivered", "failed"},
                                submit : BOOLEAN]]
        /\ accepting \subseteq [key : Keys, submit : BOOLEAN]
        /\ inputs[a.key].status = "none"
    BY DEF RecordInv, KnowledgeInv, TypeInv, DataOK, OneInput
  <2> QED
    BY <2>1 DEF StoreInput
<1>2. Unspent
  BY <1>1 DEF Unspent
<1>3. ASSUME NEW t \in threads' PROVE HoldOK(t)'
  <2>1. t \in threads /\ ThreadOK(t) /\ HoldOK(t)
    BY <1>1 DEF RecordInv, KnowledgeInv, TypeInv
  <2>2. t.kind = "input" => \A k \in t.todo : inputs[k].status = "pending" => inputs'[k].status = "pending"
    BY <1>1, <2>1 DEF ThreadOK
  <2> QED
    BY <1>1, <1>2, <2>1, <2>2, HoldStill DEF Kept
<1>4. \A i \in Entries : WakeDone(i)'
  BY <1>1 DEF RecordInv, WakeDone, Certain, InHand, Text
<1>5. ASSUME NEW k \in Keys PROVE InputDone(k)'
  <2>1. inputs[k].status \in {"delivered", "failed"} => inputs'[k].status \in {"delivered", "failed"}
    BY <1>1
  <2> QED
    BY <1>1, <2>1 DEF RecordInv, InputDone, Certain, InHand, Text
<1>6. \A s \in settling' : Awaited(s)'
  BY <1>1 DEF RecordInv, Awaited, Certain
<1>7. ClaimsOK' /\ TypedOnce'
  BY <1>1 DEF RecordInv, ClaimsOK, Several, TypedOnce
<1> QED
  BY <1>3, <1>4, <1>5, <1>6, <1>7 DEF RecordInv

(* An input is settled: who else had it listed lost the claim for good. *)
LEMMA SettleRecords ==
  ASSUME RecordInv, KnowledgeInv', OneEach', NEW s \in settling, SettleWrite(s)
  PROVE  RecordInv'
<1> USE DEF record, queue, machine, observed
<1> DEFINE x == <<"input", s.key>>
<1>1. /\ wakes' = wakes /\ pasted' = pasted /\ left' = left /\ owner' = owner
      /\ doubtful' = doubtful /\ settling' = settling \ {s}
      /\ s \in [host : Hosts, key : Keys, ok : BOOLEAN]
      /\ settling \subseteq [host : Hosts, key : Keys, ok : BOOLEAN]
      /\ inputs'[s.key].status \in {"delivered", "failed"}
      /\ \A k \in Keys : k # s.key => inputs'[k] = inputs[k]
  <2>1. /\ inputs \in [Keys -> [status : {"none", "pending", "delivered", "failed"},
                                submit : BOOLEAN]]
        /\ settling \subseteq [host : Hosts, key : Keys, ok : BOOLEAN]
    BY DEF RecordInv, KnowledgeInv, TypeInv, DataOK
  <2> QED
    BY <2>1 DEF SettleWrite
<1>2. \A t \in threads : /\ ThreadOK(t) /\ HoldOK(t) /\ t.host \in Hosts /\ t.host # Nil
                         /\ t.pc \in Typing => t.item # Nil
                         /\ t.pc = "reply" => t.kind = "input" /\ Text(t) = <<"input", t.item>>
  BY SessionAssumption DEF RecordInv, KnowledgeInv, TypeInv, ThreadOK, Thread, Held, Typing, Text
<1>3. /\ \A v \in threads' : \E u \in threads :
           /\ v.host = u.host /\ v.kind = u.kind /\ v.item = u.item /\ v.todo = u.todo
           /\ v.ok = u.ok
           /\ v = u \/ (u.pc = "reply" /\ v.pc = "next" /\ u.host = s.host /\ u.item = s.key)
      /\ \A u \in threads : u.pc # "reply" => u \in threads'
      /\ \A u \in threads : <<u.host, u.pc, u.item>> # <<s.host, "reply", s.key>> => u \in threads'
  BY SettledThreads DEF RecordInv, KnowledgeInv
<1>4. ASSUME x \notin doubtful
      PROVE  \E w \in threads : /\ w.host = s.host /\ w.pc = "reply" /\ w.item = s.key
                                /\ w.ok = s.ok /\ w.kind = "input" /\ owner = w.host
  <2>1. PICK w \in threads : w.host = s.host /\ w.pc = "reply" /\ w.item = s.key /\ w.ok = s.ok
    BY <1>4 DEF RecordInv, Awaited, Certain
  <2>2. w.kind = "input" /\ Text(w) = x /\ w.item # Nil
    BY <1>2, <2>1 DEF Typing
  <2>3. owner = w.host
    BY <1>2, <1>4, <2>2 DEF HoldOK, Certain
  <2> QED
    BY <2>1, <2>2, <2>3
<1>5. ASSUME NEW u \in threads, u.kind = "input", s.key \in u.todo, x \notin doubtful
      PROVE  owner # u.host /\ left.claims = 0
  <2>1. PICK w \in threads : w.pc = "reply" /\ w.item = s.key /\ w.kind = "input" /\ owner = w.host
    BY <1>4, <1>5
  <2>2. u # w
    BY <1>2, <1>5, <2>1 DEF ThreadOK
  <2>3. u.host # w.host
    BY <1>5, <2>1, <2>2 DEF RecordInv, OneEach
  <2>4. Several
    BY <1>2, <2>3 DEF HoldOK, Several
  <2>5. owner \notin {Nil, u.host}
    BY <1>2, <2>1, <2>3
  <2> QED
    BY <1>2, <1>5, <2>4, <2>5 DEF HoldOK
<1>6. ASSUME NEW v \in threads' PROVE HoldOK(v)'
  <2>1. PICK u \in threads :
           /\ v.host = u.host /\ v.kind = u.kind /\ v.item = u.item /\ v.todo = u.todo
           /\ v = u \/ (u.pc = "reply" /\ v.pc = "next")
    BY <1>3
  <2>2. u.kind = "input" => \A k \in u.todo :
          inputs[k].status = "pending" /\ <<"input", k>> \notin doubtful'
          => inputs'[k].status = "pending" \/ (owner # u.host /\ left.claims = 0)
    BY <1>1, <1>2, <1>5 DEF ThreadOK
  <2>3. Unspent
    BY <1>1 DEF Unspent
  <2>4. HoldOK(u)'
    BY <1>1, <1>2, <2>2, <2>3, HoldStill DEF Kept, Certain
  <2>5. v.pc = "next" => v.pc \notin Before
    BY DEF Before
  <2> QED
    BY <2>1, <2>4, <2>5 DEF HoldOK, Text
<1>7. ASSUME NEW y, y # x, InHand(y)
      PROVE  InHand(y)'
  <2>1. PICK u \in threads : Text(u) = y /\ u.pc \in Typing
    BY <1>7 DEF InHand
  <2>2. <<u.host, u.pc, u.item>> # <<s.host, "reply", s.key>>
    BY <1>2, <1>7, <2>1
  <2> QED
    BY <1>3, <2>1, <2>2 DEF InHand, Text
<1>8. ASSUME NEW i \in Entries PROVE WakeDone(i)'
  <2>1. <<"wake", i>> # x
    OBVIOUS
  <2>2. InHand(<<"wake", i>>) => InHand(<<"wake", i>>)'
    BY <1>7, <2>1
  <2> HIDE DEF x
  <2> QED
    BY <1>1, <2>2 DEF RecordInv, WakeDone, Certain
<1>9. ASSUME NEW k \in Keys PROVE InputDone(k)'
  <2>1. CASE k = s.key
    BY <1>1, <2>1 DEF InputDone
  <2>2. CASE k # s.key
    <3>1. <<"input", k>> # x
      BY <2>2
    <3>2. InHand(<<"input", k>>) => InHand(<<"input", k>>)'
      BY <1>7, <3>1
    <3> QED
      BY <1>1, <2>2, <3>2 DEF RecordInv, InputDone, Certain
  <2> QED
    BY <2>1, <2>2
<1>10. ASSUME NEW r \in settling' PROVE Awaited(r)'
  <2> SUFFICES ASSUME <<"input", r.key>> \notin doubtful
               PROVE  \E w \in threads' : w.host = r.host /\ w.pc = "reply" /\ w.item = r.key
                                          /\ w.ok = r.ok
    BY <1>1 DEF Awaited, Certain
  <2>1. PICK w \in threads : w.host = r.host /\ w.pc = "reply" /\ w.item = r.key /\ w.ok = r.ok
    BY <1>1 DEF RecordInv, Awaited, Certain
  <2>2. CASE r.host = s.host /\ r.key = s.key
    <3>1. PICK z \in threads : z.host = s.host /\ z.pc = "reply" /\ z.ok = s.ok /\ z.kind = "input"
      BY <1>4, <2>2
    <3>2. z = w
      BY <1>2, <2>1, <2>2, <3>1 DEF RecordInv, OneEach
    <3>3. r = s
      BY <1>1, <2>1, <2>2, <3>1, <3>2
    <3> QED
      BY <1>1, <3>3
  <2>3. CASE ~(r.host = s.host /\ r.key = s.key)
    <3>1. <<w.host, w.pc, w.item>> # <<s.host, "reply", s.key>>
      BY <2>1, <2>3
    <3> QED
      BY <1>3, <2>1, <3>1
  <2> QED
    BY <2>2, <2>3
<1>11. ClaimsOK' /\ TypedOnce'
  BY <1>1 DEF RecordInv, ClaimsOK, Several, TypedOnce
<1> QED
  BY <1>6, <1>8, <1>9, <1>10, <1>11 DEF RecordInv

(* The steps of the service keep the records true. *)
LEMMA ServiceRecords ==
  ASSUME RecordInv, KnowledgeInv', OneEach', Service
  PROVE  RecordInv'
<1> USE DEF record, queue, daemon, machine, observed
<1>0. left \in Bounds /\ wakes \in Seq({"pending", "delivered", "skipped"})
  BY DEF RecordInv, KnowledgeInv, TypeInv, DataOK
<1>1. ASSUME Survive(threads), Unspent, Recorded, pasted' = pasted, settling' = settling
      PROVE  RecordInv'
  BY <1>1, Quietly
<1>2. CASE EnterState
  <2>1. wakes' = Append(wakes, "pending")
    BY <1>2 DEF EnterState
  <2>2. \A i \in DOMAIN wakes : i \in DOMAIN wakes' /\ wakes'[i] = wakes[i]
    BY <1>0, <2>1, AppendProperties, LenProperties
  <2>3. Recorded
    BY <1>2, <2>2 DEF EnterState, Recorded
  <2>4. Unspent
    BY <1>0, <1>2, UseType DEF EnterState, Unspent
  <2>5. Survive(threads)
    BY <1>2, SurviveFacts DEF EnterState
  <2> QED
    BY <1>1, <1>2, <2>3, <2>4, <2>5 DEF EnterState
<1>3. CASE set_turn
  <2>1. Unspent
    BY <1>0, <1>3, UseType DEF set_turn, Unspent
  <2>2. Survive(threads)
    BY <1>3, SurviveFacts DEF set_turn
  <2> QED
    BY <1>1, <1>3, <2>1, <2>2 DEF set_turn, Recorded
<1>4. ASSUME NEW k \in Keys, NEW submit \in BOOLEAN, create_session_input(k, submit)
      PROVE  RecordInv'
  <2>1. Unspent
    BY <1>0, <1>4, UseType DEF create_session_input, Unspent
  <2>2. Survive(threads)
    BY <1>4, SurviveFacts DEF create_session_input
  <2> QED
    BY <1>1, <1>4, <2>1, <2>2 DEF create_session_input, Recorded
<1>5. ASSUME NEW h \in Hosts, register(h) \/ unregister(h)
      PROVE  RecordInv'
  BY <1>1, <1>5, SurviveFacts DEF register, unregister, Recorded, Unspent
<1> QED
  BY <1>2, <1>3, <1>4, <1>5, ReleaseRecords, ClaimRecords, StoreRecords, SettleRecords DEF Service

(* A pass that starts has nothing in its hands. *)
LEMMA StartRecords ==
  ASSUME RecordInv, KnowledgeInv', OneEach', NEW h \in Hosts, wake(h) \/ process(h)
  PROVE  RecordInv'
<1> USE DEF record, queue, machine, observed
<1>1. PICK kind \in {"wake", "input"} :
         threads' = threads \cup {Observe(h, kind)} /\ (kind = "input" => owner = h)
  BY DEF wake, process
<1>2. /\ owner' = owner /\ wakes' = wakes /\ inputs' = inputs /\ settling' = settling
      /\ pasted' = pasted /\ left' = left /\ doubtful' = doubtful
  BY DEF wake, process
<1>3. h \in left.hosts /\ h # Nil
  BY SessionAssumption DEF wake, process, RecordInv, ClaimsOK
<1>4. PICK n : n = Observe(h, kind)
  OBVIOUS
<1>5. n.host = h /\ n.kind = kind /\ n.pc = "load" /\ n.item = Nil /\ n.todo = {}
  BY <1>4, ObserveType DEF RecordInv, KnowledgeInv
<1>6. threads' = threads \cup {n}
  BY <1>1, <1>4
<1>7. HoldOK(n)'
  <2>1. kind = "input" /\ Several => left.claims <= 1
    BY <1>1, <1>3 DEF RecordInv, ClaimsOK
  <2> QED
    BY <1>1, <1>2, <1>3, <1>5, <2>1 DEF HoldOK, Certain, Text, Several, Before
<1>8. ASSUME NEW v \in threads' PROVE HoldOK(v)'
  <2>1. CASE v \in threads
    BY <1>2, <2>1, HoldStill DEF RecordInv, KnowledgeInv, TypeInv, Kept, Unspent
  <2> QED
    BY <1>6, <1>7, <2>1
<1>9. ASSUME NEW y, InHand(y)
      PROVE  InHand(y)'
  BY <1>6, <1>9 DEF InHand, Text
<1>10. \A i \in Entries : WakeDone(i)'
  BY <1>2, <1>9 DEF RecordInv, WakeDone, Certain
<1>11. \A k \in Keys : InputDone(k)'
  BY <1>2, <1>9 DEF RecordInv, InputDone, Certain
<1>12. \A s \in settling' : Awaited(s)'
  BY <1>2, <1>6 DEF RecordInv, Awaited, Certain
<1>13. ClaimsOK' /\ TypedOnce'
  BY <1>2 DEF RecordInv, ClaimsOK, Several, TypedOnce
<1> QED
  BY <1>8, <1>10, <1>11, <1>12, <1>13 DEF RecordInv

(* The steps of a host keep the records true. *)
LEMMA HostRecords ==
  ASSUME RecordInv, KnowledgeInv', OneEach', NEW h \in Hosts, Host(h)
  PROVE  RecordInv'
<1> USE DEF record, queue, daemon, machine, observed
<1>0. left \in Bounds /\ \A t \in threads : ThreadOK(t)
  BY DEF RecordInv, KnowledgeInv, TypeInv, DataOK
<1>1. ASSUME Fault \/ UNCHANGED left, owner' = owner
      PROVE  Unspent
  BY <1>0, <1>1, UseType DEF Fault, Unspent
<1>2. CASE CrashDaemon(h)
  <2> DEFINE S == {t \in threads : t.host # h}
  <2>1. Survive(S) /\ S \in SUBSET threads
    BY <1>2, SurviveFacts
  <2>2. /\ Recorded /\ pasted' = pasted /\ settling' = settling /\ owner' = owner /\ Fault
    BY <1>2 DEF CrashDaemon, Recorded
  <2>3. \A t \in threads \ S : t.pc \in Typing => Text(t) \in doubtful'
    BY <1>2 DEF CrashDaemon
  <2>4. Unspent
    BY <1>1, <2>2
  <2> HIDE DEF S
  <2> QED
    BY <2>1, <2>2, <2>3, <2>4, Quietly
<1>3. CASE ~(wake(h) \/ process(h) \/ CrashDaemon(h))
  <2>1. /\ threads' = threads /\ wakes' = wakes /\ inputs' = inputs /\ doubtful' = doubtful
        /\ pasted' = pasted /\ settling' = settling /\ owner' = owner
    BY <1>3 DEF Host, SpawnStep, SpawnClear, SpawnRun, SpawnSession, watch_pane, SpawnAgent,
                SpawnFail, stop, AgentReady, LoseSession, LoseContainer
  <2>2. Unspent
    <3>1. CASE SpawnSession(h)
      BY <1>0, <2>1, <3>1, UseType DEF SpawnSession, Unspent
    <3>2. CASE ~SpawnSession(h)
      <4>1. Fault \/ UNCHANGED left
        BY <1>3, <3>2 DEF Host, SpawnStep, SpawnClear, SpawnRun, watch_pane, SpawnAgent,
                SpawnFail, stop, AgentReady, LoseSession, LoseContainer
      <4> QED
        BY <1>1, <2>1, <4>1
    <3> QED
      BY <3>1, <3>2
  <2>3. Survive(threads) /\ Recorded
    BY <2>1, SurviveFacts DEF Recorded
  <2> QED
    BY <2>1, <2>2, <2>3, Quietly
<1> QED
  BY <1>2, <1>3, StartRecords

(* The records stay true. *)
LEMMA RecordsStay == RecordInv /\ [Next]_vars => RecordInv'
<1> SUFFICES ASSUME RecordInv, [Next]_vars PROVE RecordInv'
  OBVIOUS
<1>1. KnowledgeInv'
  BY KnowledgeKept DEF RecordInv
<1>2. CASE Next
  <2>1. OneEach'
    BY <1>2, OneEachKept DEF RecordInv, KnowledgeInv
  <2> QED
    BY <1>1, <1>2, <2>1, ThreadRecords, ServiceRecords, HostRecords DEF Next
<1>3. CASE UNCHANGED vars
  <2>1. /\ threads' = threads /\ wakes' = wakes /\ inputs' = inputs /\ doubtful' = doubtful
        /\ pasted' = pasted /\ settling' = settling /\ owner' = owner /\ left' = left
    BY <1>3 DEF vars, record, queue, daemon, machine, observed
  <2> QED
    BY <1>1, <2>1, Quietly, SurviveFacts DEF Recorded, Unspent, OneEach, RecordInv
<1> QED
  BY <1>2, <1>3

(* A text is typed a second time only after the outcome of an earlier typing  *)
(* was lost, as long as no claim comes back to a host that left it to another *)
(* (session_io.py lists the inputs of a pass once and settles them one by     *)
(* one); and with that all the records of what was typed are true.            *)
THEOREM RecordsTrue ==
  ASSUME NoReturn
  PROVE  Spec => []RecordsAreTrue
<1>1. Init => RecordInv
  <2> SUFFICES ASSUME Init PROVE RecordInv
    OBVIOUS
  <2>1. KnowledgeInv
    BY InitKnowledge
  <2>2. ClaimsOK
    BY DEF Init, ClaimsOK, Several, NoReturn
  <2>3. threads = {} /\ settling = {} /\ \A x \in Texts : pasted[x] = 0
    BY DEF Init
  <2>4. (\A i \in Entries : <<"wake", i>> \in Texts) /\ (\A k \in Keys : <<"input", k>> \in Texts)
    BY DEF Texts
  <2>5. (\A i \in Entries : WakeDone(i)) /\ (\A k \in Keys : InputDone(k)) /\ TypedOnce
    BY <2>3, <2>4 DEF WakeDone, InputDone, TypedOnce
  <2> QED
    BY <2>1, <2>2, <2>3, <2>5 DEF RecordInv, OneEach
<1>2. RecordInv /\ [Next]_vars => RecordInv'
  BY RecordsStay
<1>3. RecordInv => TypedOnce
  BY DEF RecordInv
<1>4. Spec => []TypedOnce
  BY <1>1, <1>2, <1>3, PTL DEF Spec
<1> QED
  BY <1>4, RecordsKept, PTL DEF RecordsAreTrue
=============================================================================
