-------------------------- MODULE ChangeFeedProofs --------------------------
(* What is proved of ChangeFeed for any clients, writers and bounds: the      *)
(* cursor of a client accounts for everything it has not seen.                *)
EXTENDS ChangeFeed, FiniteSetTheorems, TLAPS

(* A finite set of handlers has a size, which grows and shrinks by one with   *)
(* the handler that commits or announces.                                     *)
LEMMA OwingCount ==
  ASSUME owing \subseteq Writer
  PROVE  /\ Cardinality(owing) \in Nat
         /\ \A w \in Writer \ owing : Cardinality(owing \cup {w}) = Cardinality(owing) + 1
         /\ \A w \in owing : Cardinality(owing \ {w}) = Cardinality(owing) - 1
<1>1. IsFiniteSet(owing)
  BY FeedAssumption, FS_Subset
<1>2. ASSUME NEW w \in Writer \ owing
      PROVE  Cardinality(owing \cup {w}) = Cardinality(owing) + 1
  BY <1>1, FS_AddElement
<1>3. ASSUME NEW w \in owing
      PROVE  Cardinality(owing \ {w}) = Cardinality(owing) - 1
  BY <1>1, FS_RemoveElement
<1> QED
  BY <1>1, <1>2, <1>3, FS_CardinalityType

(* The quantities compared are numbers. *)
LEMMA Numbers ==
  ASSUME FeedInv, NEW c \in Client
  PROVE  /\ committed \in Nat /\ version \in Nat /\ cursor[c] \in Nat /\ seen[c] \in Nat
         /\ poll[c].reported \in Nat /\ poll[c].read \in Nat
         /\ Cardinality(owing) \in Nat
<1>1. Cardinality(owing) \in Nat
  BY OwingCount DEF FeedInv, TypeOK
<1> QED
  BY <1>1 DEF FeedInv, TypeOK

(* A step that only moves the request of client c, to a request that reports  *)
(* no version the counter has not reached, keeps the invariant.               *)
LEMMA PollStep ==
  ASSUME FeedInv, NEW c \in Client, UNCHANGED Rest,
         NEW new \in [pc : {"idle", "parked", "woken", "query", "respond"},
                      reported : Nat, read : Nat],
         poll' = [poll EXCEPT ![c] = new],
         new.pc = "parked" => version = cursor[c],
         new.pc \in {"query", "respond"} => new.reported <= version,
         new.pc = "respond" => new.read = committed
  PROVE  FeedInv'
<1>1. TypeOK'
  BY DEF FeedInv, TypeOK, Rest
<1>2. ASSUME NEW d \in Client, d # c
      PROVE  ClientOK(d)'
  <2>1. poll'[d] = poll[d]
    BY <1>2 DEF FeedInv, TypeOK
  <2> QED
    BY <2>1 DEF FeedInv, ClientOK, Unseen, Rest
<1>3. ClientOK(c)'
  <2>1. poll'[c] = new
    BY DEF FeedInv, TypeOK
  <2>2. new.pc = "respond" => new.read <= committed /\ Unseen(new.read, new.reported)
    BY Numbers DEF Unseen
  <2> QED
    BY <2>1, <2>2 DEF FeedInv, ClientOK, Unseen, Rest
<1> QED
  BY <1>1, <1>2, <1>3 DEF FeedInv

(* It holds of a service with no request under way. *)
LEMMA FeedInit == Init => FeedInv
  BY FS_EmptySet, FeedAssumption DEF Init, FeedInv, TypeOK, ClientOK, NoPoll

(* An announcement moves the counter and wakes the parked.  If it also pays   *)
(* off the handler that committed, or no handler was due, every account holds.*)
LEMMA AnnounceKeeps ==
  ASSUME FeedInv, NEW due \in {0, 1},
         Cardinality(owing') = Cardinality(owing) - due,
         owing' \subseteq owing,
         version' = version + 1, Notify, pulses' \in Nat,
         UNCHANGED <<committed, cursor, seen, issued, restarts>>
  PROVE  FeedInv'
<1>1. TypeOK'
  BY DEF FeedInv, TypeOK, Notify
<1>2. ASSUME NEW c \in Client
      PROVE  ClientOK(c)'
  <2>1. /\ poll'[c].pc # "parked"
        /\ poll[c].pc # "parked" => poll'[c] = poll[c]
        /\ poll[c].pc = "parked" => poll'[c].pc = "woken"
    BY DEF FeedInv, TypeOK, Notify
  <2>2. ClientOK(c)
    BY DEF FeedInv
  <2>3. \A n, v \in Nat : Unseen(n, v) => Unseen(n, v)'
    BY Numbers DEF Unseen
  <2>4. version <= version' /\ \A v \in Nat : v <= version => v <= version'
    BY Numbers
  <2> QED
    BY <2>1, <2>2, <2>3, <2>4, Numbers DEF ClientOK
<1> QED
  BY <1>1, <1>2 DEF FeedInv

(* Every step of the feed keeps the invariant: announcing a mutation pays the *)
(* debt its commit made, and a client that learns a version learns, with it,  *)
(* a listing at least as new.                                                 *)
LEMMA FeedStep == FeedInv /\ [Next]_vars => FeedInv'
<1> SUFFICES ASSUME FeedInv, [Next]_vars
             PROVE  FeedInv'
  OBVIOUS
<1>1. ASSUME NEW w \in Writer, Commit(w)
      PROVE  FeedInv'
  <2>1. Cardinality(owing') = Cardinality(owing) + 1
    BY <1>1, OwingCount DEF Commit, FeedInv, TypeOK
  <2>2. TypeOK'
    BY <1>1 DEF Commit, FeedInv, TypeOK
  <2>3. ASSUME NEW c \in Client
        PROVE  ClientOK(c)'
    <3>1. \A n, v \in Nat : Unseen(n, v) => Unseen(n, v)'
      BY <1>1, <2>1, Numbers DEF Unseen, Commit
    <3>2. committed' = committed + 1 /\ \A n \in Nat : n <= committed => n <= committed'
      BY <1>1, Numbers DEF Commit
    <3> QED
      BY <1>1, <3>1, <3>2, Numbers DEF Commit, FeedInv, ClientOK
  <2> QED
    BY <2>2, <2>3 DEF FeedInv
<1>2. ASSUME NEW w \in Writer, Bump(w)
      PROVE  FeedInv'
  <2>1. Cardinality(owing') = Cardinality(owing) - 1
    BY <1>2, OwingCount DEF Bump, FeedInv, TypeOK
  <2> QED
    BY <1>2, <2>1, AnnounceKeeps DEF Bump, FeedInv, TypeOK
<1>3. CASE Pulse
  <2>1. Cardinality(owing') = Cardinality(owing) - 0
    BY <1>3, OwingCount DEF Pulse, FeedInv, TypeOK
  <2> QED
    BY <1>3, <2>1, AnnounceKeeps DEF Pulse, FeedInv, TypeOK
<1>4. ASSUME NEW c \in Client, Snapshot(c) \/ Wait(c) \/ Resume(c) \/ Timeout(c)
      PROVE  FeedInv'
  <2>1. UNCHANGED Rest
    BY <1>4 DEF Snapshot, Wait, Resume, Timeout
  <2>2. CASE Report(c)
    <3>1. version \in Nat /\ version <= version
      BY Numbers
    <3> QED
      BY <2>1, <2>2, <3>1, PollStep DEF Report
  <2>3. CASE version = cursor[c] /\ poll' = [poll EXCEPT ![c].pc = "parked"]
    <3> DEFINE new == [poll[c] EXCEPT !.pc = "parked"]
    <3>1. /\ new \in [pc : {"idle", "parked", "woken", "query", "respond"},
                       reported : Nat, read : Nat]
          /\ new.pc \notin {"query", "respond"}
      BY DEF FeedInv, TypeOK
    <3>2. poll' = [poll EXCEPT ![c] = new]
      BY <2>3
    <3>3. version = cursor[c]
      BY <2>3
    <3> HIDE DEF new
    <3> QED
      BY <2>1, <3>1, <3>2, <3>3, PollStep
  <2> QED
    BY <1>4, <2>2, <2>3 DEF Snapshot, Wait, Resume, Timeout
<1>5. ASSUME NEW c \in Client, Query(c)
      PROVE  FeedInv'
  <2>1. poll[c].reported <= version /\ committed \in Nat
    BY <1>5 DEF Query, FeedInv, ClientOK, TypeOK
  <2> DEFINE new == [poll[c] EXCEPT !.pc = "respond", !.read = committed]
  <2>2. /\ new \in [pc : {"idle", "parked", "woken", "query", "respond"},
                     reported : Nat, read : Nat]
        /\ new.pc # "parked" /\ new.reported <= version /\ new.read = committed
    BY <2>1 DEF FeedInv, TypeOK
  <2>3. poll' = [poll EXCEPT ![c] = new] /\ UNCHANGED Rest
    BY <1>5 DEF Query
  <2> HIDE DEF new
  <2> QED
    BY <2>2, <2>3, PollStep
<1>6. ASSUME NEW c \in Client, Receive(c)
      PROVE  FeedInv'
  <2>1. TypeOK'
    BY <1>6 DEF Receive, NoPoll, FeedInv, TypeOK
  <2>2. ASSUME NEW d \in Client, d # c
        PROVE  ClientOK(d)'
    <3>1. poll'[d] = poll[d] /\ cursor'[d] = cursor[d] /\ seen'[d] = seen[d] /\ issued'[d] = issued[d]
      BY <1>6, <2>2 DEF Receive, FeedInv, TypeOK
    <3> QED
      BY <1>6, <3>1 DEF Receive, FeedInv, ClientOK, Unseen
  <2>3. ClientOK(c)'
    <3>1. poll'[c] = NoPoll /\ cursor'[c] = poll[c].reported /\ seen'[c] = poll[c].read
      BY <1>6 DEF Receive, FeedInv, TypeOK
    <3> QED
      BY <1>6, <3>1 DEF Receive, FeedInv, ClientOK, Unseen, NoPoll
  <2> QED
    BY <2>1, <2>2, <2>3 DEF FeedInv
<1>7. CASE Restart
  BY <1>7 DEF Restart, NoPoll, FeedInv, TypeOK, ClientOK
<1>8. CASE UNCHANGED vars
  BY <1>8 DEF vars, FeedInv, TypeOK, ClientOK, Unseen
<1> QED
  BY <1>1, <1>2, <1>3, <1>4, <1>5, <1>6, <1>7, <1>8 DEF Next

(* The invariant of the feed holds of every behaviour, so what a client has   *)
(* not seen is always bounded by how far the counter is ahead of its cursor.  *)
THEOREM FeedInvariant == Spec => []FeedInv
<1> QED
  BY FeedInit, FeedStep, PTL DEF Spec

(* The version a listing carries is a lower bound of what the listing shows.  *)
THEOREM LowerBound == Spec => []CursorIsLowerBound
<1>1. FeedInv => CursorIsLowerBound
  BY DEF FeedInv, ClientOK, Unseen, CursorIsLowerBound
<1> QED
  BY <1>1, FeedInvariant, PTL

(* No parked client has missed an announced mutation: there is no lost        *)
(* wake-up, for any number of clients, writers and restarts.                  *)
THEOREM NoLostWakeUp == Spec => []NothingSleptThrough
<1>1. FeedInv => NothingSleptThrough
  <2> SUFFICES ASSUME FeedInv, NEW c \in Client,
                      poll[c].pc = "parked", issued[c], owing = {}
               PROVE  seen[c] = committed
    BY DEF NothingSleptThrough
  <2>1. Cardinality(owing) = 0
    BY FS_EmptySet
  <2>2. version = cursor[c] /\ seen[c] <= committed /\ Unseen(seen[c], cursor[c])
    BY DEF FeedInv, ClientOK
  <2> QED
    BY <2>1, <2>2, Numbers DEF Unseen
<1> QED
  BY <1>1, FeedInvariant, PTL
=============================================================================
