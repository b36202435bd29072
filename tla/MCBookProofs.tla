---------------------------- MODULE MCBookProofs ----------------------------
(* What the parts of MCBook promise, for any values of the constants that its *)
(* assumptions admit and for behaviours of any length: the review round, the  *)
(* start of the service, the record of a repository, set-up, the scopes of    *)
(* agents, the redaction of tokens, and the gates of the shipped workflows.   *)
EXTENDS MCBook, FiniteSetTheorems, WellFoundedInduction, TLAPS

-----------------------------------------------------------------------------
(* A review round *)

Comments == [harness : {"claude", "codex"}, model : Models, commit : Nat, round : Nat,
             outcome : BOOLEAN, by : Models, clean : BOOLEAN, touched : SUBSET {"seen", "unseen"}]
Dispatches ==
  [pc : {"head", "status", "run", "after", "verify", "post", "artifact"}, slot : 1 .. 2,
   commit : Nat, round : Nat, files : Nat,
   model : Models \cup {"none"}, defect : Defects \cup {"none"},
   thread : Nat, touched : SUBSET {"seen", "unseen"}]
Checkouts == [head : Nat \ {0}, files : Nat]

ReviewTyped ==
  /\ slots \in Slots
  /\ checkout \in Checkouts /\ round \in Nat \ {0}
  /\ dispatch = Review!NoCall \/ dispatch \in Dispatches
  /\ rollouts \in Seq(Models) /\ posted \in Seq(Comments)
  /\ artifacts \subseteq DOMAIN posted
  /\ verdict.commit \in 0 .. checkout.head /\ verdict.round \in 0 .. round

(* What is known of the review under way: both slots were configured when it  *)
(* was dispatched; the rollout of its thread, if one was kept, is the last    *)
(* word on its model; a checkout that was touched no longer looks as it did,  *)
(* but for edits of files that were listed at the start, as HEAD only moves   *)
(* on and an edit is never reverted; what is posted has been verified.        *)
Watched(d, c) ==
  /\ "seen" \in d.touched => d.commit < c.head \/ d.files < c.files
  /\ "seen" \notin d.touched => d.files = c.files
  /\ "unseen" \in d.touched /\ d.files = 0 => "seen" \in d.touched

Unnoticed(d) == d.touched \subseteq IF d.files = 0 THEN {} ELSE {"unseen"}

ReviewKnown ==
  /\ dispatch.pc # "idle" => Review!resolve_reviewers /\ dispatch.commit <= checkout.head
  /\ dispatch.pc \in {"run", "after"} => Watched(dispatch, checkout)
  /\ dispatch.pc \in {"after", "verify"} =>
       /\ dispatch.model \in Models
       /\ dispatch.thread # 0 =>
            dispatch.thread \in DOMAIN rollouts /\ rollouts[dispatch.thread] = dispatch.model
  /\ dispatch.pc \in {"verify", "post", "artifact"} => Unnoticed(dispatch)
  /\ dispatch.pc \in {"post", "artifact"} =>
       dispatch.model = slots[dispatch.slot].model
  /\ dispatch.pc = "artifact" => posted # <<>>

ReviewInv ==
  /\ ReviewTyped /\ ReviewKnown
  /\ Review!PostedUnderOwnName /\ Review!PostedOfOneCheckout /\ Review!NothingHalfConfigured

(* A round starts with the invariant.                                         *)
LEMMA ReviewStarts == Review!Init => ReviewInv
<1> SUFFICES ASSUME Review!Init PROVE ReviewInv
  OBVIOUS
<1>1. ReviewTyped
  BY DEF Review!Init, ReviewTyped, Review!Unsettled, Checkouts
<1>2. ReviewKnown
  BY DEF Review!Init, ReviewKnown, Review!NoCall
<1> QED
  BY <1>1, <1>2 DEF ReviewInv, Review!Init, Review!PostedUnderOwnName,
     Review!PostedOfOneCheckout, Review!NothingHalfConfigured

(* What leaves the round alone keeps it.                                      *)
LEMMA ReviewRests == ReviewInv /\ UNCHANGED reviewVars => ReviewInv'
  BY DEF reviewVars, ReviewInv, ReviewTyped, ReviewKnown, Review!resolve_reviewers,
     Review!parse_reviewer_config, Review!PostedUnderOwnName, Review!PostedOfOneCheckout,
     Review!NothingHalfConfigured

(* The checkout is touched under a review.                                    *)
Alters(c, next) ==
  \/ next.head > c.head
  \/ next.head = c.head /\ next.files \in {c.files, c.files + 1} \ {0}

LEMMA TouchIsWatched ==
  ASSUME NEW d \in Dispatches, NEW e \in Dispatches, NEW c \in Checkouts, NEW next \in Checkouts,
         Watched(d, c), d.commit <= c.head, Alters(c, next),
         e.commit = d.commit, e.files = d.files,
         e.touched = d.touched \cup {IF next = c THEN "unseen" ELSE "seen"}
  PROVE  Watched(e, next)
<1>1. /\ {d.commit, d.files, c.head, c.files, next.head, next.files} \subseteq Nat
      /\ next = c <=> next.head = c.head /\ next.files = c.files
  BY DEF Dispatches, Checkouts
<1>2. CASE next = c
  BY <1>1, <1>2 DEF Watched, Alters
<1>3. CASE next # c
  <2>1. d.commit < next.head \/ d.files < next.files
    BY <1>1, <1>3 DEF Watched, Alters
  <2> QED
    BY <1>1, <1>3, <2>1 DEF Watched
<1> QED
  BY <1>2, <1>3

(* An edit is one of them.                                                    *)
LEMMA EditsMove ==
  ASSUME checkout \in Checkouts, NEW next \in Review!Edited
  PROVE  next \in Checkouts /\ next.head = checkout.head /\ Alters(checkout, next)
  BY DEF Review!Edited, Checkouts, Alters

(* The agent edits and commits under a review.                                *)
LEMMA AgentKeepsReview ==
  ASSUME ReviewInv, Review!Edit \/ Review!Commit
  PROVE  ReviewInv'
<1> DEFINE how == IF checkout' = checkout THEN "unseen" ELSE "seen"
<1>1. /\ UNCHANGED <<slots, rollouts, posted, artifacts, verdict>>
      /\ checkout \in Checkouts /\ checkout' \in Checkouts /\ Alters(checkout, checkout')
      /\ round' \in Nat \ {0} /\ round <= round'
      /\ dispatch' = Review!Touch(dispatch, how)
  <2>1. checkout \in Checkouts /\ round \in Nat \ {0}
    BY DEF ReviewInv, ReviewTyped
  <2>2. CASE Review!Edit
    BY <2>1, <2>2, EditsMove DEF Review!Edit, Review!Files, Review!How
  <2>3. CASE Review!Commit
    <3>1. checkout' = [head |-> checkout.head + 1, files |-> 0] /\ checkout'.head > checkout.head
      BY <2>1, <2>3 DEF Review!Commit, Checkouts
    <3>2. checkout' # checkout /\ checkout' \in Checkouts
      BY <2>1, <3>1 DEF Checkouts
    <3> QED
      BY <2>1, <2>3, <3>1, <3>2 DEF Review!Commit, Alters
  <2> QED
    BY <2>2, <2>3
<1>2. checkout.head <= checkout'.head /\ {checkout.head, checkout'.head} \subseteq Nat
  BY <1>1 DEF Checkouts, Alters
<1> HIDE DEF how
<1>3. how \in {"seen", "unseen"}
  BY DEF how
<1>4. \/ dispatch' = dispatch /\ dispatch.pc \notin {"run", "after"}
      \/ /\ dispatch' = [dispatch EXCEPT !.touched = @ \cup {how}] /\ dispatch \in Dispatches
         /\ dispatch.pc \in {"run", "after"}
  BY <1>1 DEF ReviewInv, ReviewTyped, Review!Touch, Review!NoCall, Dispatches
<1>5. /\ dispatch' = Review!NoCall \/ dispatch' \in Dispatches
      /\ dispatch'.pc = dispatch.pc
  <2>1. CASE dispatch' = dispatch
    BY <2>1 DEF ReviewInv, ReviewTyped
  <2>2. CASE dispatch' = [dispatch EXCEPT !.touched = @ \cup {how}] /\ dispatch \in Dispatches
    BY <1>3, <2>2 DEF Dispatches
  <2> QED
    BY <1>4, <2>1, <2>2, Zenon
<1>6. ReviewTyped'
  BY <1>1, <1>2, <1>5 DEF ReviewInv, ReviewTyped
<1>7. ReviewKnown'
  <2>1. CASE dispatch.pc = "idle"
    BY <1>5, <2>1 DEF ReviewKnown
  <2>2. CASE dispatch.pc # "idle"
    <3>1. dispatch \in Dispatches /\ dispatch' \in Dispatches
      BY <1>4, <1>5, <2>2 DEF ReviewInv, ReviewTyped, Review!NoCall
    <3>2. Review!resolve_reviewers' /\ dispatch.commit <= checkout'.head
      BY <1>1, <1>2, <2>2, <3>1 DEF ReviewInv, ReviewKnown, Review!resolve_reviewers,
         Review!parse_reviewer_config, Dispatches
    <3>3. CASE dispatch' = dispatch /\ dispatch.pc \notin {"run", "after"}
      BY <1>1, <3>2, <3>3 DEF ReviewInv, ReviewKnown
    <3>4. CASE /\ dispatch' = [dispatch EXCEPT !.touched = @ \cup {how}]
               /\ dispatch.pc \in {"run", "after"}
      <4>1. /\ dispatch'.commit = dispatch.commit /\ dispatch'.files = dispatch.files
            /\ dispatch'.touched = dispatch.touched \cup {how}
            /\ dispatch'.model = dispatch.model /\ dispatch'.thread = dispatch.thread
            /\ dispatch'.pc = dispatch.pc
        BY <3>1, <3>4 DEF Dispatches
      <4>2. Watched(dispatch, checkout) /\ dispatch.commit <= checkout.head
        BY <2>2, <3>4 DEF ReviewInv, ReviewKnown
      <4>3. Watched(dispatch', checkout')
        BY <1>1, <3>1, <4>1, <4>2, TouchIsWatched DEF how
      <4> QED
        BY <1>1, <3>2, <3>4, <4>1, <4>3 DEF ReviewInv, ReviewKnown
    <3> QED
      BY <1>4, <3>3, <3>4
  <2> QED
    BY <2>1, <2>2
<1> QED
  BY <1>1, <1>6, <1>7 DEF ReviewInv, Review!PostedUnderOwnName, Review!PostedOfOneCheckout,
     Review!NothingHalfConfigured, Review!parse_reviewer_config

(* The checks before the review, and the dispatch.                            *)
LEMMA ChecksKeepReview ==
  ASSUME ReviewInv,
         \/ \E c \in 1 .. checkout.head, n \in 1 .. round : Review!dispatch_reviews(c, n)
         \/ Review!CheckHead \/ Review!ReadStatus \/ Review!CheckAfter \/ Review!Verify
  PROVE  ReviewInv'
<1>1. UNCHANGED <<slots, checkout, round, rollouts, posted, artifacts, verdict>>
  BY DEF Review!dispatch_reviews, Review!CheckHead, Review!ReadStatus, Review!CheckAfter,
     Review!Verify, Review!Files
<1>2. SUFFICES ASSUME dispatch' \in Dispatches
               PROVE  ReviewKnown'
  <2>1. dispatch' = Review!NoCall \/ dispatch' \in Dispatches
    <3>1. ASSUME NEW c \in 1 .. checkout.head, NEW n \in 1 .. round, Review!dispatch_reviews(c, n)
          PROVE  dispatch' \in Dispatches
      BY <3>1 DEF ReviewInv, ReviewTyped, Checkouts, Dispatches, Review!dispatch_reviews
    <3>2. dispatch = Review!NoCall \/ (dispatch \in Dispatches /\ checkout \in Checkouts)
      BY DEF ReviewInv, ReviewTyped
    <3>3. dispatch = Review!NoCall => dispatch.pc = "idle"
      BY DEF Review!NoCall
    <3>4. ASSUME NEW q \in {"status", "verify", "post"}, Review!Step(q), dispatch \in Dispatches
          PROVE  dispatch' \in Dispatches
      BY <3>4 DEF Dispatches, Review!Step
    <3>5. CASE Review!CheckHead
      BY <3>2, <3>3, <3>4, <3>5 DEF Review!CheckHead, Review!RaiseError
    <3>6. CASE Review!ReadStatus
      <4>1. dispatch \in Dispatches /\ checkout.files \in Nat
        BY <3>2, <3>3, <3>6 DEF Review!ReadStatus, Checkouts
      <4> QED
        BY <3>6, <4>1 DEF Review!ReadStatus, Dispatches
    <3>7. CASE Review!CheckAfter
      BY <3>2, <3>3, <3>4, <3>7 DEF Review!CheckAfter, Review!RaiseError
    <3>8. CASE Review!Verify
      BY <3>2, <3>3, <3>4, <3>8 DEF Review!Verify, Review!RaiseError
    <3> QED
      BY <3>1, <3>5, <3>6, <3>7, <3>8
  <2>2. ReviewTyped'
    BY <1>1, <2>1 DEF ReviewInv, ReviewTyped
  <2>3. dispatch' = Review!NoCall => ReviewKnown'
    BY DEF ReviewKnown, Review!NoCall
  <2> QED
    BY <1>1, <1>2, <2>1, <2>2, <2>3 DEF ReviewInv, Review!PostedUnderOwnName,
       Review!PostedOfOneCheckout, Review!NothingHalfConfigured, Review!parse_reviewer_config
<1>3. CASE \E c \in 1 .. checkout.head, n \in 1 .. round : Review!dispatch_reviews(c, n)
  BY <1>1, <1>3 DEF ReviewInv, ReviewTyped, Checkouts, ReviewKnown, Review!dispatch_reviews,
     Review!resolve_reviewers, Review!parse_reviewer_config
<1>4. CASE dispatch.pc # "idle"
  <2>1. dispatch \in Dispatches /\ Review!resolve_reviewers /\ dispatch.commit <= checkout.head
    BY <1>4 DEF ReviewInv, ReviewTyped, ReviewKnown, Review!NoCall
  <2>2. Review!resolve_reviewers'
    BY <1>1, <2>1 DEF Review!resolve_reviewers, Review!parse_reviewer_config
  <2>3. dispatch' # Review!NoCall
    BY <1>2 DEF Dispatches, Review!NoCall
  <2>4. CASE Review!CheckHead
    BY <1>1, <2>1, <2>2, <2>3, <2>4
    DEF ReviewInv, ReviewKnown, Review!CheckHead, Review!Step, Review!RaiseError, Dispatches
  <2>5. CASE Review!ReadStatus
    BY <1>1, <2>1, <2>2, <2>5
    DEF ReviewInv, ReviewTyped, Checkouts, ReviewKnown, Watched, Review!ReadStatus, Dispatches
  <2>6. CASE Review!CheckAfter
    <3>1. /\ dispatch.pc = "after" /\ dispatch' = [dispatch EXCEPT !.pc = "verify"]
          /\ checkout.head = dispatch.commit /\ checkout.files = dispatch.files
      BY <1>1, <2>3, <2>6 DEF Review!CheckAfter, Review!Untouched, Review!Step, Review!RaiseError
    <3>2. /\ dispatch'.pc = "verify" /\ dispatch'.commit = dispatch.commit
          /\ dispatch'.model = dispatch.model /\ dispatch'.thread = dispatch.thread
          /\ dispatch'.touched = dispatch.touched /\ dispatch'.files = dispatch.files
      BY <2>1, <3>1 DEF Dispatches
    <3>3. Unnoticed(dispatch)
      <4>1. "seen" \notin dispatch.touched
        BY <2>1, <3>1 DEF ReviewInv, ReviewTyped, ReviewKnown, Watched, Checkouts, Dispatches
      <4>2. Watched(dispatch, checkout) /\ dispatch.touched \subseteq {"seen", "unseen"}
        BY <2>1, <3>1 DEF ReviewInv, ReviewKnown, Dispatches
      <4> QED
        BY <4>1, <4>2 DEF Watched, Unnoticed
    <3> QED
      BY <1>1, <2>1, <2>2, <3>1, <3>2, <3>3 DEF ReviewInv, ReviewKnown, Unnoticed
  <2>7. CASE Review!Verify
    <3>1. dispatch.pc = "verify" /\ Review!Verified /\ dispatch' = [dispatch EXCEPT !.pc = "post"]
      BY <2>3, <2>7 DEF Review!Verify, Review!Step, Review!RaiseError
    <3>2. /\ dispatch.model \in Models /\ Unnoticed(dispatch)
          /\ dispatch.thread # 0 =>
               dispatch.thread \in DOMAIN rollouts /\ rollouts[dispatch.thread] = dispatch.model
      BY <3>1 DEF ReviewInv, ReviewKnown
    <3>3. dispatch.model = slots[dispatch.slot].model
      <4>1. CASE Review!Config.harness = "claude"
        BY <3>1, <3>2, <4>1 DEF Review!Verified, Review!verify_claude_response, Review!Config
      <4>2. CASE Review!Config.harness # "claude"
        <5>1. {rollouts[i] : i \in Review!_rollout_for_thread} = {Review!Config.model}
          BY <3>1, <4>2 DEF Review!Verified, Review!verify_codex_response
        <5>2. dispatch.thread \in DOMAIN rollouts /\ dispatch.thread # 0
          <6>1. PICK i \in Review!_rollout_for_thread : TRUE
            BY <5>1
          <6>2. i \in 1 .. Len(rollouts) /\ i = dispatch.thread /\ Len(rollouts) \in Nat
            BY <6>1 DEF Review!_rollout_for_thread, ReviewInv, ReviewTyped
          <6> QED
            BY <6>2 DEF ReviewInv, ReviewTyped
        <5> QED
          BY <3>2, <5>1, <5>2 DEF Review!_rollout_for_thread, Review!Config
      <4> QED
        BY <4>1, <4>2
    <3> QED
      BY <1>1, <2>1, <2>2, <3>1, <3>2, <3>3 DEF ReviewKnown, Unnoticed, Dispatches
  <2> QED
    BY <1>4, <2>4, <2>5, <2>6, <2>7 DEF Review!dispatch_reviews, Review!NoCall
<1> QED
  BY <1>3, <1>4 DEF Review!CheckHead, Review!ReadStatus, Review!CheckAfter, Review!Verify

(* The reviewer's subprocess, and the agent's own rollouts beside its.        *)
LEMMA RunsKeepReview ==
  ASSUME ReviewInv, NEW m \in Models,
         \/ Review!OwnRollout(m)
         \/ \E d \in Defects : Review!Run(m, d)
  PROVE  ReviewInv'
<1>1. /\ UNCHANGED <<slots, round, posted, artifacts, verdict>>
      /\ rollouts' \in {rollouts, Append(rollouts, m)}
      /\ dispatch \in Dispatches /\ Review!resolve_reviewers
      /\ dispatch.commit <= checkout.head
  <2>1. /\ UNCHANGED <<slots, round, posted, artifacts, verdict>>
        /\ rollouts' \in {rollouts, Append(rollouts, m)} /\ dispatch.pc # "idle"
    <3>1. CASE Review!OwnRollout(m)
      BY <3>1 DEF Review!OwnRollout
    <3>2. ASSUME NEW d \in Defects, Review!Run(m, d)
          PROVE  /\ UNCHANGED <<slots, round, posted, artifacts, verdict>>
                 /\ rollouts' \in {rollouts, Append(rollouts, m)} /\ dispatch.pc # "idle"
      BY <3>2 DEF Review!Run
    <3> QED
      BY <3>1, <3>2
  <2> QED
    BY <2>1 DEF ReviewInv, ReviewTyped, ReviewKnown, Review!NoCall
<1>2. /\ rollouts' \in Seq(Models)
      /\ \A i \in DOMAIN rollouts : i \in DOMAIN rollouts' /\ rollouts'[i] = rollouts[i]
      /\ rollouts' # rollouts =>
           Len(rollouts') \in DOMAIN rollouts' /\ rollouts'[Len(rollouts')] = m /\ Len(rollouts') # 0
  <2>1. rollouts \in Seq(Models) /\ Len(rollouts) \in Nat
    BY DEF ReviewInv, ReviewTyped
  <2>2. CASE rollouts' = rollouts
    BY <2>1, <2>2
  <2>3. CASE rollouts' = Append(rollouts, m)
    <3>1. /\ rollouts' \in Seq(Models) /\ Len(rollouts') = Len(rollouts) + 1
          /\ rollouts'[Len(rollouts) + 1] = m
          /\ \A i \in 1 .. Len(rollouts) : rollouts'[i] = rollouts[i]
      BY <2>1, <2>3
    <3>2. DOMAIN rollouts = 1 .. Len(rollouts) /\ DOMAIN rollouts' = 1 .. Len(rollouts')
      BY <2>1, <3>1
    <3> QED
      BY <2>1, <3>1, <3>2
  <2> QED
    BY <1>1, <2>2, <2>3
<1>3. Review!resolve_reviewers'
  BY <1>1 DEF Review!resolve_reviewers, Review!parse_reviewer_config
<1>4. ReviewTyped' /\ ReviewKnown'
  <2>1. CASE Review!OwnRollout(m)
    BY <1>1, <1>2, <1>3, <2>1
    DEF ReviewInv, ReviewTyped, ReviewKnown, Review!OwnRollout, Review!Pay, Dispatches
  <2>2. ASSUME NEW d \in Defects, Review!Run(m, d)
        PROVE  ReviewTyped' /\ ReviewKnown'
    <3>1. /\ checkout' \in Checkouts /\ checkout \in Checkouts
          /\ checkout'.head >= checkout.head
          /\ \/ checkout' = checkout /\ dispatch' = Review!Answered(m, d, {})
             \/ /\ Alters(checkout, checkout')
                /\ dispatch' = Review!Answered(m, d, {Review!How(checkout')})
      <4>1. checkout \in Checkouts /\ checkout.head \in Nat
        BY DEF ReviewInv, ReviewTyped, Checkouts
      <4>2. CASE UNCHANGED checkout /\ dispatch' = Review!Answered(m, d, {})
        BY <4>1, <4>2
      <4>3. CASE /\ checkout' \in Review!Edited
                 /\ dispatch' = Review!Answered(m, d, {Review!How(checkout')})
        BY <4>1, <4>3, EditsMove
      <4>4. CASE /\ checkout' = [checkout EXCEPT !.head = @ + 1]
                 /\ dispatch' = Review!Answered(m, d, {Review!How(checkout')})
        BY <4>1, <4>4 DEF Checkouts, Alters
      <4> QED
        BY <2>2, <4>2, <4>3, <4>4 DEF Review!Run
    <3>2. dispatch.pc = "run" /\ Watched(dispatch, checkout)
      BY <2>2 DEF Review!Run, ReviewInv, ReviewKnown
    <3>3. PICK more \in {{}, {Review!How(checkout')}} :
            /\ dispatch' = [dispatch EXCEPT !.pc = "after", !.model = m, !.defect = d,
                                            !.thread = dispatch'.thread,
                                            !.touched = @ \cup more]
            /\ dispatch'.touched = dispatch.touched \cup more
            /\ \/ checkout' = checkout /\ more = {}
               \/ Alters(checkout, checkout') /\ more = {Review!How(checkout')}
      BY <1>1, <3>1 DEF Review!Answered, Dispatches
    <3>4. /\ dispatch'.thread \in Nat
          /\ dispatch'.thread # 0 =>
               dispatch'.thread \in DOMAIN rollouts' /\ rollouts'[dispatch'.thread] = m
      <4>1. CASE Review!Kept(d)
        <5>1. rollouts' = Append(rollouts, m) /\ dispatch'.thread = Len(rollouts')
          BY <1>1, <2>2, <3>1, <4>1 DEF Review!Run, Review!Answered, Dispatches
        <5>2. rollouts \in Seq(Models) /\ Len(rollouts) \in Nat
          BY DEF ReviewInv, ReviewTyped
        <5>3. Len(rollouts') = Len(rollouts) + 1 /\ rollouts' # rollouts
          BY <5>1, <5>2
        <5> QED
          BY <1>2, <5>1, <5>2, <5>3
      <4>2. CASE ~Review!Kept(d)
        <5>1. ASSUME NEW extra, dispatch' = Review!Answered(m, d, extra)
              PROVE  dispatch'.thread = 0
          BY <1>1, <4>2, <5>1 DEF Review!Answered, Dispatches
        <5> QED
          BY <3>1, <5>1
      <4> QED
        BY <4>1, <4>2
    <3>5. dispatch' \in Dispatches
      BY <1>1, <3>3, <3>4 DEF Dispatches, Review!How
    <3>6. ReviewTyped'
      BY <1>1, <1>2, <3>1, <3>5 DEF ReviewInv, ReviewTyped, Checkouts
    <3>7. ReviewKnown'
      <4>1. /\ dispatch'.pc = "after" /\ dispatch'.commit = dispatch.commit
            /\ dispatch'.files = dispatch.files /\ dispatch'.model = m
        BY <1>1, <3>3 DEF Dispatches
      <4>2. dispatch.commit <= checkout'.head /\ dispatch.commit <= checkout.head
        BY <1>1, <3>1 DEF ReviewInv, ReviewTyped, Dispatches, Checkouts
      <4>3. Watched(dispatch', checkout')
        <5>1. CASE checkout' = checkout /\ dispatch'.touched = dispatch.touched
          BY <3>2, <4>1, <5>1 DEF Watched
        <5>2. CASE /\ Alters(checkout, checkout')
                   /\ dispatch'.touched = dispatch.touched \cup {Review!How(checkout')}
          BY <1>1, <3>1, <3>2, <3>5, <4>1, <4>2, <5>2, TouchIsWatched DEF Review!How
        <5> QED
          BY <3>3, <5>1, <5>2
      <4> QED
        BY <1>3, <3>4, <4>1, <4>2, <4>3 DEF ReviewKnown
    <3> QED
      BY <3>6, <3>7
  <2> QED
    BY <2>1, <2>2
<1> QED
  BY <1>1, <1>4 DEF ReviewInv, Review!PostedUnderOwnName, Review!PostedOfOneCheckout,
     Review!NothingHalfConfigured, Review!resolve_reviewers, Review!parse_reviewer_config

(* What is so of the checkout of every comment.                               *)
Settled(comment) == comment.touched \subseteq IF comment.clean THEN {} ELSE {"unseen"}

(* The publication of a verified review, made, half made or failed.           *)
LEMMA PostsKeepReview ==
  ASSUME ReviewInv, Review!post_comment \/ Review!publish_artifact
  PROVE  ReviewInv'
<1>1. /\ UNCHANGED <<slots, checkout, round, rollouts, verdict>>
      /\ dispatch \in Dispatches /\ Review!resolve_reviewers
      /\ dispatch.commit <= checkout.head /\ dispatch.pc \in {"post", "artifact"}
      /\ Unnoticed(dispatch) /\ dispatch.model = slots[dispatch.slot].model
  BY DEF ReviewInv, ReviewTyped, ReviewKnown, Review!post_comment, Review!publish_artifact,
     Review!NoCall
<1>2. Review!resolve_reviewers'
  BY <1>1 DEF Review!resolve_reviewers, Review!parse_reviewer_config
<1>3. /\ Review!render_review_comment \in Comments
      /\ Review!render_review_comment.by = Review!render_review_comment.model
      /\ Settled(Review!render_review_comment)
  BY <1>1 DEF Review!render_review_comment, Comments, Dispatches, Review!Config, Unnoticed,
     Settled, Review!resolve_reviewers, Review!parse_reviewer_config
<1>4. /\ posted' \in Seq(Comments) /\ DOMAIN posted \subseteq DOMAIN posted'
      /\ artifacts' \subseteq DOMAIN posted'
      /\ \A i \in DOMAIN posted' : posted'[i].by = posted'[i].model /\ Settled(posted'[i])
      /\ posted' # <<>> \/ posted' = posted
  <2>1. CASE posted' = posted
    <3>1. artifacts' \subseteq artifacts \cup {Len(posted)} /\ (artifacts' = artifacts \/ posted # <<>>)
      BY DEF Review!post_comment, Review!publish_artifact, Review!LastComment, ReviewInv,
         ReviewKnown
    <3> QED
      BY <2>1, <3>1 DEF ReviewInv, ReviewTyped, Review!PostedUnderOwnName,
         Review!PostedOfOneCheckout, Settled
  <2>2. CASE posted' = Append(posted, Review!render_review_comment) /\ artifacts' = artifacts
    BY <1>3, <2>2 DEF ReviewInv, ReviewTyped, Review!PostedUnderOwnName,
       Review!PostedOfOneCheckout, Settled
  <2> QED
    BY <2>1, <2>2 DEF Review!post_comment, Review!publish_artifact
<1>5. dispatch' = Review!NoCall \/ dispatch' \in Dispatches
  <2>1. \/ dispatch' = Review!NoCall
        \/ dispatch' = [dispatch EXCEPT !.pc = "artifact"]
        \/ dispatch' = [dispatch EXCEPT !.pc = "head", !.slot = 2]
    BY DEF Review!post_comment, Review!publish_artifact, Review!Step, Review!RaiseError
  <2>2. [dispatch EXCEPT !.pc = "artifact"] \in Dispatches
    BY <1>1 DEF Dispatches
  <2>3. [dispatch EXCEPT !.pc = "head", !.slot = 2] \in Dispatches
    <3>1. [dispatch EXCEPT !.slot = 2] \in Dispatches
      BY <1>1 DEF Dispatches
    <3>2. [[dispatch EXCEPT !.slot = 2] EXCEPT !.pc = "head"] \in Dispatches
      BY <3>1 DEF Dispatches
    <3>3. [dispatch EXCEPT !.pc = "head", !.slot = 2]
            = [[dispatch EXCEPT !.slot = 2] EXCEPT !.pc = "head"]
      BY <1>1 DEF Dispatches
    <3> QED
      BY <3>2, <3>3
  <2> QED
    BY <2>1, <2>2, <2>3
<1>6. ReviewTyped'
  BY <1>1, <1>4, <1>5 DEF ReviewInv, ReviewTyped
<1>7. ReviewKnown'
  <2>1. CASE dispatch' = Review!NoCall
    BY <2>1 DEF ReviewKnown, Review!NoCall
  <2>2. CASE dispatch' = [dispatch EXCEPT !.pc = "artifact"] /\ posted' # <<>>
    BY <1>1, <1>2, <2>2 DEF ReviewKnown, Unnoticed, Dispatches
  <2>3. CASE dispatch' = [dispatch EXCEPT !.pc = "head", !.slot = 2]
    BY <1>1, <1>2, <2>3 DEF ReviewKnown, Dispatches
  <2> QED
    BY <2>1, <2>2, <2>3 DEF Review!post_comment, Review!publish_artifact, Review!Step,
       Review!RaiseError, ReviewInv, ReviewTyped
<1> QED
  BY <1>1, <1>4, <1>6, <1>7 DEF ReviewInv, Review!PostedUnderOwnName, Review!PostedOfOneCheckout, Settled,
     Review!NothingHalfConfigured, Review!resolve_reviewers, Review!parse_reviewer_config

(* The gate.                                                                  *)
LEMMA GateKeepsReview ==
  ASSUME ReviewInv, NEW i \in DOMAIN posted, NEW j \in DOMAIN posted,
         NEW c \in 1 .. checkout.head, NEW n \in 1 .. round,
         Review!complete_review_stage(<<i, j>>, c, n)
  PROVE  ReviewInv'
<1>1. UNCHANGED <<slots, checkout, round, dispatch, rollouts, posted, artifacts>>
  BY DEF Review!complete_review_stage
<1>2. verdict' = [commit |-> c, round |-> n]
  BY DEF Review!complete_review_stage
<1> QED
  BY <1>1, <1>2 DEF ReviewInv, ReviewTyped, Checkouts, ReviewKnown, Review!resolve_reviewers,
     Review!parse_reviewer_config, Review!PostedUnderOwnName, Review!PostedOfOneCheckout,
     Review!NothingHalfConfigured

LEMMA ReviewKeeps == ReviewInv /\ Review!Next => ReviewInv'
<1> SUFFICES ASSUME ReviewInv, Review!Next PROVE ReviewInv'
  OBVIOUS
<1>1. ASSUME NEW i \in DOMAIN posted, NEW j \in DOMAIN posted,
             NEW c \in 1 .. checkout.head, NEW n \in 1 .. round,
             Review!complete_review_stage(<<i, j>>, c, n)
      PROVE  ReviewInv'
  BY <1>1, GateKeepsReview
<1>2. CASE Review!Edit \/ Review!Commit
  BY <1>2, AgentKeepsReview
<1>3. CASE \/ \E c \in 1 .. checkout.head, n \in 1 .. round : Review!dispatch_reviews(c, n)
           \/ Review!CheckHead \/ Review!ReadStatus \/ Review!CheckAfter \/ Review!Verify
  BY <1>3, ChecksKeepReview
<1>4. CASE Review!post_comment \/ Review!publish_artifact
  BY <1>4, PostsKeepReview
<1>5. CASE \E m \in Models : Review!OwnRollout(m) \/ (\E d \in Defects : Review!Run(m, d))
  BY <1>5, RunsKeepReview
<1>6. CASE \E i, j \in DOMAIN posted, c \in 1 .. checkout.head, n \in 1 .. round :
             i # j /\ Review!complete_review_stage(<<i, j>>, c, n)
  BY <1>1, <1>6
<1> QED
  BY <1>2, <1>3, <1>4, <1>5, <1>6 DEF Review!Next

(* A completed stage has a review of each slot's own model of the commit and   *)
(* the round it was completed for.                                            *)
CompletedTrue ==
  verdict' # verdict =>
    \A k \in 1 .. 2 : \E i \in DOMAIN posted :
       /\ posted[i].by = slots[k].model /\ posted[i].harness = slots[k].harness
       /\ posted[i].commit = verdict'.commit /\ posted[i].round = verdict'.round
       /\ posted[i].outcome

(* The gate lets through what both slots' own models said of one commit in    *)
(* one round.                                                                 *)
LEMMA CompletedTruly ==
  ASSUME ReviewInv, Review!Next
  PROVE  CompletedTrue
<1> SUFFICES ASSUME verdict' # verdict PROVE CompletedTrue
  BY DEF CompletedTrue
<1>1. PICK i \in DOMAIN posted, j \in DOMAIN posted, c \in 1 .. checkout.head, n \in 1 .. round :
        Review!complete_review_stage(<<i, j>>, c, n)
  BY DEF Review!Next, Review!Edit, Review!Commit, Review!CheckHead, Review!ReadStatus,
     Review!CheckAfter, Review!Verify, Review!post_comment, Review!publish_artifact,
     Review!dispatch_reviews, Review!OwnRollout, Review!Run, Review!Files
<1>2. /\ Review!Matches(posted[i], 1, c, n) /\ Review!Matches(posted[j], 2, c, n)
      /\ verdict' = [commit |-> c, round |-> n]
  BY <1>1 DEF Review!complete_review_stage, Review!validate_review_gate
<1> QED
  BY <1>2 DEF CompletedTrue, Review!Matches, ReviewInv, Review!PostedUnderOwnName,
     Review!PostedOfOneCheckout

(* The book plays a review or leaves it alone.                                *)
LEMMA BookKeepsReview ==
  ASSUME ReviewInv, [BookNext]_vars
  PROVE  ReviewInv' /\ [CompletedTrue]_(Review!reviewVars)
<1>1. CASE Review!Next
  BY <1>1, ReviewKeeps, CompletedTruly DEF CompletedTrue
<1>2. CASE UNCHANGED reviewVars
  BY <1>2, ReviewRests DEF reviewVars, Review!reviewVars
<1> QED
  BY <1>1, <1>2 DEF BookNext, vars, Review!reviewVars, reviewVars

(* What the invariant says of types.                                          *)
LEMMA ReviewIsTyped == ReviewInv => Review!TypeOK
<1> SUFFICES ASSUME ReviewInv PROVE Review!TypeOK
  OBVIOUS
<1>1. ReviewTyped
  BY DEF ReviewInv
<1>2. \A i \in DOMAIN posted : posted[i] \in Comments
  BY <1>1 DEF ReviewTyped
<1>3. \A i \in DOMAIN posted : posted[i].model \in Models /\ posted[i].by \in Models
  BY <1>2 DEF Comments
<1>4. dispatch.pc \in {"idle", "head", "status", "run", "after", "verify", "post", "artifact"}
  BY <1>1 DEF ReviewTyped, Dispatches, Review!NoCall
<1> QED
  BY <1>1, <1>3, <1>4 DEF ReviewTyped, Checkouts, Review!TypeOK

(* However the agent edits, commits and repeats dispatches that fail, what is *)
(* posted is of the model that wrote it and of a checkout in which nobody     *)
(* touched more than files already listed as changed, and a stage is completed *)
(* only by each slot's own review of the commit and the round the agent       *)
(* completes it for (container/reviewers.py).                                 *)
THEOREM ReviewIsSound == Spec => RoundIsSound
<1>1. BookInit => ReviewInv
  BY ReviewStarts DEF BookInit
<1>2. ReviewInv /\ [BookNext]_vars => ReviewInv' /\ [CompletedTrue]_(Review!reviewVars)
  BY BookKeepsReview
<1>3. ReviewInv => /\ Review!TypeOK /\ Review!PostedUnderOwnName /\ Review!PostedOfOneCheckout
                   /\ Review!NothingHalfConfigured
  BY ReviewIsTyped DEF ReviewInv
<1> QED
  BY <1>1, <1>2, <1>3, PTL DEF Spec, RoundIsSound, Review!RoundIsSound,
     Review!CompletedByBothReviews, CompletedTrue

-----------------------------------------------------------------------------
(* Starts of the stack *)

Early     == {"look", "unauthenticated", "publish", "load", "resolve", "guard", "refused"}
Launching == {"service?", "service!", "runner?", "runner!", "identity", "runners"}
Starts    == [pc : Stack!Ended \cup Early \cup {"operator", "migrate", "upgrade"} \cup Launching,
              launch : Launches \cup {Nil}, auth : Starters \cup {Nil},
              instance : Runtimes \cup {Nil}, absent : BOOLEAN, schema : 0 .. 2]
Plays     == [launches : SUBSET Launches, together : BOOLEAN, starts : Nat, faults : Nat,
              stops : Nat]

StackTyped ==
  /\ disk \in Disks /\ installed \in 1 .. 2 /\ docker \in BOOLEAN /\ containers \in BOOLEAN
  /\ service = Nil \/ (service \in Sessions /\ service.version <= installed)
  /\ runner = Nil \/ (runner \in Sessions /\ runner.version <= installed)
  /\ starter \in [Starters -> Starts] /\ scene \in Plays

(* What a start knows at each of its steps. Its own steps are few, and the    *)
(* others' come in between: a token it has loaded is the one on disk; one it  *)
(* is to save, or a schema it is to change, is no service's yet, unless a     *)
(* start of the same launch has done the same already.                        *)
StarterOK(n) ==
  /\ n.auth \in {Nil, disk.auth}
  /\ n.pc \notin Stack!Ended => n.launch \in Launches
  /\ n.pc \notin Stack!Ended \cup (Early \ {"resolve", "guard", "refused"})
       /\ n.launch.mode # "disabled" => disk.auth \in Starters
  /\ n.pc \in Early => ~n.absent
  /\ n.pc = "operator" /\ n.absent /\ n.launch.operator # Nil /\ disk.operator = Nil
       => service = Nil
  /\ n.pc \in {"migrate", "upgrade"} \cup Launching /\ n.launch.operator # Nil
       => disk.operator # Nil
  /\ n.pc \in {"migrate", "upgrade"} => n.absent
  /\ n.pc = "upgrade" => disk.home # Nil
  /\ ~scene.together /\ n.pc \in {"operator", "migrate", "upgrade"} /\ n.absent => service = Nil
  /\ scene.together /\ (n.pc \in Launching \/ (n.pc = "operator" /\ ~n.absent))
       => disk.home # Nil /\ disk.home.version = installed

Under(n) == n.pc \notin Stack!Ended

Overlap == \A s, t \in Starters : s # t /\ Under(starter[s]) /\ Under(starter[t])
             => scene.together /\ starter[s].launch = starter[t].launch

SessionsOK ==
  /\ service # Nil => service.auth \in {"off", disk.auth}
  /\ runner # Nil => runner.auth \in {"off", disk.auth} /\ (runner.enforced => disk.auth \in Starters)
  /\ Stack!OperatorIsKnown /\ Stack!LegacyTasksCome
  /\ disk.home # Nil => disk.legacy = Nil
  /\ scene.together /\ service # Nil => disk.home # Nil /\ disk.home.version = installed

StackInv == StackTyped /\ (\A s \in Starters : StarterOK(starter[s])) /\ Overlap /\ SessionsOK

(* The stack starts with the invariant.                                       *)
LEMMA StackStarts == Stack!Init => StackInv
<1> SUFFICES ASSUME Stack!Init PROVE StackInv
  OBVIOUS
<1>1. PICK sc \in Scenes :
        /\ disk = sc.disk /\ installed = sc.installed /\ service = sc.service
        /\ scene = [launches |-> sc.launches, together |-> sc.together, starts |-> sc.starts,
                    faults |-> sc.faults, stops |-> sc.stops]
  BY DEF Stack!Init
<1>2. /\ docker = TRUE /\ runner = Nil /\ containers = FALSE
      /\ starter = [s \in Starters |-> Stack!Idle]
  BY DEF Stack!Init
<1>3. Stack!Idle \in Starts /\ Stack!Idle.pc = "idle" /\ Stack!Idle.auth = Nil
  BY DEF Stack!Idle, Starts, Stack!Ended
<1>4. StackTyped
  <2>1. scene \in Plays
    BY <1>1, ScenesAssumption DEF ScenesAdmitted, Plays
  <2>2. starter \in [Starters -> Starts]
    BY <1>2, <1>3
  <2>3. disk \in Disks /\ installed \in 1 .. 2
    BY <1>1, ScenesAssumption DEF ScenesAdmitted
  <2>4. service = Nil \/ (service \in Sessions /\ service.version <= installed)
    BY <1>1, ScenesAssumption DEF ScenesAdmitted
  <2> QED
    BY <1>2, <2>1, <2>2, <2>3, <2>4 DEF StackTyped
<1>5. \A s \in Starters : StarterOK(starter[s]) /\ ~Under(starter[s])
  BY <1>2, <1>3 DEF StarterOK, Under, Stack!Ended, Early, Launching
<1>6. SessionsOK
  BY <1>1, <1>2, ScenesAssumption DEF ScenesAdmitted, SessionsOK, Stack!OperatorIsKnown,
     Stack!LegacyTasksCome, Stack!Listening
<1> QED
  BY <1>4, <1>5, <1>6 DEF StackInv, Overlap

(* What leaves the stack alone keeps it.                                      *)
LEMMA StackRests == StackInv /\ UNCHANGED stackVars => StackInv'
  BY DEF stackVars, StackInv, StackTyped, StarterOK, Overlap, Under, SessionsOK,
     Stack!OperatorIsKnown, Stack!LegacyTasksCome, Stack!Listening

-----------------------------------------------------------------------------
(* A start's step *)

(* The fields a step sets.                                                    *)
LEMMA SetsFields ==
  ASSUME starter \in [Starters -> Starts], NEW s \in Starters, NEW f, Stack!Set(s, f)
  PROVE  starter' = [starter EXCEPT ![s] =
           [g \in {"pc", "launch", "auth", "instance", "absent", "schema"} |->
              IF g \in DOMAIN f THEN f[g] ELSE starter[s][g]]]
BY DEF Stack!Set, Starts

LEMMA SetsPlace ==
  ASSUME starter \in [Starters -> Starts], NEW s \in Starters, NEW p, Stack!Goto(s, p)
  PROVE  starter' = [starter EXCEPT ![s] = [starter[s] EXCEPT !.pc = p]]
<1>1. starter[s] \in Starts
  OBVIOUS
<1> QED
  BY <1>1, SetsFields DEF Stack!Goto, Starts

LEMMA Sets_auth ==
  ASSUME starter \in [Starters -> Starts], NEW s \in Starters, NEW f,
         Stack!Set(s, f), DOMAIN f = {"pc", "auth"}
  PROVE  starter' = [starter EXCEPT ![s] = [starter[s] EXCEPT !.pc = f["pc"], !.auth = f["auth"]]]
<1> DEFINE m == [g \in {"pc", "launch", "auth", "instance", "absent", "schema"} |->
                   IF g \in DOMAIN f THEN f[g] ELSE starter[s][g]]
           n == [starter[s] EXCEPT !.pc = f["pc"], !.auth = f["auth"]]
<1>1. starter[s] \in Starts
  OBVIOUS
<1>2. DOMAIN n = {"pc", "launch", "auth", "instance", "absent", "schema"} /\ DOMAIN m = DOMAIN n
  BY <1>1 DEF Starts
<1>3. ASSUME NEW g \in DOMAIN n PROVE m[g] = n[g]
  <2>1. g \in {"pc", "launch", "auth", "instance", "absent", "schema"}
    BY <1>2
  <2>2. CASE g = "pc"
    BY <1>1, <2>2 DEF Starts
  <2>3. CASE g = "auth"
    BY <1>1, <2>3 DEF Starts
  <2>4. CASE g \notin {"pc", "auth"}
    BY <1>1, <2>1, <2>4 DEF Starts
  <2> QED
    BY <2>2, <2>3, <2>4
<1>4. m = n
  BY <1>2, <1>3
<1> QED
  BY <1>4, SetsFields

LEMMA Sets_instance ==
  ASSUME starter \in [Starters -> Starts], NEW s \in Starters, NEW f,
         Stack!Set(s, f), DOMAIN f = {"pc", "instance"}
  PROVE  starter' = [starter EXCEPT ![s] = [starter[s] EXCEPT !.pc = f["pc"], !.instance = f["instance"]]]
<1> DEFINE m == [g \in {"pc", "launch", "auth", "instance", "absent", "schema"} |->
                   IF g \in DOMAIN f THEN f[g] ELSE starter[s][g]]
           n == [starter[s] EXCEPT !.pc = f["pc"], !.instance = f["instance"]]
<1>1. starter[s] \in Starts
  OBVIOUS
<1>2. DOMAIN n = {"pc", "launch", "auth", "instance", "absent", "schema"} /\ DOMAIN m = DOMAIN n
  BY <1>1 DEF Starts
<1>3. ASSUME NEW g \in DOMAIN n PROVE m[g] = n[g]
  <2>1. g \in {"pc", "launch", "auth", "instance", "absent", "schema"}
    BY <1>2
  <2>2. CASE g = "pc"
    BY <1>1, <2>2 DEF Starts
  <2>3. CASE g = "instance"
    BY <1>1, <2>3 DEF Starts
  <2>4. CASE g \notin {"pc", "instance"}
    BY <1>1, <2>1, <2>4 DEF Starts
  <2> QED
    BY <2>2, <2>3, <2>4
<1>4. m = n
  BY <1>2, <1>3
<1> QED
  BY <1>4, SetsFields

LEMMA Sets_absent ==
  ASSUME starter \in [Starters -> Starts], NEW s \in Starters, NEW f,
         Stack!Set(s, f), DOMAIN f = {"pc", "absent"}
  PROVE  starter' = [starter EXCEPT ![s] = [starter[s] EXCEPT !.pc = f["pc"], !.absent = f["absent"]]]
<1> DEFINE m == [g \in {"pc", "launch", "auth", "instance", "absent", "schema"} |->
                   IF g \in DOMAIN f THEN f[g] ELSE starter[s][g]]
           n == [starter[s] EXCEPT !.pc = f["pc"], !.absent = f["absent"]]
<1>1. starter[s] \in Starts
  OBVIOUS
<1>2. DOMAIN n = {"pc", "launch", "auth", "instance", "absent", "schema"} /\ DOMAIN m = DOMAIN n
  BY <1>1 DEF Starts
<1>3. ASSUME NEW g \in DOMAIN n PROVE m[g] = n[g]
  <2>1. g \in {"pc", "launch", "auth", "instance", "absent", "schema"}
    BY <1>2
  <2>2. CASE g = "pc"
    BY <1>1, <2>2 DEF Starts
  <2>3. CASE g = "absent"
    BY <1>1, <2>3 DEF Starts
  <2>4. CASE g \notin {"pc", "absent"}
    BY <1>1, <2>1, <2>4 DEF Starts
  <2> QED
    BY <2>2, <2>3, <2>4
<1>4. m = n
  BY <1>2, <1>3
<1> QED
  BY <1>4, SetsFields

LEMMA Sets_schema ==
  ASSUME starter \in [Starters -> Starts], NEW s \in Starters, NEW f,
         Stack!Set(s, f), DOMAIN f = {"pc", "schema"}
  PROVE  starter' = [starter EXCEPT ![s] = [starter[s] EXCEPT !.pc = f["pc"], !.schema = f["schema"]]]
<1> DEFINE m == [g \in {"pc", "launch", "auth", "instance", "absent", "schema"} |->
                   IF g \in DOMAIN f THEN f[g] ELSE starter[s][g]]
           n == [starter[s] EXCEPT !.pc = f["pc"], !.schema = f["schema"]]
<1>1. starter[s] \in Starts
  OBVIOUS
<1>2. DOMAIN n = {"pc", "launch", "auth", "instance", "absent", "schema"} /\ DOMAIN m = DOMAIN n
  BY <1>1 DEF Starts
<1>3. ASSUME NEW g \in DOMAIN n PROVE m[g] = n[g]
  <2>1. g \in {"pc", "launch", "auth", "instance", "absent", "schema"}
    BY <1>2
  <2>2. CASE g = "pc"
    BY <1>1, <2>2 DEF Starts
  <2>3. CASE g = "schema"
    BY <1>1, <2>3 DEF Starts
  <2>4. CASE g \notin {"pc", "schema"}
    BY <1>1, <2>1, <2>4 DEF Starts
  <2> QED
    BY <2>2, <2>3, <2>4
<1>4. m = n
  BY <1>2, <1>3
<1> QED
  BY <1>4, SetsFields

(* A step of one start that changes nothing else keeps the invariant if the   *)
(* start knows what it should at the step it has come to.                     *)
LEMMA Moves ==
  ASSUME StackInv, NEW s \in Starters, NEW n \in Starts,
         starter' = [starter EXCEPT ![s] = n],
         n.launch = starter[s].launch, Under(starter[s]), StarterOK(n),
         UNCHANGED <<disk, installed, docker, service, runner, containers, scene>>
  PROVE  StackInv'
<1>1. StackTyped'
  BY DEF StackInv, StackTyped
<1>2. starter'[s] = n /\ \A t \in Starters \ {s} : starter'[t] = starter[t]
  BY DEF StackInv, StackTyped
<1>3. \A t \in Starters : StarterOK(starter[t])'
  <2>1. ASSUME NEW t \in Starters PROVE StarterOK(starter[t])'
    <3>1. StarterOK(starter'[t])
      BY <1>2 DEF StackInv
    <3> QED
      BY <3>1 DEF StarterOK
  <2> QED
    BY <2>1
<1>4. Overlap'
  BY <1>2 DEF StackInv, Overlap, Under
<1>5. SessionsOK'
  BY DEF StackInv, SessionsOK, Stack!OperatorIsKnown, Stack!LegacyTasksCome, Stack!Listening
<1> QED
  BY <1>1, <1>3, <1>4, <1>5 DEF StackInv

(* A start may end at any time.                                               *)
LEMMA Ends ==
  ASSUME StackInv, NEW s \in Starters, NEW p \in {"failed", "ready"}, Stack!Goto(s, p),
         Under(starter[s]),
         UNCHANGED <<disk, installed, docker, service, runner, containers, scene>>
  PROVE  StackInv'
<1> DEFINE n == [starter[s] EXCEPT !.pc = p]
<1>1. starter[s] \in Starts /\ StarterOK(starter[s])
  BY DEF StackInv, StackTyped
<1>2. n \in Starts /\ n.launch = starter[s].launch /\ n.auth = starter[s].auth /\ n.pc = p
  BY <1>1 DEF Starts, Stack!Ended
<1>3. starter' = [starter EXCEPT ![s] = n]
  BY SetsPlace DEF StackInv, StackTyped
<1> HIDE DEF n
<1>4. StarterOK(n)
  BY <1>1, <1>2 DEF StarterOK, Stack!Ended, Early, Launching
<1> QED
  BY <1>2, <1>3, <1>4, Moves

(* A start goes on to a step that asks no more of it than it knows.           *)
LEMMA GoesOn ==
  ASSUME StackInv, NEW s \in Starters, NEW n \in Starts,
         starter' = [starter EXCEPT ![s] = n],
         n.launch = starter[s].launch, n.auth = starter[s].auth, n.absent = starter[s].absent,
         UNCHANGED <<disk, installed, docker, service, runner, containers, scene>>,
         \/ starter[s].pc = "look" /\ n.pc \in {"unauthenticated", "load"}
         \/ starter[s].pc = "unauthenticated" /\ n.pc = "publish"
         \/ starter[s].pc = "resolve" /\ n.pc = "guard"
         \/ starter[s].pc = "guard" /\ n.pc = "refused"
         \/ starter[s].pc = "guard" /\ n.pc = "operator" /\ service # Nil
         \/ starter[s].pc \in Launching /\ n.pc \in Launching
  PROVE  StackInv'
<1>1. StarterOK(starter[s]) /\ SessionsOK
  BY DEF StackInv
<1>2. Under(starter[s])
  BY DEF Under, Stack!Ended, Launching
<1>3. CASE starter[s].pc \in Launching /\ n.pc \in Launching
  <2>1. StarterOK(n)
    BY <1>1, <1>3 DEF StarterOK, Stack!Ended, Early, Launching
  <2> QED
    BY <1>2, <2>1, Moves
<1>4. CASE starter[s].pc = "guard"
  <2>1. StarterOK(n)
    BY <1>1, <1>4 DEF StarterOK, SessionsOK, Stack!Ended, Early, Launching
  <2> QED
    BY <1>2, <2>1, Moves
<1>5. CASE starter[s].pc \in {"look", "unauthenticated", "resolve"}
  <2>1. StarterOK(n)
    BY <1>1, <1>5 DEF StarterOK, Stack!Ended, Early, Launching
  <2> QED
    BY <1>2, <2>1, Moves
<1> QED
  BY <1>3, <1>4, <1>5

(* The steps that only read.                                                  *)
LEMMA ReadsKeepStack ==
  ASSUME StackInv, NEW s \in Starters,
         \/ Stack!LookForCredential(s) \/ Stack!_ensure_integrated_auth(s) \/ Stack!load_tokens(s)
         \/ Stack!Resolve(s) \/ Stack!guard_before_migration(s)
         \/ Stack!integrated_service_session_exists(s) \/ Stack!wait_until_ready(s)
         \/ Stack!TimeOut(s)
  PROVE  StackInv'
<1>1. /\ starter \in [Starters -> Starts] /\ starter[s] \in Starts /\ StarterOK(starter[s])
      /\ disk \in Disks /\ SessionsOK
  BY DEF StackInv, StackTyped
<1>2. UNCHANGED <<disk, installed, docker, service, runner, containers, scene>>
  BY DEF Stack!LookForCredential, Stack!_ensure_integrated_auth, Stack!load_tokens, Stack!Resolve,
     Stack!guard_before_migration, Stack!integrated_service_session_exists,
     Stack!wait_until_ready, Stack!TimeOut
<1>3. starter[s].pc \in {"look", "unauthenticated", "load", "resolve", "guard", "refused",
                         "identity", "runners"}
  BY DEF Stack!LookForCredential, Stack!_ensure_integrated_auth, Stack!load_tokens, Stack!Resolve,
     Stack!guard_before_migration, Stack!integrated_service_session_exists,
     Stack!wait_until_ready, Stack!TimeOut, Stack!Bounded
<1>4. Under(starter[s])
  BY <1>3 DEF Under, Stack!Ended
<1>5. ASSUME NEW p \in {"failed", "ready"}, Stack!Goto(s, p)
      PROVE  StackInv'
  BY <1>2, <1>4, <1>5, Ends
<1>6. ASSUME NEW p \in Early \cup {"operator"} \cup Launching, Stack!Goto(s, p),
             \/ starter[s].pc = "look" /\ p \in {"unauthenticated", "load"}
             \/ starter[s].pc = "unauthenticated" /\ p = "publish"
             \/ starter[s].pc = "guard" /\ p = "refused"
             \/ starter[s].pc = "guard" /\ p = "operator" /\ service # Nil
             \/ starter[s].pc \in Launching /\ p \in Launching
      PROVE  StackInv'
  <2> DEFINE n == [starter[s] EXCEPT !.pc = p]
  <2>1. /\ n \in Starts /\ n.pc = p /\ n.launch = starter[s].launch /\ n.auth = starter[s].auth
        /\ n.absent = starter[s].absent
    BY <1>1 DEF Starts
  <2>2. starter' = [starter EXCEPT ![s] = n]
    BY <1>1, <1>6, SetsPlace
  <2> HIDE DEF n
  <2> QED
    BY <1>2, <1>6, <2>1, <2>2, GoesOn
<1>7. CASE Stack!LookForCredential(s)
  BY <1>6, <1>7 DEF Stack!LookForCredential, Early
<1>8. CASE Stack!_ensure_integrated_auth(s)
  BY <1>5, <1>6, <1>8 DEF Stack!_ensure_integrated_auth, Early
<1>9. CASE Stack!load_tokens(s)
  <2>1. CASE disk.auth \in Stack!InvalidCredentials
    <3>1. Stack!Set(s, [pc |-> "failed"])
      BY <1>9, <2>1 DEF Stack!load_tokens
    <3> QED
      BY <1>5, <3>1 DEF Stack!Goto
  <2>2. CASE disk.auth \notin Stack!InvalidCredentials
    <3> DEFINE n == [starter[s] EXCEPT !.pc = "resolve", !.auth = disk.auth]
    <3>1. disk.auth \in Starters
      BY <1>1, <2>2 DEF Disks, Stack!InvalidCredentials
    <3>2. n.pc = "resolve" /\ n.auth = disk.auth /\ n.launch = starter[s].launch
          /\ n.absent = starter[s].absent
      BY <1>1 DEF Starts
    <3>3. n \in Starts
      <4>1. [starter[s] EXCEPT !.auth = disk.auth] \in Starts
        BY <1>1, <3>1 DEF Starts
      <4>2. [[starter[s] EXCEPT !.auth = disk.auth] EXCEPT !.pc = "resolve"] \in Starts
        BY <4>1 DEF Starts, Early
      <4>3. n = [[starter[s] EXCEPT !.auth = disk.auth] EXCEPT !.pc = "resolve"]
        BY <1>1 DEF Starts
      <4> QED
        BY <4>2, <4>3
    <3>4. starter' = [starter EXCEPT ![s] = n]
      <4>1. PICK f : f = [pc |-> "resolve", auth |-> disk.auth]
        OBVIOUS
      <4>2. Stack!Set(s, f)
        BY <1>9, <2>2, <4>1 DEF Stack!load_tokens, Stack!Set
      <4>3. DOMAIN f = {"pc", "auth"} /\ f["pc"] = "resolve" /\ f["auth"] = disk.auth
        BY <4>1
      <4>4. starter \in [Starters -> Starts]
        BY <1>1
      <4> QED
        BY <4>2, <4>3, <4>4, Sets_auth
    <3>5. StarterOK(n)
      <4> HIDE DEF n
      <4> QED
        BY <1>1, <1>9, <3>1, <3>2 DEF StarterOK, Stack!load_tokens, Stack!Ended, Early, Launching
    <3> HIDE DEF n
    <3> QED
      BY <1>2, <1>4, <3>2, <3>3, <3>4, <3>5, Moves
  <2> QED
    BY <2>1, <2>2
<1>10. CASE Stack!Resolve(s)
  <2> DEFINE i == Stack!resolve_runtime(starter[s].launch)
             n == [starter[s] EXCEPT !.pc = "guard", !.instance = i]
  <2>1. starter[s].launch \in Launches /\ starter[s].pc = "resolve"
    BY <1>1, <1>10 DEF StarterOK, Stack!Resolve, Stack!Ended
  <2>2. i \in Runtimes
    BY <2>1 DEF Stack!resolve_runtime, Launches, Runtimes
  <2> HIDE DEF i
  <2>3. /\ n.pc = "guard" /\ n.auth = starter[s].auth /\ n.launch = starter[s].launch
        /\ n.absent = starter[s].absent
    BY <1>1 DEF Starts
  <2>4. n \in Starts
    <3>1. [starter[s] EXCEPT !.instance = i] \in Starts
      BY <1>1, <2>2 DEF Starts
    <3>2. [[starter[s] EXCEPT !.instance = i] EXCEPT !.pc = "guard"] \in Starts
      BY <3>1 DEF Starts, Early
    <3>3. n = [[starter[s] EXCEPT !.instance = i] EXCEPT !.pc = "guard"]
      BY <1>1 DEF Starts
    <3> QED
      BY <3>2, <3>3
  <2>5. starter' = [starter EXCEPT ![s] = n]
    <3>1. PICK f : f = [pc |-> "guard", instance |-> i]
      OBVIOUS
    <3>2. Stack!Set(s, f)
      BY <1>10, <3>1 DEF Stack!Resolve, Stack!Set, i
    <3>3. DOMAIN f = {"pc", "instance"} /\ f["pc"] = "guard" /\ f["instance"] = i
      BY <3>1
    <3>4. starter \in [Starters -> Starts]
      BY <1>1
    <3> QED
      BY <3>2, <3>3, <3>4, Sets_instance
  <2> HIDE DEF n
  <2> QED
    BY <1>2, <2>1, <2>3, <2>4, <2>5, GoesOn
<1>11. CASE Stack!guard_before_migration(s)
  <2>1. starter[s].pc = "guard"
    BY <1>11 DEF Stack!guard_before_migration
  <2>2. CASE Stack!Goto(s, "refused")
    BY <1>6, <2>1, <2>2 DEF Early
  <2>3. CASE Stack!Goto(s, "operator") /\ service # Nil
    BY <1>6, <2>1, <2>3
  <2>4. CASE Stack!Goto(s, "failed")
    BY <1>5, <2>4
  <2> QED
    BY <1>11, <2>2, <2>3, <2>4 DEF Stack!guard_before_migration, Stack!Listening
<1>12. CASE Stack!integrated_service_session_exists(s)
  <2>1. starter[s].pc = "refused"
    BY <1>12 DEF Stack!integrated_service_session_exists
  <2>2. CASE service # Nil
    <3>1. Stack!Set(s, [pc |-> "failed"])
      BY <1>12, <2>2 DEF Stack!integrated_service_session_exists, Stack!SessionForbids
    <3> QED
      BY <1>5, <3>1 DEF Stack!Goto
  <2>3. CASE service = Nil
    <3> DEFINE n == [starter[s] EXCEPT !.pc = "operator", !.absent = TRUE]
    <3>1. /\ n.pc = "operator" /\ n.auth = starter[s].auth /\ n.launch = starter[s].launch
          /\ n.absent = TRUE
      BY <1>1 DEF Starts
    <3>2. n \in Starts
      <4>1. [starter[s] EXCEPT !.absent = TRUE] \in Starts
        BY <1>1 DEF Starts
      <4>2. [[starter[s] EXCEPT !.absent = TRUE] EXCEPT !.pc = "operator"] \in Starts
        BY <4>1 DEF Starts
      <4>3. n = [[starter[s] EXCEPT !.absent = TRUE] EXCEPT !.pc = "operator"]
        BY <1>1 DEF Starts
      <4> QED
        BY <4>2, <4>3
    <3>3. Stack!Set(s, [pc |-> "operator", absent |-> TRUE])
      BY <1>12, <2>3 DEF Stack!integrated_service_session_exists, Stack!SessionForbids
    <3>4. starter' = [starter EXCEPT ![s] = n]
      <4>1. PICK f : f = [pc |-> "operator", absent |-> TRUE]
        OBVIOUS
      <4>2. Stack!Set(s, f)
        BY <3>3, <4>1
      <4>3. DOMAIN f = {"pc", "absent"} /\ f["pc"] = "operator" /\ f["absent"] = TRUE
        BY <4>1
      <4>4. starter \in [Starters -> Starts]
        BY <1>1
      <4> QED
        BY <4>2, <4>3, <4>4, Sets_absent
    <3> HIDE DEF n
    <3>5. StarterOK(n)
      BY <1>1, <2>1, <2>3, <3>1 DEF StarterOK, Stack!Ended, Early, Launching
    <3> QED
      BY <1>2, <1>4, <3>1, <3>2, <3>4, <3>5, Moves
  <2> QED
    BY <2>2, <2>3
<1>13. CASE Stack!wait_until_ready(s)
  <2>1. starter[s].pc \in Launching
    BY <1>13 DEF Stack!wait_until_ready, Launching
  <2>2. \/ Stack!Goto(s, "failed") \/ Stack!Goto(s, "ready")
        \/ Stack!Goto(s, "runners") \/ Stack!Goto(s, "identity")
    BY <1>13 DEF Stack!wait_until_ready
  <2> QED
    BY <1>5, <1>6, <2>1, <2>2 DEF Launching
<1>14. CASE Stack!TimeOut(s)
  BY <1>5, <1>14 DEF Stack!TimeOut, Stack!Fail
<1> QED
  BY <1>7, <1>8, <1>9, <1>10, <1>11, <1>12, <1>13, <1>14

-----------------------------------------------------------------------------
(* The steps of a start that write *)

(* What no step of another takes back from a start.                           *)
LEMMA OthersKeepStart ==
  ASSUME NEW n \in Starts, StarterOK(n),
         installed' = installed, scene'.together = scene.together,
         service = Nil => service' = Nil,
         disk.auth # Nil => disk'.auth = disk.auth,
         n.auth = Nil \/ disk'.auth = disk.auth,
         disk.operator # Nil => disk'.operator # Nil,
         disk.home # Nil => disk'.home # Nil /\ disk'.home.version \in {disk.home.version, installed}
  PROVE  StarterOK(n)'
<1>1. Nil \notin Starters
  BY ScenesAssumption DEF ScenesAdmitted
<1> QED
  BY <1>1 DEF StarterOK

(* A start writes to disk and goes on.                                        *)
LEMMA WritesKeepStack ==
  ASSUME StackInv, NEW s \in Starters, NEW n \in Starts, Under(starter[s]),
         starter' = [starter EXCEPT ![s] = n], n.launch = starter[s].launch,
         UNCHANGED <<installed, docker, service, runner, containers, scene>>,
         disk' \in Disks, StarterOK(n)', SessionsOK',
         disk'.auth = disk.auth,
         disk.operator # Nil => disk'.operator # Nil,
         disk.home # Nil => disk'.home # Nil /\ disk'.home.version \in {disk.home.version, installed}
  PROVE  StackInv'
<1>1. starter'[s] = n /\ \A t \in Starters \ {s} : starter'[t] = starter[t]
  BY DEF StackInv, StackTyped
<1>2. \A t \in Starters : StarterOK(starter[t])'
  <2>1. ASSUME NEW t \in Starters PROVE StarterOK(starter[t])'
    <3>1. CASE t = s
      <4>1. starter'[t] = n
        BY <1>1, <3>1
      <4> QED
        BY <4>1 DEF StarterOK
    <3>2. CASE t # s
      <4>1. PICK m \in Starts : m = starter[t] /\ StarterOK(m)
        BY DEF StackInv, StackTyped
      <4>2. StarterOK(m)'
        BY <4>1, OthersKeepStart
      <4>3. starter'[t] = m
        BY <1>1, <3>2, <4>1
      <4> QED
        BY <4>2, <4>3 DEF StarterOK
    <3> QED
      BY <3>1, <3>2
  <2> QED
    BY <2>1
<1>3. StackTyped'
  BY DEF StackInv, StackTyped
<1>4. Overlap'
  BY <1>1 DEF StackInv, Overlap, Under
<1> QED
  BY <1>2, <1>3, <1>4 DEF StackInv

(* The credential is published: it was nobody's before.                       *)
LEMMA PublishKeepsStack ==
  ASSUME StackInv, NEW s \in Starters, Stack!ensure_bootstrap_credential(s)
  PROVE  StackInv'
<1>1. /\ starter \in [Starters -> Starts] /\ starter[s] \in Starts /\ StarterOK(starter[s])
      /\ disk \in Disks /\ SessionsOK /\ starter[s].pc = "publish"
      /\ service = Nil \/ service \in Sessions
      /\ runner = Nil \/ runner \in Sessions
  BY DEF StackInv, StackTyped, Stack!ensure_bootstrap_credential
<1>2. /\ UNCHANGED <<installed, docker, service, runner, containers, scene>>
      /\ Stack!Goto(s, "load") /\ disk' = Stack!Publish(s)
  BY DEF Stack!ensure_bootstrap_credential
<1>3. /\ disk' \in Disks /\ disk'.operator = disk.operator /\ disk'.home = disk.home
      /\ disk'.legacy = disk.legacy /\ disk'.auth = IF disk.auth = Nil THEN s ELSE disk.auth
  BY <1>1, <1>2 DEF Stack!Publish, Disks
<1> DEFINE n == [starter[s] EXCEPT !.pc = "load"]
<1>4. /\ n \in Starts /\ n.pc = "load" /\ n.launch = starter[s].launch
      /\ n.auth = starter[s].auth /\ n.absent = starter[s].absent
  BY <1>1 DEF Starts, Early
<1>5. starter' = [starter EXCEPT ![s] = n]
  BY <1>1, <1>2, SetsPlace
<1> HIDE DEF n
<1>6. starter'[s] = n /\ \A t \in Starters \ {s} : starter'[t] = starter[t]
  BY <1>1, <1>5
<1>7. ASSUME NEW m \in Starts, StarterOK(m) PROVE StarterOK(m)'
  <2>1. m.auth = Nil \/ disk'.auth = disk.auth
    BY <1>3, <1>7 DEF StarterOK
  <2> QED
    BY <1>2, <1>3, <1>7, <2>1, OthersKeepStart
<1>8. StarterOK(n)
  BY <1>1, <1>4 DEF StarterOK, Stack!Ended, Early, Launching
<1>9. \A t \in Starters : StarterOK(starter[t])'
  <2>1. ASSUME NEW t \in Starters PROVE StarterOK(starter[t])'
    <3>1. PICK m \in Starts : m = starter'[t] /\ StarterOK(m)
      BY <1>1, <1>4, <1>6, <1>8 DEF StackInv, StackTyped
    <3>2. StarterOK(m)'
      BY <1>7, <3>1
    <3> QED
      BY <3>1, <3>2 DEF StarterOK
  <2> QED
    BY <2>1
<1>10. StackTyped'
  BY <1>2, <1>3, <1>4, <1>5 DEF StackInv, StackTyped
<1>11. Overlap'
  BY <1>1, <1>2, <1>4, <1>6 DEF StackInv, Overlap, Under, Stack!Ended
<1>12. SessionsOK'
  <2>1. Nil \notin Starters \cup {"off"}
    BY ScenesAssumption DEF ScenesAdmitted
  <2>2. service # Nil => service.auth \in Starters \cup {"off"}
    BY <1>1 DEF Sessions
  <2>3. runner # Nil => runner.auth \in Starters \cup {"off"}
    BY <1>1 DEF Sessions
  <2> QED
    BY <1>1, <1>2, <1>3, <2>1, <2>2, <2>3 DEF SessionsOK, Stack!OperatorIsKnown,
       Stack!LegacyTasksCome, Stack!Listening
<1> QED
  BY <1>9, <1>10, <1>11, <1>12 DEF StackInv

(* The operator's token is saved before the service that will read it.        *)
LEMMA TokenKeepsStack ==
  ASSUME StackInv, NEW s \in Starters, Stack!persist_operator_token(s)
  PROVE  StackInv'
<1>1. /\ starter \in [Starters -> Starts] /\ starter[s] \in Starts /\ StarterOK(starter[s])
      /\ disk \in Disks /\ SessionsOK /\ starter[s].pc = "operator"
  BY DEF StackInv, StackTyped, Stack!persist_operator_token
<1>2. /\ UNCHANGED <<installed, docker, service, runner, containers, scene>>
      /\ Under(starter[s]) /\ starter[s].launch \in Launches
  BY <1>1 DEF Stack!persist_operator_token, Under, Stack!Ended, StarterOK
<1>3. CASE Stack!OperatorRefused(s)
  <2>1. Stack!Goto(s, "failed") /\ UNCHANGED disk
    BY <1>3 DEF Stack!persist_operator_token, Stack!Fail
  <2> QED
    BY <1>2, <2>1, Ends
<1>4. CASE ~Stack!OperatorRefused(s)
  <2> DEFINE token == starter[s].launch.operator
             p == IF starter[s].absent THEN "migrate" ELSE "service?"
             n == [starter[s] EXCEPT !.pc = p]
  <2>1. /\ Stack!Goto(s, p)
        /\ disk' = [disk EXCEPT !.operator = IF token # Nil THEN token ELSE @]
    BY <1>4 DEF Stack!persist_operator_token
  <2>2. token \in OperatorTokens /\ p \in {"migrate", "service?"}
    BY <1>2 DEF Launches
  <2>3. /\ n \in Starts /\ n.pc = p /\ n.launch = starter[s].launch
        /\ n.auth = starter[s].auth /\ n.absent = starter[s].absent
    BY <1>1, <2>2 DEF Starts, Launching
  <2>4. starter' = [starter EXCEPT ![s] = n]
    BY <1>1, <2>1, SetsPlace
  <2>5. /\ disk' \in Disks /\ disk'.auth = disk.auth /\ disk'.home = disk.home
        /\ disk'.legacy = disk.legacy
        /\ disk'.operator = IF token # Nil THEN token ELSE disk.operator
    BY <1>1, <2>1, <2>2 DEF Disks
  <2>6. token # Nil => IF disk.operator # Nil THEN disk.operator = token ELSE starter[s].absent
    BY <1>4 DEF Stack!OperatorRefused
  <2>7. p = IF starter[s].absent THEN "migrate" ELSE "service?"
    OBVIOUS
  <2> HIDE DEF p
  <2>8. PICK m \in Starts : m = n
    BY <2>3
  <2> HIDE DEF n
  <2>9. StarterOK(m)'
    BY <1>1, <1>2, <2>2, <2>3, <2>5, <2>7, <2>8 DEF StarterOK, Stack!Ended, Early, Launching
  <2>10. SessionsOK'
    <3>1. service # Nil => disk'.operator = disk.operator
      BY <1>1, <2>5, <2>6 DEF StarterOK
    <3> QED
      BY <1>1, <1>2, <2>5, <3>1 DEF SessionsOK, Stack!OperatorIsKnown, Stack!LegacyTasksCome,
         Stack!Listening
  <2> HIDE DEF token
  <2> QED
    BY <1>2, <2>3, <2>4, <2>5, <2>8, <2>9, <2>10, WritesKeepStack
<1> QED
  BY <1>3, <1>4

(* The database of an earlier layout moves only where there is none, and a    *)
(* database is there whenever another start or a service relies on it.        *)
LEMMA SchemaIsRead ==
  ASSUME StackInv, NEW s \in Starters, Stack!_run_migrate(s)
  PROVE  StackInv' /\ (disk.home # Nil => disk'.home = disk.home)
<1>1. /\ starter \in [Starters -> Starts] /\ starter[s] \in Starts /\ StarterOK(starter[s])
      /\ disk \in Disks /\ SessionsOK /\ starter[s].pc = "migrate"
  BY DEF StackInv, StackTyped, Stack!_run_migrate
<1>2. /\ UNCHANGED <<installed, docker, service, runner, containers, scene>>
      /\ Under(starter[s])
  BY <1>1 DEF Stack!_run_migrate, Under, Stack!Ended
<1> DEFINE d == Stack!EnvMoves(disk)
           home == IF d.home = Nil THEN [version |-> 0, tasks |-> FALSE] ELSE d.home
<1>3. disk' = [d EXCEPT !.home = home] /\ Stack!Set(s, [pc |-> "upgrade", schema |-> home.version])
  BY DEF Stack!_run_migrate
<1>4. /\ d \in Disks /\ d.auth = disk.auth /\ d.operator = disk.operator
      /\ d.home = IF disk.home = Nil THEN disk.legacy ELSE disk.home
      /\ (disk.home # Nil => disk.legacy = Nil) => d.legacy = Nil
  BY <1>1 DEF Disks, Stack!EnvMoves, Stack!migrate_db_to_home
<1> HIDE DEF d
<1>5. home \in Dbs /\ home # Nil /\ home.version \in 0 .. 2 /\ (disk.home # Nil => home = disk.home)
  <2>1. [version |-> 0, tasks |-> FALSE] \in Dbs /\ Nil \notin Dbs
    BY ScenesAssumption DEF ScenesAdmitted, Dbs
  <2>2. home \in Dbs
    BY <1>4, <2>1 DEF Disks
  <2>3. home.version \in 0 .. 2
    BY <2>2 DEF Dbs
  <2> QED
    BY <1>4, <2>1, <2>2, <2>3
<1> HIDE DEF home
<1>6. /\ disk' \in Disks /\ disk'.auth = disk.auth /\ disk'.operator = disk.operator
      /\ disk'.home = home /\ disk'.legacy = Nil
  BY <1>1, <1>3, <1>4, <1>5 DEF Disks, SessionsOK
<1> DEFINE n == [starter[s] EXCEPT !.pc = "upgrade", !.schema = home.version]
<1>7. /\ n.pc = "upgrade" /\ n.auth = starter[s].auth /\ n.launch = starter[s].launch
      /\ n.absent = starter[s].absent
  BY <1>1 DEF Starts
<1>8. n \in Starts
  <2>1. [starter[s] EXCEPT !.schema = home.version] \in Starts
    BY <1>1, <1>5 DEF Starts
  <2>2. [[starter[s] EXCEPT !.schema = home.version] EXCEPT !.pc = "upgrade"] \in Starts
    BY <2>1 DEF Starts
  <2>3. n = [[starter[s] EXCEPT !.schema = home.version] EXCEPT !.pc = "upgrade"]
    BY <1>1 DEF Starts
  <2> QED
    BY <2>2, <2>3
<1>9. starter' = [starter EXCEPT ![s] = n]
  <2>1. PICK f : f = [pc |-> "upgrade", schema |-> home.version]
    OBVIOUS
  <2>2. Stack!Set(s, f)
    BY <1>3, <2>1 DEF Stack!Set
  <2>3. DOMAIN f = {"pc", "schema"} /\ f["pc"] = "upgrade" /\ f["schema"] = home.version
    BY <2>1
  <2>4. starter \in [Starters -> Starts]
    BY <1>1
  <2> QED
    BY <2>2, <2>3, <2>4, Sets_schema
<1>10. PICK m \in Starts : m = n
  BY <1>8
<1> HIDE DEF n
<1>11. StarterOK(m)'
  BY <1>1, <1>2, <1>5, <1>6, <1>7, <1>10 DEF StarterOK, Stack!Ended, Early, Launching
<1>12. SessionsOK'
  BY <1>1, <1>2, <1>5, <1>6 DEF SessionsOK, Stack!OperatorIsKnown, Stack!LegacyTasksCome,
     Stack!Listening
<1>13. StackInv'
  BY <1>2, <1>5, <1>6, <1>7, <1>9, <1>10, <1>11, <1>12, WritesKeepStack
<1> QED
  BY <1>5, <1>6, <1>13

(* A start that upgrades runs next to a service only if another start has     *)
(* brought the schema to this version already.                                *)
LEMMA UpgradeIsAlone ==
  ASSUME StackInv, NEW s \in Starters, Stack!Upgrade(s)
  PROVE  StackInv' /\ (disk'.home.version # disk.home.version => service = Nil)
<1>1. /\ starter \in [Starters -> Starts] /\ starter[s] \in Starts /\ StarterOK(starter[s])
      /\ disk \in Disks /\ SessionsOK /\ starter[s].pc = "upgrade" /\ installed \in 1 .. 2
  BY DEF StackInv, StackTyped, Stack!Upgrade
<1>2. /\ UNCHANGED <<installed, docker, service, runner, containers, scene>>
      /\ Under(starter[s]) /\ disk.home # Nil
      /\ (service # Nil => scene.together /\ disk.home.version = installed)
  BY <1>1 DEF Stack!Upgrade, Under, Stack!Ended, StarterOK, SessionsOK
<1>3. CASE Stack!Goto(s, "failed") /\ UNCHANGED disk
  BY <1>2, <1>3, Ends
<1>4. CASE Stack!Goto(s, "service?") /\ disk' = [disk EXCEPT !.home.version = installed]
  <2> DEFINE n == [starter[s] EXCEPT !.pc = "service?"]
  <2>1. /\ n \in Starts /\ n.pc = "service?" /\ n.launch = starter[s].launch
        /\ n.auth = starter[s].auth /\ n.absent = starter[s].absent
    BY <1>1 DEF Starts, Launching
  <2>2. starter' = [starter EXCEPT ![s] = n]
    BY <1>1, <1>4, SetsPlace
  <2>9. PICK m \in Starts : m = n
    BY <2>1
  <2> HIDE DEF n
  <2> DEFINE h == [disk.home EXCEPT !.version = installed]
  <2>3. h \in Dbs /\ h.version = installed /\ h # Nil
    <3>1. disk.home \in Dbs /\ Nil \notin Dbs
      BY <1>1, <1>2, ScenesAssumption DEF ScenesAdmitted, Disks, Dbs
    <3>2. h \in Dbs /\ h.version = installed
      BY <1>1, <3>1 DEF Dbs
    <3> QED
      BY <3>1, <3>2
  <2>4. disk' = [disk EXCEPT !.home = h]
    BY <1>4
  <2> HIDE DEF h
  <2>5. /\ disk' \in Disks /\ disk'.auth = disk.auth /\ disk'.operator = disk.operator
        /\ disk'.home = h /\ disk'.legacy = disk.legacy
    BY <1>1, <2>3, <2>4 DEF Disks
  <2>6. StarterOK(m)'
    BY <1>1, <1>2, <2>1, <2>3, <2>5, <2>9 DEF StarterOK, Stack!Ended, Early, Launching
  <2>7. SessionsOK'
    BY <1>1, <1>2, <2>3, <2>5 DEF SessionsOK, Stack!OperatorIsKnown, Stack!LegacyTasksCome,
       Stack!Listening
  <2>8. StackInv'
    BY <1>2, <2>1, <2>2, <2>3, <2>5, <2>6, <2>7, <2>9, WritesKeepStack
  <2> QED
    BY <1>2, <2>3, <2>5, <2>8
<1> QED
  BY <1>3, <1>4 DEF Stack!Upgrade, Stack!Fail

(* A start that creates a session has done before what the session relies on. *)
LEMMA LaunchKeepsStack ==
  ASSUME StackInv, NEW s \in Starters, Stack!_start_sessions(s)
  PROVE  StackInv'
<1>1. /\ starter \in [Starters -> Starts] /\ starter[s] \in Starts /\ StarterOK(starter[s])
      /\ disk \in Disks /\ SessionsOK /\ starter[s].pc \in Launching /\ installed \in 1 .. 2
      /\ service = Nil \/ (service \in Sessions /\ service.version <= installed)
      /\ runner = Nil \/ (runner \in Sessions /\ runner.version <= installed)
      /\ docker \in BOOLEAN /\ containers \in BOOLEAN /\ scene \in Plays
  BY DEF StackInv, StackTyped, Stack!_start_sessions, Launching
<1>2. /\ UNCHANGED <<disk, installed, docker, containers, scene>>
      /\ Under(starter[s]) /\ starter[s].launch \in Launches
  BY <1>1 DEF Stack!_start_sessions, Under, Stack!Ended, StarterOK, Launching
<1>3. ASSUME NEW p \in Launching, Stack!Goto(s, p), UNCHANGED <<service, runner>>
      PROVE  StackInv'
  <2> DEFINE n == [starter[s] EXCEPT !.pc = p]
  <2>1. /\ n \in Starts /\ n.pc = p /\ n.launch = starter[s].launch /\ n.auth = starter[s].auth
        /\ n.absent = starter[s].absent
    BY <1>1 DEF Starts
  <2>2. starter' = [starter EXCEPT ![s] = n]
    BY <1>1, <1>3, SetsPlace
  <2> HIDE DEF n
  <2> QED
    BY <1>1, <1>2, <1>3, <2>1, <2>2, GoesOn
<1>4. ASSUME Stack!Goto(s, "failed"), UNCHANGED <<service, runner>>
      PROVE  StackInv'
  BY <1>2, <1>4, Ends
<1>5. /\ Stack!Session(s) \in Sessions /\ Stack!Session(s).version = installed
      /\ Stack!Session(s).auth = "off" /\ Stack!Session(s).phase = "booting"
      /\ Stack!Session(s).enforced => disk.auth \in Starters
  <2>1. starter[s].launch.mode # "disabled" => disk.auth \in Starters
    BY <1>1 DEF StarterOK, Stack!Ended, Early, Launching
  <2>2. starter[s].instance \in Runtimes \cup {Nil} /\ installed \in 0 .. 2 /\ Nil \in OperatorTokens
    BY <1>1 DEF Starts, OperatorTokens
  <2>3. Stack!Session(s) \in Sessions
    BY <2>2 DEF Stack!Session, Sessions
  <2> QED
    BY <2>1, <2>3 DEF Stack!Session
<1>6. ASSUME NEW p \in Launching, Stack!Goto(s, p),
             \/ UNCHANGED runner /\ service = Nil /\ service' = Stack!Session(s)
             \/ UNCHANGED service /\ runner = Nil /\ runner' = Stack!Session(s)
      PROVE  StackInv'
  <2>1. PICK n \in Starts : n = [starter[s] EXCEPT !.pc = p]
    BY <1>1 DEF Starts
  <2>2. /\ n.pc = p /\ n.launch = starter[s].launch /\ n.auth = starter[s].auth
        /\ n.absent = starter[s].absent
    BY <1>1, <2>1 DEF Starts
  <2>3. starter' = [starter EXCEPT ![s] = n]
    BY <1>1, <1>6, <2>1, SetsPlace
  <2>4. starter'[s] = n /\ \A t \in Starters \ {s} : starter'[t] = starter[t]
    BY <1>1, <2>3
  <2>5. StackTyped'
    BY <1>1, <1>2, <1>5, <1>6, <2>3 DEF StackTyped
  <2>6. ASSUME NEW t \in Starters PROVE StarterOK(starter[t])'
    <3>1. CASE t = s
      <4>1. StarterOK(n)'
        BY <1>1, <1>2, <2>2 DEF StarterOK, Stack!Ended, Early, Launching
      <4> QED
        BY <2>4, <3>1, <4>1 DEF StarterOK
    <3>2. CASE t # s
      <4>1. PICK m \in Starts : m = starter[t] /\ StarterOK(m)
        BY <1>1 DEF StackInv
      <4>2. Under(m) => scene.together /\ m.launch = starter[s].launch
        BY <1>2, <3>2, <4>1 DEF StackInv, Overlap
      <4>3. starter[s].launch.operator # Nil => disk.operator # Nil
        BY <1>1 DEF StarterOK, Launching
      <4>4. StarterOK(m)'
        BY <1>1, <1>2, <4>1, <4>2, <4>3 DEF StarterOK, Under, Stack!Ended, Early, Launching
      <4>5. starter'[t] = m
        BY <2>4, <3>2, <4>1
      <4> QED
        BY <4>4, <4>5 DEF StarterOK
    <3> QED
      BY <3>1, <3>2
  <2>7. Overlap'
    BY <1>2, <2>2, <2>4 DEF StackInv, Overlap, Under
  <2>8. SessionsOK'
    <3>1. scene.together => disk.home # Nil /\ disk.home.version = installed
      BY <1>1 DEF StarterOK
    <3> QED
      BY <1>1, <1>2, <1>5, <1>6, <3>1 DEF SessionsOK, Stack!OperatorIsKnown,
         Stack!LegacyTasksCome, Stack!Listening
  <2> QED
    BY <2>5, <2>6, <2>7, <2>8 DEF StackInv
<1>7. CASE starter[s].pc = "service?"
  BY <1>3, <1>7 DEF Stack!_start_sessions, Launching
<1>8. CASE starter[s].pc = "service!"
  <2>1. CASE service = Nil
    BY <1>6, <1>8, <2>1 DEF Stack!_start_sessions, Launching
  <2>2. CASE service # Nil
    BY <1>4, <1>8, <2>2 DEF Stack!_start_sessions, Stack!Fail
  <2> QED
    BY <2>1, <2>2
<1>9. CASE starter[s].pc = "runner?"
  BY <1>3, <1>9 DEF Stack!_start_sessions, Launching
<1>10. CASE starter[s].pc = "runner!"
  <2>1. CASE runner = Nil
    BY <1>6, <1>10, <2>1 DEF Stack!_start_sessions, Launching
  <2>2. CASE runner # Nil
    BY <1>4, <1>10, <2>2 DEF Stack!_start_sessions, Stack!Fail
  <2> QED
    BY <2>1, <2>2
<1> QED
  BY <1>7, <1>8, <1>9, <1>10 DEF Stack!_start_sessions

-----------------------------------------------------------------------------
(* Starts that begin, sessions and faults *)

(* A start begins with nothing, next to starts of the same launch.            *)
LEMMA BeginsKeepStack ==
  ASSUME StackInv, NEW s \in Starters, NEW l \in scene.launches, Stack!Begin(s, l)
  PROVE  StackInv'
<1>1. /\ UNCHANGED <<disk, installed, docker, service, runner, containers>>
      /\ starter \in [Starters -> Starts] /\ scene \in Plays /\ scene.starts > 0
      /\ \A t \in Starters : Under(starter[t]) => scene.together /\ starter[t].launch = l
  BY DEF StackInv, StackTyped, Stack!Begin, Under
<1>2. /\ l \in Launches /\ scene' \in Plays /\ scene'.together = scene.together
  BY <1>1 DEF Stack!Begin, Plays
<1> DEFINE p == IF ~docker THEN "failed" ELSE IF l.mode = "disabled" THEN "resolve" ELSE "look"
<1>3. PICK n : n = [Stack!Idle EXCEPT !.launch = l, !.pc = p]
  OBVIOUS
<1>4. starter' = [starter EXCEPT ![s] = n]
  BY <1>3 DEF Stack!Begin
<1>5. /\ n \in Starts /\ n.launch = l /\ n.auth = Nil /\ n.pc = p /\ n.absent = FALSE
  <2>1. Stack!Idle \in Starts /\ Stack!Idle.auth = Nil /\ Stack!Idle.absent = FALSE
    BY DEF Stack!Idle, Starts, Stack!Ended
  <2>2. p \in Stack!Ended \cup Early
    BY DEF Stack!Ended, Early
  <2> HIDE DEF p
  <2>3. [Stack!Idle EXCEPT !.launch = l] \in Starts
    BY <1>2, <2>1 DEF Starts
  <2>4. [[Stack!Idle EXCEPT !.launch = l] EXCEPT !.pc = p] \in Starts
    BY <2>2, <2>3 DEF Starts
  <2>5. n = [[Stack!Idle EXCEPT !.launch = l] EXCEPT !.pc = p]
    BY <1>3, <2>1 DEF Starts
  <2>6. n.launch = l /\ n.auth = Nil /\ n.pc = p /\ n.absent = FALSE
    BY <1>3, <2>1 DEF Starts
  <2> QED
    BY <2>4, <2>5, <2>6
<1>6. p \in {"failed", "look"} \/ (p = "resolve" /\ l.mode = "disabled")
  OBVIOUS
<1> HIDE DEF p
<1>7. starter'[s] = n /\ \A t \in Starters \ {s} : starter'[t] = starter[t]
  BY <1>1, <1>4
<1>8. ASSUME NEW t \in Starters PROVE StarterOK(starter[t])'
  <2>1. CASE t = s
    <3>1. StarterOK(n)'
      BY <1>1, <1>2, <1>5, <1>6 DEF StarterOK, Stack!Ended, Early, Launching
    <3> QED
      BY <1>7, <2>1, <3>1 DEF StarterOK
  <2>2. CASE t # s
    <3>1. PICK m \in Starts : m = starter[t] /\ StarterOK(m)
      BY <1>1 DEF StackInv
    <3>2. StarterOK(m)'
      BY <1>1, <1>2, <3>1, OthersKeepStart
    <3>3. starter'[t] = m
      BY <1>7, <2>2, <3>1
    <3> QED
      BY <3>2, <3>3 DEF StarterOK
  <2> QED
    BY <2>1, <2>2
<1>9. StackTyped'
  BY <1>1, <1>2, <1>4, <1>5 DEF StackInv, StackTyped
<1>10. Overlap'
  BY <1>1, <1>2, <1>5, <1>7 DEF Overlap, Under
<1>11. SessionsOK'
  BY <1>1, <1>2 DEF StackInv, SessionsOK, Stack!OperatorIsKnown, Stack!LegacyTasksCome,
     Stack!Listening
<1> QED
  BY <1>8, <1>9, <1>10, <1>11 DEF StackInv

(* Sessions that come, go and boot leave what the starts know.                *)
LEMMA SessionsKeepStarts ==
  ASSUME StackInv, UNCHANGED starter, installed' = installed,
         scene'.together = scene.together, service = Nil => service' = Nil,
         disk'.auth = disk.auth, disk'.operator = disk.operator,
         disk.home # Nil => disk'.home = disk.home
  PROVE  (\A t \in Starters : StarterOK(starter[t])') /\ Overlap'
<1>1. ASSUME NEW t \in Starters PROVE StarterOK(starter[t])'
  <2>1. PICK m \in Starts : m = starter[t] /\ StarterOK(m)
    BY DEF StackInv, StackTyped
  <2>2. StarterOK(m)'
    BY <2>1, OthersKeepStart
  <2> QED
    BY <2>1, <2>2 DEF StarterOK
<1> QED
  BY <1>1 DEF StackInv, Overlap, Under

(* The service reads both credentials and moves the database before it        *)
(* listens.                                                                   *)
LEMMA ServiceKeepsStack ==
  ASSUME StackInv, Stack!ServiceBoots
  PROVE  StackInv' /\ (disk.home # Nil => disk'.home = disk.home)
<1>1. /\ disk \in Disks /\ SessionsOK /\ service # Nil /\ service \in Sessions
      /\ service.version <= installed
  BY DEF StackInv, StackTyped, Stack!ServiceBoots
<1>2. UNCHANGED <<installed, docker, runner, containers, starter, scene>>
  BY DEF Stack!ServiceBoots
<1>3. /\ disk' \in Disks /\ disk'.auth = disk.auth /\ disk'.operator = disk.operator
      /\ disk'.legacy = Nil /\ (disk.home # Nil => disk'.home = disk.home)
      /\ (disk'.home # disk.home => disk.home = Nil)
  BY <1>1 DEF Disks, Stack!ServiceBoots, Stack!migrate_db_to_home, SessionsOK
<1> DEFINE auth == IF service.enforced THEN disk.auth ELSE "off"
<1>4. CASE service' = Nil
  <2>1. StackTyped'
    BY <1>2, <1>3, <1>4 DEF StackInv, StackTyped
  <2>2. SessionsOK'
    BY <1>1, <1>2, <1>3, <1>4 DEF SessionsOK, Stack!OperatorIsKnown, Stack!LegacyTasksCome,
       Stack!Listening
  <2> QED
    BY <1>2, <1>3, <1>4, <2>1, <2>2, SessionsKeepStarts DEF StackInv
<1>5. CASE /\ auth \notin Stack!InvalidCredentials
           /\ service' = [service EXCEPT !.phase = "live", !.auth = auth,
                                         !.operator = disk.operator]
  <2>1. auth \in Starters \cup {"off"} /\ auth \in {"off", disk.auth}
    BY <1>1, <1>5 DEF Disks, Stack!InvalidCredentials
  <2> HIDE DEF auth
  <2>2. service' \in Sessions /\ service'.version = service.version
    <3>1. [service EXCEPT !.phase = "live"] \in Sessions
      BY <1>1 DEF Sessions
    <3>2. [[service EXCEPT !.phase = "live"] EXCEPT !.auth = auth] \in Sessions
      BY <2>1, <3>1 DEF Sessions
    <3>3. [[[service EXCEPT !.phase = "live"] EXCEPT !.auth = auth]
             EXCEPT !.operator = disk.operator] \in Sessions
      BY <1>1, <3>2 DEF Sessions, Disks
    <3>4. service' = [[[service EXCEPT !.phase = "live"] EXCEPT !.auth = auth]
                         EXCEPT !.operator = disk.operator]
      BY <1>1, <1>5 DEF Sessions
    <3>5. service'.version = service.version
      BY <1>1, <1>5 DEF Sessions
    <3> QED
      BY <3>3, <3>4, <3>5
  <2>3. service'.auth = auth /\ service'.operator = disk.operator
    BY <1>1, <1>5 DEF Sessions
  <2>4. StackTyped'
    BY <1>1, <1>2, <1>3, <2>2 DEF StackInv, StackTyped
  <2>5. SessionsOK'
    BY <1>1, <1>2, <1>3, <2>1, <2>3 DEF SessionsOK, Stack!OperatorIsKnown,
       Stack!LegacyTasksCome, Stack!Listening
  <2> QED
    BY <1>1, <1>2, <1>3, <2>4, <2>5, SessionsKeepStarts DEF StackInv
<1> QED
  BY <1>3, <1>4, <1>5 DEF Stack!ServiceBoots

(* The daemon holds the credential on disk, or none.                          *)
LEMMA RunnerKeepsStack == StackInv /\ Stack!RunnerBoots => StackInv'
<1> SUFFICES ASSUME StackInv, Stack!RunnerBoots PROVE StackInv'
  OBVIOUS
<1>1. /\ disk \in Disks /\ SessionsOK /\ runner # Nil /\ runner \in Sessions
      /\ runner.version <= installed /\ StackTyped
  BY DEF StackInv, StackTyped, Stack!RunnerBoots
<1>2. UNCHANGED <<disk, installed, docker, service, containers, starter, scene>>
  BY DEF Stack!RunnerBoots
<1> DEFINE auth == IF runner.enforced THEN disk.auth ELSE "off"
<1>3. /\ (\A t \in Starters : StarterOK(starter[t])') /\ Overlap'
  BY <1>2, SessionsKeepStarts
<1>4. CASE runner' = Nil
  <2>1. StackTyped'
    BY <1>1, <1>2, <1>4 DEF StackTyped
  <2>2. SessionsOK'
    BY <1>1, <1>2, <1>4 DEF SessionsOK, Stack!OperatorIsKnown, Stack!LegacyTasksCome,
       Stack!Listening
  <2> QED
    BY <1>3, <2>1, <2>2 DEF StackInv
<1>5. CASE runner' = [runner EXCEPT !.phase = "live", !.auth = auth]
  <2>1. auth \in Starters \cup {"off"} /\ auth \in {"off", disk.auth}
    BY <1>1 DEF SessionsOK
  <2> HIDE DEF auth
  <2>2. /\ runner' \in Sessions /\ runner'.version = runner.version /\ runner'.auth = auth
        /\ runner'.enforced = runner.enforced
    <3>1. [runner EXCEPT !.phase = "live"] \in Sessions
      BY <1>1 DEF Sessions
    <3>2. [[runner EXCEPT !.phase = "live"] EXCEPT !.auth = auth] \in Sessions
      BY <2>1, <3>1 DEF Sessions
    <3>3. runner' = [[runner EXCEPT !.phase = "live"] EXCEPT !.auth = auth]
      BY <1>1, <1>5 DEF Sessions
    <3>4. /\ runner'.version = runner.version /\ runner'.auth = auth
          /\ runner'.enforced = runner.enforced
      BY <1>1, <1>5 DEF Sessions
    <3> QED
      BY <3>2, <3>3, <3>4
  <2>3. StackTyped'
    BY <1>1, <1>2, <2>2 DEF StackTyped
  <2>4. SessionsOK'
    BY <1>1, <1>2, <2>1, <2>2 DEF SessionsOK, Stack!OperatorIsKnown, Stack!LegacyTasksCome,
       Stack!Listening
  <2> QED
    BY <1>3, <2>3, <2>4 DEF StackInv
<1> QED
  BY <1>4, <1>5 DEF Stack!RunnerBoots

(* Spawned containers touch nothing that matters here.                        *)
LEMMA SpawnKeepsStack == StackInv /\ Stack!RunnerSpawns => StackInv'
  BY DEF Stack!RunnerSpawns, StackInv, StackTyped, StarterOK, Overlap, Under, SessionsOK,
     Stack!OperatorIsKnown, Stack!LegacyTasksCome, Stack!Listening

(* Crashes, Docker, a new package under an old fleet.                         *)
LEMMA FaultsKeepStack == StackInv /\ Stack!Fault => StackInv'
<1> SUFFICES ASSUME StackInv, Stack!Fault PROVE StackInv'
  OBVIOUS
<1>1. /\ StackTyped /\ SessionsOK /\ scene \in Plays /\ scene.faults > 0
      /\ UNCHANGED <<disk, containers, starter>>
      /\ scene' = [scene EXCEPT !.faults = @ - 1]
  BY DEF StackInv, StackTyped, Stack!Fault
<1>2. scene' \in Plays /\ scene'.together = scene.together
  BY <1>1 DEF Plays
<1>3. CASE /\ UNCHANGED installed /\ service' \in {service, Nil} /\ docker' \in BOOLEAN
           /\ runner' \in {runner, Nil} \/ (runner # Nil /\ runner' = [runner EXCEPT !.phase = "booting"])
  <2>1. (\A t \in Starters : StarterOK(starter[t])') /\ Overlap'
    BY <1>1, <1>2, <1>3, SessionsKeepStarts
  <2>2. runner' # Nil =>
          /\ runner # Nil /\ runner' \in Sessions /\ runner'.version = runner.version
          /\ runner'.auth = runner.auth /\ runner'.enforced = runner.enforced
    BY <1>1, <1>3 DEF StackTyped, Sessions
  <2>3. StackTyped'
    BY <1>1, <1>2, <1>3, <2>2 DEF StackTyped
  <2>4. SessionsOK'
    BY <1>1, <1>2, <1>3, <2>2 DEF SessionsOK, Stack!OperatorIsKnown, Stack!LegacyTasksCome,
       Stack!Listening
  <2> QED
    BY <2>1, <2>3, <2>4 DEF StackInv
<1>4. CASE /\ \A t \in Starters : ~Under(starter[t])
           /\ ~scene.together /\ installed < 2 /\ installed' = installed + 1
           /\ UNCHANGED <<service, runner, docker>>
  <2>1. ASSUME NEW t \in Starters PROVE StarterOK(starter[t])'
    <3>1. StarterOK(starter[t]) /\ ~Under(starter[t])
      BY <1>4 DEF StackInv
    <3> QED
      BY <1>1, <1>2, <1>4, <3>1 DEF StarterOK, Under, Stack!Ended, Early, Launching
  <2>2. Overlap'
    BY <1>1, <1>4 DEF Overlap, Under
  <2>3. StackTyped'
    <3>1. installed \in 1 .. 2 /\ installed' \in 1 .. 2 /\ installed <= installed'
      BY <1>1, <1>4 DEF StackTyped
    <3>2. \A x \in Sessions : x.version <= installed => x.version <= installed'
      BY <3>1 DEF Sessions
    <3> QED
      BY <1>1, <1>2, <1>4, <3>1, <3>2 DEF StackTyped
  <2>4. SessionsOK'
    BY <1>1, <1>2, <1>4 DEF SessionsOK, Stack!OperatorIsKnown, Stack!LegacyTasksCome,
       Stack!Listening
  <2> QED
    BY <2>1, <2>2, <2>3, <2>4 DEF StackInv
<1>5. docker \in BOOLEAN /\ docker' \in BOOLEAN
  BY <1>1 DEF StackTyped, Stack!Fault
<1> QED
  BY <1>3, <1>4, <1>5 DEF Stack!Fault, Under

(* A stop ends the sessions.                                                  *)
LEMMA StopsKeepStack == StackInv /\ Stack!stop => StackInv'
<1> SUFFICES ASSUME StackInv, Stack!stop PROVE StackInv'
  OBVIOUS
<1>1. /\ StackTyped /\ SessionsOK /\ scene \in Plays
      /\ UNCHANGED <<disk, installed, docker, starter>>
      /\ service' \in {service, Nil} /\ runner' \in {runner, Nil} /\ containers' \in BOOLEAN
  BY DEF StackInv, StackTyped, Stack!stop
<1>2. scene' \in Plays /\ scene'.together = scene.together
  <2>1. (scene.stops > 0 /\ scene' = [scene EXCEPT !.stops = @ - 1]) \/ UNCHANGED scene
    BY DEF Stack!stop
  <2> QED
    BY <1>1, <2>1 DEF Plays
<1>3. (\A t \in Starters : StarterOK(starter[t])') /\ Overlap'
  BY <1>1, <1>2, SessionsKeepStarts
<1>4. StackTyped'
  BY <1>1, <1>2 DEF StackTyped
<1>5. SessionsOK'
  BY <1>1, <1>2 DEF SessionsOK, Stack!OperatorIsKnown, Stack!LegacyTasksCome, Stack!Listening
<1> QED
  BY <1>3, <1>4, <1>5 DEF StackInv

-----------------------------------------------------------------------------
(* One installation *)

(* No step changes the schema under a service.                                *)
MigrationAlone ==
  disk.home # Nil /\ disk'.home.version # disk.home.version => service = Nil

(* Every step of the stack keeps the invariant.                               *)
LEMMA StackKeeps ==
  ASSUME StackInv, Stack!Next
  PROVE  StackInv' /\ MigrationAlone
<1>1. ASSUME NEW s \in Starters, NEW l \in scene.launches, Stack!Begin(s, l)
      PROVE  StackInv' /\ MigrationAlone
  BY <1>1, BeginsKeepStack DEF Stack!Begin, MigrationAlone
<1>2. ASSUME NEW s \in Starters, Stack!Start(s)
      PROVE  StackInv' /\ MigrationAlone
  <2>1. CASE \/ Stack!LookForCredential(s) \/ Stack!_ensure_integrated_auth(s)
             \/ Stack!load_tokens(s) \/ Stack!Resolve(s) \/ Stack!guard_before_migration(s)
             \/ Stack!integrated_service_session_exists(s) \/ Stack!wait_until_ready(s)
             \/ Stack!TimeOut(s)
    <3>1. UNCHANGED disk
      BY <2>1 DEF Stack!LookForCredential, Stack!_ensure_integrated_auth, Stack!load_tokens,
         Stack!Resolve, Stack!guard_before_migration, Stack!integrated_service_session_exists,
         Stack!wait_until_ready, Stack!TimeOut
    <3> QED
      BY <2>1, <3>1, ReadsKeepStack DEF MigrationAlone
  <2>2. CASE Stack!ensure_bootstrap_credential(s)
    <3>1. disk \in Disks
      BY DEF StackInv, StackTyped
    <3>2. disk'.home = disk.home
      BY <2>2, <3>1 DEF Stack!ensure_bootstrap_credential, Stack!Publish, Disks
    <3> QED
      BY <2>2, <3>2, PublishKeepsStack DEF MigrationAlone
  <2>3. CASE Stack!persist_operator_token(s)
    <3>1. disk \in Disks
      BY DEF StackInv, StackTyped
    <3>2. disk'.home = disk.home
      BY <2>3, <3>1 DEF Stack!persist_operator_token, Disks
    <3> QED
      BY <2>3, <3>2, TokenKeepsStack DEF MigrationAlone
  <2>4. CASE Stack!_run_migrate(s)
    BY <2>4, SchemaIsRead DEF MigrationAlone
  <2>5. CASE Stack!Upgrade(s)
    BY <2>5, UpgradeIsAlone DEF MigrationAlone
  <2>6. CASE Stack!_start_sessions(s)
    BY <2>6, LaunchKeepsStack DEF Stack!_start_sessions, MigrationAlone
  <2> QED
    BY <1>2, <2>1, <2>2, <2>3, <2>4, <2>5, <2>6 DEF Stack!Start
<1>3. CASE Stack!ServiceBoots
  BY <1>3, ServiceKeepsStack DEF MigrationAlone
<1>4. CASE Stack!RunnerBoots
  BY <1>4, RunnerKeepsStack DEF Stack!RunnerBoots, MigrationAlone
<1>5. CASE Stack!RunnerSpawns
  BY <1>5, SpawnKeepsStack DEF Stack!RunnerSpawns, MigrationAlone
<1>6. CASE Stack!Fault
  BY <1>6, FaultsKeepStack DEF Stack!Fault, MigrationAlone
<1>7. CASE Stack!stop
  BY <1>7, StopsKeepStack DEF Stack!stop, MigrationAlone
<1> QED
  BY <1>1, <1>2, <1>3, <1>4, <1>5, <1>6, <1>7 DEF Stack!Next

(* The book plays the stack or leaves it alone.                               *)
LEMMA BookKeepsStack ==
  ASSUME StackInv, [BookNext]_vars
  PROVE  StackInv' /\ [MigrationAlone]_(Stack!startupVars)
<1>1. CASE Stack!Next
  BY <1>1, StackKeeps
<1>2. CASE UNCHANGED stackVars
  BY <1>2, StackRests DEF stackVars, Stack!startupVars
<1> QED
  BY <1>1, <1>2 DEF BookNext, vars, Stack!startupVars, stackVars, Hidden!send_redacted

(* What the invariant says of types, credentials and what the service serves. *)
LEMMA StackPromises ==
  StackInv => /\ Stack!TypeOK /\ Stack!OneCredential /\ Stack!OperatorIsKnown
              /\ Stack!LegacyTasksCome
<1> SUFFICES ASSUME StackInv
             PROVE  Stack!TypeOK /\ Stack!OneCredential
  BY DEF StackInv, SessionsOK
<1>1. StackTyped /\ SessionsOK /\ \A s \in Starters : StarterOK(starter[s]) /\ starter[s] \in Starts
  BY DEF StackInv, StackTyped
<1>2. Stack!OneCredential
  BY <1>1 DEF Stack!OneCredential, SessionsOK, StarterOK
<1>3. Stack!TypeOK
  <2>1. disk.auth \in Starters \cup {Nil, "broken"} /\ disk.operator \in {Nil, "o1", "o2"}
    BY <1>1 DEF StackTyped, Disks, OperatorTokens
  <2>2. ASSUME NEW p \in {service, runner}, p # Nil
        PROVE  /\ p.phase \in {"booting", "live"} /\ p.auth \in Starters \cup {"off"}
               /\ p.version \in 0 .. installed
    <3>1. p \in Sessions /\ p.version <= installed /\ installed \in 1 .. 2
      BY <1>1, <2>2 DEF StackTyped
    <3> QED
      BY <3>1 DEF Sessions
  <2>3. ASSUME NEW s \in Starters
        PROVE  /\ starter[s].auth \in Starters \cup {Nil}
               /\ starter[s].pc \in Stack!Ended \cup Early \cup {"operator", "migrate", "upgrade"}
                                    \cup Launching
    BY <1>1, <2>3 DEF Starts
  <2> QED
    BY <1>1, <2>1, <2>2, <2>3 DEF Stack!TypeOK, StackTyped, Early, Launching
<1> QED
  BY <1>2, <1>3

(* However starts, a stop, the two sessions and their crashes interleave,     *)
(* everyone that authenticates holds the credential on disk, the service that *)
(* listens knows the operator's token and serves the existing tasks, and the  *)
(* schema never changes under a service (terminal/__main__.py).               *)
THEOREM InstallationIsOne == Spec => OneInstallation
<1>1. BookInit => StackInv
  BY StackStarts DEF BookInit
<1>2. StackInv /\ [BookNext]_vars => StackInv' /\ [MigrationAlone]_(Stack!startupVars)
  BY BookKeepsStack
<1>3. StackInv => /\ Stack!TypeOK /\ Stack!OneCredential /\ Stack!OperatorIsKnown
                  /\ Stack!LegacyTasksCome
  BY StackPromises
<1> QED
  BY <1>1, <1>2, <1>3, PTL DEF Spec, OneInstallation, Stack!OneInstallation,
     Stack!EffectiveMigrationIsAlone, MigrationAlone

-----------------------------------------------------------------------------
(* The record of a repository *)

HasHarness(row) == row.model # Nil => row.harness # Nil

(* A body as it is sent, and one that has been accepted.                      *)
Sent(b) ==
  /\ DOMAIN b \subseteq Book!Fields
  /\ "model" \in DOMAIN b => b["model"] \in Book!Model \cup {Nil}
  /\ "enabled" \in DOMAIN b => b["enabled"] \in BOOLEAN
Fits(b) ==
  /\ Sent(b)
  /\ "env" \in DOMAIN b => b["env"] \in Book!Files \cup {Nil}
  /\ "harness" \in DOMAIN b => b["harness"] \in Book!Harness \cup {Nil}
  /\ "reviewer" \in DOMAIN b => b["reviewer"] \in Book!Reviewer \cup {Nil}

(* What the operator touched in the modal, and what it shows.                 *)
TouchOK(m) ==
  /\ DOMAIN m \subseteq {"harness", "name", "effort"}
  /\ "harness" \in DOMAIN m => m["harness"] \in Book!Harness
  /\ "name" \in DOMAIN m => m["name"] \in Book!Names
  /\ "effort" \in DOMAIN m => m["effort"] \in Book!Efforts
ShownOK(l) == l.harness \in Book!Harness /\ l.name \in Book!Names /\ l.effort \in Book!Efforts

ModalOK(m) ==
  m = [repo |-> m.repo, touched |-> m.touched] /\ m.repo \in Book!Row /\ TouchOK(m.touched)

AskOK(a) ==
  /\ ShownOK(a.shown)
  /\ a.harness = IF "harness" \in a.touched THEN a.shown.harness ELSE Nil
  /\ a.model = IF {"name", "effort"} \cap a.touched # {} THEN Book!starting_model(a.shown) ELSE Nil

(* An update under way was accepted over the row it read, and what it makes   *)
(* of that row keeps a harness with the model.                                *)
RequestOK(r) ==
  \/ r = Book!Idle
  \/ /\ r.op = "patch" /\ r.old \in Book!Row /\ HasHarness(r.old) /\ Fits(r.body)
     /\ HasHarness(Book!Merge(r.body, r.old))
  \/ r.op = "task" /\ r.old \in Book!Row /\ AskOK(r.ask)

TaskRows == [harness : Book!Harness, model : Book!Model \cup {Nil}, paused : BOOLEAN]

BookInv ==
  /\ repo = Nil \/ (repo \in Book!Row /\ HasHarness(repo))
  /\ births \in 0 .. MaxRepos /\ patches \in 0 .. MaxPatches
  /\ request = [h \in Book!Hands |-> request[h]]
  /\ \A h \in Book!Hands : RequestOK(request[h])
  /\ tasks \in Seq(TaskRows) /\ Len(tasks) <= MaxTasks
  /\ Book!NoOrphans
  /\ request[Book!Dash].op = "task" => modal = Nil /\ Len(tasks) < MaxTasks
  /\ form \in Book!Row \cup {Nil}
  /\ modal # Nil => ModalOK(modal)
  /\ form = Nil \/ modal = Nil
  /\ TouchOK(draft)

(* What a body merged over a row makes of it.                                 *)
LEMMA MergedRow ==
  ASSUME NEW b, Fits(b), NEW row \in Book!Row
  PROVE  /\ Book!Merge(b, row) \in Book!Row
         /\ Book!Merge(b, row).held = row.held
         /\ \A f \in Book!Fields : Book!Merge(b, row)[f] = IF f \in DOMAIN b THEN b[f] ELSE row[f]
<1> DEFINE m == Book!Merge(b, row)
           n == [harness |-> m["harness"], model |-> m["model"], env |-> m["env"],
                 reviewer |-> m["reviewer"], enabled |-> m["enabled"], held |-> m["held"]]
<1>1. m = [f \in Book!Fields \cup {"held"} |-> IF f \in DOMAIN b THEN b[f] ELSE row[f]]
  BY DEF Book!Merge, Fits, Sent, Book!Fields, Book!Row
<1>2. /\ m["harness"] \in Book!Harness \cup {Nil} /\ m["model"] \in Book!Model \cup {Nil}
      /\ m["env"] \in Book!Files \cup {Nil} /\ m["reviewer"] \in Book!Reviewer \cup {Nil}
      /\ m["enabled"] \in BOOLEAN /\ m["held"] \in BOOLEAN /\ m["held"] = row.held
  BY <1>1 DEF Fits, Sent, Book!Fields, Book!Row
<1>3. m = n
  BY <1>1 DEF Book!Fields
<1>4. n \in Book!Row
  BY <1>2 DEF Book!Row
<1> QED
  BY <1>1, <1>2, <1>3, <1>4

(* A row made from a body alone.                                              *)
LEMMA BlankRow ==
  ASSUME NEW b, Fits(b)
  PROVE  Book!Merge(b, Book!Merge([held |-> FALSE], Book!Blank)) \in Book!Row
<1> DEFINE z == Book!Merge([held |-> FALSE], Book!Blank)
           n == [harness |-> z["harness"], model |-> z["model"], env |-> z["env"],
                 reviewer |-> z["reviewer"], enabled |-> z["enabled"], held |-> z["held"]]
<1>1. /\ DOMAIN z = Book!Fields \cup {"held"} /\ z = [f \in DOMAIN z |-> z[f]]
      /\ \A f \in Book!Fields : z[f] = Book!Blank[f]
      /\ z["held"] = FALSE
  BY DEF Book!Merge, Book!Blank, Book!Fields
<1>2. /\ Book!Blank["harness"] = Nil /\ Book!Blank["model"] = Nil /\ Book!Blank["env"] = Nil
      /\ Book!Blank["reviewer"] = Nil /\ Book!Blank["enabled"] \in BOOLEAN
  BY DEF Book!Blank
<1> HIDE DEF z
<1>3. z = n
  BY <1>1 DEF Book!Fields
<1>4. n \in Book!Row
  BY <1>1, <1>2 DEF Book!Row, Book!Fields
<1>5. z \in Book!Row
  BY <1>3, <1>4
<1>6. Book!Merge(b, z) \in Book!Row
  BY <1>5, MergedRow
<1> QED
  BY <1>6 DEF z

(* A body the service accepts fits, and leaves a harness with the model.      *)
LEMMA AcceptedFits ==
  ASSUME NEW b, Sent(b), NEW row, Book!Accepted(Book!Normalized(b), row)
  PROVE  Fits(Book!Normalized(b))
<1>1. DOMAIN Book!Normalized(b) = DOMAIN b
  BY DEF Book!Normalized
<1>2. \A f \in DOMAIN b : f # "reviewer" => Book!Normalized(b)[f] = b[f]
  BY DEF Book!Normalized
<1> DEFINE n == Book!Normalized(b)
<1> HIDE DEF n
<1>3. DOMAIN n = DOMAIN b /\ \A f \in DOMAIN b : f # "reviewer" => n[f] = b[f]
  BY <1>1, <1>2 DEF n
<1>4. Book!Accepted(n, row)
  BY DEF n
<1>5. Fits(n)
  BY <1>3, <1>4 DEF Fits, Sent, Book!Accepted, Book!_validate_env_file,
     Book!_validate_harness_name, Book!Given
<1> QED
  BY <1>5 DEF n

LEMMA AcceptedKeepsHarness ==
  ASSUME NEW b, Fits(b), NEW row \in Book!Row, HasHarness(row),
         Book!Accepted(b, Book!Merge(b, row))
  PROVE  HasHarness(Book!Merge(b, row))
<1>1. CASE {"harness", "model"} \cap DOMAIN b # {}
  BY <1>1 DEF Book!Accepted, Book!_validate_repo_harness_model, HasHarness
<1>2. CASE "harness" \notin DOMAIN b /\ "model" \notin DOMAIN b
  <2>1. Book!Merge(b, row)["harness"] = row["harness"] /\ Book!Merge(b, row)["model"] = row["model"]
    BY <1>2, MergedRow DEF Book!Fields
  <2> QED
    BY <2>1 DEF HasHarness
<1> QED
  BY <1>1, <1>2

(* The first half of an update.                                               *)
LEMMA ReadsFits ==
  ASSUME BookInv, NEW h \in Book!Hands, NEW b, Sent(b), Book!Reads(h, b)
  PROVE  \E r : /\ request' = [request EXCEPT ![h] = r] /\ RequestOK(r) /\ r.op = "patch"
                /\ patches' \in 0 .. MaxPatches
<1> DEFINE n == Book!Normalized(b)
           r == [op |-> "patch", old |-> repo, body |-> n, ask |-> Nil]
<1>1. /\ repo \in Book!Row /\ HasHarness(repo) /\ Book!Accepted(n, Book!Merge(n, repo))
      /\ request' = [request EXCEPT ![h] = r]
      /\ patches < MaxPatches /\ patches' = patches + 1
  BY DEF Book!Reads, BookInv
<1>2. Fits(n)
  BY <1>1, AcceptedFits
<1> HIDE DEF n
<1>3. HasHarness(Book!Merge(n, repo))
  <2>1. PICK row \in Book!Row : row = repo
    BY <1>1
  <2>2. PICK m : m = n
    OBVIOUS
  <2>3. Fits(m) /\ HasHarness(row) /\ Book!Accepted(m, Book!Merge(m, row))
    BY <1>1, <1>2, <2>1, <2>2
  <2>4. HasHarness(Book!Merge(m, row))
    BY <2>3, AcceptedKeepsHarness
  <2> QED
    BY <2>1, <2>2, <2>4
<1>4. RequestOK(r) /\ r.op = "patch"
  BY <1>1, <1>2, <1>3 DEF RequestOK
<1>5. patches' \in 0 .. MaxPatches
  BY <1>1, BookAssumption DEF FormsAdmitted, BookInv
<1> QED
  BY <1>1, <1>4, <1>5

(* The book of a repository begins with the invariant.                        *)
LEMMA BookStarts == Book!Init => BookInv
<1> SUFFICES ASSUME Book!Init PROVE BookInv
  OBVIOUS
<1>1. TouchOK(<<>>)
  BY DEF TouchOK
<1>2. {MaxTasks, MaxRepos, MaxPatches} \subseteq Nat
  BY BookAssumption DEF FormsAdmitted
<1> QED
  BY <1>1, <1>2 DEF Book!Init, BookInv, RequestOK, Book!Idle, Book!Dash, Book!Hands, Book!NoOrphans

(* What leaves the book alone keeps it.                                       *)
LEMMA BookRests == BookInv /\ UNCHANGED bookVars => BookInv'
  BY DEF bookVars, BookInv, Book!NoOrphans

-----------------------------------------------------------------------------
(* The service's steps *)

LEMMA CreatesKeepBook ==
  ASSUME BookInv, Book!create_repo
  PROVE  BookInv' /\ repo = Nil /\ births' = births + 1 /\ UNCHANGED <<request, tasks>>
<1>1. PICK b \in Patches :
        LET row == Book!Merge(Book!Normalized(b), Book!Merge([held |-> FALSE], Book!Blank))
        IN  Book!Accepted(Book!Normalized(b), row) /\ Book!_create_repo(row)
  BY DEF Book!create_repo
<1>2. UNCHANGED <<request, tasks, form, modal, draft, patches>>
  BY DEF Book!create_repo
<1> DEFINE n == Book!Normalized(b)
           row == Book!Merge(n, Book!Merge([held |-> FALSE], Book!Blank))
<1>3. Book!Accepted(n, row) /\ repo = Nil /\ births < MaxRepos /\ repo' = row /\ births' = births + 1
  BY <1>1 DEF Book!_create_repo
<1>4. Sent(b)
  BY BookAssumption DEF FormsAdmitted, Sent
<1>5. Fits(n)
  BY <1>3, <1>4, AcceptedFits
<1>6. row \in Book!Row
  BY <1>5, BlankRow
<1>7. HasHarness(row)
  <2>1. CASE {"harness", "model"} \cap DOMAIN n # {}
    BY <1>3, <2>1 DEF Book!Accepted, Book!_validate_repo_harness_model, HasHarness
  <2>2. CASE "model" \notin DOMAIN n
    BY <2>2 DEF HasHarness, Book!Merge, Book!Blank
  <2> QED
    BY <2>1, <2>2
<1>8. births' \in 0 .. MaxRepos
  BY <1>3, BookAssumption DEF BookInv, FormsAdmitted
<1> HIDE DEF row
<1> QED
  BY <1>2, <1>3, <1>6, <1>7, <1>8 DEF BookInv, HasHarness, Book!NoOrphans

(* The store's write: all of the row but the hold.                            *)
LEMMA UpdatesKeepBook ==
  ASSUME BookInv, NEW h \in Book!Hands, Book!update_repo(h)
  PROVE  /\ BookInv'
         /\ repo = Nil => repo' = Nil
         /\ repo # Nil => repo'.held = repo.held
         /\ \A k \in Book!Hands : k # h => request'[k] = request[k]
         /\ repo = request[h].old =>
              \A f \in Book!Fields \ DOMAIN request[h].body : repo'[f] = repo[f]
<1>1. /\ request[h].op = "patch" /\ request' = [request EXCEPT ![h] = Book!Idle]
      /\ UNCHANGED <<births, tasks, modal, draft, patches>>
      /\ form' \in {form, Nil}
      /\ repo' = IF repo = Nil THEN Nil ELSE Book!_update_repo(request[h].old, request[h].body)
  BY DEF Book!update_repo
<1>2. /\ request[h].old \in Book!Row /\ Fits(request[h].body)
      /\ HasHarness(Book!Merge(request[h].body, request[h].old))
  BY <1>1 DEF BookInv, RequestOK, Book!Idle
<1>3. PICK old \in Book!Row : old = request[h].old
  BY <1>2
<1>4. PICK b : b = request[h].body
  OBVIOUS
<1> DEFINE m == Book!Merge(b, old)
<1>5. /\ m \in Book!Row /\ HasHarness(m)
      /\ \A f \in Book!Fields : m[f] = IF f \in DOMAIN b THEN b[f] ELSE old[f]
  BY <1>2, <1>3, <1>4, MergedRow
<1>6. repo # Nil => repo' = [m EXCEPT !.held = repo.held]
  BY <1>1, <1>3, <1>4 DEF Book!_update_repo
<1> HIDE DEF m
<1>7. repo # Nil =>
        /\ repo' \in Book!Row /\ repo'.held = repo.held
        /\ \A f \in Book!Fields : repo'[f] = m[f]
  <2>1. repo # Nil => repo.held \in BOOLEAN
    BY DEF BookInv, Book!Row
  <2> QED
    BY <1>5, <1>6, <2>1 DEF Book!Row, Book!Fields
<1>8. repo # Nil => HasHarness(repo')
  BY <1>5, <1>7 DEF HasHarness, Book!Fields
<1>9. /\ request' = [k \in Book!Hands |-> request'[k]]
      /\ \A k \in Book!Hands : RequestOK(request'[k])
      /\ \A k \in Book!Hands : k # h => request'[k] = request[k]
      /\ request'[Book!Dash].op = "task" => request[Book!Dash].op = "task"
  BY <1>1 DEF BookInv, RequestOK, Book!Idle, Book!Hands
<1>10. repo' = Nil => tasks' = <<>>
  BY <1>1, <1>7, BookAssumption DEF BookInv, Book!NoOrphans, FormsAdmitted
<1>11. BookInv'
  BY <1>1, <1>7, <1>8, <1>9, <1>10 DEF BookInv, HasHarness, Book!NoOrphans
<1>12. repo = old => \A f \in Book!Fields \ DOMAIN b : repo'[f] = repo[f]
  <2>1. CASE repo = Nil
    BY <1>1, <2>1
  <2> QED
    BY <1>5, <1>7, <2>1
<1> QED
  BY <1>1, <1>3, <1>4, <1>7, <1>9, <1>11, <1>12

(* Everything else the service does to the row.                               *)
LEMMA HoldsKeepBook == BookInv /\ (Book!SetHold \/ Book!delete_repo) => BookInv'
<1> SUFFICES ASSUME BookInv, Book!SetHold \/ Book!delete_repo PROVE BookInv'
  OBVIOUS
<1>1. UNCHANGED <<births, request, tasks, form, modal, draft, patches>>
  BY DEF Book!SetHold, Book!delete_repo
<1>2. repo' = Nil \/ (repo' \in Book!Row /\ HasHarness(repo'))
  <2>1. CASE repo \in Book!Row /\ HasHarness(repo) /\ repo' = [repo EXCEPT !.held = ~ @]
    BY <2>1 DEF Book!Row, HasHarness
  <2> QED
    BY <2>1 DEF BookInv, Book!SetHold, Book!delete_repo, Book!_delete_repo
<1>3. repo' = Nil => tasks = <<>>
  <2>1. CASE Book!delete_repo
    BY <2>1 DEF Book!delete_repo, Book!_delete_repo
  <2>2. CASE Book!SetHold
    <3>1. repo' \in Book!Row
      BY <2>2 DEF BookInv, Book!SetHold, Book!Row
    <3> QED
      BY <3>1, BookAssumption DEF FormsAdmitted
  <2> QED
    BY <2>1, <2>2
<1> QED
  BY <1>1, <1>2, <1>3 DEF BookInv, HasHarness, Book!NoOrphans

(* A request is read and waits for its write.                                 *)
LEMMA PatchesKeepBook ==
  ASSUME BookInv, NEW h \in Book!Hands, NEW b, Sent(b), Book!Reads(h, b),
         UNCHANGED <<repo, births, tasks, form, modal, draft>>
  PROVE  BookInv' /\ request'[h] # Book!Idle /\ \A k \in Book!Hands : k # h => request'[k] = request[k]
<1>1. PICK r : /\ request' = [request EXCEPT ![h] = r] /\ RequestOK(r) /\ r.op = "patch"
               /\ patches' \in 0 .. MaxPatches
  BY ReadsFits
<1>2. /\ request' = [k \in Book!Hands |-> request'[k]]
      /\ \A k \in Book!Hands : RequestOK(request'[k])
      /\ \A k \in Book!Hands : k # h => request'[k] = request[k]
      /\ request'[Book!Dash].op = "task" => request[Book!Dash].op = "task"
      /\ request'[h] # Book!Idle
  <2>1. request = [k \in Book!Hands |-> request[k]] /\ \A k \in Book!Hands : RequestOK(request[k])
    BY DEF BookInv
  <2>2. /\ request' = [k \in Book!Hands |-> request'[k]]
        /\ request'[h] = r /\ \A k \in Book!Hands : k # h => request'[k] = request[k]
    BY <1>1, <2>1
  <2>3. r # Book!Idle /\ r.op # "task"
    BY <1>1 DEF Book!Idle
  <2>4. Book!Dash \in Book!Hands
    BY DEF Book!Hands
  <2> QED
    BY <1>1, <2>1, <2>2, <2>3, <2>4
<1> QED
  BY <1>1, <1>2 DEF BookInv, Book!NoOrphans

-----------------------------------------------------------------------------
(* The dashboard's steps *)

(* The edit form sends every field back.                                      *)
LEMMA FormsFit ==
  ASSUME BookInv, form # Nil, NEW b \in Patches
  PROVE  Sent(Book!FormBody(b))
<1>1. form \in Book!Row /\ Sent(b)
  BY BookAssumption DEF BookInv, FormsAdmitted, Sent
<1>2. DOMAIN Book!FormBody(b) \subseteq Book!Fields
  BY <1>1 DEF Book!FormBody, Book!Merge, Sent
<1>3. Book!FormBody(b)["model"] = (IF "model" \in DOMAIN b THEN b["model"] ELSE form["model"])
  BY DEF Book!FormBody, Book!Merge, Book!Fields
<1>4. Book!FormBody(b)["enabled"] = (IF "enabled" \in DOMAIN b THEN b["enabled"] ELSE form["enabled"])
  BY DEF Book!FormBody, Book!Merge, Book!Fields
<1>5. form["model"] \in Book!Model \cup {Nil} /\ form["enabled"] \in BOOLEAN
  BY <1>1 DEF Book!Row
<1> HIDE DEF Book!FormBody
<1> QED
  BY <1>1, <1>2, <1>3, <1>4, <1>5 DEF Sent

(* What opens and closes the form and the modal.                              *)
LEMMA WindowsKeepBook ==
  ASSUME BookInv,
         \/ Book!EditRepo \/ Book!DeleteFromForm \/ Book!Leave \/ Book!Quit
         \/ Book!NewTask \/ Book!Cancel
  PROVE  BookInv'
<1>1. UNCHANGED <<births, request, tasks, patches>> /\ repo' \in {repo, Nil}
  BY DEF Book!EditRepo, Book!DeleteFromForm, Book!Leave, Book!Quit, Book!NewTask, Book!Cancel,
     Book!_delete_repo
<1>2. form' \in Book!Row \cup {Nil} /\ (form' = Nil \/ modal' = Nil) /\ TouchOK(draft')
  BY DEF BookInv, ModalOK, Book!EditRepo, Book!DeleteFromForm, Book!Leave, Book!Quit, Book!NewTask,
     Book!Cancel, Book!AtRest
<1>3. modal' # Nil => ModalOK(modal')
  BY DEF BookInv, ModalOK, Book!EditRepo, Book!DeleteFromForm, Book!Leave, Book!Quit, Book!NewTask,
     Book!Cancel
<1>4. request[Book!Dash].op = "task" => modal' = Nil
  BY DEF BookInv, Book!EditRepo, Book!DeleteFromForm, Book!Leave, Book!Quit, Book!NewTask,
     Book!Cancel, Book!AtRest, Book!Idle
<1>5. repo' # repo => tasks = <<>>
  BY DEF Book!EditRepo, Book!DeleteFromForm, Book!Leave, Book!Quit, Book!NewTask, Book!Cancel,
     Book!_delete_repo
<1> QED
  BY <1>1, <1>2, <1>3, <1>4, <1>5 DEF BookInv, HasHarness, Book!NoOrphans

(* What the modal shows, whatever was touched.                                *)
LEMMA ShowsFit ==
  ASSUME NEW row \in Book!Row, NEW t, TouchOK(t)
  PROVE  /\ ShownOK(Book!resolve_launch_selection(row, t))
         /\ "harness" \in DOMAIN t => Book!resolve_launch_selection(row, t).harness = t["harness"]
<1> DEFINE harness == IF row.harness # Nil THEN row.harness ELSE Book!DEFAULT_HARNESS
           kept == IF "harness" \in DOMAIN t THEN <<"", "">> ELSE Book!Split(row.model)
           n == [harness |-> harness, name |-> kept[1], effort |-> kept[2]]
<1>1. Book!resolve_launch_selection(row, t) = Book!Merge(t, n)
  BY DEF Book!resolve_launch_selection
<1>2. harness \in Book!Harness
  BY DEF Book!Row, Book!Harness, Book!DEFAULT_HARNESS
<1>3. kept[1] \in Book!Names /\ kept[2] \in Book!Efforts
  <2>1. Book!Split(row.model)[1] \in Book!Names /\ Book!Split(row.model)[2] \in Book!Efforts
    BY DEF Book!Split, Book!Row, Book!Model, Book!Names, Book!Efforts
  <2> QED
    BY <2>1 DEF Book!Names, Book!Efforts
<1> HIDE DEF harness, kept
<1>4. ShownOK(Book!Merge(t, n))
  BY <1>2, <1>3 DEF ShownOK, TouchOK, Book!Merge
<1>5. "harness" \in DOMAIN t => Book!Merge(t, n).harness = t["harness"]
  BY DEF Book!Merge
<1> QED
  BY <1>1, <1>4, <1>5

(* A field is touched.                                                        *)
LEMMA TouchesKeepBook == BookInv /\ Book!launch_field_changed => BookInv'
<1> SUFFICES ASSUME BookInv, Book!launch_field_changed PROVE BookInv'
  OBVIOUS
<1>1. /\ modal # Nil /\ UNCHANGED <<repo, births, request, tasks, form, draft, patches>>
      /\ ModalOK(modal)
  BY DEF BookInv, Book!launch_field_changed
<1> DEFINE launch == Book!resolve_launch_selection(modal.repo, modal.touched)
<1>2. PICK touch \in Touches \cup {[harness |-> Book!Cycled(launch.harness)]} :
        modal' = [modal EXCEPT !.touched = Book!Merge(touch, @)]
  BY DEF Book!launch_field_changed
<1>3. TouchOK(touch)
  <2>1. CASE touch \in Touches
    BY <2>1, BookAssumption DEF FormsAdmitted, TouchOK
  <2>2. CASE touch = [harness |-> Book!Cycled(launch.harness)]
    <3>1. Book!Cycled(launch.harness) \in Book!Harness
      BY DEF Book!Cycled, Book!Harness
    <3> QED
      BY <2>2, <3>1 DEF TouchOK
  <2> QED
    BY <1>2, <2>1, <2>2
<1>4. TouchOK(Book!Merge(touch, modal.touched))
  BY <1>1, <1>3 DEF ModalOK, TouchOK, Book!Merge
<1>5. modal' = [repo |-> modal.repo, touched |-> Book!Merge(touch, modal.touched)]
  BY <1>1, <1>2 DEF ModalOK
<1>6. ModalOK(modal')
  BY <1>1, <1>4, <1>5 DEF ModalOK
<1> QED
  BY <1>1, <1>6 DEF BookInv, Book!NoOrphans

(* The draft is sent: the service reads the row and will insert the task.     *)
LEMMA SubmitKeepsBook == BookInv /\ Book!Submit => BookInv' /\ UNCHANGED <<repo, tasks>>
<1> SUFFICES ASSUME BookInv, Book!Submit PROVE BookInv' /\ UNCHANGED <<repo, tasks>>
  OBVIOUS
<1>1. /\ modal # Nil /\ ModalOK(modal) /\ Len(tasks) < MaxTasks /\ draft' = <<>> /\ modal' = Nil
      /\ UNCHANGED <<repo, births, tasks, form, patches>>
  BY DEF BookInv, Book!Submit
<1>2. TouchOK(draft')
  BY <1>1 DEF TouchOK
<1>3. CASE UNCHANGED request
  BY <1>1, <1>2, <1>3 DEF BookInv, Book!NoOrphans
<1>4. CASE UNCHANGED request => FALSE
  <2> DEFINE touched == DOMAIN modal.touched
             launch == Book!resolve_launch_selection(modal.repo, modal.touched)
             r == [op |-> "task", old |-> repo, body |-> <<>>, ask |-> Book!Asked(launch, touched)]
  <2>1. repo # Nil /\ request' = [request EXCEPT ![Book!Dash] = r]
    BY <1>4 DEF Book!Submit
  <2>2. ShownOK(launch)
    BY <1>1, ShowsFit DEF ModalOK
  <2> HIDE DEF launch, touched
  <2>3. AskOK(Book!Asked(launch, touched))
    BY <2>2 DEF AskOK, Book!Asked
  <2>4. RequestOK(r)
    BY <2>1, <2>3 DEF RequestOK, BookInv
  <2>5. /\ request' = [k \in Book!Hands |-> request'[k]]
        /\ \A k \in Book!Hands : RequestOK(request'[k])
    BY <2>1, <2>4 DEF BookInv
  <2> QED
    BY <1>1, <1>2, <2>5 DEF BookInv, Book!NoOrphans
<1> QED
  BY <1>3, <1>4

(* What a task starts with.                                                   *)
LaunchedSo ==
  LET ask == request[Book!Dash].ask
      pair == Book!Pair(request[Book!Dash].old)
  IN /\ "harness" \in ask.touched => Book!Arrived.harness = ask.shown.harness
     /\ ask.touched \cap {"name", "effort"} # {} /\ ask.shown.name # ""
          => Book!Arrived.model = Book!starting_model(ask.shown)
     /\ ask.touched = {} => Book!Arrived.harness = pair.harness /\ Book!Arrived.model = pair.model
     /\ Book!Arrived.harness # pair.harness
          => Book!Arrived.model \in {Nil, Book!starting_model(ask.shown)}

LEMMA RefusalKeepsBook ==
  ASSUME BookInv, Book!_create_task_locked, repo = Nil
  PROVE  BookInv' /\ UNCHANGED <<repo, tasks>>
<1>1. /\ request' = [request EXCEPT ![Book!Dash] = Book!Idle]
      /\ UNCHANGED <<repo, births, form, modal, draft, patches, tasks>>
  BY DEF Book!_create_task_locked, Book!_create_task
<1>2. /\ request' = [k \in Book!Hands |-> request'[k]]
      /\ \A k \in Book!Hands : RequestOK(request'[k])
      /\ request'[Book!Dash].op # "task"
  BY <1>1 DEF BookInv, RequestOK, Book!Idle, Book!Hands
<1> QED
  BY <1>1, <1>2 DEF BookInv, Book!NoOrphans

LEMMA InsertKeepsBook ==
  ASSUME BookInv, Book!_create_task_locked, repo # Nil
  PROVE  BookInv' /\ UNCHANGED repo /\ LaunchedSo
<1> DEFINE r == request[Book!Dash]
<1>1. /\ r.op = "task" /\ request' = [request EXCEPT ![Book!Dash] = Book!Idle]
      /\ UNCHANGED <<repo, births, form, modal, draft, patches>>
      /\ tasks' = Append(tasks, Book!Merge([paused |-> r.old.held],
                                           Book!Chosen(r.ask, Book!Pair(r.old))))
  BY DEF Book!_create_task_locked, Book!_create_task
<1>2. Book!Dash \in Book!Hands
  BY DEF Book!Hands
<1>3. /\ r.old \in Book!Row /\ AskOK(r.ask) /\ Len(tasks) < MaxTasks /\ tasks \in Seq(TaskRows)
  BY <1>1, <1>2 DEF BookInv, RequestOK, Book!Idle
<1>4. PICK old \in Book!Row : old = r.old
  BY <1>3
<1>5. PICK ask : ask = r.ask
  OBVIOUS
<1> DEFINE pair == Book!Pair(old)
           c == Book!Chosen(ask, pair)
           t == Book!Merge([paused |-> old.held], c)
<1>6. pair.harness \in Book!Harness /\ pair.model \in Book!Model \cup {Nil}
  BY DEF Book!Pair, Book!Row, Book!DEFAULT_HARNESS, Book!Harness
<1>7. Book!starting_model(ask.shown) \in Book!Model \cup {Nil}
      /\ (ask.shown.name # "" => Book!starting_model(ask.shown) \in Book!Model)
  BY <1>3, <1>5 DEF AskOK, ShownOK, Book!starting_model, Book!Model, Book!Names
<1>8. /\ c = [harness |-> c.harness, model |-> c.model]
      /\ c.harness = IF ask.harness # Nil THEN ask.harness ELSE pair.harness
      /\ c.model = IF ask.model = Nil /\ ask.harness \in {Nil, pair.harness} THEN pair.model
                   ELSE ask.model
  BY DEF Book!Chosen
<1> HIDE DEF pair, c
<1>9. t = [harness |-> c.harness, model |-> c.model, paused |-> old.held]
  <2>1. DOMAIN c = {"harness", "model"}
    BY <1>8
  <2>2. t = [f \in {"harness", "model", "paused"} |-> IF f = "paused" THEN old.held ELSE c[f]]
    BY <2>1 DEF Book!Merge
  <2> HIDE DEF t
  <2>3. t = [harness |-> t["harness"], model |-> t["model"], paused |-> t["paused"]]
    BY <2>2
  <2>4. t["harness"] = c["harness"] /\ t["model"] = c["model"] /\ t["paused"] = old.held
    BY <2>2
  <2> QED
    BY <2>3, <2>4
<1>10. ask.harness \in Book!Harness \cup {Nil} /\ ask.model \in Book!Model \cup {Nil}
  BY <1>3, <1>5, <1>7 DEF AskOK, ShownOK
<1>11. t \in TaskRows
  BY <1>6, <1>8, <1>9, <1>10 DEF TaskRows, Book!Row
<1>12. tasks' = Append(tasks, t)
  BY <1>1, <1>4, <1>5 DEF pair, c
<1> HIDE DEF t
<1>13. tasks' \in Seq(TaskRows) /\ Len(tasks') = Len(tasks) + 1 /\ Book!Arrived = t
  BY <1>3, <1>11, <1>12 DEF Book!Arrived
<1>14. Len(tasks') <= MaxTasks
  BY <1>3, <1>13, BookAssumption DEF FormsAdmitted
<1>15. /\ request' = [k \in Book!Hands |-> request'[k]]
       /\ \A k \in Book!Hands : RequestOK(request'[k])
       /\ request'[Book!Dash].op # "task"
  BY <1>1, <1>2 DEF BookInv, RequestOK, Book!Idle
<1>16. BookInv'
  BY <1>1, <1>13, <1>14, <1>15 DEF BookInv, HasHarness, Book!NoOrphans
<1>17. LaunchedSo
  <2>1. Nil \notin Book!Harness \cup Book!Model
    BY BookAssumption DEF FormsAdmitted
  <2>2. Book!Arrived.harness = c.harness /\ Book!Arrived.model = c.model
    BY <1>9, <1>13
  <2>3. "harness" \in ask.touched => c.harness = ask.shown.harness
    BY <1>3, <1>5, <1>8, <2>1 DEF AskOK, ShownOK
  <2>4. ask.touched \cap {"name", "effort"} # {} /\ ask.shown.name # ""
          => c.model = Book!starting_model(ask.shown)
    BY <1>3, <1>5, <1>7, <1>8, <2>1 DEF AskOK
  <2>5. ask.touched = {} => c.harness = pair.harness /\ c.model = pair.model
    BY <1>3, <1>5, <1>8 DEF AskOK
  <2>6. c.harness # pair.harness => c.model \in {Nil, Book!starting_model(ask.shown)}
    BY <1>3, <1>5, <1>8 DEF AskOK
  <2> QED
    BY <1>4, <1>5, <2>2, <2>3, <2>4, <2>5, <2>6 DEF LaunchedSo, pair
<1> QED
  BY <1>1, <1>16, <1>17

-----------------------------------------------------------------------------
(* The record holds what it was last told *)

(* What no step of the book does.                                             *)
HonestSteps ==
  /\ repo # Nil /\ repo' # Nil /\ repo'.held # repo.held => request' = request
  /\ \A h \in Book!Hands :
       request[h].op = "patch" /\ request'[h] = Book!Idle /\ repo = request[h].old
         => \A f \in Book!Fields \ DOMAIN request[h].body : repo'[f] = repo[f]
  /\ repo = Nil /\ repo' # Nil => births' = births + 1
  /\ tasks' # tasks => LaunchedSo

(* A patch under way is not idle.                                             *)
LEMMA PatchIsBusy == \A r : r.op = "patch" => r # Book!Idle
  BY DEF Book!Idle

LEMMA BookStepKeeps ==
  ASSUME BookInv, Book!Next
  PROVE  BookInv' /\ HonestSteps
<1>1. CASE Book!create_repo
  BY <1>1, CreatesKeepBook, PatchIsBusy DEF HonestSteps
<1>2. CASE Book!delete_repo \/ Book!SetHold
  <2>1. UNCHANGED <<request, tasks>> /\ repo # Nil
    BY <1>2 DEF Book!delete_repo, Book!SetHold, Book!_delete_repo
  <2> QED
    BY <1>2, <2>1, HoldsKeepBook, PatchIsBusy DEF HonestSteps
<1>3. ASSUME NEW c \in Clients, Book!Patch(c) PROVE BookInv' /\ HonestSteps
  <2>1. PICK b \in Patches : Book!Reads(c, b)
    BY <1>3 DEF Book!Patch
  <2>2. Sent(b) /\ c \in Book!Hands
    BY BookAssumption DEF FormsAdmitted, Sent, Book!Hands
  <2>3. UNCHANGED <<repo, births, tasks, form, modal, draft>>
    BY <1>3 DEF Book!Patch
  <2> QED
    BY <2>1, <2>2, <2>3, PatchesKeepBook DEF HonestSteps
<1>4. CASE Book!SaveForm
  <2>1. PICK b \in Patches : Book!Reads(Book!Dash, Book!FormBody(b))
    BY <1>4 DEF Book!SaveForm
  <2>2. UNCHANGED <<repo, births, tasks, form, modal, draft>> /\ form # Nil
    BY <1>4 DEF Book!SaveForm
  <2>3. Sent(Book!FormBody(b)) /\ Book!Dash \in Book!Hands
    BY <2>2, FormsFit DEF Book!Hands
  <2>4. PICK m : m = Book!FormBody(b)
    OBVIOUS
  <2>5. BookInv'
    BY <2>1, <2>2, <2>3, <2>4, PatchesKeepBook
  <2> QED
    BY <2>2, <2>5 DEF HonestSteps
<1>5. ASSUME NEW h \in Book!Hands, Book!update_repo(h) PROVE BookInv' /\ HonestSteps
  <2>1. /\ BookInv' /\ (repo = Nil => repo' = Nil) /\ (repo # Nil => repo'.held = repo.held)
        /\ \A k \in Book!Hands : k # h => request'[k] = request[k]
        /\ repo = request[h].old =>
             \A f \in Book!Fields \ DOMAIN request[h].body : repo'[f] = repo[f]
    BY <1>5, UpdatesKeepBook
  <2>2. UNCHANGED tasks
    BY <1>5 DEF Book!update_repo
  <2> QED
    BY <2>1, <2>2, PatchIsBusy DEF HonestSteps
<1>6. CASE \/ Book!EditRepo \/ Book!DeleteFromForm \/ Book!Leave \/ Book!Quit
           \/ Book!NewTask \/ Book!Cancel
  <2>1. UNCHANGED <<request, tasks>> /\ (repo' = repo \/ repo' = Nil)
    BY <1>6 DEF Book!EditRepo, Book!DeleteFromForm, Book!Leave, Book!Quit, Book!NewTask,
       Book!Cancel, Book!_delete_repo
  <2> QED
    BY <1>6, <2>1, WindowsKeepBook, PatchIsBusy DEF HonestSteps
<1>7. CASE Book!launch_field_changed
  <2>1. UNCHANGED <<repo, tasks>>
    BY <1>7 DEF Book!launch_field_changed
  <2> QED
    BY <1>7, <2>1, TouchesKeepBook DEF HonestSteps
<1>8. CASE Book!Submit
  BY <1>8, SubmitKeepsBook DEF HonestSteps
<1>9. CASE Book!_create_task_locked
  <2>1. CASE repo = Nil
    BY <1>9, <2>1, RefusalKeepsBook DEF HonestSteps
  <2>2. CASE repo # Nil
    BY <1>9, <2>2, InsertKeepsBook DEF HonestSteps
  <2> QED
    BY <2>1, <2>2
<1> QED
  BY <1>1, <1>2, <1>3, <1>4, <1>5, <1>6, <1>7, <1>8, <1>9 DEF Book!Next

LEMMA BookKeepsRecord ==
  ASSUME BookInv, [BookNext]_vars
  PROVE  BookInv' /\ [HonestSteps]_(Book!bookVars)
<1>1. CASE Book!Next
  BY <1>1, BookStepKeeps
<1>2. CASE UNCHANGED bookVars
  BY <1>2, BookRests DEF bookVars, Book!bookVars
<1> QED
  BY <1>1, <1>2 DEF BookNext, vars, bookVars

(* What the invariant says of types and defaults.                             *)
LEMMA BookPromises == BookInv => Book!TypeOK /\ Book!ModelHasHarness /\ Book!NoOrphans
<1> SUFFICES ASSUME BookInv PROVE Book!TypeOK /\ Book!ModelHasHarness /\ Book!NoOrphans
  OBVIOUS
<1>1. ASSUME NEW h \in Book!Hands
      PROVE  /\ request[h].op \in {"none", "patch", "task"}
             /\ (request[h].op = "none") <=> (request[h] = Book!Idle)
             /\ request[h].op # "none" => request[h].old \in Book!Row
  BY DEF BookInv, RequestOK, Book!Idle
<1>2. ASSUME NEW i \in 1 .. Len(tasks)
      PROVE  tasks[i].harness \in Book!Harness /\ tasks[i].model \in Book!Model \cup {Nil}
  <2>1. tasks[i] \in TaskRows
    BY DEF BookInv
  <2> QED
    BY <2>1 DEF TaskRows
<1>3. repo \in Book!Row \cup {Nil} /\ Book!ModelHasHarness /\ Book!NoOrphans
  BY DEF BookInv, HasHarness, Book!ModelHasHarness
<1> QED
  BY <1>1, <1>2, <1>3 DEF BookInv, ModalOK, Book!TypeOK

(* Whichever requests, forms, modals and deletions of one repository overlap, *)
(* a default model keeps its harness, the hold moves only by set-up, a patch  *)
(* nothing overtook keeps what it does not name, a deleted repository stays   *)
(* deleted and leaves no task behind, not even one that was being created,    *)
(* and a task starts with what was asked (service.py, dashboard.py).          *)
THEOREM RecordIsHonest == Spec => DefaultsAreHonest
<1>1. BookInit => BookInv
  BY BookStarts DEF BookInit
<1>2. BookInv /\ [BookNext]_vars => BookInv' /\ [HonestSteps]_(Book!bookVars)
  BY BookKeepsRecord
<1>3. BookInv => Book!TypeOK /\ Book!ModelHasHarness /\ Book!NoOrphans
  BY BookPromises
<1>4. [HonestSteps]_(Book!bookVars) =>
        /\ [repo # Nil /\ repo' # Nil /\ repo'.held # repo.held
              => request' = request]_(Book!bookVars)
        /\ [\A h \in Book!Hands :
              request[h].op = "patch" /\ request'[h] = Book!Idle /\ repo = request[h].old
                => \A f \in Book!Fields \ DOMAIN request[h].body :
                     repo'[f] = repo[f]]_(Book!bookVars)
        /\ [repo = Nil /\ repo' # Nil => births' = births + 1]_(Book!bookVars)
        /\ [tasks' # tasks => LaunchedSo]_(Book!bookVars)
  BY DEF HonestSteps
<1> QED
  BY <1>1, <1>2, <1>3, <1>4, PTL DEF Spec, DefaultsAreHonest, Book!DefaultsAreHonest,
     Book!HoldSurvivesPatches, Book!LonePatchKeepsTheRest, Book!DeletedStaysDeleted,
     Book!LaunchedAsAsked, LaunchedSo

-----------------------------------------------------------------------------
(* Set-up of a repository *)

SetupFields == {"pc", "command", "snapshot", "id", "candidate", "connection", "harness",
                "replace", "ref"}
SetupSteps == {"lock", "connect", "save", "find", "create", "inspect", "hold", "compose", "bind",
               "finish"}
Sources == DOMAIN kit.candidates
Logins  == [auth : SUBSET Repos!Keys, login : SUBSET Repos!Harnesses, forge : BOOLEAN,
            other : BOOLEAN]
Usable(file, h) ==
  /\ file.auth \subseteq Repos!AUTH_KEYS(h) /\ ~file.forge /\ ~file.other
  /\ file.auth # {} \/ h \in file.login
RepoRecord == [source : Sources \cup {Nil}, env : DOMAIN files \cup {Nil},
               dir : DOMAIN files \cup {Nil}, harness : Repos!Harnesses \cup {Nil}, held : BOOLEAN]

Active(u) == setup[u].pc \notin Repos!Resting

(* What the scene in play admits. *)
KitFits ==
  /\ DOMAIN kit = KitFields /\ kit.overlap \in BOOLEAN
  /\ Nil \notin Repos!Harnesses \cup DOMAIN repoRow \cup Sources
  /\ kit.candidates \in [Sources -> Seq(DOMAIN repoRow)]
  /\ \A c \in kit.commands :
       /\ c.harness \in Repos!Harnesses
       /\ c.name \in IF kit.overlap THEN {"setup", "quickstart"} ELSE {"repair"}
       /\ c.name = "repair" => c.id \in DOMAIN repoRow
       /\ c.name = "quickstart" =>
            /\ c.source \in Sources
            /\ \A id \in DOMAIN repoRow :
                 repoRow[id].source = c.source => repoRow[id].harness = c.harness
            /\ \A d \in kit.commands :
                 d.name = "quickstart" /\ d.source = c.source => d.harness = c.harness

(* Rows name sources and files that are there; a saved connection is one. *)
RowsFit ==
  /\ files \in Seq(Logins)
  /\ repoRow \in [DOMAIN repoRow -> RepoRecord]
  /\ \A id \in DOMAIN repoRow : repoRow[id].source = Nil => repoRow[id].env = Nil
  /\ \A h \in Repos!Harnesses : connections[h] # Nil =>
       connections[h] \in DOMAIN files /\ Usable(files[connections[h]], h)

(* A task on its way into a container is not held, and a task that is owed a  *)
(* retry is.                                                                  *)
TaskFits(t) ==
  /\ DOMAIN t = TaskFields
  /\ t.lifecycle \in {"none", "starting", "failed"} /\ t.held \in BOOLEAN
  /\ t.claimed => t.repo # Nil
  /\ t.spawning => t.claimed /\ ~t.held /\ ~t.running /\ t.lifecycle = "none"
  /\ t.running => t.claimed /\ ~t.held /\ t.lifecycle # "failed"
  /\ t.registered => t.running

TasksFit ==
  /\ \A t \in DOMAIN backlog : TaskFits(backlog[t])
  /\ owed \subseteq DOMAIN backlog /\ \A t \in owed : backlog[t].held /\ backlog[t].repo # Nil

(* The hold of a set-up under way: its repository's admission is closed, and  *)
(* no launch has read the binding that it will replace without settling.      *)
Holds(u) == setup[u].pc \in {"compose", "bind"}
              \/ (setup[u].pc \in {"connect", "save"} /\ setup[u].id # Nil)
Closed(id) == repoRow[id].held /\ \A t \in Repos!TasksOf(id) : ~backlog[t].spawning

LockFits ==
  /\ DOMAIN setup = Setups /\ lock \in Setups \cup {Nil, "legacy"}
  /\ \A u \in Setups :
       lock = u <=> setup[u].pc \in {"connect", "save", "compose", "bind", "finish"}

SetupFits(u) ==
  LET s == setup[u]
  IN /\ DOMAIN s = SetupFields /\ s.pc \in SetupSteps \cup Repos!Resting /\ s.candidate \in Nat
     /\ s.id \in DOMAIN repoRow \cup {Nil} /\ s.connection \in DOMAIN files \cup {Nil}
     /\ Active(u) =>
          /\ s.command \in kit.commands /\ s.harness = s.command.harness
          /\ s.command.name = "repair" => s.id # Nil
          /\ s.command.name = "setup" => s.id = Nil /\ s.pc \in {"lock", "connect", "save"}
          /\ s.id # Nil =>
               /\ s.pc \notin {"lock", "find", "create"} /\ repoRow[s.id].source # Nil
               /\ s.command.name = "quickstart" => repoRow[s.id].source = s.command.source
     /\ s.pc \in {"inspect", "hold", "compose", "bind", "finish"} => s.id # Nil
     /\ s.pc = "save" => s.ref \in DOMAIN files /\ Usable(files[s.ref], s.harness)
     /\ Holds(u) => Closed(s.id)
     /\ kit.overlap /\ s.pc \in {"find", "create", "inspect"} => s.connection # Nil

(* Ids are given out in the order of the candidates: each one passed over is  *)
(* another source's, so two set-ups of one source meet at the same id.        *)
Taken(s, n) == \A i \in 1 .. n : repoRow[kit.candidates[s][i]].source # Nil
Foreign(s, n) == \A i \in 1 .. n : repoRow[kit.candidates[s][i]].source \notin {Nil, s}
Placed(id, s) == \E n \in DOMAIN kit.candidates[s] :
                   kit.candidates[s][n] = id /\ Foreign(s, n - 1)

SearchFits(u) ==
  LET s == setup[u] source == s.command.source tried == s.candidate
  IN /\ s.pc \in {"lock", "connect", "save"} /\ s.id = Nil => tried = 0
     /\ s.pc = "find" => tried <= Len(kit.candidates[source]) /\ Taken(source, tried)
     /\ s.pc = "create" =>
          /\ tried > 0 /\ tried <= Len(kit.candidates[source]) + 1 /\ Foreign(source, tried - 1)
          /\ \A id \in DOMAIN repoRow : repoRow[id].source = source => Placed(id, source)

(* What a credential file keeps of another, and what a set-up may have added. *)
Keeps(old, new, h) ==
  /\ old.auth \subseteq new.auth \cup Repos!AUTH_KEYS(h)
  /\ (old.forge => new.forge) /\ (old.other => new.other)
Adds(old, new, h, g) ==
  new.auth \subseteq old.auth \cup Repos!AUTH_KEYS(h) /\ (new.forge => old.forge \/ g) /\ (new.other => old.other)

(* The repository as a set-up read it, and what has become of it since: other *)
(* set-ups of the source have added no more than this one will.               *)
HasRead(u) == setup[u].id # Nil /\ setup[u].pc \in {"hold", "connect", "save", "compose", "bind"}
ReadOf(u)  == Repos!Content(setup[u].snapshot.env)
Bound(u)   == Repos!Content(repoRow[setup[u].id].env)
Forge(u)   == Repos!is_github_source(repoRow[setup[u].id].source)

Composed(u) ==
  LET s == setup[u]
  IN /\ s.ref \in DOMAIN files
     /\ Keeps(ReadOf(u), files[s.ref], s.harness)
     /\ Adds(ReadOf(u), files[s.ref], s.harness, Forge(u))
     /\ Forge(u) => files[s.ref].forge
     /\ s.connection = Nil => ReadOf(u).auth \subseteq files[s.ref].auth
     /\ s.connection # Nil => /\ s.connection \in DOMAIN files
                             /\ Usable(files[s.connection], s.harness)
                             /\ files[s.connection].auth \subseteq files[s.ref].auth

ReadFits(u) ==
  LET s == setup[u]
  IN HasRead(u) =>
       /\ s.snapshot \in RepoRecord /\ s.snapshot.source = repoRow[s.id].source
       /\ Keeps(ReadOf(u), Bound(u), s.harness)
       /\ Adds(ReadOf(u), Bound(u), s.harness, Forge(u))
       /\ ~kit.overlap => s.snapshot.env = repoRow[s.id].env
       /\ s.pc = "bind" => Composed(u)

ReadsAgree ==
  /\ ~kit.overlap => \A u, v \in Setups : Active(u) /\ Active(v) => u = v
  /\ \A u, v \in Setups : HasRead(u) /\ HasRead(v) /\ setup[u].id = setup[v].id =>
       Adds(ReadOf(u), ReadOf(v), setup[u].harness, Forge(u))

SetupInv ==
  /\ KitFits /\ RowsFit /\ TasksFit /\ LockFits
  /\ \A u \in Setups : SetupFits(u) /\ SearchFits(u) /\ ReadFits(u)
  /\ Repos!OneRepoPerSource /\ ReadsAgree

(* What no step of set-up undoes: the scene's parameters, the repositories    *)
(* and their sources, and every file that was written.                        *)
Grown ==
  /\ DOMAIN kit' = KitFields /\ kit'.overlap = kit.overlap /\ kit'.commands = kit.commands
  /\ kit'.github = kit.github /\ kit'.candidates = kit.candidates
  /\ DOMAIN connections' = DOMAIN connections /\ DOMAIN repoRow' = DOMAIN repoRow
  /\ \A id \in DOMAIN repoRow :
       repoRow[id].source # Nil => repoRow'[id].source = repoRow[id].source
  /\ DOMAIN files \subseteq DOMAIN files' /\ \A f \in DOMAIN files : files'[f] = files[f]

LEMMA GrownTypes ==
  ASSUME Grown
  PROVE  /\ Repos!Harnesses' = Repos!Harnesses /\ Sources' = Sources /\ Logins' = Logins
         /\ RepoRecord \subseteq RepoRecord'
BY DEF Grown, Repos!Harnesses, Sources, Logins, RepoRecord

LEMMA ContentStays ==
  ASSUME Grown, Nil \notin Nat, files \in Seq(Logins), NEW f \in DOMAIN files \cup {Nil}
  PROVE  Repos!Content(f)' = Repos!Content(f) /\ Repos!Content(f) \in Logins
<1>1. CASE f = Nil
  BY <1>1 DEF Repos!Content, Repos!Empty, Logins
<1>2. CASE f \in DOMAIN files
  BY <1>2 DEF Grown, Repos!Content
<1> QED
  BY <1>1, <1>2

(* A step to new values of some of a set-up's or a task's fields.             *)
LEMMA SetupSets ==
  ASSUME NEW u \in DOMAIN setup, DOMAIN setup[u] = SetupFields, NEW fields, Repos!To(u, fields)
  PROVE  /\ DOMAIN setup' = DOMAIN setup
         /\ \A v \in DOMAIN setup \ {u} : setup'[v] = setup[v]
         /\ DOMAIN setup'[u] = SetupFields
         /\ \A f \in SetupFields :
              setup'[u][f] = IF f \in DOMAIN fields THEN fields[f] ELSE setup[u][f]
<1> DEFINE new == [f \in DOMAIN setup[u] |-> IF f \in DOMAIN fields THEN fields[f] ELSE setup[u][f]]
<1>1. setup' = [setup EXCEPT ![u] = new]
  BY DEF Repos!To
<1>2. DOMAIN new = SetupFields
  OBVIOUS
<1>3. \A f \in SetupFields : new[f] = IF f \in DOMAIN fields THEN fields[f] ELSE setup[u][f]
  OBVIOUS
<1> HIDE DEF new
<1> QED
  BY <1>1, <1>2, <1>3

LEMMA TaskSets ==
  ASSUME NEW t \in DOMAIN backlog, DOMAIN backlog[t] = TaskFields, NEW fields,
         Repos!Change(t, fields)
  PROVE  /\ DOMAIN backlog' = DOMAIN backlog
         /\ \A x \in DOMAIN backlog \ {t} : backlog'[x] = backlog[x]
         /\ DOMAIN backlog'[t] = TaskFields
         /\ \A f \in TaskFields :
              backlog'[t][f] = IF f \in DOMAIN fields THEN fields[f] ELSE backlog[t][f]
<1> DEFINE new == [f \in DOMAIN backlog[t] |->
                     IF f \in DOMAIN fields THEN fields[f] ELSE backlog[t][f]]
<1>1. backlog' = [backlog EXCEPT ![t] = new]
  BY DEF Repos!Change
<1>2. DOMAIN new = TaskFields
  OBVIOUS
<1>3. \A f \in TaskFields : new[f] = IF f \in DOMAIN fields THEN fields[f] ELSE backlog[t][f]
  OBVIOUS
<1> HIDE DEF new
<1> QED
  BY <1>1, <1>2, <1>3

-----------------------------------------------------------------------------
(* A set-up that did not step *)

(* A registration that is new took the first free candidate of its source.    *)
NewlyPlaced ==
  \A id \in DOMAIN repoRow :
    repoRow[id].source = Nil /\ repoRow'[id].source # Nil => Placed(id, repoRow[id].source)'

(* The ids passed over stay passed over.                                      *)
LEMMA SearchStays ==
  ASSUME KitFits, Grown, NewlyPlaced, NEW s \in Sources
  PROVE  /\ \A n \in 0 .. Len(kit.candidates[s]) : Taken(s, n) => Taken(s, n)'
         /\ \A n \in 0 .. Len(kit.candidates[s]) : Foreign(s, n) => Foreign(s, n)'
         /\ (\A id \in DOMAIN repoRow : repoRow[id].source = s => Placed(id, s))
              => \A id \in DOMAIN repoRow' : repoRow'[id].source = s => Placed(id, s)'
<1>1. /\ kit.candidates[s] \in Seq(DOMAIN repoRow) /\ kit'.candidates[s] = kit.candidates[s]
      /\ s # Nil
  BY DEF KitFits, Grown, Sources
<1>2. \A i \in 1 .. Len(kit.candidates[s]) : kit.candidates[s][i] \in DOMAIN repoRow
  BY <1>1
<1>3. \A n \in 0 .. Len(kit.candidates[s]) : Taken(s, n) => Taken(s, n)'
  BY <1>1, <1>2 DEF Taken, Grown
<1>4. \A n \in 0 .. Len(kit.candidates[s]) : Foreign(s, n) => Foreign(s, n)'
  BY <1>1, <1>2 DEF Foreign, Grown
<1>5. ASSUME NEW id \in DOMAIN repoRow, Placed(id, s)
      PROVE  Placed(id, s)'
  <2>1. PICK n \in DOMAIN kit.candidates[s] : kit.candidates[s][n] = id /\ Foreign(s, n - 1)
    BY <1>5 DEF Placed
  <2>2. n \in 1 .. Len(kit.candidates[s]) /\ n - 1 \in 0 .. Len(kit.candidates[s])
    BY <1>1
  <2>3. Foreign(s, n - 1)'
    BY <1>4, <2>1, <2>2
  <2> QED
    BY <1>1, <2>1, <2>3 DEF Placed
<1>6. ASSUME \A id \in DOMAIN repoRow : repoRow[id].source = s => Placed(id, s),
             NEW id \in DOMAIN repoRow', repoRow'[id].source = s
      PROVE  Placed(id, s)'
  <2>1. id \in DOMAIN repoRow
    BY DEF Grown
  <2>2. CASE repoRow[id].source = Nil
    BY <1>1, <1>6, <2>1, <2>2 DEF NewlyPlaced, Placed, Foreign
  <2>3. CASE repoRow[id].source # Nil
    BY <1>5, <1>6, <2>1, <2>3 DEF Grown
  <2> QED
    BY <2>2, <2>3
<1> QED
  BY <1>3, <1>4, <1>6

LEMMA OthersFit ==
  ASSUME SetupInv, Grown, NewlyPlaced, NEW v \in Setups, setup'[v] = setup[v],
         Holds(v) => Closed(setup[v].id)'
  PROVE  SetupFits(v)' /\ SearchFits(v)'
<1>1. SetupFits(v) /\ SearchFits(v) /\ KitFits
  BY DEF SetupInv
<1>2. SetupFits(v)'
  BY <1>1 DEF SetupFits, Active, Holds, Grown, Repos!Resting
<1>3. SearchFits(v)'
  <2> DEFINE s == setup[v].command.source
  <2>1. CASE setup[v].pc \in {"find", "create"}
    <3>1. s \in Sources
      BY <1>1, <2>1 DEF SetupFits, KitFits, Active, Repos!Resting
    <3>2. /\ setup[v].candidate \in Nat
          /\ kit.candidates[s] \in Seq(DOMAIN repoRow) /\ kit'.candidates[s] = kit.candidates[s]
      BY <1>1, <3>1 DEF SetupFits, KitFits, Grown, Sources
    <3>3. CASE setup[v].pc = "find"
      <4>1. setup[v].candidate \in 0 .. Len(kit.candidates[s]) /\ Taken(s, setup[v].candidate)
        BY <1>1, <3>2, <3>3 DEF SearchFits
      <4>2. Taken(s, setup[v].candidate)'
        BY <1>1, <3>1, <4>1, SearchStays
      <4> QED
        BY <3>2, <3>3, <4>1, <4>2 DEF SearchFits
    <3>4. CASE setup[v].pc = "create"
      <4>1. /\ setup[v].candidate - 1 \in 0 .. Len(kit.candidates[s]) /\ setup[v].candidate > 0
            /\ Foreign(s, setup[v].candidate - 1)
            /\ \A id \in DOMAIN repoRow : repoRow[id].source = s => Placed(id, s)
        BY <1>1, <3>2, <3>4 DEF SearchFits
      <4>2. /\ Foreign(s, setup[v].candidate - 1)'
            /\ \A id \in DOMAIN repoRow' : repoRow'[id].source = s => Placed(id, s)'
        BY <1>1, <3>1, <4>1, SearchStays
      <4> QED
        BY <3>2, <3>4, <4>1, <4>2 DEF SearchFits
    <3> QED
      BY <2>1, <3>3, <3>4
  <2>2. CASE setup[v].pc \notin {"find", "create"}
    BY <1>1, <2>2 DEF SearchFits
  <2> QED
    BY <2>1, <2>2
<1> QED
  BY <1>2, <1>3

(* What it has read stays what it was while the binding does.                 *)
LEMMA OthersRead ==
  ASSUME SetupInv, Grown, NEW v \in Setups, setup'[v] = setup[v],
         HasRead(v) => repoRow'[setup[v].id].env = repoRow[setup[v].id].env
  PROVE  ReadFits(v)'
<1>1. SetupFits(v) /\ ReadFits(v) /\ RowsFit
  BY DEF SetupInv
<1> SUFFICES ASSUME HasRead(v) PROVE ReadFits(v)'
  BY DEF ReadFits, HasRead
<1>2. /\ setup[v].id \in DOMAIN repoRow /\ repoRow[setup[v].id].source # Nil
      /\ repoRow'[setup[v].id].source = repoRow[setup[v].id].source
  BY <1>1 DEF SetupFits, HasRead, Grown, Active, Repos!Resting
<1>3. /\ setup[v].snapshot.env \in DOMAIN files \cup {Nil}
      /\ repoRow[setup[v].id].env \in DOMAIN files \cup {Nil}
  BY <1>1, <1>2 DEF ReadFits, RowsFit, RepoRecord
<1>4. ReadOf(v)' = ReadOf(v) /\ Bound(v)' = Bound(v) /\ Forge(v)' = Forge(v)
  <2>1. ReadOf(v)' = ReadOf(v)
    BY <1>1, <1>3, ContentStays, KitsAssumption DEF ReadOf, RowsFit, KitsAdmitted
  <2>2. PICK e : e = repoRow[setup[v].id].env
    OBVIOUS
  <2>3. Repos!Content(e)' = Repos!Content(e)
    BY <1>1, <1>3, <2>2, ContentStays, KitsAssumption DEF RowsFit, KitsAdmitted
  <2>4. Bound(v) = Repos!Content(e) /\ Bound(v)' = Repos!Content(e)'
    BY <2>2 DEF Bound, Repos!Content, HasRead
  <2> QED
    BY <1>2, <2>1, <2>3, <2>4 DEF Forge, Grown, Repos!is_github_source
<1> QED
  BY <1>1, <1>2, <1>4, GrownTypes DEF ReadFits, Composed, HasRead, Grown, RowsFit

-----------------------------------------------------------------------------
(* What a step has to show *)

LEMMA KitStays ==
  ASSUME KitFits, Grown,
         \A id \in DOMAIN repoRow :
           \/ repoRow'[id].source = repoRow[id].source /\ repoRow'[id].harness = repoRow[id].harness
           \/ \A c \in kit.commands :
                c.name = "quickstart" /\ repoRow'[id].source = c.source
                  => repoRow'[id].harness = c.harness
  PROVE  KitFits'
BY DEF KitFits, Grown, Repos!Harnesses, Sources

LEMMA RowsStay ==
  ASSUME RowsFit, Grown, files' \in Seq(Logins), UNCHANGED <<repoRow, connections>>
  PROVE  RowsFit'
<1>1. Logins' = Logins /\ RepoRecord \subseteq RepoRecord' /\ Repos!Harnesses' = Repos!Harnesses
  BY GrownTypes
<1> QED
  BY <1>1 DEF RowsFit, Grown

(* Both have read what they had read.                                         *)
LEMMA ReadsStay ==
  ASSUME SetupInv, Grown, NEW u \in Setups,
         \A v \in Setups \ {u} : setup'[v] = setup[v],
         HasRead(u)' => /\ HasRead(u) /\ setup'[u].id = setup[u].id
                        /\ setup'[u].snapshot = setup[u].snapshot
                        /\ setup'[u].harness = setup[u].harness,
         ~kit.overlap /\ Active(u)' => Active(u) \/ \A v \in Setups \ {u} : ~Active(v)
  PROVE  ReadsAgree'
<1>1. kit'.overlap = kit.overlap /\ ReadsAgree
  BY DEF Grown, SetupInv
<1>2. ~kit.overlap => \A v, w \in Setups : Active(v)' /\ Active(w)' => v = w
  BY <1>1 DEF ReadsAgree, Active
<1>3. ASSUME NEW v \in Setups, HasRead(v)'
      PROVE  /\ HasRead(v) /\ setup'[v].id = setup[v].id /\ setup'[v].harness = setup[v].harness
             /\ ReadOf(v)' = ReadOf(v) /\ Forge(v)' = Forge(v)
  <2>1. /\ HasRead(v) /\ setup'[v].id = setup[v].id /\ setup'[v].harness = setup[v].harness
        /\ setup'[v].snapshot = setup[v].snapshot
    BY <1>3 DEF HasRead
  <2>2. /\ setup[v].id \in DOMAIN repoRow /\ repoRow[setup[v].id].source # Nil
        /\ setup[v].snapshot.env \in DOMAIN files \cup {Nil}
    BY <2>1 DEF SetupInv, SetupFits, ReadFits, HasRead, RepoRecord, Active, Repos!Resting
  <2>3. Forge(v)' = Forge(v)
    BY <2>1, <2>2 DEF Forge, Grown, Repos!is_github_source
  <2>4. PICK e : e = setup[v].snapshot.env
    OBVIOUS
  <2>5. Repos!Content(e)' = Repos!Content(e)
    BY <2>2, <2>4, ContentStays, KitsAssumption DEF SetupInv, RowsFit, KitsAdmitted
  <2>6. ReadOf(v) = Repos!Content(e) /\ ReadOf(v)' = Repos!Content(e)'
    BY <2>1, <2>4 DEF ReadOf, Repos!Content
  <2> QED
    BY <2>1, <2>3, <2>5, <2>6
<1>4. ASSUME NEW v \in Setups, NEW w \in Setups, HasRead(v)', HasRead(w)',
             setup'[v].id = setup'[w].id
      PROVE  Adds(ReadOf(v)', ReadOf(w)', setup'[v].harness, Forge(v)')
  BY <1>1, <1>3, <1>4 DEF ReadsAgree
<1> QED
  BY <1>1, <1>2, <1>4 DEF ReadsAgree, Adds

(* A step of one set-up that binds nothing.                                   *)
LEMMA StepKeepsSetup ==
  ASSUME SetupInv, Grown, NewlyPlaced, NEW u \in Setups,
         \A v \in Setups \ {u} : setup'[v] = setup[v],
         KitFits', RowsFit', TasksFit', LockFits', Repos!OneRepoPerSource',
         SetupFits(u)', SearchFits(u)', ReadFits(u)', ReadsAgree',
         \A v \in Setups \ {u} : Holds(v) => Closed(setup[v].id)',
         \A id \in DOMAIN repoRow : repoRow[id].source # Nil => repoRow'[id].env = repoRow[id].env
  PROVE  SetupInv'
<1>1. ASSUME NEW v \in Setups \ {u}
      PROVE  SetupFits(v)' /\ SearchFits(v)' /\ ReadFits(v)'
  <2>1. SetupFits(v)' /\ SearchFits(v)'
    BY OthersFit
  <2>2. HasRead(v) => setup[v].id \in DOMAIN repoRow /\ repoRow[setup[v].id].source # Nil
    BY DEF SetupInv, SetupFits, HasRead, Active, Repos!Resting
  <2>3. ReadFits(v)'
    BY <2>2, OthersRead
  <2> QED
    BY <2>1, <2>3
<1> QED
  BY <1>1 DEF SetupInv

(* Where no row, file, connection or task changes but the set-up and perhaps  *)
(* the lock.                                                                  *)
LEMMA QuietStep ==
  ASSUME SetupInv, NEW u \in Setups,
         \A v \in Setups \ {u} : setup'[v] = setup[v],
         UNCHANGED <<repoRow, connections, backlog, owed>>,
         DOMAIN kit' = KitFields, kit'.overlap = kit.overlap, kit'.commands = kit.commands,
         kit'.github = kit.github, kit'.candidates = kit.candidates,
         files' \in Seq(Logins), DOMAIN files \subseteq DOMAIN files',
         \A f \in DOMAIN files : files'[f] = files[f],
         LockFits', SetupFits(u)', SearchFits(u)', ReadFits(u)',
         HasRead(u)' => /\ HasRead(u) /\ setup'[u].id = setup[u].id
                        /\ setup'[u].snapshot = setup[u].snapshot
                        /\ setup'[u].harness = setup[u].harness,
         ~kit.overlap /\ Active(u)' => Active(u) \/ \A v \in Setups \ {u} : ~Active(v)
  PROVE  SetupInv'
<1>1. Grown /\ NewlyPlaced
  BY DEF Grown, NewlyPlaced
<1>2. KitFits' /\ RowsFit'
  BY <1>1, KitStays, RowsStay DEF SetupInv
<1>3. TasksFit' /\ Repos!OneRepoPerSource'
  BY DEF SetupInv, TasksFit, TaskFits, Repos!OneRepoPerSource
<1>4. ReadsAgree'
  BY <1>1, ReadsStay
<1>5. \A v \in Setups \ {u} : Holds(v) => Closed(setup[v].id)'
  BY DEF SetupInv, SetupFits, Closed, Repos!TasksOf
<1> QED
  BY <1>1, <1>2, <1>3, <1>4, <1>5, StepKeepsSetup

-----------------------------------------------------------------------------
(* The steps of a set-up *)

LEMMA FieldsSet ==
  ASSUME SetupInv, NEW u \in Setups, NEW fields, Repos!To(u, fields)
  PROVE  /\ DOMAIN setup' = Setups
         /\ \A v \in Setups \ {u} : setup'[v] = setup[v]
         /\ DOMAIN setup'[u] = SetupFields
         /\ \A f \in SetupFields :
              setup'[u][f] = IF f \in DOMAIN fields THEN fields[f] ELSE setup[u][f]
<1>1. DOMAIN setup = Setups /\ DOMAIN setup[u] = SetupFields
  BY DEF SetupInv, LockFits, SetupFits
<1> QED
  BY <1>1, SetupSets

LEMMA StepSet ==
  ASSUME SetupInv, NEW u \in Setups, NEW p, Repos!To(u, [pc |-> p])
  PROVE  /\ DOMAIN setup' = Setups
         /\ \A v \in Setups \ {u} : setup'[v] = setup[v]
         /\ DOMAIN setup'[u] = SetupFields /\ setup'[u].pc = p
         /\ \A f \in SetupFields \ {"pc"} : setup'[u][f] = setup[u][f]
<1>1. /\ DOMAIN setup' = Setups
      /\ \A v \in Setups \ {u} : setup'[v] = setup[v]
      /\ DOMAIN setup'[u] = SetupFields
      /\ \A f \in SetupFields :
           setup'[u][f] = IF f \in DOMAIN [pc |-> p] THEN [pc |-> p][f] ELSE setup[u][f]
  BY FieldsSet
<1> QED
  BY <1>1 DEF SetupFields

(* What it has read and what is bound stay what they were.                    *)
LEMMA ReadsSame ==
  ASSUME SetupInv, Grown, NEW u \in Setups, HasRead(u), setup'[u].id = setup[u].id,
         setup'[u].snapshot = setup[u].snapshot,
         repoRow'[setup[u].id].env = repoRow[setup[u].id].env
  PROVE  /\ ReadOf(u)' = ReadOf(u) /\ Bound(u)' = Bound(u) /\ Forge(u)' = Forge(u)
         /\ setup[u].id \in DOMAIN repoRow /\ repoRow[setup[u].id].source # Nil
         /\ repoRow'[setup[u].id].source = repoRow[setup[u].id].source
         /\ ReadOf(u) \in Logins
<1>1. SetupFits(u) /\ ReadFits(u) /\ RowsFit
  BY DEF SetupInv
<1>2. /\ setup[u].id \in DOMAIN repoRow /\ repoRow[setup[u].id].source # Nil
      /\ repoRow'[setup[u].id].source = repoRow[setup[u].id].source
  BY <1>1 DEF SetupFits, HasRead, Grown, Active, Repos!Resting
<1>3. /\ setup[u].snapshot.env \in DOMAIN files \cup {Nil}
      /\ repoRow[setup[u].id].env \in DOMAIN files \cup {Nil}
  BY <1>1, <1>2 DEF ReadFits, RowsFit, RepoRecord
<1>4. PICK e, f : e = repoRow[setup[u].id].env /\ f = setup[u].snapshot.env
  OBVIOUS
<1>5. /\ Repos!Content(e)' = Repos!Content(e) /\ Repos!Content(f)' = Repos!Content(f)
      /\ Repos!Content(f) \in Logins
  BY <1>1, <1>3, <1>4, ContentStays, KitsAssumption DEF RowsFit, KitsAdmitted
<1>6. Bound(u) = Repos!Content(e) /\ Bound(u)' = Repos!Content(e)'
  BY <1>4 DEF Bound, Repos!Content
<1>7. ReadOf(u) = Repos!Content(f) /\ ReadOf(u)' = Repos!Content(f)'
  BY <1>4 DEF ReadOf, Repos!Content
<1> QED
  BY <1>2, <1>5, <1>6, <1>7 DEF Forge, Grown, Repos!is_github_source

(* Of what it has read, nothing is lost before the new file is composed.      *)
LEMMA ReadGoesOn ==
  ASSUME SetupInv, Grown, NEW u \in Setups, setup'[u].pc = "bind" => Composed(u)',
         files' \in Seq(Logins),
         HasRead(u)' => /\ HasRead(u) /\ setup'[u].id = setup[u].id
                        /\ setup'[u].snapshot = setup[u].snapshot
                        /\ setup'[u].harness = setup[u].harness
                        /\ setup'[u].connection \in {setup[u].connection} \cup DOMAIN files'
                        /\ repoRow'[setup[u].id].env = repoRow[setup[u].id].env
  PROVE  ReadFits(u)'
<1>1. ReadFits(u)
  BY DEF SetupInv
<1> SUFFICES ASSUME HasRead(u)' PROVE ReadFits(u)'
  BY DEF ReadFits
<1>2. /\ HasRead(u) /\ setup'[u].id = setup[u].id /\ setup'[u].snapshot = setup[u].snapshot
      /\ setup'[u].harness = setup[u].harness
      /\ setup'[u].connection \in {setup[u].connection} \cup DOMAIN files'
      /\ repoRow'[setup[u].id].env = repoRow[setup[u].id].env
  OBVIOUS
<1>3. /\ ReadOf(u)' = ReadOf(u) /\ Bound(u)' = Bound(u) /\ Forge(u)' = Forge(u)
      /\ repoRow'[setup[u].id].source = repoRow[setup[u].id].source
  BY <1>2, ReadsSame
<1>4. Nil \notin DOMAIN files'
  BY KitsAssumption DEF KitsAdmitted
<1> QED
  BY <1>1, <1>2, <1>3, <1>4, GrownTypes DEF ReadFits, Grown

(* It ends, wherever it is; the lock is released, the holds stay.             *)
LEMMA EndKeepsSetup ==
  ASSUME SetupInv, NEW u \in Setups, NEW how \in Repos!Resting, Repos!End(u, how),
         UNCHANGED <<repoRow, files, connections, backlog, owed>>,
         DOMAIN kit' = KitFields, kit'.overlap = kit.overlap, kit'.commands = kit.commands,
         kit'.github = kit.github, kit'.candidates = kit.candidates
  PROVE  SetupInv'
<1>1. /\ DOMAIN setup' = Setups
      /\ \A v \in Setups \ {u} : setup'[v] = setup[v]
      /\ DOMAIN setup'[u] = SetupFields /\ setup'[u].pc = how
      /\ \A f \in SetupFields \ {"pc"} : setup'[u][f] = setup[u][f]
  BY StepSet DEF Repos!End
<1>2. LockFits'
  BY <1>1, KitsAssumption DEF SetupInv, LockFits, Repos!End, Repos!Resting, KitsAdmitted
<1>3. SetupFits(u)' /\ SearchFits(u)' /\ ReadFits(u)' /\ ~HasRead(u)' /\ ~Active(u)'
  BY <1>1 DEF SetupInv, SetupFits, SearchFits, ReadFits, HasRead, Active, Holds, Repos!Resting,
     SetupFields, SetupSteps
<1> QED
  BY <1>1, <1>2, <1>3, QuietStep DEF SetupInv, RowsFit

LEMMA InterruptKeepsSetup ==
  ASSUME SetupInv, NEW u \in Setups, Repos!Interrupt(u)
  PROVE  SetupInv'
<1>1. /\ DOMAIN kit' = KitFields /\ kit'.overlap = kit.overlap /\ kit'.commands = kit.commands
      /\ kit'.github = kit.github /\ kit'.candidates = kit.candidates
  BY DEF Repos!Interrupt, SetupInv, KitFits, KitFields
<1> QED
  BY <1>1, EndKeepsSetup DEF Repos!Interrupt, Repos!Resting

(* A command is given.                                                        *)
LEMMA RunKeepsSetup ==
  ASSUME SetupInv, NEW u \in Setups, NEW c \in kit.commands, Repos!Run(u, c)
  PROVE  SetupInv'
<1>1. /\ DOMAIN kit' = KitFields /\ kit'.overlap = kit.overlap /\ kit'.commands = kit.commands
      /\ kit'.github = kit.github /\ kit'.candidates = kit.candidates
      /\ UNCHANGED <<repoRow, files, connections, lock, backlog, owed>>
  BY DEF Repos!Run, SetupInv, KitFits, KitFields
<1>2. /\ DOMAIN setup' = Setups /\ DOMAIN setup'[u] = SetupFields
      /\ \A v \in Setups \ {u} : setup'[v] = setup[v]
      /\ setup'[u].command = c /\ setup'[u].harness = c.harness /\ setup'[u].candidate = 0
      /\ setup'[u].connection = Nil
      /\ setup'[u].id = IF c.name = "repair" THEN c.id ELSE Nil
      /\ setup'[u].pc = IF c.name = "repair" THEN "inspect" ELSE "lock"
  BY DEF Repos!Run, Repos!Idle, SetupFields, SetupInv, LockFits
<1>3. LockFits'
  BY <1>1, <1>2 DEF SetupInv, LockFits, Repos!Run, Repos!Resting
<1>4. SetupFits(u)'
  BY <1>1, <1>2 DEF SetupInv, KitFits, SetupFits, Active, Holds, SetupSteps, Repos!Run
<1>5. SearchFits(u)' /\ ReadFits(u)' /\ ~HasRead(u)'
  BY <1>2 DEF SearchFits, ReadFits, HasRead
<1>6. ~kit.overlap => \A v \in Setups \ {u} : ~Active(v)
  BY DEF SetupInv, KitFits, Active, Repos!Run
<1> QED
  BY <1>1, <1>2, <1>3, <1>4, <1>5, <1>6, QuietStep DEF SetupInv, RowsFit

(* The lock is taken, or the set-up fails.                                    *)
LEMMA LockKeepsSetup ==
  ASSUME SetupInv, NEW u \in Setups, Repos!configure_connection(u)
  PROVE  SetupInv'
<1>1. /\ DOMAIN kit' = KitFields /\ kit' = kit
      /\ UNCHANGED <<repoRow, files, connections, backlog, owed>>
  BY DEF Repos!configure_connection, SetupInv, KitFits
<1>2. CASE lock = Nil
  <2>1. lock' = u /\ Repos!To(u, [pc |-> "connect"]) /\ setup[u].pc = "lock"
    BY <1>2 DEF Repos!configure_connection
  <2>2. /\ DOMAIN setup' = Setups
        /\ \A v \in Setups \ {u} : setup'[v] = setup[v]
        /\ DOMAIN setup'[u] = SetupFields /\ setup'[u].pc = "connect"
        /\ \A f \in SetupFields \ {"pc"} : setup'[u][f] = setup[u][f]
    BY <2>1, StepSet
  <2>3. LockFits'
    BY <1>2, <2>1, <2>2, KitsAssumption DEF SetupInv, LockFits, KitsAdmitted
  <2>4. SetupFits(u)'
    BY <1>1, <2>1, <2>2 DEF SetupInv, SetupFits, Active, Holds, SetupSteps, SetupFields,
       Repos!Resting
  <2>5. setup'[u].id = Nil /\ Active(u)
    BY <2>1, <2>2 DEF SetupInv, SetupFits, Active, SetupFields, Repos!Resting
  <2>6. SearchFits(u)' /\ ReadFits(u)' /\ ~HasRead(u)'
    BY <2>1, <2>2, <2>5 DEF SetupInv, SearchFits, ReadFits, HasRead, SetupFields
  <2> QED
    BY <1>1, <2>2, <2>3, <2>4, <2>5, <2>6, QuietStep DEF SetupInv, RowsFit
<1>3. CASE lock # Nil
  BY <1>1, <1>3, EndKeepsSetup DEF Repos!configure_connection, Repos!Resting
<1> QED
  BY <1>2, <1>3

-----------------------------------------------------------------------------
(* The connection of a set-up that holds its repository is what it composes   *)
(* with; that of one that does not is what it will register with.             *)
LEMMA ConnectedStep ==
  ASSUME SetupInv, NEW u \in Setups, NEW ref \in DOMAIN files,
         setup[u].pc \in {"connect", "save"}, Repos!To(u, Repos!After(u, ref)), Repos!Keep(u)
  PROVE  /\ DOMAIN setup' = Setups
         /\ \A v \in Setups \ {u} : setup'[v] = setup[v]
         /\ DOMAIN setup'[u] = SetupFields
         /\ setup'[u].connection = ref
         /\ \A f \in SetupFields \ {"pc", "connection"} : setup'[u][f] = setup[u][f]
         /\ setup'[u].pc = IF setup[u].id # Nil THEN "compose"
                           ELSE IF setup[u].command.name = "setup" THEN "done" ELSE "find"
         /\ LockFits'
<1>1. /\ DOMAIN setup' = Setups
      /\ \A v \in Setups \ {u} : setup'[v] = setup[v]
      /\ DOMAIN setup'[u] = SetupFields
      /\ \A f \in SetupFields :
           setup'[u][f] = IF f \in DOMAIN Repos!After(u, ref)
                          THEN Repos!After(u, ref)[f] ELSE setup[u][f]
  BY FieldsSet
<1>2. /\ DOMAIN Repos!After(u, ref) = {"pc", "connection"}
      /\ Repos!After(u, ref).connection = ref
      /\ Repos!After(u, ref).pc = IF setup[u].id # Nil THEN "compose"
              ELSE IF setup[u].command.name = "setup" THEN "done" ELSE "find"
  BY DEF Repos!After
<1>3. /\ setup'[u].connection = ref
      /\ \A f \in SetupFields \ {"pc", "connection"} : setup'[u][f] = setup[u][f]
      /\ setup'[u].pc = IF setup[u].id # Nil THEN "compose"
                        ELSE IF setup[u].command.name = "setup" THEN "done" ELSE "find"
  BY <1>1, <1>2 DEF SetupFields
<1>4. lock = u /\ lock' = IF setup[u].id # Nil THEN lock ELSE Nil
  BY DEF SetupInv, LockFits, Repos!Keep
<1>5. LockFits'
  BY <1>1, <1>3, <1>4, KitsAssumption DEF SetupInv, LockFits, KitsAdmitted
<1> QED
  BY <1>1, <1>3, <1>5

LEMMA ConnectedFits ==
  ASSUME SetupInv, Grown, UNCHANGED <<repoRow, backlog>>, files' \in Seq(Logins),
         NEW u \in Setups, NEW ref \in DOMAIN files,
         setup[u].pc \in {"connect", "save"}, Repos!To(u, Repos!After(u, ref)), Repos!Keep(u)
  PROVE  SetupFits(u)' /\ SearchFits(u)' /\ ReadFits(u)'
<1>1. /\ DOMAIN setup'[u] = SetupFields /\ setup'[u].connection = ref
      /\ \A f \in SetupFields \ {"pc", "connection"} : setup'[u][f] = setup[u][f]
      /\ setup'[u].pc = IF setup[u].id # Nil THEN "compose"
                        ELSE IF setup[u].command.name = "setup" THEN "done" ELSE "find"
  BY ConnectedStep
<1>2. /\ setup'[u].command = setup[u].command /\ setup'[u].harness = setup[u].harness
      /\ setup'[u].id = setup[u].id /\ setup'[u].snapshot = setup[u].snapshot
      /\ setup'[u].candidate = setup[u].candidate
  BY <1>1 DEF SetupFields
<1>3. /\ SetupFits(u) /\ Active(u) /\ ref # Nil
      /\ setup[u].id # Nil => Holds(u) /\ HasRead(u)
  BY KitsAssumption DEF SetupInv, RowsFit, Active, Holds, HasRead, Repos!Resting, KitsAdmitted
<1>4. SetupFits(u)'
  BY <1>1, <1>2, <1>3 DEF SetupFits, Active, Holds, Closed, Grown, SetupSteps, Repos!Resting,
     Repos!TasksOf
<1>5. SearchFits(u)'
  <2>1. CASE setup'[u].pc = "find"
    <3>1. setup[u].candidate = 0
      BY <1>1, <1>2, <2>1 DEF SetupInv, SearchFits
    <3>2. /\ setup'[u].command = setup[u].command /\ setup'[u].candidate = 0
          /\ setup[u].command.source \in Sources
      BY <1>1, <1>2, <1>3, <2>1, <3>1 DEF SetupInv, SetupFits, KitFits
    <3>3. kit'.candidates[setup[u].command.source] \in Seq(DOMAIN repoRow)
      BY <3>2 DEF SetupInv, KitFits, Grown, Sources
    <3> QED
      BY <2>1, <3>2, <3>3 DEF SearchFits, Taken
  <2>2. CASE setup'[u].pc # "find"
    BY <1>1, <1>2, <2>2 DEF SearchFits
  <2> QED
    BY <2>1, <2>2
<1>6. ReadFits(u)'
  <2>1. HasRead(u)' => HasRead(u)
    BY <1>1, <1>2, <1>3 DEF HasRead
  <2>2. setup'[u].pc # "bind"
    BY <1>1
  <2> QED
    BY <1>1, <1>2, <2>1, <2>2, ReadGoesOn DEF Grown
<1> QED
  BY <1>4, <1>5, <1>6

LEMMA FileWritten ==
  ASSUME RowsFit, NEW new \in Logins, Repos!Write(new)
  PROVE  /\ files' \in Seq(Logins) /\ DOMAIN files \subseteq DOMAIN files'
         /\ \A f \in DOMAIN files : files'[f] = files[f]
         /\ Repos!Fresh \in DOMAIN files' /\ files'[Repos!Fresh] = new
         /\ Repos!Fresh \notin DOMAIN files
BY DEF RowsFit, Repos!Write, Repos!Fresh

(* The saved connection serves, a login writes one, or the set-up fails.      *)
LEMMA KeysFit == \A h : Repos!AUTH_KEYS(h) \subseteq Repos!Keys /\ Repos!AUTH_KEYS(h) # {}
BY DEF Repos!AUTH_KEYS, Repos!Keys

LEMMA LoginUsable ==
  ASSUME NEW h \in Repos!Harnesses, NEW new \in Repos!Login(h)
  PROVE  new \in Logins /\ Usable(new, h)
<1>1. CASE new = [Repos!Empty EXCEPT !.login = {h}]
  BY <1>1 DEF Repos!Empty, Logins, Usable
<1>2. ASSUME NEW k \in Repos!Pasted(h), new = [Repos!Empty EXCEPT !.auth = {k}]
      PROVE  new \in Logins /\ Usable(new, h)
  <2>1. k \in Repos!AUTH_KEYS(h)
    BY <1>2 DEF Repos!Pasted, Repos!AUTH_KEYS
  <2>2. k \in Repos!Keys
    BY <2>1, KeysFit
  <2> QED
    BY <1>2, <2>1, <2>2 DEF Repos!Empty, Logins, Usable
<1> QED
  BY <1>1, <1>2 DEF Repos!Login

LEMMA ConnectKeepsSetup ==
  ASSUME SetupInv, NEW u \in Setups, Repos!connect(u)
  PROVE  SetupInv'
<1>1. /\ DOMAIN kit = KitFields /\ kit' = kit /\ setup[u].pc = "connect"
      /\ UNCHANGED <<repoRow, connections, backlog, owed>>
  BY DEF Repos!connect, SetupInv, KitFits
<1>2. SetupFits(u) /\ setup[u].harness \in Repos!Harnesses /\ Active(u)
  BY <1>1 DEF SetupInv, SetupFits, KitFits, Active, Repos!Resting
<1> DEFINE saved == connections[setup[u].harness]
<1>3. CASE saved # Nil /\ Repos!To(u, Repos!After(u, saved)) /\ Repos!Keep(u) /\ UNCHANGED files
  <2>1. saved \in DOMAIN files
    BY <1>2, <1>3 DEF SetupInv, RowsFit
  <2>2. Grown /\ files' \in Seq(Logins)
    BY <1>1, <1>3 DEF Grown, SetupInv, RowsFit
  <2>3. SetupFits(u)' /\ SearchFits(u)' /\ ReadFits(u)'
    BY <1>1, <1>3, <2>1, <2>2, ConnectedFits
  <2>4. /\ \A v \in Setups \ {u} : setup'[v] = setup[v]
        /\ \A f \in SetupFields \ {"pc", "connection"} : setup'[u][f] = setup[u][f]
        /\ LockFits'
        /\ setup'[u].pc = IF setup[u].id # Nil THEN "compose"
                          ELSE IF setup[u].command.name = "setup" THEN "done" ELSE "find"
    BY <1>1, <1>3, <2>1, ConnectedStep
  <2>5. HasRead(u)' => /\ HasRead(u) /\ setup'[u].id = setup[u].id
                       /\ setup'[u].snapshot = setup[u].snapshot
                       /\ setup'[u].harness = setup[u].harness
    BY <1>1, <2>4 DEF HasRead, SetupFields
  <2> QED
    BY <1>1, <1>2, <1>3, <2>2, <2>3, <2>4, <2>5, QuietStep
<1>4. ASSUME NEW new \in Repos!Login(setup[u].harness), Repos!Write(new), UNCHANGED lock,
             Repos!To(u, [pc |-> "save", ref |-> Repos!Fresh])
      PROVE  SetupInv'
  <2>1. new \in Logins /\ Usable(new, setup[u].harness)
    BY <1>2, <1>4, LoginUsable
  <2>2. /\ files' \in Seq(Logins) /\ DOMAIN files \subseteq DOMAIN files'
        /\ \A f \in DOMAIN files : files'[f] = files[f]
        /\ Repos!Fresh \in DOMAIN files' /\ files'[Repos!Fresh] = new
    BY <1>4, <2>1, FileWritten DEF SetupInv
  <2>3. /\ DOMAIN setup' = Setups /\ \A v \in Setups \ {u} : setup'[v] = setup[v]
        /\ DOMAIN setup'[u] = SetupFields
        /\ setup'[u].pc = "save" /\ setup'[u].ref = Repos!Fresh
        /\ \A f \in SetupFields \ {"pc", "ref"} : setup'[u][f] = setup[u][f]
    <3>1. /\ DOMAIN setup' = Setups /\ \A v \in Setups \ {u} : setup'[v] = setup[v]
          /\ DOMAIN setup'[u] = SetupFields
          /\ \A f \in SetupFields :
               setup'[u][f] = IF f \in DOMAIN [pc |-> "save", ref |-> Repos!Fresh]
                              THEN [pc |-> "save", ref |-> Repos!Fresh][f] ELSE setup[u][f]
      BY <1>4, FieldsSet
    <3> QED
      BY <3>1 DEF SetupFields
  <2>4. LockFits'
    BY <1>1, <1>4, <2>3 DEF SetupInv, LockFits
  <2>5. Grown
    BY <1>1, <2>2 DEF Grown
  <2>6. SetupFits(u)' /\ SearchFits(u)'
    <3>1. /\ setup'[u].command = setup[u].command /\ setup'[u].harness = setup[u].harness
          /\ setup'[u].id = setup[u].id /\ setup'[u].candidate = setup[u].candidate
          /\ setup'[u].connection = setup[u].connection
      BY <2>3 DEF SetupFields
    <3>2. SetupFits(u)'
      BY <1>1, <1>2, <2>1, <2>2, <2>3, <3>1 DEF SetupFits, Active, Holds, Closed, SetupSteps,
         Repos!Resting, Repos!TasksOf
    <3>3. SearchFits(u)'
      BY <1>1, <2>3, <3>1 DEF SetupInv, SearchFits
    <3> QED
      BY <3>2, <3>3
  <2>7. HasRead(u)' => /\ HasRead(u) /\ setup'[u].id = setup[u].id
                       /\ setup'[u].snapshot = setup[u].snapshot
                       /\ setup'[u].harness = setup[u].harness
                       /\ setup'[u].connection = setup[u].connection
    BY <1>1, <2>3 DEF HasRead, SetupFields
  <2>8. ReadFits(u)'
    BY <1>1, <2>2, <2>3, <2>5, <2>7, ReadGoesOn
  <2> QED
    BY <1>1, <1>2, <2>2, <2>3, <2>4, <2>6, <2>7, <2>8, QuietStep
<1>5. CASE Repos!End(u, "failed") /\ UNCHANGED files
  BY <1>1, <1>5, EndKeepsSetup DEF Repos!Resting
<1> QED
  BY <1>3, <1>4, <1>5 DEF Repos!connect

(* The connection that was written is saved.                                  *)
LEMMA SaveKeepsSetup ==
  ASSUME SetupInv, NEW u \in Setups, Repos!save_connection(u)
  PROVE  SetupInv'
<1>1. /\ DOMAIN kit = KitFields /\ kit' = kit /\ setup[u].pc = "save"
      /\ UNCHANGED <<repoRow, files, backlog, owed>>
      /\ connections' = [connections EXCEPT ![setup[u].harness] = setup[u].ref]
  BY DEF Repos!save_connection, SetupInv, KitFits
<1>2. /\ SetupFits(u) /\ setup[u].harness \in Repos!Harnesses /\ Active(u)
      /\ setup[u].ref \in DOMAIN files /\ Usable(files[setup[u].ref], setup[u].harness)
  BY <1>1 DEF SetupInv, SetupFits, KitFits, Active, Repos!Resting
<1>3. DOMAIN connections' = DOMAIN connections
  BY <1>1
<1>4. Grown /\ NewlyPlaced /\ files' \in Seq(Logins)
  BY <1>1, <1>3 DEF Grown, NewlyPlaced, SetupInv, RowsFit
<1>5. SetupFits(u)' /\ SearchFits(u)' /\ ReadFits(u)'
  BY <1>1, <1>2, <1>4, ConnectedFits DEF Repos!save_connection
<1>6. /\ \A v \in Setups \ {u} : setup'[v] = setup[v]
      /\ \A f \in SetupFields \ {"pc", "connection"} : setup'[u][f] = setup[u][f]
      /\ LockFits'
      /\ setup'[u].pc = IF setup[u].id # Nil THEN "compose"
                        ELSE IF setup[u].command.name = "setup" THEN "done" ELSE "find"
  BY <1>1, <1>2, ConnectedStep DEF Repos!save_connection
<1>7. HasRead(u)' => /\ HasRead(u) /\ setup'[u].id = setup[u].id
                     /\ setup'[u].snapshot = setup[u].snapshot
                     /\ setup'[u].harness = setup[u].harness
  BY <1>1, <1>6 DEF HasRead, SetupFields
<1>8. KitFits'
  BY <1>1, <1>4, KitStays DEF SetupInv
<1>9. RowsFit'
  <2>1. /\ RowsFit /\ RepoRecord \subseteq RepoRecord' /\ Logins' = Logins
        /\ Repos!Harnesses' = Repos!Harnesses
    BY <1>4, GrownTypes DEF SetupInv
  <2>2. \A h \in Repos!Harnesses : connections'[h] # Nil =>
          connections'[h] \in DOMAIN files /\ Usable(files[connections'[h]], h)
    BY <1>1, <1>2, <2>1 DEF RowsFit, Repos!Harnesses
  <2> QED
    BY <1>1, <2>1, <2>2 DEF RowsFit
<1>10. TasksFit' /\ Repos!OneRepoPerSource'
  BY <1>1 DEF SetupInv, TasksFit, TaskFits, Repos!OneRepoPerSource
<1>11. ReadsAgree'
  BY <1>2, <1>4, <1>6, <1>7, ReadsStay
<1>12. \A v \in Setups \ {u} : Holds(v) => Closed(setup[v].id)'
  BY <1>1, <1>6 DEF SetupInv, SetupFits, Closed, Repos!TasksOf
<1> QED
  BY <1>1, <1>4, <1>5, <1>6, <1>8, <1>9, <1>10, <1>11, <1>12, StepKeepsSetup

(* Registration: a quickstart looks its source up, or takes the next free id. *)
LEMMA Searching ==
  ASSUME SetupInv, NEW u \in Setups, setup[u].pc \in {"find", "create"}
  PROVE  /\ SetupFits(u) /\ SearchFits(u) /\ Active(u) /\ setup[u].id = Nil
         /\ setup[u].command \in kit.commands /\ setup[u].command.name = "quickstart"
         /\ setup[u].command.source \in Sources /\ setup[u].harness = setup[u].command.harness
         /\ setup[u].harness \in Repos!Harnesses
         /\ kit.candidates[setup[u].command.source] \in Seq(DOMAIN repoRow)
         /\ setup[u].candidate \in Nat /\ lock # u
<1>1. SetupFits(u) /\ SearchFits(u) /\ Active(u) /\ KitFits /\ lock # u
  BY DEF SetupInv, Active, Repos!Resting, LockFits
<1>2. /\ setup[u].command \in kit.commands /\ setup[u].harness = setup[u].command.harness
      /\ setup[u].id = Nil /\ setup[u].command.name = "quickstart" /\ setup[u].candidate \in Nat
  BY <1>1 DEF SetupFits, KitFits
<1>3. setup[u].command.source \in Sources /\ setup[u].harness \in Repos!Harnesses
  BY <1>1, <1>2 DEF KitFits
<1> QED
  BY <1>1, <1>2, <1>3 DEF KitFits

LEMMA FindKeepsSetup ==
  ASSUME SetupInv, NEW u \in Setups, setup[u].pc = "find",
         Repos!Reuse(u, Repos!_find_existing_repo(setup[u].command.source)),
         UNCHANGED <<repoRow, files, connections, lock, backlog, owed, kit>>
  PROVE  SetupInv'
<1> DEFINE source == setup[u].command.source ids == Repos!_find_existing_repo(source)
<1>1. /\ SetupFits(u) /\ SearchFits(u) /\ Active(u) /\ setup[u].id = Nil
      /\ setup[u].command \in kit.commands /\ setup[u].command.name = "quickstart"
      /\ source \in Sources /\ setup[u].harness = setup[u].command.harness
      /\ kit.candidates[source] \in Seq(DOMAIN repoRow)
      /\ setup[u].candidate \in Nat /\ lock # u
  BY Searching
<1>2. source # Nil /\ DOMAIN kit = KitFields
  BY <1>1 DEF SetupInv, KitFits
<1>3. CASE ids # {}
  <2> DEFINE id == CHOOSE x \in ids : TRUE
  <2>1. id \in DOMAIN repoRow /\ repoRow[id].source = source /\ id # Nil
    BY <1>3 DEF Repos!_find_existing_repo, SetupInv, KitFits
  <2>2. Repos!To(u, [pc |-> "inspect", id |-> id])
    BY <1>3 DEF Repos!Reuse, Repos!Found
  <2> HIDE DEF id, ids, source
  <2>3. /\ DOMAIN setup' = Setups /\ \A v \in Setups \ {u} : setup'[v] = setup[v]
        /\ DOMAIN setup'[u] = SetupFields /\ setup'[u].pc = "inspect" /\ setup'[u].id = id
        /\ \A f \in SetupFields \ {"pc", "id"} : setup'[u][f] = setup[u][f]
    <3>1. /\ DOMAIN setup' = Setups /\ \A v \in Setups \ {u} : setup'[v] = setup[v]
          /\ DOMAIN setup'[u] = SetupFields
          /\ \A f \in SetupFields :
               setup'[u][f] = IF f \in DOMAIN [pc |-> "inspect", id |-> id]
                              THEN [pc |-> "inspect", id |-> id][f] ELSE setup[u][f]
      BY <2>2, FieldsSet
    <3> QED
      BY <3>1 DEF SetupFields
  <2>4. /\ setup'[u].command = setup[u].command /\ setup'[u].harness = setup[u].harness
        /\ setup'[u].candidate = setup[u].candidate /\ setup'[u].connection = setup[u].connection
    BY <2>3 DEF SetupFields
  <2>5. LockFits'
    BY <1>1, <2>3 DEF SetupInv, LockFits
  <2>6. SetupFits(u)'
    BY <1>1, <1>2, <2>1, <2>3, <2>4 DEF SetupFits, Active, Holds, SetupSteps, source, Repos!Resting
  <2>7. SearchFits(u)' /\ ReadFits(u)' /\ ~HasRead(u)'
    BY <2>3 DEF SearchFits, ReadFits, HasRead
  <2> QED
    BY <1>1, <1>2, <2>3, <2>5, <2>6, <2>7, QuietStep DEF SetupInv, RowsFit
<1>4. CASE ids = {}
  <2>1. Repos!To(u, [pc |-> "create", candidate |-> setup[u].candidate + 1])
    BY <1>4 DEF Repos!Reuse, Repos!Widen
  <2>2. \A x \in DOMAIN repoRow : repoRow[x].source # source
    BY <1>4 DEF Repos!_find_existing_repo
  <2> HIDE DEF ids
  <2> DEFINE next == setup[u].candidate + 1
  <2>3. /\ DOMAIN setup' = Setups /\ \A v \in Setups \ {u} : setup'[v] = setup[v]
        /\ DOMAIN setup'[u] = SetupFields /\ setup'[u].pc = "create" /\ setup'[u].candidate = next
        /\ \A f \in SetupFields \ {"pc", "candidate"} : setup'[u][f] = setup[u][f]
    <3> HIDE DEF next
    <3>1. /\ DOMAIN setup' = Setups /\ \A v \in Setups \ {u} : setup'[v] = setup[v]
          /\ DOMAIN setup'[u] = SetupFields
          /\ \A f \in SetupFields :
               setup'[u][f] = IF f \in DOMAIN [pc |-> "create", candidate |-> next]
                              THEN [pc |-> "create", candidate |-> next][f] ELSE setup[u][f]
      BY <2>1, FieldsSet DEF next
    <3> QED
      BY <3>1 DEF SetupFields
  <2>4. /\ setup'[u].command = setup[u].command /\ setup'[u].harness = setup[u].harness
        /\ setup'[u].id = setup[u].id /\ setup'[u].connection = setup[u].connection
    BY <2>3 DEF SetupFields
  <2>5. LockFits'
    BY <1>1, <2>3 DEF SetupInv, LockFits
  <2>6. SetupFits(u)'
    BY <1>1, <1>2, <2>3, <2>4 DEF SetupFits, Active, Holds, SetupSteps, Repos!Resting
  <2>7. SearchFits(u)'
    <3>1. setup[u].candidate <= Len(kit.candidates[source]) /\ Taken(source, setup[u].candidate)
      BY <1>1 DEF SearchFits
    <3>2. Foreign(source, setup[u].candidate)
      <4>1. ASSUME NEW i \in 1 .. setup[u].candidate
            PROVE  repoRow[kit.candidates[source][i]].source \notin {Nil, source}
        <5>1. i \in 1 .. Len(kit.candidates[source])
          BY <1>1, <3>1
        <5>2. kit.candidates[source][i] \in DOMAIN repoRow
          BY <1>1, <5>1
        <5> QED
          BY <2>2, <3>1, <5>2 DEF Taken
      <4> QED
        BY <4>1 DEF Foreign
    <3>3. next > 0 /\ next <= Len(kit.candidates[source]) + 1 /\ next - 1 = setup[u].candidate
      BY <1>1, <3>1
    <3> HIDE DEF next
    <3>4. Foreign(source, next - 1)
      BY <3>2, <3>3
    <3> QED
      BY <2>2, <2>3, <2>4, <3>3, <3>4 DEF SearchFits, Foreign
  <2>8. ReadFits(u)' /\ ~HasRead(u)'
    BY <2>3 DEF ReadFits, HasRead
  <2> QED
    BY <1>1, <1>2, <2>3, <2>5, <2>6, <2>7, <2>8, QuietStep DEF SetupInv, RowsFit
<1> QED
  BY <1>3, <1>4

(* One of the first k is the last of them or one before it.                   *)
LEMMA LastOrBefore ==
  ASSUME NEW k \in Nat, NEW i \in 1 .. k
  PROVE  i = k \/ i \in 1 .. k - 1
OBVIOUS

LEMMA Between ==
  ASSUME NEW n \in Nat, NEW k \in Nat, k > 0, k <= n
  PROVE  k \in 1 .. n
OBVIOUS

(* What a sequence has at its places.                                         *)
LEMMA PlacesOf ==
  ASSUME NEW S, NEW cs \in Seq(S)
  PROVE  Len(cs) \in Nat /\ DOMAIN cs = 1 .. Len(cs) /\ \A i \in 1 .. Len(cs) : cs[i] \in S
OBVIOUS

(* The id a set-up tries next, and whether another source has it.             *)
Tries(u, id) ==
  LET ids == kit.candidates[setup[u].command.source]
  IN setup[u].pc = "create" /\ setup[u].candidate <= Len(ids) /\ id = ids[setup[u].candidate]

(* The id is another's: look again.                                           *)
Conflicts(u, id) ==
  /\ Tries(u, id) /\ repoRow[id].source # Nil /\ Repos!To(u, [pc |-> "find"])
  /\ UNCHANGED <<repoRow, files, connections, lock, backlog, owed, kit>>

LEMMA ConflictKeepsSetup ==
  ASSUME SetupInv, NEW u \in Setups, NEW id, Conflicts(u, id)
  PROVE  SetupInv'
<1> DEFINE source == setup[u].command.source
<1>1. /\ Tries(u, id) /\ repoRow[id].source # Nil /\ Repos!To(u, [pc |-> "find"])
      /\ UNCHANGED <<repoRow, files, connections, lock, backlog, owed, kit>>
  BY Zenon DEF Conflicts
<1>2. /\ setup[u].pc = "create" /\ id = kit.candidates[source][setup[u].candidate]
      /\ setup[u].candidate <= Len(kit.candidates[source])
  BY <1>1, Zenon DEF Tries
<1>3. /\ SetupFits(u) /\ SearchFits(u) /\ Active(u)
      /\ setup[u].candidate \in Nat /\ lock # u
  BY <1>2, Searching
<1>4. DOMAIN kit = KitFields
  BY DEF SetupInv, KitFits
<1>5. /\ DOMAIN setup' = Setups /\ \A v \in Setups \ {u} : setup'[v] = setup[v]
      /\ DOMAIN setup'[u] = SetupFields /\ setup'[u].pc = "find"
      /\ \A f \in SetupFields \ {"pc"} : setup'[u][f] = setup[u][f]
  BY <1>1, StepSet
<1>6. /\ setup'[u].command = setup[u].command /\ setup'[u].harness = setup[u].harness
      /\ setup'[u].id = setup[u].id /\ setup'[u].connection = setup[u].connection
      /\ setup'[u].candidate = setup[u].candidate
  BY <1>5 DEF SetupFields
<1>7. LockFits'
  BY <1>1, <1>2, <1>3, <1>5, Zenon DEF SetupInv, LockFits
<1>8. SetupFits(u)'
  BY <1>1, <1>2, <1>3, <1>5, <1>6, Zenon DEF SetupFits, Active, Holds, SetupSteps, Repos!Resting
<1>9. SearchFits(u)'
  <2>1. setup[u].candidate > 0 /\ Foreign(source, setup[u].candidate - 1)
    BY <1>2, <1>3 DEF SearchFits
  <2>2. Taken(source, setup[u].candidate)
    <3>1. PICK k : k = setup[u].candidate
      OBVIOUS
    <3>2. k \in Nat /\ Foreign(source, k - 1)
      BY <1>3, <2>1, <3>1
    <3>3. ASSUME NEW i \in 1 .. k
          PROVE  repoRow[kit.candidates[source][i]].source # Nil
      <4>1. i = k \/ i \in 1 .. k - 1
        BY <3>2, LastOrBefore
      <4>2. CASE i = k
        BY <1>1, <1>2, <3>1, <4>2, Zenon
      <4>3. CASE i \in 1 .. k - 1
        BY <3>2, <4>3, Zenon DEF Foreign
      <4> QED
        BY <4>1, <4>2, <4>3
    <3>4. Taken(source, k)
      BY <3>3, Zenon DEF Taken
    <3> QED
      BY <3>1, <3>4
  <2>3. repoRow' = repoRow /\ kit' = kit
    BY <1>1, Zenon
  <2>4. /\ Taken(source, setup[u].candidate)'
        /\ (setup[u].candidate <= Len(kit.candidates[source]))'
    BY <1>2, <1>6, <2>2, <2>3, Zenon DEF Taken
  <2>5. setup'[u].pc = "find" /\ setup'[u].id = setup[u].id /\ setup[u].id = Nil
    BY <1>2, <1>5, <1>6, Searching
  <2> QED
    BY <2>4, <2>5 DEF SearchFits
<1>10. ReadFits(u)' /\ ~HasRead(u)'
  BY <1>5 DEF ReadFits, HasRead
<1> QED
  BY <1>1, <1>2, <1>3, <1>4, <1>5, <1>7, <1>8, <1>9, <1>10, QuietStep, Zenon DEF SetupInv, RowsFit

(* The id is free: the source is registered, and it was nowhere before.       *)
NewRow(u) ==
  [Repos!Absent EXCEPT !.source = setup[u].command.source, !.harness = setup[u].harness]
Registers(u, id) ==
  /\ Tries(u, id) /\ repoRow[id].source = Nil
  /\ repoRow' = [repoRow EXCEPT ![id] = NewRow(u)]
  /\ Repos!To(u, [pc |-> "inspect", id |-> id])
  /\ UNCHANGED <<files, connections, lock, backlog, owed, kit>>

LEMMA CandidateFits ==
  ASSUME SetupInv, NEW u \in Setups, NEW id, Registers(u, id),
         NEW s, s = setup[u].command.source, NEW k, k = setup[u].candidate
  PROVE  /\ k \in Nat /\ k > 0 /\ k <= Len(kit.candidates[s]) /\ Len(kit.candidates[s]) \in Nat
         /\ id = kit.candidates[s][k] /\ id \in DOMAIN repoRow /\ repoRow[id].source = Nil
         /\ \A i \in 1 .. Len(kit.candidates[s]) : kit.candidates[s][i] \in DOMAIN repoRow
         /\ DOMAIN kit.candidates[s] = 1 .. Len(kit.candidates[s])
         /\ Foreign(s, k - 1)
         /\ \A x \in DOMAIN repoRow : repoRow[x].source = s => Placed(x, s)
<1>1. Tries(u, id) /\ repoRow[id].source = Nil
  BY Zenon DEF Registers
<1>2. setup[u].pc = "create" /\ k <= Len(kit.candidates[s]) /\ id = kit.candidates[s][k]
  BY <1>1, Zenon DEF Tries
<1>3. kit.candidates[s] \in Seq(DOMAIN repoRow) /\ k \in Nat /\ SearchFits(u)
  BY <1>2, Searching
<1>4. /\ k > 0 /\ Foreign(s, k - 1)
      /\ \A x \in DOMAIN repoRow : repoRow[x].source = s => Placed(x, s)
  BY <1>2, <1>3 DEF SearchFits
<1>5. /\ Len(kit.candidates[s]) \in Nat /\ DOMAIN kit.candidates[s] = 1 .. Len(kit.candidates[s])
      /\ \A i \in 1 .. Len(kit.candidates[s]) : kit.candidates[s][i] \in DOMAIN repoRow
  BY <1>3, PlacesOf, Zenon
<1>6. k \in 1 .. Len(kit.candidates[s])
  BY <1>2, <1>3, <1>4, <1>5, Between, Zenon
<1>7. id \in DOMAIN repoRow
  BY <1>2, <1>5, <1>6, Zenon
<1> QED
  BY <1>1, <1>2, <1>3, <1>4, <1>5, <1>7, Zenon

(* No repository has the source yet: it would be at an earlier candidate,     *)
(* which is another's, at this one, which is free, or at a later one, which   *)
(* is tried only where this one is taken.                                     *)
LEMMA SourceIsNew ==
  ASSUME SetupInv, NEW u \in Setups, NEW id, Registers(u, id),
         NEW x \in DOMAIN repoRow
  PROVE  repoRow[x].source # setup[u].command.source
<1>1. PICK s, k : s = setup[u].command.source /\ k = setup[u].candidate
  OBVIOUS
<1> SUFFICES ASSUME repoRow[x].source = s PROVE FALSE
  BY <1>1
<1>2. /\ k \in Nat /\ k > 0 /\ k <= Len(kit.candidates[s]) /\ Len(kit.candidates[s]) \in Nat
      /\ id = kit.candidates[s][k] /\ repoRow[id].source = Nil
      /\ DOMAIN kit.candidates[s] = 1 .. Len(kit.candidates[s])
      /\ Foreign(s, k - 1) /\ Placed(x, s)
  BY <1>1, CandidateFits
<1>3. s # Nil
  <2>1. setup[u].pc = "create"
    BY Zenon DEF Registers, Tries
  <2>2. s \in Sources
    BY <1>1, <2>1, Searching
  <2> QED
    BY <2>2 DEF SetupInv, KitFits
<1>4. PICK j \in DOMAIN kit.candidates[s] : kit.candidates[s][j] = x /\ Foreign(s, j - 1)
  BY <1>2 DEF Placed
<1>5. j \in Nat /\ j > 0
  BY <1>2, <1>4
<1>6. CASE j < k
  <2>1. j \in 1 .. k - 1
    BY <1>2, <1>5, <1>6
  <2> QED
    BY <1>2, <1>4, <2>1 DEF Foreign
<1>7. CASE j = k
  BY <1>2, <1>3, <1>4, <1>7
<1>8. CASE j > k
  <2>1. k \in 1 .. j - 1
    BY <1>2, <1>5, <1>8
  <2> QED
    BY <1>2, <1>4, <2>1 DEF Foreign
<1> QED
  BY <1>2, <1>5, <1>6, <1>7, <1>8

LEMMA RegisteredRow ==
  ASSUME SetupInv, NEW u \in Setups, NEW id, Registers(u, id)
  PROVE  /\ id \in DOMAIN repoRow /\ DOMAIN repoRow' = DOMAIN repoRow
         /\ \A x \in DOMAIN repoRow \ {id} : repoRow'[x] = repoRow[x]
         /\ repoRow[id].source = Nil
         /\ repoRow'[id] = [source |-> setup[u].command.source, env |-> Nil, dir |-> Nil,
                            harness |-> setup[u].harness, held |-> FALSE]
         /\ repoRow'[id].source = setup[u].command.source
         /\ repoRow'[id].harness = setup[u].harness /\ repoRow'[id].env = Nil
         /\ Grown /\ NewlyPlaced /\ Repos!OneRepoPerSource'
         /\ repoRow' = [x \in DOMAIN repoRow |-> repoRow'[x]]
<1>1. PICK s, k : s = setup[u].command.source /\ k = setup[u].candidate
  OBVIOUS
<1>2. /\ k \in Nat /\ k > 0 /\ k <= Len(kit.candidates[s]) /\ Len(kit.candidates[s]) \in Nat
      /\ id = kit.candidates[s][k] /\ id \in DOMAIN repoRow /\ repoRow[id].source = Nil
      /\ \A i \in 1 .. Len(kit.candidates[s]) : kit.candidates[s][i] \in DOMAIN repoRow
      /\ DOMAIN kit.candidates[s] = 1 .. Len(kit.candidates[s])
      /\ Foreign(s, k - 1)
  BY <1>1, CandidateFits
<1>3. /\ DOMAIN repoRow' = DOMAIN repoRow
      /\ \A x \in DOMAIN repoRow \ {id} : repoRow'[x] = repoRow[x]
      /\ repoRow'[id] = [source |-> s, env |-> Nil, dir |-> Nil, harness |-> setup[u].harness,
                           held |-> FALSE]
      /\ repoRow' = [x \in DOMAIN repoRow |-> repoRow'[x]]
  BY <1>1, <1>2, Zenon DEF Registers, NewRow, Repos!Absent
<1>4. /\ repoRow'[id].source = s /\ repoRow'[id].harness = setup[u].harness
      /\ repoRow'[id].env = Nil
  BY <1>3
<1>5. UNCHANGED <<files, connections, kit>> /\ DOMAIN kit = KitFields
  BY DEF Registers, SetupInv, KitFits
<1>6. Grown
  BY <1>2, <1>3, <1>5 DEF Grown
<1>7. s # Nil
  <2>1. setup[u].pc = "create"
    BY Zenon DEF Registers, Tries
  <2>2. s \in Sources
    BY <1>1, <2>1, Searching
  <2> QED
    BY <2>2 DEF SetupInv, KitFits
<1>8. Foreign(s, k - 1)'
  <2>1. ASSUME NEW i \in 1 .. k - 1
        PROVE  repoRow'[kit.candidates[s][i]].source \notin {Nil, s}
    <3>1. i \in 1 .. Len(kit.candidates[s])
      BY <1>2
    <3>2. kit.candidates[s][i] \in DOMAIN repoRow
      BY <1>2, <3>1
    <3>3. repoRow[kit.candidates[s][i]].source \notin {Nil, s}
      BY <1>2 DEF Foreign
    <3> QED
      BY <1>2, <1>3, <3>2, <3>3
  <2> QED
    BY <1>5, <2>1 DEF Foreign
<1>9. k \in DOMAIN kit'.candidates[s] /\ kit'.candidates[s][k] = id
  BY <1>2, <1>5
<1>10. Placed(id, s)'
  BY <1>8, <1>9 DEF Placed
<1>11. NewlyPlaced
  BY <1>3, <1>4, <1>10 DEF NewlyPlaced
<1>12. \A x \in DOMAIN repoRow : repoRow[x].source # s
  BY <1>1, SourceIsNew
<1>13. Repos!OneRepoPerSource'
  <2>1. Repos!OneRepoPerSource
    BY DEF SetupInv
  <2> QED
    BY <1>3, <1>4, <1>12, <2>1 DEF Repos!OneRepoPerSource
<1> QED
  BY <1>1, <1>2, <1>3, <1>4, <1>6, <1>11, <1>13, Zenon

LEMMA RegisterKeepsSetup ==
  ASSUME SetupInv, NEW u \in Setups, NEW id, Registers(u, id)
  PROVE  SetupInv'
<1>1. /\ setup[u].pc = "create" /\ Repos!To(u, [pc |-> "inspect", id |-> id])
      /\ UNCHANGED <<files, connections, lock, backlog, owed, kit>>
  BY Zenon DEF Registers, Tries
<1>2. PICK s, h : s = setup[u].command.source /\ h = setup[u].harness
  OBVIOUS
<1>3. /\ SetupFits(u) /\ Active(u) /\ lock # u /\ s \in Sources /\ h \in Repos!Harnesses
      /\ setup[u].command \in kit.commands /\ setup[u].command.name = "quickstart"
      /\ h = setup[u].command.harness
  BY <1>1, <1>2, Searching
<1>4. s # Nil /\ Nil \notin DOMAIN repoRow
  BY <1>3 DEF SetupInv, KitFits
<1>5. /\ id \in DOMAIN repoRow /\ DOMAIN repoRow' = DOMAIN repoRow
      /\ \A x \in DOMAIN repoRow \ {id} : repoRow'[x] = repoRow[x]
      /\ repoRow[id].source = Nil /\ repoRow'[id].source = s /\ repoRow'[id].harness = h
  BY <1>2, RegisteredRow
<1>6. Grown /\ NewlyPlaced /\ Repos!OneRepoPerSource'
  BY RegisteredRow
<1>7. KitFits'
  <2>1. \A c \in kit.commands : c.name = "quickstart" /\ s = c.source => h = c.harness
    BY <1>2, <1>3 DEF SetupInv, KitFits
  <2> QED
    BY <1>5, <1>6, <2>1, KitStays DEF SetupInv
<1>8. RowsFit'
  <2>1. /\ RowsFit /\ RepoRecord \subseteq RepoRecord' /\ Logins' = Logins
        /\ Repos!Harnesses' = Repos!Harnesses
    BY <1>6, GrownTypes DEF SetupInv
  <2>2. repoRow'[id] = [source |-> s, env |-> Nil, dir |-> Nil, harness |-> h, held |-> FALSE]
    BY <1>2, RegisteredRow
  <2>3. repoRow'[id] \in RepoRecord
    BY <1>3, <2>2 DEF RepoRecord
  <2>4. repoRow' \in [DOMAIN repoRow -> RepoRecord]
    <3>1. \A x \in DOMAIN repoRow : repoRow'[x] \in RepoRecord
      BY <1>5, <2>1, <2>3 DEF RowsFit
    <3>2. repoRow' = [x \in DOMAIN repoRow |-> repoRow'[x]]
      BY RegisteredRow
    <3> QED
      BY <3>1, <3>2
  <2>5. repoRow' \in [DOMAIN repoRow' -> RepoRecord']
    BY <1>5, <2>1, <2>4
  <2>6. \A x \in DOMAIN repoRow' : repoRow'[x].source = Nil => repoRow'[x].env = Nil
    BY <1>4, <1>5, <2>1 DEF RowsFit
  <2> QED
    BY <1>1, <2>1, <2>5, <2>6 DEF RowsFit
<1>9. /\ DOMAIN setup' = Setups /\ \A v \in Setups \ {u} : setup'[v] = setup[v]
      /\ DOMAIN setup'[u] = SetupFields /\ setup'[u].pc = "inspect" /\ setup'[u].id = id
      /\ \A f \in SetupFields \ {"pc", "id"} : setup'[u][f] = setup[u][f]
  <2>1. /\ DOMAIN setup' = Setups /\ \A v \in Setups \ {u} : setup'[v] = setup[v]
        /\ DOMAIN setup'[u] = SetupFields
        /\ \A f \in SetupFields :
             setup'[u][f] = IF f \in DOMAIN [pc |-> "inspect", id |-> id]
                            THEN [pc |-> "inspect", id |-> id][f] ELSE setup[u][f]
    BY <1>1, FieldsSet
  <2> QED
    BY <2>1 DEF SetupFields
<1>10. /\ setup'[u].command = setup[u].command /\ setup'[u].harness = h
       /\ setup'[u].candidate = setup[u].candidate /\ setup'[u].connection = setup[u].connection
  BY <1>2, <1>9 DEF SetupFields
<1>11. LockFits' /\ TasksFit'
  BY <1>1, <1>3, <1>9 DEF SetupInv, LockFits, TasksFit, TaskFits
<1>12. SetupFits(u)'
  <2>1. /\ setup[u].candidate \in Nat /\ setup[u].connection \in DOMAIN files \cup {Nil}
        /\ kit.overlap => setup[u].connection # Nil
    BY <1>1, <1>3 DEF SetupFits
  <2>2. ~Holds(u)'
    BY <1>9 DEF Holds
  <2> QED
    BY <1>1, <1>2, <1>3, <1>4, <1>5, <1>9, <1>10, <2>1, <2>2 DEF SetupFits, SetupSteps
<1>13. SearchFits(u)' /\ ReadFits(u)' /\ ~HasRead(u)'
  BY <1>9 DEF SearchFits, ReadFits, HasRead
<1>14. ReadsAgree'
  BY <1>3, <1>6, <1>9, <1>13, ReadsStay
<1>15. \A v \in Setups \ {u} : Holds(v) => Closed(setup[v].id)'
  <2> SUFFICES ASSUME NEW v \in Setups \ {u}, Holds(v) PROVE Closed(setup[v].id)'
    OBVIOUS
  <2>1. /\ Closed(setup[v].id) /\ setup[v].id \in DOMAIN repoRow
        /\ repoRow[setup[v].id].source # Nil
    BY DEF SetupInv, SetupFits, Holds, Active, Repos!Resting
  <2>2. setup'[v] = setup[v] /\ repoRow'[setup[v].id] = repoRow[setup[v].id]
    BY <1>5, <1>9, <2>1
  <2> QED
    BY <1>1, <2>1, <2>2 DEF Closed, Repos!TasksOf
<1>16. \A x \in DOMAIN repoRow : repoRow[x].source # Nil => repoRow'[x].env = repoRow[x].env
  BY <1>5
<1> QED
  BY <1>6, <1>7, <1>8, <1>9, <1>11, <1>12, <1>13, <1>14, <1>15, <1>16, StepKeepsSetup

LEMMA SearchKeepsSetup ==
  ASSUME SetupInv, NEW u \in Setups, Repos!setup_repo(u)
  PROVE  SetupInv'
<1> DEFINE source == setup[u].command.source candidates == kit.candidates[source]
           id == candidates[setup[u].candidate]
<1>1. UNCHANGED <<files, connections, backlog, owed, kit>> /\ DOMAIN kit = KitFields
  BY DEF Repos!setup_repo, SetupInv, KitFits
<1>2. CASE /\ setup[u].pc = "find" /\ UNCHANGED <<repoRow, lock>>
           /\ Repos!Reuse(u, Repos!_find_existing_repo(source))
  BY <1>1, <1>2, FindKeepsSetup
<1>3. CASE /\ setup[u].pc = "create" /\ setup[u].candidate <= Len(candidates)
           /\ repoRow[id].source # Nil /\ Repos!To(u, [pc |-> "find"])
           /\ UNCHANGED <<repoRow, lock>>
  <2>1. Conflicts(u, id)
    BY <1>1, <1>3 DEF Conflicts, Tries
  <2> QED
    BY <2>1, ConflictKeepsSetup
<1>4. CASE /\ setup[u].pc = "create" /\ setup[u].candidate <= Len(candidates)
           /\ repoRow[id].source = Nil /\ UNCHANGED lock
           /\ repoRow' = [repoRow EXCEPT ![id] = [Repos!Absent EXCEPT
                            !.source = source, !.harness = setup[u].harness]]
           /\ Repos!To(u, [pc |-> "inspect", id |-> id])
  <2>1. Registers(u, id)
    BY <1>1, <1>4, Zenon DEF Registers, Tries, NewRow
  <2> QED
    BY <2>1, RegisterKeepsSetup
<1>5. CASE Repos!End(u, "failed") /\ UNCHANGED repoRow
  BY <1>1, <1>5, EndKeepsSetup DEF Repos!Resting
<1> QED
  BY <1>2, <1>3, <1>4, <1>5, Zenon DEF Repos!setup_repo, Repos!repo_id_candidates

(* Two set-ups of one source overlap: they connect one harness.               *)
LEMMA OneHarness ==
  ASSUME SetupInv, NEW u \in Setups, NEW v \in Setups, u # v, Active(u), Active(v),
         setup[u].id = setup[v].id, setup[u].id # Nil
  PROVE  kit.overlap /\ setup[u].harness = setup[v].harness
<1>1. SetupFits(u) /\ SetupFits(v) /\ KitFits
  BY DEF SetupInv
<1>2. kit.overlap
  BY <1>1 DEF SetupInv, ReadsAgree, KitFits
<1>3. /\ setup[u].command \in kit.commands /\ setup[v].command \in kit.commands
      /\ setup[u].command.name = "quickstart" /\ setup[v].command.name = "quickstart"
  BY <1>1, <1>2 DEF SetupFits, KitFits
<1>4. setup[u].command.source = setup[v].command.source
  BY <1>1, <1>3 DEF SetupFits
<1> QED
  BY <1>1, <1>2, <1>3, <1>4 DEF SetupFits, KitFits

(* The repository is read: what set-ups that read it earlier had read is kept *)
(* by it, and it has no more than they will add.                              *)
LEMMA ReadNow ==
  ASSUME SetupInv, NEW u \in Setups, setup[u].pc = "inspect", NEW replace, NEW connection,
         Repos!To(u, [pc |-> "hold", snapshot |-> repoRow[setup[u].id], replace |-> replace,
                      connection |-> connection]),
         connection \in {setup[u].connection, Nil},
         UNCHANGED <<repoRow, files, connections, lock, backlog, owed, kit>>
  PROVE  SetupInv'
<1>1. PICK i, row, h : i = setup[u].id /\ row = repoRow[i] /\ h = setup[u].harness
  OBVIOUS
<1>2. /\ SetupFits(u) /\ Active(u) /\ ~HasRead(u) /\ DOMAIN kit = KitFields /\ lock # u
  BY DEF SetupInv, Active, HasRead, Repos!Resting, KitFits, LockFits
<1>3. /\ i \in DOMAIN repoRow /\ i # Nil /\ row.source # Nil /\ h = setup[u].command.harness
      /\ setup[u].command \in kit.commands
      /\ setup[u].command.name = "quickstart" => row.source = setup[u].command.source
  BY <1>1, <1>2 DEF SetupFits
<1>4. row \in RepoRecord /\ row.env \in DOMAIN files \cup {Nil}
  <2>1. row \in RepoRecord
    BY <1>1, <1>3 DEF SetupInv, RowsFit
  <2> QED
    BY <2>1 DEF RepoRecord
<1>5. /\ DOMAIN setup' = Setups /\ \A v \in Setups \ {u} : setup'[v] = setup[v]
      /\ DOMAIN setup'[u] = SetupFields /\ setup'[u].pc = "hold"
      /\ setup'[u].snapshot = row /\ setup'[u].connection = connection
      /\ \A f \in SetupFields \ {"pc", "snapshot", "replace", "connection"} :
           setup'[u][f] = setup[u][f]
  <2> DEFINE fields == [pc |-> "hold", snapshot |-> row, replace |-> replace,
                        connection |-> connection]
  <2>1. Repos!To(u, fields)
    BY <1>1
  <2>2. /\ DOMAIN fields = {"pc", "snapshot", "replace", "connection"} /\ fields.pc = "hold"
        /\ fields.snapshot = row /\ fields.connection = connection
    OBVIOUS
  <2> HIDE DEF fields
  <2>3. /\ DOMAIN setup' = Setups /\ \A v \in Setups \ {u} : setup'[v] = setup[v]
        /\ DOMAIN setup'[u] = SetupFields
        /\ \A f \in SetupFields :
             setup'[u][f] = IF f \in DOMAIN fields THEN fields[f] ELSE setup[u][f]
    BY <2>1, FieldsSet
  <2> QED
    BY <2>2, <2>3 DEF SetupFields
<1>6. /\ setup'[u].command = setup[u].command /\ setup'[u].harness = h
      /\ setup'[u].candidate = setup[u].candidate /\ setup'[u].id = i
  BY <1>1, <1>5 DEF SetupFields
<1>7. Grown /\ NewlyPlaced
  BY <1>2 DEF Grown, NewlyPlaced
<1>8. KitFits' /\ RowsFit' /\ TasksFit' /\ LockFits' /\ Repos!OneRepoPerSource'
  <2>1. KitFits' /\ RowsFit'
    BY <1>7, KitStays, RowsStay DEF SetupInv, RowsFit
  <2>2. TasksFit' /\ LockFits' /\ Repos!OneRepoPerSource'
    BY <1>2, <1>5 DEF SetupInv, TasksFit, TaskFits, LockFits, Repos!OneRepoPerSource
  <2> QED
    BY <2>1, <2>2
<1>9. SetupFits(u)' /\ SearchFits(u)'
  <2>1. SetupFits(u)'
    BY <1>1, <1>2, <1>3, <1>5, <1>6 DEF SetupFits, SetupSteps, Holds, Active, Repos!Resting
  <2>2. SearchFits(u)'
    BY <1>5 DEF SearchFits
  <2> QED
    BY <2>1, <2>2
<1>10. PICK e, c, g : e = row.env /\ c = Repos!Content(e) /\ g = Forge(u)
  OBVIOUS
<1>11. c = Repos!Content(e)' /\ c \in Logins
  BY <1>4, <1>7, <1>10, ContentStays, KitsAssumption DEF SetupInv, RowsFit, KitsAdmitted
<1>12. ReadOf(u)' = c /\ Bound(u)' = c
  <2>1. repoRow'[setup'[u].id].env = e /\ setup'[u].snapshot.env = e
    BY <1>1, <1>5, <1>6, <1>10
  <2> QED
    BY <1>11, <2>1 DEF ReadOf, Bound, Repos!Content
<1>13. ReadFits(u)'
  <2>2. row \in RepoRecord'
    BY <1>4, <1>7, GrownTypes
  <2>3. Keeps(c, c, h) /\ Adds(c, c, h, Forge(u)')
    BY DEF Keeps, Adds
  <2> QED
    BY <1>1, <1>5, <1>6, <1>12, <2>2, <2>3 DEF ReadFits, Keeps, Adds
<1>14. ReadsAgree'
  <2>1. \A v \in Setups : Active(v)' => Active(v)
    BY <1>2, <1>5 DEF Active
  <2>2. ASSUME NEW v \in Setups \ {u}, HasRead(v)'
        PROVE  /\ HasRead(v) /\ setup'[v] = setup[v] /\ ReadOf(v)' = ReadOf(v) /\ Forge(v)' = Forge(v)
               /\ ReadFits(v)
    BY <1>5, <2>2 DEF HasRead, ReadOf, Forge, Repos!Content, Repos!is_github_source, SetupInv
  <2>3. ASSUME NEW v \in Setups \ {u}, HasRead(v)', setup'[v].id = i
        PROVE  /\ Keeps(ReadOf(v), c, setup[v].harness) /\ setup[v].harness = h
               /\ Adds(ReadOf(v), c, setup[v].harness, Forge(v))
    <3>1. /\ HasRead(v) /\ setup[v].id = i /\ ReadFits(v)
      BY <2>2, <2>3
    <3>2. Bound(v) = c
      BY <1>1, <1>10, <3>1 DEF Bound
    <3>3. Active(v)
      BY <3>1 DEF HasRead, Active, Repos!Resting
    <3>4. setup[v].harness = h
      BY <1>1, <1>2, <1>3, <3>1, <3>3, OneHarness
    <3> QED
      BY <3>1, <3>2, <3>4 DEF ReadFits
  <2>4. ASSUME NEW v \in Setups, NEW w \in Setups, HasRead(v)', HasRead(w)',
               setup'[v].id = setup'[w].id
        PROVE  Adds(ReadOf(v)', ReadOf(w)', setup'[v].harness, Forge(v)')
    <3>1. CASE v = w
      BY <3>1 DEF Adds
    <3>2. CASE v = u /\ w # u
      <4>1. Keeps(ReadOf(w), c, h) /\ ReadOf(w)' = ReadOf(w)
        BY <1>6, <2>2, <2>3, <2>4, <3>2
      <4>2. Adds(c, ReadOf(w), h, Forge(u)')
        BY <4>1 DEF Keeps, Adds
      <4> QED
        BY <1>6, <1>12, <3>2, <4>1, <4>2
    <3>3. CASE v # u /\ w = u
      <4>1. /\ Adds(ReadOf(v), c, setup[v].harness, Forge(v)) /\ ReadOf(v)' = ReadOf(v)
            /\ setup'[v] = setup[v] /\ Forge(v)' = Forge(v)
        BY <1>6, <2>2, <2>3, <2>4, <3>3
      <4> QED
        BY <1>12, <3>3, <4>1
    <3>4. CASE v # u /\ w # u
      BY <2>2, <2>4, <3>4 DEF SetupInv, ReadsAgree
    <3> QED
      BY <3>1, <3>2, <3>3, <3>4
  <2>5. ~kit'.overlap => \A v, w \in Setups : Active(v)' /\ Active(w)' => v = w
    BY <2>1 DEF SetupInv, ReadsAgree
  <2> QED
    BY <2>4, <2>5 DEF ReadsAgree, Adds
<1>15. \A v \in Setups \ {u} : Holds(v) => Closed(setup[v].id)'
  BY <1>5 DEF SetupInv, SetupFits, Closed, Repos!TasksOf
<1> QED
  BY <1>5, <1>7, <1>8, <1>9, <1>13, <1>14, <1>15, StepKeepsSetup

LEMMA InspectKeepsSetup ==
  ASSUME SetupInv, NEW u \in Setups, Repos!Inspect(u)
  PROVE  SetupInv'
<1> DEFINE row == repoRow[setup[u].id]
<1>1. /\ setup[u].pc = "inspect" /\ DOMAIN kit = KitFields /\ lock # u
      /\ UNCHANGED <<repoRow, files, connections, lock, backlog, owed, kit>>
  BY DEF Repos!Inspect, SetupInv, KitFits, LockFits
<1>2. ASSUME NEW how \in Repos!Resting, Repos!To(u, [pc |-> how])
      PROVE  SetupInv'
  <2>1. Repos!End(u, how)
    BY <1>1, <1>2 DEF Repos!End
  <2> QED
    BY <1>1, <2>1, EndKeepsSetup
<1>3. CASE Repos!To(u, [pc |-> "hold", snapshot |-> row, replace |-> TRUE])
  <2>2. Repos!To(u, [pc |-> "hold", snapshot |-> row, replace |-> TRUE,
                     connection |-> setup[u].connection])
    <3> DEFINE old == [pc |-> "hold", snapshot |-> row, replace |-> TRUE]
               new == [pc |-> "hold", snapshot |-> row, replace |-> TRUE,
                       connection |-> setup[u].connection]
    <3>1. /\ DOMAIN new = DOMAIN old \cup {"connection"}
          /\ new["connection"] = setup[u]["connection"] /\ "connection" \notin DOMAIN old
          /\ \A f \in DOMAIN old : new[f] = old[f]
      <4>1. DOMAIN new = {"pc", "snapshot", "replace", "connection"}
        OBVIOUS
      <4>2. DOMAIN old = {"pc", "snapshot", "replace"}
        OBVIOUS
      <4>3. /\ new["pc"] = "hold" /\ new["snapshot"] = row /\ new["replace"] = TRUE
            /\ new["connection"] = setup[u]["connection"]
        OBVIOUS
      <4>4. old["pc"] = "hold" /\ old["snapshot"] = row /\ old["replace"] = TRUE
        OBVIOUS
      <4> HIDE DEF old, new, row
      <4> QED
        BY <4>1, <4>2, <4>3, <4>4
    <3>2. Repos!To(u, old)
      BY <1>3
    <3> HIDE DEF old, new
    <3>3. Repos!To(u, new)
      <4>1. [f \in DOMAIN setup[u] |-> IF f \in DOMAIN old THEN old[f] ELSE setup[u][f]]
              = [f \in DOMAIN setup[u] |-> IF f \in DOMAIN new THEN new[f] ELSE setup[u][f]]
        BY <3>1
      <4> QED
        BY <3>2, <4>1 DEF Repos!To
    <3> QED
      BY <3>3 DEF new
  <2> QED
    BY <1>1, <2>2, ReadNow
<1>4. CASE /\ Repos!repo_configured(row)
           /\ Repos!To(u, [pc |-> "hold", snapshot |-> row, replace |-> FALSE, connection |-> Nil])
  BY <1>1, <1>4, ReadNow
<1> QED
  BY <1>2, <1>3, <1>4 DEF Repos!Inspect, Repos!Resting

(* Another's hold or another's launch in flight refuses it; otherwise nothing *)
(* of the repository is being launched from here on.                          *)
LEMMA RowHeld ==
  ASSUME SetupInv, NEW id \in DOMAIN repoRow, NEW b \in BOOLEAN,
         repoRow' = [repoRow EXCEPT ![id].held = b], UNCHANGED <<files, connections, kit>>
  PROVE  /\ Grown /\ NewlyPlaced /\ KitFits' /\ RowsFit' /\ Repos!OneRepoPerSource'
         /\ DOMAIN repoRow' = DOMAIN repoRow /\ repoRow'[id].held = b
         /\ \A x \in DOMAIN repoRow \ {id} : repoRow'[x] = repoRow[x]
         /\ \A x \in DOMAIN repoRow : /\ repoRow'[x].env = repoRow[x].env
                                      /\ repoRow'[x].source = repoRow[x].source
                                      /\ repoRow'[x].harness = repoRow[x].harness
<1>1. PICK old, new : old = repoRow[id] /\ new = [old EXCEPT !.held = b]
  OBVIOUS
<1>2. \A x \in DOMAIN repoRow : repoRow[x] \in RepoRecord
  BY DEF SetupInv, RowsFit
<1>3. /\ new \in RepoRecord /\ new.held = b /\ new.env = old.env /\ new.source = old.source
      /\ new.harness = old.harness
  <2>1. old \in RepoRecord
    BY <1>1, <1>2
  <2> QED
    BY <1>1, <2>1 DEF RepoRecord
<1>4. /\ DOMAIN repoRow' = DOMAIN repoRow /\ repoRow'[id] = new
      /\ \A x \in DOMAIN repoRow \ {id} : repoRow'[x] = repoRow[x]
      /\ repoRow' = [x \in DOMAIN repoRow |-> repoRow'[x]]
  BY <1>1
<1>5. \A x \in DOMAIN repoRow : /\ repoRow'[x].env = repoRow[x].env
                                /\ repoRow'[x].source = repoRow[x].source
                                /\ repoRow'[x].harness = repoRow[x].harness
  BY <1>1, <1>3, <1>4
<1>6. Grown /\ NewlyPlaced
  BY <1>4, <1>5 DEF Grown, NewlyPlaced, SetupInv, KitFits
<1>7. KitFits'
  BY <1>5, <1>6, KitStays DEF SetupInv
<1>8. RowsFit'
  <2>1. /\ RowsFit /\ RepoRecord \subseteq RepoRecord' /\ Logins' = Logins
        /\ Repos!Harnesses' = Repos!Harnesses
    BY <1>6, GrownTypes DEF SetupInv
  <2>2. \A x \in DOMAIN repoRow : repoRow'[x] \in RepoRecord
    BY <1>2, <1>3, <1>4
  <2>3. repoRow' \in [DOMAIN repoRow' -> RepoRecord']
    BY <1>4, <2>1, <2>2
  <2>4. \A x \in DOMAIN repoRow' : repoRow'[x].source = Nil => repoRow'[x].env = Nil
    BY <1>4, <1>5, <2>1 DEF RowsFit
  <2> QED
    BY <2>1, <2>3, <2>4 DEF RowsFit
<1>9. Repos!OneRepoPerSource'
  BY <1>4, <1>5 DEF SetupInv, Repos!OneRepoPerSource
<1> QED
  BY <1>3, <1>4, <1>5, <1>6, <1>7, <1>8, <1>9

(* A task that may be launching refuses the hold: of the rest none is.        *)
HoldsTasks(awaiting) ==
  /\ backlog' = [t \in DOMAIN backlog |->
                   IF t \in awaiting THEN [backlog[t] EXCEPT !.held = TRUE] ELSE backlog[t]]
  /\ owed' = owed \cup awaiting

LEMMA TasksHeld ==
  ASSUME SetupInv, NEW id, NEW awaiting,
         id # Nil, awaiting = {t \in Repos!TasksOf(id) : ~backlog[t].registered},
         \A t \in awaiting : ~Repos!MayBeLaunching(backlog[t]), HoldsTasks(awaiting)
  PROVE  /\ TasksFit' /\ DOMAIN backlog' = DOMAIN backlog
         /\ \A t \in DOMAIN backlog' : backlog'[t].repo = id => ~backlog'[t].spawning
<1>1. TasksFit /\ awaiting \subseteq DOMAIN backlog
  BY DEF SetupInv, Repos!TasksOf
<1>2. /\ DOMAIN backlog' = DOMAIN backlog /\ owed' = owed \cup awaiting
      /\ \A t \in DOMAIN backlog \ awaiting : backlog'[t] = backlog[t]
      /\ \A t \in awaiting : backlog'[t] = [backlog[t] EXCEPT !.held = TRUE]
  BY <1>1 DEF HoldsTasks
<1>3. ASSUME NEW t \in awaiting
      PROVE  /\ TaskFits(backlog[t]) /\ ~backlog[t].spawning /\ ~backlog[t].running
             /\ ~backlog[t].registered
  BY <1>1, <1>3 DEF TasksFit, TaskFits, Repos!MayBeLaunching
<1>4. ASSUME NEW t \in awaiting
      PROVE  /\ TaskFits(backlog'[t]) /\ backlog'[t].held /\ ~backlog'[t].spawning
             /\ backlog'[t].repo # Nil
  <2>1. PICK old, new : old = backlog[t] /\ new = backlog'[t]
    OBVIOUS
  <2>2. /\ new = [old EXCEPT !.held = TRUE] /\ TaskFits(old) /\ ~old.spawning /\ ~old.running
        /\ ~old.registered /\ old.repo # Nil
    BY <1>2, <1>3, <2>1 DEF Repos!TasksOf
  <2>3. /\ DOMAIN new = TaskFields /\ new.held = TRUE
        /\ \A f \in TaskFields \ {"held"} : new[f] = old[f]
    BY <2>2 DEF TaskFits, TaskFields
  <2>4. /\ new.spawning = old.spawning /\ new.running = old.running
        /\ new.registered = old.registered /\ new.lifecycle = old.lifecycle
        /\ new.repo = old.repo /\ new.claimed = old.claimed
    BY <2>3 DEF TaskFields
  <2> QED
    BY <2>1, <2>2, <2>3, <2>4 DEF TaskFits
<1>5. \A t \in DOMAIN backlog : TaskFits(backlog'[t])
  BY <1>1, <1>2, <1>4 DEF TasksFit
<1>6. /\ owed' \subseteq DOMAIN backlog
      /\ \A t \in owed' : backlog'[t].held /\ backlog'[t].repo # Nil
  BY <1>1, <1>2, <1>4 DEF TasksFit
<1>7. TasksFit'
  BY <1>2, <1>5, <1>6 DEF TasksFit, TaskFits
<1>8. ASSUME NEW t \in DOMAIN backlog', backlog'[t].repo = id
      PROVE  ~backlog'[t].spawning
  <2>1. CASE t \in awaiting
    BY <1>4, <2>1
  <2>2. CASE t \notin awaiting
    <3>1. t \in DOMAIN backlog /\ backlog'[t] = backlog[t]
      BY <1>2, <2>2
    <3>2. backlog[t].registered
      BY <1>8, <2>2, <3>1 DEF Repos!TasksOf
    <3> QED
      BY <1>1, <3>1, <3>2 DEF TasksFit, TaskFits
  <2> QED
    BY <2>1, <2>2
<1> QED
  BY <1>2, <1>7, <1>8

LEMMA HoldKeepsSetup ==
  ASSUME SetupInv, NEW u \in Setups, Repos!begin_repo_setup(u)
  PROVE  SetupInv'
<1> DEFINE awaiting == {t \in Repos!TasksOf(setup[u].id) : ~backlog[t].registered}
<1>1. setup[u].pc = "hold" /\ UNCHANGED <<files, connections, kit>> /\ DOMAIN kit = KitFields
  BY DEF Repos!begin_repo_setup, SetupInv, KitFits
<1>2. CASE Repos!End(u, "failed") /\ UNCHANGED <<repoRow, backlog, owed>>
  BY <1>1, <1>2, EndKeepsSetup DEF Repos!Resting
<1>3. ASSUME NEW i, i = setup[u].id, NEW waiting, waiting = awaiting,
             NEW p \in {"connect", "compose"}, lock = Nil, \A t \in waiting : ~Repos!MayBeLaunching(backlog[t]),
             repoRow' = [repoRow EXCEPT ![i].held = TRUE], HoldsTasks(waiting),
             lock' = u, Repos!To(u, [pc |-> p])
      PROVE  SetupInv'
  <2> HIDE DEF awaiting
  <2>1. SetupFits(u) /\ Active(u) /\ HasRead(u) /\ i \in DOMAIN repoRow /\ i # Nil
    BY <1>1, <1>3 DEF SetupInv, SetupFits, Active, HasRead, Repos!Resting
  <2>2. /\ Grown /\ NewlyPlaced /\ KitFits' /\ RowsFit' /\ Repos!OneRepoPerSource'
        /\ repoRow'[i].held = TRUE
        /\ \A x \in DOMAIN repoRow : /\ repoRow'[x].env = repoRow[x].env
                                     /\ repoRow'[x].source = repoRow[x].source
    BY <1>1, <1>3, <2>1, RowHeld
  <2>3. /\ TasksFit' /\ DOMAIN backlog' = DOMAIN backlog
        /\ \A t \in DOMAIN backlog' : backlog'[t].repo = i => ~backlog'[t].spawning
    <3>1. waiting = {t \in Repos!TasksOf(i) : ~backlog[t].registered}
      BY <1>3 DEF awaiting
    <3> QED
      BY <1>3, <2>1, <3>1, TasksHeld
  <2>4. /\ DOMAIN setup' = Setups
        /\ \A v \in Setups \ {u} : setup'[v] = setup[v]
        /\ DOMAIN setup'[u] = SetupFields /\ setup'[u].pc = p
        /\ \A f \in SetupFields \ {"pc"} : setup'[u][f] = setup[u][f]
    BY <1>3, StepSet
  <2>5. /\ setup'[u].command = setup[u].command /\ setup'[u].harness = setup[u].harness
        /\ setup'[u].candidate = setup[u].candidate /\ setup'[u].id = i
        /\ setup'[u].connection = setup[u].connection /\ setup'[u].snapshot = setup[u].snapshot
    BY <1>3, <2>4 DEF SetupFields
  <2>6. LockFits'
    BY <1>1, <1>3, <2>4, KitsAssumption DEF SetupInv, LockFits, KitsAdmitted
  <2>7. Closed(i)'
    BY <1>3, <2>2, <2>3 DEF Closed, Repos!TasksOf
  <2>8. SetupFits(u)'
    <3>1. /\ setup[u].id = i /\ repoRow[i].source # Nil /\ repoRow'[i].source = repoRow[i].source
          /\ setup[u].connection \in DOMAIN files \cup {Nil} /\ setup[u].candidate \in Nat
      BY <1>3, <2>1, <2>2 DEF SetupFits
    <3>2. Closed(setup[u].id)'
      BY <2>5, <2>7 DEF Closed, Repos!TasksOf
    <3> QED
      BY <1>1, <1>3, <2>1, <2>2, <2>4, <2>5, <3>1, <3>2 DEF SetupFits, SetupSteps, Active,
         Grown, Repos!Resting
  <2>9. SearchFits(u)'
    BY <2>1, <2>4, <2>5 DEF SearchFits
  <2>10. ReadFits(u)'
    <3>1. files' \in Seq(Logins) /\ setup'[u].pc # "bind"
      BY <1>1, <1>3, <2>4 DEF SetupInv, RowsFit
    <3>2. repoRow'[setup[u].id].env = repoRow[setup[u].id].env
      BY <1>3, <2>1, <2>2
    <3> QED
      BY <1>3, <2>1, <2>2, <2>5, <3>1, <3>2, ReadGoesOn
  <2>11. ReadsAgree'
    BY <1>3, <2>1, <2>2, <2>4, <2>5, ReadsStay
  <2>12. \A v \in Setups \ {u} : ~Holds(v)
    BY <1>3, KitsAssumption DEF SetupInv, LockFits, Holds, KitsAdmitted
  <2> QED
    BY <2>2, <2>3, <2>4, <2>6, <2>8, <2>9, <2>10, <2>11, <2>12, StepKeepsSetup
<1> QED
  <2>1. CASE lock # Nil \/ \E t \in awaiting : Repos!MayBeLaunching(backlog[t])
    BY <1>2, <2>1 DEF Repos!begin_repo_setup
  <2>2. CASE lock = Nil /\ \A t \in awaiting : ~Repos!MayBeLaunching(backlog[t])
    <3>1. PICK p : p = IF setup[u].connection = Nil /\ setup[u].replace
                       THEN "connect" ELSE "compose"
      OBVIOUS
    <3>2. /\ repoRow' = [repoRow EXCEPT ![setup[u].id].held = TRUE] /\ HoldsTasks(awaiting)
          /\ lock' = u /\ Repos!To(u, [pc |-> p])
      BY <2>2, <3>1 DEF Repos!begin_repo_setup, HoldsTasks
    <3>3. p \in {"connect", "compose"}
      BY <3>1
    <3> HIDE DEF awaiting
    <3> QED
      BY <1>3, <2>2, <3>2, <3>3
  <2> QED
    BY <2>1, <2>2

(* The new file keeps the old one's and has the connection's keys.            *)
Composition(u) ==
  LET old == ReadOf(u) c == setup[u].connection
  IN [(IF c = Nil THEN old ELSE Repos!Merged(old, c, setup[u].harness))
        EXCEPT !.forge = @ \/ Repos!is_github_source(setup[u].snapshot.source)]

LEMMA CompositionKeeps ==
  ASSUME SetupInv, NEW u \in Setups, setup[u].pc = "compose", ReadOf(u) \in Logins, HasRead(u),
         setup[u].connection # Nil => Repos!configured(setup[u].connection, setup[u].harness)
  PROVE  /\ Composition(u) \in Logins
         /\ Keeps(ReadOf(u), Composition(u), setup[u].harness)
         /\ Adds(ReadOf(u), Composition(u), setup[u].harness, Forge(u))
         /\ Forge(u) => Composition(u).forge
         /\ setup[u].connection = Nil => ReadOf(u).auth \subseteq Composition(u).auth
         /\ setup[u].connection # Nil =>
              /\ setup[u].connection \in DOMAIN files
              /\ Usable(files[setup[u].connection], setup[u].harness)
              /\ files[setup[u].connection].auth \subseteq Composition(u).auth
<1>1. PICK old, c, h, g : old = ReadOf(u) /\ h = setup[u].harness /\ c = setup[u].connection
                            /\ g = Repos!is_github_source(setup[u].snapshot.source)
  OBVIOUS
<1>2. /\ ReadFits(u) /\ old \in Logins /\ h \in Repos!Harnesses
      /\ c \in DOMAIN files \cup {Nil}
  BY <1>1 DEF SetupInv, ReadFits, SetupFits, KitFits, Active, Repos!Resting
<1>3. g \in BOOLEAN /\ g = Forge(u)
  BY <1>1, <1>2 DEF Forge, ReadFits, Repos!is_github_source
<1>4. PICK mid : mid = IF c = Nil THEN old ELSE Repos!Merged(old, c, h)
  OBVIOUS
<1>5. c # Nil => /\ c \in DOMAIN files /\ Usable(files[c], h) /\ Repos!Content(c) = files[c]
                 /\ files[c].auth \subseteq Repos!AUTH_KEYS(h)
  BY <1>1, <1>2 DEF Repos!configured, Repos!connection_values, Repos!Content, Usable
<1>6. /\ mid \in Logins /\ old.auth \subseteq mid.auth \cup Repos!AUTH_KEYS(h)
      /\ mid.auth \subseteq old.auth \cup Repos!AUTH_KEYS(h)
      /\ mid.forge = old.forge /\ mid.other = old.other
      /\ c = Nil => old.auth \subseteq mid.auth
      /\ c # Nil => files[c].auth \subseteq mid.auth
  <2>1. CASE c = Nil
    BY <1>2, <1>4, <2>1 DEF Logins
  <2>2. CASE c # Nil
    <3>1. mid = [old EXCEPT !.auth = (@ \ Repos!AUTH_KEYS(h)) \cup files[c].auth]
      BY <1>4, <1>5, <2>2 DEF Repos!Merged
    <3>2. old.auth \subseteq Repos!Keys /\ files[c].auth \subseteq Repos!Keys
      BY <1>2, <1>5, <2>2, KeysFit DEF Logins
    <3>3. /\ mid.auth = (old.auth \ Repos!AUTH_KEYS(h)) \cup files[c].auth
          /\ mid.login = old.login /\ mid.forge = old.forge /\ mid.other = old.other
          /\ mid \in Logins
      BY <1>2, <3>1, <3>2 DEF Logins
    <3> QED
      BY <1>5, <2>2, <3>3
  <2> QED
    BY <2>1, <2>2
<1>7. PICK new : new = [mid EXCEPT !.forge = @ \/ g]
  OBVIOUS
<1>8. /\ new \in Logins /\ new.auth = mid.auth /\ new.other = mid.other
      /\ new.forge = (mid.forge \/ g)
  BY <1>3, <1>6, <1>7 DEF Logins
<1>9. Composition(u) = new
  BY <1>1, <1>4, <1>7 DEF Composition
<1> QED
  BY <1>1, <1>3, <1>5, <1>6, <1>8, <1>9 DEF Keeps, Adds

LEMMA ComposeKeepsSetup ==
  ASSUME SetupInv, NEW u \in Setups, Repos!Compose(u)
  PROVE  SetupInv'
<1>1. /\ setup[u].pc = "compose" /\ DOMAIN kit = KitFields
      /\ UNCHANGED <<repoRow, connections, backlog, owed, kit>>
  BY DEF Repos!Compose, SetupInv, KitFits
<1>2. ASSUME NEW how \in Repos!Resting, Repos!End(u, how), UNCHANGED files
      PROVE  SetupInv'
  BY <1>1, <1>2, EndKeepsSetup
<1>3. ASSUME Repos!Write(Composition(u)), UNCHANGED lock,
             Repos!To(u, [pc |-> "bind", ref |-> Repos!Fresh]),
             setup[u].connection # Nil => Repos!configured(setup[u].connection, setup[u].harness)
      PROVE  SetupInv'
  <2>1. SetupFits(u) /\ Active(u) /\ setup[u].id # Nil /\ HasRead(u) /\ Holds(u)
    BY <1>1 DEF SetupInv, SetupFits, Active, HasRead, Holds, Repos!Resting
  <2>2. PICK new, r : new = Composition(u) /\ r = Repos!Fresh
    OBVIOUS
  <2>3. ReadOf(u) \in Logins
    <3>1. ReadFits(u) /\ RowsFit
      BY DEF SetupInv
    <3>2. PICK f : f = setup[u].snapshot.env
      OBVIOUS
    <3>3. f \in DOMAIN files \cup {Nil}
      BY <2>1, <3>1, <3>2 DEF ReadFits, RepoRecord
    <3>4. Repos!Content(f) \in Logins
      <4>1. CASE f = Nil
        BY <4>1 DEF Repos!Content, Repos!Empty, Logins
      <4>2. CASE f # Nil
        BY <3>1, <3>3, <4>2 DEF RowsFit, Repos!Content
      <4> QED
        BY <4>1, <4>2
    <3> QED
      BY <3>2, <3>4 DEF ReadOf
  <2>4. /\ new \in Logins /\ Keeps(ReadOf(u), new, setup[u].harness)
        /\ Adds(ReadOf(u), new, setup[u].harness, Forge(u))
        /\ Forge(u) => new.forge
        /\ setup[u].connection = Nil => ReadOf(u).auth \subseteq new.auth
        /\ setup[u].connection # Nil =>
             /\ setup[u].connection \in DOMAIN files
             /\ Usable(files[setup[u].connection], setup[u].harness)
             /\ files[setup[u].connection].auth \subseteq new.auth
    BY <1>1, <1>3, <2>1, <2>2, <2>3, CompositionKeeps
  <2>5. /\ files' \in Seq(Logins) /\ DOMAIN files \subseteq DOMAIN files'
        /\ \A f \in DOMAIN files : files'[f] = files[f]
        /\ r \in DOMAIN files' /\ files'[r] = new
    BY <1>3, <2>2, <2>4, FileWritten DEF SetupInv
  <2>6. /\ DOMAIN setup' = Setups /\ \A v \in Setups \ {u} : setup'[v] = setup[v]
        /\ DOMAIN setup'[u] = SetupFields /\ setup'[u].pc = "bind" /\ setup'[u].ref = r
        /\ \A f \in SetupFields \ {"pc", "ref"} : setup'[u][f] = setup[u][f]
    <3>1. /\ DOMAIN setup' = Setups /\ \A v \in Setups \ {u} : setup'[v] = setup[v]
          /\ DOMAIN setup'[u] = SetupFields
          /\ \A f \in SetupFields :
               setup'[u][f] = IF f \in DOMAIN [pc |-> "bind", ref |-> r]
                              THEN [pc |-> "bind", ref |-> r][f] ELSE setup[u][f]
      BY <1>3, <2>2, FieldsSet
    <3> QED
      BY <3>1 DEF SetupFields
  <2>7. /\ setup'[u].command = setup[u].command /\ setup'[u].harness = setup[u].harness
        /\ setup'[u].candidate = setup[u].candidate /\ setup'[u].id = setup[u].id
        /\ setup'[u].connection = setup[u].connection /\ setup'[u].snapshot = setup[u].snapshot
    BY <2>6 DEF SetupFields
  <2>8. Grown
    BY <1>1, <2>5 DEF Grown
  <2>9. LockFits'
    BY <1>1, <1>3, <2>6 DEF SetupInv, LockFits
  <2>10. SetupFits(u)'
    BY <1>1, <2>1, <2>5, <2>6, <2>7 DEF SetupFits, SetupSteps, Active, Holds, Closed, Repos!Resting,
       Repos!TasksOf
  <2>11. SearchFits(u)'
    BY <2>6 DEF SearchFits
  <2>12. ReadOf(u)' = ReadOf(u) /\ Forge(u)' = Forge(u)
    BY <1>1, <2>1, <2>7, <2>8, ReadsSame
  <2>13. Composed(u)'
    BY <1>1, <2>4, <2>5, <2>6, <2>7, <2>12 DEF Composed, Keeps, Adds, Usable
  <2>14. ReadFits(u)'
    BY <1>1, <2>1, <2>5, <2>7, <2>8, <2>13, ReadGoesOn
  <2> QED
    BY <1>1, <2>1, <2>5, <2>6, <2>7, <2>9, <2>10, <2>11, <2>14, QuietStep
<1> QED
  <2>1. CASE \E how \in Repos!Resting : Repos!End(u, how) /\ UNCHANGED files
    BY <1>2, <2>1
  <2>2. CASE ~\E how \in Repos!Resting : Repos!End(u, how) /\ UNCHANGED files
    <3>1. /\ UNCHANGED lock /\ Repos!To(u, [pc |-> "bind", ref |-> Repos!Fresh])
          /\ Repos!Write(Composition(u))
          /\ setup[u].connection # Nil => Repos!configured(setup[u].connection, setup[u].harness)
      BY <2>2 DEF Repos!Compose, Composition, ReadOf, Repos!Resting
    <3> QED
      BY <1>3, <3>1
  <2> QED
    BY <2>1, <2>2

(* The new file is bound: what the row had survives, and what another set-up  *)
(* of the source had read is there, too.                                      *)
Binding(u) ==
  /\ SetupFits(u) /\ Active(u) /\ Holds(u) /\ HasRead(u) /\ ReadFits(u) /\ Composed(u)
  /\ setup[u].id \in DOMAIN repoRow /\ repoRow[setup[u].id].source # Nil
  /\ setup[u].harness \in Repos!Harnesses /\ setup[u].ref \in DOMAIN files
  /\ setup[u].ref # Nil /\ lock = u /\ DOMAIN kit = KitFields
  /\ UNCHANGED <<files, connections, lock, backlog, owed, kit>>

LEMMA BindFacts ==
  ASSUME SetupInv, NEW u \in Setups, Repos!Bind(u)
  PROVE  Binding(u) /\ setup[u].pc = "bind"
<1>1. /\ setup[u].pc = "bind" /\ UNCHANGED <<files, connections, lock, backlog, owed, kit>>
  BY DEF Repos!Bind
<1>2. /\ SetupFits(u) /\ Active(u) /\ Holds(u) /\ HasRead(u) /\ ReadFits(u)
  BY <1>1 DEF SetupInv, SetupFits, Active, Holds, HasRead, Repos!Resting
<1>3. Composed(u) /\ setup[u].ref \in DOMAIN files
  BY <1>1, <1>2 DEF ReadFits, Composed
<1>4. /\ setup[u].id \in DOMAIN repoRow /\ repoRow[setup[u].id].source # Nil
      /\ setup[u].harness \in Repos!Harnesses
  BY <1>2 DEF SetupFits, SetupInv, KitFits, HasRead
<1>5. lock = u /\ DOMAIN kit = KitFields /\ setup[u].ref # Nil
  BY <1>1, <1>3, KitsAssumption DEF SetupInv, LockFits, KitFits, RowsFit, KitsAdmitted
<1> QED
  BY <1>1, <1>2, <1>3, <1>4, <1>5 DEF Binding

LEMMA BoundRow ==
  ASSUME SetupInv, NEW u \in Setups, Repos!Bind(u), NEW i, i = setup[u].id
  PROVE  /\ DOMAIN repoRow' = DOMAIN repoRow
         /\ \A x \in DOMAIN repoRow \ {i} : repoRow'[x] = repoRow[x]
         /\ repoRow'[i].source = repoRow[i].source /\ repoRow'[i].env = setup[u].ref
         /\ repoRow'[i].held = repoRow[i].held
         /\ repoRow'[i].harness \in {repoRow[i].harness, setup[u].harness}
         /\ setup[u].connection # Nil => /\ repoRow'[i].harness = setup[u].harness
                                        /\ repoRow'[i].dir = Repos!Directory(setup[u].connection)
         /\ repoRow' \in [DOMAIN repoRow -> RepoRecord]
<1>1. PICK old, h, r, d :
        /\ old = repoRow[i] /\ r = setup[u].ref
        /\ h = IF setup[u].connection = Nil THEN old.harness ELSE setup[u].harness
        /\ d = IF setup[u].connection = Nil THEN old.dir ELSE Repos!Directory(setup[u].connection)
  OBVIOUS
<1>2. /\ i \in DOMAIN repoRow /\ setup[u].harness \in Repos!Harnesses /\ r \in DOMAIN files
      /\ setup[u].connection \in DOMAIN files \cup {Nil}
  BY <1>1, BindFacts DEF Binding, SetupFits
<1>3. \A x \in DOMAIN repoRow : repoRow[x] \in RepoRecord
  BY DEF SetupInv, RowsFit
<1>4. PICK new : new = [old EXCEPT !.env = r, !.dir = d, !.harness = h]
  OBVIOUS
<1>5. repoRow' = [repoRow EXCEPT ![i] = new]
  <2>1. repoRow' = [repoRow EXCEPT ![i].env = setup[u].ref,
              ![i].dir = IF setup[u].connection = Nil THEN @
                         ELSE Repos!Directory(setup[u].connection),
              ![i].harness = IF setup[u].connection = Nil THEN @ ELSE setup[u].harness]
    BY DEF Repos!Bind
  <2> QED
    BY <1>1, <1>2, <1>3, <1>4, <2>1 DEF RepoRecord
<1>6. /\ new \in RepoRecord /\ new.source = old.source /\ new.env = r /\ new.held = old.held
      /\ new.harness = h /\ new.dir = d
  <2>1. old \in RepoRecord /\ h \in Repos!Harnesses \cup {Nil} /\ d \in DOMAIN files \cup {Nil}
    BY <1>1, <1>2, <1>3 DEF RepoRecord, Repos!Directory
  <2> QED
    BY <1>2, <1>4, <2>1 DEF RepoRecord
<1> QED
  BY <1>1, <1>2, <1>3, <1>5, <1>6

LEMMA OthersKeepReading ==
  ASSUME SetupInv, NEW u \in Setups, Repos!Bind(u), Grown, NEW v \in Setups \ {u},
         setup'[v] = setup[v]
  PROVE  ReadFits(v)'
<1> SUFFICES ASSUME HasRead(v) PROVE ReadFits(v)'
  BY DEF ReadFits, HasRead
<1>1. PICK i : i = setup[u].id
  OBVIOUS
<1>2. Binding(u) /\ setup[v].id \in DOMAIN repoRow
  BY BindFacts DEF SetupInv, SetupFits, HasRead
<1>3. CASE setup[v].id # i
  <2>1. repoRow'[setup[v].id].env = repoRow[setup[v].id].env
    BY <1>1, <1>2, <1>3, BoundRow
  <2> QED
    BY <2>1, OthersRead
<1>4. CASE setup[v].id = i
  <2>1. kit.overlap /\ setup[u].harness = setup[v].harness
    BY <1>1, <1>2, <1>4, OneHarness DEF Binding, HasRead, Active, Repos!Resting
  <2>2. setup[v].pc = "hold"
    BY <1>2 DEF Binding, SetupInv, LockFits, HasRead
  <2>3. PICK new, mine, theirs, h, g : /\ new = files[setup[u].ref] /\ mine = ReadOf(u)
                                       /\ theirs = ReadOf(v) /\ h = setup[v].harness /\ g = Forge(u)
    OBVIOUS
  <2>4. /\ Keeps(mine, new, h) /\ Adds(mine, new, h, g) /\ (g => new.forge)
    BY <1>2, <2>1, <2>3 DEF Binding, Composed
  <2>5. Forge(v) = g
    BY <1>1, <1>4, <2>3 DEF Forge
  <2>6. Adds(mine, theirs, h, g) /\ Adds(theirs, mine, h, g)
    BY <1>1, <1>2, <1>4, <2>1, <2>3, <2>5 DEF SetupInv, ReadsAgree, Binding
  <2>7. Keeps(theirs, new, h) /\ Adds(theirs, new, h, g)
    BY <2>4, <2>6 DEF Keeps, Adds
  <2>8. /\ repoRow'[i].source = repoRow[i].source /\ repoRow'[i].env = setup[u].ref
    BY <1>1, BoundRow
  <2>9. Bound(v)' = new
    BY <1>2, <1>4, <2>3, <2>8 DEF Bound, Repos!Content, Binding
  <2>10. ReadOf(v)' = theirs /\ Forge(v)' = g
    BY <1>2, <1>4, <2>3, <2>5, <2>8 DEF ReadOf, Forge, Repos!Content, Repos!is_github_source, Binding
  <2>11. ReadFits(v)
    BY DEF SetupInv
  <2> QED
    <3>1. setup[v].snapshot \in RepoRecord'
      BY <2>11, GrownTypes DEF ReadFits
    <3>2. setup[v].snapshot.source = repoRow'[setup[v].id].source
      BY <1>4, <2>8, <2>11 DEF ReadFits
    <3>3. kit'.overlap
      BY <1>2, <2>1 DEF Binding
    <3>4. /\ setup'[v].pc = "hold" /\ setup'[v].harness = h
          /\ setup'[v].connection = setup[v].connection /\ setup'[v].id = setup[v].id
          /\ setup'[v].snapshot = setup[v].snapshot
      BY <2>2, <2>3
    <3>5. /\ Keeps(ReadOf(v)', Bound(v)', h) /\ Adds(ReadOf(v)', Bound(v)', h, Forge(v)')
      BY <2>7, <2>9, <2>10
    <3> QED
      BY <2>10, <3>1, <3>2, <3>3, <3>4, <3>5 DEF ReadFits, Keeps, Adds
<1> QED
  BY <1>3, <1>4

LEMMA BindKeepsSetup ==
  ASSUME SetupInv, NEW u \in Setups, Repos!Bind(u)
  PROVE  SetupInv'
<1>1. PICK i : i = setup[u].id
  OBVIOUS
<1>2. Binding(u) /\ setup[u].pc = "bind"
  BY BindFacts
<1>3. /\ SetupFits(u) /\ Active(u) /\ i \in DOMAIN repoRow /\ i # Nil /\ repoRow[i].source # Nil
      /\ lock = u /\ DOMAIN kit = KitFields /\ UNCHANGED <<files, connections, lock, backlog, owed, kit>>
      /\ setup[u].ref \in DOMAIN files
  BY <1>1, <1>2 DEF Binding, SetupInv, KitFits
<1>4. /\ DOMAIN repoRow' = DOMAIN repoRow
      /\ \A x \in DOMAIN repoRow \ {i} : repoRow'[x] = repoRow[x]
      /\ repoRow'[i].source = repoRow[i].source
      /\ repoRow'[i].harness \in {repoRow[i].harness, setup[u].harness}
      /\ repoRow' \in [DOMAIN repoRow -> RepoRecord]
  BY <1>1, BoundRow
<1>5. /\ DOMAIN setup' = Setups /\ \A v \in Setups \ {u} : setup'[v] = setup[v]
      /\ DOMAIN setup'[u] = SetupFields /\ setup'[u].pc = "finish"
      /\ \A f \in SetupFields \ {"pc"} : setup'[u][f] = setup[u][f]
  BY StepSet DEF Repos!Bind
<1>6. /\ setup'[u].command = setup[u].command /\ setup'[u].harness = setup[u].harness
      /\ setup'[u].candidate = setup[u].candidate /\ setup'[u].id = i
      /\ setup'[u].connection = setup[u].connection
  BY <1>1, <1>5 DEF SetupFields
<1>7. \A x \in DOMAIN repoRow : repoRow'[x].source = repoRow[x].source
  BY <1>4
<1>8. Grown /\ NewlyPlaced
  BY <1>3, <1>4, <1>7 DEF Grown, NewlyPlaced
<1>9. KitFits'
  <2>1. \A c \in kit.commands : c.name = "quickstart" /\ repoRow[i].source = c.source
                                  => setup[u].harness = c.harness
    BY <1>1, <1>3 DEF SetupInv, KitFits, SetupFits
  <2>2. repoRow'[i].harness = repoRow[i].harness
          \/ \A c \in kit.commands : c.name = "quickstart" /\ repoRow'[i].source = c.source
                                       => repoRow'[i].harness = c.harness
    BY <1>4, <2>1
  <2> QED
    BY <1>4, <1>7, <1>8, <2>2, KitStays DEF SetupInv
<1>10. RowsFit'
  <2>1. /\ RowsFit /\ RepoRecord \subseteq RepoRecord' /\ Logins' = Logins
        /\ Repos!Harnesses' = Repos!Harnesses
    BY <1>8, GrownTypes DEF SetupInv
  <2>2. repoRow' \in [DOMAIN repoRow' -> RepoRecord']
    BY <1>4, <2>1
  <2>3. \A x \in DOMAIN repoRow' : repoRow'[x].source = Nil => repoRow'[x].env = Nil
    BY <1>3, <1>4, <2>1 DEF RowsFit
  <2> QED
    BY <1>3, <2>1, <2>2, <2>3 DEF RowsFit
<1>11. LockFits' /\ TasksFit' /\ Repos!OneRepoPerSource'
  BY <1>2, <1>3, <1>4, <1>5, <1>7 DEF SetupInv, LockFits, TasksFit, TaskFits, Repos!OneRepoPerSource
<1>12. SetupFits(u)' /\ SearchFits(u)' /\ ReadFits(u)' /\ ~HasRead(u)'
  <2>1. ~Holds(u)' /\ ~HasRead(u)' /\ ReadFits(u)' /\ SearchFits(u)'
    BY <1>5 DEF Holds, HasRead, ReadFits, SearchFits
  <2>2. /\ setup[u].id = i /\ setup[u].connection \in DOMAIN files \cup {Nil}
        /\ setup[u].candidate \in Nat
    BY <1>1, <1>3 DEF SetupFits
  <2>3. SetupFits(u)'
    BY <1>2, <1>3, <1>4, <1>5, <1>6, <2>1, <2>2 DEF SetupFits, SetupSteps, Active, Repos!Resting
  <2> QED
    BY <2>1, <2>3
<1>13. ReadsAgree'
  BY <1>3, <1>5, <1>8, <1>12, ReadsStay
<1>14. ASSUME NEW v \in Setups \ {u}
       PROVE  SetupFits(v)' /\ SearchFits(v)' /\ ReadFits(v)'
  <2>1. ~Holds(v)
    BY <1>3 DEF SetupInv, LockFits, Holds
  <2> QED
    BY <1>5, <1>8, <2>1, OthersFit, OthersKeepReading
<1> QED
  BY <1>9, <1>10, <1>11, <1>12, <1>13, <1>14 DEF SetupInv

LEMMA FinishKeepsSetup ==
  ASSUME SetupInv, NEW u \in Setups, Repos!finish_repo_setup(u)
  PROVE  SetupInv'
<1>1. PICK i : i = setup[u].id
  OBVIOUS
<1>2. /\ setup[u].pc = "finish" /\ repoRow' = [repoRow EXCEPT ![i].held = FALSE]
      /\ Repos!End(u, "done") /\ UNCHANGED <<files, connections, backlog, owed, kit>>
  BY <1>1 DEF Repos!finish_repo_setup
<1>3. /\ SetupFits(u) /\ Active(u) /\ i \in DOMAIN repoRow /\ lock = u
  BY <1>1, <1>2 DEF SetupInv, SetupFits, LockFits, Active, Repos!Resting
<1>4. /\ Grown /\ NewlyPlaced /\ KitFits' /\ RowsFit' /\ Repos!OneRepoPerSource'
      /\ \A x \in DOMAIN repoRow : /\ repoRow'[x].env = repoRow[x].env
                                   /\ repoRow'[x].source = repoRow[x].source
  BY <1>2, <1>3, RowHeld
<1>5. /\ DOMAIN setup' = Setups /\ \A v \in Setups \ {u} : setup'[v] = setup[v]
      /\ DOMAIN setup'[u] = SetupFields /\ setup'[u].pc = "done"
      /\ \A f \in SetupFields \ {"pc"} : setup'[u][f] = setup[u][f]
  BY <1>2, StepSet DEF Repos!End
<1>6. LockFits'
  BY <1>2, <1>3, <1>5, KitsAssumption DEF SetupInv, LockFits, Repos!End, KitsAdmitted
<1>7. TasksFit'
  BY <1>2 DEF SetupInv, TasksFit, TaskFits
<1>8. SearchFits(u)' /\ ReadFits(u)' /\ ~HasRead(u)' /\ ~Active(u)' /\ ~Holds(u)'
  BY <1>5 DEF SearchFits, ReadFits, HasRead, Active, Holds, Repos!Resting
<1>9. SetupFits(u)'
  <2>1. /\ setup'[u].id = i /\ setup'[u].connection = setup[u].connection
        /\ setup'[u].candidate = setup[u].candidate
        /\ i \in DOMAIN repoRow \cup {Nil} /\ setup[u].connection \in DOMAIN files \cup {Nil}
        /\ setup[u].candidate \in Nat
    BY <1>1, <1>3, <1>5 DEF SetupFits, SetupFields
  <2> QED
    BY <1>2, <1>4, <1>5, <1>8, <2>1 DEF SetupFits, SetupSteps, Grown, Repos!Resting
<1>10. ReadsAgree'
  BY <1>4, <1>5, <1>8, ReadsStay
<1>11. \A v \in Setups \ {u} : ~Holds(v)
  BY <1>3 DEF SetupInv, LockFits, Holds
<1> QED
  BY <1>4, <1>5, <1>6, <1>7, <1>8, <1>9, <1>10, <1>11, StepKeepsSetup

-----------------------------------------------------------------------------
(* The steps of others *)

(* No row, file, connection or set-up changes, and no task is launched on a   *)
(* repository whose admission is closed.                                      *)
LEMMA OtherStep ==
  ASSUME SetupInv, UNCHANGED <<repoRow, files, connections, setup>>,
         DOMAIN kit' = KitFields, kit'.overlap = kit.overlap, kit'.commands = kit.commands,
         kit'.github = kit.github, kit'.candidates = kit.candidates,
         LockFits', TasksFit',
         \A id \in DOMAIN repoRow : Closed(id) => Closed(id)'
  PROVE  SetupInv'
<1>1. Grown /\ NewlyPlaced
  BY DEF Grown, NewlyPlaced
<1>2. KitFits' /\ RowsFit'
  BY <1>1, KitStays, RowsStay DEF SetupInv, RowsFit
<1>3. ASSUME NEW v \in Setups
      PROVE  SetupFits(v)' /\ SearchFits(v)' /\ ReadFits(v)'
  <2>1. Holds(v) => Closed(setup[v].id)'
    <3> SUFFICES ASSUME Holds(v) PROVE Closed(setup[v].id)'
      OBVIOUS
    <3>1. PICK i : i = setup[v].id
      OBVIOUS
    <3>2. i \in DOMAIN repoRow /\ Closed(i)
      BY <3>1 DEF SetupInv, SetupFits, Holds
    <3>3. Closed(i)'
      BY <3>2
    <3> QED
      BY <3>1, <3>3 DEF Closed, Repos!TasksOf
  <2>2. SetupFits(v)' /\ SearchFits(v)'
    BY <1>1, <2>1, OthersFit
  <2>3. ReadFits(v)'
    BY <1>1, OthersRead
  <2> QED
    BY <2>2, <2>3
<1>4. ReadsAgree'
  <2>1. \A v \in Setups : /\ Active(v)' = Active(v) /\ HasRead(v)' = HasRead(v)
                          /\ Forge(v)' = Forge(v)
    BY DEF Active, HasRead, Forge, Repos!is_github_source
  <2>2. \A v \in Setups : ReadOf(v)' = ReadOf(v)
    BY DEF ReadOf, Repos!Content
  <2>3. ReadsAgree
    BY DEF SetupInv
  <2> QED
    BY <2>1, <2>2, <2>3 DEF ReadsAgree, Adds
<1>5. Repos!OneRepoPerSource'
  BY DEF SetupInv, Repos!OneRepoPerSource
<1> QED
  BY <1>2, <1>3, <1>4, <1>5 DEF SetupInv

LEMMA LegacyKeepsSetup ==
  ASSUME SetupInv, Repos!legacy_setup
  PROVE  SetupInv'
<1>1. /\ DOMAIN kit' = KitFields /\ kit'.overlap = kit.overlap /\ kit'.commands = kit.commands
      /\ kit'.github = kit.github /\ kit'.candidates = kit.candidates
      /\ UNCHANGED <<repoRow, files, connections, setup, backlog, owed>>
  BY DEF Repos!legacy_setup, SetupInv, KitFits, KitFields
<1>2. LockFits'
  BY <1>1, KitsAssumption DEF Repos!legacy_setup, SetupInv, LockFits, KitsAdmitted
<1>3. TasksFit' /\ \A id \in DOMAIN repoRow : Closed(id) => Closed(id)'
  BY <1>1 DEF SetupInv, TasksFit, TaskFits, Closed, Repos!TasksOf
<1> QED
  BY <1>1, <1>2, <1>3, OtherStep

-----------------------------------------------------------------------------
(* The tasks meanwhile                                                        *)

(* A task that a step changes fits, is still held if it is owed, and enters   *)
(* the spawn only where its repository admits it.                             *)
LEMMA TaskStep ==
  ASSUME SetupInv, UNCHANGED <<repoRow, files, connections, lock, setup>>,
         DOMAIN kit' = KitFields, kit'.overlap = kit.overlap, kit'.commands = kit.commands,
         kit'.github = kit.github, kit'.candidates = kit.candidates,
         NEW t \in DOMAIN backlog, DOMAIN backlog' = DOMAIN backlog,
         \A x \in DOMAIN backlog \ {t} : backlog'[x] = backlog[x],
         NEW new, new = backlog'[t], TaskFits(new),
         owed' \subseteq owed \cup {t}, t \in owed' => new.held /\ new.repo # Nil,
         new.spawning => ~repoRow[new.repo].held
  PROVE  SetupInv'
<1>1. LockFits'
  BY DEF SetupInv, LockFits
<1>2. TasksFit'
  <2>1. TasksFit
    BY DEF SetupInv
  <2>2. \A x \in DOMAIN backlog' : TaskFits(backlog'[x])
    BY <2>1 DEF TasksFit
  <2>3. owed' \subseteq DOMAIN backlog' /\ \A x \in owed' : backlog'[x].held /\ backlog'[x].repo # Nil
    BY <2>1 DEF TasksFit
  <2> QED
    BY <2>2, <2>3 DEF TasksFit, TaskFits
<1>3. ASSUME NEW id \in DOMAIN repoRow, Closed(id)
      PROVE  Closed(id)'
  BY <1>3 DEF Closed, Repos!TasksOf
<1> QED
  BY <1>1, <1>2, <1>3, OtherStep

LEMMA ClaimKeepsSetup ==
  ASSUME SetupInv, NEW t \in DOMAIN backlog, Repos!claim(t)
  PROVE  SetupInv'
<1>1. PICK old, new : old = backlog[t] /\ new = backlog'[t]
  OBVIOUS
<1>2. /\ UNCHANGED <<repoRow, files, connections, lock, setup, owed, kit>> /\ DOMAIN kit = KitFields
      /\ old.repo # Nil /\ ~old.claimed /\ ~old.held /\ ~repoRow[old.repo].held
      /\ TaskFits(old) /\ (t \in owed => old.held)
  BY <1>1 DEF Repos!claim, SetupInv, KitFits, TasksFit
<1>3. /\ DOMAIN backlog' = DOMAIN backlog
      /\ \A x \in DOMAIN backlog \ {t} : backlog'[x] = backlog[x]
      /\ DOMAIN new = TaskFields
      /\ \A f \in TaskFields :
           new[f] = IF f \in DOMAIN [claimed |-> TRUE, lifecycle |-> "none", spawning |-> TRUE]
                    THEN [claimed |-> TRUE, lifecycle |-> "none", spawning |-> TRUE][f] ELSE old[f]
  BY <1>1, <1>2, TaskSets DEF Repos!claim, TaskFits
<1>4. /\ new.claimed = TRUE /\ new.lifecycle = "none" /\ new.spawning = TRUE
      /\ new.repo = old.repo /\ new.held = old.held /\ new.running = old.running
      /\ new.registered = old.registered
  BY <1>3 DEF TaskFields
<1>5. TaskFits(new)
  BY <1>2, <1>3, <1>4 DEF TaskFits
<1> QED
  BY <1>1, <1>2, <1>3, <1>4, <1>5, TaskStep

LEMMA LaunchKeepsSetup ==
  ASSUME SetupInv, NEW t \in DOMAIN backlog, Repos!Launch(t)
  PROVE  SetupInv'
<1>1. PICK old, new : old = backlog[t] /\ new = backlog'[t]
  OBVIOUS
<1>2. /\ UNCHANGED <<repoRow, files, connections, lock, setup, owed, kit>> /\ DOMAIN kit = KitFields
      /\ old.claimed /\ ~old.running /\ (old.spawning \/ (~old.held /\ old.lifecycle # "failed"))
      /\ TaskFits(old) /\ (t \in owed => old.held /\ old.repo # Nil)
  BY <1>1 DEF Repos!Launch, SetupInv, KitFits, TasksFit
<1>3. CASE Repos!Change(t, [lifecycle |-> "failed", held |-> TRUE, spawning |-> FALSE])
  <2>1. /\ DOMAIN backlog' = DOMAIN backlog
        /\ \A x \in DOMAIN backlog \ {t} : backlog'[x] = backlog[x]
        /\ DOMAIN new = TaskFields
        /\ \A f \in TaskFields :
             new[f] = IF f \in DOMAIN [lifecycle |-> "failed", held |-> TRUE, spawning |-> FALSE]
                      THEN [lifecycle |-> "failed", held |-> TRUE, spawning |-> FALSE][f] ELSE old[f]
    BY <1>1, <1>2, <1>3, TaskSets DEF TaskFits
  <2>2. /\ new.claimed = old.claimed /\ new.lifecycle = "failed" /\ new.spawning = FALSE
        /\ new.repo = old.repo /\ new.held = TRUE /\ new.running = old.running
        /\ new.registered = old.registered
    BY <2>1 DEF TaskFields
  <2>3. TaskFits(new)
    BY <1>2, <2>1, <2>2 DEF TaskFits
  <2> QED
    BY <1>1, <1>2, <2>1, <2>2, <2>3, TaskStep
<1>4. CASE Repos!Change(t, [running |-> TRUE, provisioned |-> TRUE, lifecycle |-> "starting",
                            spawning |-> FALSE])
  <2> DEFINE fields == [running |-> TRUE, provisioned |-> TRUE, lifecycle |-> "starting",
                        spawning |-> FALSE]
  <2>1. /\ DOMAIN fields = {"running", "provisioned", "lifecycle", "spawning"}
        /\ fields.running = TRUE /\ fields.lifecycle = "starting" /\ fields.spawning = FALSE
        /\ Repos!Change(t, fields)
    BY <1>4
  <2> HIDE DEF fields
  <2>2. /\ DOMAIN backlog' = DOMAIN backlog
        /\ \A x \in DOMAIN backlog \ {t} : backlog'[x] = backlog[x]
        /\ DOMAIN new = TaskFields
        /\ \A f \in TaskFields : new[f] = IF f \in DOMAIN fields THEN fields[f] ELSE old[f]
    BY <1>1, <1>2, <2>1, TaskSets DEF TaskFits
  <2>3. /\ new.claimed = old.claimed /\ new.lifecycle = "starting" /\ new.spawning = FALSE
        /\ new.repo = old.repo /\ new.held = old.held /\ new.running = TRUE
        /\ new.registered = old.registered
    BY <2>1, <2>2 DEF TaskFields
  <2>4. TaskFits(new)
    BY <1>2, <2>2, <2>3 DEF TaskFits
  <2> QED
    BY <1>1, <1>2, <2>2, <2>3, <2>4, TaskStep
<1> QED
  BY <1>3, <1>4 DEF Repos!Launch

LEMMA RegisterTaskKeepsSetup ==
  ASSUME SetupInv, NEW t \in DOMAIN backlog, Repos!Register(t)
  PROVE  SetupInv'
<1>1. PICK old, new : old = backlog[t] /\ new = backlog'[t]
  OBVIOUS
<1>2. /\ UNCHANGED <<repoRow, files, connections, lock, setup, owed, kit>> /\ DOMAIN kit = KitFields
      /\ old.running /\ TaskFits(old) /\ (t \in owed => old.held /\ old.repo # Nil)
  BY <1>1 DEF Repos!Register, SetupInv, KitFits, TasksFit
<1>3. /\ DOMAIN backlog' = DOMAIN backlog
      /\ \A x \in DOMAIN backlog \ {t} : backlog'[x] = backlog[x]
      /\ DOMAIN new = TaskFields
      /\ \A f \in TaskFields : new[f] = IF f \in DOMAIN [registered |-> TRUE]
                                        THEN [registered |-> TRUE][f] ELSE old[f]
  BY <1>1, <1>2, TaskSets DEF Repos!Register, TaskFits
<1>4. /\ new.claimed = old.claimed /\ new.lifecycle = old.lifecycle /\ new.spawning = old.spawning
      /\ new.repo = old.repo /\ new.held = old.held /\ new.running = old.running
      /\ new.registered = TRUE
  BY <1>3 DEF TaskFields
<1>5. TaskFits(new) /\ ~new.spawning
  BY <1>2, <1>3, <1>4 DEF TaskFits
<1> QED
  BY <1>1, <1>2, <1>3, <1>4, <1>5, TaskStep

LEMMA ExitKeepsSetup ==
  ASSUME SetupInv, NEW t \in DOMAIN backlog, Repos!Exit(t)
  PROVE  SetupInv'
<1>1. PICK old, new : old = backlog[t] /\ new = backlog'[t]
  OBVIOUS
<1>2. /\ UNCHANGED <<repoRow, files, connections, lock, setup, owed>> /\ DOMAIN kit' = KitFields
      /\ kit'.overlap = kit.overlap /\ kit'.commands = kit.commands
      /\ kit'.github = kit.github /\ kit'.candidates = kit.candidates
      /\ old.running /\ TaskFits(old) /\ (t \in owed => old.held /\ old.repo # Nil)
  BY <1>1 DEF Repos!Exit, SetupInv, KitFits, KitFields, TasksFit
<1> DEFINE fields == [running |-> FALSE, registered |-> FALSE, lifecycle |-> "none"]
<1>3. /\ DOMAIN fields = {"running", "registered", "lifecycle"}
      /\ fields.running = FALSE /\ fields.lifecycle = "none" /\ fields.registered = FALSE
      /\ Repos!Change(t, fields)
  BY DEF Repos!Exit
<1> HIDE DEF fields
<1>4. /\ DOMAIN backlog' = DOMAIN backlog
      /\ \A x \in DOMAIN backlog \ {t} : backlog'[x] = backlog[x]
      /\ DOMAIN new = TaskFields
      /\ \A f \in TaskFields : new[f] = IF f \in DOMAIN fields THEN fields[f] ELSE old[f]
  BY <1>1, <1>2, <1>3, TaskSets DEF TaskFits
<1>5. /\ new.claimed = old.claimed /\ new.lifecycle = "none" /\ new.spawning = old.spawning
      /\ new.repo = old.repo /\ new.held = old.held /\ new.running = FALSE
      /\ new.registered = FALSE
  BY <1>3, <1>4 DEF TaskFields
<1>6. TaskFits(new) /\ ~new.spawning
  BY <1>2, <1>4, <1>5 DEF TaskFits
<1> QED
  BY <1>1, <1>2, <1>4, <1>5, <1>6, TaskStep

LEMMA RetryKeepsSetup ==
  ASSUME SetupInv, NEW t \in DOMAIN backlog, Repos!retry_task(t)
  PROVE  SetupInv'
<1>1. PICK old, new : old = backlog[t] /\ new = backlog'[t]
  OBVIOUS
<1>2. /\ UNCHANGED <<repoRow, files, connections, lock, setup, kit>> /\ DOMAIN kit = KitFields
      /\ old.held /\ TaskFits(old) /\ owed' = owed \ {t}
  BY <1>1 DEF Repos!retry_task, SetupInv, KitFits, TasksFit
<1> DEFINE fields == [held |-> FALSE, claimed |-> FALSE, lifecycle |-> "none"]
<1>3. /\ DOMAIN fields = {"held", "claimed", "lifecycle"}
      /\ fields.held = FALSE /\ fields.lifecycle = "none" /\ fields.claimed = FALSE
      /\ Repos!Change(t, fields)
  BY DEF Repos!retry_task
<1> HIDE DEF fields
<1>4. /\ DOMAIN backlog' = DOMAIN backlog
      /\ \A x \in DOMAIN backlog \ {t} : backlog'[x] = backlog[x]
      /\ DOMAIN new = TaskFields
      /\ \A f \in TaskFields : new[f] = IF f \in DOMAIN fields THEN fields[f] ELSE old[f]
  BY <1>1, <1>2, <1>3, TaskSets DEF TaskFits
<1>5. /\ new.claimed = FALSE /\ new.lifecycle = "none" /\ new.spawning = old.spawning
      /\ new.held = FALSE /\ new.running = old.running /\ new.registered = old.registered
  BY <1>3, <1>4 DEF TaskFields
<1>6. TaskFits(new) /\ ~new.spawning
  BY <1>2, <1>4, <1>5 DEF TaskFits
<1> QED
  BY <1>1, <1>2, <1>4, <1>5, <1>6, TaskStep

LEMMA ReleaseKeepsSetup ==
  ASSUME SetupInv, NEW t \in DOMAIN backlog, Repos!release(t)
  PROVE  SetupInv'
<1>1. PICK old, new : old = backlog[t] /\ new = backlog'[t]
  OBVIOUS
<1>2. /\ UNCHANGED <<repoRow, files, connections, lock, setup, owed, kit>> /\ DOMAIN kit = KitFields
      /\ ~old.held /\ ~old.running /\ ~old.spawning /\ TaskFits(old)
      /\ (t \in owed => old.held /\ old.repo # Nil)
  BY <1>1 DEF Repos!release, SetupInv, KitFits, TasksFit
<1> DEFINE fields == [claimed |-> FALSE, lifecycle |-> "none"]
<1>3. /\ DOMAIN fields = {"claimed", "lifecycle"}
      /\ fields.lifecycle = "none" /\ fields.claimed = FALSE /\ Repos!Change(t, fields)
  BY DEF Repos!release
<1> HIDE DEF fields
<1>4. /\ DOMAIN backlog' = DOMAIN backlog
      /\ \A x \in DOMAIN backlog \ {t} : backlog'[x] = backlog[x]
      /\ DOMAIN new = TaskFields
      /\ \A f \in TaskFields : new[f] = IF f \in DOMAIN fields THEN fields[f] ELSE old[f]
  BY <1>1, <1>2, <1>3, TaskSets DEF TaskFits
<1>5. /\ new.claimed = FALSE /\ new.lifecycle = "none" /\ new.spawning = old.spawning
      /\ new.held = old.held /\ new.running = old.running /\ new.registered = old.registered
      /\ new.repo = old.repo
  BY <1>3, <1>4 DEF TaskFields
<1>6. TaskFits(new) /\ ~new.spawning
  BY <1>2, <1>4, <1>5 DEF TaskFits
<1> QED
  BY <1>1, <1>2, <1>4, <1>5, <1>6, TaskStep

LEMMA CreateKeepsSetup ==
  ASSUME SetupInv, NEW t \in DOMAIN backlog, NEW id \in DOMAIN repoRow, Repos!create_task(t, id)
  PROVE  SetupInv'
<1>1. PICK old, new, b, h : /\ old = backlog[t] /\ new = backlog'[t]
                            /\ b = repoRow[id].held /\ h = repoRow[id].harness
  OBVIOUS
<1>2. /\ UNCHANGED <<repoRow, files, connections, lock, setup>> /\ DOMAIN kit' = KitFields
      /\ kit'.overlap = kit.overlap /\ kit'.commands = kit.commands
      /\ kit'.github = kit.github /\ kit'.candidates = kit.candidates
      /\ old.repo = Nil /\ TaskFits(old) /\ t \notin owed
      /\ owed' = IF b THEN owed \cup {t} ELSE owed
  BY <1>1 DEF Repos!create_task, SetupInv, KitFits, KitFields, TasksFit
<1>3. b \in BOOLEAN /\ id # Nil
  BY <1>1 DEF SetupInv, RowsFit, RepoRecord, KitFits
<1> DEFINE fields == [repo |-> id, harness |-> h, held |-> b]
<1>4. /\ DOMAIN fields = {"repo", "harness", "held"}
      /\ fields.repo = id /\ fields.held = b /\ Repos!Change(t, fields)
  BY <1>1 DEF Repos!create_task, Repos!Inherited, Repos!BornHeld
<1> HIDE DEF fields
<1>5. /\ DOMAIN backlog' = DOMAIN backlog
      /\ \A x \in DOMAIN backlog \ {t} : backlog'[x] = backlog[x]
      /\ DOMAIN new = TaskFields
      /\ \A f \in TaskFields : new[f] = IF f \in DOMAIN fields THEN fields[f] ELSE old[f]
  BY <1>1, <1>2, <1>4, TaskSets DEF TaskFits
<1>6. /\ new.claimed = old.claimed /\ new.lifecycle = old.lifecycle /\ new.spawning = old.spawning
      /\ new.held = b /\ new.running = old.running /\ new.registered = old.registered
      /\ new.repo = id
  BY <1>4, <1>5 DEF TaskFields
<1>7. TaskFits(new) /\ ~new.spawning
  BY <1>2, <1>3, <1>5, <1>6 DEF TaskFits
<1>8. owed' \subseteq owed \cup {t} /\ (t \in owed' => new.held /\ new.repo # Nil)
  BY <1>2, <1>3, <1>6
<1> QED
  BY <1>1, <1>2, <1>5, <1>7, <1>8, TaskStep

LEMMA RestartKeepsSetup ==
  ASSUME SetupInv, Repos!ServiceRestarts
  PROVE  SetupInv'
<1>1. /\ UNCHANGED <<repoRow, files, connections, lock, setup, owed>> /\ DOMAIN kit' = KitFields
      /\ kit'.overlap = kit.overlap /\ kit'.commands = kit.commands
      /\ kit'.github = kit.github /\ kit'.candidates = kit.candidates
      /\ DOMAIN backlog' = DOMAIN backlog
      /\ \A t \in DOMAIN backlog :
           backlog'[t] = [backlog[t] EXCEPT !.registered = FALSE, !.lifecycle = "none"]
  BY DEF Repos!ServiceRestarts, SetupInv, KitFits, KitFields
<1>2. ASSUME NEW t \in DOMAIN backlog
      PROVE  /\ TaskFits(backlog'[t]) /\ backlog'[t].held = backlog[t].held
             /\ backlog'[t].repo = backlog[t].repo /\ backlog'[t].spawning = backlog[t].spawning
  <2>1. PICK old, new : old = backlog[t] /\ new = backlog'[t]
    OBVIOUS
  <2>2. TaskFits(old) /\ new = [old EXCEPT !.registered = FALSE, !.lifecycle = "none"]
    BY <1>1, <2>1 DEF SetupInv, TasksFit
  <2>3. /\ DOMAIN new = TaskFields /\ new.registered = FALSE /\ new.lifecycle = "none"
        /\ \A f \in TaskFields \ {"registered", "lifecycle"} : new[f] = old[f]
    BY <2>2 DEF TaskFits, TaskFields
  <2>4. /\ new.claimed = old.claimed /\ new.spawning = old.spawning /\ new.held = old.held
        /\ new.running = old.running /\ new.repo = old.repo
    BY <2>3 DEF TaskFields
  <2> QED
    BY <2>1, <2>2, <2>3, <2>4 DEF TaskFits
<1>3. TasksFit'
  <2>1. /\ owed' \subseteq DOMAIN backlog'
        /\ \A t \in owed' : backlog'[t].held /\ backlog'[t].repo # Nil
    BY <1>1, <1>2 DEF SetupInv, TasksFit
  <2> QED
    BY <1>1, <1>2, <2>1 DEF TasksFit, TaskFits
<1>4. LockFits'
  BY <1>1 DEF SetupInv, LockFits
<1>5. \A id \in DOMAIN repoRow : Closed(id) => Closed(id)'
  BY <1>1, <1>2 DEF Closed, Repos!TasksOf
<1> QED
  BY <1>1, <1>3, <1>4, <1>5, OtherStep

-----------------------------------------------------------------------------
(* All of them                                                                *)

LEMMA SetupStarts ==
  ASSUME Repos!Init
  PROVE  SetupInv
<1>1. PICK k \in Kits :
        /\ repoRow = k.repos /\ files = k.written /\ connections = k.connections
        /\ backlog = k.tasks
        /\ kit = [f \in DOMAIN k \ {"repos", "written", "connections", "tasks"} |-> k[f]]
  BY DEF Repos!Init
<1>2. lock = Nil /\ owed = {} /\ setup = [u \in Setups |-> Repos!Idle]
  BY DEF Repos!Init
<1>3. KitOK(k)
  BY KitsAssumption DEF KitsAdmitted
<1>4. DOMAIN k = KitFields \cup {"repos", "written", "connections", "tasks"}
  BY <1>3 DEF KitOK
<1>5. /\ DOMAIN kit = KitFields /\ kit.overlap = k.overlap /\ kit.commands = k.commands
      /\ kit.candidates = k.candidates
  BY <1>1, <1>4 DEF KitFields
<1>6. /\ Nil \notin Repos!Harnesses \cup DOMAIN repoRow \cup Sources /\ kit.overlap \in BOOLEAN
      /\ files \in Seq(Logins) /\ repoRow \in [DOMAIN repoRow -> RepoRecord]
      /\ kit.candidates \in [Sources -> Seq(DOMAIN repoRow)]
  <2>1. Nil \notin Repos!Harnesses \cup DOMAIN repoRow \cup Sources /\ kit.overlap \in BOOLEAN
    BY <1>1, <1>3, <1>5 DEF KitOK, Repos!Harnesses, Sources
  <2>2. files \in Seq(Logins)
    BY <1>1, <1>3 DEF KitOK, Repos!Harnesses, Logins
  <2>3. repoRow \in [DOMAIN repoRow -> RepoRecord]
    BY <1>1, <1>3, <1>5 DEF KitOK, Repos!Harnesses, Sources, RepoRecord
  <2>4. kit.candidates \in [Sources -> Seq(DOMAIN repoRow)]
    BY <1>1, <1>3, <1>5 DEF KitOK, Sources
  <2> QED
    BY <2>1, <2>2, <2>3, <2>4
<1>7. KitFits
  <2>1. /\ Repos!Harnesses = DOMAIN k.connections /\ DOMAIN repoRow = DOMAIN k.repos
        /\ Sources = DOMAIN k.candidates
    BY <1>1, <1>5 DEF Repos!Harnesses, Sources
  <2>2. \A c \in k.commands :
          /\ c.harness \in DOMAIN k.connections
          /\ c.name \in IF k.overlap THEN {"setup", "quickstart"} ELSE {"repair"}
          /\ c.name = "repair" => c.id \in DOMAIN k.repos
          /\ c.name = "quickstart" =>
               /\ c.source \in DOMAIN k.candidates
               /\ \A a \in DOMAIN k.repos : k.repos[a].source = c.source => k.repos[a].harness = c.harness
               /\ \A d \in k.commands :
                    d.name = "quickstart" /\ d.source = c.source => d.harness = c.harness
    BY <1>3 DEF KitOK
  <2>3. \A c \in kit.commands :
          /\ c.harness \in Repos!Harnesses
          /\ c.name \in IF kit.overlap THEN {"setup", "quickstart"} ELSE {"repair"}
          /\ c.name = "repair" => c.id \in DOMAIN repoRow
          /\ c.name = "quickstart" =>
               /\ c.source \in Sources
               /\ \A id \in DOMAIN repoRow : repoRow[id].source = c.source => repoRow[id].harness = c.harness
               /\ \A d \in kit.commands :
                    d.name = "quickstart" /\ d.source = c.source => d.harness = c.harness
    BY <1>1, <1>5, <2>1, <2>2
  <2> QED
    BY <1>5, <1>6, <2>3 DEF KitFits
<1>8. RowsFit
  <2>1. /\ \A id \in DOMAIN repoRow : repoRow[id].source = Nil => repoRow[id].env = Nil
        /\ \A h \in Repos!Harnesses : connections[h] # Nil =>
             connections[h] \in DOMAIN files /\ Usable(files[connections[h]], h)
    BY <1>1, <1>3 DEF KitOK, Usable, Repos!Harnesses
  <2> QED
    BY <1>6, <2>1 DEF RowsFit
<1>9. TasksFit
  BY <1>1, <1>2, <1>3 DEF KitOK, AtRest, TasksFit, TaskFits
<1>10. \A u \in Setups : /\ DOMAIN setup[u] = SetupFields /\ setup[u].pc = "idle"
                         /\ setup[u].candidate = 0 /\ setup[u].id = Nil /\ setup[u].connection = Nil
  BY <1>2 DEF Repos!Idle, SetupFields
<1>11. LockFits
  BY <1>2, <1>10, KitsAssumption DEF LockFits, KitsAdmitted
<1>12. \A u \in Setups : SetupFits(u)
  BY <1>10 DEF SetupFits, Active, Holds, SetupSteps, Repos!Resting
<1>13. \A u \in Setups : SearchFits(u) /\ ReadFits(u)
  BY <1>10 DEF SearchFits, ReadFits, HasRead
<1>14. ReadsAgree
  BY <1>10 DEF ReadsAgree, HasRead, Active, Repos!Resting
<1>15. Repos!OneRepoPerSource
  BY <1>1, <1>3 DEF KitOK, Repos!OneRepoPerSource
<1> QED
  BY <1>7, <1>8, <1>9, <1>11, <1>12, <1>13, <1>14, <1>15 DEF SetupInv

LEMMA SetupKept ==
  ASSUME SetupInv, Repos!Next
  PROVE  SetupInv'
<1>1. ASSUME NEW u \in Setups, Repos!Step(u)
      PROVE  SetupInv'
  BY <1>1, LockKeepsSetup, ConnectKeepsSetup, SaveKeepsSetup, SearchKeepsSetup, InspectKeepsSetup,
     HoldKeepsSetup, ComposeKeepsSetup, BindKeepsSetup, FinishKeepsSetup DEF Repos!Step
<1>2. ASSUME NEW u \in Setups, NEW c \in kit.commands, Repos!Run(u, c)
      PROVE  SetupInv'
  BY <1>2, RunKeepsSetup
<1>3. ASSUME NEW u \in Setups, Repos!Interrupt(u)
      PROVE  SetupInv'
  BY <1>3, InterruptKeepsSetup
<1>4. CASE Repos!legacy_setup \/ Repos!ServiceRestarts
  BY <1>4, LegacyKeepsSetup, RestartKeepsSetup
<1>5. ASSUME NEW t \in DOMAIN backlog,
             Repos!claim(t) \/ Repos!Launch(t) \/ Repos!Register(t) \/ Repos!Exit(t)
               \/ Repos!retry_task(t) \/ Repos!release(t)
      PROVE  SetupInv'
  BY <1>5, ClaimKeepsSetup, LaunchKeepsSetup, RegisterTaskKeepsSetup, ExitKeepsSetup,
     RetryKeepsSetup, ReleaseKeepsSetup
<1>6. ASSUME NEW t \in DOMAIN backlog, NEW id \in DOMAIN repoRow, Repos!create_task(t, id)
      PROVE  SetupInv'
  BY <1>6, CreateKeepsSetup
<1> QED
  BY <1>1, <1>2, <1>3, <1>4, <1>5, <1>6 DEF Repos!Next

LEMMA SetupRests ==
  ASSUME SetupInv, UNCHANGED repoVars
  PROVE  SetupInv'
<1>1. UNCHANGED <<repoRow, files, connections, lock, setup, backlog, owed, kit>>
  BY DEF repoVars
<1>2. LockFits' /\ TasksFit' /\ \A id \in DOMAIN repoRow : Closed(id) => Closed(id)'
  BY <1>1 DEF SetupInv, LockFits, TasksFit, TaskFits, Closed, Repos!TasksOf
<1>3. DOMAIN kit = KitFields
  BY DEF SetupInv, KitFits
<1> QED
  BY <1>1, <1>2, <1>3, OtherStep

(* Only a binding changes what a row is bound to.                             *)
Rebinds == \E u \in Setups : Repos!Bind(u)

LEMMA OnlyBindRebinds ==
  ASSUME SetupInv, Repos!Next, ~Rebinds, NEW id \in DOMAIN repoRow
  PROVE  repoRow'[id].env = repoRow[id].env
<1>1. ASSUME NEW u \in Setups, Repos!setup_repo(u)
      PROVE  repoRow'[id].env = repoRow[id].env
  <2>1. CASE UNCHANGED repoRow
    BY <2>1
  <2>2. CASE repoRow' # repoRow
    <3>1. PICK x : Registers(u, x)
      BY <1>1, <2>2, Zenon DEF Repos!setup_repo, Registers, Tries, NewRow, Repos!repo_id_candidates
    <3>2. /\ x \in DOMAIN repoRow /\ \A y \in DOMAIN repoRow \ {x} : repoRow'[y] = repoRow[y]
          /\ repoRow[x].source = Nil /\ repoRow'[x].env = Nil
      BY <3>1, RegisteredRow
    <3> QED
      BY <3>2 DEF SetupInv, RowsFit
  <2> QED
    BY <2>1, <2>2
<1>2. ASSUME NEW u \in Setups, Repos!begin_repo_setup(u) \/ Repos!finish_repo_setup(u)
      PROVE  repoRow'[id].env = repoRow[id].env
  <2>1. CASE UNCHANGED repoRow
    BY <2>1
  <2>2. CASE repoRow' # repoRow
    <3>1. setup[u].id \in DOMAIN repoRow
      BY <1>2 DEF SetupInv, SetupFits, Repos!begin_repo_setup, Repos!finish_repo_setup
    <3>2. PICK b \in BOOLEAN : repoRow' = [repoRow EXCEPT ![setup[u].id].held = b]
      BY <1>2, <2>2 DEF Repos!begin_repo_setup, Repos!finish_repo_setup
    <3>3. UNCHANGED <<files, connections, kit>>
      BY <1>2 DEF Repos!begin_repo_setup, Repos!finish_repo_setup
    <3> QED
      BY <3>1, <3>2, <3>3, RowHeld
  <2> QED
    BY <2>1, <2>2
<1>3. ASSUME NEW u \in Setups, Repos!Step(u)
      PROVE  repoRow'[id].env = repoRow[id].env
  <2>1. CASE UNCHANGED repoRow
    BY <2>1
  <2>2. CASE repoRow' # repoRow
    BY <1>1, <1>2, <1>3, <2>2 DEF Repos!Step, Rebinds, Repos!configure_connection, Repos!connect,
       Repos!save_connection, Repos!Inspect, Repos!Compose
  <2> QED
    BY <2>1, <2>2
<1>4. CASE UNCHANGED repoRow
  BY <1>4
<1> QED
  BY <1>3, <1>4, Zenon DEF Repos!Next, Repos!Run, Repos!Interrupt, Repos!legacy_setup,
     Repos!ServiceRestarts, Repos!claim, Repos!Launch, Repos!Register, Repos!Exit,
     Repos!retry_task, Repos!release, Repos!create_task

(* What the two action properties say of a step.                              *)
KeepsOthers ==
  \A id \in DOMAIN repoRow :
    LET old == Repos!Content(repoRow[id].env) new == (Repos!Content(repoRow[id].env))'
    IN repoRow'[id].env # repoRow[id].env =>
         /\ old.auth \ Repos!AUTH_KEYS(repoRow'[id].harness) \subseteq new.auth
         /\ (old.forge => new.forge) /\ (old.other => new.other)
ServesSelected ==
  \A id \in DOMAIN repoRow, u \in Setups :
    LET row == repoRow'[id]
    IN row.env # repoRow[id].env /\ lock = u /\ setup[u].connection # Nil =>
         row.harness = setup[u].harness /\ Repos!Serves(row, row.harness)
SettledRebinding ==
  \A id \in DOMAIN repoRow : repoRow'[id].env # repoRow[id].env =>
    \A t \in Repos!TasksOf(id) : ~backlog[t].spawning

LEMMA BindServes ==
  ASSUME SetupInv, NEW u \in Setups, Repos!Bind(u), setup[u].connection # Nil
  PROVE  LET row == repoRow'[setup[u].id]
         IN row.harness = setup[u].harness /\ Repos!Serves(row, row.harness)
<1>1. PICK row, c, h : row = repoRow'[setup[u].id] /\ c = setup[u].connection /\ h = setup[u].harness
  OBVIOUS
<1>2. row.env = setup[u].ref /\ row.harness = h /\ row.dir = Repos!Directory(c)
  BY <1>1, BoundRow
<1>3. /\ c \in DOMAIN files /\ Usable(files[c], h) /\ files[c].auth \subseteq files[row.env].auth
      /\ row.env # Nil
  BY <1>1, <1>2, BindFacts DEF Binding, Composed
<1>4. CASE files[c].auth # {}
  BY <1>1, <1>2, <1>3, <1>4 DEF Usable, Repos!Serves, Repos!Content
<1>5. CASE h \in files[c].login
  <2>1. row.dir = c /\ c # Nil
    BY <1>1, <1>2, <1>3, <1>5 DEF Repos!Directory, Repos!Content
  <2> QED
    BY <1>1, <1>2, <1>5, <2>1 DEF Repos!Serves, Repos!Content
<1> QED
  BY <1>3, <1>4, <1>5 DEF Usable

LEMMA BindDisturbsNothing ==
  ASSUME SetupInv, NEW u \in Setups, Repos!Bind(u)
  PROVE  KeepsOthers /\ SettledRebinding
<1>1. PICK i : i = setup[u].id
  OBVIOUS
<1>2. /\ \A x \in DOMAIN repoRow \ {i} : repoRow'[x] = repoRow[x]
      /\ repoRow'[i].env = setup[u].ref
      /\ repoRow'[i].harness \in {repoRow[i].harness, setup[u].harness}
      /\ setup[u].connection # Nil => repoRow'[i].harness = setup[u].harness
  BY <1>1, BoundRow
<1>3. Binding(u)
  BY BindFacts
<1>4. Closed(i)
  BY <1>1, <1>3 DEF Binding, SetupFits
<1>5. PICK old, new, read, h, g, k :
        /\ old = Bound(u) /\ new = files[setup[u].ref] /\ read = ReadOf(u)
        /\ h = setup[u].harness /\ g = Forge(u) /\ k = repoRow'[i].harness
  OBVIOUS
<1>6. /\ Keeps(read, new, h) /\ (g => new.forge) /\ Adds(read, old, h, g)
      /\ (~kit.overlap => read = old)
      /\ setup[u].connection = Nil => read.auth \subseteq new.auth
  BY <1>1, <1>3, <1>5 DEF Binding, Composed, ReadFits, ReadOf, Bound
<1>7. kit.overlap => k = h
  <2> SUFFICES ASSUME kit.overlap PROVE repoRow[i].harness = h
    BY <1>2, <1>5
  <2>1. /\ setup[u].command \in kit.commands /\ setup[u].command.name = "quickstart"
        /\ h = setup[u].command.harness /\ repoRow[i].source = setup[u].command.source
    BY <1>1, <1>3, <1>5 DEF Binding, SetupFits, SetupInv, KitFits, HasRead
  <2> QED
    BY <1>1, <1>3, <2>1 DEF Binding, SetupInv, KitFits
<1>8. /\ old.auth \ Repos!AUTH_KEYS(k) \subseteq new.auth
      /\ (old.forge => new.forge) /\ (old.other => new.other)
  <2>1. CASE k = h
    BY <1>6, <2>1 DEF Keeps, Adds
  <2>2. CASE k # h
    BY <1>2, <1>5, <1>6, <1>7, <2>2 DEF Keeps
  <2> QED
    BY <2>1, <2>2
<1>9. Repos!Content(repoRow[i].env) = old
  BY <1>1, <1>5 DEF Bound
<1>10. (Repos!Content(repoRow[i].env))' = new
  BY <1>2, <1>3, <1>5 DEF Binding, Repos!Content
<1>11. KeepsOthers
  BY <1>2, <1>5, <1>8, <1>9, <1>10 DEF KeepsOthers
<1>12. SettledRebinding
  BY <1>2, <1>4 DEF SettledRebinding, Closed
<1> QED
  BY <1>11, <1>12

LEMMA BindServesSelected ==
  ASSUME SetupInv, NEW u \in Setups, Repos!Bind(u)
  PROVE  ServesSelected
<1>1. lock = u /\ \A x \in DOMAIN repoRow \ {setup[u].id} : repoRow'[x] = repoRow[x]
  BY BindFacts, BoundRow DEF Binding
<1> QED
  BY <1>1, BindServes DEF ServesSelected

LEMMA SetupStepFits ==
  ASSUME SetupInv, Repos!Next
  PROVE  KeepsOthers /\ SettledRebinding /\ ServesSelected
<1>1. CASE Rebinds
  BY <1>1, BindDisturbsNothing, BindServesSelected DEF Rebinds
<1>2. CASE ~Rebinds
  <2>1. \A id \in DOMAIN repoRow : repoRow'[id].env = repoRow[id].env
    BY <1>2, OnlyBindRebinds
  <2> QED
    BY <2>1 DEF KeepsOthers, SettledRebinding, ServesSelected
<1> QED
  BY <1>1, <1>2

LEMMA SetupHolds ==
  ASSUME SetupInv
  PROVE  Repos!TypeOK /\ Repos!RefsResolve /\ Repos!OneRepoPerSource /\ Repos!NoBacklogStarts
<1>1. \A id \in DOMAIN repoRow : repoRow[id] \in RepoRecord
  BY DEF SetupInv, RowsFit
<1>2. Repos!TypeOK
  <2>1. \A id \in DOMAIN repoRow : repoRow[id].held \in BOOLEAN
                                     /\ repoRow[id].harness \in Repos!Harnesses \cup {Nil}
    BY <1>1 DEF RepoRecord
  <2>2. /\ lock \in Setups \cup {Nil, "legacy"}
        /\ \A u \in Setups : lock = u => setup[u].pc \in {"connect", "save", "compose", "bind", "finish"}
    BY DEF SetupInv, LockFits
  <2>3. owed \subseteq DOMAIN backlog
        /\ \A t \in DOMAIN backlog : backlog[t].lifecycle \in {"none", "starting", "failed"}
    BY DEF SetupInv, TasksFit, TaskFits
  <2> QED
    BY <2>1, <2>2, <2>3 DEF Repos!TypeOK
<1>3. Repos!RefsResolve
  <2>1. \A id \in DOMAIN repoRow : {repoRow[id].env, repoRow[id].dir} \subseteq DOMAIN files \cup {Nil}
    BY <1>1 DEF RepoRecord
  <2>2. ASSUME NEW h \in Repos!Harnesses, connections[h] # Nil
        PROVE  Repos!configured(connections[h], h)
    BY <2>2 DEF SetupInv, RowsFit, Usable, Repos!configured, Repos!connection_values, Repos!Content
  <2> QED
    BY <2>1, <2>2 DEF Repos!RefsResolve
<1>4. Repos!OneRepoPerSource /\ Repos!NoBacklogStarts
  BY DEF SetupInv, TasksFit, Repos!NoBacklogStarts
<1> QED
  BY <1>2, <1>3, <1>4

LEMMA SetupStep ==
  ASSUME SetupInv, [BookNext]_vars
  PROVE  SetupInv' /\ (UNCHANGED repoVars
                        \/ (KeepsOthers /\ SettledRebinding /\ ServesSelected))
<1>1. CASE Repos!Next
  BY <1>1, SetupKept, SetupStepFits
<1>2. CASE UNCHANGED repoVars
  BY <1>2, SetupRests
<1> QED
  BY <1>1, <1>2 DEF BookNext, vars

(* Whatever the scene and however set-ups, launches and the operator          *)
(* interleave, a set-up serves what was selected and disturbs no value it     *)
(* does not share with it.                                                    *)
THEOREM SetupIsContained == Spec => SetupDisturbsNothing
<1>1. BookInit => SetupInv
  BY SetupStarts DEF BookInit
<1>2. SetupInv /\ [BookNext]_vars => SetupInv'
  BY SetupStep
<1>3. SetupInv /\ [BookNext]_vars =>
        [\A id \in DOMAIN repoRow :
           LET old == Repos!Content(repoRow[id].env) new == (Repos!Content(repoRow[id].env))'
           IN repoRow'[id].env # repoRow[id].env =>
                /\ old.auth \ Repos!AUTH_KEYS(repoRow'[id].harness) \subseteq new.auth
                /\ (old.forge => new.forge) /\ (old.other => new.other)]_(Repos!repoVars)
  BY SetupStep DEF KeepsOthers, repoVars, Repos!repoVars
<1>4. SetupInv /\ [BookNext]_vars =>
        [\A id \in DOMAIN repoRow : repoRow'[id].env # repoRow[id].env =>
           \A t \in Repos!TasksOf(id) : ~backlog[t].spawning]_(Repos!repoVars)
  BY SetupStep DEF SettledRebinding, repoVars, Repos!repoVars
<1>5. SetupInv /\ [BookNext]_vars =>
        [\A id \in DOMAIN repoRow, u \in Setups :
           LET row == repoRow'[id]
           IN row.env # repoRow[id].env /\ lock = u /\ setup[u].connection # Nil =>
                row.harness = setup[u].harness /\ Repos!Serves(row, row.harness)]_(Repos!repoVars)
  BY SetupStep DEF ServesSelected, repoVars, Repos!repoVars
<1>6. SetupInv => /\ Repos!TypeOK /\ Repos!RefsResolve
                  /\ Repos!OneRepoPerSource /\ Repos!NoBacklogStarts
  BY SetupHolds
<1> QED
  BY <1>1, <1>2, <1>3, <1>4, <1>5, <1>6, PTL DEF Spec, SetupDisturbsNothing,
     Repos!SetupDisturbsNothing, Repos!OthersKept, Repos!SelectedServes, Repos!LaunchReadsOneBinding

-----------------------------------------------------------------------------
(* Induction *)

(* Numbers have a least, so that an induction runs over a set of them.        *)
LEMMA Least ==
  ASSUME NEW A, A \subseteq Nat, A # {}
  PROVE  \E n \in A : \A m \in A : ~(m < n)
<1>1. PICK n \in A : \A m \in A : <<m, n>> \notin OpToRel(<, Nat)
  BY WFMin, NatLessThanWellFounded
<1>2. ASSUME NEW m \in A, m < n PROVE <<m, n>> \in OpToRel(<, Nat)
  <2>1. <<m, n>> \in Nat \X Nat /\ <<m, n>>[1] < <<m, n>>[2]
    BY <1>2
  <2> QED
    BY <2>1 DEF OpToRel
<1> QED
  BY <1>1, <1>2

LEMMA Inductive ==
  ASSUME NEW A, 0 \in A, \A n \in A \cap Nat : n + 1 \in A
  PROVE  Nat \subseteq A
<1> DEFINE rest == Nat \ A
<1> SUFFICES ASSUME rest # {} PROVE FALSE
  OBVIOUS
<1>1. PICK n \in rest : \A m \in rest : ~(m < n)
  <2>1. rest \subseteq Nat
    OBVIOUS
  <2> HIDE DEF rest
  <2> QED
    BY <2>1, Least
<1>2. n \in Nat /\ n # 0
  OBVIOUS
<1>3. n - 1 \in Nat /\ n - 1 < n /\ (n - 1) + 1 = n
  BY <1>2
<1>4. n - 1 \in A
  BY <1>1, <1>3
<1> QED
  BY <1>2, <1>3, <1>4

(* What a function does over and over. *)
Begins(h, n, S, x, f) ==
  h \in [0 .. n -> S] /\ h[0] = x /\ \A i \in 0 .. n - 1 : h[i + 1] = f[h[i]]

Repeats(g, S, x, f) == g \in [Nat -> S] /\ g[0] = x /\ \A n \in Nat : g[n + 1] = f[g[n]]

LEMMA Iterates ==
  ASSUME NEW S, NEW x, NEW f, x \in S, f \in [S -> S]
  PROVE  \E g : Repeats(g, S, x, f)
<1> DEFINE H(n) == CHOOSE h : Begins(h, n, S, x, f)
<1> DEFINE A == {n \in Nat : Begins(H(n), n, S, x, f)}
<1>1. Nat \subseteq A
  <2>1. 0 \in A
    <3> DEFINE h == [i \in 0 .. 0 |-> x]
    <3>1. Begins(h, 0, S, x, f)
      BY DEF Begins
    <3> HIDE DEF h
    <3> QED
      BY <3>1
  <2>2. ASSUME NEW n \in A \cap Nat PROVE n + 1 \in A
    <3> DEFINE h == [i \in 0 .. n + 1 |-> IF i = n + 1 THEN f[H(n)[n]] ELSE H(n)[i]]
    <3>1. Begins(H(n), n, S, x, f)
      OBVIOUS
    <3>2. Begins(h, n + 1, S, x, f)
      <4> HIDE DEF H
      <4> QED
        BY <3>1 DEF Begins
    <3> HIDE DEF h
    <3> QED
      BY <3>2
  <2> HIDE DEF A
  <2> QED
    BY <2>1, <2>2, Inductive
<1>2. \A n \in Nat : Begins(H(n), n, S, x, f)
  BY <1>1
<1> HIDE DEF H
<1>3. ASSUME NEW n \in Nat PROVE H(n + 1)[n] = H(n)[n]
  <2> DEFINE E == {i \in Nat : i <= n => H(n + 1)[i] = H(n)[i]}
  <2>1. Begins(H(n), n, S, x, f) /\ Begins(H(n + 1), n + 1, S, x, f)
    BY <1>2
  <2>2. 0 \in E
    BY <2>1 DEF Begins
  <2>3. ASSUME NEW i \in E \cap Nat PROVE i + 1 \in E
    <3>1. CASE i + 1 <= n
      <4>1. i <= n /\ i \in 0 .. n - 1 /\ i \in 0 .. (n + 1) - 1
        BY <3>1
      <4> QED
        BY <2>1, <4>1 DEF Begins
    <3> QED
      BY <3>1
  <2> HIDE DEF E
  <2>4. n \in E
    BY <2>2, <2>3, Inductive
  <2> QED
    BY <2>4 DEF E
<1> DEFINE g == [n \in Nat |-> H(n)[n]]
<1>4. g \in [Nat -> S] /\ g[0] = x
  BY <1>2 DEF Begins
<1>5. ASSUME NEW n \in Nat PROVE g[n + 1] = f[g[n]]
  <2>1. H(n + 1)[n + 1] = f[H(n + 1)[n]]
    BY <1>2 DEF Begins
  <2> QED
    BY <2>1, <1>3
<1> HIDE DEF g
<1> QED
  BY <1>4, <1>5 DEF Repeats

-----------------------------------------------------------------------------
(* What a listing shows *)

(* A chain of governors leads up from one task to another.                    *)
Chain(t, s, m) ==
  \E path \in [0 .. m -> Scopes!TaskIds] :
    /\ path[0] = t /\ path[m] = s
    /\ \A i \in 0 .. m - 1 : Scopes!Parent(path[i]) = path[i + 1]

(* A listing as it grows, and what it has found so far.                       *)
Grow(s) == CHOOSE g : g = [n \in Nat |-> IF n = 0 THEN {s} \cap Scopes!Born
                                         ELSE Scopes!ChildrenOnce(g[n - 1])]
Found(s, n) == {t \in Scopes!Born : t = s \/ \E m \in 1 .. n : Chain(t, s, m)}

LEMMA Grows ==
  ASSUME NEW s \in Scopes!Born
  PROVE  Grow(s)[0] = {s} /\ \A n \in Nat : Grow(s)[n + 1] = Scopes!ChildrenOnce(Grow(s)[n])
<1> DEFINE F == [A \in SUBSET Scopes!Born |-> Scopes!ChildrenOnce(A)]
<1>1. F \in [SUBSET Scopes!Born -> SUBSET Scopes!Born] /\ {s} \in SUBSET Scopes!Born
  BY DEF Scopes!ChildrenOnce
<1>2. PICK h \in [Nat -> SUBSET Scopes!Born] : h[0] = {s} /\ \A n \in Nat : h[n + 1] = F[h[n]]
  <2> DEFINE S == SUBSET Scopes!Born x == {s}
  <2>1. x \in S /\ F \in [S -> S]
    BY <1>1
  <2> HIDE DEF F, S, x
  <2>2. \E h : Repeats(h, S, x, F)
    BY <2>1, Iterates
  <2> QED
    BY <2>2 DEF S, x, Repeats
<1>3. \A n \in Nat : h[n + 1] = Scopes!ChildrenOnce(h[n])
  BY <1>2
<1> DEFINE Round(g) == [n \in Nat |-> IF n = 0 THEN {s} \cap Scopes!Born
                                     ELSE Scopes!ChildrenOnce(g[n - 1])]
<1>4. ASSUME NEW n \in Nat PROVE h[n] = Round(h)[n]
  <2>1. CASE n = 0
    BY <2>1, <1>2
  <2>2. CASE n # 0
    <3>1. n - 1 \in Nat /\ (n - 1) + 1 = n
      BY <2>2
    <3> QED
      BY <2>2, <3>1, <1>3
  <2> QED
    BY <2>1, <2>2
<1>5. h = Round(h)
  <2>1. Round(h) = [n \in Nat |-> Round(h)[n]] /\ h = [n \in Nat |-> h[n]]
    BY <1>2
  <2> HIDE DEF Round
  <2> QED
    BY <2>1, <1>4
<1>6. Grow(s) = Round(Grow(s))
  BY <1>5 DEF Grow
<1>7. Grow(s)[0] = {s}
  BY <1>6
<1>8. ASSUME NEW n \in Nat PROVE Grow(s)[n + 1] = Scopes!ChildrenOnce(Grow(s)[n])
  <2>1. n + 1 \in Nat /\ n + 1 # 0 /\ (n + 1) - 1 = n
    OBVIOUS
  <2>2. Grow(s)[n + 1] = Round(Grow(s))[n + 1]
    BY <1>6
  <2> QED
    BY <2>1, <2>2
<1> QED
  BY <1>7, <1>8

(* One round of children finds what is one link further down.                 *)
LEMMA FindsChildren ==
  ASSUME NEW s \in Scopes!Born, NEW n \in Nat, Nil \notin Scopes!TaskIds
  PROVE  Scopes!ChildrenOnce(Found(s, n)) = Found(s, n + 1)
<1>1. ASSUME NEW t \in Scopes!ChildrenOnce(Found(s, n)) PROVE t \in Found(s, n + 1)
  <2>1. CASE t \in Found(s, n)
    BY <2>1 DEF Found
  <2>2. CASE t \in Scopes!Born /\ board[t].governor \in Found(s, n)
    <3> DEFINE g == board[t].governor
    <3>1. t \in Scopes!TaskIds /\ g \in Scopes!TaskIds /\ Scopes!Parent(t) = g
      BY <2>2 DEF Found, Scopes!Born, Scopes!Parent
    <3>2. CASE g = s
      <4> DEFINE path == [i \in 0 .. 1 |-> IF i = 0 THEN t ELSE g]
      <4>1. path \in [0 .. 1 -> Scopes!TaskIds] /\ path[0] = t /\ path[1] = s
            /\ \A i \in 0 .. 1 - 1 : Scopes!Parent(path[i]) = path[i + 1]
        BY <3>1, <3>2
      <4>2. Chain(t, s, 1)
        <5> HIDE DEF path
        <5> QED
          BY <4>1 DEF Chain
      <4> QED
        BY <2>2, <4>2 DEF Found
    <3>3. CASE g # s
      <4>1. PICK m \in 1 .. n : Chain(g, s, m)
        BY <2>2, <3>3 DEF Found
      <4>2. PICK up \in [0 .. m -> Scopes!TaskIds] :
              /\ up[0] = g /\ up[m] = s
              /\ \A i \in 0 .. m - 1 : Scopes!Parent(up[i]) = up[i + 1]
        BY <4>1 DEF Chain
      <4> DEFINE path == [i \in 0 .. m + 1 |-> IF i = 0 THEN t ELSE up[i - 1]]
      <4>3. path \in [0 .. m + 1 -> Scopes!TaskIds] /\ path[0] = t /\ path[m + 1] = s
        BY <3>1, <4>2
      <4>4. ASSUME NEW i \in 0 .. (m + 1) - 1 PROVE Scopes!Parent(path[i]) = path[i + 1]
        <5>1. CASE i = 0
          BY <5>1, <3>1, <4>2
        <5>2. CASE i # 0
          <6>1. i - 1 \in 0 .. m - 1 /\ (i - 1) + 1 = i /\ path[i] = up[i - 1] /\ path[i + 1] = up[i]
            BY <5>2
          <6> QED
            BY <6>1, <4>2
        <5> QED
          BY <5>1, <5>2
      <4>5. Chain(t, s, m + 1)
        <5> HIDE DEF path
        <5> QED
          BY <4>3, <4>4 DEF Chain
      <4> QED
        BY <2>2, <4>5 DEF Found
    <3> QED
      BY <3>2, <3>3
  <2> QED
    BY <1>1, <2>1, <2>2 DEF Scopes!ChildrenOnce
<1>2. ASSUME NEW t \in Found(s, n + 1) PROVE t \in Scopes!ChildrenOnce(Found(s, n))
  <2>1. CASE t \in Found(s, n)
    BY <2>1 DEF Scopes!ChildrenOnce
  <2>2. CASE t \notin Found(s, n)
    <3>1. t \in Scopes!Born /\ t # s /\ Chain(t, s, n + 1)
      <4>1. t \in Scopes!Born /\ t # s /\ \E m \in 1 .. n + 1 : Chain(t, s, m)
        BY <1>2, <2>2 DEF Found
      <4>2. ~\E m \in 1 .. n : Chain(t, s, m)
        BY <4>1, <2>2 DEF Found
      <4> QED
        BY <4>1, <4>2
    <3>2. PICK path \in [0 .. n + 1 -> Scopes!TaskIds] :
            /\ path[0] = t /\ path[n + 1] = s
            /\ \A i \in 0 .. (n + 1) - 1 : Scopes!Parent(path[i]) = path[i + 1]
      BY <3>1 DEF Chain
    <3> DEFINE g == board[t].governor
    <3>3. path[1] = g /\ g \in Scopes!TaskIds
      BY <3>1, <3>2 DEF Scopes!Parent
    <3>4. g \in Found(s, n)
      <4>1. CASE n = 0
        <5>1. g = s
          BY <4>1, <3>2, <3>3
        <5> QED
          BY <5>1 DEF Found
      <4>2. CASE n # 0
        <5>1. Scopes!Parent(g) \in Scopes!TaskIds
          BY <4>2, <3>2, <3>3
        <5>2. g \in Scopes!Born
          BY <5>1 DEF Scopes!Parent
        <5> DEFINE up == [i \in 0 .. n |-> path[i + 1]]
        <5>3. up \in [0 .. n -> Scopes!TaskIds] /\ up[0] = g /\ up[n] = s
          BY <3>2, <3>3
        <5>4. ASSUME NEW i \in 0 .. n - 1 PROVE Scopes!Parent(up[i]) = up[i + 1]
          <6>1. i + 1 \in 0 .. (n + 1) - 1
            OBVIOUS
          <6> QED
            BY <6>1, <3>2
        <5>5. Chain(g, s, n)
          <6> HIDE DEF up
          <6> QED
            BY <5>3, <5>4 DEF Chain
        <5> QED
          BY <4>2, <5>2, <5>5 DEF Found
      <4> QED
        BY <4>1, <4>2
    <3> QED
      BY <3>1, <3>4 DEF Scopes!ChildrenOnce
  <2> QED
    BY <2>1, <2>2
<1> QED
  BY <1>1, <1>2

LEMMA SameCardinality == ASSUME NEW S PROVE Scopes!Cardinality(S) = Cardinality(S)
BY Zenon DEF Cardinality, Scopes!Cardinality

(* The listing is what the walks from below find.                             *)
LEMMA ListingIsReach ==
  ASSUME NEW s \in Scopes!Born, Nil \notin Scopes!TaskIds, IsFiniteSet(Scopes!TaskIds)
  PROVE  Scopes!Closure(s) = {t \in Scopes!Born : t = s \/ Scopes!Reaches(t, s)}
<1> DEFINE N == Cardinality(Scopes!TaskIds)
<1>1. N \in Nat
  BY FS_CardinalityType
<1> DEFINE A == {n \in Nat : Grow(s)[n] = Found(s, n)}
<1>2. 0 \in A
  BY Grows DEF Found
<1>3. ASSUME NEW n \in A \cap Nat PROVE n + 1 \in A
  <2>1. Grow(s)[n + 1] = Scopes!ChildrenOnce(Found(s, n))
    BY Grows
  <2>2. Scopes!ChildrenOnce(Found(s, n)) = Found(s, n + 1)
    BY FindsChildren
  <2> QED
    BY <2>1, <2>2
<1>4. Grow(s)[N] = Found(s, N)
  <2> HIDE DEF A
  <2>1. N \in A
    BY <1>1, <1>2, <1>3, Inductive
  <2> QED
    BY <2>1 DEF A
<1>5. Scopes!Closure(s) = Grow(s)[N]
  BY SameCardinality DEF Scopes!Closure, Grow
<1>6. \A t : Scopes!Reaches(t, s) <=> \E m \in 1 .. N : Chain(t, s, m)
  BY SameCardinality DEF Scopes!Reaches, Scopes!Climbs, Chain
<1> HIDE DEF N
<1> QED
  BY <1>4, <1>5, <1>6 DEF Found

-----------------------------------------------------------------------------
(* What an agent may do *)

BoardFields == {"born", "flow", "repo", "governor", "planning", "terminal", "deps", "notes"}
TurnFields  == {"calls", "moves", "notes", "rotation", "old"}

(* A task's governor and dependencies are there; it does not depend on itself. *)
RowFits(t) ==
  /\ DOMAIN board[t] = BoardFields
  /\ board[t].governor \in Scopes!Born \cup {Nil} /\ board[t].deps \subseteq Scopes!Born \ {t}
  /\ board[t].notes \in 0 .. world.notes

BoardFits ==
  /\ IsFiniteSet(Scopes!TaskIds) /\ Nil \notin Scopes!TaskIds
  /\ \A t \in Scopes!TaskIds : RowFits(t)
  /\ DOMAIN call = Callers /\ DOMAIN world = TurnFields /\ world.notes \in Nat

(* What was decided of a call still holds when it acts: its subject and its    *)
(* targets are in the scope it was decided in, its repository is the subject's. *)
CallFits(c) ==
  LET k == call[c]
  IN /\ k.pc \in {"none", "act"}
     /\ k.pc = "act" =>
          /\ k.subject \in k.scope /\ k.scope \subseteq Scopes!Born
          /\ k.action \in {"operate", "drop", "create"} => k.target = k.subject
          /\ k.action \in {"resolve", "preplan", "depend"} => k.target \in k.scope
          /\ k.action = "depend" => k.deps \subseteq k.scope
          /\ k.action = "create" => k.repo \in {Nil, board[k.subject].repo}
          /\ k.action = "credential_dir" => k.repo = board[k.subject].repo

(* The generations in the file, in the service and in the containers as a      *)
(* rotation goes on.                                                           *)
Generations(tokens, read, held) ==
  tokenFile = tokens /\ active = read /\ \A t \in Scopes!TaskIds : holder[t] \in held

RotationFits ==
  /\ DOMAIN holder = Scopes!TaskIds
  /\ \/ world.rotation = "start" /\ Generations(<<1>>, {1}, {0, 1})
     \/ world.rotation = "appended" /\ Generations(<<1, 2>>, {1}, {0, 1, 2})
     \/ /\ world.rotation = "respawn" /\ Generations(<<1, 2>>, {1, 2}, {0, 1, 2})
        /\ \A t \in Scopes!TaskIds : holder[t] = 1 => t \in world.old
     \/ world.rotation = "removed" /\ Generations(<<2>>, {1, 2}, {0, 2})
     \/ world.rotation = "done" /\ (\/ Generations(<<1>>, {1}, {0, 1})
                                    \/ Generations(<<2>>, {2}, {0, 2}))

ScopeInv == BoardFits /\ (\A c \in Callers : CallFits(c)) /\ RotationFits

LEMMA ScopeStarts == Scopes!Init => ScopeInv
<1> SUFFICES ASSUME Scopes!Init PROVE ScopeInv
  OBVIOUS
<1>1. PICK w \in Worlds :
        /\ board = w.board /\ repoDir = w.repoDir /\ holder = w.holder
        /\ world = [calls |-> w.calls, moves |-> w.moves, notes |-> w.notes,
                    rotation |-> w.rotation, old |-> {}]
  BY Zenon DEF Scopes!Init
<1>2. /\ IsFiniteSet(DOMAIN w.board) /\ Nil \notin DOMAIN w.board
      /\ w.board \in [DOMAIN w.board ->
           [born : BOOLEAN, flow : {"plain", "orchestrator", "setup"}, repo : DOMAIN w.repoDir,
            governor : {t \in DOMAIN w.board : w.board[t].born} \cup {Nil}, planning : BOOLEAN,
            terminal : BOOLEAN, deps : SUBSET {t \in DOMAIN w.board : w.board[t].born},
            notes : 0 .. w.notes]]
      /\ \A t \in DOMAIN w.board : t \notin w.board[t].deps
      /\ w.holder \in [DOMAIN w.board -> {0, 1}] /\ w.notes \in Nat
      /\ w.rotation \in {"start", "done"}
  <2>1. WorldOK(w)
    BY WorldsAssumption DEF WorldsAdmitted
  <2> QED
    BY <2>1 DEF WorldOK
<1>3. tokenFile = <<1>> /\ active = {1} /\ call = [c \in Callers |-> Scopes!NoCall]
  BY DEF Scopes!Init
<1>4. BoardFits
  <2>1. DOMAIN world = TurnFields /\ world.notes = w.notes
    BY <1>1 DEF TurnFields
  <2>2. ASSUME NEW t \in Scopes!TaskIds PROVE RowFits(t)
    BY <1>1, <1>2, <2>1, <2>2 DEF RowFits, BoardFields, Scopes!TaskIds, Scopes!Born
  <2> QED
    BY <1>1, <1>2, <1>3, <2>1, <2>2 DEF BoardFits, Scopes!TaskIds
<1>5. \A c \in Callers : CallFits(c)
  BY <1>3 DEF CallFits, Scopes!NoCall
<1>6. RotationFits
  BY <1>1, <1>2, <1>3 DEF RotationFits, Generations, Scopes!TaskIds
<1> QED
  BY <1>4, <1>5, <1>6 DEF ScopeInv

LEMMA ScopeRests == ScopeInv /\ UNCHANGED scopeVars => ScopeInv'
BY DEF ScopeInv, BoardFits, CallFits, RotationFits, Generations, RowFits, scopeVars,
   Scopes!TaskIds, Scopes!Born

-----------------------------------------------------------------------------
(* Calls *)

(* A step of the tasks: those that are there stay, in the repository and       *)
(* under the workflow they have.                                               *)
BoardStep ==
  /\ DOMAIN board' = DOMAIN board
  /\ \A t \in Scopes!Born : board'[t].born /\ board'[t].repo = board[t].repo

LEMMA CallsStand ==
  ASSUME NEW c, CallFits(c), BoardStep, call'[c] = call[c]
  PROVE  CallFits(c)'
<1>1. Scopes!Born \subseteq Scopes!Born'
  BY DEF BoardStep, Scopes!Born, Scopes!TaskIds
<1>2. call[c].pc = "act" => board'[call[c].subject].repo = board[call[c].subject].repo
  BY DEF BoardStep, CallFits
<1> QED
  BY <1>1, <1>2 DEF CallFits

LEMMA RowsStand ==
  ASSUME BoardFits, BoardStep, DOMAIN call' = Callers, DOMAIN world' = TurnFields,
         world'.notes = world.notes,
         \A t \in Scopes!TaskIds : board'[t] = board[t] \/ RowFits(t)'
  PROVE  BoardFits'
<1>1. Scopes!TaskIds' = Scopes!TaskIds /\ Scopes!Born \subseteq Scopes!Born'
  BY DEF BoardStep, Scopes!Born, Scopes!TaskIds
<1>2. ASSUME NEW t \in Scopes!TaskIds PROVE RowFits(t)'
  BY <1>1, <1>2 DEF RowFits, BoardFits
<1> QED
  BY <1>1, <1>2 DEF BoardFits

(* What the four properties of steps say.                                     *)
InScope ==
  \A c \in Callers : Scopes!Effective(c) =>
    LET s == call[c].subject
    IN /\ \A t \in Scopes!Born : board'[t] # board[t] =>
            t \in call[c].scope \/ (call[c].action = "drop" /\ Scopes!Reaches(t, s))
       /\ \A t \in Scopes!TaskIds \ Scopes!Born : board'[t].born =>
            board'[t].governor = s /\ board'[t].repo = board[s].repo
       /\ \A r \in Scopes!Repos : repoDir'[r] # repoDir[r] => board[s].repo = r

OwnMoves ==
  \A c \in Callers : Scopes!Effective(c) =>
    \A t \in Scopes!Born \ {call[c].subject} :
      (board'[t].planning # board[t].planning \/ board'[t].terminal # board[t].terminal) =>
        call[c].action = "drop" /\ Scopes!Reaches(t, call[c].subject)

OwnDependencies ==
  \A c \in Callers : Scopes!Effective(c) =>
    /\ \A t \in Scopes!Born : board'[t].deps \subseteq board[t].deps \cup call[c].scope
    /\ \A t \in Scopes!TaskIds \ Scopes!Born : board'[t].born =>
         board'[t].deps \subseteq Scopes!Born
         /\ t \notin UNION {board[d].deps : d \in Scopes!Born}

Contains == InScope /\ OwnMoves /\ OwnDependencies

LEMMA NothingChanges == board' = board /\ repoDir' = repoDir => Contains
BY DEF Contains, InScope, OwnMoves, OwnDependencies, Scopes!Born, Scopes!TaskIds

LEMMA NobodyActs == UNCHANGED call => Contains
BY DEF Contains, InScope, OwnMoves, OwnDependencies, Scopes!Effective

(* What a decision lets through is in the subject's scope.                    *)
LEMMA AuthorizedInScope ==
  ASSUME NEW s \in Scopes!TaskIds, NEW t, NEW a, Scopes!authorize(a, Scopes!_target(s, t))
  PROVE  s \in Scopes!Scope(s) /\ t \in Scopes!Scope(s) /\ (a \in {"operate", "drop"} => t = s)
BY DEF Scopes!authorize, Scopes!_target, Scopes!SelfActions, Scopes!ChildActions, Scopes!Scope,
   Scopes!task_orchestrates, Scopes!TaskIds, Scopes!Born

LEMMA DecidedInScope ==
  ASSUME NEW s \in Scopes!TaskIds, NEW ask \in Scopes!Asks, Scopes!Decision(s, ask)
  PROVE  /\ s \in Scopes!Scope(s)
         /\ ask.action \in {"operate", "drop", "create"} => ask.target = s
         /\ ask.action \in {"resolve", "preplan", "depend"} => ask.target \in Scopes!Scope(s)
         /\ ask.action = "depend" => ask.deps \subseteq Scopes!Scope(s)
         /\ ask.action = "create" => ask.repo \in {Nil, board[s].repo}
         /\ ask.action = "credential_dir" => ask.repo = board[s].repo
<1>1. CASE ask.action = "resolve"
  <2>1. Scopes!decide_responsibility(s, ask.target)
    BY <1>1 DEF Scopes!Decision
  <2>2. s \in Scopes!Scope(s) /\ ask.target \in Scopes!Scope(s)
    BY <2>1, AuthorizedInScope DEF Scopes!decide_responsibility, Scopes!_target, Scopes!Scope,
       Scopes!task_orchestrates, Scopes!Born, Scopes!TaskIds
  <2> QED
    BY <1>1, <2>2
<1>2. CASE ask.action = "depend"
  <2>1. Scopes!decide_dependencies(s, ask.target, ask.deps)
    BY <1>2 DEF Scopes!Decision
  <2> QED
    BY <1>2, <2>1, AuthorizedInScope DEF Scopes!decide_dependencies
<1>3. CASE ask.action = "create"
  BY <1>3 DEF Scopes!Decision, Scopes!decide_create, Scopes!task_orchestrates, Scopes!Scope
<1>4. CASE ask.action = "credential_dir"
  BY <1>4 DEF Scopes!Decision, Scopes!task_configures_repo_credentials, Scopes!Scope
<1>5. CASE ask.action \notin {"resolve", "depend", "create", "credential_dir"}
  <2>1. Scopes!authorize(ask.action, Scopes!_target(s, ask.target))
    BY <1>5 DEF Scopes!Decision
  <2> QED
    BY <1>5, <2>1, AuthorizedInScope
<1> QED
  BY <1>1, <1>2, <1>3, <1>4, <1>5

LEMMA AuthenticateKeepsScope ==
  ASSUME ScopeInv, NEW c \in Callers, NEW s \in Scopes!TaskIds, NEW ask \in Scopes!Asks,
         Scopes!authenticate(c, s, ask)
  PROVE  ScopeInv' /\ Contains
<1>1. /\ Scopes!Decision(s, ask)
      /\ world' = [world EXCEPT !.calls = @ - 1]
      /\ call' = [call EXCEPT ![c] = [pc |-> "act", subject |-> s, action |-> ask.action,
           target |-> ask.target, deps |-> ask.deps, repo |-> ask.repo, scope |-> Scopes!Scope(s)]]
      /\ board' = board /\ repoDir' = repoDir /\ tokenFile' = tokenFile /\ active' = active
      /\ holder' = holder
  BY DEF Scopes!authenticate
<1>2. DOMAIN world = TurnFields /\ DOMAIN call = Callers
  BY DEF ScopeInv, BoardFits
<1>3. /\ DOMAIN world' = TurnFields /\ world'.notes = world.notes /\ DOMAIN call' = Callers
      /\ world'.rotation = world.rotation /\ world'.old = world.old
  BY <1>1, <1>2 DEF TurnFields
<1>4. BoardFits'
  BY <1>1, <1>3 DEF ScopeInv, BoardFits, RowFits, Scopes!TaskIds, Scopes!Born
<1>5. CallFits(c)'
  <2>1. Scopes!Scope(s) \subseteq Scopes!Born'
    BY <1>1 DEF Scopes!Scope, Scopes!Born, Scopes!TaskIds
  <2>2. call'[c] = [pc |-> "act", subject |-> s, action |-> ask.action, target |-> ask.target,
                    deps |-> ask.deps, repo |-> ask.repo, scope |-> Scopes!Scope(s)]
    BY <1>1, <1>2
  <2> QED
    BY <1>1, <2>1, <2>2, DecidedInScope DEF CallFits
<1>6. ASSUME NEW d \in Callers \ {c} PROVE CallFits(d)'
  <2>1. call'[d] = call[d] /\ CallFits(d)
    BY <1>1, <1>2, <1>6 DEF ScopeInv
  <2> QED
    BY <1>1, <2>1 DEF CallFits, Scopes!Born, Scopes!TaskIds
<1>7. RotationFits'
  BY <1>1, <1>3 DEF ScopeInv, RotationFits, Generations, Scopes!TaskIds
<1> QED
  BY <1>1, <1>4, <1>5, <1>6, <1>7, NothingChanges DEF ScopeInv

(* What a call's own step may make of a task.                                 *)
Below(c, t) == call[c].action = "drop" /\ (t = call[c].subject \/ Scopes!Reaches(t, call[c].subject))
Becomes(c, t, row) ==
  /\ DOMAIN row = BoardFields
  /\ \A f \in {"born", "flow", "repo", "governor"} : row[f] = board[t][f]
  /\ row # board[t] => t \in call[c].scope \/ Below(c, t)
  /\ row.planning # board[t].planning => t = call[c].subject
  /\ row.terminal # board[t].terminal => Below(c, t)
  /\ row.deps # board[t].deps => row.deps \subseteq (Scopes!Born \ {t}) \cap call[c].scope
  /\ row.notes \in Nat

LEMMA EffectRows ==
  ASSUME BoardFits, NEW c, CallFits(c), Scopes!Act(c), NEW t \in Scopes!TaskIds
  PROVE  Becomes(c, t, board'[t]) /\ board'[t].notes <= world.notes
<1> DEFINE s == call[c].subject a == call[c].action target == call[c].target
           Gets(x) == Becomes(c, t, x)
<1>1. /\ board' = Scopes!Effect(c) /\ call[c].pc = "act" /\ board'[t].notes <= world.notes
      /\ DOMAIN board[t] = BoardFields /\ board[t].notes \in Nat
  BY DEF Scopes!Act, BoardFits, RowFits
<1>2. Gets(board[t])
  BY <1>1 DEF Becomes
<1>3. CASE a = "operate"
  <2>1. board'[t] \in {board[t], [board[t] EXCEPT !.planning = ~@]} /\ (board'[t] # board[t] => t = target)
    BY <1>1, <1>3 DEF Scopes!Effect, Scopes!TaskIds
  <2>2. target = s /\ s \in call[c].scope
    BY <1>1, <1>3 DEF CallFits
  <2>3. t = s => Gets([board[t] EXCEPT !.planning = ~@])
    BY <1>1, <1>3, <2>2 DEF BoardFields, Becomes
  <2> QED
    BY <1>1, <1>2, <2>1, <2>2, <2>3
<1>4. CASE a = "drop"
  <2>1. board'[t] \in {board[t], [board[t] EXCEPT !.terminal = TRUE]}
        /\ (board'[t] # board[t] => t \in Scopes!Cascade(target))
    BY <1>1, <1>4 DEF Scopes!Effect
  <2>2. target = s
    BY <1>1, <1>4 DEF CallFits
  <2>3. t \in Scopes!Cascade(s) => Below(c, t)
    BY <1>4 DEF Scopes!Cascade, Below
  <2>4. Below(c, t) => Gets([board[t] EXCEPT !.terminal = TRUE])
    BY <1>1, <1>4 DEF BoardFields, Becomes
  <2> QED
    BY <1>1, <1>2, <2>1, <2>2, <2>3, <2>4
<1>5. CASE a \in {"resolve", "preplan"}
  <2>1. board'[t] \in {board[t], [board[t] EXCEPT !.notes = @ + 1]} /\ (board'[t] # board[t] => t = target)
    BY <1>1, <1>5 DEF Scopes!Effect, Scopes!TaskIds
  <2>2. target \in call[c].scope
    BY <1>1, <1>5 DEF CallFits
  <2>3. t = target => Gets([board[t] EXCEPT !.notes = @ + 1])
    BY <1>1, <2>2 DEF BoardFields, Becomes
  <2> QED
    BY <1>1, <1>2, <2>1, <2>2, <2>3
<1>6. CASE a = "depend"
  <2> DEFINE deps == call[c].deps
  <2>1. board'[t] \in {board[t], [board[t] EXCEPT !.deps = deps]}
        /\ (board'[t] # board[t] => t = target /\ ~Scopes!InvalidDependencies(target, deps))
    BY <1>1, <1>6 DEF Scopes!Effect, Scopes!TaskIds
  <2>2. target \in call[c].scope /\ deps \subseteq call[c].scope
    BY <1>1, <1>6 DEF CallFits
  <2>3. t = target /\ ~Scopes!InvalidDependencies(target, deps) => Gets([board[t] EXCEPT !.deps = deps])
    BY <1>1, <2>2 DEF BoardFields, Scopes!InvalidDependencies, Becomes
  <2> QED
    BY <1>1, <1>2, <2>1, <2>2, <2>3
<1>7. CASE a \notin {"operate", "drop", "resolve", "preplan", "depend"}
  <2>1. board' = board
    BY <1>1, <1>7 DEF Scopes!Effect
  <2> QED
    BY <1>1, <1>2, <2>1
<1> QED
  BY <1>1, <1>3, <1>4, <1>5, <1>6, <1>7

LEMMA ActKeepsScope ==
  ASSUME ScopeInv, NEW c \in Callers, Scopes!Act(c)
  PROVE  ScopeInv' /\ Contains
<1> DEFINE s == call[c].subject a == call[c].action
<1>1. /\ call[c].pc = "act" /\ call' = [call EXCEPT ![c] = Scopes!NoCall]
      /\ repoDir' = IF a = "credential_dir" THEN [repoDir EXCEPT ![call[c].repo] = "set"] ELSE repoDir
      /\ UNCHANGED <<tokenFile, active, holder, world>>
  BY DEF Scopes!Act, Scopes!Return
<1>2. BoardFits /\ CallFits(c) /\ DOMAIN call = Callers
  BY DEF ScopeInv, BoardFits
<1>3. ASSUME NEW t \in Scopes!TaskIds
      PROVE  Becomes(c, t, board'[t]) /\ board'[t].notes <= world.notes
  BY <1>2, <1>3, EffectRows
<1>4. BoardStep
  <2>1. DOMAIN board' = DOMAIN board
    BY <1>1 DEF Scopes!Act, Scopes!Effect, Scopes!TaskIds
  <2> QED
    BY <2>1, <1>3 DEF BoardStep, Scopes!Born, Becomes
<1>5. ASSUME NEW t \in Scopes!TaskIds PROVE RowFits(t)'
  <2>1. Scopes!Born' = Scopes!Born /\ world' = world
    BY <1>1, <1>3, <1>4 DEF BoardStep, Scopes!Born, Scopes!TaskIds, Becomes
  <2>2. RowFits(t) /\ world.notes \in Nat
    BY <1>2 DEF BoardFits
  <2> QED
    BY <1>3, <2>1, <2>2 DEF RowFits, Becomes
<1>6. BoardFits'
  BY <1>1, <1>2, <1>4, <1>5, RowsStand DEF BoardFits
<1>7. ASSUME NEW d \in Callers PROVE CallFits(d)'
  <2>1. CASE d = c
    BY <1>1, <1>2, <2>1 DEF CallFits, Scopes!NoCall
  <2>2. CASE d # c
    <3>1. call'[d] = call[d] /\ CallFits(d)
      BY <1>1, <1>2, <2>2 DEF ScopeInv
    <3> QED
      BY <1>4, <3>1, CallsStand
  <2> QED
    BY <2>1, <2>2
<1>8. RotationFits'
  BY <1>1, <1>4 DEF ScopeInv, RotationFits, Generations, Scopes!TaskIds, BoardStep
<1>9. Contains
  <2>1. \A d \in Callers : Scopes!Effective(d) => d = c
    BY <1>1, <1>2 DEF Scopes!Effective
  <2>2. s \in Scopes!Born /\ s \in call[c].scope
    BY <1>1, <1>2 DEF CallFits
  <2>3. \A r \in Scopes!Repos : repoDir'[r] # repoDir[r] => board[s].repo = r
    BY <1>1, <1>2 DEF CallFits, Scopes!Repos
  <2>4. InScope
    BY <1>3, <2>1, <2>2, <2>3 DEF InScope, Scopes!Born, Becomes, Below
  <2>5. OwnMoves
    BY <1>3, <2>1 DEF OwnMoves, Scopes!Born, Becomes, Below
  <2>6. OwnDependencies
    BY <1>3, <2>1 DEF OwnDependencies, Scopes!Born, Becomes
  <2> QED
    BY <2>4, <2>5, <2>6 DEF Contains
<1> QED
  BY <1>6, <1>7, <1>8, <1>9 DEF ScopeInv

LEMMA CreateKeepsScope ==
  ASSUME ScopeInv, NEW c \in Callers, NEW u \in Scopes!TaskIds, Scopes!create_task_as(c, u)
  PROVE  ScopeInv' /\ Contains
<1> DEFINE s == call[c].subject
<1>1. PICK flow : board' = [board EXCEPT ![u] = Scopes!NewChild(call[c].target,
                    IF call[c].repo = Nil THEN board[s].repo ELSE call[c].repo, flow, call[c].deps)]
  BY DEF Scopes!create_task_as
<1>2. /\ call[c].pc = "act" /\ call[c].action = "create" /\ u \notin Scopes!Born
      /\ call' = [call EXCEPT ![c] = Scopes!NoCall]
      /\ UNCHANGED <<repoDir, tokenFile, active, holder, world>>
  BY DEF Scopes!create_task_as, Scopes!Return
<1>3. BoardFits /\ CallFits(c) /\ DOMAIN call = Callers
  BY DEF ScopeInv, BoardFits
<1>4. s \in Scopes!Born /\ call[c].target = s /\ call[c].repo \in {Nil, board[s].repo}
  BY <1>2, <1>3 DEF CallFits
<1>5. /\ board'[u] = Scopes!NewChild(s, board[s].repo, flow, call[c].deps) /\ DOMAIN board' = DOMAIN board
      /\ \A t \in Scopes!TaskIds \ {u} : board'[t] = board[t]
  BY <1>1, <1>4 DEF Scopes!TaskIds
<1>6. BoardStep /\ Scopes!Born \subseteq Scopes!Born' /\ u \in Scopes!Born'
  BY <1>2, <1>5 DEF BoardStep, Scopes!Born, Scopes!TaskIds, Scopes!NewChild
<1>7. call[c].deps \subseteq Scopes!Born
  BY DEF Scopes!create_task_as, Scopes!InvalidDependencies
<1>8. RowFits(u)'
  <2>1. world'.notes \in Nat
    BY <1>2, <1>3 DEF BoardFits
  <2> QED
    BY <1>2, <1>4, <1>5, <1>6, <1>7, <2>1 DEF RowFits, Scopes!NewChild, BoardFields
<1>9. BoardFits'
  BY <1>2, <1>3, <1>5, <1>6, <1>8, RowsStand DEF BoardFits
<1>10. ASSUME NEW d \in Callers PROVE CallFits(d)'
  <2>1. CASE d = c
    BY <1>2, <1>3, <2>1 DEF CallFits, Scopes!NoCall
  <2>2. CASE d # c
    <3>1. call'[d] = call[d] /\ CallFits(d)
      BY <1>2, <1>3, <2>2 DEF ScopeInv
    <3> QED
      BY <1>6, <3>1, CallsStand
  <2> QED
    BY <2>1, <2>2
<1>11. RotationFits'
  BY <1>2, <1>6 DEF ScopeInv, RotationFits, Generations, Scopes!TaskIds, BoardStep
<1>12. Contains
  <2>1. \A d \in Callers : Scopes!Effective(d) => d = c
    BY <1>2, <1>3 DEF Scopes!Effective
  <2>2. \A t \in Scopes!Born : board'[t] = board[t]
    BY <1>2, <1>5 DEF Scopes!Born
  <2>3. \A t \in Scopes!TaskIds \ Scopes!Born : board'[t].born =>
          board'[t].governor = s /\ board'[t].repo = board[s].repo
    BY <1>5 DEF Scopes!Born, Scopes!NewChild
  <2>4. InScope
    BY <1>2, <2>1, <2>2, <2>3 DEF InScope
  <2>5. \A t \in Scopes!TaskIds \ Scopes!Born : board'[t].born =>
          /\ board'[t].deps \subseteq Scopes!Born
          /\ t \notin UNION {board[d].deps : d \in Scopes!Born}
    <3>1. \A d \in Scopes!Born : board[d].deps \subseteq Scopes!Born
      BY <1>3 DEF BoardFits, RowFits, Scopes!Born
    <3>2. \A t \in Scopes!TaskIds \ Scopes!Born : board'[t].born => board'[t].deps = call[c].deps
      BY <1>5 DEF Scopes!Born, Scopes!NewChild
    <3> QED
      BY <1>7, <3>1, <3>2
  <2> QED
    BY <2>1, <2>2, <2>4, <2>5 DEF Contains, OwnMoves, OwnDependencies
<1> QED
  BY <1>9, <1>10, <1>11, <1>12 DEF ScopeInv

-----------------------------------------------------------------------------
(* The operator, and the rotation of the credential *)

LEMMA GovernorKeepsScope ==
  ASSUME ScopeInv, NEW t \in Scopes!TaskIds, NEW g, Scopes!set_governor(t, g)
  PROVE  ScopeInv' /\ Contains
<1>1. /\ g \in Scopes!Born \cup {Nil} /\ world' = [world EXCEPT !.moves = @ - 1]
      /\ board' = [board EXCEPT ![t].governor = g]
      /\ UNCHANGED <<repoDir, call, tokenFile, active, holder>>
  BY DEF Scopes!set_governor
<1>2. BoardFits /\ DOMAIN world = TurnFields /\ RowFits(t)
  BY DEF ScopeInv, BoardFits
<1>3. /\ DOMAIN world' = TurnFields /\ world'.notes = world.notes
      /\ world'.rotation = world.rotation /\ world'.old = world.old
  BY <1>1, <1>2 DEF TurnFields
<1>4. /\ DOMAIN board' = DOMAIN board /\ DOMAIN board'[t] = BoardFields
      /\ \A f \in BoardFields \ {"governor"} : board'[t][f] = board[t][f]
      /\ board'[t].governor = g /\ \A x \in Scopes!TaskIds \ {t} : board'[x] = board[x]
  BY <1>1, <1>2 DEF RowFits, Scopes!TaskIds, BoardFields
<1>5. BoardStep /\ Scopes!Born' = Scopes!Born
  BY <1>4 DEF BoardStep, Scopes!Born, Scopes!TaskIds, BoardFields
<1>6. RowFits(t)'
  BY <1>1, <1>2, <1>3, <1>4, <1>5 DEF RowFits, BoardFields
<1>7. BoardFits'
  BY <1>1, <1>2, <1>3, <1>4, <1>5, <1>6, RowsStand DEF BoardFits
<1>8. \A c \in Callers : CallFits(c)'
  BY <1>1, <1>5, CallsStand DEF ScopeInv
<1>9. RotationFits'
  BY <1>1, <1>3, <1>5 DEF ScopeInv, RotationFits, Generations, Scopes!TaskIds, BoardStep
<1> QED
  BY <1>1, <1>7, <1>8, <1>9, NobodyActs DEF ScopeInv

(* The last generation of the file.                                           *)
LEMMA LastGeneration ==
  ASSUME RotationFits
  PROVE  Scopes!LastOf(tokenFile) \in {1, 2} /\ tokenFile \in {<<1>>, <<1, 2>>, <<2>>}
         /\ (tokenFile = <<1>> => Scopes!LastOf(tokenFile) = 1)
         /\ (tokenFile # <<1>> => Scopes!LastOf(tokenFile) = 2)
         /\ <<1>> # <<1, 2>> /\ <<1>> # <<2>>
<1>1. tokenFile \in {<<1>>, <<1, 2>>, <<2>>}
  BY DEF RotationFits, Generations
<1>2. Len(<<1>>) = 1 /\ Len(<<2>>) = 1 /\ Len(<<1, 2>>) = 2 /\ <<1>>[1] = 1 /\ <<2>>[1] = 2
      /\ <<1, 2>>[2] = 2
  OBVIOUS
<1> QED
  BY <1>1, <1>2 DEF Scopes!LastOf

LEMMA SnapshotKeepsScope ==
  ASSUME ScopeInv, NEW t \in Scopes!TaskIds, Scopes!snapshot_task_capability(t)
  PROVE  ScopeInv' /\ Contains
<1>1. /\ holder' = [holder EXCEPT ![t] = Scopes!LastOf(tokenFile)]
      /\ world' = [world EXCEPT !.old = @ \ {t}]
      /\ UNCHANGED <<board, repoDir, call, tokenFile, active>>
  BY DEF Scopes!snapshot_task_capability
<1>2. BoardFits /\ DOMAIN world = TurnFields /\ DOMAIN holder = Scopes!TaskIds /\ RotationFits
  BY DEF ScopeInv, BoardFits, RotationFits
<1>3. /\ DOMAIN world' = TurnFields /\ world'.notes = world.notes
      /\ world'.rotation = world.rotation /\ world'.old = world.old \ {t}
  BY <1>1, <1>2 DEF TurnFields
<1>4. BoardFits' /\ \A c \in Callers : CallFits(c)'
  BY <1>1, <1>3 DEF ScopeInv, BoardFits, RowFits, CallFits, Scopes!TaskIds, Scopes!Born
<1>5. RotationFits'
  <2>1. DOMAIN holder' = Scopes!TaskIds /\ holder'[t] = Scopes!LastOf(tokenFile)
        /\ \A x \in Scopes!TaskIds \ {t} : holder'[x] = holder[x]
    BY <1>1, <1>2
  <2> QED
    BY <1>1, <1>2, <1>3, <2>1, LastGeneration DEF RotationFits, Generations, Scopes!TaskIds
<1> QED
  BY <1>1, <1>4, <1>5, NothingChanges DEF ScopeInv

LEMMA RotateKeepsScope == ScopeInv /\ Scopes!Rotate => ScopeInv' /\ Contains
<1> SUFFICES ASSUME ScopeInv, Scopes!Rotate PROVE ScopeInv' /\ Contains
  OBVIOUS
<1>1. BoardFits /\ DOMAIN world = TurnFields /\ RotationFits
  BY DEF ScopeInv, BoardFits
<1>2. /\ UNCHANGED <<board, repoDir, holder>> /\ DOMAIN world' = TurnFields /\ world'.notes = world.notes
      /\ call' \in {call, [c \in Callers |-> Scopes!NoCall]}
  <2>1. CASE \E tokens, next : Scopes!Rewrite(tokens, next)
    BY <1>1, <2>1 DEF Scopes!Rewrite, TurnFields
  <2>2. CASE \E next : Scopes!Restarted(next)
    BY <1>1, <2>2 DEF Scopes!Restarted, TurnFields
  <2> QED
    BY <2>1, <2>2 DEF Scopes!Rotate
<1>3. BoardFits'
  BY <1>1, <1>2 DEF ScopeInv, BoardFits, RowFits, Scopes!TaskIds, Scopes!Born
<1>4. \A c \in Callers : CallFits(c)'
  BY <1>1, <1>2 DEF ScopeInv, CallFits, Scopes!NoCall, Scopes!TaskIds, Scopes!Born
<1>5. RotationFits'
  <2>1. CASE world.rotation = "start" /\ Scopes!Rewrite(Append(tokenFile, Scopes!LastOf(tokenFile) + 1), "appended")
    <3>1. tokenFile = <<1>> /\ Scopes!LastOf(tokenFile) = 1
      BY <1>1, <2>1, LastGeneration DEF RotationFits, Generations
    <3>2. Append(<<1>>, 1 + 1) = <<1, 2>>
      <4> DEFINE tokens == Append(<<1>>, 2)
      <4>1. <<1>> \in Seq(Nat) /\ Len(<<1>>) = 1 /\ <<1>>[1] = 1
        OBVIOUS
      <4>2. tokens \in Seq(Nat) /\ Len(tokens) = 2 /\ tokens[1] = 1 /\ tokens[2] = 2
        BY <4>1
      <4> HIDE DEF tokens
      <4>3. tokens = <<1, 2>>
        BY <4>2
      <4>4. 1 + 1 = 2
        OBVIOUS
      <4> QED
        BY <4>3, <4>4, Zenon DEF tokens
    <3>3. tokenFile' = <<1, 2>> /\ active' = active
      BY <2>1, <3>1, <3>2, Zenon DEF Scopes!Rewrite
    <3>4. world'.rotation = "appended"
      BY <1>1, <2>1 DEF Scopes!Rewrite, TurnFields
    <3> QED
      BY <1>1, <1>2, <2>1, <3>3, <3>4 DEF RotationFits, Generations, Scopes!TaskIds
  <2>2. CASE world.rotation = "appended" /\ Scopes!Restarted("respawn")
    <3>1. tokenFile = <<1, 2>>
      BY <1>1, <2>2 DEF RotationFits, Generations
    <3>2. active' = {1, 2} /\ tokenFile' = tokenFile
      BY <2>2, <3>1 DEF Scopes!Restarted
    <3>3. world'.rotation = "respawn" /\ world'.old = {t \in Scopes!TaskIds : holder[t] # 0}
      BY <1>1, <2>2 DEF Scopes!Restarted, TurnFields
    <3> QED
      BY <1>1, <1>2, <2>2, <3>1, <3>2, <3>3 DEF RotationFits, Generations, Scopes!TaskIds
  <2>3. CASE /\ world.rotation = "respawn" /\ world.old = {}
             /\ Scopes!Rewrite(<<Scopes!LastOf(tokenFile)>>, "removed")
    <3>1. tokenFile = <<1, 2>> /\ Scopes!LastOf(tokenFile) = 2
      BY <1>1, <2>3, LastGeneration DEF RotationFits, Generations
    <3>2. tokenFile' = <<2>> /\ world'.rotation = "removed" /\ active' = active
      BY <1>1, <2>3, <3>1 DEF Scopes!Rewrite, TurnFields
    <3> QED
      BY <1>1, <1>2, <2>3, <3>2 DEF RotationFits, Generations, Scopes!TaskIds
  <2>4. CASE world.rotation = "removed" /\ Scopes!Restarted("done")
    <3>1. tokenFile = <<2>>
      BY <1>1, <2>4 DEF RotationFits, Generations
    <3>2. active' = {2} /\ tokenFile' = tokenFile
      BY <2>4, <3>1 DEF Scopes!Restarted
    <3>3. world'.rotation = "done"
      BY <1>1, <2>4 DEF Scopes!Restarted, TurnFields
    <3> QED
      BY <1>1, <1>2, <2>4, <3>1, <3>2, <3>3 DEF RotationFits, Generations, Scopes!TaskIds
  <2> QED
    BY <2>1, <2>2, <2>3, <2>4 DEF Scopes!Rotate
<1> QED
  BY <1>2, <1>3, <1>4, <1>5, NothingChanges DEF ScopeInv

-----------------------------------------------------------------------------
(* An agent's own subtree *)

LEMMA ScopeKeeps == ScopeInv /\ Scopes!Next => ScopeInv' /\ Contains
<1> SUFFICES ASSUME ScopeInv, Scopes!Next PROVE ScopeInv' /\ Contains
  OBVIOUS
<1>1. CASE \E c \in Callers, s \in Scopes!TaskIds, ask \in Scopes!Asks : Scopes!authenticate(c, s, ask)
  BY <1>1, AuthenticateKeepsScope
<1>2. CASE \E c \in Callers : Scopes!Act(c)
  BY <1>2, ActKeepsScope
<1>3. CASE \E c \in Callers, u \in Scopes!TaskIds : Scopes!create_task_as(c, u)
  BY <1>3, CreateKeepsScope
<1>4. CASE \E t \in Scopes!TaskIds : Scopes!snapshot_task_capability(t)
  BY <1>4, SnapshotKeepsScope
<1>5. CASE \E t \in Scopes!TaskIds, g \in Scopes!TaskIds \cup {Nil} : Scopes!set_governor(t, g)
  BY <1>5, GovernorKeepsScope
<1>6. CASE Scopes!Rotate
  BY <1>6, RotateKeepsScope
<1> QED
  BY <1>1, <1>2, <1>3, <1>4, <1>5, <1>6 DEF Scopes!Next

LEMMA ScopeStep ==
  ASSUME ScopeInv, [BookNext]_vars
  PROVE  ScopeInv' /\ (UNCHANGED scopeVars \/ Contains)
<1>1. CASE Scopes!Next
  BY <1>1, ScopeKeeps
<1>2. CASE UNCHANGED scopeVars
  BY <1>2, ScopeRests
<1> QED
  BY <1>1, <1>2 DEF BookNext, vars

(* What the invariant says of types, listings and the capabilities in use.    *)
LEMMA ScopePromises ==
  ScopeInv => Scopes!TypeOK /\ Scopes!ListAgreesWithReads /\ Scopes!LiveAgentsAreKnown
<1> SUFFICES ASSUME ScopeInv
             PROVE  Scopes!TypeOK /\ Scopes!ListAgreesWithReads /\ Scopes!LiveAgentsAreKnown
  OBVIOUS
<1>1. Scopes!TypeOK
  BY DEF ScopeInv, BoardFits, RowFits, CallFits, RotationFits, Generations, Scopes!TypeOK
<1>2. Scopes!ListAgreesWithReads
  <2> SUFFICES ASSUME NEW s \in Scopes!Born
               PROVE  Scopes!list_tasks(s) = {t \in Scopes!TaskIds : LET r == Scopes!_target(s, t)
                        IN r.relation = "self" \/ (r.relation = "governed" /\ r.orchestrates)}
    BY DEF Scopes!ListAgreesWithReads
  <2>1. Scopes!Closure(s) = {t \in Scopes!Born : t = s \/ Scopes!Reaches(t, s)}
    BY ListingIsReach DEF ScopeInv, BoardFits
  <2> QED
    BY <2>1 DEF Scopes!list_tasks, Scopes!_target, Scopes!Born
<1>3. Scopes!LiveAgentsAreKnown
  BY LastGeneration DEF ScopeInv, RotationFits, Generations, Scopes!LiveAgentsAreKnown
<1> QED
  BY <1>1, <1>2, <1>3

(* Whatever calls, governors, births and a rotation overlap, an agent lists   *)
(* exactly the tasks it may read, changes only its own subtree, which holds   *)
(* the repository it writes to and the tasks it makes an existing task wait   *)
(* for, and keeps its access; only the dependencies of a task it creates may  *)
(* lie outside (taskservice/auth_scope.py, api.py, mcp.py).                   *)
THEOREM AgentsAreContained == Spec => Containment
<1>1. BookInit => ScopeInv
  BY ScopeStarts DEF BookInit
<1>2. ScopeInv /\ [BookNext]_vars => ScopeInv'
  BY ScopeStep
<1>3. ScopeInv /\ [BookNext]_vars => [InScope]_(Scopes!authorityVars)
  BY ScopeStep DEF Contains, scopeVars, Scopes!authorityVars
<1>4. ScopeInv /\ [BookNext]_vars => [OwnMoves]_(Scopes!authorityVars)
  BY ScopeStep DEF Contains, scopeVars, Scopes!authorityVars
<1>5. ScopeInv /\ [BookNext]_vars => [OwnDependencies]_(Scopes!authorityVars)
  BY ScopeStep DEF Contains, scopeVars, Scopes!authorityVars
<1>6. ScopeInv => Scopes!TypeOK /\ Scopes!ListAgreesWithReads /\ Scopes!LiveAgentsAreKnown
  BY ScopePromises
<1> QED
  BY <1>1, <1>2, <1>3, <1>4, <1>5, <1>6, PTL DEF Spec, Containment, Scopes!Containment,
     Scopes!Contained, Scopes!OnlyOwnStateMoves, Scopes!DependenciesStayInScope,
     InScope, OwnMoves, OwnDependencies

-----------------------------------------------------------------------------
(* Texts and tokens *)

(* A set of numbers with a bound has a greatest one.                          *)
LEMMA Greatest ==
  ASSUME NEW A, A \subseteq Nat, A # {}, NEW b \in Nat, \A x \in A : x <= b
  PROVE  Hidden!Max(A) \in A /\ \A x \in A : Hidden!Max(A) >= x
<1> DEFINE N == {n \in Nat : \E x \in A : x + n = b}
<1>1. N \subseteq Nat /\ N # {}
  <2>1. PICK x \in A : TRUE
    OBVIOUS
  <2>2. b - x \in Nat /\ x + (b - x) = b
    BY <2>1
  <2> QED
    BY <2>1, <2>2
<1>2. PICK n \in N : \A m \in N : ~(m < n)
  BY <1>1, Least
<1>3. PICK x \in A : x + n = b
  OBVIOUS
<1>4. ASSUME NEW y \in A PROVE x >= y
  <2>1. b - y \in N
    OBVIOUS
  <2> QED
    BY <1>2, <1>3, <2>1
<1>5. \E z \in A : \A y \in A : z >= y
  BY <1>4
<1> QED
  BY <1>5, Zenon DEF Hidden!Max

LEMMA Prefixes ==
  ASSUME NEW S, NEW s \in Seq(S), NEW t \in Seq(S)
  PROVE  Hidden!IsPrefix(s, t) <=> Len(s) <= Len(t) /\ \A k \in 1 .. Len(s) : s[k] = t[k]
<1> DEFINE a == SubSeq(s, 1, Len(s)) b == SubSeq(t, 1, Len(s))
<1>1. CASE Len(s) <= Len(t)
  <2>1. /\ DOMAIN a = 1 .. Len(s) /\ \A k \in 1 .. Len(s) : a[k] = s[k]
        /\ DOMAIN b = 1 .. Len(s) /\ \A k \in 1 .. Len(s) : b[k] = t[k]
        /\ a = [k \in DOMAIN a |-> a[k]] /\ b = [k \in DOMAIN b |-> b[k]]
    BY <1>1
  <2> HIDE DEF a, b
  <2>2. a = b <=> \A k \in 1 .. Len(s) : s[k] = t[k]
    BY <2>1
  <2> QED
    BY <1>1, <2>2 DEF Hidden!IsPrefix, a, b
<1> QED
  BY <1>1 DEF Hidden!IsPrefix

LEMMA Suffixes ==
  ASSUME NEW S, NEW s \in Seq(S), NEW t \in Seq(S)
  PROVE  Hidden!IsSuffix(s, t) <=>
           Len(s) <= Len(t) /\ \A k \in 1 .. Len(s) : s[k] = t[Len(t) - Len(s) + k]
<1> DEFINE a == Hidden!Reverse(s) b == Hidden!Reverse(t)
<1>1. /\ a \in Seq(S) /\ Len(a) = Len(s) /\ \A k \in 1 .. Len(s) : a[k] = s[Len(s) - k + 1]
      /\ b \in Seq(S) /\ Len(b) = Len(t) /\ \A k \in 1 .. Len(t) : b[k] = t[Len(t) - k + 1]
  BY DEF Hidden!Reverse
<1> HIDE DEF a, b
<1>2. Hidden!IsPrefix(a, b) <=> Len(s) <= Len(t) /\ \A k \in 1 .. Len(s) : a[k] = b[k]
  <2> DEFINE Agree(x, y) == Len(x) <= Len(y) /\ \A k \in 1 .. Len(x) : x[k] = y[k]
  <2>1. a \in Seq(S) /\ b \in Seq(S) /\ Len(a) = Len(s) /\ Len(b) = Len(t)
    BY <1>1, Zenon
  <2>2. ASSUME NEW x \in Seq(S), NEW y \in Seq(S)
        PROVE  Hidden!IsPrefix(x, y) <=> Agree(x, y)
    BY Prefixes
  <2> HIDE DEF Agree
  <2>3. Hidden!IsPrefix(a, b) <=> Agree(a, b)
    BY <2>1, <2>2
  <2> QED
    BY <2>1, <2>3, Zenon DEF Agree
<1>3. ASSUME Len(s) <= Len(t)
      PROVE  (\A k \in 1 .. Len(s) : a[k] = b[k]) <=> \A k \in 1 .. Len(s) : s[k] = t[Len(t) - Len(s) + k]
  <2>1. ASSUME \A k \in 1 .. Len(s) : a[k] = b[k], NEW k \in 1 .. Len(s)
        PROVE  s[k] = t[Len(t) - Len(s) + k]
    <3> DEFINE j == Len(s) - k + 1
    <3>1. j \in 1 .. Len(s) /\ j \in 1 .. Len(t) /\ Len(s) - j + 1 = k
          /\ Len(t) - j + 1 = Len(t) - Len(s) + k
      BY <1>3
    <3> HIDE DEF j
    <3> QED
      BY <1>1, <2>1, <3>1
  <2>2. ASSUME \A k \in 1 .. Len(s) : s[k] = t[Len(t) - Len(s) + k], NEW k \in 1 .. Len(s)
        PROVE  a[k] = b[k]
    <3> DEFINE j == Len(s) - k + 1
    <3>1. j \in 1 .. Len(s) /\ k \in 1 .. Len(t) /\ Len(t) - Len(s) + j = Len(t) - k + 1
      BY <1>3
    <3>2. s[j] = t[Len(t) - Len(s) + j]
      BY <2>2, <3>1
    <3> QED
      BY <1>1, <3>1, <3>2
  <2> QED
    BY <2>1, <2>2
<1> QED
  BY <1>2, <1>3 DEF Hidden!IsSuffix, a, b

LEMMA TokenIsWord == ASSUME NEW token \in Tokens PROVE token \in Seq(Letters) /\ Len(token) \in Nat \ {0}
<1>1. token \in Seq(Letters) /\ token # <<>>
  BY TokensAssumption DEF TokensAdmitted
<1> QED
  BY <1>1

(* A token stands at a place.                                                 *)
Stands(token, x, i) ==
  i + Len(token) - 1 <= Len(x) /\ \A k \in 1 .. Len(token) : token[k] = x[i + k - 1]

LEMMA AtStands ==
  ASSUME NEW x \in Seq(Letters), NEW i \in 1 .. Len(x)
  PROVE  Hidden!At(x, i) = {token \in Tokens : Stands(token, x, i)}
<1> SUFFICES ASSUME NEW token \in Tokens
             PROVE  Hidden!IsPrefix(token, SubSeq(x, i, Len(x))) <=> Stands(token, x, i)
  BY DEF Hidden!At
<1> DEFINE rest == SubSeq(x, i, Len(x))
<1>1. rest \in Seq(Letters) /\ Len(rest) = Len(x) - i + 1 /\ \A k \in 1 .. Len(rest) : rest[k] = x[i + k - 1]
  OBVIOUS
<1>2. token \in Seq(Letters) /\ Len(token) \in Nat
  BY TokenIsWord
<1> HIDE DEF rest
<1>3. Hidden!IsPrefix(token, rest) <=> Len(token) <= Len(rest) /\ \A k \in 1 .. Len(token) : token[k] = rest[k]
  BY <1>1, <1>2, Prefixes
<1>4. (Len(token) <= Len(rest) /\ \A k \in 1 .. Len(token) : token[k] = rest[k]) <=> Stands(token, x, i)
  BY <1>1, <1>2 DEF Stands
<1> QED
  BY <1>3, <1>4 DEF rest

(* Where a scan goes on after a place, and what it writes for it.             *)
Jump(x, i) == IF Hidden!At(x, i) # {} THEN Hidden!Longest(x, i) ELSE 1
Mark(x, i) == IF Hidden!At(x, i) # {} THEN Hidden!Marker ELSE x[i]
Signs == Letters \cup {Hidden!Marker}

LEMMA JumpStays ==
  ASSUME NEW x \in Seq(Letters), NEW i \in 1 .. Len(x)
  PROVE  i + Jump(x, i) \in i + 1 .. Len(x) + 1 /\ Jump(x, i) \in Nat /\ Mark(x, i) \in Signs
<1>1. CASE Hidden!At(x, i) # {}
  <2> DEFINE A == {Len(token) : token \in Hidden!At(x, i)}
  <2>1. \A token \in Hidden!At(x, i) : Len(token) \in Nat \ {0} /\ i + Len(token) - 1 <= Len(x)
    BY AtStands, TokenIsWord DEF Stands
  <2>2. A # {} /\ \A n \in A : n \in Nat \ {0} /\ i + n - 1 <= Len(x)
    BY <1>1, <2>1, Zenon
  <2>3. Len(x) - i + 1 \in Nat
    OBVIOUS
  <2>4. Hidden!Longest(x, i) = Hidden!Max(A)
    BY DEF Hidden!Longest
  <2> HIDE DEF A
  <2>5. A \subseteq Nat /\ \A n \in A : n <= Len(x) - i + 1
    BY <2>2
  <2>6. Hidden!Longest(x, i) \in A
    BY <2>2, <2>3, <2>4, <2>5, Greatest
  <2>7. Jump(x, i) \in Nat \ {0} /\ i + Jump(x, i) - 1 <= Len(x)
    BY <1>1, <2>2, <2>6 DEF Jump
  <2>8. i + Jump(x, i) \in i + 1 .. Len(x) + 1
    BY <2>7
  <2> QED
    BY <1>1, <2>7, <2>8 DEF Mark, Signs
<1>2. CASE Hidden!At(x, i) = {}
  BY <1>2 DEF Jump, Mark, Signs
<1> QED
  BY <1>1, <1>2

(* What is kept back is the longest end that begins a token.                  *)
EndsAs(data, n) == \E token \in Tokens : n < Len(token) /\ Hidden!IsSuffix(SubSeq(token, 1, n), data)

LEMMA HeldIsLongest ==
  ASSUME NEW data \in Seq(Letters)
  PROVE  /\ Hidden!HeldBack(data) \in 0 .. Len(data)
         /\ Hidden!HeldBack(data) # 0 => EndsAs(data, Hidden!HeldBack(data))
         /\ \A n \in 1 .. Len(data) : EndsAs(data, n) => n <= Hidden!HeldBack(data)
<1> DEFINE A == {0} \cup {n \in 1 .. Len(data) : EndsAs(data, n)}
<1>1. A \subseteq Nat /\ A # {} /\ (\A n \in A : n <= Len(data)) /\ Len(data) \in Nat
  OBVIOUS
<1>2. \A n \in A : n # 0 => EndsAs(data, n)
  OBVIOUS
<1>3. \A n \in 1 .. Len(data) : EndsAs(data, n) => n \in A
  OBVIOUS
<1>4. Hidden!HeldBack(data) = Hidden!Max(A)
  BY DEF Hidden!HeldBack, EndsAs
<1> HIDE DEF A
<1> DEFINE h == Hidden!HeldBack(data)
<1>5. h \in A /\ \A n \in A : h >= n
  BY <1>1, <1>4, Greatest
<1> HIDE DEF h
<1>6. h \in 0 .. Len(data) /\ (h # 0 => EndsAs(data, h)) /\ \A n \in 1 .. Len(data) : EndsAs(data, n) => n <= h
  BY <1>1, <1>2, <1>3, <1>5
<1> QED
  BY <1>6 DEF h

(* Induction from the end of a text to its beginning.                         *)
LEMMA Backwards ==
  ASSUME NEW L \in Nat, NEW A, \A i \in 1 .. L + 1 : (\A j \in i + 1 .. L + 1 : j \in A) => i \in A
  PROVE  \A i \in 1 .. L + 1 : i \in A
<1> SUFFICES ASSUME NEW i \in 1 .. L + 1, i \notin A PROVE FALSE
  OBVIOUS
<1> DEFINE N == {n \in Nat : \E j \in 1 .. L + 1 : j + n = L + 1 /\ j \notin A}
<1>1. L + 1 - i \in N
  OBVIOUS
<1>2. PICK n \in N : \A m \in N : ~(m < n)
  <2>1. N \subseteq Nat /\ N # {}
    BY <1>1
  <2> HIDE DEF N
  <2> QED
    BY <2>1, Least
<1>3. PICK j \in 1 .. L + 1 : j + n = L + 1 /\ j \notin A
  BY <1>2
<1>4. n \in Nat
  BY <1>2
<1>5. ASSUME NEW k \in j + 1 .. L + 1 PROVE k \in A
  <2> DEFINE m == L + 1 - k
  <2>1. m \in Nat /\ k + m = L + 1 /\ k \in 1 .. L + 1 /\ m < n
    BY <1>3, <1>4, <1>5
  <2> HIDE DEF m
  <2>2. k \notin A => m \in N
    BY <2>1
  <2> HIDE DEF N
  <2> QED
    BY <1>2, <2>1, <2>2, Zenon
<1> HIDE DEF N
<1>6. \A k \in j + 1 .. L + 1 : k \in A
  BY <1>5
<1> QED
  BY <1>3, <1>6

(* A function on the places of a text, each of whose values depends on those  *)
(* further on.                                                                *)
Narrows(F, L, V) ==
  /\ L \in Nat /\ V # {} /\ F \in [[1 .. L + 1 -> V] -> [1 .. L + 1 -> V]]
  /\ \A g, h \in [1 .. L + 1 -> V] : \A i \in 1 .. L + 1 :
       (\A j \in i + 1 .. L + 1 : g[j] = h[j]) => F[g][i] = F[h][i]

LEMMA Fixpoint ==
  ASSUME NEW L, NEW V, NEW F, Narrows(F, L, V)
  PROVE  \E g : g \in [1 .. L + 1 -> V] /\ g = F[g]
<1>0. L \in Nat /\ V # {}
  BY DEF Narrows
<1> PICK v \in V : TRUE
  BY <1>0
<1> USE <1>0
<1> DEFINE D == 1 .. L + 1 S == [D -> V] start == [i \in D |-> v]
<1>1. start \in S /\ F \in [S -> S]
  BY DEF Narrows
<1>2. PICK h : Repeats(h, S, start, F)
  <2> HIDE DEF S, start
  <2> QED
    BY <1>1, Iterates
<1>3. \A n \in Nat : h[n] \in S /\ h[n + 1] = F[h[n]]
  <2> HIDE DEF S, start
  <2> QED
    BY <1>2 DEF Repeats
<1> DEFINE A == {n \in Nat : \A i \in D : i + n >= L + 2 => h[n + 1][i] = h[n][i]}
<1>4. 0 \in A
  OBVIOUS
<1>5. ASSUME NEW n \in A \cap Nat PROVE n + 1 \in A
  <2> SUFFICES ASSUME NEW i \in D, i + (n + 1) >= L + 2 PROVE h[(n + 1) + 1][i] = h[n + 1][i]
    OBVIOUS
  <2> DEFINE old == h[n] new == h[n + 1]
  <2>1. old \in S /\ new \in S /\ h[(n + 1) + 1] = F[new] /\ new = F[old]
    <3>1. n \in Nat /\ n + 1 \in Nat
      OBVIOUS
    <3> HIDE DEF S
    <3> QED
      BY <1>3, <3>1
  <2>2. \A j \in i + 1 .. L + 1 : new[j] = old[j]
    OBVIOUS
  <2> HIDE DEF old, new
  <2>3. F[new][i] = F[old][i]
    BY <2>1, <2>2 DEF Narrows
  <2>4. F[new][i] = new[i]
    BY <2>1, <2>3
  <2> QED
    BY <2>1, <2>4 DEF new
<1>6. L + 1 \in A
  <2> HIDE DEF A
  <2> QED
    BY <1>4, <1>5, Inductive
<1> DEFINE g == h[L + 1]
<1>7. g \in S /\ h[(L + 1) + 1] = F[g]
  <2>1. L + 1 \in Nat
    OBVIOUS
  <2> HIDE DEF S
  <2> QED
    BY <1>3, <2>1
<1>8. \A i \in D : g[i] = F[g][i]
  <2>1. \A i \in D : i + (L + 1) >= L + 2
    OBVIOUS
  <2>2. \A i \in D : h[(L + 1) + 1][i] = h[L + 1][i]
    BY <1>6, <2>1
  <2> QED
    BY <1>7, <2>2
<1>9. g = F[g]
  <2>1. F[g] \in S
    <3> HIDE DEF S, g
    <3> QED
      BY <1>1, <1>7
  <2> HIDE DEF g
  <2> QED
    BY <1>7, <1>8, <2>1
<1> QED
  BY <1>7, <1>9

-----------------------------------------------------------------------------
(* The text redacted as a whole, and a chunk of it *)

Whole(x) ==
  CHOOSE from : from = [i \in 1 .. Len(x) + 1 |->
    IF i > Len(x) THEN <<>>
    ELSE IF Hidden!At(x, i) # {} THEN <<Hidden!Marker>> \o from[i + Hidden!Longest(x, i)]
    ELSE <<x[i]>> \o from[i + 1]]

LEMMA WholeReads ==
  ASSUME NEW x \in Seq(Letters)
  PROVE  /\ Hidden!Redacted(x) = Whole(x)[1]
         /\ Whole(x) \in [1 .. Len(x) + 1 -> Seq(Signs)]
         /\ Whole(x)[Len(x) + 1] = <<>>
         /\ \A i \in 1 .. Len(x) : Whole(x)[i] = <<Mark(x, i)>> \o Whole(x)[i + Jump(x, i)]
<1> DEFINE L == Len(x) V == Seq(Signs)
           Round(g) == [i \in 1 .. Len(x) + 1 |->
             IF i > Len(x) THEN <<>>
             ELSE IF Hidden!At(x, i) # {} THEN <<Hidden!Marker>> \o g[i + Hidden!Longest(x, i)]
             ELSE <<x[i]>> \o g[i + 1]]
           Step(g) == [i \in 1 .. L + 1 |->
             IF i > L THEN <<>> ELSE <<Mark(x, i)>> \o g[i + Jump(x, i)]]
           F == [g \in [1 .. L + 1 -> V] |-> Step(g)]
<1>1. ASSUME NEW g PROVE Round(g) = Step(g)
  <2>1. ASSUME NEW i \in 1 .. L + 1
        PROVE  (IF i > Len(x) THEN <<>>
                ELSE IF Hidden!At(x, i) # {} THEN <<Hidden!Marker>> \o g[i + Hidden!Longest(x, i)]
                ELSE <<x[i]>> \o g[i + 1])
               = IF i > L THEN <<>> ELSE <<Mark(x, i)>> \o g[i + Jump(x, i)]
    BY DEF Mark, Jump
  <2> QED
    BY <2>1, Zenon
<1>2. ASSUME NEW g \in [1 .. L + 1 -> V] PROVE Step(g) \in [1 .. L + 1 -> V]
  <2>1. ASSUME NEW i \in 1 .. L
        PROVE  <<Mark(x, i)>> \o g[i + Jump(x, i)] \in V
    <3>1. Mark(x, i) \in Signs /\ i + Jump(x, i) \in 1 .. L + 1
      BY JumpStays
    <3>2. <<Mark(x, i)>> \in V /\ g[i + Jump(x, i)] \in V
      BY <3>1
    <3> QED
      BY <3>2
  <2>2. <<>> \in V
    OBVIOUS
  <2> HIDE DEF V
  <2> QED
    BY <2>1, <2>2
<1>3. Narrows(F, L, V)
  <2>1. F \in [[1 .. L + 1 -> V] -> [1 .. L + 1 -> V]]
    <3> HIDE DEF V, Step
    <3> QED
      BY <1>2
  <2>2. ASSUME NEW g \in [1 .. L + 1 -> V], NEW h \in [1 .. L + 1 -> V], NEW i \in 1 .. L + 1,
               \A j \in i + 1 .. L + 1 : g[j] = h[j]
        PROVE  F[g][i] = F[h][i]
    <3>1. i <= L => i + Jump(x, i) \in i + 1 .. L + 1
      BY JumpStays
    <3>2. Step(g)[i] = Step(h)[i]
      BY <2>2, <3>1
    <3>3. F[g] = Step(g) /\ F[h] = Step(h)
      BY Zenon
    <3> HIDE DEF Step, F
    <3> QED
      BY <3>2, <3>3
  <2>3. L \in Nat /\ <<>> \in V
    OBVIOUS
  <2> HIDE DEF L, V, F
  <2> QED
    BY <2>1, <2>2, <2>3 DEF Narrows
<1>4. PICK g : g \in [1 .. L + 1 -> V] /\ g = F[g]
  <2> HIDE DEF L, V, F
  <2> QED
    BY <1>3, Fixpoint
<1>5. g = Round(g)
  BY <1>1, <1>4, Zenon
<1>6. Whole(x) = Round(Whole(x))
  <2> HIDE DEF V, F, Step
  <2> QED
    BY <1>5, Zenon DEF Whole
<1>7. Whole(x) = Step(Whole(x))
  BY <1>1, <1>6, Zenon
<1> DEFINE w == Whole(x)
<1>8. \A i \in 1 .. L + 1 : w[i] = IF i > L THEN <<>> ELSE <<Mark(x, i)>> \o w[i + Jump(x, i)]
  BY <1>7
<1>9. DOMAIN w = 1 .. L + 1 /\ w = [i \in 1 .. L + 1 |-> w[i]]
  <2> HIDE DEF w
  <2> QED
    BY <1>7 DEF w
<1> HIDE DEF w
<1> DEFINE Next(i) == <<Mark(x, i)>> \o w[i + Jump(x, i)]
<1>10. L \in Nat /\ <<>> \in V
  OBVIOUS
<1>11. w[L + 1] = <<>> /\ \A i \in 1 .. L : w[i] = Next(i)
  <2>1. L + 1 \in 1 .. L + 1 /\ L + 1 > L /\ \A i \in 1 .. L : i \in 1 .. L + 1 /\ ~(i > L)
    BY <1>10
  <2> HIDE DEF L, V
  <2> QED
    BY <1>8, <2>1, Zenon DEF Next
<1>12. \A i \in 1 .. L + 1 : w[i] \in V
  <2> DEFINE A == {i \in 1 .. L + 1 : w[i] \in V}
  <2>1. ASSUME NEW i \in 1 .. L + 1, \A j \in i + 1 .. L + 1 : j \in A PROVE i \in A
    <3>1. CASE i = L + 1
      <4> HIDE DEF L, V, Next
      <4> QED
        BY <1>10, <1>11, <3>1
    <3>2. CASE i # L + 1
      <4>1. Mark(x, i) \in Signs /\ i + Jump(x, i) \in i + 1 .. L + 1 /\ i \in 1 .. L
        BY <3>2, JumpStays
      <4>2. w[i + Jump(x, i)] \in V /\ <<Mark(x, i)>> \in V
        BY <2>1, <4>1
      <4>3. Next(i) \in V
        BY <4>2
      <4> HIDE DEF L, V, Next
      <4> QED
        BY <1>11, <4>1, <4>3
    <3> QED
      BY <3>1, <3>2
  <2> HIDE DEF A, L, V
  <2>2. \A i \in 1 .. L + 1 : i \in A
    BY <1>10, <2>1, Backwards
  <2> QED
    BY <2>2 DEF A
<1>13. Hidden!Redacted(x) = w[1]
  BY DEF Hidden!Redacted, Whole, w
<1> HIDE DEF V
<1> QED
  BY <1>9, <1>11, <1>12, <1>13, Zenon DEF w, V

(* A chunk up to the part that is kept back.                                  *)
Scan(data, safe) ==
  CHOOSE scan : scan = [i \in 1 .. Len(data) + 1 |->
    IF i > safe THEN [output |-> <<>>, rest |-> SubSeq(data, i, Len(data))]
    ELSE LET hit == Hidden!At(data, i) # {}
             after == scan[i + IF hit THEN Hidden!Longest(data, i) ELSE 1]
         IN [after EXCEPT !.output = <<IF hit THEN Hidden!Marker ELSE data[i]>> \o @]]

Results == [output : Seq(Signs), rest : Seq(Letters)]
Stop(data, i) == [output |-> <<>>, rest |-> SubSeq(data, i, Len(data))]
Put(sign, after) == [after EXCEPT !.output = <<sign>> \o @]

LEMMA Stops ==
  ASSUME NEW data \in Seq(Letters), NEW i \in 1 .. Len(data) + 1
  PROVE  Stop(data, i) \in Results
<1>1. SubSeq(data, i, Len(data)) \in Seq(Letters) /\ <<>> \in Seq(Signs)
  OBVIOUS
<1> QED
  BY <1>1 DEF Stop, Results

LEMMA Puts ==
  ASSUME NEW sign \in Signs, NEW after \in Results
  PROVE  /\ Put(sign, after) \in Results /\ Put(sign, after).output = <<sign>> \o after.output
         /\ Put(sign, after).rest = after.rest
<1>1. after.output \in Seq(Signs) /\ <<sign>> \in Seq(Signs)
  BY DEF Results
<1>2. <<sign>> \o after.output \in Seq(Signs)
  BY <1>1
<1> QED
  BY <1>2 DEF Put, Results

LEMMA ScanReads ==
  ASSUME NEW data \in Seq(Letters), NEW safe \in 0 .. Len(data)
  PROVE  \A i \in 1 .. Len(data) + 1 : Scan(data, safe)[i] =
           IF i > safe THEN Stop(data, i)
           ELSE Put(Mark(data, i), Scan(data, safe)[i + Jump(data, i)])
<1> DEFINE L == Len(data)
           Round(g) == [i \in 1 .. Len(data) + 1 |->
             IF i > safe THEN [output |-> <<>>, rest |-> SubSeq(data, i, Len(data))]
             ELSE LET hit == Hidden!At(data, i) # {}
                      after == g[i + IF hit THEN Hidden!Longest(data, i) ELSE 1]
                  IN [after EXCEPT !.output = <<IF hit THEN Hidden!Marker ELSE data[i]>> \o @]]
           Step(g) == [i \in 1 .. L + 1 |->
             IF i > safe THEN Stop(data, i) ELSE Put(Mark(data, i), g[i + Jump(data, i)])]
           F == [g \in [1 .. L + 1 -> Results] |-> Step(g)]
<1>1. ASSUME NEW g PROVE Round(g) = Step(g)
  BY DEF Mark, Jump, Stop, Put
<1>2. \A i \in 1 .. L : i + Jump(data, i) \in i + 1 .. L + 1 /\ Mark(data, i) \in Signs
  BY JumpStays
<1>3. L \in Nat /\ safe <= L /\ \A i \in 1 .. L + 1 : ~(i > safe) => i \in 1 .. L
  OBVIOUS
<1>4. ASSUME NEW g \in [1 .. L + 1 -> Results] PROVE Step(g) \in [1 .. L + 1 -> Results]
  <2>1. ASSUME NEW i \in 1 .. L PROVE Put(Mark(data, i), g[i + Jump(data, i)]) \in Results
    <3>1. Mark(data, i) \in Signs /\ i + Jump(data, i) \in 1 .. L + 1
      BY <1>2
    <3>2. g[i + Jump(data, i)] \in Results
      BY <3>1
    <3> QED
      BY <3>1, <3>2, Puts
  <2> HIDE DEF L
  <2> QED
    BY <1>3, <2>1, Stops DEF L
<1>5. Narrows(F, L, Results)
  <2>1. F \in [[1 .. L + 1 -> Results] -> [1 .. L + 1 -> Results]]
    <3> HIDE DEF Step
    <3> QED
      BY <1>4
  <2>2. ASSUME NEW g \in [1 .. L + 1 -> Results], NEW h \in [1 .. L + 1 -> Results],
               NEW i \in 1 .. L + 1, \A j \in i + 1 .. L + 1 : g[j] = h[j]
        PROVE  F[g][i] = F[h][i]
    <3>1. ~(i > safe) => i + Jump(data, i) \in i + 1 .. L + 1
      BY <1>2, <1>3
    <3>2. Step(g)[i] = Step(h)[i]
      BY <2>2, <3>1
    <3>3. F[g] = Step(g) /\ F[h] = Step(h)
      BY Zenon
    <3> HIDE DEF Step, F
    <3> QED
      BY <3>2, <3>3
  <2>3. L \in Nat /\ Stop(data, 1) \in Results
    BY Stops
  <2> HIDE DEF F, L
  <2> QED
    BY <2>1, <2>2, <2>3 DEF Narrows
<1>6. PICK g : g \in [1 .. L + 1 -> Results] /\ g = F[g]
  <2> HIDE DEF L, F
  <2> QED
    BY <1>5, Fixpoint
<1>7. g = Round(g)
  BY <1>1, <1>6, Zenon
<1>8. Scan(data, safe) = Round(Scan(data, safe))
  <2> HIDE DEF F, Step
  <2> QED
    BY <1>7, Zenon DEF Scan
<1>9. Scan(data, safe) = Step(Scan(data, safe))
  BY <1>1, <1>8, Zenon
<1> DEFINE s == Scan(data, safe)
<1> HIDE DEF s
<1>10. s = Step(s)
  BY <1>9 DEF s
<1>11. \A i \in 1 .. L + 1 : Step(s)[i] = IF i > safe THEN Stop(data, i)
                                          ELSE Put(Mark(data, i), s[i + Jump(data, i)])
  BY Zenon
<1> QED
  BY <1>10, <1>11, Zenon DEF s

-----------------------------------------------------------------------------
(* Chunk by chunk *)

(* What a chunk knows of the whole: a token that begins before the part kept  *)
(* back ends within the chunk.                                                *)
Chunk(x, p, n) == SubSeq(x, p + 1, n)
Safe(x, p, n) == Len(Chunk(x, p, n)) - IF n < Len(x) THEN Hidden!HeldBack(Chunk(x, p, n)) ELSE 0

LEMMA ChunkLetters ==
  ASSUME NEW x \in Seq(Letters), NEW n \in 0 .. Len(x), NEW p \in 0 .. n
  PROVE  /\ Chunk(x, p, n) \in Seq(Letters) /\ Len(Chunk(x, p, n)) = n - p
         /\ \A k \in 1 .. n - p : Chunk(x, p, n)[k] = x[p + k]
         /\ Safe(x, p, n) \in 0 .. n - p
<1>1. /\ Chunk(x, p, n) \in Seq(Letters) /\ Len(Chunk(x, p, n)) = n - p
      /\ \A k \in 1 .. n - p : Chunk(x, p, n)[k] = x[p + k]
  BY DEF Chunk
<1>2. Hidden!HeldBack(Chunk(x, p, n)) \in 0 .. n - p
  BY <1>1, HeldIsLongest
<1> QED
  BY <1>1, <1>2 DEF Safe

LEMMA SameTokens ==
  ASSUME NEW x \in Seq(Letters), NEW n \in 0 .. Len(x), NEW p \in 0 .. n,
         NEW i \in 1 .. Safe(x, p, n)
  PROVE  /\ Jump(Chunk(x, p, n), i) = Jump(x, p + i)
         /\ Mark(Chunk(x, p, n), i) = Mark(x, p + i)
         /\ p + i \in 1 .. Len(x)
<1> DEFINE data == Chunk(x, p, n)
<1>1. /\ data \in Seq(Letters) /\ Len(data) = n - p /\ \A k \in 1 .. n - p : data[k] = x[p + k]
      /\ Safe(x, p, n) \in 0 .. n - p
  BY ChunkLetters
<1>2. i \in 1 .. Len(data) /\ p + i \in 1 .. Len(x)
  BY <1>1
<1> HIDE DEF data
<1>3. ASSUME NEW token \in Tokens, Stands(token, data, i) PROVE Stands(token, x, p + i)
  <2>1. Len(token) \in Nat \ {0} /\ i + Len(token) - 1 <= n - p
    BY <1>1, <1>3, TokenIsWord DEF Stands
  <2>2. ASSUME NEW k \in 1 .. Len(token) PROVE token[k] = x[(p + i) + k - 1]
    <3>1. i + k - 1 \in 1 .. n - p /\ p + (i + k - 1) = (p + i) + k - 1
      BY <2>1
    <3>2. token[k] = data[i + k - 1]
      BY <1>3 DEF Stands
    <3> QED
      BY <1>1, <3>1, <3>2
  <2> QED
    BY <1>2, <2>1, <2>2 DEF Stands
<1>4. ASSUME NEW token \in Tokens, Stands(token, x, p + i), ~Stands(token, data, i) PROVE FALSE
  <2>1. token \in Seq(Letters) /\ Len(token) \in Nat \ {0} /\ (p + i) + Len(token) - 1 <= Len(x)
        /\ \A k \in 1 .. Len(token) : token[k] = x[(p + i) + k - 1]
    BY <1>4, TokenIsWord DEF Stands
  <2>2. ASSUME NEW k \in 1 .. Len(token), i + k - 1 <= n - p PROVE token[k] = data[i + k - 1]
    <3>1. i + k - 1 \in 1 .. n - p /\ p + (i + k - 1) = (p + i) + k - 1
      BY <2>1, <2>2
    <3> QED
      BY <1>1, <2>1, <3>1
  <2>3. i + Len(token) - 1 > n - p
    <3> SUFFICES ASSUME ~(i + Len(token) - 1 > n - p) PROVE FALSE
      OBVIOUS
    <3>1. i + Len(token) - 1 <= Len(data) /\ \A k \in 1 .. Len(token) : i + k - 1 <= n - p
      BY <1>1, <2>1
    <3> QED
      BY <1>4, <2>2, <3>1 DEF Stands
  <2> DEFINE m == n - p - i + 1 start == SubSeq(token, 1, m)
  <2>4. m \in 1 .. Len(data) /\ m < Len(token) /\ n < Len(x)
    BY <1>1, <1>2, <2>1, <2>3
  <2>5. start \in Seq(Letters) /\ Len(start) = m /\ \A k \in 1 .. m : start[k] = token[k]
    BY <2>1, <2>4
  <2>6. \A k \in 1 .. m : start[k] = data[Len(data) - m + k]
    <3> TAKE k \in 1 .. m
    <3>1. k \in 1 .. Len(token) /\ i + k - 1 <= n - p /\ Len(data) - m + k = i + k - 1
      BY <1>1, <2>1, <2>4
    <3> QED
      BY <2>2, <2>5, <3>1
  <2>7. Hidden!IsSuffix(start, data)
    <3> HIDE DEF start, m
    <3>1. /\ Len(start) <= Len(data)
          /\ \A k \in 1 .. Len(start) : start[k] = data[Len(data) - Len(start) + k]
      BY <2>4, <2>5, <2>6
    <3> QED
      BY <1>1, <2>5, <3>1, Suffixes
  <2>8. EndsAs(data, m)
    BY <2>4, <2>7 DEF EndsAs
  <2>9. m <= Hidden!HeldBack(data) /\ Hidden!HeldBack(data) \in Nat
    <3> HIDE DEF m
    <3> QED
      BY <1>1, <2>4, <2>8, HeldIsLongest
  <2>10. Safe(x, p, n) = n - p - Hidden!HeldBack(data)
    BY <1>1, <2>4 DEF Safe, data
  <2> QED
    BY <2>9, <2>10
<1>5. Hidden!At(data, i) = Hidden!At(x, p + i)
  BY <1>1, <1>2, <1>3, <1>4, AtStands
<1>6. data[i] = x[p + i]
  BY <1>1, <1>2
<1> QED
  BY <1>2, <1>5, <1>6 DEF Jump, Mark, Hidden!Longest, data

LEMMA Joins ==
  /\ \A S : \A s \in Seq(S) : <<>> \o s = s
  /\ \A S : \A a, b, c \in Seq(S) : (a \o b) \o c = a \o (b \o c)
<1>1. ASSUME NEW S, NEW s \in Seq(S) PROVE <<>> \o s = s
  OBVIOUS
<1>2. ASSUME NEW S, NEW a \in Seq(S), NEW b \in Seq(S), NEW c \in Seq(S)
      PROVE  (a \o b) \o c = a \o (b \o c)
  OBVIOUS
<1> QED
  BY <1>1, <1>2

LEMMA SignsJoin == \A a, b, c \in Seq(Signs) : (a \o b) \o c = a \o (b \o c)
BY Joins

(* A chunk makes of its text what the whole text makes of it, up to the place *)
(* where the next chunk goes on.                                              *)
Reads(x, p, data, safe) ==
  /\ Scan(data, safe)[1] \in Results
  /\ \E e \in 1 .. Len(data) + 1 :
       /\ e > safe /\ Scan(data, safe)[1].rest = SubSeq(data, e, Len(data))
       /\ Whole(x)[p + 1] = Scan(data, safe)[1].output \o Whole(x)[p + e]

LEMMA ChunkReads ==
  ASSUME NEW x \in Seq(Letters), NEW n \in 0 .. Len(x), NEW p \in 0 .. n
  PROVE  Reads(x, p, Chunk(x, p, n), Safe(x, p, n))
<1> SUFFICES ASSUME NEW data, data = Chunk(x, p, n), NEW safe, safe = Safe(x, p, n)
             PROVE  Reads(x, p, data, safe)
  OBVIOUS
<1> DEFINE L == Len(data) scan == Scan(data, safe) w == Whole(x)
           Goes(i, e) == /\ e \in i .. L + 1 /\ e > safe /\ scan[i].rest = SubSeq(data, e, L)
                         /\ w[p + i] = scan[i].output \o w[p + e]
           A == {i \in 1 .. L + 1 : scan[i] \in Results /\ \E e \in 1 .. L + 1 : Goes(i, e)}
<1>1. data \in Seq(Letters) /\ L = n - p /\ safe \in 0 .. L /\ L \in Nat
  <2>1. data \in Seq(Letters) /\ L = n - p /\ safe \in 0 .. n - p
    BY ChunkLetters, Zenon
  <2> HIDE DEF L
  <2> QED
    BY <2>1
<1>2. \A i \in 1 .. L + 1 : scan[i] = IF i > safe THEN Stop(data, i)
                                      ELSE Put(Mark(data, i), scan[i + Jump(data, i)])
  BY <1>1, ScanReads
<1>3. \A i \in 1 .. L + 1 : w[p + i] \in Seq(Signs)
  <2>1. w \in [1 .. Len(x) + 1 -> Seq(Signs)] /\ \A i \in 1 .. L + 1 : p + i \in 1 .. Len(x) + 1
    BY <1>1, WholeReads
  <2> QED
    BY <2>1
<1> HIDE DEF L, scan, w
<1>4. ASSUME NEW i \in 1 .. L + 1, i > safe PROVE i \in A
  <2>1. scan[i] = Stop(data, i) /\ scan[i] \in Results
    BY <1>1, <1>2, <1>4, Stops DEF L
  <2>2. scan[i].output = <<>> /\ scan[i].rest = SubSeq(data, i, L)
    BY <2>1 DEF Stop, L
  <2>3. <<>> \o w[p + i] = w[p + i]
    BY <1>3, Joins
  <2>4. Goes(i, i)
    BY <1>1, <1>4, <2>2, <2>3
  <2> QED
    BY <2>1, <2>4
<1>5. ASSUME NEW i \in 1 .. L + 1, i <= safe, \A j \in i + 1 .. L + 1 : j \in A PROVE i \in A
  <2> DEFINE j == i + Jump(data, i)
  <2>1. i \in 1 .. Safe(x, p, n) /\ i \in 1 .. L
    BY <1>1, <1>5
  <2>2. Jump(data, i) = Jump(x, p + i) /\ Mark(data, i) = Mark(x, p + i) /\ p + i \in 1 .. Len(x)
    BY <2>1, SameTokens
  <2>3. j \in i + 1 .. L + 1 /\ Jump(data, i) \in Nat /\ Mark(data, i) \in Signs
    BY <1>1, <2>1, JumpStays DEF L
  <2>4. scan[i] = Put(Mark(data, i), scan[j])
    BY <1>1, <1>2, <1>5
  <2>5. w[p + i] = <<Mark(data, i)>> \o w[p + j]
    <3>1. w[p + i] = <<Mark(x, p + i)>> \o w[(p + i) + Jump(x, p + i)]
      BY <2>2, WholeReads DEF w
    <3>2. (p + i) + Jump(data, i) = p + j
      BY <2>3
    <3> QED
      BY <2>2, <3>1, <3>2
  <2> HIDE DEF j
  <2>6. PICK e \in 1 .. L + 1 : Goes(j, e)
    BY <1>5, <2>3
  <2>7. scan[j] \in Results
    BY <1>5, <2>3
  <2>8. /\ scan[i] \in Results /\ scan[i].output = <<Mark(data, i)>> \o scan[j].output
        /\ scan[i].rest = scan[j].rest
    <3> DEFINE m == Mark(data, i) after == scan[j]
    <3>1. m \in Signs /\ after \in Results /\ scan[i] = Put(m, after)
      BY <2>3, <2>4, <2>7
    <3> HIDE DEF m, after
    <3>2. /\ Put(m, after) \in Results /\ Put(m, after).output = <<m>> \o after.output
          /\ Put(m, after).rest = after.rest
      BY <3>1, Puts
    <3>3. scan[i] \in Results /\ scan[i].output = <<m>> \o after.output /\ scan[i].rest = after.rest
      BY <3>1, <3>2, Zenon
    <3> QED
      BY <3>3, Zenon DEF m, after
  <2>9. w[p + i] = scan[i].output \o w[p + e]
    <3> DEFINE S == Seq(Signs) a == <<Mark(data, i)>> b == scan[j].output c == w[p + e]
    <3>1. a \in S /\ b \in S /\ c \in S
      BY <1>3, <2>3, <2>7 DEF Results
    <3>2. w[p + i] = a \o (b \o c) /\ scan[i].output = a \o b
      BY <2>5, <2>6, <2>8
    <3> HIDE DEF a, b, c
    <3>3. (a \o b) \o c = a \o (b \o c)
      BY <3>1, Joins
    <3> QED
      BY <3>2, <3>3 DEF c
  <2>10. Goes(i, e)
    BY <2>3, <2>6, <2>8, <2>9
  <2> QED
    BY <2>8, <2>10
<1>6. 1 \in A
  <2>1. \A i \in 1 .. L + 1 : (\A j \in i + 1 .. L + 1 : j \in A) => i \in A
    <3> HIDE DEF A
    <3> QED
      BY <1>1, <1>4, <1>5
  <2>2. 1 \in 1 .. L + 1
    BY <1>1
  <2> HIDE DEF A
  <2> QED
    BY <1>1, <2>1, <2>2, Backwards
<1> QED
  BY <1>6 DEF L, scan, w, Reads

(* What is kept of a chunk is the beginning of a token.                       *)
LEMMA KeptBegins ==
  ASSUME NEW x \in Seq(Letters), NEW n \in 0 .. Len(x), NEW p \in 0 .. n,
         NEW data, data = Chunk(x, p, n), NEW e \in 1 .. Len(data) + 1, e > Safe(x, p, n),
         NEW rest, rest = SubSeq(data, e, Len(data)), rest # <<>>
  PROVE  n < Len(x) /\ \E token \in Tokens : \E m \in 1 .. Len(token) - 1 :
                         Hidden!IsSuffix(rest, SubSeq(token, 1, m))
<1> DEFINE H == Hidden!HeldBack(data) L == Len(data)
<1>1. data \in Seq(Letters) /\ L = n - p /\ L \in Nat
  BY ChunkLetters
<1>2. e <= L
  <2>1. e > L => rest = <<>>
    BY <1>1
  <2> QED
    BY <1>1, <2>1
<1>3. /\ rest \in Seq(Letters) /\ Len(rest) = L - e + 1 /\ Len(rest) > 0
      /\ \A k \in 1 .. Len(rest) : rest[k] = data[e + k - 1]
  BY <1>1, <1>2
<1>4. H \in 0 .. L /\ (H # 0 => EndsAs(data, H))
  BY <1>1, HeldIsLongest
<1> HIDE DEF H
<1>5. n < Len(x) /\ Safe(x, p, n) = L - H
  BY <1>1, <1>2 DEF Safe, H
<1>6. H # 0 /\ Len(rest) <= H
  BY <1>1, <1>2, <1>3, <1>4, <1>5
<1>7. PICK token \in Tokens : H < Len(token) /\ Hidden!IsSuffix(SubSeq(token, 1, H), data)
  BY <1>4, <1>6 DEF EndsAs
<1> DEFINE start == SubSeq(token, 1, H)
<1>8. token \in Seq(Letters) /\ Len(token) \in Nat
  BY TokenIsWord
<1>9. start \in Seq(Letters) /\ Len(start) = H /\ \A k \in 1 .. H : start[k] = token[k]
  BY <1>4, <1>7, <1>8
<1> HIDE DEF start
<1>10. \A k \in 1 .. H : start[k] = data[L - H + k]
  <2>1. Hidden!IsSuffix(start, data)
    BY <1>7 DEF start
  <2> QED
    BY <1>1, <1>9, <2>1, Suffixes
<1>11. \A k \in 1 .. Len(rest) : rest[k] = start[Len(start) - Len(rest) + k]
  <2> TAKE k \in 1 .. Len(rest)
  <2>1. Len(start) - Len(rest) + k \in 1 .. H /\ L - H + (Len(start) - Len(rest) + k) = e + k - 1
    BY <1>1, <1>2, <1>3, <1>4, <1>6, <1>9
  <2> QED
    BY <1>3, <1>10, <2>1
<1>12. Hidden!IsSuffix(rest, start)
  <2>1. Len(rest) <= Len(start)
    BY <1>6, <1>9
  <2> QED
    BY <1>3, <1>9, <1>11, <2>1, Suffixes
<1>13. H \in 1 .. Len(token) - 1
  BY <1>4, <1>6, <1>7, <1>8
<1> QED
  BY <1>5, <1>12, <1>13 DEF start

(* Texts cut and put together.                                                *)
LEMMA Cuts ==
  ASSUME NEW x \in Seq(Letters), NEW n \in 0 .. Len(x), NEW p \in 0 .. n
  PROVE  /\ \A m \in p .. n : SubSeq(x, p + 1, m) \o SubSeq(x, m + 1, n) = SubSeq(x, p + 1, n)
         /\ \A e \in 1 .. n - p + 1 : SubSeq(SubSeq(x, p + 1, n), e, n - p) = SubSeq(x, p + e, n)
<1>1. ASSUME NEW m \in p .. n
      PROVE  SubSeq(x, p + 1, m) \o SubSeq(x, m + 1, n) = SubSeq(x, p + 1, n)
  OBVIOUS
<1>2. ASSUME NEW e \in 1 .. n - p + 1
      PROVE  SubSeq(SubSeq(x, p + 1, n), e, n - p) = SubSeq(x, p + e, n)
  OBVIOUS
<1> QED
  BY <1>1, <1>2

-----------------------------------------------------------------------------
(* The stream *)

(* The client has what the text up to the place p becomes; what follows that  *)
(* place of what was sent is kept back.                                       *)
UpTo(p) ==
  /\ pending = SubSeq(body, p + 1, sent) /\ Whole(body)[1] = out \o Whole(body)[p + 1]
  /\ sent = Len(body) => p = sent

StreamInv ==
  /\ body \in Seq(Letters) /\ Len(body) <= MaxText /\ sent \in 0 .. Len(body) /\ out \in Seq(Signs)
  /\ \E p \in 0 .. sent : UpTo(p)
  /\ Hidden!KeptBackIsPrefix

LEMMA StreamStarts == Hidden!Init => StreamInv
<1> SUFFICES ASSUME Hidden!Init PROVE StreamInv
  OBVIOUS
<1>1. PICK n \in 1 .. MaxText : body \in [1 .. n -> Letters]
  BY DEF Hidden!Init
<1>2. body \in Seq(Letters) /\ Len(body) \in 1 .. MaxText
  BY <1>1, TokensAssumption DEF TokensAdmitted
<1>3. sent = 0 /\ pending = <<>> /\ out = <<>>
  BY DEF Hidden!Init
<1>4. Whole(body)[1] \in Seq(Signs)
  BY <1>2, WholeReads
<1>5. <<>> \o Whole(body)[1] = Whole(body)[1] /\ <<>> \in Seq(Signs)
  BY <1>4, Joins
<1>6. UpTo(0)
  BY <1>2, <1>3, <1>5 DEF UpTo
<1> QED
  BY <1>2, <1>3, <1>5, <1>6 DEF StreamInv, Hidden!KeptBackIsPrefix

LEMMA StreamRests == StreamInv /\ UNCHANGED streamVars => StreamInv'
<1> SUFFICES ASSUME StreamInv, UNCHANGED streamVars PROVE StreamInv'
  OBVIOUS
<1>1. body' = body /\ sent' = sent /\ pending' = pending /\ out' = out
  BY DEF streamVars
<1> QED
  BY <1>1 DEF StreamInv, UpTo, Hidden!KeptBackIsPrefix

LEMMA ChunkIsScan ==
  ASSUME NEW text, NEW more
  PROVE  Hidden!_redact_stream_chunk(text, more) =
           Scan(pending \o text, Len(pending \o text)
                  - IF more THEN Hidden!HeldBack(pending \o text) ELSE 0)[1]
BY DEF Hidden!_redact_stream_chunk, Scan

LEMMA SendKeepsStream == StreamInv /\ Hidden!send_redacted => StreamInv'
<1> SUFFICES ASSUME StreamInv, Hidden!send_redacted PROVE StreamInv'
  OBVIOUS
<1> DEFINE x == body L == Len(body)
<1>1. PICK n \in sent + 1 .. L :
        LET chunk == Hidden!_redact_stream_chunk(SubSeq(body, sent + 1, n), n < Len(body))
        IN out' = out \o chunk.output /\ pending' = chunk.rest /\ sent' = n
  BY DEF Hidden!send_redacted
<1>2. PICK p \in 0 .. sent : UpTo(p)
  BY DEF StreamInv
<1>3. /\ body \in Seq(Letters) /\ L \in Nat /\ L <= MaxText /\ sent \in 0 .. L /\ out \in Seq(Signs)
      /\ n \in 0 .. L /\ p \in 0 .. n /\ sent \in p .. n
  BY <1>1, <1>2 DEF StreamInv
<1>4. body' = body
  BY DEF Hidden!send_redacted
<1> DEFINE data == Chunk(body, p, n) safe == Safe(body, p, n) chunk == Scan(data, safe)[1]
<1>5. pending \o SubSeq(body, sent + 1, n) = data
  BY <1>2, <1>3, Cuts DEF UpTo, Chunk
<1>6. Hidden!_redact_stream_chunk(SubSeq(body, sent + 1, n), n < Len(body)) = chunk
  <2> HIDE DEF data
  <2>1. Hidden!_redact_stream_chunk(SubSeq(body, sent + 1, n), n < Len(body)) =
          Scan(data, Len(data) - IF n < Len(body) THEN Hidden!HeldBack(data) ELSE 0)[1]
    BY <1>5, ChunkIsScan, Zenon
  <2> QED
    BY <2>1, Zenon DEF Safe, data
<1>7. data \in Seq(Letters) /\ Len(data) = n - p /\ safe \in 0 .. n - p
  BY <1>3, ChunkLetters
<1>8. /\ chunk \in Results
      /\ \E e \in 1 .. Len(data) + 1 :
           /\ e > safe /\ chunk.rest = SubSeq(data, e, Len(data))
           /\ Whole(x)[p + 1] = chunk.output \o Whole(x)[p + e]
  <2>1. Reads(body, p, data, safe)
    <3>1. body \in Seq(Letters) /\ n \in 0 .. Len(body) /\ p \in 0 .. n
      BY <1>3
    <3> QED
      BY <3>1, ChunkReads, Zenon
  <2> HIDE DEF data, safe
  <2> QED
    BY <2>1, Zenon DEF Reads
<1>9. out' = out \o chunk.output /\ pending' = chunk.rest /\ sent' = n
  <2> HIDE DEF chunk
  <2> QED
    BY <1>1, <1>6, Zenon
<1>10. PICK e \in 1 .. Len(data) + 1 :
           /\ e > safe /\ chunk.rest = SubSeq(data, e, Len(data))
           /\ Whole(x)[p + 1] = chunk.output \o Whole(x)[p + e]
  BY <1>8
<1>11. Hidden!KeptBackIsPrefix'
  <2>1. ASSUME chunk.rest # <<>>
        PROVE  \E token \in Tokens : \E m \in 1 .. Len(token) - 1 :
                 Hidden!IsSuffix(chunk.rest, SubSeq(token, 1, m))
    <3> DEFINE rest == chunk.rest
    <3>1. rest = SubSeq(data, e, Len(data)) /\ rest # <<>>
      BY <1>10, <2>1
    <3> HIDE DEF rest
    <3> QED
      BY <1>3, <1>10, <3>1, KeptBegins, Zenon DEF rest
  <2> HIDE DEF chunk
  <2> QED
    BY <1>9, <2>1, Zenon DEF Hidden!KeptBackIsPrefix
<1> DEFINE q == p + e - 1
<1>12. q \in 0 .. n /\ q + 1 = p + e /\ (n = L => q = n) /\ p + 1 \in 1 .. L + 1 /\ p + e \in 1 .. L + 1
  <2>1. n = L => safe = Len(data)
    BY <1>3, <1>7 DEF Safe
  <2> HIDE DEF data, safe
  <2> QED
    BY <1>3, <1>7, <1>10, <2>1
<1>13. pending' = SubSeq(body, q + 1, n)
  <2>1. chunk.rest = SubSeq(SubSeq(body, p + 1, n), e, n - p)
    BY <1>7, <1>10 DEF Chunk
  <2>2. e \in 1 .. n - p + 1
    BY <1>7, <1>10
  <2>3. chunk.rest = SubSeq(body, p + e, n)
    BY <1>3, <2>1, <2>2, Cuts
  <2> HIDE DEF chunk, q
  <2>4. pending' = chunk.rest
    BY <1>9, Zenon
  <2>5. q + 1 = p + e
    BY <1>12, Zenon
  <2> QED
    BY <2>3, <2>4, <2>5, Zenon
<1>14. out' \in Seq(Signs) /\ Whole(x)[1] = out' \o Whole(x)[q + 1]
  <2> DEFINE a == out b == chunk.output c == Whole(x)[p + e] S == Seq(Signs)
  <2>1. \A i \in 1 .. L + 1 : Whole(x)[i] \in Seq(Signs)
    BY <1>3, WholeReads
  <2>2. a \in S /\ b \in S /\ c \in S
    BY <1>3, <1>8, <1>12, <2>1 DEF Results
  <2>3. Whole(x)[1] = a \o (b \o c)
    BY <1>2, <1>10 DEF UpTo
  <2>4. out' = a \o b /\ q + 1 = p + e
    BY <1>9, <1>12
  <2> HIDE DEF a, b, c, q
  <2>5. (a \o b) \o c = a \o (b \o c)
    <3>1. \A u, v, w \in Seq(Signs) : (u \o v) \o w = u \o (v \o w)
      BY SignsJoin, Zenon
    <3>2. a \in Seq(Signs) /\ b \in Seq(Signs) /\ c \in Seq(Signs)
      BY <2>2
    <3> QED
      BY <3>1, <3>2, Zenon
  <2>6. a \o b \in S
    BY <2>2
  <2> QED
    BY <2>3, <2>4, <2>5, <2>6 DEF c
<1> HIDE DEF q, chunk, data, safe
<1>15. UpTo(q)'
  BY <1>4, <1>9, <1>12, <1>13, <1>14 DEF UpTo
<1> QED
  BY <1>1, <1>3, <1>4, <1>9, <1>11, <1>12, <1>14, <1>15 DEF StreamInv

LEMMA StreamPromises ==
  StreamInv => /\ Hidden!ChunksDoNotMatter /\ Hidden!KeptBackIsPrefix
               /\ sent \in 0 .. Len(body) /\ Len(pending) <= MaxText
               /\ Hidden!Range(out) \subseteq Letters \cup {Hidden!Marker}
               /\ Hidden!Range(pending) \subseteq Letters
<1> SUFFICES ASSUME StreamInv
             PROVE  /\ Hidden!ChunksDoNotMatter /\ Hidden!KeptBackIsPrefix
                    /\ sent \in 0 .. Len(body) /\ Len(pending) <= MaxText
                    /\ Hidden!Range(out) \subseteq Letters \cup {Hidden!Marker}
                    /\ Hidden!Range(pending) \subseteq Letters
  OBVIOUS
<1>1. PICK p \in 0 .. sent : UpTo(p)
  BY DEF StreamInv
<1> DEFINE x == body L == Len(body) w == Whole(x)
<1>2. /\ x \in Seq(Letters) /\ L \in Nat /\ L <= MaxText /\ MaxText \in Nat /\ sent \in 0 .. L
      /\ out \in Seq(Signs)
  BY TokensAssumption DEF StreamInv, TokensAdmitted
<1>3. Hidden!Redacted(x) = w[1] /\ w[L + 1] = <<>> /\ \A i \in 1 .. L + 1 : w[i] \in Seq(Signs)
  BY <1>2, WholeReads
<1>4. w[1] = out \o w[p + 1] /\ (sent = L => p = L) /\ pending = SubSeq(x, p + 1, sent)
  BY <1>1 DEF UpTo
<1> HIDE DEF w
<1>5. /\ pending \in Seq(Letters) /\ Len(pending) <= MaxText
  BY <1>2, <1>4
<1>6. w[p + 1] \in Seq(Signs) /\ w[1] \in Seq(Signs)
  BY <1>2, <1>3
<1>7. Hidden!IsPrefix(out, w[1])
  <2> DEFINE a == out b == w[p + 1] c == w[1]
  <2>1. a \in Seq(Signs) /\ b \in Seq(Signs) /\ c \in Seq(Signs) /\ c = a \o b
    BY <1>2, <1>4, <1>6
  <2> HIDE DEF a, b, c
  <2>2. Len(a) <= Len(c) /\ \A k \in 1 .. Len(a) : a[k] = c[k]
    BY <2>1
  <2>3. Hidden!IsPrefix(a, c)
    BY <2>1, <2>2, Prefixes
  <2> QED
    BY <2>3 DEF a, c
<1>8. sent = L => out = w[1]
  <2> SUFFICES ASSUME sent = L PROVE out = w[1]
    OBVIOUS
  <2>1. w[p + 1] = <<>>
    BY <1>3, <1>4
  <2>2. out \o <<>> = out
    BY <1>2
  <2> QED
    BY <1>4, <2>1, <2>2
<1>9. Hidden!ChunksDoNotMatter
  BY <1>3, <1>7, <1>8 DEF Hidden!ChunksDoNotMatter
<1>10. Hidden!Range(out) \subseteq Letters \cup {Hidden!Marker}
  BY <1>2 DEF Hidden!Range, Signs
<1>11. Hidden!Range(pending) \subseteq Letters
  BY <1>5 DEF Hidden!Range
<1> QED
  BY <1>2, <1>5, <1>9, <1>10, <1>11 DEF StreamInv

-----------------------------------------------------------------------------
(* The log *)

(* A thread that found the pristine method did so when no lifespan was under  *)
(* way; one that has read the tokens has those of every lifespan that was     *)
(* under way when it began and still is.                                      *)
CallerFits(c) ==
  /\ c.pc \in {"idle", "resolved", "read"} /\ c.next \in {Nil, "pristine"}
  /\ DOMAIN c = {"pc", "secret", "found", "since", "tokens", "next"}
  /\ c.pc = "resolved" => c.since \subseteq Lifespans
  /\ c.pc = "resolved" /\ c.found = "pristine" => c.since = {}
  /\ c.pc = "read" => c.next = "pristine" /\ c.since \subseteq Lifespans /\ c.since \subseteq c.tokens

LogInv ==
  /\ filters \subseteq Lifespans /\ runs \in 0 .. MaxRuns /\ leaked = FALSE
  /\ Hidden!HandleIsRestored
  /\ DOMAIN caller = Threads /\ \A t \in Threads : CallerFits(caller[t])

LEMMA LogStarts == Hidden!Init => LogInv
BY TokensAssumption DEF TokensAdmitted, Hidden!Init, LogInv, CallerFits, Hidden!Resting,
   Hidden!HandleIsRestored

LEMMA LogRests == LogInv /\ UNCHANGED logVars => LogInv'
<1> SUFFICES ASSUME LogInv, UNCHANGED logVars PROVE LogInv'
  OBVIOUS
<1>1. /\ filters' = filters /\ handle' = handle /\ original' = original /\ caller' = caller
      /\ leaked' = leaked /\ runs' = runs
  BY DEF logVars
<1> QED
  BY <1>1 DEF LogInv, CallerFits, Hidden!HandleIsRestored

LEMMA LifespansKeepLog ==
  ASSUME LogInv, NEW l \in Lifespans, Hidden!lifespan(l) PROVE LogInv'
<1>1. caller' = caller /\ leaked' = leaked
  BY DEF Hidden!lifespan, Hidden!_install_log_redaction, Hidden!_remove_log_redaction
<1>2. filters' \subseteq Lifespans /\ runs' \in 0 .. MaxRuns
  BY TokensAssumption DEF TokensAdmitted, LogInv, Hidden!lifespan, Hidden!_install_log_redaction,
     Hidden!_remove_log_redaction
<1>3. Hidden!HandleIsRestored'
  BY DEF LogInv, Hidden!HandleIsRestored, Hidden!lifespan, Hidden!_install_log_redaction,
     Hidden!_remove_log_redaction
<1> QED
  BY <1>1, <1>2, <1>3 DEF LogInv, CallerFits

LEMMA CallerKeepsLog ==
  ASSUME LogInv, NEW t \in Threads, NEW c, CallerFits(c), caller' = [caller EXCEPT ![t] = c],
         leaked' = FALSE, UNCHANGED <<filters, handle, original, runs>>
  PROVE  LogInv'
<1>1. DOMAIN caller' = Threads /\ \A u \in Threads : CallerFits(caller'[u])
  BY DEF LogInv
<1>2. /\ filters' = filters /\ handle' = handle /\ original' = original /\ runs' = runs
  OBVIOUS
<1>3. \A u \in Threads : CallerFits(caller[u])'
  BY <1>1 DEF CallerFits
<1> QED
  BY <1>1, <1>2, <1>3 DEF LogInv, Hidden!HandleIsRestored

LEMMA ThreadsKeepLog ==
  ASSUME LogInv, NEW t \in Threads,
         (\E s \in Lifespans : Hidden!Log(t, s)) \/ Hidden!_redacting_logger_handle(t) \/ Hidden!Emit(t)
  PROVE  LogInv'
<1> DEFINE old == caller[t]
<1>1. CallerFits(old)
  BY DEF LogInv
<1>2. ASSUME NEW s \in Lifespans, Hidden!Log(t, s) PROVE LogInv'
  <2> DEFINE c == [Hidden!Resting EXCEPT !.pc = "resolved", !.secret = s, !.found = handle,
                                         !.since = filters]
  <2>1. /\ c.pc = "resolved" /\ c.next = Nil /\ c.found = handle /\ c.since = filters
        /\ DOMAIN c = {"pc", "secret", "found", "since", "tokens", "next"}
    BY DEF Hidden!Resting
  <2>2. caller' = [caller EXCEPT ![t] = c] /\ UNCHANGED <<filters, handle, original, leaked, runs>>
    BY <1>2 DEF Hidden!Log
  <2> HIDE DEF c
  <2>3. CallerFits(c)
    BY <2>1 DEF CallerFits, LogInv, Hidden!HandleIsRestored
  <2>4. leaked' = FALSE
    BY <2>2 DEF LogInv
  <2> QED
    BY <2>2, <2>3, <2>4, CallerKeepsLog
<1>3. ASSUME Hidden!_redacting_logger_handle(t) PROVE LogInv'
  <2> DEFINE c == [old EXCEPT !.pc = "read", !.tokens = filters, !.since = @ \cap filters,
                              !.next = IF original = Nil THEN "pristine" ELSE original]
  <2>1. /\ caller' = [caller EXCEPT ![t] = c] /\ UNCHANGED <<filters, handle, original, leaked, runs>>
        /\ old.pc = "resolved"
    BY <1>3 DEF Hidden!_redacting_logger_handle
  <2>2. /\ c.pc = "read" /\ c.tokens = filters /\ c.since = old.since \cap filters
        /\ c.next = (IF original = Nil THEN "pristine" ELSE original)
        /\ DOMAIN c = {"pc", "secret", "found", "since", "tokens", "next"}
    BY <1>1 DEF CallerFits
  <2>3. original \in {Nil, "pristine"}
    BY DEF LogInv, Hidden!HandleIsRestored
  <2> HIDE DEF c
  <2>4. CallerFits(c)
    BY <1>1, <2>1, <2>2, <2>3 DEF CallerFits
  <2>5. leaked' = FALSE
    BY <2>1 DEF LogInv
  <2> QED
    BY <2>1, <2>4, <2>5, CallerKeepsLog
<1>4. ASSUME Hidden!Emit(t) PROVE LogInv'
  <2>1. /\ caller' = [caller EXCEPT ![t] = Hidden!Resting] /\ UNCHANGED <<filters, handle, original, runs>>
        /\ leaked' = (leaked \/ Hidden!_ConfiguredTokenLogFilter(t) \in old.since)
        /\ old.pc = "read" \/ (old.pc = "resolved" /\ old.found = "pristine")
    BY <1>4 DEF Hidden!Emit
  <2>2. Hidden!_ConfiguredTokenLogFilter(t) \notin old.since
    <3>1. CASE old.pc = "read"
      BY <1>1, <3>1, TokensAssumption
      DEF TokensAdmitted, CallerFits, Hidden!_ConfiguredTokenLogFilter, Hidden!_redact_log_value
    <3>2. CASE old.pc = "resolved" /\ old.found = "pristine"
      BY <1>1, <3>2 DEF CallerFits
    <3> QED
      BY <2>1, <3>1, <3>2
  <2>3. leaked' = FALSE
    BY <2>1, <2>2 DEF LogInv
  <2>4. CallerFits(Hidden!Resting)
    BY DEF CallerFits, Hidden!Resting
  <2> QED
    BY <2>1, <2>3, <2>4, CallerKeepsLog
<1> QED
  BY <1>2, <1>3, <1>4

LEMMA LogKeeps == LogInv /\ Hidden!LogNext => LogInv'
<1> SUFFICES ASSUME LogInv, Hidden!LogNext PROVE LogInv'
  OBVIOUS
<1> QED
  BY LifespansKeepLog, ThreadsKeepLog, Zenon DEF Hidden!LogNext

LEMMA LogPromises ==
  LogInv => /\ Hidden!RunningTokensAreHidden /\ Hidden!EveryCallContinues /\ Hidden!HandleIsRestored
            /\ filters \subseteq Lifespans /\ handle \in {"pristine", "redacting"}
            /\ original \in {Nil, "pristine"}
            /\ \A t \in Threads : caller[t].pc \in {"idle", "resolved", "read"}
                                  /\ caller[t].next \in {Nil, "pristine"}
            /\ leaked \in BOOLEAN /\ runs \in 0 .. MaxRuns
BY TokensAssumption
DEF TokensAdmitted, LogInv, CallerFits, Hidden!RunningTokensAreHidden, Hidden!EveryCallContinues,
    Hidden!HandleIsRestored

-----------------------------------------------------------------------------
(* No token gets out *)

LEMMA BookKeepsSecrets == StreamInv /\ LogInv /\ [BookNext]_vars => StreamInv' /\ LogInv'
<1> SUFFICES ASSUME StreamInv, LogInv, [BookNext]_vars PROVE StreamInv' /\ LogInv'
  OBVIOUS
<1>1. CASE UNCHANGED streamVars /\ UNCHANGED logVars
  BY <1>1, StreamRests, LogRests, Zenon
<1>2. CASE Hidden!send_redacted
  <2>1. UNCHANGED logVars
    BY <1>2, Zenon DEF Hidden!send_redacted, logVars, Hidden!logVars
  <2> QED
    BY <1>2, <2>1, SendKeepsStream, LogRests, Zenon
<1>3. CASE Hidden!LogNext
  <2>1. UNCHANGED streamVars
    BY <1>3, Zenon DEF Hidden!LogNext, Hidden!lifespan, Hidden!_install_log_redaction,
       Hidden!_remove_log_redaction, Hidden!Log, Hidden!_redacting_logger_handle, Hidden!Emit,
       streamVars, Hidden!streamVars
  <2> QED
    BY <1>3, <2>1, LogKeeps, StreamRests, Zenon
<1> QED
  BY <1>1, <1>2, <1>3, Zenon DEF BookNext, vars

LEMMA SecretsPromise == StreamInv /\ LogInv => TokensStayIn
<1> SUFFICES ASSUME StreamInv, LogInv PROVE Hidden!TokensStayIn
  BY DEF TokensStayIn
<1>1. Hidden!TypeOK
  BY StreamPromises, LogPromises, Zenon DEF Hidden!TypeOK
<1> QED
  BY <1>1, StreamPromises, LogPromises, Zenon DEF Hidden!TokensStayIn

(* However a response is cut into chunks, its reader gets a beginning of the  *)
(* redacted response and in the end all of it, nothing is kept back but the   *)
(* beginning of a token (_redact_stream_chunk); the token of a lifespan under *)
(* way is never logged, every log call goes on, and the last lifespan leaves  *)
(* Logger.handle as it was, for any tokens, texts, lifespans and threads.     *)
THEOREM SecretsAreKept == Spec => []TokensStayIn
<1>1. BookInit => StreamInv /\ LogInv
  BY StreamStarts, LogStarts, Zenon DEF BookInit
<1> QED
  BY <1>1, BookKeepsSecrets, SecretsPromise, PTL DEF Spec

-----------------------------------------------------------------------------
(* The graph of a line of phases *)

(* A line of phases that can be resolved: some phases, each with a name of its *)
(* own that no terminal state has.                                             *)
LineOK(line) ==
  /\ DOMAIN line = 1 .. Len(line) /\ Len(line) \in Nat \ {0}
  /\ \A i \in 1 .. Len(line) : line[i].label \notin Flows!Terminals
  /\ \A i, j \in 1 .. Len(line) : line[i].label = line[j].label => i = j

(* What a line and its graph have to do with each other.                      *)
GraphOf(g, line) ==
  /\ g.labels = Flows!Labels(line) \cup Flows!Terminals /\ g.terminals = Flows!Terminals
  /\ g.initial = line[1].label
  /\ \A s \in g.labels : g.declared[s] = <<>>
  /\ \A s \in g.labels : s \notin g.terminals => \E i \in 1 .. Len(line) : s = line[i].label
  /\ \A i \in 1 .. Len(line) :
       /\ line[i].label \in g.labels \ g.terminals
       /\ g.dests[line[i].label] = {Flows!After(line, i), "DROPPED"}
       /\ Flows!After(line, i) \in g.labels \ {"DROPPED"}
       /\ g.promised[line[i].label] = line[i].promised
       /\ line[i].label \in g.agentAdvanced <=> line[i].advancedBy = "agent"
  /\ g.agentAdvanced \cap g.terminals = {}
  /\ \A s \in g.terminals : g.promised[s] = {}

LEMMA LineReads ==
  ASSUME NEW line, LineOK(line)
  PROVE  /\ DOMAIN line = 1 .. Len(line) /\ Len(line) \in Nat \ {0}
         /\ \A i \in 1 .. Len(line) : Flows!Where(line, line[i].label) = i
         /\ \A i \in 1 .. Len(line) : Flows!After(line, i) \in Flows!Labels(line) \cup {"COMPLETE"}
         /\ \A i \in 1 .. Len(line) : Flows!After(line, i) # "DROPPED"
<1>1. DOMAIN line = 1 .. Len(line) /\ Len(line) \in Nat \ {0}
  BY DEF LineOK
<1>2. ASSUME NEW i \in 1 .. Len(line) PROVE Flows!Where(line, line[i].label) = i
  BY <1>1, <1>2 DEF LineOK, Flows!Where
<1>3. ASSUME NEW i \in 1 .. Len(line)
      PROVE  /\ Flows!After(line, i) \in Flows!Labels(line) \cup {"COMPLETE"}
             /\ Flows!After(line, i) # "DROPPED"
  <2> DEFINE L == Len(line)
  <2>1. L \in Nat /\ i \in 1 .. L
    BY <1>1
  <2> HIDE DEF L
  <2>2. i # L => i + 1 \in 1 .. L
    BY <2>1
  <2> QED
    BY <1>1, <2>2, Zenon DEF L, LineOK, Flows!After, Flows!Labels, Flows!Terminals
<1> QED
  BY <1>1, <1>2, <1>3

LEMMA Resolves ==
  ASSUME NEW line, LineOK(line)
  PROVE  GraphOf(Flows!Resolved(line), line)
<1> DEFINE g == Flows!Resolved(line) all == Flows!Labels(line) \cup Flows!Terminals
<1>1. /\ g.labels = all /\ g.terminals = Flows!Terminals /\ g.initial = line[1].label
      /\ g.declared = [s \in all |-> <<>>]
      /\ g.dests = [s \in all |-> IF s \in Flows!Terminals THEN {}
                      ELSE {Flows!After(line, Flows!Where(line, s)), "DROPPED"}]
      /\ g.promised = [s \in all |-> IF s \in Flows!Terminals THEN {}
                                    ELSE line[Flows!Where(line, s)].promised]
      /\ g.agentAdvanced = {line[i].label : i \in {j \in DOMAIN line : line[j].advancedBy = "agent"}}
  BY DEF Flows!Resolved
<1> HIDE DEF g
<1>2. /\ DOMAIN line = 1 .. Len(line) /\ Len(line) \in Nat \ {0}
      /\ \A i \in 1 .. Len(line) : Flows!Where(line, line[i].label) = i
      /\ \A i \in 1 .. Len(line) : Flows!After(line, i) \in Flows!Labels(line) \cup {"COMPLETE"}
      /\ \A i \in 1 .. Len(line) : Flows!After(line, i) # "DROPPED"
  BY LineReads
<1>3. ASSUME NEW i \in 1 .. Len(line)
      PROVE  /\ line[i].label \in g.labels \ g.terminals
             /\ g.dests[line[i].label] = {Flows!After(line, i), "DROPPED"}
             /\ Flows!After(line, i) \in g.labels \ {"DROPPED"}
             /\ g.promised[line[i].label] = line[i].promised
             /\ line[i].label \in g.agentAdvanced <=> line[i].advancedBy = "agent"
  <2>1. line[i].label \in all /\ line[i].label \notin Flows!Terminals
    BY <1>2 DEF LineOK, Flows!Labels
  <2>2. line[i].label \in g.agentAdvanced <=> line[i].advancedBy = "agent"
    BY <1>1, <1>2 DEF LineOK
  <2>3. Flows!After(line, i) \in all /\ Flows!After(line, i) # "DROPPED"
    BY <1>2 DEF Flows!Terminals
  <2> HIDE DEF all
  <2> QED
    BY <1>1, <1>2, <2>1, <2>2, <2>3
<1>4. \A s \in g.labels : s \notin g.terminals => \E i \in 1 .. Len(line) : s = line[i].label
  BY <1>1, <1>2 DEF Flows!Labels
<1>5. g.agentAdvanced \cap g.terminals = {}
  BY <1>1, <1>2 DEF LineOK
<1>6. \A s \in g.terminals : g.promised[s] = {}
  BY <1>1
<1>7. \A s \in g.labels : g.declared[s] = <<>>
  BY <1>1
<1> HIDE DEF all
<1> QED
  BY <1>1, <1>3, <1>4, <1>5, <1>6, <1>7 DEF GraphOf, g, all

(* What keeps the gates: no phase that the agent leaves leads through one, and *)
(* what the agent may resolve while it takes one such phase for another does   *)
(* not resolve a phase before a gate.                                          *)
GatesFit(line, gates) ==
  /\ \A i \in 1 .. Len(line) :
       line[i].advancedBy = "agent" => Flows!After(line, i) \notin gates \cup {"MERGING"}
  /\ \A i, j \in 1 .. Len(line) :
       i # j /\ line[j].advancedBy = "agent" /\ line[i].promised \subseteq line[j].promised
         => Flows!After(line, i) \notin gates \cup {"MERGING"}
  /\ "MERGING" \in Flows!Labels(line) => {"BUILDING", "ITERATING"} \cap Flows!Labels(line) # {}
  /\ line[1].label # "MERGING"

LineFits(line, gates) == LineOK(line) /\ GatesFit(line, gates)

LEMMA OnePhase ==
  ASSUME NEW p, p.label \notin Flows!Terminals \cup {"MERGING"},
         NEW gates, p.advancedBy = "agent" => "COMPLETE" \notin gates
  PROVE  LineFits(<<p>>, gates)
<1> DEFINE line == <<p>>
<1>1. Len(line) = 1 /\ line[1] = p /\ DOMAIN line = {1}
  OBVIOUS
<1> HIDE DEF line
<1>2. \A i \in 1 .. Len(line) : i = 1
  BY <1>1
<1>3. LineOK(line)
  BY <1>1, <1>2 DEF LineOK
<1>4. GatesFit(line, gates)
  BY <1>1, <1>2 DEF GatesFit, Flows!After, Flows!Labels
<1> QED
  BY <1>3, <1>4 DEF line, LineFits

LEMMA ThreePhases ==
  ASSUME NEW p1, NEW p2, NEW p3, NEW k1 \in p1.promised, NEW k2 \in p2.promised,
         p1.label = "PLANNING", p2.label = "ITERATING", p3.label = "MERGING",
         p1.advancedBy = "user", p2.advancedBy = "user", {k1, k2} \cap p3.promised = {}
  PROVE  LineFits(<<p1, p2, p3>>, {"ITERATING", "MERGING"})
<1> DEFINE line == <<p1, p2, p3>>
<1>1. /\ Len(line) = 3 /\ line[1] = p1 /\ line[2] = p2 /\ line[3] = p3 /\ DOMAIN line = 1 .. 3
  OBVIOUS
<1> HIDE DEF line
<1>2. LineOK(line)
  BY <1>1 DEF LineOK, Flows!Terminals
<1>3. /\ Flows!After(line, 1) = "ITERATING" /\ Flows!After(line, 2) = "MERGING"
      /\ Flows!After(line, 3) = "COMPLETE"
  BY <1>1 DEF Flows!After
<1>4. GatesFit(line, {"ITERATING", "MERGING"})
  BY <1>1, <1>3 DEF GatesFit, Flows!Labels
<1> QED
  BY <1>2, <1>4 DEF LineFits, line

LEMMA FourPhases ==
  ASSUME NEW p1, NEW p2, NEW p3, NEW p4,
         NEW k1 \in p1.promised, NEW k2 \in p2.promised, NEW k3 \in p3.promised,
         p1.label = "PLANNING", p2.label = "ITERATING", p3.label = "REVIEW", p4.label = "MERGING",
         p1.advancedBy = "user", p2.advancedBy = "user", p3.advancedBy = "user",
         {k1, k2, k3} \cap p4.promised = {}
  PROVE  LineFits(<<p1, p2, p3, p4>>, {"ITERATING", "REVIEW", "MERGING"})
<1> DEFINE line == <<p1, p2, p3, p4>>
<1>1. /\ Len(line) = 4 /\ line[1] = p1 /\ line[2] = p2 /\ line[3] = p3 /\ line[4] = p4
      /\ DOMAIN line = 1 .. 4
  OBVIOUS
<1> HIDE DEF line
<1>2. LineOK(line)
  BY <1>1 DEF LineOK, Flows!Terminals
<1>3. /\ Flows!After(line, 1) = "ITERATING" /\ Flows!After(line, 2) = "REVIEW"
      /\ Flows!After(line, 3) = "MERGING" /\ Flows!After(line, 4) = "COMPLETE"
  BY <1>1 DEF Flows!After
<1>4. GatesFit(line, {"ITERATING", "REVIEW", "MERGING"})
  BY <1>1, <1>3 DEF GatesFit, Flows!Labels
<1> QED
  BY <1>2, <1>4 DEF LineFits, line

LEMMA FivePhases ==
  ASSUME NEW p1, NEW p2, NEW p3, NEW p4, NEW p5, NEW k1 \in p1.promised, NEW k4 \in p4.promised,
         NEW gates \in SUBSET {"BUILDING", "MERGING"},
         p1.label = "SPECIFYING", p2.label = "BUILDING", p3.label = "TESTING",
         p4.label = "REVIEWING", p5.label = "MERGING",
         p1.advancedBy = "agent" => "BUILDING" \notin gates, p4.advancedBy = "user",
         k1 \notin p2.promised \cup p3.promised \cup p5.promised,
         k4 \notin p1.promised \cup p2.promised \cup p3.promised \cup p5.promised
  PROVE  LineFits(<<p1, p2, p3, p4, p5>>, gates)
<1> DEFINE line == <<p1, p2, p3, p4, p5>>
<1>1. /\ Len(line) = 5 /\ line[1] = p1 /\ line[2] = p2 /\ line[3] = p3 /\ line[4] = p4
      /\ line[5] = p5 /\ DOMAIN line = 1 .. 5
  OBVIOUS
<1> HIDE DEF line
<1>2. LineOK(line)
  BY <1>1 DEF LineOK, Flows!Terminals
<1>3. /\ Flows!After(line, 1) = "BUILDING" /\ Flows!After(line, 2) = "TESTING"
      /\ Flows!After(line, 3) = "REVIEWING" /\ Flows!After(line, 4) = "MERGING"
      /\ Flows!After(line, 5) = "COMPLETE"
  BY <1>1 DEF Flows!After
<1>4. GatesFit(line, gates)
  BY <1>1, <1>3 DEF GatesFit, Flows!Labels
<1> QED
  BY <1>2, <1>4 DEF LineFits, line

LEMMA ShippedLines ==
  \A w \in DOMAIN Flows!Lines : LineFits(Flows!Lines[w], Flows!Gates[w])
<1> USE DEF Flows!Phase, Flows!InitialState, Flows!State, Flows!ByAgent
<1>1. LineFits(Flows!Spike, {"COMPLETE"})
  <2> DEFINE p == Flows!InitialState("ITERATING", {})
  <2>1. p.label = "ITERATING" /\ p.advancedBy = "user"
    OBVIOUS
  <2>2. Flows!Spike = <<p>>
    BY DEF Flows!Spike
  <2> HIDE DEF p
  <2> QED
    BY <2>1, <2>2, OnePhase DEF Flows!Terminals
<1>2. LineFits(Flows!Orchestrator, {"COMPLETE"})
  <2> DEFINE p == Flows!InitialState("ORCHESTRATING", {})
  <2>1. p.label = "ORCHESTRATING" /\ p.advancedBy = "user"
    OBVIOUS
  <2>2. Flows!Orchestrator = <<p>>
    BY DEF Flows!Orchestrator
  <2> HIDE DEF p
  <2> QED
    BY <2>1, <2>2, OnePhase DEF Flows!Terminals
<1>3. LineFits(Flows!SetupRepo, {"COMPLETE"})
  <2> DEFINE p == Flows!InitialState("RUNNING", {})
  <2>1. p.label = "RUNNING" /\ p.advancedBy = "user"
    OBVIOUS
  <2>2. Flows!SetupRepo = <<p>>
    BY DEF Flows!SetupRepo
  <2> HIDE DEF p
  <2> QED
    BY <2>1, <2>2, OnePhase DEF Flows!Terminals
<1>4. LineFits(Flows!Review, {})
  <2> DEFINE p == Flows!ByAgent([Flows!InitialState("REVIEWING", {}) EXCEPT !.turn = "agent"])
  <2>1. p.label = "REVIEWING" /\ p.advancedBy = "agent"
    OBVIOUS
  <2>2. Flows!Review = <<p>>
    BY DEF Flows!Review
  <2> HIDE DEF p
  <2> QED
    BY <2>1, <2>2, OnePhase DEF Flows!Terminals
<1>5. LineFits(Flows!LocalGitSelfReviewed, {"ITERATING", "MERGING"})
  <2> DEFINE p1 == Flows!InitialState("PLANNING", Flows!Planned)
             p2 == Flows!State("ITERATING", Flows!Coded \cup {"committed"})
             p3 == Flows!ByAgent(Flows!State("MERGING", {"local-merged"}))
  <2>1. /\ p1.label = "PLANNING" /\ p1.advancedBy = "user" /\ "plan-written" \in p1.promised
        /\ p2.label = "ITERATING" /\ p2.advancedBy = "user" /\ "tests-pass" \in p2.promised
        /\ p3.label = "MERGING" /\ {"plan-written", "tests-pass"} \cap p3.promised = {}
    BY DEF Flows!Planned, Flows!Coded
  <2>2. Flows!LocalGitSelfReviewed = <<p1, p2, p3>>
    BY DEF Flows!LocalGitSelfReviewed
  <2> HIDE DEF p1, p2, p3
  <2> QED
    BY <2>1, <2>2, ThreePhases
<1>6. LineFits(Flows!GithubSelfReviewed, {"ITERATING", "MERGING"})
  <2> DEFINE p1 == Flows!InitialState("PLANNING", Flows!Planned)
             p2 == Flows!State("ITERATING", Flows!Coded \cup Flows!Published)
             p3 == Flows!ByAgent(Flows!State("MERGING", {"pr-merged"}))
  <2>1. /\ p1.label = "PLANNING" /\ p1.advancedBy = "user" /\ "plan-written" \in p1.promised
        /\ p2.label = "ITERATING" /\ p2.advancedBy = "user" /\ "tests-pass" \in p2.promised
        /\ p3.label = "MERGING" /\ {"plan-written", "tests-pass"} \cap p3.promised = {}
    BY DEF Flows!Planned, Flows!Coded
  <2>2. Flows!GithubSelfReviewed = <<p1, p2, p3>>
    BY DEF Flows!GithubSelfReviewed
  <2> HIDE DEF p1, p2, p3
  <2> QED
    BY <2>1, <2>2, ThreePhases
<1>7. LineFits(Flows!GithubPeerReviewed, {"ITERATING", "REVIEW", "MERGING"})
  <2> DEFINE p1 == Flows!InitialState("PLANNING", Flows!Planned)
             p2 == Flows!State("ITERATING", Flows!Coded \cup Flows!Published)
             p3 == Flows!State("REVIEW", {"pr-reviewed"})
             p4 == Flows!ByAgent(Flows!State("MERGING", {"pr-merged"}))
  <2>1. /\ p1.label = "PLANNING" /\ p1.advancedBy = "user" /\ "plan-written" \in p1.promised
        /\ p2.label = "ITERATING" /\ p2.advancedBy = "user" /\ "tests-pass" \in p2.promised
        /\ p3.label = "REVIEW" /\ p3.advancedBy = "user" /\ "pr-reviewed" \in p3.promised
        /\ p4.label = "MERGING"
        /\ {"plan-written", "tests-pass", "pr-reviewed"} \cap p4.promised = {}
    BY DEF Flows!Planned, Flows!Coded
  <2>2. Flows!GithubPeerReviewed = <<p1, p2, p3, p4>>
    BY DEF Flows!GithubPeerReviewed
  <2> HIDE DEF p1, p2, p3, p4
  <2> QED
    BY <2>1, <2>2, FourPhases
<1>8. LineFits(Flows!Spec2119Human, {"BUILDING", "MERGING"})
  <2> DEFINE p1 == Flows!_Specifying p2 == Flows!_Building p3 == Flows!_Testing
             p4 == Flows!_Reviewing("reviews-recorded") p5 == Flows!_Merging
  <2>1. /\ p1.label = "SPECIFYING" /\ "spec-written" \in p1.promised
        /\ p2.label = "BUILDING" /\ p3.label = "TESTING" /\ p4.label = "REVIEWING"
        /\ p5.label = "MERGING" /\ p4.advancedBy = "user" /\ "findings-triaged" \in p4.promised
        /\ "spec-written" \notin p2.promised \cup p3.promised \cup p5.promised
        /\ "findings-triaged" \notin p1.promised \cup p2.promised \cup p3.promised \cup p5.promised
    BY DEF Flows!_Specifying, Flows!_Building, Flows!_Testing, Flows!_Reviewing, Flows!_Merging
  <2>2. p1.advancedBy = "agent" => "BUILDING" \notin {"BUILDING", "MERGING"}
    BY DEF Flows!_Specifying
  <2>3. Flows!Spec2119Human = <<p1, p2, p3, p4, p5>>
    BY DEF Flows!Spec2119Human
  <2> HIDE DEF p1, p2, p3, p4, p5
  <2> QED
    BY <2>1, <2>2, <2>3, FivePhases
<1>9. LineFits(Flows!Spec2119Auto, {"MERGING"})
  <2> DEFINE p1 == Flows!ByAgent(Flows!_Specifying) p2 == Flows!_Building p3 == Flows!_Testing
             p4 == Flows!_Reviewing("reviews-recorded") p5 == Flows!_Merging
  <2>1. /\ p1.label = "SPECIFYING" /\ "spec-written" \in p1.promised
        /\ p2.label = "BUILDING" /\ p3.label = "TESTING" /\ p4.label = "REVIEWING"
        /\ p5.label = "MERGING" /\ p4.advancedBy = "user" /\ "findings-triaged" \in p4.promised
        /\ "spec-written" \notin p2.promised \cup p3.promised \cup p5.promised
        /\ "findings-triaged" \notin p1.promised \cup p2.promised \cup p3.promised \cup p5.promised
    BY DEF Flows!_Specifying, Flows!_Building, Flows!_Testing, Flows!_Reviewing, Flows!_Merging
  <2>2. p1.advancedBy = "agent" => "BUILDING" \notin {"MERGING"}
    BY DEF Flows!_Specifying
  <2>3. Flows!Spec2119Auto = <<p1, p2, p3, p4, p5>>
    BY DEF Flows!Spec2119Auto
  <2> HIDE DEF p1, p2, p3, p4, p5
  <2> QED
    BY <2>1, <2>2, <2>3, FivePhases
<1>10. LineFits(Flows!Spec2119AutoSol, {"MERGING"})
  <2> DEFINE p1 == Flows!ByAgent(Flows!_Specifying) p2 == Flows!_Building p3 == Flows!_Testing
             p4 == Flows!_Reviewing("reviews-recorded-sol") p5 == Flows!_Merging
  <2>1. /\ p1.label = "SPECIFYING" /\ "spec-written" \in p1.promised
        /\ p2.label = "BUILDING" /\ p3.label = "TESTING" /\ p4.label = "REVIEWING"
        /\ p5.label = "MERGING" /\ p4.advancedBy = "user" /\ "findings-triaged" \in p4.promised
        /\ "spec-written" \notin p2.promised \cup p3.promised \cup p5.promised
        /\ "findings-triaged" \notin p1.promised \cup p2.promised \cup p3.promised \cup p5.promised
    BY DEF Flows!_Specifying, Flows!_Building, Flows!_Testing, Flows!_Reviewing, Flows!_Merging
  <2>2. p1.advancedBy = "agent" => "BUILDING" \notin {"MERGING"}
    BY DEF Flows!_Specifying
  <2>3. Flows!Spec2119AutoSol = <<p1, p2, p3, p4, p5>>
    BY DEF Flows!Spec2119AutoSol
  <2> HIDE DEF p1, p2, p3, p4, p5
  <2> QED
    BY <2>1, <2>2, <2>3, FivePhases
<1> QED
  BY <1>1, <1>2, <1>3, <1>4, <1>5, <1>6, <1>7, <1>8, <1>9, <1>10 DEF Flows!Lines, Flows!Gates

-----------------------------------------------------------------------------
(* The shipped workflows *)

Line(w) == Flows!Lines[w]
Graph(w) == Flows!discover_workflows[w]
Phased(w) == {Line(w)[i].label : i \in 1 .. Len(Line(w))}

LEMMA MergesLast ==
  ASSUME NEW p1, NEW p2, NEW p3, NEW p4, NEW p5, NEW q, q.label = "MERGING"
  PROVE  /\ "MERGING" \in Flows!Labels(<<p1, p2, q>>) /\ "MERGING" \in Flows!Labels(<<p1, p2, p3, q>>)
         /\ "MERGING" \in Flows!Labels(<<p1, p2, p3, p4, q>>)
<1>1. /\ 3 \in DOMAIN <<p1, p2, q>> /\ 4 \in DOMAIN <<p1, p2, p3, q>>
      /\ 5 \in DOMAIN <<p1, p2, p3, p4, q>>
  OBVIOUS
<1>2. <<p1, p2, q>>[3] = q /\ <<p1, p2, p3, q>>[4] = q /\ <<p1, p2, p3, p4, q>>[5] = q
  OBVIOUS
<1> QED
  BY <1>1, <1>2, Zenon DEF Flows!Labels

(* What lands on GitHub has a phase to be merged in.                           *)
LEMMA ForgeMerges ==
  ASSUME NEW w \in Flows!Forge PROVE "MERGING" \in Flows!Labels(Line(w))
<1> DEFINE q == Flows!ByAgent(Flows!State("MERGING", {"pr-merged"}))
<1>1. q.label = "MERGING" /\ Flows!_Merging.label = "MERGING"
  BY DEF Flows!ByAgent, Flows!State, Flows!Phase, Flows!_Merging
<1> HIDE DEF q
<1>2. CASE w = "github_peer_reviewed"
  <2>1. \E p1, p2, p3 : Line(w) = <<p1, p2, p3, q>>
    BY <1>2 DEF Line, Flows!Lines, Flows!GithubPeerReviewed, q
  <2> QED
    BY <1>1, <2>1, MergesLast
<1>3. CASE w = "github_self_reviewed"
  <2>1. \E p1, p2 : Line(w) = <<p1, p2, q>>
    BY <1>3 DEF Line, Flows!Lines, Flows!GithubSelfReviewed, q
  <2> QED
    BY <1>1, <2>1, MergesLast
<1>4. CASE w \in {"human_spec", "auto_spec", "auto_sol"}
  <2>1. \E p1, p2, p3, p4 : Line(w) = <<p1, p2, p3, p4, Flows!_Merging>>
    BY <1>4 DEF Line, Flows!Lines, Flows!Spec2119Human, Flows!Spec2119Auto, Flows!Spec2119AutoSol
  <2> QED
    BY <1>1, <2>1, MergesLast
<1> QED
  BY <1>2, <1>3, <1>4 DEF Flows!Forge

LEMMA ShippedGraphs ==
  ASSUME NEW w \in DOMAIN Flows!Lines
  PROVE  LineOK(Line(w)) /\ GatesFit(Line(w), Flows!Gates[w]) /\ GraphOf(Graph(w), Line(w))
<1>1. LineOK(Line(w)) /\ GatesFit(Line(w), Flows!Gates[w])
  BY ShippedLines DEF LineFits, Line
<1>2. Graph(w) = Flows!Resolved(Line(w))
  BY DEF Graph, Line, Flows!discover_workflows
<1> QED
  BY <1>1, <1>2, Resolves

LEMMA GraphIsWell ==
  ASSUME NEW line, LineOK(line) PROVE Flows!W!WellFormedGraph(Flows!Resolved(line))
<1> DEFINE g == Flows!Resolved(line) all == Flows!Labels(line) \cup Flows!Terminals
<1>1. /\ g.labels = all /\ g.terminals = {"COMPLETE", "DROPPED"} /\ g.initial = line[1].label
      /\ g.declared = [s \in all |-> <<>>]
      /\ g.dests = [s \in all |-> IF s \in Flows!Terminals THEN {}
                      ELSE {Flows!After(line, Flows!Where(line, s)), "DROPPED"}]
      /\ g.promised = [s \in all |-> IF s \in Flows!Terminals THEN {}
                                    ELSE line[Flows!Where(line, s)].promised]
      /\ g.agentAdvanced = {line[i].label : i \in {j \in DOMAIN line : line[j].advancedBy = "agent"}}
      /\ g.agentTurn = {line[i].label : i \in {j \in DOMAIN line : line[j].turn = "agent"}}
      /\ g.reviewed = FALSE
  BY DEF Flows!Resolved, Flows!Terminals
<1> HIDE DEF g
<1>2. GraphOf(g, line)
  BY Resolves DEF g
<1>3. /\ DOMAIN line = 1 .. Len(line) /\ Len(line) \in Nat \ {0}
      /\ \A i \in 1 .. Len(line) : line[i].label \in g.labels \ g.terminals
  BY <1>2, LineReads DEF GraphOf
<1>4. g.dests \in [g.labels -> SUBSET g.labels]
  <2>1. ASSUME NEW s \in all PROVE g.dests[s] \subseteq all
    <3>1. CASE s \in Flows!Terminals
      BY <1>1, <3>1
    <3>2. CASE s \notin Flows!Terminals
      <4>1. PICK i \in 1 .. Len(line) : s = line[i].label
        BY <1>1, <1>2, <3>2 DEF GraphOf, Flows!Terminals
      <4>2. g.dests[s] = {Flows!After(line, i), "DROPPED"} /\ Flows!After(line, i) \in all
        BY <1>1, <1>2, <4>1 DEF GraphOf
      <4> HIDE DEF all
      <4> QED
        BY <4>2 DEF all, Flows!Terminals
    <3> QED
      BY <3>1, <3>2
  <2> HIDE DEF all
  <2> QED
    BY <1>1, <2>1
<1>5. \A s \in g.labels : IF s \in g.terminals THEN g.dests[s] = {} ELSE "DROPPED" \in g.dests[s]
  BY <1>1 DEF Flows!Terminals
<1>6. g.initial \in g.labels \ g.terminals
  BY <1>1, <1>3
<1>7. g.agentTurn \subseteq g.labels \ g.terminals /\ g.agentAdvanced \subseteq g.labels
  BY <1>1, <1>3
<1>8. \A s \in g.labels : DOMAIN g.declared[s] = {}
  BY <1>1
<1>9. DOMAIN g.declared = g.labels /\ DOMAIN g.promised = g.labels /\ g.reviewed \in BOOLEAN
      /\ g.terminals \subseteq g.labels
  BY <1>1 DEF Flows!Terminals
<1> QED
  BY <1>1, <1>4, <1>5, <1>6, <1>7, <1>8, <1>9
  DEF Flows!W!WellFormedGraph, Flows!W!Complete, Flows!W!Dropped, g

(* Where `advance` leads.                                                     *)
LEMMA AdvanceLeads ==
  ASSUME NEW w \in DOMAIN Flows!Lines
  PROVE  /\ \A s \in Graph(w).terminals : Flows!W!Verbs(w, s) = {}
         /\ \A i \in 1 .. Len(Line(w)) :
              /\ "advance" \in Flows!W!Verbs(w, Line(w)[i].label)
              /\ Flows!W!ResolveOperation(w, Line(w)[i].label, "advance") = Flows!After(Line(w), i)
<1> DEFINE g == Graph(w) line == Line(w)
<1>1. GraphOf(g, line)
  BY ShippedGraphs
<1>2. \A s \in g.terminals : Flows!W!Verbs(w, s) = {}
  BY DEF Flows!W!Verbs, Flows!W!IsTerminal, Graph
<1>3. ASSUME NEW i \in 1 .. Len(line)
      PROVE  /\ "advance" \in Flows!W!Verbs(w, line[i].label)
             /\ Flows!W!ResolveOperation(w, line[i].label, "advance") = Flows!After(line, i)
  <2> DEFINE s == line[i].label to == Flows!After(line, i)
  <2>1. /\ s \in g.labels \ g.terminals /\ g.dests[s] = {to, "DROPPED"} /\ to # "DROPPED"
        /\ g.declared[s] = <<>>
    BY <1>1, <1>3 DEF GraphOf
  <2> HIDE DEF s, to
  <2>2. Flows!W!Forward(w, s) = {to}
    BY <2>1 DEF Flows!W!Forward, Flows!W!Transitions, Flows!W!Dropped, Graph
  <2>3. DOMAIN g.declared[s] = {}
    BY <2>1
  <2>4. Flows!W!HasSingleForward(w, s)
    BY <2>2 DEF Flows!W!HasSingleForward
  <2>5. "advance" \in Flows!W!Verbs(w, s)
    BY <2>1, <2>4 DEF Flows!W!Verbs, Flows!W!IsTerminal, Graph
  <2>6. Flows!W!ResolveOperation(w, s, "advance") = to
    <3>1. Flows!W!ResolveOperation(w, s, "advance") =
            CHOOSE d \in Flows!W!Forward(w, s) : Flows!W!Forward(w, s) = {d}
      BY <2>3 DEF Flows!W!ResolveOperation, Graph
    <3> QED
      BY <2>2, <3>1
  <2> QED
    BY <2>5, <2>6 DEF s, to
<1> QED
  BY <1>2, <1>3

-----------------------------------------------------------------------------
(* The overview *)

(* The names of the first m + 1 phases along `advance`, COMPLETE the last.    *)
Way(w, m) == [i \in 1 .. m + 1 |-> IF i <= Len(Line(w)) THEN Line(w)[i].label ELSE "COMPLETE"]
Ways(w) == {Way(w, m) : m \in 0 .. Len(Line(w))}

Onward(w, sofar) ==
  LET last == sofar[Len(sofar)]
  IN IF "advance" \notin Flows!W!Verbs(w, last)
        \/ Flows!W!ResolveOperation(w, last, "advance") \in Flows!Range(sofar)
     THEN sofar
     ELSE Append(sofar, Flows!W!ResolveOperation(w, last, "advance"))

LEMMA WayReads ==
  ASSUME NEW w \in DOMAIN Flows!Lines, NEW m \in 0 .. Len(Line(w))
  PROVE  /\ Way(w, m) \in Seq(Graph(w).labels) /\ Len(Way(w, m)) = m + 1
         /\ \A i \in 1 .. m + 1 :
              Way(w, m)[i] = IF i <= Len(Line(w)) THEN Line(w)[i].label ELSE "COMPLETE"
<1> DEFINE L == Len(Line(w)) g == Graph(w)
<1>1. /\ \A i \in 1 .. L : Line(w)[i].label \in g.labels
      /\ "COMPLETE" \in g.labels /\ L \in Nat
  BY ShippedGraphs, LineReads DEF GraphOf, Flows!Terminals
<1> HIDE DEF L
<1>2. \A i \in 1 .. m + 1 : (IF i <= L THEN Line(w)[i].label ELSE "COMPLETE") \in g.labels
  BY <1>1
<1>3. m \in Nat /\ m + 1 \in Nat
  BY <1>1 DEF L
<1> HIDE DEF g
<1> DEFINE way == [i \in 1 .. m + 1 |-> IF i <= L THEN Line(w)[i].label ELSE "COMPLETE"]
<1>4. way \in [1 .. m + 1 -> g.labels]
  BY <1>2
<1>5. /\ way \in Seq(g.labels) /\ Len(way) = m + 1
  BY <1>3, <1>4
<1>6. way = Way(w, m)
  BY DEF Way, L
<1> QED
  BY <1>5, <1>6 DEF L, g

LEMMA WayGoesOn ==
  ASSUME NEW w \in DOMAIN Flows!Lines, NEW m \in 0 .. Len(Line(w))
  PROVE  Onward(w, Way(w, m)) = Way(w, IF m < Len(Line(w)) THEN m + 1 ELSE m)
<1> DEFINE L == Len(Line(w)) line == Line(w) way == Way(w, m) last == way[Len(way)]
<1>1. LineOK(line) /\ L \in Nat
  BY ShippedGraphs, LineReads
<1>2. /\ way \in Seq(Graph(w).labels) /\ Len(way) = m + 1
      /\ \A i \in 1 .. m + 1 : way[i] = IF i <= L THEN line[i].label ELSE "COMPLETE"
  BY WayReads
<1>3. CASE m = L
  <2>1. last = "COMPLETE"
    BY <1>1, <1>2, <1>3
  <2>2. "advance" \notin Flows!W!Verbs(w, last)
    BY <2>1, AdvanceLeads, ShippedGraphs DEF GraphOf, Flows!Terminals
  <2> HIDE DEF way
  <2>3. Onward(w, way) = way
    BY <2>2 DEF Onward
  <2> QED
    BY <1>1, <1>3, <2>3 DEF way
<1>4. CASE m < L
  <2> DEFINE to == Flows!After(line, m + 1)
  <2>1. m + 1 \in 1 .. L /\ last = line[m + 1].label
    BY <1>1, <1>2, <1>4
  <2>2. /\ "advance" \in Flows!W!Verbs(w, last)
        /\ Flows!W!ResolveOperation(w, last, "advance") = to
    <3> HIDE DEF last, to
    <3> QED
      BY <2>1, AdvanceLeads DEF to
  <2>3. to = IF m + 2 <= L THEN line[m + 2].label ELSE "COMPLETE"
    BY <1>1, <1>4 DEF Flows!After
  <2>4. to \notin Flows!Range(way)
    <3>1. ASSUME NEW i \in 1 .. m + 1 PROVE way[i] # to
      <4>1. i \in 1 .. L /\ way[i] = line[i].label
        BY <1>1, <1>2, <1>4
      <4> QED
        BY <1>1, <1>4, <2>3, <4>1 DEF LineOK, Flows!Terminals
    <3> HIDE DEF to
    <3> QED
      BY <1>2, <3>1 DEF Flows!Range
  <2>5. Onward(w, way) = Append(way, to)
    <3> HIDE DEF way, to
    <3> QED
      BY <2>2, <2>4 DEF Onward
  <2>6. m + 1 \in 0 .. Len(Line(w))
    BY <1>1, <1>4
  <2> DEFINE next1 == Way(w, m + 1)
  <2>7. /\ next1 \in Seq(Graph(w).labels) /\ Len(next1) = m + 2
        /\ \A i \in 1 .. m + 2 : next1[i] = IF i <= L THEN line[i].label ELSE "COMPLETE"
    BY <2>6, WayReads
  <2>8. to \in Graph(w).labels
    BY <1>1, <2>1, ShippedGraphs DEF GraphOf
  <2> HIDE DEF way, to, next1, L, line
  <2>9. Append(way, to) = next1
    BY <1>1, <1>2, <2>3, <2>7, <2>8
  <2> QED
    BY <1>4, <2>5, <2>9 DEF way, next1, L
<1> QED
  BY <1>1, <1>3, <1>4

(* What the overview walks through.                                           *)
Walk(w) ==
  CHOOSE walk : walk = [n \in Nat |->
    IF n = 0 THEN <<Flows!discover_workflows[w].initial>>
    ELSE Onward(w, walk[n - 1])]

LEMMA WalkReads ==
  ASSUME NEW w \in DOMAIN Flows!Lines
  PROVE  /\ Walk(w)[0] = Way(w, 0)
         /\ \A n \in Nat : Walk(w)[n + 1] = Onward(w, Walk(w)[n])
<1> DEFINE S == Ways(w) F == [sofar \in S |-> Onward(w, sofar)] L == Len(Line(w))
           Round(g) == [n \in Nat |-> IF n = 0 THEN <<Flows!discover_workflows[w].initial>>
                                      ELSE Onward(w, g[n - 1])]
<1>1. L \in Nat \ {0} /\ LineOK(Line(w)) /\ GraphOf(Graph(w), Line(w))
  BY ShippedGraphs, LineReads
<1>2. Way(w, 0) \in S /\ F \in [S -> S]
  <2>1. ASSUME NEW m \in 0 .. L PROVE Onward(w, Way(w, m)) \in S
    <3> DEFINE k == IF m < L THEN m + 1 ELSE m
    <3>1. k \in 0 .. L /\ Onward(w, Way(w, m)) = Way(w, k)
      BY <1>1, WayGoesOn
    <3> HIDE DEF k
    <3> QED
      BY <3>1 DEF Ways
  <2>2. \A sofar \in S : \E m \in 0 .. L : sofar = Way(w, m)
    BY DEF Ways
  <2>3. 0 \in 0 .. L
    BY <1>1
  <2>4. Way(w, 0) \in S
    BY <2>3 DEF Ways
  <2> HIDE DEF S, L
  <2> QED
    BY <2>1, <2>2, <2>4
<1>3. PICK g : Repeats(g, S, Way(w, 0), F)
  <2> HIDE DEF S, F
  <2> QED
    BY <1>2, Iterates
<1>4. <<Flows!discover_workflows[w].initial>> = Way(w, 0)
  <2>1. 0 \in 0 .. L
    BY <1>1
  <2> DEFINE way == Way(w, 0) line == Line(w)
  <2>2. /\ way \in Seq(Graph(w).labels) /\ Len(way) = 0 + 1
        /\ \A i \in 1 .. 0 + 1 : way[i] = IF i <= L THEN line[i].label ELSE "COMPLETE"
    BY <2>1, WayReads
  <2> HIDE DEF way, line, L
  <2>3. way \in Seq(Graph(w).labels) /\ Len(way) = 1 /\ way[1] = line[1].label
    BY <1>1, <2>2
  <2> QED
    BY <1>1, <2>3 DEF GraphOf, Graph, way, line
<1>5. g = Round(g)
  <2>1. g \in [Nat -> S] /\ g[0] = Way(w, 0) /\ \A n \in Nat : g[n + 1] = F[g[n]]
    BY <1>3 DEF Repeats
  <2> HIDE DEF S
  <2>2. \A n \in Nat : g[n + 1] = Onward(w, g[n])
    BY <2>1
  <2>3. ASSUME NEW n \in Nat PROVE g[n] = IF n = 0 THEN Way(w, 0) ELSE Onward(w, g[n - 1])
    <3>1. CASE n = 0
      BY <2>1, <3>1
    <3>2. CASE n # 0
      <4>1. n - 1 \in Nat /\ (n - 1) + 1 = n
        BY <3>2
      <4> QED
        BY <2>2, <3>2, <4>1
    <3> QED
      BY <3>1, <3>2
  <2> QED
    BY <1>4, <2>1, <2>3
<1>6. Walk(w) = Round(Walk(w))
  <2> HIDE DEF S, F
  <2> QED
    BY <1>5, Zenon DEF Walk
<1> DEFINE walk == Walk(w)
<1> HIDE DEF walk
<1>7. \A n \in Nat : walk[n] = IF n = 0 THEN Way(w, 0) ELSE Onward(w, walk[n - 1])
  BY <1>4, <1>6, Zenon DEF walk
<1>8. ASSUME NEW n \in Nat PROVE walk[n + 1] = Onward(w, walk[n])
  <2>1. n + 1 \in Nat /\ n + 1 # 0 /\ (n + 1) - 1 = n
    OBVIOUS
  <2> QED
    BY <1>7, <2>1
<1> QED
  BY <1>7, <1>8 DEF walk

LEMMA LabelsCounted ==
  ASSUME NEW w \in DOMAIN Flows!Lines
  PROVE  Flows!Cardinality(Graph(w).labels) = Len(Line(w)) + 2
<1> DEFINE L == Len(Line(w)) P == Flows!Labels(Line(w)) f == [i \in 1 .. L |-> Line(w)[i].label]
<1>1. /\ L \in Nat /\ DOMAIN Line(w) = 1 .. L /\ LineOK(Line(w))
      /\ Graph(w).labels = P \cup {"COMPLETE", "DROPPED"}
  BY ShippedGraphs, LineReads DEF GraphOf, Flows!Terminals
<1>2. IsFiniteSet(1 .. L) /\ Cardinality(1 .. L) = L
  BY <1>1, FS_Interval
<1>3. f \in Surjection(1 .. L, P) /\ f \in Injection(1 .. L, P)
  BY <1>1 DEF LineOK, Flows!Labels, Surjection, Injection, IsInjective
<1>4. "COMPLETE" \notin P /\ "DROPPED" \notin P
  BY <1>1 DEF LineOK, Flows!Labels, Flows!Terminals
<1> HIDE DEF f, P, L
<1>5. IsFiniteSet(P) /\ Cardinality(P) = L
  BY <1>2, <1>3, FS_Surjection
<1>6. IsFiniteSet(P \cup {"COMPLETE"}) /\ Cardinality(P \cup {"COMPLETE"}) = L + 1
  BY <1>4, <1>5, FS_AddElement
<1>7. Cardinality((P \cup {"COMPLETE"}) \cup {"DROPPED"}) = (L + 1) + 1
  BY <1>4, <1>6, FS_AddElement
<1>8. (P \cup {"COMPLETE"}) \cup {"DROPPED"} = Graph(w).labels
  BY <1>1
<1>9. \A A : Flows!Cardinality(A) = Cardinality(A)
  BY Zenon DEF Cardinality, Flows!Cardinality
<1>10. Flows!Cardinality(Graph(w).labels) = L + 2
  <2>1. Flows!Cardinality(Graph(w).labels) = Cardinality(Graph(w).labels)
    BY <1>9
  <2>2. Cardinality(Graph(w).labels) = (L + 1) + 1
    BY <1>7, <1>8, Zenon
  <2>3. L \in Nat
    BY <1>1
  <2> QED
    BY <2>1, <2>2, <2>3
<1> QED
  BY <1>10 DEF L

LEMMA OverviewWalks ==
  ASSUME NEW w \in DOMAIN Flows!Lines
  PROVE  Flows!ordered_phases(w) = Way(w, Len(Line(w)))
<1> DEFINE L == Len(Line(w))
           A == {n \in Nat : Walk(w)[n] = Way(w, IF n < L THEN n ELSE L)}
<1>1. L \in Nat
  BY ShippedGraphs, LineReads
<1>2. 0 \in A
  <2>1. (IF 0 < L THEN 0 ELSE L) = 0
    BY <1>1
  <2> QED
    BY <2>1, WalkReads
<1>3. ASSUME NEW n \in A \cap Nat PROVE n + 1 \in A
  <2> DEFINE m == IF n < L THEN n ELSE L k == IF n + 1 < L THEN n + 1 ELSE L
  <2>1. m \in 0 .. L /\ (IF m < L THEN m + 1 ELSE m) = k
    BY <1>1
  <2>2. Walk(w)[n] = Way(w, m)
    OBVIOUS
  <2> HIDE DEF m, k
  <2>3. Onward(w, Way(w, m)) = Way(w, k)
    BY <2>1, WayGoesOn
  <2>4. Walk(w)[n + 1] = Way(w, k)
    BY <2>2, <2>3, WalkReads
  <2> QED
    BY <2>4 DEF k
<1>4. L + 2 \in A
  <2> HIDE DEF A
  <2> QED
    BY <1>1, <1>2, <1>3, Inductive
<1>5. Walk(w)[L + 2] = Way(w, L)
  <2>1. (IF L + 2 < L THEN L + 2 ELSE L) = L
    BY <1>1
  <2> QED
    BY <1>4, <2>1
<1>6. Flows!ordered_phases(w) = Walk(w)[Flows!Cardinality(Flows!W!Label(w))]
  BY Zenon DEF Flows!ordered_phases, Walk, Onward
<1>7. Flows!W!Label(w) = Graph(w).labels
  BY DEF Flows!W!Label, Graph
<1> QED
  BY <1>5, <1>6, <1>7, LabelsCounted

LEMMA OverviewShowsAll ==
  ASSUME NEW w \in DOMAIN Flows!Lines
  PROVE  /\ Flows!W!WellFormedGraph(Flows!discover_workflows[w])
         /\ Flows!Range(Flows!ordered_phases(w)) = Flows!W!Label(w) \ {"DROPPED"}
         /\ Flows!ordered_phases(w)[Len(Flows!ordered_phases(w))] = "COMPLETE"
<1> DEFINE L == Len(Line(w)) way == Way(w, L) g == Graph(w)
<1>1. L \in Nat /\ L \in 0 .. L /\ LineOK(Line(w)) /\ GraphOf(g, Line(w))
  BY ShippedGraphs, LineReads
<1>2. /\ way \in Seq(g.labels) /\ Len(way) = L + 1
      /\ \A i \in 1 .. L + 1 : way[i] = IF i <= L THEN Line(w)[i].label ELSE "COMPLETE"
  BY <1>1, WayReads
<1>3. way[L + 1] = "COMPLETE"
  BY <1>1, <1>2
<1>4. /\ g.labels \ {"DROPPED"} = {Line(w)[i].label : i \in 1 .. L} \cup {"COMPLETE"}
  <2>1. DOMAIN Line(w) = 1 .. L
    BY <1>1, LineReads
  <2> DEFINE line == Line(w) names == {line[i].label : i \in 1 .. L}
  <2>2. Flows!Labels(line) = names
    BY <2>1 DEF Flows!Labels
  <2>3. "DROPPED" \notin names
    BY <1>1 DEF LineOK, Flows!Terminals
  <2>4. g.labels = names \cup {"COMPLETE", "DROPPED"}
    BY <1>1, <2>2 DEF GraphOf, Flows!Terminals
  <2> HIDE DEF g, names
  <2>5. g.labels \ {"DROPPED"} = names \cup {"COMPLETE"}
    BY <2>3, <2>4
  <2> QED
    BY <2>5 DEF names
<1>5. Flows!Range(way) = g.labels \ {"DROPPED"}
  <2> HIDE DEF way, g, L
  <2>1. ASSUME NEW i \in 1 .. L + 1 PROVE way[i] \in g.labels \ {"DROPPED"}
    BY <1>1, <1>2, <1>4, <2>1
  <2>2. ASSUME NEW s \in g.labels \ {"DROPPED"} PROVE \E i \in 1 .. L + 1 : way[i] = s
    <3>1. CASE s = "COMPLETE"
      BY <1>1, <1>3, <3>1
    <3>2. CASE s # "COMPLETE"
      <4>1. PICK i \in 1 .. L : s = Line(w)[i].label
        BY <1>4, <3>2
      <4>2. i \in 1 .. L + 1 /\ i <= L
        BY <1>1
      <4> QED
        BY <1>2, <4>1, <4>2
    <3> QED
      BY <3>1, <3>2
  <2> QED
    BY <1>2, <2>1, <2>2 DEF Flows!Range
<1>6. Flows!W!Label(w) = g.labels
  BY DEF Flows!W!Label, Graph
<1>7. Flows!W!WellFormedGraph(Flows!discover_workflows[w])
  BY <1>1, GraphIsWell DEF Flows!discover_workflows, Line
<1> QED
  BY <1>2, <1>3, <1>5, <1>6, <1>7, OverviewWalks

-----------------------------------------------------------------------------
(* A task along its workflow *)

EntryFields == {"from", "to", "trigger", "promises", "wake"}

(* The current entry is of the phase the task is in; the agent was briefed on  *)
(* a phase of the workflow, and if that is another one, it can have resolved   *)
(* nothing here that is not promised there.                                    *)
EntryFits ==
  LET entry == task.history[1] g == Graph(task.workflow)
  IN /\ task.history = <<entry>> /\ DOMAIN entry = EntryFields
     /\ DOMAIN entry.promises = g.promised[task.state]
     /\ briefed # task.state =>
          \A k \in DOMAIN entry.promises : entry.promises[k] # "pending" => k \in g.promised[briefed]

FlowInv ==
  /\ task.workflow \in DOMAIN Flows!Lines
  /\ DOMAIN task = {"workflow", "state", "turn", "history"}
  /\ task.state \in Graph(task.workflow).labels
  /\ briefed \in Phased(task.workflow)
  /\ told = "advance" <=> briefed \in Graph(task.workflow).agentAdvanced
  /\ EntryFits
  /\ Flows!UserOpensGates /\ Flows!MergingWasApproved
  /\ task.state = "MERGING" \/ briefed = "MERGING" \/ shepherding = TRUE => agreed = TRUE
  /\ shepherding = TRUE => task.workflow \in Flows!Forge
  /\ shepherding \in BOOLEAN /\ agreed \in BOOLEAN

LEMMA AppendReads ==
  ASSUME NEW S, NEW u \in Seq(S), NEW b \in S
  PROVE  Append(u, b)[Len(u) + 1] = b /\ \A i \in 1 .. Len(u) : Append(u, b)[i] = u[i]
OBVIOUS

LEMMA Appends == ASSUME NEW a, NEW b PROVE Append(<<a>>, b) = <<a, b>>
<1> DEFINE S == {a, b} u == <<a>> v == <<a, b>>
<1>1. u \in Seq(S) /\ Len(u) = 1 /\ u[1] = a /\ b \in S
  OBVIOUS
<1>2. v \in Seq(S) /\ Len(v) = 2 /\ v[1] = a /\ v[2] = b
  OBVIOUS
<1> HIDE DEF S, u, v
<1> DEFINE x == Append(u, b)
<1>3. x \in Seq(S) /\ Len(x) = 2
  BY <1>1
<1>4. x[1] = a /\ x[2] = b
  <2>1. x[Len(u) + 1] = b /\ \A i \in 1 .. Len(u) : x[i] = u[i]
    BY <1>1, AppendReads, Zenon
  <2> HIDE DEF x
  <2> QED
    BY <1>1, <2>1
<1> HIDE DEF x
<1>5. x = v
  BY <1>2, <1>3, <1>4
<1> QED
  BY <1>5 DEF x, u, v

LEMMA EnteredReads ==
  ASSUME NEW t, NEW to, NEW trigger, DOMAIN t = {"workflow", "state", "turn", "history"},
         t.history = <<t.history[1]>>
  PROVE  LET s == Flows!Entered(t, to, trigger)
         IN /\ DOMAIN s = DOMAIN t /\ s.workflow = t.workflow /\ s.state = to
            /\ s.history = <<s.history[1]>> /\ DOMAIN s.history[1] = EntryFields
            /\ s.history[1].trigger = trigger
            /\ s.history[1].promises = [k \in Graph(t.workflow).promised[to] |-> "pending"]
<1> DEFINE e == Flows!W!NewEntry(t.workflow, t.state, to, trigger) old == t.history[1]
           n == Flows!W!Enter(t, to, trigger) s == Flows!Entered(t, to, trigger)
<1>1. /\ DOMAIN e = EntryFields /\ e.trigger = trigger
      /\ e.promises = [k \in Graph(t.workflow).promised[to] |-> "pending"]
  BY DEF Flows!W!NewEntry, EntryFields, Graph
<1>2. /\ n.history = Append(t.history, e) /\ DOMAIN n = DOMAIN t /\ n.workflow = t.workflow
      /\ n.state = to
  BY DEF Flows!W!Enter
<1> HIDE DEF e, n, old
<1>3. n.history = <<old, e>>
  <2>1. t.history = <<old>>
    BY DEF old
  <2>2. Append(<<old>>, e) = <<old, e>>
    BY Appends
  <2> QED
    BY <1>2, <2>1, <2>2
<1>4. Flows!W!CurrentEntry(n) = e
  BY <1>3 DEF Flows!W!CurrentEntry
<1>5. s = [n EXCEPT !.history = <<e>>]
  BY <1>4 DEF Flows!Entered, n
<1> HIDE DEF s
<1>6. /\ DOMAIN s = DOMAIN t /\ s.workflow = t.workflow /\ s.state = to /\ s.history = <<e>>
  BY <1>2, <1>5
<1> QED
  BY <1>1, <1>6 DEF s

LEMMA CurrentIsFirst ==
  ASSUME NEW t, t.history = <<t.history[1]>> PROVE Flows!W!CurrentEntry(t) = t.history[1]
<1> DEFINE e == t.history[1]
<1>1. t.history = <<e>>
  OBVIOUS
<1> HIDE DEF e
<1>2. Flows!W!CurrentEntry(t) = e
  BY <1>1 DEF Flows!W!CurrentEntry
<1> QED
  BY <1>2 DEF e

LEMMA PhasesFound ==
  ASSUME NEW w \in DOMAIN Flows!Lines, NEW s \in Graph(w).labels
  PROVE  /\ s \in Phased(w) \/ s \in Flows!Terminals
         /\ s \in Flows!Terminals => Flows!W!Verbs(w, s) = {} /\ s # "MERGING"
BY ShippedGraphs, AdvanceLeads DEF GraphOf, Phased, Flows!Terminals

LEMMA FlowStarts == Flows!Init => FlowInv
<1> SUFFICES ASSUME Flows!Init PROVE FlowInv
  OBVIOUS
<1>1. PICK w \in DOMAIN Flows!Lines :
        LET start == Flows!discover_workflows[w].initial
        IN task = [workflow |-> w, state |-> start, turn |-> Flows!W!TurnOnEnter(w, start),
                   history |-> <<Flows!W!StartEntry(w)>>]
  BY DEF Flows!Init
<1> DEFINE g == Graph(w) line == Line(w) start == g.initial entry == Flows!W!StartEntry(w)
<1>2. /\ LineOK(line) /\ GraphOf(g, line) /\ GatesFit(line, Flows!Gates[w])
  BY ShippedGraphs
<1>3. /\ task.workflow = w /\ task.state = start /\ task.history = <<entry>>
      /\ DOMAIN task = {"workflow", "state", "turn", "history"}
  BY <1>1 DEF Graph
<1>4. DOMAIN entry = EntryFields /\ DOMAIN entry.promises = g.promised[start]
  BY DEF Flows!W!StartEntry, Flows!W!NewEntry, EntryFields, Graph
<1>5. /\ briefed = start /\ told = Flows!BriefedEnd(start) /\ opener = "user"
      /\ shepherding = FALSE /\ pull = "open" /\ agreed = FALSE
  BY <1>3 DEF Flows!Init
<1>6. start \in g.labels /\ start \in Phased(w)
  BY <1>2, LineReads DEF GraphOf, Phased
<1>7. told = "advance" <=> start \in g.agentAdvanced
  BY <1>3, <1>5 DEF Flows!BriefedEnd, Flows!W!AdvancedByAgent, Graph
<1>8. EntryFits
  <2> HIDE DEF entry, start
  <2> QED
    BY <1>3, <1>4, <1>5 DEF EntryFits
<1>9. start # "MERGING"
  BY <1>2 DEF GraphOf, GatesFit
<1> QED
  BY <1>3, <1>5, <1>6, <1>7, <1>8, <1>9 DEF FlowInv, Flows!UserOpensGates,
     Flows!MergingWasApproved

LEMMA FlowRests == FlowInv /\ UNCHANGED flowVars => FlowInv'
<1> SUFFICES ASSUME FlowInv, UNCHANGED flowVars PROVE FlowInv'
  OBVIOUS
<1>1. /\ task' = task /\ briefed' = briefed /\ told' = told /\ opener' = opener
      /\ shepherding' = shepherding /\ pull' = pull /\ agreed' = agreed
  BY DEF flowVars
<1> QED
  BY <1>1, Zenon DEF FlowInv, EntryFits, Flows!UserOpensGates, Flows!MergingWasApproved,
     Flows!W!CurrentEntry

(* A step into another state keeps the invariant if it keeps to the gates.     *)
LEMMA EnteringKeepsFlow ==
  ASSUME FlowInv, NEW t, NEW to, NEW trigger, task' = Flows!Entered(t, to, trigger),
         t.workflow = task.workflow, DOMAIN t = DOMAIN task, t.history = <<t.history[1]>>,
         to \in Graph(task.workflow).labels, UNCHANGED <<briefed, told>>,
         NEW who, Flows!Opens(who),
         \/ who = "user"
         \/ (to \notin Flows!Gates[task.workflow] \/ trigger = "set_state") /\ to # "MERGING"
         \/ who = "skill" /\ pull' = "merged",
         pull' = pull, shepherding' \in {shepherding, FALSE}
  PROVE  FlowInv'
<1> DEFINE w == task.workflow g == Graph(w)
<1>1. /\ DOMAIN task' = {"workflow", "state", "turn", "history"} /\ task'.workflow = w
      /\ task'.state = to /\ task'.history = <<task'.history[1]>>
      /\ DOMAIN task'.history[1] = EntryFields
      /\ task'.history[1].trigger = trigger
      /\ task'.history[1].promises = [k \in g.promised[to] |-> "pending"]
  BY EnteredReads DEF FlowInv
<1>2. briefed' = briefed /\ told' = told
  OBVIOUS
<1>3. EntryFits'
  BY <1>1, <1>2 DEF EntryFits
<1>4. Flows!W!CurrentEntry(task') = task'.history[1]
  BY <1>1, CurrentIsFirst
<1>5. /\ opener' = who /\ agreed' = (agreed \/ (who = "user" /\ to = "MERGING"))
      /\ agreed \in BOOLEAN /\ shepherding \in BOOLEAN
  BY <1>1 DEF Flows!Opens, FlowInv
<1>6. agreed' \in BOOLEAN /\ (agreed = TRUE => agreed' = TRUE) /\ shepherding' \in BOOLEAN
  BY <1>5, Zenon
<1>7. pull # "open" => agreed = TRUE
  BY <1>5 DEF FlowInv, Flows!MergingWasApproved
<1>8. to = "MERGING" => agreed' = TRUE
  <2>1. to = "MERGING" => who = "user" \/ pull = "merged"
    OBVIOUS
  <2>2. CASE who = "user"
    BY <1>5, <2>2, Zenon
  <2>3. CASE pull = "merged"
    BY <1>6, <1>7, <2>3
  <2> QED
    BY <2>1, <2>2, <2>3
<1>9. Flows!UserOpensGates'
  BY <1>1, <1>4, <1>5 DEF Flows!UserOpensGates
<1>10. Flows!MergingWasApproved'
  BY <1>1, <1>5, <1>6, <1>7 DEF Flows!MergingWasApproved
<1>11. /\ task'.state = "MERGING" \/ briefed' = "MERGING" \/ shepherding' = TRUE => agreed' = TRUE
       /\ shepherding' = TRUE => task'.workflow \in Flows!Forge
  BY <1>1, <1>2, <1>6, <1>8 DEF FlowInv
<1> QED
  BY <1>1, <1>2, <1>3, <1>6, <1>9, <1>10, <1>11 DEF FlowInv

LEMMA StateLeads ==
  ASSUME FlowInv, Flows!Leads(task.state)
  PROVE  \E i \in 1 .. Len(Line(task.workflow)) :
           /\ task.state = Line(task.workflow)[i].label
           /\ Flows!Forward(task.state) = Flows!After(Line(task.workflow), i)
           /\ Flows!After(Line(task.workflow), i) \in Graph(task.workflow).labels \ {"DROPPED"}
<1> DEFINE w == task.workflow
<1>1. w \in DOMAIN Flows!Lines /\ task.state \in Graph(w).labels
  BY DEF FlowInv
<1>2. task.state \in Phased(w)
  BY <1>1, PhasesFound DEF Flows!Leads
<1>3. PICK i \in 1 .. Len(Line(w)) : task.state = Line(w)[i].label
  BY <1>2 DEF Phased
<1>4. Flows!Forward(task.state) = Flows!After(Line(w), i)
  BY <1>1, <1>3, AdvanceLeads DEF Flows!Forward
<1>5. Flows!After(Line(w), i) \in Graph(w).labels \ {"DROPPED"}
  BY <1>1, ShippedGraphs DEF GraphOf
<1> QED
  BY <1>3, <1>4, <1>5

LEMMA BriefingKeepsFlow == FlowInv /\ Flows!briefing => FlowInv'
<1> SUFFICES ASSUME FlowInv, Flows!briefing PROVE FlowInv'
  OBVIOUS
<1> DEFINE w == task.workflow
<1>1. /\ task' = task /\ opener' = opener /\ briefed' = task.state
      /\ shepherding' = shepherding /\ pull' = pull /\ agreed' = agreed
      /\ told' = Flows!BriefedEnd(task.state) /\ task.state \notin Graph(w).terminals
  BY DEF Flows!briefing, Flows!W!IsTerminal, Flows!landing, Graph
<1>2. w \in DOMAIN Flows!Lines /\ task.state \in Graph(w).labels
  BY DEF FlowInv
<1>3. task.state \in Phased(w)
  BY <1>1, <1>2, PhasesFound, ShippedGraphs DEF GraphOf
<1>4. told' = "advance" <=> task.state \in Graph(w).agentAdvanced
  BY <1>1 DEF Flows!BriefedEnd, Flows!W!AdvancedByAgent, Graph
<1>5. EntryFits'
  BY <1>1 DEF FlowInv, EntryFits
<1>6. Flows!UserOpensGates' /\ Flows!MergingWasApproved'
  BY <1>1, Zenon DEF FlowInv, Flows!UserOpensGates, Flows!MergingWasApproved, Flows!W!CurrentEntry
<1> QED
  BY <1>1, <1>3, <1>4, <1>5, <1>6, Zenon DEF FlowInv

(* Out of a phase that the agent leaves, and out of one whose promises are all *)
(* promised in such a phase, no way leads through a gate.                      *)
LEMMA AgentStaysInside ==
  ASSUME FlowInv, Flows!Leads(task.state),
         \/ task.state \in Graph(task.workflow).agentAdvanced
         \/ /\ briefed \in Graph(task.workflow).agentAdvanced /\ task.state # briefed
            /\ Graph(task.workflow).promised[task.state] \subseteq Graph(task.workflow).promised[briefed]
  PROVE  Flows!Forward(task.state) \notin Flows!Gates[task.workflow] \cup {"MERGING"}
<1> DEFINE w == task.workflow line == Line(w) g == Graph(w)
<1>1. /\ w \in DOMAIN Flows!Lines /\ briefed \in Phased(w)
      /\ GraphOf(g, line) /\ GatesFit(line, Flows!Gates[w])
  BY ShippedGraphs DEF FlowInv
<1>2. PICK i \in 1 .. Len(line) :
        task.state = line[i].label /\ Flows!Forward(task.state) = Flows!After(line, i)
  BY StateLeads
<1>3. PICK j \in 1 .. Len(line) : briefed = line[j].label
  BY <1>1 DEF Phased
<1>4. /\ task.state \in g.agentAdvanced <=> line[i].advancedBy = "agent"
      /\ briefed \in g.agentAdvanced <=> line[j].advancedBy = "agent"
      /\ g.promised[task.state] = line[i].promised /\ g.promised[briefed] = line[j].promised
  BY <1>1, <1>2, <1>3 DEF GraphOf
<1>5. CASE task.state \in g.agentAdvanced
  BY <1>1, <1>2, <1>4, <1>5 DEF GatesFit
<1>6. CASE /\ briefed \in g.agentAdvanced /\ task.state # briefed
           /\ g.promised[task.state] \subseteq g.promised[briefed]
  <2>1. i # j
    BY <1>2, <1>3, <1>6
  <2> HIDE DEF line, g
  <2> QED
    BY <1>1, <1>2, <1>4, <1>6, <2>1 DEF GatesFit
<1> QED
  BY <1>5, <1>6

LEMMA ResolvingKeepsFlow ==
  ASSUME FlowInv, NEW k \in DOMAIN Flows!Promises, NEW status \in {"pending", "met"},
         Flows!resolve_responsibility(k, status)
  PROVE  FlowInv'
<1> DEFINE w == task.workflow g == Graph(w) e == task.history[1]
           f == [e EXCEPT !.promises[k] = status]
           noted == [task EXCEPT !.history[1].promises[k] = status]
<1>1. /\ task.history = <<e>> /\ DOMAIN e = EntryFields /\ DOMAIN e.promises = g.promised[task.state]
      /\ briefed # task.state =>
           \A q \in DOMAIN e.promises : e.promises[q] # "pending" => q \in g.promised[briefed]
      /\ DOMAIN task = {"workflow", "state", "turn", "history"}
  BY DEF FlowInv, EntryFits
<1>2. /\ k \in g.promised[briefed] /\ UNCHANGED <<briefed, told, shepherding, pull>>
      /\ IF Flows!W!Outstanding(Flows!W!CurrentEntry(noted).promises) = {}
            /\ Flows!AdvancesItself(task.state)
         THEN task' = Flows!Entered(noted, Flows!Forward(task.state), "advance")
              /\ Flows!Opens("agent")
         ELSE task' = noted /\ UNCHANGED <<opener, agreed>>
  BY DEF Flows!resolve_responsibility, Flows!landing, Graph
<1>3. k \in DOMAIN e.promises
  BY <1>1, CurrentIsFirst DEF Flows!Promises
<1>4. /\ noted.workflow = w /\ noted.state = task.state /\ DOMAIN noted = DOMAIN task
      /\ noted.history = [task.history EXCEPT ![1] = f]
  BY <1>1
<1> HIDE DEF noted
<1>5. noted.history = <<f>>
  <2>1. task.history = <<e>>
    BY <1>1
  <2> HIDE DEF e, f
  <2>2. [<<e>> EXCEPT ![1] = f] = <<f>>
    OBVIOUS
  <2> QED
    BY <1>4, <2>1, <2>2
<1>6. /\ DOMAIN f = EntryFields /\ f.trigger = e.trigger /\ DOMAIN f.promises = DOMAIN e.promises
      /\ \A q \in DOMAIN e.promises : q # k => f.promises[q] = e.promises[q]
  BY <1>1, <1>3 DEF EntryFields
<1> HIDE DEF f
<1>7. noted.history[1] = f /\ noted.history = <<noted.history[1]>>
  BY <1>5
<1>8. CASE task' = noted /\ UNCHANGED <<opener, agreed>>
  <2>1. EntryFits'
    BY <1>1, <1>2, <1>4, <1>6, <1>7, <1>8 DEF EntryFits
  <2>2. Flows!W!CurrentEntry(task').trigger = Flows!W!CurrentEntry(task).trigger
    <3>1. Flows!W!CurrentEntry(task') = f
      BY <1>7, <1>8, CurrentIsFirst
    <3>2. Flows!W!CurrentEntry(task) = e
      BY <1>1, CurrentIsFirst
    <3> QED
      BY <1>6, <3>1, <3>2
  <2>3. Flows!UserOpensGates' /\ Flows!MergingWasApproved'
    BY <1>2, <1>4, <1>8, <2>2 DEF FlowInv, Flows!UserOpensGates, Flows!MergingWasApproved
  <2>4. task'.workflow = w /\ task'.state = task.state /\ DOMAIN task' = DOMAIN task
        /\ briefed' = briefed /\ told' = told
        /\ shepherding' = shepherding /\ pull' = pull /\ agreed' = agreed
    BY <1>2, <1>4, <1>8
  <2> QED
    BY <2>1, <2>3, <2>4, Zenon DEF FlowInv
<1>9. CASE /\ task' = Flows!Entered(noted, Flows!Forward(task.state), "advance")
           /\ Flows!Opens("agent")
           /\ Flows!AdvancesItself(task.state)
  <2>1. Flows!Leads(task.state) /\ task.state \in g.agentAdvanced
    BY <1>9 DEF Flows!AdvancesItself, Flows!W!AdvancedByAgent, Graph
  <2>2. Flows!Forward(task.state) \notin Flows!Gates[w] \cup {"MERGING"}
    BY <2>1, AgentStaysInside
  <2>3. Flows!Forward(task.state) \in Graph(task.workflow).labels
    BY <2>1, StateLeads
  <2> QED
    BY <1>2, <1>4, <1>7, <1>9, <2>2, <2>3, EnteringKeepsFlow
<1> QED
  BY <1>2, <1>8, <1>9

LEMMA AdvancingKeepsFlow ==
  ASSUME FlowInv, NEW who, Flows!Advance(who), pull' = pull, shepherding' \in {shepherding, FALSE},
         \/ who = "user" \/ Flows!Forward(task.state) \notin Flows!Gates[task.workflow] \cup {"MERGING"}
         \/ who = "skill" /\ pull = "merged"
  PROVE  FlowInv'
<1>1. /\ Flows!Leads(task.state) /\ Flows!Opens(who) /\ UNCHANGED <<briefed, told>>
      /\ task' = Flows!Entered(task, Flows!Forward(task.state), "advance")
  BY DEF Flows!Advance
<1>2. Flows!Forward(task.state) \in Graph(task.workflow).labels
  BY <1>1, StateLeads
<1>3. task.history = <<task.history[1]>>
  BY DEF FlowInv, EntryFits
<1> QED
  BY <1>1, <1>2, <1>3, EnteringKeepsFlow

LEMMA AgentKeepsFlow == FlowInv /\ Flows!AgentAdvances => FlowInv'
<1> SUFFICES ASSUME FlowInv, Flows!AgentAdvances PROVE FlowInv'
  OBVIOUS
<1> DEFINE w == task.workflow g == Graph(w) e == task.history[1] to == Flows!Forward(task.state)
<1>1. /\ task.history = <<e>> /\ DOMAIN e.promises = g.promised[task.state]
      /\ briefed # task.state =>
           \A q \in DOMAIN e.promises : e.promises[q] # "pending" => q \in g.promised[briefed]
      /\ told = "advance" <=> briefed \in g.agentAdvanced
  BY DEF FlowInv, EntryFits
<1>2. told = "advance" /\ Flows!Advance("agent") /\ UNCHANGED <<shepherding, pull>>
  BY DEF Flows!AgentAdvances, Flows!landing
<1>3. Flows!Leads(task.state) /\ Flows!W!MayApply(task, to)
  BY <1>2 DEF Flows!Advance
<1>4. to # "DROPPED"
  BY <1>3, StateLeads
<1>5. Flows!W!Outstanding(e.promises) = {}
  <2>1. Flows!W!CurrentEntry(task) = e
    BY <1>1, CurrentIsFirst
  <2> QED
    BY <1>3, <1>4, <2>1 DEF Flows!W!MayApply, Flows!W!Dropped
<1>6. briefed # task.state => g.promised[task.state] \subseteq g.promised[briefed]
  BY <1>1, <1>5 DEF Flows!W!Outstanding
<1>7. to \notin Flows!Gates[w] \cup {"MERGING"}
  BY <1>1, <1>2, <1>3, <1>6, AgentStaysInside
<1> QED
  BY <1>2, <1>7, AdvancingKeepsFlow

LEMMA RecoveryKeepsFlow == FlowInv /\ Flows!MergeRecovery => FlowInv'
<1> SUFFICES ASSUME FlowInv, Flows!MergeRecovery PROVE FlowInv'
  OBVIOUS
<1> DEFINE w == task.workflow to == Flows!merge_recovery_state(w)
<1>1. /\ briefed = "MERGING" \/ shepherding = TRUE
      /\ task' = Flows!Entered(task, to, "set_state") /\ Flows!Opens("agent")
      /\ UNCHANGED <<briefed, told, pull>> /\ shepherding' = FALSE
  BY DEF Flows!MergeRecovery, FlowInv
<1>2. w \in DOMAIN Flows!Lines /\ task.history = <<task.history[1]>>
  BY DEF FlowInv, EntryFits
<1>3. GatesFit(Line(w), Flows!Gates[w]) /\ GraphOf(Graph(w), Line(w))
  BY <1>2, ShippedGraphs
<1>4. "MERGING" \in Flows!Labels(Line(w))
  <2>1. CASE briefed = "MERGING"
    BY <2>1 DEF FlowInv, Phased, Flows!Labels
  <2>2. CASE shepherding = TRUE
    BY <1>2, <2>2, ForgeMerges DEF FlowInv
  <2> QED
    BY <1>1, <2>1, <2>2
<1>5. {"BUILDING", "ITERATING"} \cap Graph(w).labels # {}
  BY <1>3, <1>4 DEF GatesFit, GraphOf
<1>6. to \in Graph(w).labels /\ to # "MERGING"
  BY <1>5 DEF Flows!merge_recovery_state, Flows!W!Label, Graph
<1> QED
  BY <1>1, <1>2, <1>6, EnteringKeepsFlow

(* What neither moves the task nor briefs the agent keeps the invariant, if    *)
(* nothing that has landed is taken back.                                      *)
LEMMA LandingKeepsFlow ==
  ASSUME FlowInv, UNCHANGED <<task, briefed, told, opener>>,
         pull = "merged" => pull' = "merged", agreed' \in BOOLEAN, shepherding' \in BOOLEAN,
         agreed = TRUE => agreed' = TRUE,
         pull' # "open" \/ shepherding' = TRUE => agreed' = TRUE,
         shepherding' = TRUE => task.workflow \in Flows!Forge
  PROVE  FlowInv'
<1>1. task' = task /\ briefed' = briefed /\ told' = told /\ opener' = opener
  OBVIOUS
<1>2. EntryFits'
  BY <1>1, Zenon DEF FlowInv, EntryFits
<1>3. Flows!UserOpensGates'
  BY <1>1, Zenon DEF FlowInv, Flows!UserOpensGates, Flows!W!CurrentEntry
<1>4. Flows!MergingWasApproved'
  BY <1>1 DEF FlowInv, Flows!MergingWasApproved
<1> QED
  BY <1>1, <1>2, <1>3, <1>4 DEF FlowInv

LEMMA QueueKeepsFlow ==
  FlowInv /\ (Flows!babysit_ci \/ Flows!Queue \/ Flows!UserLands) => FlowInv'
<1> SUFFICES ASSUME FlowInv, Flows!babysit_ci \/ Flows!Queue \/ Flows!UserLands PROVE FlowInv'
  OBVIOUS
<1>1. /\ UNCHANGED <<task, briefed, told, opener>> /\ agreed \in BOOLEAN /\ shepherding \in BOOLEAN
      /\ pull # "open" => agreed = TRUE
      /\ shepherding = TRUE => agreed = TRUE /\ task.workflow \in Flows!Forge
  BY DEF Flows!babysit_ci, Flows!Queue, Flows!UserLands, FlowInv, Flows!MergingWasApproved
<1>2. CASE Flows!babysit_ci
  BY <1>1, <1>2, LandingKeepsFlow DEF Flows!babysit_ci
<1>3. CASE Flows!Queue
  BY <1>1, <1>3, LandingKeepsFlow DEF Flows!Queue
<1>4. CASE Flows!UserLands
  BY <1>1, <1>4, LandingKeepsFlow DEF Flows!UserLands
<1> QED
  BY <1>2, <1>3, <1>4

LEMMA MergingKeepsFlow == FlowInv /\ Flows!babysit_merge => FlowInv'
<1> SUFFICES ASSUME FlowInv, Flows!babysit_merge PROVE FlowInv'
  OBVIOUS
<1>1. /\ task.workflow \in Flows!Forge /\ agreed \in BOOLEAN /\ shepherding \in BOOLEAN
      /\ agreed = TRUE
  BY DEF Flows!babysit_merge, FlowInv
<1>2. CASE /\ pull = "open" /\ pull' = "queued" /\ shepherding' = TRUE
           /\ UNCHANGED <<task, briefed, told, opener, agreed>>
  BY <1>1, <1>2, LandingKeepsFlow
<1>3. CASE pull = "merged" /\ Flows!Advance("skill") /\ shepherding' = FALSE /\ UNCHANGED pull
  BY <1>3, AdvancingKeepsFlow
<1>4. CASE /\ pull # "open" /\ shepherding' = ~shepherding
           /\ UNCHANGED <<task, briefed, told, opener, pull, agreed>>
  BY <1>1, <1>4, LandingKeepsFlow DEF FlowInv
<1> QED
  BY <1>2, <1>3, <1>4 DEF Flows!babysit_merge

LEMMA UserKeepsFlow == FlowInv /\ Flows!UserMoves => FlowInv'
<1> SUFFICES ASSUME FlowInv, Flows!UserMoves PROVE FlowInv'
  OBVIOUS
<1> DEFINE w == task.workflow
<1>1. /\ Flows!Opens("user") /\ UNCHANGED <<briefed, told, shepherding, pull>>
      /\ task.history = <<task.history[1]>> /\ w \in DOMAIN Flows!Lines
  BY DEF Flows!UserMoves, Flows!landing, FlowInv, EntryFits
<1>2. CASE \E to \in Flows!W!Label(w) :
             Flows!W!MayForce(task, to) /\ task' = Flows!Entered(task, to, "set_state")
  <2>1. PICK to \in Graph(w).labels : task' = Flows!Entered(task, to, "set_state")
    BY <1>2 DEF Flows!W!Label, Graph
  <2> QED
    BY <1>1, <2>1, EnteringKeepsFlow
<1>3. CASE task' = Flows!Entered(task, Flows!W!Dropped, "drop")
  <2>1. Flows!W!Dropped \in Graph(w).labels
    BY <1>1, ShippedGraphs DEF GraphOf, Flows!Terminals, Flows!W!Dropped
  <2> QED
    BY <1>1, <1>3, <2>1, EnteringKeepsFlow
<1> QED
  BY <1>2, <1>3 DEF Flows!UserMoves

LEMMA FlowKeeps == FlowInv /\ Flows!Next => FlowInv'
<1> SUFFICES ASSUME FlowInv, Flows!Next PROVE FlowInv'
  OBVIOUS
<1>1. CASE Flows!Advance("user") /\ UNCHANGED <<shepherding, pull>>
  BY <1>1, AdvancingKeepsFlow
<1> QED
  BY <1>1, BriefingKeepsFlow, ResolvingKeepsFlow, AgentKeepsFlow, RecoveryKeepsFlow, UserKeepsFlow,
     QueueKeepsFlow, MergingKeepsFlow, Zenon DEF Flows!Next, Flows!landing

LEMMA BookKeepsFlow == FlowInv /\ [BookNext]_vars => FlowInv'
<1> SUFFICES ASSUME FlowInv, [BookNext]_vars PROVE FlowInv'
  OBVIOUS
<1>1. CASE Flows!Next
  BY <1>1, FlowKeeps
<1>2. CASE UNCHANGED flowVars
  BY <1>2, FlowRests
<1> QED
  BY <1>1, <1>2, Zenon DEF BookNext, vars

LEMMA FlowPromises == FlowInv => GatesStayShut
<1> SUFFICES ASSUME FlowInv PROVE Flows!GatesStayShut
  BY DEF GatesStayShut
<1>1. task.workflow \in Flows!WholeOverviews
  <2>1. task.workflow \in DOMAIN Flows!Lines
    BY DEF FlowInv
  <2>2. Flows!OverviewIsWhole(task.workflow)
    BY <2>1, OverviewShowsAll, Zenon DEF Flows!OverviewIsWhole
  <2> QED
    BY <2>1, <2>2 DEF Flows!WholeOverviews
<1> QED
  BY <1>1 DEF FlowInv, Flows!GatesStayShut

(* Whatever is briefed, resolved, retried, queued or moved in which order, no  *)
(* promise resolved and no advance a briefing asks for takes a task of a       *)
(* shipped workflow over a gate that is the user's; babysit-merge does so only *)
(* once the change has landed, and nothing lands to which the user never       *)
(* agreed. The overview shows every phase (workflows/*.py, apply_transition,   *)
(* resolve_responsibility).                                                    *)
THEOREM GatesAreKept == Spec => []GatesStayShut
<1>1. BookInit => FlowInv
  BY FlowStarts, Zenon DEF BookInit
<1> QED
  BY <1>1, BookKeepsFlow, FlowPromises, PTL DEF Spec

=============================================================================
