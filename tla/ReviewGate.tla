----------------------------- MODULE ReviewGate -----------------------------
(* The two verified reviews a task of the 2119 workflow needs                 *)
(* (container/reviewers.py): the agent dispatches a reviewer per slot, each a *)
(* subprocess in the task's own checkout, and completes the stage with two    *)
(* posted comments. The agent may edit and commit, and reviewers may touch    *)
(* the checkout, between any two commands.                                    *)
(*                                                                            *)
(* A checkout is the commit at HEAD and how many files git status lists: an   *)
(* edit of a listed file changes neither, so nobody sees it. HEAD is never    *)
(* moved back and an edit only committed, never reverted (within one review   *)
(* either would pass unseen as well). A comment carries its evidence, and     *)
(* beside it what is true of the review. The commit and the round are the     *)
(* agent's word, at a dispatch and at the gate; it hands the gate two         *)
(* different comments.                                                        *)
EXTENDS Naturals, Sequences, FiniteSets

CONSTANTS
  Models,
  Defects,    \* what may be wrong with a reviewer's answer, and "none"
  Slots,      \* the pairs of reviewer configurations a repository may have
  Work        \* the bounds a behaviour may start with: on dispatches, commits, edits, faults

VARIABLES
  slots,      \* the two reviewer configurations
  checkout,   \* HEAD and the files git status lists
  round,      \* the review round the agent is in
  call,       \* the dispatch_reviews call under way
  rollouts,   \* the rollouts below CODEX_HOME
  posted,     \* the comments posted
  artifacts,  \* the positions of those that are also published as artifacts
  verdict,    \* what complete_review_stage resolved
  work        \* what is left of the bounds

reviewVars == <<slots, checkout, round, call, rollouts, posted, artifacts, verdict, work>>

NoCall   == [pc |-> "idle"]
Unsettled == [commit |-> 0, round |-> 0]
Pay(what) == work[what] > 0 /\ work' = [work EXCEPT ![what] = @ - 1]

Config == slots[call.slot]
Step(pc) == call' = [call EXCEPT !.pc = pc]

(* An edit lists one more file, or changes one that is listed. *)
Edited == {[checkout EXCEPT !.files = n] : n \in {checkout.files, checkout.files + 1} \ {0}}

(* What happens to the checkout during a review (observed, not stored). *)
How(after) == IF after = checkout THEN "unseen" ELSE "seen"
Touch(c, how) == IF c.pc \in {"run", "after"} THEN [c EXCEPT !.touched = @ \cup {how}] ELSE c

(* A raised error ends the whole call; what was posted stays. *)
RaiseError == call' = NoCall

Files == UNCHANGED <<slots, round, rollouts, posted, artifacts, verdict>>

-----------------------------------------------------------------------------
(* The agent *)

Edit ==
  /\ Pay("edits")
  /\ checkout' \in Edited
  /\ call' = Touch(call, How(checkout'))
  /\ Files

Commit ==
  /\ Pay("commits")
  /\ checkout' = [head |-> checkout.head + 1, files |-> 0]
  /\ round' \in {round, round + 1}
  /\ call' = Touch(call, "seen")
  /\ UNCHANGED <<slots, rollouts, posted, artifacts, verdict>>

parse_reviewer_config(c) == c.harness \in {"claude", "codex"} /\ c.model \in Models

resolve_reviewers == \A k \in 1 .. 2 : parse_reviewer_config(slots[k])

(* The commit and the round are what the agent believes they are. *)
dispatch_reviews(commit, n) ==
  /\ call = NoCall /\ Pay("dispatches")
  /\ resolve_reviewers
  /\ call' = [pc |-> "head", slot |-> 1, commit |-> commit, round |-> n, files |-> 0,
              model |-> "none", defect |-> "none", thread |-> 0, touched |-> {}]
  /\ UNCHANGED checkout /\ Files

-----------------------------------------------------------------------------
(* One review *)

CheckHead ==
  /\ call.pc = "head"
  /\ IF parse_reviewer_config(Config) /\ checkout.head = call.commit
     THEN Step("status")
     ELSE RaiseError
  /\ UNCHANGED <<checkout, work>> /\ Files

ReadStatus ==
  /\ call.pc = "status"
  /\ call' = [call EXCEPT !.pc = "run", !.files = checkout.files, !.touched = {}]
  /\ UNCHANGED <<checkout, work>> /\ Files

(* The subprocess: it answers as some model, or fails or times out, and may   *)
(* touch the checkout. Codex keeps a rollout of its thread, if it can.        *)
Kept(defect) == Config.harness = "codex" /\ defect \notin {"exit", "unkept"}

Answered(model, defect, touched) ==
  [call EXCEPT !.pc = "after", !.model = model, !.defect = defect,
               !.thread = IF Kept(defect) THEN Len(rollouts') ELSE 0,
               !.touched = @ \cup touched]

Run(model, defect) ==
  /\ call.pc = "run"
  /\ rollouts' = IF Kept(defect) THEN Append(rollouts, model) ELSE rollouts
  /\ \/ UNCHANGED <<checkout, work>> /\ call' = Answered(model, defect, {})
     \/ /\ Pay("faults")
        /\ checkout' \in Edited \cup {[checkout EXCEPT !.head = @ + 1]}
        /\ call' = Answered(model, defect, {How(checkout')})
  /\ UNCHANGED <<slots, round, posted, artifacts, verdict>>

(* The agent's own Codex session keeps its rollouts in the same directory. *)
OwnRollout(model) ==
  /\ call.pc \in {"after", "verify"} /\ Pay("edits")
  /\ rollouts' = Append(rollouts, model)
  /\ UNCHANGED <<slots, checkout, round, call, posted, artifacts, verdict>>

_default_run == call.defect # "exit"

Untouched == checkout.files = call.files /\ checkout.head = call.commit

CheckAfter ==
  /\ call.pc = "after"
  /\ IF Untouched /\ _default_run THEN Step("verify") ELSE RaiseError
  /\ UNCHANGED <<checkout, work>> /\ Files

(* Claude's answer counts tokens per model: one entry must account for all of them. *)
verify_claude_response ==
  (IF call.defect = "usage" THEN Models ELSE {call.model}) = {Config.model}

_rollout_for_thread == {i \in DOMAIN rollouts : i = call.thread}

verify_codex_response == {rollouts[i] : i \in _rollout_for_thread} = {Config.model}

(* An answer of either CLI has a text to post. *)
Verified ==
  /\ IF Config.harness = "claude" THEN verify_claude_response ELSE verify_codex_response
  /\ call.defect # "body"

Verify ==
  /\ call.pc = "verify"
  /\ IF Verified THEN Step("post") ELSE RaiseError
  /\ UNCHANGED <<checkout, work>> /\ Files

render_review_comment ==
  [harness |-> Config.harness, model |-> Config.model, commit |-> call.commit,
   round |-> call.round, outcome |-> call.defect # "section",
   by |-> call.model, clean |-> call.files = 0, touched |-> call.touched]

(* A failed publication may have been made. *)
post_comment ==
  /\ call.pc = "post"
  /\ \/ Step("artifact") /\ posted' = Append(posted, render_review_comment) /\ UNCHANGED work
     \/ RaiseError /\ posted' \in {posted, Append(posted, render_review_comment)} /\ Pay("faults")
  /\ UNCHANGED <<slots, checkout, round, rollouts, artifacts, verdict>>

LastComment == Len(posted)

(* The comment becomes an artifact, and the call goes on to the second slot. *)
publish_artifact ==
  /\ call.pc = "artifact"
  /\ \/ /\ artifacts' = artifacts \cup {LastComment}
        /\ call' = IF call.slot = 1 THEN [call EXCEPT !.pc = "head", !.slot = 2] ELSE NoCall
        /\ UNCHANGED work
     \/ RaiseError /\ Pay("faults") /\ UNCHANGED artifacts
  /\ UNCHANGED <<slots, checkout, round, rollouts, posted, verdict>>

-----------------------------------------------------------------------------
(* The gate *)

(* A slip: reviews of an earlier commit of the round still count. *)
SameRound(c, k, commit, n) ==
  c.outcome /\ c.harness = slots[k].harness /\ c.model = slots[k].model /\ c.round = n

Matches(c, k, commit, n) ==
  /\ c.outcome
  /\ c.harness = slots[k].harness /\ c.model = slots[k].model
  /\ c.commit = commit /\ c.round = n

validate_review_gate(pair, commit, n) == \A k \in 1 .. 2 : Matches(posted[pair[k]], k, commit, n)

(* The gate is passed, then the findings are triaged and the responsibility resolved. *)
(* Neither HEAD nor the round is looked up: the agent passes both.                    *)
complete_review_stage(pair, commit, n) ==
  /\ call = NoCall /\ verdict = Unsettled
  /\ validate_review_gate(pair, commit, n)
  /\ verdict' = [commit |-> commit, round |-> n]
  /\ UNCHANGED <<slots, checkout, round, call, rollouts, posted, artifacts, work>>

-----------------------------------------------------------------------------
Init ==
  /\ slots \in Slots /\ work \in Work
  /\ checkout = [head |-> 1, files |-> 0] /\ round = 1
  /\ call = NoCall /\ rollouts = <<>> /\ posted = <<>> /\ artifacts = {}
  /\ verdict = Unsettled

Next ==
  \/ Edit \/ Commit \/ CheckHead \/ ReadStatus \/ CheckAfter \/ Verify \/ post_comment
  \/ publish_artifact
  \/ \E c \in 1 .. checkout.head, n \in 1 .. round : dispatch_reviews(c, n)
  \/ \E m \in Models : OwnRollout(m) \/ (\E d \in Defects : Run(m, d))
  \/ \E i, j \in DOMAIN posted, c \in 1 .. checkout.head, n \in 1 .. round :
       i # j /\ complete_review_stage(<<i, j>>, c, n)

Spec == Init /\ [][Next]_reviewVars

-----------------------------------------------------------------------------
(* Each variable has its type. *)
TypeOK ==
  /\ slots \in Slots
  /\ checkout \in [head : Nat \ {0}, files : Nat] /\ round \in Nat \ {0}
  /\ call.pc \in {"idle", "head", "status", "run", "after", "verify", "post", "artifact"}
  /\ rollouts \in Seq(Models)
  /\ \A i \in DOMAIN posted : posted[i].model \in Models /\ posted[i].by \in Models
  /\ artifacts \subseteq DOMAIN posted
  /\ verdict.commit <= checkout.head /\ verdict.round <= round

(* Nothing is posted under the name of a model that did not write it, though  *)
(* the agent's own sessions keep rollouts beside the reviewers' and a CLI may *)
(* keep none (reviewers.py:176, the correlation by thread).                   *)
PostedUnderOwnName == \A i \in DOMAIN posted : posted[i].by = posted[i].model

(* Every comment is of the commit it names and of a checkout whose HEAD and   *)
(* listing nobody changed from before the review to after it; of a clean one  *)
(* nobody changed anything. Only a file that was listed already may have been *)
(* edited under the review: that is not looked for (reviewers.py:392).        *)
PostedOfOneCheckout ==
  \A i \in DOMAIN posted : posted[i].touched \subseteq IF posted[i].clean THEN {} ELSE {"unseen"}

(* With one slot misconfigured no reviewer runs at all, in either slot: a     *)
(* round never has half of its reviews for that reason (reviewers.py:443).     *)
NothingHalfConfigured ==
  (\E k \in 1 .. 2 : ~parse_reviewer_config(slots[k])) => posted = <<>> /\ rollouts = <<>>

(* The stage is completed only by a passing review of each slot's own model,  *)
(* both of the one commit and the one round it is completed for: never with a *)
(* comment that a failed or repeated dispatch, another commit or another      *)
(* round left. That the commit is HEAD, and the round the present one, is the *)
(* agent's word (reviewers.py:576).                                           *)
CompletedByBothReviews ==
  [][verdict' # verdict =>
       \A k \in 1 .. 2 : \E i \in DOMAIN posted :
          /\ posted[i].by = slots[k].model /\ posted[i].harness = slots[k].harness
          /\ posted[i].commit = verdict'.commit /\ posted[i].round = verdict'.round
          /\ posted[i].outcome]_reviewVars

(* A review round is what its comments say it is, from dispatch to completion. *)
RoundIsSound ==
  /\ [](TypeOK /\ PostedUnderOwnName /\ PostedOfOneCheckout /\ NothingHalfConfigured)
  /\ CompletedByBothReviews
=============================================================================
