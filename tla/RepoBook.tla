------------------------------ MODULE RepoBook ------------------------------
(***************************************************************************)
(* One repository's record in the task service, and everyone who edits it: *)
(* requests of the API, the dashboard's edit form, which sends every field *)
(* back as the list showed it, and the new-task modal, which shows the     *)
(* harness and model a task would get and sends only what the operator     *)
(* touched (service.py, store_sqlalchemy.py, api.py, client.py,            *)
(* dashboard.py).                                                          *)
(*                                                                         *)
(* A record keeps the fields these hands tell apart: the default harness,  *)
(* the default model (a name and an effort, the text "model:effort"), one  *)
(* reference to a file of the secrets directory, one reviewer override,    *)
(* whether the workflow of the modal is enabled, and the set-up hold.      *)
(* git_url, name, layers, hook and capabilities go the way of `env`.       *)
(* `Split` is the split claude and codex use; pi keeps the text whole.     *)
(* A store call is one transaction, as its session.begin() block says: a    *)
(* write of another call between the reads and the first write of one block *)
(* (SQLite's driver opens the transaction at the latter) is left out.       *)
(***************************************************************************)
EXTENDS Naturals, Sequences

CONSTANTS Nil,          \* no repository, no value (Python's None)
          Clients,      \* requests other than the dashboard's that overlap
          Patches,      \* bodies: partial functions from fields to values
          Touches,      \* what an operator may type in the model and effort fields
          Flow,         \* the workflow's own pair, [harness, model]
          MaxTasks, MaxRepos, MaxPatches

Harness == {"claude", "codex"}          \* HARNESSES
DEFAULT_HARNESS == "claude"
Files == {"repo.env"}                   \* what the secrets directory holds
Names == {"", "opus"}
Efforts == {"", "high"}
Model == (Names \ {""}) \X Efforts
Reviewer == {"codex:sol"}               \* texts that parse as a pair
Fields == {"harness", "model", "env", "reviewer", "enabled"}
Row == [harness : Harness \cup {Nil}, model : Model \cup {Nil}, env : Files \cup {Nil},
        reviewer : Reviewer \cup {Nil}, enabled : BOOLEAN, held : BOOLEAN]

VARIABLES
    repo,      \* the row of `repos`, or Nil
    births,    \* how many rows of this id there have been
    request,   \* what the service is doing for each client and the dashboard
    tasks,     \* the rows of `tasks` that name the repository, oldest first
    form,      \* the row the open edit form was filled from, or Nil
    modal,     \* the open new-task modal: the row it read and what was touched
    draft,     \* the touched fields of the unsent draft, kept in a file
    patches    \* PATCHes sent so far

bookVars == <<repo, births, request, tasks, form, modal, draft, patches>>

Dash == "dashboard"
Hands == Clients \cup {Dash}
Idle == [op |-> "none", old |-> Nil, body |-> <<>>, ask |-> Nil]

TypeOK ==
    /\ repo \in Row \cup {Nil}
    /\ births \in 0 .. MaxRepos
    /\ \A h \in Hands :
         /\ request[h].op \in {"none", "patch", "task"}
         /\ (request[h].op = "none") <=> (request[h] = Idle)
         /\ request[h].op # "none" => request[h].old \in Row
    /\ Len(tasks) <= MaxTasks
    /\ \A i \in 1 .. Len(tasks) :
         tasks[i].harness \in Harness /\ tasks[i].model \in Model \cup {Nil}
    /\ form \in Row \cup {Nil}
    /\ modal # Nil => modal.repo \in Row
    /\ ~ (form # Nil /\ modal # Nil)
    /\ patches \in 0 .. MaxPatches

Init ==
    /\ repo = Nil /\ births = 0 /\ tasks = <<>> /\ patches = 0
    /\ request = [h \in Hands |-> Idle]
    /\ form = Nil /\ modal = Nil /\ draft = <<>>

-----------------------------------------------------------------------------
(* The service: validation, and the partial update as read, merge, write.  *)

\* A blank override is no override; text that is no pair is refused.
Normalized(body) ==
    [f \in DOMAIN body |-> IF f = "reviewer" /\ body[f] = " " THEN Nil ELSE body[f]]

Given(body, field, values) == field \in DOMAIN body => body[field] \in values \cup {Nil}

_validate_env_file(body) == Given(body, "env", Files)
_validate_harness_name(body) == Given(body, "harness", Harness)
_validate_repo_harness_model(row) == row.model # Nil => row.harness # Nil

\* Only what the caller sets is validated; a model needs a harness.
Accepted(body, row) ==
    /\ _validate_env_file(body)
    /\ _validate_harness_name(body)
    /\ Given(body, "reviewer", Reviewer)
    /\ {"harness", "model"} \cap DOMAIN body # {} => _validate_repo_harness_model(row)

Merge(body, row) ==
    [f \in DOMAIN body \cup DOMAIN row |-> IF f \in DOMAIN body THEN body[f] ELSE row[f]]

\* A record made from a body alone: what it leaves out gets the default.
Blank == [harness |-> Nil, model |-> Nil, env |-> Nil, reviewer |-> Nil, enabled |-> TRUE]

_create_repo(row) ==
    /\ repo = Nil /\ births < MaxRepos
    /\ repo' = row
    /\ births' = births + 1

\* POST /repos, from the dashboard's form or from quickstart.
create_repo ==
    /\ \E body \in Patches :
         LET row == Merge(Normalized(body), Merge([held |-> FALSE], Blank))
         IN Accepted(Normalized(body), row) /\ _create_repo(row)
    /\ UNCHANGED <<request, tasks, form, modal, draft, patches>>

\* The first half of update_repo: the row is read and the merge validated.
Reads(h, body) ==
    /\ request[h] = Idle /\ repo # Nil /\ patches < MaxPatches
    /\ Accepted(Normalized(body), Merge(Normalized(body), repo))
    /\ request' = [request EXCEPT ![h] = [op |-> "patch", old |-> repo,
                                          body |-> Normalized(body), ask |-> Nil]]
    /\ patches' = patches + 1

WithTheHold(old, body) == Merge(body, old)

\* The store overwrites the row, all of it but the hold.
_update_repo(old, body) == [Merge(body, old) EXCEPT !.held = repo.held]

\* The second half; a row gone meanwhile is a 404, and the form stays open.
update_repo(h) ==
    /\ request[h].op = "patch"
    /\ repo' = IF repo = Nil THEN Nil ELSE _update_repo(request[h].old, request[h].body)
    /\ request' = [request EXCEPT ![h] = Idle]
    /\ form' = IF h = Dash /\ repo # Nil THEN Nil ELSE form
    /\ UNCHANGED <<births, tasks, modal, draft, patches>>

\* A delete counts the rows that name the repository in its transaction.
_delete_repo == repo # Nil /\ tasks = <<>> /\ repo' = Nil

delete_repo ==
    /\ _delete_repo
    /\ UNCHANGED <<births, request, tasks, form, modal, draft, patches>>

\* begin_repo_setup and finish_repo_setup take the lock create_task holds.
SetHold ==
    /\ repo # Nil /\ request[Dash].op # "task"
    /\ repo' = [repo EXCEPT !.held = ~ @]
    /\ UNCHANGED <<births, request, tasks, form, modal, draft, patches>>

Patch(c) ==
    /\ \E body \in Patches : Reads(c, body)
    /\ UNCHANGED <<repo, births, tasks, form, modal, draft>>

-----------------------------------------------------------------------------
(* The dashboard's edit form.                                              *)

AtRest == request[Dash] = Idle /\ form = Nil /\ modal = Nil

EditRepo ==
    /\ AtRest /\ repo # Nil
    /\ form' = repo
    /\ UNCHANGED <<repo, births, request, tasks, modal, draft, patches>>

\* Every field is sent, the ones nobody edited as they were shown.
FormBody(edit) == Merge(edit, [f \in Fields |-> form[f]])

SaveForm ==
    /\ form # Nil
    /\ \E edit \in Patches : Reads(Dash, FormBody(edit))
    /\ UNCHANGED <<repo, births, tasks, form, modal, draft>>

\* The edit form's delete, once the name was typed; refused, it stays open.
DeleteFromForm ==
    /\ form # Nil /\ request[Dash] = Idle
    /\ _delete_repo
    /\ form' = Nil
    /\ UNCHANGED <<births, request, tasks, modal, draft, patches>>

Leave ==
    /\ form # Nil /\ request[Dash] = Idle
    /\ form' = Nil
    /\ UNCHANGED <<repo, births, request, tasks, modal, draft, patches>>

-----------------------------------------------------------------------------
(* The new-task modal.                                                     *)

Split(model) == IF model = Nil THEN <<"", "">> ELSE model

\* What would run, as the modal resolves it: touched fields win one by one,
\* and a touched harness clears an untouched model and effort.
resolve_launch_selection(row, touched) ==
    LET own == Flow.harness # Nil /\ Flow.model # Nil
        harness == IF own THEN Flow.harness
                   ELSE IF row.harness # Nil THEN row.harness ELSE DEFAULT_HARNESS
        model == Split(IF own THEN Flow.model ELSE row.model)
        kept == IF "harness" \in DOMAIN touched THEN <<"", "">> ELSE model
    IN Merge(touched, [harness |-> harness, name |-> kept[1], effort |-> kept[2]])

\* No model, no text: an effort alone is dropped.
starting_model(launch) == IF launch.name = "" THEN Nil ELSE <<launch.name, launch.effort>>

\* The workflow is offered, and admitted, while the repository enables it.
_workflow_visible(row) == row.enabled

\* The modal is filled from the repository as read now and the kept draft.
NewTask ==
    /\ AtRest /\ repo # Nil /\ _workflow_visible(repo)
    /\ modal' = [repo |-> repo, touched |-> draft]
    /\ UNCHANGED <<repo, births, request, tasks, form, draft, patches>>

\* Enter on the harness line takes the next registered harness.
Cycled(harness) == CHOOSE other \in Harness : other # harness

launch_field_changed ==
    /\ modal # Nil
    /\ LET launch == resolve_launch_selection(modal.repo, modal.touched)
       IN \E touch \in Touches \cup {[harness |-> Cycled(launch.harness)]} :
            modal' = [modal EXCEPT !.touched = Merge(touch, @)]
    /\ UNCHANGED <<repo, births, request, tasks, form, draft, patches>>

\* Escape keeps what was touched for the next modal of this repository.
Cancel ==
    /\ modal # Nil
    /\ draft' = modal.touched
    /\ modal' = Nil
    /\ UNCHANGED <<repo, births, request, tasks, form, patches>>

\* The dashboard ends with whatever is open; the draft file stays.
Quit ==
    /\ modal # Nil \/ form # Nil
    /\ modal' = Nil /\ form' = Nil
    /\ UNCHANGED <<repo, births, request, tasks, draft, patches>>

\* Only touched fields are sent.
Asked(launch, touched) ==
    [harness |-> IF "harness" \in touched THEN launch.harness ELSE Nil,
     model |-> IF {"name", "effort"} \cap touched # {} THEN starting_model(launch) ELSE Nil,
     shown |-> launch, touched |-> touched, modalRepo |-> modal.repo]

\* The draft is gone before the service has answered; a refusal (the
\* repository or its workflow is gone) ends the modal too.
Submit ==
    /\ modal # Nil /\ Len(tasks) < MaxTasks
    /\ LET touched == DOMAIN modal.touched
           launch == resolve_launch_selection(modal.repo, modal.touched)
       IN request' = IF repo = Nil \/ ~ _workflow_visible(repo) THEN request
                     ELSE [request EXCEPT ![Dash] =
                             [op |-> "task", old |-> repo, body |-> <<>>,
                              ask |-> Asked(launch, touched)]]
    /\ draft' = <<>> /\ modal' = Nil
    /\ UNCHANGED <<repo, births, tasks, form, patches>>

\* The pair of defaults that wins: the workflow's, else the repository's.
Pair(row) ==
    IF Flow.harness # Nil THEN Flow
    ELSE [harness |-> IF row.harness # Nil THEN row.harness ELSE DEFAULT_HARNESS,
          model |-> row.model]

\* A model goes with its harness: it is not inherited by another one.
Chosen(ask, pair) ==
    [harness |-> IF ask.harness # Nil THEN ask.harness ELSE pair.harness,
     model |-> IF ask.model = Nil /\ ask.harness \in {Nil, pair.harness}
               THEN pair.model ELSE ask.model]

\* The store inserts while the repository is there (or there again), whatever it was
\* when the service read it; else the request ends with NotFound.
_create_task(row) == tasks' = IF repo = Nil THEN tasks ELSE Append(tasks, row)

\* The insert, some awaits after the repository was read.
_create_task_locked ==
    LET r == request[Dash] IN
    /\ r.op = "task"
    /\ _create_task(Merge([paused |-> r.old.held], Chosen(r.ask, Pair(r.old))))
    /\ request' = [request EXCEPT ![Dash] = Idle]
    /\ UNCHANGED <<repo, births, form, modal, draft, patches>>

-----------------------------------------------------------------------------
Next ==
    \/ create_repo \/ delete_repo \/ SetHold
    \/ \E c \in Clients : Patch(c)
    \/ \E h \in Hands : update_repo(h)
    \/ EditRepo \/ SaveForm \/ DeleteFromForm \/ Leave \/ Quit
    \/ NewTask \/ launch_field_changed \/ Cancel \/ Submit \/ _create_task_locked

Spec == Init /\ [][Next]_bookVars

-----------------------------------------------------------------------------
(* Properties.                                                             *)

\* A default model never stands without the harness that gives it meaning,
\* whichever requests overlap: "default_model requires default_harness".
ModelHasHarness == repo # Nil => (repo.model # Nil => repo.harness # Nil)

\* An update that was under way when set-up began or ended does not undo it:
\* the hold moves only when the set-up endpoints move it.
HoldSurvivesPatches ==
    [][repo # Nil /\ repo' # Nil /\ repo'.held # repo.held
         => request' = request]_bookVars

\* "any field not in ``changes`` is preserved": an update nothing overtook
\* changes only what its body names.
LonePatchKeepsTheRest ==
    [][\A h \in Hands :
         request[h].op = "patch" /\ request'[h] = Idle /\ repo = request[h].old
           => \A f \in Fields \ DOMAIN request[h].body : repo'[f] = repo[f]]_bookVars

\* A late update does not bring a deleted repository back.
DeletedStaysDeleted == [][repo = Nil /\ repo' # Nil => births' = births + 1]_bookVars

Arrived == tasks'[Len(tasks')]

\* A task gets the harness and the model text the operator chose for it,
\* whatever happens to the defaults meanwhile, and never a model that belongs
\* to another harness; untouched fields take the defaults the service read.
LaunchedAsAsked ==
    [][tasks' # tasks =>
         LET ask == request[Dash].ask
             pair == Pair(request[Dash].old)
         IN /\ "harness" \in ask.touched => Arrived.harness = ask.shown.harness
            /\ ask.touched \cap {"name", "effort"} # {} /\ ask.shown.name # ""
                 => Arrived.model = starting_model(ask.shown)
            /\ ask.touched = {} => Arrived.harness = pair.harness /\ Arrived.model = pair.model
            /\ Arrived.harness # pair.harness
                 => Arrived.model \in {Nil, starting_model(ask.shown)}]_bookVars

\* A deleted repository leaves no task that names it, nor does one created while it goes.
NoOrphans == repo = Nil => tasks = <<>>

\* The row of a repository holds what it was last told, and a task starts with what was asked.
DefaultsAreHonest ==
    /\ [](TypeOK /\ ModelHasHarness /\ NoOrphans)
    /\ HoldSurvivesPatches /\ LonePatchKeepsTheRest /\ DeletedStaysDeleted
    /\ LaunchedAsAsked
=============================================================================
