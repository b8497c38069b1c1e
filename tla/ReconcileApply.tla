----------------------------- MODULE ReconcileApply -----------------------------
(***************************************************************************)
(* `reconcile` proposes patches to the issues of an epic and stores them   *)
(* in a report; `reconcile-apply` applies a stored report to GitHub,       *)
(* patch by patch, as often as it is called.                               *)
(*                                                                         *)
(* One operator runs these commands one after the other. A step is one     *)
(* request to GitHub, one answer of the operator or one write of an        *)
(* artifact. A request may fail before or after GitHub acted on it, the    *)
(* process may be killed between any two steps, and other people edit the  *)
(* issues meanwhile.                                                       *)
(***************************************************************************)
EXTENDS Tracker, SequencesExt

CONSTANTS
    Epic,           \* the epic's number
    Backlog,        \* the issues as they stand at first
    BacklogTitles,  \* the titles of those, letter by letter
    Normalized,     \* normalizeIssueTitle: of a title, what is compared in a search
    Ambiguous,      \* a section whose markers are doubled or unbalanced
    Proposals,      \* what a reconciler session may return: patches by their places
    MaxReports, MaxApplies,     \* bounds on the commands
    MaxFaults, MaxCrashes, MaxEdits

(***************************************************************************)
(* Patches. `issue` is the issue a patch is about, `on` a dependency or    *)
(* the issue to keep, `title` that of an issue to create, `kids` those of  *)
(* the children of a split, `goal` the content of an enrichment.           *)
(***************************************************************************)
Rank == [CREATE_ISSUE |-> 0, ENRICH_ISSUE |-> 1, ADD_DEPENDENCY |-> 2,
         REMOVE_DEPENDENCY |-> 3, SPLIT_ISSUE |-> 4, MERGE_DUPLICATE |-> 5,
         NEEDS_HUMAN |-> 10, MARK_STALE |-> 10, KEEP |-> 10]

IsPatch(p) ==
    /\ "type" \in DOMAIN p /\ p.type \in DOMAIN Rank
    /\ p.type = "CREATE_ISSUE" => p.title \in DOMAIN Normalized
    /\ p.type = "SPLIT_ISSUE" => p.kids \in Seq(DOMAIN Normalized)
    /\ p.type = "ENRICH_ISSUE" => p.goal # Ambiguous

\* A session may propose anything, about issues that are not there as well.
\* The comments the program makes are counted from the start.
ASSUME ReconcileApplyAssumption ==
    /\ Epic \in IssueNumbers /\ Nothing \notin Nat
    /\ Normalized \in [DOMAIN Normalized -> IssueTitles]
    /\ DOMAIN Backlog = IssueNumbers /\ DOMAIN BacklogTitles = IssueNumbers
    /\ \A n \in IssueNumbers :
          \/ Backlog[n] = NoIssue
          \/ /\ IsIssue(Backlog[n]) /\ Backlog[n].duplicate = 0 /\ Backlog[n].answers <= 1
             /\ BacklogTitles[n] \in DOMAIN Normalized
             /\ Normalized[BacklogTitles[n]] = Backlog[n].title
    /\ \A ps \in Proposals : DOMAIN ps \subseteq Nat /\ \A k \in DOMAIN ps : IsPatch(ps[k])
    /\ {MaxReports, MaxApplies, MaxFaults, MaxCrashes, MaxEdits} \subseteq Nat

\* sortPatches; of patches of one rank, the one proposed first goes first.
Sooner(ps, j, k) ==
    \/ Rank[ps[j].type] < Rank[ps[k].type]
    \/ Rank[ps[j].type] = Rank[ps[k].type] /\ j <= k

FirstOf(ps, todo) == CHOOSE k \in todo : \A j \in todo : Sooner(ps, k, j)

AutoSafe(p) == p.type \in {"ENRICH_ISSUE", "ADD_DEPENDENCY", "CREATE_ISSUE"}
Offerable(p) == p.type \in {"REMOVE_DEPENDENCY", "SPLIT_ISSUE", "MERGE_DUPLICATE", "NEEDS_HUMAN"}

\* The `issue` field of the patch. The duplicate of a merge is not one.
TargetIssue(p) == IF p.type \in {"CREATE_ISSUE", "MERGE_DUPLICATE"} THEN Nothing ELSE p.issue

\* extractDeclines: what the operator declined, of what has a target issue.
Declines(entries) ==
    {TargetIssue(e.patch) : e \in {f \in entries : f.status = "user"}} \ {Nothing}

DependsAlready(body, d) == d \in body.deps \cup body.free

\* Letter by letter, not as a search by title compares them.
SplitAlreadyApplied(body, kids) == ToSet(kids) \subseteq {s[2] : s \in body.split \cup body.links}

\* upsertReconciliationSection throws: there is no telling what to replace.
Garbled(p, is) ==
    p.type = "ENRICH_ISSUE" /\ p.issue \in Existing(is) /\ is[p.issue].body.section = Ambiguous

VARIABLES
    issues,     \* on GitHub; their titles as a search compares them
    titles,     \* of the issues, letter by letter
    cli,        \* the command that runs
    reports,    \* reconciliation-report.json of each analysis: its patches by their places
    applied,    \* reconciliation-apply.json of the analyses that have one
    latest,     \* the analysis the latest-apply pointer of the epic names
    \* what the operator knows
    decided,    \* declines of the last apply that was neither preview nor aborted,
                \* and if its artifact has been overwritten since
    applies, faults, crashes, edits

vars == <<issues, titles, cli, reports, applied, latest, decided,
          applies, faults, crashes, edits>>

Counters == <<applies, faults, crashes, edits>>

Idle == [at |-> "idle"]

Init ==
    /\ issues = Backlog /\ titles = BacklogTitles
    /\ cli = Idle
    /\ reports = <<>> /\ applied = [id \in {} |-> {}]
    /\ latest = Nothing /\ decided = [declines |-> {}, lost |-> FALSE]
    /\ applies = 0 /\ faults = 0 /\ crashes = 0 /\ edits = 0

(***************************************************************************)
(* reconcile: the epic's open issues are read; a session, minutes later,   *)
(* returns patches; those the issues as read already satisfy become KEEP,  *)
(* an enrichment that cannot be judged becomes a question, and those about *)
(* a closed issue are dropped.                                             *)
(***************************************************************************)
Active(is) == {n \in CollectEpicIssueRefs(is[Epic].body) \cap Existing(is) : is[n].open}
Closed(is) == {n \in CollectEpicIssueRefs(is[Epic].body) \cap Existing(is) : ~is[n].open}

ReadBacklog ==
    /\ cli = Idle /\ Len(reports) < MaxReports
    /\ issues[Epic].open /\ CollectEpicIssueRefs(issues[Epic].body) # {}
    /\ cli' = [at |-> "session", seen |-> issues,
               steering |-> IF latest = Nothing THEN {} ELSE
                   Declines(applied[latest])]
    /\ UNCHANGED <<issues, titles, reports, applied, latest, decided, Counters>>

\* Variant, wrong: only a dependency in a line of text is recognised.
SatisfiedByText(p, is) ==
    CASE p.type = "ADD_DEPENDENCY" -> p.issue \in Active(is) /\ p.on \in is[p.issue].body.free
      [] OTHER -> FALSE

Satisfied(p, is) ==
    CASE p.type = "CREATE_ISSUE" -> \E n \in Active(is) : is[n].title = Normalized[p.title]
      [] p.type = "ENRICH_ISSUE" -> p.issue \in Active(is) /\ is[p.issue].body.section = p.goal
      [] p.type = "ADD_DEPENDENCY" -> p.issue \in Active(is) /\ DependsAlready(is[p.issue].body, p.on)
      [] p.type = "REMOVE_DEPENDENCY" -> p.issue \in Active(is) /\ p.on \notin is[p.issue].body.deps
      [] p.type = "SPLIT_ISSUE" ->
            p.issue \in Active(is) /\ SplitAlreadyApplied(is[p.issue].body, p.kids)
      [] OTHER -> FALSE

ApplyIdempotencyDowngrades(ps, is) ==
    [k \in DOMAIN ps |->
        IF Satisfied(ps[k], is) THEN [ps[k] EXCEPT !.type = "KEEP"]
        ELSE IF Garbled(ps[k], is) /\ ps[k].issue \in Active(is) THEN [ps[k] EXCEPT !.type = "NEEDS_HUMAN"]
        ELSE ps[k]]

PatchReferencesClosedIssue(p, is) ==
    CASE p.type = "CREATE_ISSUE" -> FALSE
      [] p.type \in {"ADD_DEPENDENCY", "REMOVE_DEPENDENCY", "MERGE_DUPLICATE"} ->
            {p.issue, p.on} \cap Closed(is) # {}
      [] OTHER -> p.issue \in Closed(is)

StoreReport ==
    /\ cli.at = "session"
    /\ \E ps \in Proposals :
         LET downgraded == ApplyIdempotencyDowngrades(ps, cli.seen)
             left == {k \in DOMAIN ps : ~PatchReferencesClosedIssue(downgraded[k], cli.seen)}
         IN  reports' = Append(reports, [k \in left |-> downgraded[k]])
    /\ cli' = Idle
    /\ UNCHANGED <<issues, titles, applied, latest, decided, Counters>>

(***************************************************************************)
(* reconcile-apply. `mode` is yes (--yes), menu (a terminal) or preview    *)
(* (neither). The patches go one by one through prepare, the decision and  *)
(* a second, fresh look before anything is written.                        *)
(***************************************************************************)
StartApply(id, mode) ==
    /\ cli = Idle /\ applies < MaxApplies
    /\ applies' = applies + 1
    /\ cli' = [at |-> "next", id |-> id, mode |-> mode, todo |-> DOMAIN reports[id],
               all |-> FALSE, entries |-> {}, aborted |-> FALSE,
               consented |-> FALSE, seen |-> Nothing, epic |-> Nothing, issue |-> Nothing, kids |-> <<>>]
    /\ UNCHANGED <<issues, titles, reports, applied, latest, decided, faults, crashes, edits>>

Place == FirstOf(reports[cli.id], cli.todo)
Patch == reports[cli.id][Place]
Applying == cli.at \notin {"idle", "session"}

\* The patch at hand gets its entry and the loop goes on with the next.
Recorded(status) ==
    [cli EXCEPT !.at = "next", !.todo = @ \ {Place}, !.consented = FALSE, !.seen = Nothing, !.epic = Nothing,
                !.issue = Nothing, !.kids = <<>>, !.entries = @ \cup {[patch |-> Patch, status |-> status]}]

At(place) == [cli EXCEPT !.at = place]

Goes(next) ==
    /\ cli' = next
    /\ UNCHANGED <<issues, titles, reports, applied, latest, decided, Counters>>

Fault == faults < MaxFaults /\ faults' = faults + 1

\* A request that reads: an answer, or an error.
Read(answer, error) ==
    /\ \/ cli' = answer /\ UNCHANGED faults
       \/ Fault /\ cli' = error
    /\ UNCHANGED <<issues, titles, reports, applied, latest, decided, applies, crashes, edits>>

\* A request that writes: it may act and still fail.
Request(after, answer, error) ==
    /\ \/ issues' = after /\ cli' = answer /\ UNCHANGED faults
       \/ Fault /\ issues' \in {issues, after} /\ cli' = error
    /\ UNCHANGED <<reports, applied, latest, decided, applies, crashes, edits>>

Write(after, answer, error) == Request(after, answer, error) /\ UNCHANGED titles

Failed == Recorded("failed")

NextPatch ==
    /\ cli.at = "next" /\ cli.todo # {}
    /\ Goes(IF AutoSafe(Patch) \/ Offerable(Patch) THEN At("preparing")
            ELSE Recorded("approval"))

Linked(n) == n = Epic \/ n \in CollectEpicIssueRefs(issues[Epic].body)

\* findExistingIssueWithTitle finds it, and its link to the epic as well.
ExistsLinked(title) ==
    LET n == FindIssueByTitle(issues, Normalized[title]) IN n # Nothing /\ Linked(n)

\* What prepare and the fresh look find to be done already, both alike but
\* for closed issues: the fresh look at ENRICH and at the dependencies does
\* not mind them, and neither look at a split does.
Done(p) ==
    CASE p.type = "CREATE_ISSUE"      -> ExistsLinked(p.title)
      [] p.type = "ENRICH_ISSUE"      -> issues[p.issue].body.section = p.goal
      [] p.type = "ADD_DEPENDENCY"    -> DependsAlready(issues[p.issue].body, p.on)
      [] p.type = "REMOVE_DEPENDENCY" -> ~DependsAlready(issues[p.issue].body, p.on)
      [] p.type = "SPLIT_ISSUE"       -> SplitAlreadyApplied(issues[p.issue].body, p.kids)
      [] p.type = "MERGE_DUPLICATE"   -> ~issues[p.issue].open
      [] p.type = "NEEDS_HUMAN"       -> FALSE

KeepsClosed(p) ==
    p.type \in {"ENRICH_ISSUE", "ADD_DEPENDENCY", "REMOVE_DEPENDENCY"} /\ ~issues[p.issue].open

\* A request about an issue that is not there fails.
Missing(p) == p.type # "CREATE_ISSUE" /\ p.issue \notin Existing(issues)

Prepare ==
    /\ cli.at = "preparing"
    /\ IF Patch.type = "NEEDS_HUMAN"
         THEN Goes(IF Patch.issue = Nothing THEN Recorded("approval") ELSE At("deciding"))
         ELSE IF Missing(Patch) THEN Goes(Failed)
         ELSE Read(IF Done(Patch) \/ KeepsClosed(Patch) \/ Garbled(Patch, issues)
                     THEN Recorded("idempotent") ELSE At("deciding"), Failed)

\* Variant, wrong: "all" covers every patch that is left.
DecideAll ==
    /\ cli.at = "deciding" /\ cli.mode # "preview" /\ cli.all
    /\ Goes(At("reading"))

\* Decisions nobody is asked for.
DecideAlone ==
    /\ cli.at = "deciding"
    /\ CASE cli.mode = "preview" -> Goes(Recorded("preview"))
         [] cli.mode = "yes" /\ ~AutoSafe(Patch) ->
                Goes(Recorded("approval"))
         [] AutoSafe(Patch) /\ (cli.mode = "yes" \/ (cli.mode = "menu" /\ cli.all)) ->
                Goes(At("reading"))
         [] cli.mode = "menu" /\ ~(cli.all /\ AutoSafe(Patch)) /\ Patch.type = "NEEDS_HUMAN" ->
                Goes(At("reading"))
         [] OTHER -> FALSE

\* The menu: apply, skip, all, quit.
Menu ==
    /\ cli.at = "deciding" /\ cli.mode = "menu" /\ Patch.type # "NEEDS_HUMAN"
    /\ ~(cli.all /\ AutoSafe(Patch))
    /\ \/ Goes([cli EXCEPT !.at = "reading", !.consented = TRUE])
       \/ Goes(Recorded("user"))
       \/ Goes([cli EXCEPT !.at = "reading", !.consented = TRUE, !.all = TRUE])
       \/ Goes([cli EXCEPT !.at = "saving", !.aborted = TRUE])

(***************************************************************************)
(* The writes, each after its fresh look. A body that cannot be written is *)
(* reported like one that needs no writing.                                *)
(***************************************************************************)
Simple == {"ENRICH_ISSUE", "ADD_DEPENDENCY", "REMOVE_DEPENDENCY"}

ReadFresh ==
    /\ cli.at = "reading" /\ Patch.type \in Simple \cup {"SPLIT_ISSUE", "MERGE_DUPLICATE"}
    /\ Read(IF Done(Patch) \/ Garbled(Patch, issues) THEN Recorded("idempotent")
            ELSE [cli EXCEPT !.seen = issues[Patch.issue].body,
                             !.at = CASE Patch.type = "SPLIT_ISSUE" -> "child"
                                      [] Patch.type = "MERGE_DUPLICATE" -> "commenting"
                                      [] OTHER -> "writing"],
            Failed)

Patched(body, p) ==
    CASE p.type = "ENRICH_ISSUE"      -> [body EXCEPT !.section = p.goal]
      [] p.type = "ADD_DEPENDENCY"    -> [body EXCEPT !.deps = @ \cup {p.on}]
      [] p.type = "REMOVE_DEPENDENCY" -> [body EXCEPT !.deps = @ \ {p.on}]

WriteBody ==
    /\ cli.at = "writing"
    /\ Write(UpdateIssueBody(issues, Patch.issue, Patched(cli.seen, Patch)),
             Recorded("applied"), Failed)

\* Variant, wrong: the fresh look at a title is left out.
ReadCreateTrusting ==
    /\ cli.at = "reading" /\ Patch.type = "CREATE_ISSUE"
    /\ Read(At("creating"), Failed)

\* CREATE_ISSUE: an issue with the title is linked, else one is created.
ReadCreate ==
    /\ cli.at = "reading" /\ Patch.type = "CREATE_ISSUE"
    /\ LET n == FindIssueByTitle(issues, Normalized[Patch.title])
       IN  Read(IF n = Nothing THEN At("creating")
                ELSE IF Linked(n) THEN Recorded("idempotent")
                ELSE [cli EXCEPT !.at = "linking", !.issue = n], Failed)

\* Variant, wrong: a child that is there is taken for linked.
FindChildLinked ==
    /\ cli.at = "child" /\ Len(cli.kids) < Len(Patch.kids)
    /\ LET n == FindIssueByTitle(issues, Normalized[Patch.kids[Len(cli.kids) + 1]])
       IN  Read(IF n = Nothing THEN At("creating")
                ELSE [cli EXCEPT !.kids = Append(@, n)], Failed)

\* The children of a split, one after the other.
FindChild ==
    /\ cli.at = "child" /\ Len(cli.kids) < Len(Patch.kids)
    /\ LET n == FindIssueByTitle(issues, Normalized[Patch.kids[Len(cli.kids) + 1]])
       IN  Read(IF n = Nothing THEN At("creating")
                ELSE [cli EXCEPT !.at = "linking", !.issue = n], Failed)

TitleToCreate ==
    IF Patch.type = "SPLIT_ISSUE" THEN Patch.kids[Len(cli.kids) + 1] ELSE Patch.title

Create ==
    /\ cli.at = "creating" /\ HasNext(issues)
    /\ Request(CreateIssue(issues, Normalized[TitleToCreate], PlainBody(Nothing), {"task"}),
               [cli EXCEPT !.at = "linking", !.issue = NextNumber(issues)], Failed)
    /\ titles' = IF issues' = issues THEN titles
                 ELSE [titles EXCEPT ![NextNumber(issues)] = TitleToCreate]

\* linkIssueToEpic is done with this issue.
AfterLink ==
    IF Patch.type = "SPLIT_ISSUE"
      THEN [cli EXCEPT !.at = "child", !.kids = Append(@, cli.issue), !.issue = Nothing]
      ELSE Recorded("applied")

\* The epic is read for its links; a new item goes to the end of it.
ReadEpic ==
    /\ cli.at = "linking"
    /\ Read(IF cli.issue \in CollectEpicIssueRefs(issues[Epic].body) THEN AfterLink
            ELSE [cli EXCEPT !.at = "linkwrite", !.epic = issues[Epic].body], Failed)

\* The title that is written is the issue's.
WithLink == [cli.epic EXCEPT !.links = @ \cup {<<cli.issue, titles[cli.issue]>>}]

LinkIssueToEpic ==
    /\ cli.at = "linkwrite"
    /\ Write(UpdateIssueBody(issues, Epic, WithLink), [AfterLink EXCEPT !.epic = Nothing], Failed)

\* All children are there and linked: the parent lists them, under their own
\* titles, in the body as it was before the first of them.
WriteSplit ==
    /\ cli.at = "child" /\ Len(cli.kids) = Len(Patch.kids)
    /\ Write(UpdateIssueBody(issues, Patch.issue,
                 [cli.seen EXCEPT !.split = {<<cli.kids[k], titles[cli.kids[k]]>> : k \in DOMAIN Patch.kids}]),
             At("labelling"), Failed)

\* The labels of the parent, for better or worse.
LabelSplit ==
    /\ cli.at = "labelling"
    /\ Write(AddLabel(issues, Patch.issue, "split"), At("unlabelling"),
             Recorded("applied"))

UnlabelSplit ==
    /\ cli.at = "unlabelling"
    /\ Write(RemoveLabel(issues, Patch.issue, "agent:ready"), Recorded("applied"),
             Recorded("applied"))

\* MERGE_DUPLICATE: the reason, then the close.
CommentDuplicateOf ==
    /\ cli.at = "commenting" /\ Patch.type = "MERGE_DUPLICATE"
    /\ Write(CommentDuplicate(issues, Patch.issue), At("closing"), Failed)

CloseDuplicate ==
    /\ cli.at = "closing"
    /\ Write(CloseIssue(issues, Patch.issue), Recorded("applied"), Failed)

\* NEEDS_HUMAN: unless answers are there, the operator answers all
\* questions, and one comment holds the answers.
ReadAnswers ==
    /\ cli.at = "reading" /\ Patch.type = "NEEDS_HUMAN"
    /\ IF Missing(Patch) THEN Goes(Failed)
       ELSE Read(IF issues[Patch.issue].answers > 0 THEN Recorded("idempotent")
                 ELSE At("commenting"), Failed)

PostAnswers ==
    /\ cli.at = "commenting" /\ Patch.type = "NEEDS_HUMAN"
    /\ Write(CommentAnswers(issues, Patch.issue), Recorded("applied"), Failed)

(***************************************************************************)
(* The end of an apply: the artifact, over that of an earlier apply of the *)
(* same analysis, then the pointer.                                        *)
(***************************************************************************)
Stored(id, entries) ==
    [i \in DOMAIN applied \cup {id} |-> IF i = id THEN entries ELSE applied[i]]

\* Variant, wrong: every apply moves the pointer.
SaveAndPoint ==
    /\ cli.at = "saving" \/ (cli.at = "next" /\ cli.todo = {})
    /\ applied' = Stored(cli.id, cli.entries)
    /\ latest' = cli.id
    /\ cli' = Idle
    /\ UNCHANGED <<issues, titles, reports, decided, Counters>>

SaveApply ==
    /\ cli.at = "saving" \/ (cli.at = "next" /\ cli.todo = {})
    /\ applied' = Stored(cli.id, cli.entries)
    /\ decided' = [decided EXCEPT !.lost = @ \/ cli.id = latest]
    /\ cli' = IF cli.mode = "preview" \/ cli.aborted THEN Idle ELSE At("pointing")
    /\ UNCHANGED <<issues, titles, reports, latest, Counters>>

WriteLatestApply ==
    /\ cli.at = "pointing"
    /\ latest' = cli.id
    /\ decided' = [declines |-> Declines(applied[cli.id]), lost |-> FALSE]
    /\ cli' = Idle
    /\ UNCHANGED <<issues, titles, reports, applied, Counters>>

(***************************************************************************)
(* The operator kills the command; others close an issue, write a          *)
(* dependency on an older issue, not the epic, by hand, or spoil a section. *)
(***************************************************************************)
Kill ==
    /\ cli # Idle /\ crashes < MaxCrashes
    /\ crashes' = crashes + 1
    /\ cli' = Idle
    /\ UNCHANGED <<issues, titles, reports, applied, latest, decided, applies, faults, edits>>

Edit ==
    /\ edits < MaxEdits
    /\ edits' = edits + 1
    /\ \E n \in Existing(issues) :
        \/ issues[n].open /\ n # Epic /\ issues' = CloseIssue(issues, n)
        \/ \E d \in {m \in Existing(issues) \ {Epic} : m < n} :
              issues' = [issues EXCEPT ![n].body.free = @ \cup {d}]
        \/ /\ issues[n].body.section \notin {Nothing, Ambiguous}
           /\ issues' = [issues EXCEPT ![n].body.section = Ambiguous]
    /\ UNCHANGED <<titles, cli, reports, applied, latest, decided, applies, faults, crashes>>

ApplyStep ==
    /\ Applying
    /\ \/ NextPatch \/ Prepare \/ DecideAlone \/ Menu
       \/ ReadFresh \/ WriteBody
       \/ ReadCreate \/ FindChild \/ Create \/ ReadEpic \/ LinkIssueToEpic
       \/ WriteSplit \/ LabelSplit \/ UnlabelSplit
       \/ CommentDuplicateOf \/ CloseDuplicate \/ ReadAnswers \/ PostAnswers
       \/ SaveApply \/ WriteLatestApply

Next ==
    \/ ReadBacklog \/ StoreReport
    \/ \E id \in DOMAIN reports, mode \in {"yes", "menu", "preview"} : StartApply(id, mode)
    \/ ApplyStep
    \/ Kill \/ Edit

Spec == Init /\ [][Next]_vars

(***************************************************************************)
(* What two of the properties ask of the sessions. Nothing in the code      *)
(* keeps a session from proposing opposites: those are applied one after    *)
(* the other, and the entry of the first is then not true any more.         *)
(***************************************************************************)
Spoken == UNION {{ps[k] : k \in DOMAIN ps} : ps \in Proposals}

IssuePatches == {"ENRICH_ISSUE", "ADD_DEPENDENCY", "REMOVE_DEPENDENCY", "SPLIT_ISSUE", "MERGE_DUPLICATE"}

BodyFields == DOMAIN PlainBody(Nothing)

Refs(is) == CollectEpicIssueRefs(is[Epic].body)

\* Two patches about one issue do not ask for opposites, none is about the
\* epic itself or would have it created, no duplicate is closed from the start,
\* and nothing but the epic has a checklist yet.
Coherent ==
    /\ Epic \in Existing(Backlog)
    /\ \A n \in Existing(Backlog) :
          /\ DOMAIN Backlog[n].body = BodyFields
          /\ n # Epic => Backlog[n].body.links = {} /\ Backlog[n].body.split = {}
    /\ \A p \in Spoken :
          /\ p.type \in IssuePatches => p.issue # Epic
          /\ p.type = "CREATE_ISSUE" => Epic \notin Titled(Backlog, Normalized[p.title])
          /\ p.type = "MERGE_DUPLICATE" /\ p.issue \in Existing(Backlog) => Backlog[p.issue].open
    /\ \A p, q \in Spoken :
          /\ p.type = q.type /\ p.issue = q.issue =>
                /\ p.type = "ENRICH_ISSUE" => p.goal = q.goal
                /\ p.type = "SPLIT_ISSUE" => p.kids = q.kids
          /\ p.type = "ADD_DEPENDENCY" /\ q.type = "REMOVE_DEPENDENCY" /\ p.issue = q.issue =>
                p.on # q.on

\* The sessions speak of issues the epic lists from the start; what they would
\* have created is not there closed, nor a duplicate to them.
AboutTheEpic ==
    \A p, q \in Spoken :
        /\ p.type \in IssuePatches /\ p.issue \in IssueNumbers =>
              p.issue \in Existing(Backlog) \cap Refs(Backlog)
        /\ p.type = "CREATE_ISSUE" =>
              \A n \in Titled(Backlog, Normalized[p.title]) :
                  Backlog[n].open /\ ~(q.type = "MERGE_DUPLICATE" /\ q.issue = n)

(***************************************************************************)
(* Properties                                                              *)
(***************************************************************************)

\* Whatever requests fail or lose their answers, wherever the command is
\* killed, however often a report is applied: an issue proposed by CREATE_ISSUE
\* or as a child of a split is created once, the answers to questions are
\* posted once, and every comment the merge of a duplicate posts beyond the
\* first is owed to a request that failed or a kill.
NothingIsRepeated ==
    /\ \A m, n \in Existing(issues) :
          issues[m].title = issues[n].title => m = n \/ {m, n} \subseteq Existing(Backlog)
    /\ \A n \in Existing(issues) :
          /\ issues[n].duplicate <= 1 + faults + crashes
          /\ issues[n].answers <= 1

\* What an entry of a patch says was achieved.
Holds(p, is) ==
    CASE p.type = "CREATE_ISSUE" ->
            \E n \in Titled(is, Normalized[p.title]) : n \in CollectEpicIssueRefs(is[Epic].body)
      [] p.type = "ENRICH_ISSUE"      -> is[p.issue].body.section = p.goal
      [] p.type = "ADD_DEPENDENCY"    -> DependsAlready(is[p.issue].body, p.on)
      [] p.type = "REMOVE_DEPENDENCY" -> p.on \notin is[p.issue].body.deps
      [] p.type = "SPLIT_ISSUE" ->
            \A t \in ToSet(p.kids) : \E s \in is[p.issue].body.split :
                s[1] \in Titled(is, Normalized[t]) \cap CollectEpicIssueRefs(is[Epic].body)
      [] p.type = "MERGE_DUPLICATE"   -> ~is[p.issue].open /\ is[p.issue].duplicate > 0
      [] p.type = "NEEDS_HUMAN"       -> is[p.issue].answers > 0

\* An apply report is true: as long as nobody edits, what an entry says was
\* applied, or found done, is so, and later patches and later applies leave
\* it so; a child of a split is in the epic and in its parent, a duplicate
\* is closed with its reason. Two kinds of entries say `idempotent` of what was
\* never done, and are not held to it: a closed issue is left alone, and so is
\* a body with ambiguous markers.
ReportsAreTrue ==
    edits = 0 =>
        \A id \in DOMAIN applied :
            \A e \in applied[id] :
                e.status = "applied" \/ (e.status = "idempotent" /\ ~KeepsClosed(e.patch) /\ ~Garbled(e.patch, issues))
                    => Holds(e.patch, issues)

\* A child the split asks for is listed under its own title, which is spelt
\* otherwise: it was there before the split.
ListedOtherwise(p) ==
    /\ p.type = "SPLIT_ISSUE"
    /\ \E t \in ToSet(p.kids), s \in issues[p.issue].body.split :
          Normalized[s[2]] = Normalized[t] /\ s[2] # t

\* A second reconcile finds nothing to do: as long as nobody edits, what was
\* applied is downgraded to KEEP or dropped when a session proposes it again
\* (the promise of docs on idempotency; two different checks, one in
\* applyIdempotencyDowngrades, one in the apply, must agree on it). Questions
\* are asked again, and so is a split one child of which was found under a
\* title spelt otherwise: a search by title takes them for the same, the look
\* at the list does not.
AppliedIsSettled ==
    edits = 0 =>
        \A id \in DOMAIN applied :
            \A e \in applied[id] :
                e.status = "applied" /\ e.patch.type # "NEEDS_HUMAN" /\ ~ListedOtherwise(e.patch)
                    => Satisfied(e.patch, issues) \/ PatchReferencesClosedIssue(e.patch, issues)

\* A patch that requires approval is written only after its own yes in the
\* menu; never by --yes, by the `all` given to another patch or in a preview.
\* Questions are exempt: they are always asked.
Approves == AutoSafe(Patch) \/ Patch.type = "NEEDS_HUMAN" \/ cli.consented

WritesAreApproved ==
    [][Applying /\ issues' # issues /\ edits' = edits
         => cli.mode # "preview" /\ Approves]_vars

\* The next reconcile is steered by the declines of the last apply that was
\* neither a preview nor aborted, whatever was previewed, aborted or killed
\* since, unless that very analysis was applied again: the code overwrites its
\* artifact even then. And the pointer of the epic always leads to an artifact,
\* also after a kill between the two writes: `reconcile` reads it without a
\* catch.
SteeredByLastApply ==
    /\ cli.at = "session" /\ ~decided.lost => cli.steering = decided.declines
    /\ latest # Nothing => latest \in DOMAIN applied

=================================================================================
