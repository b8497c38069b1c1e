----------------------------- MODULE BootstrapApply -----------------------------
(***************************************************************************)
(* `bootstrap --apply <plan>`: the stored plan becomes a board, epics,     *)
(* their child issues as sub-issues, checklists in the epics and a         *)
(* configuration file. What is done is written to the plan after every     *)
(* request that creates or links something, and after every step; the      *)
(* operator applies the plan again after an error or a kill.               *)
(***************************************************************************)
EXTENDS Tracker

CONSTANTS
    EpicTitles,     \* the titles of the plan's epics, in its order
    KidTitles,      \* and of their children, epic by epic; a title may come twice
    EpicOf,         \* the epic each child belongs to
    HasConfig,      \* the plan proposes a configuration
    Earlier,        \* the issues there are already
    EarlierParent,  \* and whose sub-issues they are
    MaxStops, MaxMoves  \* bounds

\* An item of the plan is named by its place: the epics, then the children.
Epics == 1..Len(EpicTitles)
Kids  == {Len(EpicTitles) + k : k \in 1..Len(KidTitles)}
Items == Epics \cup Kids

TitleOf(t) == IF t \in Epics THEN EpicTitles[t] ELSE KidTitles[t - Len(EpicTitles)]

PlanTitles == {TitleOf(t) : t \in Items}

KidsOf(epic) == {t \in Kids : EpicOf[t] = epic}

\* What an issue can be. A text is named for the title it was written for.
Body ==
    [text : IssueTitles, section : {Nothing}, contract : {Nothing, "edited"}, split : {{}},
     links : SUBSET (IssueNumbers \X IssueTitles), deps : SUBSET IssueNumbers,
     free : SUBSET IssueNumbers]

Issue ==
    [title : IssueTitles, open : BOOLEAN, body : Body, labels : SUBSET STRING,
     duplicate : Nat, answers : Nat]

ASSUME BootstrapApplyAssumption ==
    /\ EpicTitles \in Seq(IssueTitles) /\ KidTitles \in Seq(IssueTitles)
    /\ EpicOf \in [Kids -> Epics]
    /\ HasConfig \in BOOLEAN
    /\ Earlier \in [IssueNumbers -> Issue \cup {NoIssue}]
    /\ EarlierParent \in [IssueNumbers -> IssueNumbers \cup {Nothing}]
    /\ {MaxStops, MaxMoves} \subseteq Nat

Steps == <<"board", "epics", "issues", "links", "checklists", "cards", "config">>

VARIABLES
    issues,     \* on GitHub
    parent,     \* the epic an issue is a sub-issue of
    boards,     \* how many boards the owner has
    card,       \* the column of an issue on the board
    config,     \* .pi/autopilot.yaml exists
    disk,       \* plan.json: numbers and links filled in, steps done
    run,        \* the command: the plan in its memory, and where it is
    stops, moves

github    == <<issues, parent, boards, card>>
bounds    == <<stops, moves>>
applyVars == <<github, config, disk, run, bounds>>

Fresh == [number |-> [t \in Items |-> Nothing], linked |-> {}, done |-> {}]
Ended == [at |-> "ended", plan |-> Fresh, visited |-> {}]

ApplyInit ==
    /\ issues = Earlier /\ parent = EarlierParent
    /\ boards = 0 /\ card = [n \in IssueNumbers |-> "none"]
    /\ config = FALSE
    /\ disk = Fresh /\ run = Ended
    /\ stops = 0 /\ moves = 0

\* --apply, the first time or again. `visited` are the items a loop is past.
StartApply ==
    /\ run.at = "ended" /\ "config" \notin disk.done
    /\ run' = [at |-> "work", plan |-> disk, visited |-> {}]
    /\ UNCHANGED <<github, config, disk, bounds>>

\* The step is the first that is not done.
At(step) ==
    /\ run.at = "work"
    /\ step \notin run.plan.done
    /\ \E k \in DOMAIN Steps :
          Steps[k] = step /\ \A j \in 1..(k - 1) : Steps[j] \in run.plan.done

\* The plan in memory has changed and is written next, all of it.
Save ==
    /\ run.at = "save"
    /\ disk' = run.plan
    /\ run' = [run EXCEPT !.at = "work"]
    /\ UNCHANGED <<github, config, bounds>>

Note(plan)     == run' = [at |-> "save", plan |-> plan, visited |-> {}]
StepDone(step) == Note([run.plan EXCEPT !.done = @ \cup {step}])

(***************************************************************************)
(* The steps. What is left of one, in the order of the plan:               *)
(***************************************************************************)
Unnumbered(items) == {t \in items : run.plan.number[t] = Nothing}

ToDo(step) ==
    CASE step = "epics"      -> Unnumbered(Epics)
      [] step = "issues"     -> Unnumbered(Kids)
      [] step = "links"      -> Kids \ run.plan.linked
      [] step = "checklists" -> Epics \ run.visited
      [] step = "cards"      -> Items \ run.visited

Item(step) == Min(ToDo(step))

Works(step) == At(step) /\ ToDo(step) # {}

\* Variant: a board is always made, and GitHub refuses a second of that title.
CreateBoard ==
    /\ At("board") /\ boards = 0
    /\ boards' = 1
    /\ StepDone("board")
    /\ UNCHANGED <<issues, parent, card, config, disk, bounds>>

\* The first board there is, or a new one when the operator agrees.
ResolveOrCreateBoard ==
    /\ At("board")
    /\ boards' = IF boards = 0 THEN 1 ELSE boards
    /\ StepDone("board")
    /\ UNCHANGED <<issues, parent, card, config, disk, bounds>>

Number(t, n) == Note([run.plan EXCEPT !.number[t] = n])

Create(t) ==
    /\ HasNext(issues)
    /\ issues' = CreateIssue(issues, TitleOf(t), PlainBody(TitleOf(t)), {})
    /\ Number(t, NextNumber(issues))

\* Variant: what this plan has not created is created.
CreateAnyway(step) ==
    /\ Works(step)
    /\ Create(Item(step))
    /\ UNCHANGED <<parent, boards, card, config, disk, bounds>>

\* An issue of the title, whoever made it, is taken; else one is created.
FindOrCreate(step) ==
    /\ Works(step)
    /\ LET n == FindIssueByTitle(issues, TitleOf(Item(step)))
       IN  IF n # Nothing THEN Number(Item(step), n) /\ UNCHANGED issues
           ELSE Create(Item(step))
    /\ UNCHANGED <<parent, boards, card, config, disk, bounds>>

\* GitHub lets a sub-issue have one parent, not itself, and the same one again.
LinkSubIssue ==
    /\ Works("links")
    /\ LET t == Item("links")
           n == run.plan.number[t]
           e == run.plan.number[EpicOf[t]]
       IN  /\ parent[n] \in {Nothing, e} /\ n # e
           /\ parent' = [parent EXCEPT ![n] = e]
           /\ Note([run.plan EXCEPT !.linked = @ \cup {t}])
    /\ UNCHANGED <<issues, boards, card, config, disk, bounds>>

\* Variant: a loop is through after its first item.
VisitedAll(t) == run' = [run EXCEPT !.visited = Items]

\* The next two loops write nothing until they are through.
Visited(t) == run' = [run EXCEPT !.visited = @ \cup {t}]

Checklist(epic) == {<<run.plan.number[t], TitleOf(t)>> : t \in KidsOf(epic)}

\* The whole body, whichever epic wrote it last.
PatchChecklist ==
    /\ Works("checklists")
    /\ LET t == Item("checklists")
       IN  /\ issues' = UpdateIssueBody(issues, run.plan.number[t],
                                        [PlainBody(TitleOf(t)) EXCEPT !.links = Checklist(t)])
           /\ Visited(t)
    /\ UNCHANGED <<parent, boards, card, config, disk, bounds>>

AddToBoard ==
    /\ Works("cards")
    /\ card' = [card EXCEPT ![run.plan.number[Item("cards")]] = "Todo"]
    /\ Visited(Item("cards"))
    /\ UNCHANGED <<issues, parent, boards, config, disk, bounds>>

FinishStep(step) ==
    /\ At(step) /\ ToDo(step) = {}
    /\ StepDone(step)
    /\ UNCHANGED <<github, config, disk, bounds>>

\* A file that is there stays.
WriteConfig ==
    /\ At("config")
    /\ config' = (config \/ HasConfig)
    /\ StepDone("config")
    /\ UNCHANGED <<github, disk, bounds>>

Finish ==
    /\ run.at = "work" /\ "config" \in run.plan.done
    /\ run' = Ended
    /\ UNCHANGED <<github, config, disk, bounds>>

\* A request fails or its answer is lost, the operator refuses a board, the
\* command is killed: what GitHub did last may not be in the plan.
Stop ==
    /\ stops < MaxStops /\ run.at # "ended"
    /\ stops' = stops + 1
    /\ run' = Ended
    /\ UNCHANGED <<github, config, disk, moves>>

\* People take up an issue on the board, or edit an epic.
Move ==
    /\ moves < MaxMoves
    /\ moves' = moves + 1
    /\ \/ \E n \in IssueNumbers :
             card[n] = "Todo" /\ card' = [card EXCEPT ![n] = "In Progress"] /\ UNCHANGED issues
       \/ \E n \in Existing(issues) :
             /\ \E e \in Epics : issues[n].title = TitleOf(e)
             /\ issues' = [issues EXCEPT ![n].body.contract = "edited"]
             /\ UNCHANGED card
    /\ UNCHANGED <<parent, boards, config, disk, run, stops>>

LoopSteps == {"epics", "issues", "links", "checklists", "cards"}

Apply ==
    \/ StartApply \/ Save \/ ResolveOrCreateBoard \/ FindOrCreate("epics") \/ FindOrCreate("issues")
    \/ LinkSubIssue \/ PatchChecklist \/ AddToBoard \/ WriteConfig \/ Finish
    \/ \E step \in LoopSteps : FinishStep(step)

ApplyNext == Apply \/ Stop \/ Move

\* The command runs on, and the operator applies the plan again.
ApplyFairness == WF_applyVars(Apply)

(***************************************************************************)
(* Properties                                                              *)
(***************************************************************************)
\* Whatever was lost or repeated, a title of the plan that has an issue gets no
\* other, no second board is made, and the numbers stored in the plan are those
\* of issues of their titles. A title that comes twice in the plan has one issue.
NothingTwice ==
    /\ \A title \in PlanTitles :
          IF Titled(Earlier, title) # {} THEN Titled(issues, title) = Titled(Earlier, title)
                                         ELSE Cardinality(Titled(issues, title)) <= 1
    /\ boards <= 1
    /\ \A t \in Items :
          disk.number[t] # Nothing => disk.number[t] \in Titled(issues, TitleOf(t))

\* Of the epics of one title the last writes the body of their issue.
WritesLast(e) == \A f \in Epics : TitleOf(f) = TitleOf(e) => f <= e

\* A plan that counts as applied is applied as a whole, however many attempts it
\* took: all of it has issues and is on the board, each child is below its epic,
\* and in its checklist, unless a later epic of the same title wrote its own.
AppliedIsComplete ==
    "config" \in disk.done =>
       /\ boards = 1 /\ (HasConfig => config)
       /\ \A t \in Items : disk.number[t] # Nothing /\ card[disk.number[t]] # "none"
       /\ \A e \in Epics : \A t \in KidsOf(e) :
             /\ parent[disk.number[t]] = disk.number[e]
             /\ WritesLast(e) =>
                   <<disk.number[t], TitleOf(t)>> \in issues[disk.number[e]].body.links

\* A plan is applied in the end, if it is tried again after each failure.
IsApplied == "config" \in disk.done
=================================================================================
