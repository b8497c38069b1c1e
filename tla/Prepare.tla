--------------------------------- MODULE Prepare --------------------------------
(***************************************************************************)
(* `check` has a refiner analyse an issue and stores the report, and, if   *)
(* the issue is ready, a pointer to it. `prepare` asks the operator until  *)
(* the issue is ready, or reuses a stored report, and writes the contract  *)
(* it proposes into the body of the issue.                                 *)
(*                                                                         *)
(* Several commands run about one issue, while people edit it, comment on  *)
(* it, close it or claim it. GitHub dates an update to the second: two     *)
(* updates may bear the same date. A command may fail or be killed between *)
(* any two steps.                                                          *)
(***************************************************************************)
EXTENDS Naturals

CONSTANTS
    Commands,       \* the commands that are given
    Results,        \* what a refiner session may return
    MaxQuestions,   \* answers one command takes in its clarification loop
    Nothing,
    MaxEdits, MaxMeddling, MaxClock     \* bounds on people and on the time

ASSUME PrepareAssumption ==
    /\ {MaxQuestions, MaxEdits, MaxMeddling, MaxClock} \subseteq Nat
    /\ Nothing \notin Commands

(***************************************************************************)
(* A session returns its outcome, whether it misses information, which     *)
(* kind of ambiguity it reports, if any, and whether its draft obeys the   *)
(* rules: an objective, criteria, validation that is not manual, ...       *)
(***************************************************************************)
ReadinessGaps(r) ==
       IF r.outcome = "FAILED" THEN {"REFINER_FAILED"} ELSE {}
  \cup IF r.outcome = "NEEDS_REFINEMENT" \/ r.missing THEN {"INCOMPLETE_INFORMATION"} ELSE {}
  \cup IF r.outcome = "PRODUCT_AMBIGUITY" \/ r.ambiguity = "PRODUCT" THEN {"PRODUCT_AMBIGUITY"} ELSE {}
  \cup IF r.sound THEN {} ELSE {"UNSOUND_DRAFT"}

IsReady(r) == r.outcome = "READY" /\ ReadinessGaps(r) = {}

Asks(r) == r.missing \/ r.ambiguity # "none"

VARIABLES
    issue,      \* on GitHub: its state, the label that claims it, its body, its date
    clock,      \* the second
    reports,    \* the stored readiness reports: equal ones are one
    snapshots,  \* those with a stored task snapshot
    pointer,    \* latest-ready pointer of the issue
    cmd,        \* the commands
    edits, meddling,    \* counters that bound the environment
    blurred     \* the body has changed without its date changing

vars == <<issue, clock, reports, snapshots, pointer, cmd, edits, meddling, blurred>>

Artifacts == <<reports, snapshots, pointer>>
World     == <<issue, clock, edits, meddling, blurred>>

\* A body is the text people write, and the managed contract: the command
\* that wrote it, if any. A version of the issue is what a command keeps.
Body    == [text |-> issue.text, contract |-> issue.contract]
Version == [body |-> Body, updated |-> issue.updated]

Idle == [at |-> "idle"]
Over == [at |-> "over"]

Init ==
    /\ issue = [open |-> TRUE, claimed |-> FALSE, text |-> 0, contract |-> Nothing, updated |-> 0]
    /\ clock = 0
    /\ reports = {} /\ snapshots = {} /\ pointer = Nothing
    /\ cmd = [c \in Commands |-> Idle]
    /\ edits = 0 /\ meddling = 0 /\ blurred = FALSE

Start(c, mode, at) ==
    /\ cmd[c] = Idle
    /\ cmd' = [cmd EXCEPT ![c] =
           [at |-> at, mode |-> mode, base |-> Nothing, analysed |-> Nothing,
            report |-> Nothing, asks |-> FALSE, answers |-> 0, first |-> TRUE,
            blind |-> FALSE, moved |-> FALSE]]
    /\ UNCHANGED <<World, Artifacts>>

Go(c, at) == cmd' = [cmd EXCEPT ![c].at = at]
End(c)    == cmd' = [cmd EXCEPT ![c] = Over]

(***************************************************************************)
(* ReadinessService.check, which both commands call                        *)
(***************************************************************************)
StartCheck(c) == Start(c, "check", "read")

\* The analysis fetches the issue for itself.
ReadIssue(c) ==
    /\ cmd[c].at = "read"
    /\ cmd' = [cmd EXCEPT ![c].at = "session", ![c].analysed = Version]
    /\ UNCHANGED <<World, Artifacts>>

\* How prepare goes on with a report that is not ready. Only the first one
\* leads to a brainstorm.
WithGaps(c, r) ==
    IF /\ cmd[c].first
       /\ r.outcome \in {"NEEDS_REFINEMENT", "PRODUCT_AMBIGUITY"} THEN "brainstorm"
    ELSE IF Asks(r) THEN "clarify" ELSE "propose"

\* The session returns and the report is stored. The gate and not the refiner
\* says if it is ready; the hash of the body is the orchestrator's.
WriteReport(c) ==
    /\ cmd[c].at = "session"
    /\ \E r \in Results :
          LET report == [ready |-> IsReady(r), body |-> cmd[c].analysed.body]
          IN  /\ reports' = reports \cup {report}
              /\ IF IsReady(r)
                 THEN cmd' = [cmd EXCEPT ![c].at = "reported", ![c].report = report]
                 ELSE IF cmd[c].mode = "check" THEN End(c)
                 ELSE cmd' = [cmd EXCEPT ![c].at = WithGaps(c, r), ![c].report = report,
                                         ![c].analysed = Nothing,
                                         ![c].asks = Asks(r), ![c].first = FALSE]
    /\ UNCHANGED <<World, snapshots, pointer>>

\* Variant: the pointer is published with the report.
WriteSnapshotLate(c) ==
    /\ cmd[c].at = "reported"
    /\ pointer' = [report |-> cmd[c].report, updated |-> cmd[c].analysed.updated]
    /\ Go(c, "snapshot")
    /\ UNCHANGED <<World, reports, snapshots>>

WriteSnapshot(c) ==
    /\ cmd[c].at = "reported"
    /\ snapshots' = snapshots \cup {cmd[c].report}
    /\ Go(c, "snapshot")
    /\ UNCHANGED <<World, reports, pointer>>

WritePointer(c) ==
    /\ cmd[c].at = "snapshot"
    /\ pointer' = [report |-> cmd[c].report, updated |-> cmd[c].analysed.updated]
    /\ IF cmd[c].mode = "check" THEN End(c)
       ELSE cmd' = [cmd EXCEPT ![c].at = "propose", ![c].analysed = Nothing]
    /\ UNCHANGED <<World, reports, snapshots>>

(***************************************************************************)
(* prepare                                                                 *)
(***************************************************************************)
StartPrepare(c) == Start(c, "prepare", "fetch")

FetchIssue(c) ==
    /\ cmd[c].at = "fetch"
    /\ IF issue.open
       THEN cmd' = [cmd EXCEPT ![c].at = "labels", ![c].base = Version]
       ELSE End(c)
    /\ UNCHANGED <<World, Artifacts>>

\* A label that cannot be read is no reason to stop.
CheckLabels(c) ==
    /\ cmd[c].at = "labels"
    /\ \/ ~issue.claimed /\ Go(c, "reuse")
       \/ issue.claimed /\ End(c)
       \/ cmd' = [cmd EXCEPT ![c].at = "reuse", ![c].blind = TRUE]
    /\ UNCHANGED <<World, Artifacts>>

\* A report fits the issue as first fetched.
IsReusable(c, report) == report.ready /\ report.body = cmd[c].base.body

\* The report the pointer names, of the date the check recorded; or the one
\* named with --from-check, whose date is in the draft, as the refiner copied
\* it, so that it may or may not fit.
FindReusableReport(c) ==
    /\ cmd[c].at = "reuse"
    /\ \/ \E report \in {p.report : p \in {q \in {pointer} \ {Nothing} :
                                              q.updated = cmd[c].base.updated}}
                        \cup reports :
             /\ IsReusable(c, report)
             /\ cmd' = [cmd EXCEPT ![c].at = "propose", ![c].report = report]
       \/ Go(c, "read")
    /\ UNCHANGED <<World, Artifacts>>

\* Another analysis begins, and the report at hand is dropped.
Again(c) == [cmd[c] EXCEPT !.at = "read", !.report = Nothing, !.asks = FALSE]

\* A session of its own for the questions. Its answers go to one analysis;
\* without questions the clarification begins, if the report asks.
Brainstorm(c) ==
    /\ cmd[c].at = "brainstorm"
    /\ \E next \in {Again(c), [cmd[c] EXCEPT !.at = IF cmd[c].asks THEN "clarify" ELSE "propose"]} :
          cmd' = [cmd EXCEPT ![c] = next]
    /\ UNCHANGED <<World, Artifacts>>

\* The operator answers the first open question.
Clarify(c) ==
    /\ cmd[c].at = "clarify"
    /\ IF cmd[c].answers < MaxQuestions
       THEN cmd' = [cmd EXCEPT ![c] = [Again(c) EXCEPT !.answers = @ + 1]]
       ELSE End(c)
    /\ UNCHANGED <<World, Artifacts>>

\* The contract is put into the body as first fetched; the operator agrees.
Approve(c) ==
    /\ cmd[c].at = "propose"
    /\ Go(c, "recheck")
    /\ UNCHANGED <<World, Artifacts>>

\* Variant: the issue is to be free and of the body analysed, at any date.
RecheckBody(c) ==
    /\ cmd[c].at = "recheck"
    /\ IF issue.open /\ ~issue.claimed /\ Body = cmd[c].report.body THEN Go(c, "update") ELSE End(c)
    /\ UNCHANGED <<World, Artifacts>>

\* Variant: an unchanged date is enough.
RecheckDate(c) ==
    /\ cmd[c].at = "recheck"
    /\ IF issue.updated = cmd[c].base.updated THEN Go(c, "update") ELSE End(c)
    /\ UNCHANGED <<World, Artifacts>>

Recheck(c) ==
    /\ cmd[c].at = "recheck"
    /\ IF /\ issue.updated = cmd[c].base.updated
          /\ Body = cmd[c].report.body
       THEN Go(c, "update") ELSE End(c)
    /\ UNCHANGED <<World, Artifacts>>

\* Whoever is about to write has looked at the body before it changed.
Unseen(c) == [d \in Commands |->
                 IF d # c /\ cmd[d].at = "update" THEN [cmd[d] EXCEPT !.moved = TRUE]
                 ELSE IF d = c THEN Over ELSE cmd[d]]

UpdateIssueBody(c) ==
    /\ cmd[c].at = "update"
    /\ issue' = [issue EXCEPT !.text = cmd[c].base.body.text, !.contract = c,
                              !.updated = clock]
    /\ blurred' = (blurred \/ issue.updated = clock)
    /\ cmd' = Unseen(c)
    /\ UNCHANGED <<clock, edits, meddling, Artifacts>>

\* A cancelled question, a refused proposal, a proposal printed, a failed
\* session or request, a kill.
Leave(c) ==
    /\ cmd[c] \notin {Idle, Over}
    /\ End(c)
    /\ UNCHANGED <<World, Artifacts>>

(***************************************************************************)
(* People                                                                  *)
(***************************************************************************)
Edit ==
    /\ edits < MaxEdits
    /\ edits' = edits + 1
    /\ issue' = [issue EXCEPT !.text = edits + 1, !.updated = clock]
    /\ blurred' = (blurred \/ issue.updated = clock)
    /\ cmd' = Unseen(Nothing)
    /\ UNCHANGED <<clock, meddling, Artifacts>>

\* A comment, a label or the state of the issue: they date it, too.
Meddle ==
    /\ meddling < MaxMeddling
    /\ meddling' = meddling + 1
    /\ \/ issue' = [issue EXCEPT !.updated = clock]
       \/ issue' = [issue EXCEPT !.updated = clock, !.open = ~@]
       \/ issue' = [issue EXCEPT !.updated = clock, !.claimed = ~@]
    /\ blurred' = (blurred \/ issue.updated = clock)
    /\ cmd' = Unseen(Nothing)
    /\ UNCHANGED <<clock, edits, Artifacts>>

Tick ==
    /\ clock < MaxClock
    /\ clock' = clock + 1
    /\ UNCHANGED <<issue, edits, meddling, cmd, blurred, Artifacts>>

Command(c) ==
    \/ StartCheck(c) \/ ReadIssue(c) \/ WriteReport(c) \/ WriteSnapshot(c) \/ WritePointer(c)
    \/ StartPrepare(c) \/ FetchIssue(c) \/ CheckLabels(c)
    \/ FindReusableReport(c) \/ Brainstorm(c) \/ Clarify(c) \/ Approve(c) \/ Recheck(c)
    \/ UpdateIssueBody(c) \/ Leave(c)

Next == (\E c \in Commands : Command(c)) \/ Edit \/ Meddle \/ Tick

Spec == Init /\ [][Next]_vars

(***************************************************************************)
(* Properties                                                              *)
(***************************************************************************)
Writes(c) == cmd[c].at = "update" /\ cmd'[c] = Over /\ issue' # issue

\* What people did while prepare analysed, asked and waited for minutes stands:
\* the body that is replaced has the text the proposal was made from, and the
\* issue is still open and, if its labels could be read, still free, though
\* neither is asked again; unless it changed between the last look and the
\* write, or without its date showing it.
NothingIsOverridden ==
    [][\A c \in Commands :
          Writes(c) /\ ~cmd[c].moved /\ ~blurred =>
             /\ issue'.text = issue.text
             /\ issue.open
             /\ issue.claimed => cmd[c].blind]_vars

\* Whatever the dates show, a contract replaces the very body it was drafted
\* from: the analysis of another body, reused or of another pass, is refused.
ContractIsOfThisBody ==
    [][\A c \in Commands :
          Writes(c) /\ ~cmd[c].moved => cmd[c].report.body = Body]_vars

\* Whenever a command is killed, the pointer names a stored report that is
\* ready and has its snapshot.
PointerIsReady ==
    pointer # Nothing =>
       /\ pointer.report \in reports \cap snapshots
       /\ pointer.report.ready
=================================================================================
