----------------------------- MODULE PrepareProofs -----------------------------
(***************************************************************************)
(* What Prepare promises, for any number of commands, any results of the   *)
(* sessions and any number of edits: the pointer names a stored, ready     *)
(* report; a contract is of the body it replaces; nothing people did is    *)
(* overridden that could be seen.                                          *)
(***************************************************************************)
EXTENDS Prepare, TLAPS

(***************************************************************************)
(* Types, and what a command holds at each of its places.                  *)
(***************************************************************************)
Preparing == {"fetch", "labels", "reuse", "brainstorm", "clarify", "propose", "recheck", "update"}
Places    == Preparing \cup {"read", "session", "reported", "snapshot"}

Bodies   == [text : Nat, contract : Commands \cup {Nothing}]
Versions == [body : Bodies, updated : Nat]
Reports  == [ready : BOOLEAN, body : Bodies]

Command0 == [at : Places, mode : {"check", "prepare"}, base : Versions \cup {Nothing},
             analysed : Versions \cup {Nothing}, report : Reports \cup {Nothing},
             asks : BOOLEAN, answers : Nat, first : BOOLEAN, blind : BOOLEAN, moved : BOOLEAN]

\* A prepare that has fetched the issue.
Based(k) == k.mode = "prepare" /\ k.at # "fetch"

Holds(k) ==
    /\ k.at \in Preparing => k.mode = "prepare"
    /\ Based(k) => k.base \in Versions
    /\ k.at \in {"session", "reported", "snapshot"} => k.analysed \in Versions
    /\ k.at \in {"reported", "snapshot", "brainstorm", "propose", "recheck", "update"}
         => k.report \in Reports

Live == {k \in Command0 : Holds(k)}

TypeInv ==
    /\ issue \in [open : BOOLEAN, claimed : BOOLEAN, text : Nat,
                  contract : Commands \cup {Nothing}, updated : Nat]
    /\ clock \in Nat /\ edits \in Nat /\ meddling \in Nat /\ blurred \in BOOLEAN
    /\ reports \in SUBSET Reports /\ snapshots \in SUBSET Reports
    /\ pointer \in [report : Reports, updated : Nat] \cup {Nothing}
    /\ cmd \in [Commands -> Live \cup {Idle, Over}]

\* What is about to be named by the pointer is stored and ready.
Stored ==
    /\ \A c \in Commands :
          /\ cmd[c].at \in {"reported", "snapshot"}
               => cmd[c].report \in reports /\ cmd[c].report.ready
          /\ cmd[c].at = "snapshot" => cmd[c].report \in snapshots
    /\ PointerIsReady

\* What the last look saw is still so.
Looked ==
    \A c \in Commands :
        cmd[c].at = "update" /\ ~cmd[c].moved =>
            cmd[c].report.body = Body /\ issue.updated = cmd[c].base.updated

\* The issue a command fetched is the one there is, if no date shows otherwise.
Same(k) ==
    /\ k.base.updated <= issue.updated
    /\ ~blurred /\ issue.updated = k.base.updated =>
          /\ Body = k.base.body
          /\ issue.open
          /\ issue.claimed => k.blind \/ k.at = "labels"

Dated ==
    /\ issue.updated <= clock
    /\ \A c \in Commands : cmd[c] \in Live /\ Based(cmd[c]) => Same(cmd[c])

Inv == TypeInv /\ Stored /\ Looked /\ Dated

(***************************************************************************)
(* A step of a command that changes its own record only.                   *)
(***************************************************************************)
\* What Stored, Looked and Dated say of a command with record k, with the
\* reports rs and the snapshots ss.
FitIn(k, rs, ss) ==
    /\ k.at \in {"reported", "snapshot"} => k.report \in rs /\ k.report.ready
    /\ k.at = "snapshot" => k.report \in ss
    /\ k.at = "update" /\ ~k.moved => k.report.body = Body /\ issue.updated = k.base.updated
    /\ k \in Live /\ Based(k) => Same(k)

Fit(k) == FitIn(k, reports, snapshots)

Keeps(c, k) ==
    /\ UNCHANGED World
    /\ cmd' = [cmd EXCEPT ![c] = k]
    /\ reports \subseteq reports' /\ reports' \subseteq Reports
    /\ snapshots \subseteq snapshots' /\ snapshots' \subseteq Reports
    /\ pointer' \in [report : Reports, updated : Nat] \cup {Nothing}

\* Such a step keeps the invariant if the new record fits.
LEMMA OwnStep ==
    ASSUME Inv, NEW c \in Commands, NEW k \in Live \cup {Idle, Over},
           Keeps(c, k), FitIn(k, reports', snapshots'), PointerIsReady'
    PROVE  Inv'
  <1> USE DEF Inv, Keeps, World
  <1>1. /\ cmd'[c] = k
        /\ \A d \in Commands : d # c => cmd'[d] = cmd[d]
    BY DEF TypeInv
  <1>2. TypeInv'
    BY DEF TypeInv
  <1>3. Stored'
    BY <1>1 DEF Stored, FitIn
  <1>4. Looked'
    BY <1>1 DEF Looked, FitIn, Body
  <1>5. Dated'
    BY <1>1 DEF Dated, FitIn, Same, Body
  <1> QED
    BY <1>2, <1>3, <1>4, <1>5

\* A command that ends, fits.
LEMMA OverFits == ASSUME NEW rs, NEW ss PROVE FitIn(Over, rs, ss)
  BY DEF FitIn, Live, Command0, Over, Idle, Places, Preparing

\* Places tell the records apart.
LEMMA AtPlace ==
    ASSUME TypeInv, NEW c \in Commands, cmd[c].at \in Places
    PROVE  cmd[c] \in Live
  BY DEF TypeInv, Idle, Over, Places, Preparing

(***************************************************************************)
(* The steps of a command.                                                 *)
(***************************************************************************)
\* A command that ends.
LEMMA EndKeeps ==
    ASSUME Inv, NEW c \in Commands, End(c), UNCHANGED <<World, Artifacts>>
    PROVE  Inv'
  <1>1. Keeps(c, Over)
    BY DEF Keeps, End, Inv, TypeInv, Artifacts
  <1>2. PointerIsReady'
    BY DEF Inv, Stored, PointerIsReady, Artifacts
  <1> QED
    BY <1>1, <1>2, OwnStep, OverFits

\* Two commands begin alike.
LEMMA StartKeeps ==
    ASSUME Inv, NEW c \in Commands, NEW mode, NEW at,
           \/ mode = "check" /\ at = "read"
           \/ mode = "prepare" /\ at = "fetch",
           Start(c, mode, at)
    PROVE  Inv'
  <1> DEFINE k == [at |-> at, mode |-> mode, base |-> Nothing, analysed |-> Nothing,
                   report |-> Nothing, asks |-> FALSE, answers |-> 0, first |-> TRUE,
                   blind |-> FALSE, moved |-> FALSE]
  <1>1. k \in Live
    BY DEF Live, Command0, Holds, Based, Places, Preparing
  <1>2. Keeps(c, k)
    BY DEF Keeps, Start, Inv, TypeInv, Artifacts
  <1>3. FitIn(k, reports', snapshots')
    BY DEF FitIn, Based
  <1>4. PointerIsReady'
    BY DEF Start, Inv, Stored, PointerIsReady, Artifacts
  <1> QED
    BY <1>1, <1>2, <1>3, <1>4, OwnStep

\* A command that goes on with another record and writes nothing.
LEMMA GoKeeps ==
    ASSUME Inv, NEW c \in Commands, NEW k \in Live,
           cmd' = [cmd EXCEPT ![c] = k], UNCHANGED <<World, Artifacts>>, Fit(k)
    PROVE  Inv'
  <1>1. Keeps(c, k)
    BY DEF Keeps, Inv, TypeInv, Artifacts
  <1>2. PointerIsReady'
    BY DEF Inv, Stored, PointerIsReady, Artifacts
  <1>3. FitIn(k, reports', snapshots')
    BY DEF Fit, Artifacts
  <1> QED
    BY <1>1, <1>2, <1>3, OwnStep

\* What the invariant says of one command.
LEMMA FitsNow ==
    ASSUME Inv, NEW c \in Commands
    PROVE  Fit(cmd[c])
  BY DEF Inv, Stored, Looked, Dated, Fit, FitIn

\* ReadinessService.check.
LEMMA CheckKeeps ==
    ASSUME Inv, NEW c \in Commands,
           ReadIssue(c) \/ WriteReport(c) \/ WriteSnapshot(c) \/ WritePointer(c)
    PROVE  Inv'
  <1> DEFINE k == cmd[c]
  <1>0. Fit(k) /\ TypeInv
    BY FitsNow DEF Inv
  <1>1. CASE ReadIssue(c)
    <2> DEFINE n == [k EXCEPT !.at = "session", !.analysed = Version]
    <2>1. k \in Live
      BY <1>0, <1>1, AtPlace DEF ReadIssue, Places
    <2>2. n \in Live
      BY <1>0, <2>1, <1>1 DEF Live, Command0, Holds, Based, Places, Preparing, Version, Versions,
                          Body, Bodies, TypeInv, ReadIssue
    <2>3. Fit(n)
      BY <1>0, <2>1, <1>1 DEF Fit, FitIn, Live, Command0, Holds, Based, Same, ReadIssue
    <2>4. cmd' = [cmd EXCEPT ![c] = n] /\ UNCHANGED <<World, Artifacts>>
      BY <1>1 DEF ReadIssue
    <2> QED
      BY <2>2, <2>3, <2>4, GoKeeps
  <1>2. CASE WriteReport(c)
    <2>1. k \in Live /\ k.at = "session" /\ k.analysed \in Versions
      BY <1>0, <1>2, AtPlace DEF WriteReport, Places, Live, Holds
    <2>2. PICK r \in Results :
            LET report == [ready |-> IsReady(r), body |-> k.analysed.body]
            IN  /\ reports' = reports \cup {report}
                /\ IF IsReady(r)
                   THEN cmd' = [cmd EXCEPT ![c].at = "reported", ![c].report = report]
                   ELSE IF k.mode = "check" THEN End(c)
                   ELSE cmd' = [cmd EXCEPT ![c].at = WithGaps(c, r), ![c].report = report,
                                           ![c].analysed = Nothing,
                                           ![c].asks = Asks(r), ![c].first = FALSE]
      BY <1>2 DEF WriteReport
    <2> DEFINE report == [ready |-> IsReady(r), body |-> k.analysed.body]
    <2>3. /\ report \in Reports /\ IsReady(r) \in BOOLEAN
          /\ reports' = reports \cup {report}
          /\ UNCHANGED <<World, snapshots, pointer>>
      BY <1>2, <2>1, <2>2 DEF Reports, Versions, IsReady, WriteReport
    <2>4. PointerIsReady'
      BY <2>3 DEF Inv, Stored, PointerIsReady
    <2>5. CASE IsReady(r)
      <3> DEFINE n == [k EXCEPT !.at = "reported", !.report = report]
      <3>1. n \in Live
        BY <2>1, <2>3 DEF Live, Command0, Holds, Based, Places, Preparing
      <3>2. Keeps(c, n)
        BY <1>0, <2>2, <2>3, <2>5 DEF Keeps, TypeInv
      <3>3. FitIn(n, reports', snapshots')
        BY <1>0, <2>1, <2>3, <2>5, <3>1 DEF Fit, FitIn, Live, Command0, Holds, Based, Same
      <3> QED
        BY <2>4, <3>1, <3>2, <3>3, OwnStep
    <2>6. CASE ~IsReady(r) /\ k.mode = "check"
      <3>1. Keeps(c, Over)
        BY <1>0, <2>2, <2>3, <2>6 DEF Keeps, TypeInv, End
      <3> QED
        BY <2>4, <3>1, OwnStep, OverFits
    <2>7. CASE ~IsReady(r) /\ k.mode = "prepare"
      <3> DEFINE n == [k EXCEPT !.at = WithGaps(c, r), !.report = report, !.analysed = Nothing,
                                !.asks = Asks(r), !.first = FALSE]
      <3>1. WithGaps(c, r) \in {"brainstorm", "clarify", "propose"} /\ Asks(r) \in BOOLEAN
        BY DEF WithGaps, Asks
      <3>2. n \in Live
        BY <2>1, <2>3, <2>7, <3>1 DEF Live, Command0, Holds, Based, Places, Preparing
      <3>3. Keeps(c, n)
        BY <1>0, <2>2, <2>3, <2>7 DEF Keeps, TypeInv
      <3>4. FitIn(n, reports', snapshots')
        BY <1>0, <2>1, <2>3, <3>1, <3>2 DEF Fit, FitIn, Live, Command0, Holds, Based, Same
      <3> QED
        BY <2>4, <3>2, <3>3, <3>4, OwnStep
    <2> QED
      BY <2>1, <2>5, <2>6, <2>7 DEF Live, Command0
  <1>3. CASE WriteSnapshot(c)
    <2> DEFINE n == [k EXCEPT !.at = "snapshot"]
    <2>1. k \in Live /\ k.at = "reported"
      BY <1>0, <1>3, AtPlace DEF WriteSnapshot, Places
    <2>2. n \in Live
      BY <2>1 DEF Live, Command0, Holds, Based, Places, Preparing
    <2>3. Keeps(c, n)
      BY <1>0, <1>3, <2>1 DEF Keeps, TypeInv, WriteSnapshot, Go, Live, Holds
    <2>4. FitIn(n, reports', snapshots')
      BY <1>0, <1>3, <2>1, <2>2 DEF Fit, FitIn, Live, Command0, Holds, Based, Same, WriteSnapshot
    <2>5. PointerIsReady'
      BY <1>3 DEF Inv, Stored, PointerIsReady, WriteSnapshot
    <2> QED
      BY <2>2, <2>3, <2>4, <2>5, OwnStep
  <1>4. CASE WritePointer(c)
    <2>1. /\ k \in Live /\ k.at = "snapshot" /\ k.analysed \in Versions
          /\ k.report \in reports \cap snapshots /\ k.report.ready /\ k.report \in Reports
      BY <1>0, <1>4, AtPlace DEF WritePointer, Places, Live, Holds, Fit, FitIn
    <2>2. PointerIsReady'
      BY <1>4, <2>1 DEF PointerIsReady, WritePointer
    <2>3. CASE k.mode = "check"
      <3>1. Keeps(c, Over)
        BY <1>0, <1>4, <2>1, <2>3 DEF Keeps, TypeInv, End, WritePointer, Versions
      <3> QED
        BY <2>2, <3>1, OwnStep, OverFits
    <2>4. CASE k.mode # "check"
      <3> DEFINE n == [k EXCEPT !.at = "propose", !.analysed = Nothing]
      <3>1. n \in Live
        BY <2>1, <2>4 DEF Live, Command0, Holds, Based, Places, Preparing
      <3>2. Keeps(c, n)
        BY <1>0, <1>4, <2>1, <2>4 DEF Keeps, TypeInv, WritePointer, Versions
      <3>3. FitIn(n, reports', snapshots')
        BY <1>0, <1>4, <2>1, <3>1 DEF Fit, FitIn, Live, Command0, Holds, Based, Same, WritePointer
      <3> QED
        BY <2>2, <3>1, <3>2, <3>3, OwnStep
    <2> QED
      BY <2>3, <2>4
  <1> QED
    BY <1>1, <1>2, <1>3, <1>4

\* prepare, up to its proposal.
LEMMA AskKeeps ==
    ASSUME Inv, NEW c \in Commands,
           \/ FetchIssue(c) \/ CheckLabels(c) \/ FindReusableReport(c)
           \/ Brainstorm(c) \/ Clarify(c)
    PROVE  Inv'
  <1> DEFINE k == cmd[c]
  <1>0. Fit(k) /\ TypeInv
    BY FitsNow DEF Inv
  <1>1. CASE FetchIssue(c)
    <2> DEFINE n == [k EXCEPT !.at = "labels", !.base = Version]
    <2>1. k \in Live /\ k.at = "fetch"
      BY <1>0, <1>1, AtPlace DEF FetchIssue, Places, Preparing
    <2>2. n \in Live
      BY <1>0, <2>1 DEF Live, Command0, Holds, Based, Places, Preparing, Version, Versions,
                        Body, Bodies, TypeInv
    <2>3. CASE issue.open
      <3>1. Fit(n)
        BY <1>0, <2>1, <2>3 DEF Fit, FitIn, Live, Command0, Based, Same, Version, TypeInv
      <3>2. cmd' = [cmd EXCEPT ![c] = n] /\ UNCHANGED <<World, Artifacts>>
        BY <1>1, <2>3 DEF FetchIssue
      <3> QED
        BY <2>2, <3>1, <3>2, GoKeeps
    <2> QED
      BY <1>1, <2>3, EndKeeps DEF FetchIssue
  <1>2. CASE CheckLabels(c)
    <2>1. k \in Live /\ k.at = "labels"
      BY <1>0, <1>2, AtPlace DEF CheckLabels, Places, Preparing
    <2>2. CASE ~issue.claimed /\ Go(c, "reuse")
      <3> DEFINE n == [k EXCEPT !.at = "reuse"]
      <3>1. n \in Live
        BY <2>1 DEF Live, Command0, Holds, Based, Places, Preparing
      <3>2. Fit(n)
        BY <1>0, <2>1, <2>2 DEF Fit, FitIn, Live, Command0, Based, Same
      <3> QED
        BY <1>2, <2>2, <3>1, <3>2, GoKeeps DEF CheckLabels, Go
    <2>3. CASE cmd' = [cmd EXCEPT ![c].at = "reuse", ![c].blind = TRUE]
      <3> DEFINE n == [k EXCEPT !.at = "reuse", !.blind = TRUE]
      <3>1. n \in Live
        BY <2>1 DEF Live, Command0, Holds, Based, Places, Preparing
      <3>2. Fit(n)
        BY <1>0, <2>1 DEF Fit, FitIn, Live, Command0, Based, Same
      <3> QED
        BY <1>2, <2>3, <3>1, <3>2, GoKeeps DEF CheckLabels
    <2> QED
      BY <1>2, <2>2, <2>3, EndKeeps DEF CheckLabels
  <1>3. CASE FindReusableReport(c)
    <2>1. k \in Live /\ k.at = "reuse"
      BY <1>0, <1>3, AtPlace DEF FindReusableReport, Places, Preparing
    <2>2. ASSUME NEW report \in Reports,
                 cmd' = [cmd EXCEPT ![c].at = "propose", ![c].report = report]
          PROVE  Inv'
      <3> DEFINE n == [k EXCEPT !.at = "propose", !.report = report]
      <3>1. n \in Live
        BY <2>1, <2>2 DEF Live, Command0, Holds, Based, Places, Preparing
      <3>2. Fit(n)
        BY <1>0, <2>1 DEF Fit, FitIn, Live, Command0, Based, Same
      <3> QED
        BY <1>3, <2>2, <3>1, <3>2, GoKeeps DEF FindReusableReport
    <2>3. \A p \in {pointer} \ {Nothing} : p.report \in Reports
      BY <1>0 DEF TypeInv
    <2>4. \A report \in {p.report : p \in {q \in {pointer} \ {Nothing} :
                                          q.updated = k.base.updated}} \cup reports :
              report \in Reports
      BY <1>0, <2>3 DEF TypeInv
    <2>5. CASE Go(c, "read")
      <3> DEFINE n == [k EXCEPT !.at = "read"]
      <3>1. n \in Live
        BY <2>1 DEF Live, Command0, Holds, Based, Places, Preparing
      <3>2. Fit(n)
        BY <1>0, <2>1 DEF Fit, FitIn, Live, Command0, Based, Same
      <3> QED
        BY <1>3, <2>5, <3>1, <3>2, GoKeeps DEF FindReusableReport, Go
    <2> QED
      BY <1>3, <2>2, <2>4, <2>5 DEF FindReusableReport
  <1>4. CASE Brainstorm(c)
    <2>1. k \in Live /\ k.at = "brainstorm"
      BY <1>0, <1>4, AtPlace DEF Brainstorm, Places, Preparing
    <2>2. PICK n \in {Again(c), [k EXCEPT !.at = IF k.asks THEN "clarify" ELSE "propose"]} :
              cmd' = [cmd EXCEPT ![c] = n]
      BY <1>4 DEF Brainstorm
    <2>3. n \in Live
      BY ZenonT(40), <2>1, <2>2 DEF Live, Command0, Holds, Based, Places, Preparing, Again
    <2>4. Fit(n)
      BY ZenonT(40), <1>0, <2>1, <2>2 DEF Fit, FitIn, Live, Command0, Based, Same, Again
    <2> QED
      BY <1>4, <2>2, <2>3, <2>4, GoKeeps DEF Brainstorm
  <1>5. CASE Clarify(c)
    <2>1. k \in Live /\ k.at = "clarify"
      BY <1>0, <1>5, AtPlace DEF Clarify, Places, Preparing
    <2>2. k.answers \in Nat /\ Again(c).answers = k.answers
      BY <2>1 DEF Live, Command0, Again
    <2>3. PICK m \in Nat : m = k.answers + 1
      BY <2>2
    <2> DEFINE n == [Again(c) EXCEPT !.answers = m]
    <2>4. n \in Live
      BY <2>1 DEF Live, Command0, Holds, Based, Places, Preparing, Again
    <2>5. Fit(n)
      BY <1>0, <2>1 DEF Fit, FitIn, Live, Command0, Based, Same, Again
    <2>6. \/ cmd' = [cmd EXCEPT ![c] = n]
          \/ End(c)
      BY <1>5, <2>2, <2>3 DEF Clarify
    <2> QED
      BY <1>5, <2>4, <2>5, <2>6, GoKeeps, EndKeeps DEF Clarify
  <1> QED
    BY <1>1, <1>2, <1>3, <1>4, <1>5

\* The proposal and the second look.
LEMMA ProposeKeeps ==
    ASSUME Inv, NEW c \in Commands, Approve(c) \/ Recheck(c)
    PROVE  Inv'
  <1> DEFINE k == cmd[c]
  <1>0. Fit(k) /\ TypeInv
    BY FitsNow DEF Inv
  <1>1. CASE Approve(c)
    <2> DEFINE n == [k EXCEPT !.at = "recheck"]
    <2>1. k \in Live /\ k.at = "propose"
      BY <1>0, <1>1, AtPlace DEF Approve, Places, Preparing
    <2>2. n \in Live
      BY <2>1 DEF Live, Command0, Holds, Based, Places, Preparing
    <2>3. Fit(n)
      BY <1>0, <2>1 DEF Fit, FitIn, Live, Command0, Based, Same
    <2> QED
      BY <1>1, <2>2, <2>3, GoKeeps DEF Approve, Go
  <1>2. CASE Recheck(c)
    <2> DEFINE n == [k EXCEPT !.at = "update"]
    <2>1. k \in Live /\ k.at = "recheck"
      BY <1>0, <1>2, AtPlace DEF Recheck, Places, Preparing
    <2>2. n \in Live
      BY <2>1 DEF Live, Command0, Holds, Based, Places, Preparing
    <2>3. CASE issue.updated = k.base.updated /\ Body = k.report.body
      <3>1. Fit(n)
        BY <1>0, <2>1, <2>3 DEF Fit, FitIn, Live, Command0, Based, Same
      <3> QED
        BY <1>2, <2>2, <2>3, <3>1, GoKeeps DEF Recheck, Go
    <2> QED
      BY <1>2, <2>3, EndKeeps DEF Recheck
  <1> QED
    BY <1>1, <1>2

(***************************************************************************)
(* Steps that change the issue.                                            *)
(***************************************************************************)
\* Whoever changes the issue, at this second: commands that have taken their
\* last look are marked, and no date a command holds is later.
LEMMA ChangeKeeps ==
    ASSUME Inv, NEW w,
           issue' \in [open : BOOLEAN, claimed : BOOLEAN, text : Nat,
                       contract : Commands \cup {Nothing}, updated : Nat],
           issue'.updated = clock,
           blurred' = (blurred \/ issue.updated = clock),
           cmd' = Unseen(w),
           edits' \in Nat, meddling' \in Nat,
           UNCHANGED <<clock, Artifacts>>
    PROVE  Inv'
  <1>1. ASSUME NEW d \in Commands
        PROVE  /\ cmd'[d] \in Live \cup {Idle, Over}
               /\ cmd'[d].at = "update" => cmd'[d].moved
               /\ cmd'[d].at \in {"reported", "snapshot"} =>
                    cmd'[d].at = cmd[d].at /\ cmd'[d].report = cmd[d].report
               /\ cmd'[d] \in Live /\ Based(cmd'[d]) =>
                    /\ cmd[d] \in Live /\ Based(cmd[d])
                    /\ cmd'[d].base = cmd[d].base
    <2>1. cmd[d] \in Live \cup {Idle, Over}
      BY DEF Inv, TypeInv
    <2>2. CASE d # w /\ cmd[d].at = "update"
      <3>1. cmd'[d] = [cmd[d] EXCEPT !.moved = TRUE]
        BY <2>2 DEF Unseen
      <3>2. cmd[d] \in Live
        BY <2>2, AtPlace DEF Inv, Places, Preparing
      <3> QED
        BY <3>1, <3>2, <2>2 DEF Live, Command0, Holds, Based, Preparing
    <2>3. CASE ~(d # w /\ cmd[d].at = "update") /\ d = w
      <3>1. cmd'[d] = Over
        BY <2>3 DEF Unseen
      <3> QED
        BY <3>1 DEF Over, Live, Command0, Places, Preparing
    <2>4. CASE d # w /\ cmd[d].at # "update"
      <3>1. cmd'[d] = cmd[d]
        BY <2>4 DEF Unseen
      <3> QED
        BY <3>1, <2>1, <2>4
    <2> QED
      BY <2>2, <2>3, <2>4
  <1>2. TypeInv'
    <2>1. cmd' \in [Commands -> Live \cup {Idle, Over}]
      BY <1>1 DEF Unseen
    <2>2. blurred' \in BOOLEAN
      BY DEF Inv, TypeInv
    <2> QED
      BY <2>1, <2>2 DEF Inv, TypeInv, Artifacts
  <1>3. Stored'
    BY <1>1 DEF Inv, Stored, PointerIsReady, Artifacts
  <1>4. Looked'
    BY <1>1 DEF Looked
  <1>5. Dated'
    <2> SUFFICES ASSUME NEW d \in Commands, cmd'[d] \in Live, Based(cmd'[d])
                 PROVE  Same(cmd[d])'
      BY <1>2 DEF Dated, TypeInv
    <2>1. cmd[d] \in Live /\ Based(cmd[d]) /\ cmd'[d].base = cmd[d].base
      BY <1>1
    <2>2. /\ cmd[d].base.updated \in Nat /\ issue.updated \in Nat /\ clock \in Nat
          /\ cmd[d].base.updated <= issue.updated /\ issue.updated <= clock
      BY <2>1 DEF Inv, TypeInv, Dated, Same, Live, Holds, Versions
    <2>3. ~blurred' => issue.updated # clock
      OBVIOUS
    <2>4. cmd'[d].base.updated <= issue'.updated
      BY <2>1, <2>2
    <2>5. ~blurred' => issue'.updated # cmd'[d].base.updated
      BY <2>1, <2>2, <2>3
    <2> QED
      BY <2>4, <2>5 DEF Same
  <1> QED
    BY <1>2, <1>3, <1>4, <1>5 DEF Inv

LEMMA UpdateKeeps ==
    ASSUME Inv, NEW c \in Commands, UpdateIssueBody(c)
    PROVE  Inv'
  <1>1. cmd[c] \in Live /\ cmd[c].base.body.text \in Nat
    BY AtPlace DEF Inv, UpdateIssueBody, Places, Preparing, Live, Holds, Based, Versions, Bodies
  <1>2. /\ issue' \in [open : BOOLEAN, claimed : BOOLEAN, text : Nat,
                       contract : Commands \cup {Nothing}, updated : Nat]
        /\ issue'.updated = clock
    BY <1>1 DEF UpdateIssueBody, Inv, TypeInv
  <1> QED
    BY <1>2, ChangeKeeps DEF UpdateIssueBody, Inv, TypeInv

LEMMA EditKeeps ==
    ASSUME Inv, Edit
    PROVE  Inv'
  <1>1. edits + 1 \in Nat
    BY DEF Inv, TypeInv
  <1>2. PICK m \in Nat : m = edits + 1
    BY <1>1
  <1>3. issue' = [issue EXCEPT !.text = m, !.updated = clock] /\ edits' = m
    BY <1>2 DEF Edit
  <1>4. /\ issue' \in [open : BOOLEAN, claimed : BOOLEAN, text : Nat,
                       contract : Commands \cup {Nothing}, updated : Nat]
        /\ issue'.updated = clock
    BY <1>3 DEF Inv, TypeInv
  <1> QED
    BY <1>3, <1>4, ChangeKeeps DEF Edit, Inv, TypeInv

LEMMA MeddleKeeps ==
    ASSUME Inv, Meddle
    PROVE  Inv'
  <1>1. meddling' \in Nat /\ edits' \in Nat
    BY DEF Meddle, Inv, TypeInv
  <1>2. /\ issue' \in [open : BOOLEAN, claimed : BOOLEAN, text : Nat,
                       contract : Commands \cup {Nothing}, updated : Nat]
        /\ issue'.updated = clock
    BY DEF Meddle, Inv, TypeInv
  <1> QED
    BY <1>1, <1>2, ChangeKeeps DEF Meddle

LEMMA TickKeeps ==
    ASSUME Inv, Tick
    PROVE  Inv'
  <1> USE DEF Inv, Tick, Artifacts
  <1>1. clock' \in Nat /\ issue.updated <= clock'
    BY DEF TypeInv, Dated
  <1>2. TypeInv'
    BY <1>1 DEF TypeInv
  <1>3. Stored'
    BY DEF Stored, PointerIsReady
  <1>4. Looked'
    BY DEF Looked, Body
  <1>5. Dated'
    BY <1>1 DEF Dated, Same, Body
  <1> QED
    BY <1>2, <1>3, <1>4, <1>5

(***************************************************************************)
(* The invariant.                                                          *)
(***************************************************************************)
LEMMA InitInv == ASSUME Init PROVE Inv
  <1>1. \A c \in Commands : cmd[c] = Idle
    BY DEF Init
  <1>2. Idle \notin Live /\ Idle.at = "idle"
    BY DEF Idle, Live, Command0, Places, Preparing
  <1> USE <1>1, <1>2 DEF Init
  <1>3. TypeInv
    BY DEF TypeInv
  <1>4. Stored
    BY DEF Stored, PointerIsReady
  <1>5. Looked
    BY DEF Looked
  <1>6. Dated
    BY DEF Dated
  <1> QED
    BY <1>3, <1>4, <1>5, <1>6 DEF Inv

LEMMA CommandKeeps ==
    ASSUME Inv, NEW c \in Commands, Command(c)
    PROVE  Inv'
  <1>1. CASE StartCheck(c) \/ StartPrepare(c)
    BY <1>1, StartKeeps DEF StartCheck, StartPrepare
  <1>2. CASE ReadIssue(c) \/ WriteReport(c) \/ WriteSnapshot(c) \/ WritePointer(c)
    BY <1>2, CheckKeeps
  <1>3. CASE \/ FetchIssue(c) \/ CheckLabels(c) \/ FindReusableReport(c)
             \/ Brainstorm(c) \/ Clarify(c)
    BY <1>3, AskKeeps
  <1>4. CASE Approve(c) \/ Recheck(c)
    BY <1>4, ProposeKeeps
  <1>5. CASE UpdateIssueBody(c)
    BY <1>5, UpdateKeeps
  <1>6. CASE Leave(c)
    BY <1>6, EndKeeps DEF Leave
  <1> QED
    BY <1>1, <1>2, <1>3, <1>4, <1>5, <1>6 DEF Command

LEMMA NextKeeps == Inv /\ [Next]_vars => Inv'
  <1> SUFFICES ASSUME Inv, [Next]_vars PROVE Inv'
    OBVIOUS
  <1>1. CASE Next
    BY <1>1, CommandKeeps, EditKeeps, MeddleKeeps, TickKeeps DEF Next
  <1>2. CASE UNCHANGED vars
    BY <1>2 DEF vars, Inv, TypeInv, Stored, PointerIsReady, Looked, Dated, Same, Body
  <1> QED
    BY <1>1, <1>2

LEMMA Invariant == Spec => []Inv
  BY InitInv, NextKeeps, PTL DEF Spec

\* Whenever a check or a prepare is killed, and however two of them
\* interleave, latest-ready.json names a stored report that is ready and has
\* its snapshot: the report and the snapshot are written before the pointer.
THEOREM PointerAlwaysReady == Spec => []PointerIsReady
  <1>1. Inv => PointerIsReady
    BY DEF Inv, Stored
  <1> QED
    BY <1>1, Invariant, PTL

(***************************************************************************)
(* Writing the body.                                                       *)
(***************************************************************************)
\* Only the command itself writes the body and is over by that.
LEMMA WritesItself ==
    ASSUME Inv, [Next]_vars, NEW c \in Commands, Writes(c)
    PROVE  UpdateIssueBody(c)
  <1>1. cmd[c] \in Live /\ cmd[c].at = "update" /\ cmd'[c] = Over /\ issue' # issue
    BY AtPlace DEF Writes, Inv, Places, Preparing
  <1>2. [cmd[c] EXCEPT !.moved = TRUE] # Over
    BY <1>1 DEF Live, Command0, Over
  <1>3. ASSUME NEW w, w # c PROVE cmd' # Unseen(w)
    BY <1>1, <1>2, <1>3 DEF Unseen
  <1>4. ASSUME NEW d \in Commands, Command(d) PROVE UpdateIssueBody(c)
    <2>1. UpdateIssueBody(d) \/ UNCHANGED World
      BY <1>4 DEF Command, StartCheck, StartPrepare, Start, ReadIssue, WriteReport, WriteSnapshot,
                  WritePointer, FetchIssue, CheckLabels, FindReusableReport, Brainstorm, Clarify,
                  Approve, Recheck, Leave
    <2>2. UpdateIssueBody(d)
      BY <1>1, <2>1 DEF World
    <2> QED
      BY <2>2, <1>3 DEF UpdateIssueBody
  <1>5. ~Edit /\ ~Meddle
    BY <1>3, PrepareAssumption DEF Edit, Meddle
  <1>6. ~Tick /\ ~UNCHANGED vars
    BY <1>1 DEF Tick, vars
  <1> QED
    BY <1>4, <1>5, <1>6 DEF Next

\* The contract a prepare writes was drafted from the very body it replaces,
\* unless the issue changed between the second look and the write.
THEOREM ContractsFit == Spec => ContractIsOfThisBody
  <1>1. Inv /\ [Next]_vars =>
          [\A c \in Commands : Writes(c) /\ ~cmd[c].moved => cmd[c].report.body = Body]_vars
    BY DEF Inv, Looked, Writes
  <1> QED
    BY <1>1, Invariant, PTL DEF Spec, ContractIsOfThisBody

\* What people did while a prepare analysed, asked and waited stands: the text
\* that is replaced is the text that was fetched, the issue is still open and,
\* if its labels could be read, still free, unless it changed after the second
\* look or without its date showing it.
THEOREM PeopleAreHeard == Spec => NothingIsOverridden
  <1>1. ASSUME Inv, [Next]_vars, NEW c \in Commands, Writes(c), ~cmd[c].moved, ~blurred
        PROVE  issue'.text = issue.text /\ issue.open /\ (issue.claimed => cmd[c].blind)
    <2>1. UpdateIssueBody(c)
      BY <1>1, WritesItself
    <2>2. cmd[c] \in Live /\ cmd[c].at = "update" /\ Based(cmd[c])
      BY <1>1, AtPlace DEF Writes, Inv, Places, Preparing, Live, Holds, Based
    <2>3. Same(cmd[c]) /\ issue.updated = cmd[c].base.updated
      BY <1>1, <2>2 DEF Inv, Looked, Dated
    <2>4. Body = cmd[c].base.body /\ issue.open /\ (issue.claimed => cmd[c].blind)
      BY <1>1, <2>2, <2>3 DEF Same
    <2>5. issue.text = cmd[c].base.body.text
      BY <2>4 DEF Body
    <2>6. issue'.text = cmd[c].base.body.text
      BY <1>1, <2>1 DEF UpdateIssueBody, Inv, TypeInv
    <2> QED
      BY <2>4, <2>5, <2>6
  <1>2. Inv /\ [Next]_vars =>
          [\A c \in Commands :
              Writes(c) /\ ~cmd[c].moved /\ ~blurred =>
                 /\ issue'.text = issue.text
                 /\ issue.open
                 /\ issue.claimed => cmd[c].blind]_vars
    BY <1>1
  <1> QED
    BY <1>2, Invariant, PTL DEF Spec, NothingIsOverridden
=================================================================================
