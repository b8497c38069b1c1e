-------------------------- MODULE ReconcileApplyProofs --------------------------
(***************************************************************************)
(* What is applied again is not done again, what needs approval has it,    *)
(* and the next analysis hears of the last decisions: for any proposals.   *)
(* And what the reports say is true, for proposals that are coherent.      *)
(***************************************************************************)
EXTENDS ReconcileApply, SiftProofs

\* What a report may hold: what was proposed, or what became of it.
Patches == Spoken \cup {[p EXCEPT !.type = "KEEP"] : p \in Spoken}
                  \cup {[p EXCEPT !.type = "NEEDS_HUMAN"] : p \in Spoken}
Reports == UNION {[places -> Patches] : places \in SUBSET Nat}

CliFields == {"at", "id", "mode", "todo", "all", "entries", "aborted", "consented",
              "seen", "epic", "issue", "kids"}

\* The places where a request that writes is made or prepared.
WritePlaces == {"reading", "writing", "child", "creating", "linking", "linkwrite",
                "labelling", "unlabelling", "commenting", "closing"}
PatchPlaces == {"preparing", "deciding"} \cup WritePlaces
ApplyPlaces == {"next", "saving", "pointing"} \cup PatchPlaces

ProperIssues(is) ==
    /\ DOMAIN is = IssueNumbers
    /\ \A n \in IssueNumbers : is[n] = NoIssue \/ IsIssue(is[n])

ProperCli ==
    \/ cli = Idle
    \/ DOMAIN cli = {"at", "seen", "steering"} /\ cli.at = "session"
    \/ /\ DOMAIN cli = CliFields /\ cli.at \in ApplyPlaces
       /\ cli.id \in DOMAIN reports /\ cli.todo \subseteq DOMAIN reports[cli.id]
       /\ cli.at \in PatchPlaces => cli.todo # {}
       /\ cli.kids \in Seq(IssueNumbers)

Types ==
    /\ ProperIssues(issues) /\ Existing(Backlog) \subseteq Existing(issues)
    /\ reports \in Seq(Reports) /\ DOMAIN applied \subseteq DOMAIN reports
    /\ latest \in DOMAIN applied \cup {Nothing}
    /\ DOMAIN decided = {"declines", "lost"} /\ decided.lost \in BOOLEAN
    /\ faults \in Nat /\ crashes \in Nat /\ edits \in Nat
    /\ ProperCli

\* The declines known to the operator are those of the artifact the pointer names.
Remembered ==
    ~decided.lost =>
        decided.declines = IF latest = Nothing THEN {} ELSE Declines(applied[latest])

Pointing == cli.at = "pointing" => cli.id \in DOMAIN applied

\* Only a patch that was let through comes to be written.
Allowed == cli.at \in WritePlaces => cli.mode # "preview" /\ Approves

\* The title that is looked for, as a search compares it.
Sought == Normalized[TitleToCreate]

\* What the command is about to do, it has found not to be done.
AboutToCreate ==
    /\ cli.at = "child" => Patch.type = "SPLIT_ISSUE"
    /\ cli.at \in {"linking", "linkwrite"} => cli.issue \in IssueNumbers
    /\ cli.at = "creating" =>
          Sought \in IssueTitles /\ Titled(issues, Sought) = {}

AboutToComment ==
    /\ cli.at \in {"deciding"} \cup WritePlaces /\ Patch.type = "NEEDS_HUMAN" =>
          Patch.issue # Nothing
    /\ cli.at = "closing" => Patch.type = "MERGE_DUPLICATE"
    /\ cli.at = "commenting" =>
          \/ Patch.type = "NEEDS_HUMAN" /\ issues[Patch.issue].answers = 0
          \/ Patch.type = "MERGE_DUPLICATE" /\ issues[Patch.issue].duplicate <= faults + crashes

\* An issue that has been read is there.
Known ==
    \/ cli.at \in {"deciding"} \cup WritePlaces /\ Patch.type \in IssuePatches
    \/ cli.at = "commenting"
    => Patch.issue \in Existing(issues)

Closing(n) == cli.at = "closing" /\ Patch.issue = n

\* An open issue has no comment that is not owed to a fault, unless it is
\* about to be closed.
Owed ==
    \A n \in Existing(issues) :
        issues[n].open /\ ~Closing(n) => issues[n].duplicate <= faults + crashes

Inv == Types /\ NothingIsRepeated /\ Remembered /\ Pointing /\ SteeredByLastApply
       /\ Allowed /\ AboutToCreate /\ AboutToComment /\ Known /\ Owed

-----------------------------------------------------------------------------
(***************************************************************************)
(* Issues, titles and patches.                                             *)
(***************************************************************************)
LEMMA ExistingIsFinite ==
    ASSUME NEW is
    PROVE  /\ Existing(is) \subseteq IssueNumbers /\ Existing(is) \subseteq Nat
           /\ IsFiniteSet(Existing(is))
  BY TrackerAssumption, FS_Subset DEF Existing

LEMMA GreatestOf ==
    ASSUME NEW S, S \subseteq Nat, IsFiniteSet(S), S # {}
    PROVE  Max(S) \in S
  <1>1. \E m \in S : \A n \in S : m >= n
    BY GreatestNumber
  <1> QED
    BY <1>1 DEF Max

LEMMA SearchFinds ==
    ASSUME NEW is, NEW title
    PROVE  /\ FindIssueByTitle(is, title) \in Titled(is, title) \cup {Nothing}
           /\ FindIssueByTitle(is, title) = Nothing => Titled(is, title) = {}
  <1> DEFINE open == {n \in Titled(is, title) : is[n].open}
  <1>1. /\ Titled(is, title) \subseteq Nat /\ IsFiniteSet(Titled(is, title))
        /\ Titled(is, title) \subseteq IssueNumbers
    BY ExistingIsFinite, FS_Subset DEF Titled
  <1>2. open \subseteq Titled(is, title) /\ IsFiniteSet(open)
    BY <1>1, FS_Subset
  <1>3. open # {} => Max(open) \in open
    BY <1>1, <1>2, GreatestOf
  <1>4. Titled(is, title) # {} => Max(Titled(is, title)) \in Titled(is, title)
    BY <1>1, GreatestOf
  <1> HIDE DEF open
  <1>5. FindIssueByTitle(is, title) =
          IF open # {} THEN Max(open)
          ELSE IF Titled(is, title) # {} THEN Max(Titled(is, title)) ELSE Nothing
    BY DEF FindIssueByTitle, open
  <1> QED
    BY <1>1, <1>2, <1>3, <1>4, <1>5, TrackerAssumption

LEMMA NextIsFree ==
    ASSUME NEW is, HasNext(is)
    PROVE  NextNumber(is) \in IssueNumbers /\ NextNumber(is) \notin Existing(is)
  <1> DEFINE free == IssueNumbers \ Existing(is)
  <1>1. free \subseteq Nat /\ free # {}
    BY TrackerAssumption, ExistingIsFinite DEF HasNext
  <1>2. \E m \in free : \A n \in free : m <= n
    BY <1>1, LeastNumber
  <1> QED
    BY <1>2 DEF NextNumber, Min

LEMMA RankIsNumber ==
    \A type \in DOMAIN Rank : Rank[type] \in Nat
  BY DEF Rank

LEMMA FirstIsThere ==
    ASSUME NEW ps, NEW todo, todo \subseteq Nat, todo # {},
           \A k \in todo : ps[k].type \in DOMAIN Rank
    PROVE  FirstOf(ps, todo) \in todo
  <1> DEFINE ranks == {Rank[ps[k].type] : k \in todo}
  <1>1. ranks \subseteq Nat /\ ranks # {}
    BY RankIsNumber
  <1>2. PICK r \in ranks : \A q \in ranks : r <= q
    BY <1>1, LeastNumber
  <1> DEFINE places == {k \in todo : Rank[ps[k].type] = r}
  <1>3. places \subseteq Nat /\ places # {}
    BY <1>2
  <1>4. PICK k \in places : \A j \in places : k <= j
    BY <1>3, LeastNumber
  <1>5. ASSUME NEW j \in todo PROVE Sooner(ps, k, j)
    <2>1. Rank[ps[j].type] \in ranks /\ Rank[ps[k].type] = r
      BY <1>4
    <2>2. r <= Rank[ps[j].type]
      BY <1>2, <2>1
    <2>3. CASE Rank[ps[j].type] = r
      BY <1>4, <2>1, <2>3 DEF Sooner
    <2>4. CASE Rank[ps[j].type] # r
      BY <1>1, <1>2, <2>1, <2>2, <2>4 DEF Sooner
    <2> QED
      BY <2>3, <2>4
  <1> QED
    BY <1>4, <1>5 DEF FirstOf

LEMMA PatchesArePatches ==
    ASSUME NEW p \in Patches
    PROVE  IsPatch(p)
  <1>1. CASE p \in Spoken
    BY <1>1, ReconcileApplyAssumption DEF Spoken
  <1>2. ASSUME NEW q \in Spoken, NEW type \in {"KEEP", "NEEDS_HUMAN"}, p = [q EXCEPT !.type = type]
        PROVE  IsPatch(p)
    <2>1. IsPatch(q)
      BY ReconcileApplyAssumption DEF Spoken
    <2>2. p.type = type /\ "type" \in DOMAIN p
      BY <1>2, <2>1 DEF IsPatch
    <2> QED
      BY <1>2, <2>2 DEF IsPatch, Rank
  <1> QED
    BY <1>1, <1>2 DEF Patches

(***************************************************************************)
(* What requests do to the issues.                                         *)
(***************************************************************************)
\* Titles and comments stay, and what is closed stays closed.
Alike(is, js) ==
    /\ ProperIssues(js) /\ Existing(js) = Existing(is)
    /\ \A n \in Existing(is) :
          /\ js[n].title = is[n].title
          /\ js[n].answers = is[n].answers /\ js[n].duplicate = is[n].duplicate
          /\ js[n].open => is[n].open

LEMMA IssueOrNot ==
    ASSUME NEW is, ProperIssues(is), NEW n \in IssueNumbers
    PROVE  /\ n \in Existing(is) => IsIssue(is[n])
           /\ n \notin Existing(is) => is[n] = NoIssue
  BY TrackerAssumption DEF ProperIssues, Existing, IsIssue, NoIssue

LEMMA SameIssues ==
    ASSUME NEW is, ProperIssues(is)
    PROVE  Alike(is, is)
  BY DEF Alike

\* One issue is changed, in its body, its labels or by being closed.
LEMMA OneChanged ==
    ASSUME NEW is, ProperIssues(is), NEW n \in IssueNumbers, NEW js,
           DOMAIN js = DOMAIN is, \A m \in IssueNumbers \ {n} : js[m] = is[m],
           n \notin Existing(is) => js[n] = is[n],
           n \in Existing(is) =>
              /\ IsIssue(js[n]) /\ js[n].title = is[n].title
              /\ js[n].answers = is[n].answers /\ js[n].duplicate = is[n].duplicate
              /\ js[n].open => is[n].open
    PROVE  Alike(is, js)
  <1>1. ProperIssues(js)
    BY IssueOrNot DEF ProperIssues
  <1>2. ASSUME NEW m \in IssueNumbers PROVE m \in Existing(js) <=> m \in Existing(is)
    <2>1. CASE m # n
      BY <2>1 DEF Existing
    <2>2. CASE m = n /\ n \in Existing(is)
      BY <2>2 DEF Existing
    <2>3. CASE m = n /\ n \notin Existing(is)
      BY <2>3 DEF Existing
    <2> QED
      BY <2>1, <2>2, <2>3
  <1>3. Existing(js) = Existing(is)
    BY <1>2, ExistingIsFinite
  <1>4. ASSUME NEW m \in Existing(is)
        PROVE  /\ js[m].title = is[m].title
               /\ js[m].answers = is[m].answers /\ js[m].duplicate = is[m].duplicate
               /\ js[m].open => is[m].open
    BY <1>4, ExistingIsFinite
  <1> QED
    BY <1>1, <1>3, <1>4 DEF Alike

\* A request about an issue that does not exist does nothing.
LEMMA FieldIsAlike ==
    ASSUME NEW is, ProperIssues(is), NEW n, NEW js, NEW f \in {"body", "labels"}, NEW value,
           DOMAIN js = DOMAIN is, \A m \in IssueNumbers \ {n} : js[m] = is[m],
           n \in IssueNumbers => js[n] = [is[n] EXCEPT ![f] = value]
    PROVE  Alike(is, js)
  <1>1. ASSUME n \in Existing(is)
        PROVE  /\ IsIssue(js[n]) /\ js[n].title = is[n].title
               /\ js[n].answers = is[n].answers /\ js[n].duplicate = is[n].duplicate
               /\ js[n].open => is[n].open
    <2>1. IsIssue(is[n]) /\ js[n] = [is[n] EXCEPT ![f] = value]
      BY <1>1, IssueOrNot, ExistingIsFinite
    <2> QED
      BY <2>1 DEF IsIssue
  <1>2. ASSUME n \in IssueNumbers, n \notin Existing(is)
        PROVE  js[n] = is[n]
    <2>1. is[n] = NoIssue
      BY <1>2, IssueOrNot
    <2> QED
      BY <1>2, <2>1 DEF NoIssue
  <1>3. CASE n \in IssueNumbers
    BY <1>1, <1>2, <1>3, OneChanged
  <1>4. CASE n \notin IssueNumbers
    <2>1. \A m \in IssueNumbers : js[m] = is[m]
      BY <1>4
    <2>2. ProperIssues(js) /\ Existing(js) = Existing(is)
      BY <2>1 DEF ProperIssues, Existing
    <2> QED
      BY <2>1, <2>2, ExistingIsFinite DEF Alike
  <1> QED
    BY <1>3, <1>4

LEMMA UpdateIsAlike ==
    ASSUME NEW is, ProperIssues(is), NEW n, NEW body
    PROVE  Alike(is, UpdateIssueBody(is, n, body))
  <1> DEFINE js == UpdateIssueBody(is, n, body)
  <1>1. /\ DOMAIN js = DOMAIN is /\ \A m \in IssueNumbers \ {n} : js[m] = is[m]
        /\ n \in IssueNumbers => js[n] = [is[n] EXCEPT !["body"] = body]
    BY DEF UpdateIssueBody, ProperIssues
  <1> HIDE DEF js
  <1>2. Alike(is, js)
    BY <1>1, FieldIsAlike
  <1> QED
    BY <1>2 DEF js

LEMMA CloseIsAlike ==
    ASSUME NEW is, ProperIssues(is), NEW n \in Existing(is)
    PROVE  Alike(is, CloseIssue(is, n)) /\ ~CloseIssue(is, n)[n].open
  <1> DEFINE js == CloseIssue(is, n)
  <1>1. /\ DOMAIN js = DOMAIN is /\ \A m \in IssueNumbers \ {n} : js[m] = is[m]
        /\ js[n] = [is[n] EXCEPT !.open = FALSE]
    BY ExistingIsFinite DEF CloseIssue, ProperIssues
  <1>2. IsIssue(is[n]) /\ n \in IssueNumbers
    BY IssueOrNot, ExistingIsFinite
  <1>3. /\ IsIssue(js[n]) /\ js[n].title = is[n].title
        /\ js[n].answers = is[n].answers /\ js[n].duplicate = is[n].duplicate
        /\ js[n].open = FALSE
    BY <1>1, <1>2 DEF IsIssue
  <1> HIDE DEF js
  <1>4. Alike(is, js)
    BY <1>1, <1>2, <1>3, OneChanged
  <1> QED
    BY <1>3, <1>4 DEF js

LEMMA LabelIsAlike ==
    ASSUME NEW is, ProperIssues(is), NEW n, NEW label
    PROVE  Alike(is, AddLabel(is, n, label)) /\ Alike(is, RemoveLabel(is, n, label))
  <1>1. ASSUME NEW labels, NEW js, js = [is EXCEPT ![n].labels = labels]
        PROVE  Alike(is, js)
    <2>1. /\ DOMAIN js = DOMAIN is /\ \A m \in IssueNumbers \ {n} : js[m] = is[m]
          /\ n \in IssueNumbers => js[n] = [is[n] EXCEPT !["labels"] = labels]
      BY <1>1 DEF ProperIssues
    <2> QED
      BY <2>1, FieldIsAlike
  <1> QED
    BY <1>1 DEF AddLabel, RemoveLabel

(***************************************************************************)
(* The command's record.                                                   *)
(***************************************************************************)
LEMMA RecordedIs ==
    ASSUME DOMAIN cli = CliFields, NEW status, NEW c, c = Recorded(status)
    PROVE  /\ DOMAIN c = CliFields /\ c.at = "next" /\ c.id = cli.id /\ c.mode = cli.mode
           /\ c.todo = cli.todo \ {Place} /\ c.kids = <<>>
  <1>1. DOMAIN c = CliFields
    BY DEF Recorded
  <1>2. c.at = "next" /\ c.kids = <<>>
    BY DEF Recorded, CliFields
  <1>3. c.id = cli.id /\ c.mode = cli.mode
    BY DEF Recorded, CliFields
  <1>4. c.todo = cli.todo \ {Place}
    BY DEF Recorded, CliFields
  <1> QED
    BY <1>1, <1>2, <1>3, <1>4

LEMMA AtIs ==
    ASSUME DOMAIN cli = CliFields, NEW place, NEW c, c = At(place)
    PROVE  /\ DOMAIN c = CliFields /\ c.at = place
           /\ \A f \in CliFields \ {"at"} : c[f] = cli[f]
  BY DEF At, CliFields

LEMMA AtProper ==
    ASSUME ProperCli, cli.at \in ApplyPlaces
    PROVE  /\ DOMAIN cli = CliFields /\ cli.id \in DOMAIN reports
           /\ cli.todo \subseteq DOMAIN reports[cli.id]
           /\ cli.at \in PatchPlaces => cli.todo # {}
           /\ cli.kids \in Seq(IssueNumbers)
  <1>1. cli # Idle /\ cli.at # "session"
    BY DEF Idle, ApplyPlaces, PatchPlaces, WritePlaces
  <1> QED
    BY <1>1 DEF ProperCli

\* The patch at hand is one.
LEMMA PatchIsThere ==
    ASSUME Types, cli.at \in ApplyPlaces, cli.todo # {}
    PROVE  /\ Place \in cli.todo /\ Patch \in Patches /\ IsPatch(Patch)
           /\ \A p \in cli.todo : reports[cli.id][p] \in Patches
  <1>1. cli.id \in DOMAIN reports /\ cli.todo \subseteq DOMAIN reports[cli.id]
    BY AtProper DEF Types
  <1>2. reports[cli.id] \in Reports
    BY <1>1 DEF Types
  <1>3. PICK places \in SUBSET Nat : reports[cli.id] \in [places -> Patches]
    BY <1>2 DEF Reports
  <1>4. cli.todo \subseteq Nat /\ \A p \in cli.todo : reports[cli.id][p] \in Patches
    BY <1>1, <1>3
  <1>5. \A p \in cli.todo : reports[cli.id][p].type \in DOMAIN Rank
    BY <1>4, PatchesArePatches DEF IsPatch
  <1>6. Place \in cli.todo
    BY <1>4, <1>5, FirstIsThere DEF Place
  <1>7. Patch \in Patches
    BY <1>4, <1>6 DEF Patch
  <1> QED
    BY <1>4, <1>6, <1>7, PatchesArePatches

LEMMA SamePatch ==
    ASSUME cli'.id = cli.id, cli'.todo = cli.todo, reports' = reports
    PROVE  Patch' = Patch
  BY DEF Patch, Place

(***************************************************************************)
(* Steps of an apply before the artifact.                                  *)
(***************************************************************************)
Quiet ==
    /\ reports' = reports /\ applied' = applied /\ latest' = latest /\ decided' = decided
    /\ crashes' = crashes /\ edits' = edits /\ (faults' = faults \/ faults' = faults + 1)

LEMMA StepKeeps ==
    ASSUME Inv, Quiet, ProperCli', cli'.at \in ApplyPlaces \ {"pointing"},
           ProperIssues(issues'), Existing(issues) \subseteq Existing(issues'),
           NothingIsRepeated', Allowed', AboutToCreate', AboutToComment', Known', Owed'
    PROVE  Inv'
  <1>1. Types'
    BY DEF Inv, Types, Quiet
  <1>2. Remembered'
    BY DEF Inv, Remembered, Quiet, Declines, TargetIssue
  <1>3. Pointing'
    BY DEF Pointing
  <1>4. cli'.at # "session"
    BY DEF ApplyPlaces, PatchPlaces, WritePlaces
  <1>5. SteeredByLastApply'
    BY <1>4 DEF Inv, SteeredByLastApply, Quiet
  <1> QED
    BY <1>1, <1>2, <1>3, <1>5 DEF Inv

\* Comments, as numbers.
LEMMA Counts ==
    ASSUME ProperIssues(issues), faults \in Nat, crashes \in Nat
    PROVE  /\ faults + crashes \in Nat
           /\ \A n \in Existing(issues) : issues[n].duplicate \in Nat /\ issues[n].answers \in Nat
  BY IssueOrNot, ExistingIsFinite DEF IsIssue

LEMMA AlikeKeeps ==
    ASSUME Inv, Quiet, Alike(issues, issues'), cli.at # "closing"
    PROVE  /\ ProperIssues(issues') /\ Existing(issues) \subseteq Existing(issues')
           /\ NothingIsRepeated' /\ Owed'
  <1>1. /\ faults + crashes \in Nat /\ faults' + crashes' \in Nat
        /\ faults + crashes <= faults' + crashes'
        /\ \A n \in Existing(issues) : issues[n].duplicate \in Nat /\ issues[n].answers \in Nat
    BY Counts DEF Inv, Types, Quiet
  <1>2. NothingIsRepeated'
    <2>1. Existing(issues)' = Existing(issues)
      BY DEF Alike
    <2>2. ASSUME NEW m \in Existing(issues), NEW n \in Existing(issues),
                 issues'[m].title = issues'[n].title
          PROVE  m = n \/ {m, n} \subseteq Existing(Backlog)
      <3>1. issues[m].title = issues[n].title
        BY <2>2 DEF Alike
      <3> QED
        BY <3>1 DEF Inv, NothingIsRepeated
    <2>3. ASSUME NEW n \in Existing(issues)
          PROVE  /\ issues'[n].duplicate <= 1 + faults' + crashes'
                 /\ issues'[n].answers <= 1
      <3>1. /\ issues[n].duplicate <= 1 + faults + crashes /\ issues[n].answers <= 1
        BY DEF Inv, NothingIsRepeated
      <3>2. issues'[n].answers = issues[n].answers /\ issues'[n].duplicate = issues[n].duplicate
        BY DEF Alike
      <3> QED
        BY <1>1, <3>1, <3>2 DEF Inv, Types, Quiet
    <2> QED
      BY <2>1, <2>2, <2>3 DEF NothingIsRepeated
  <1>3. Owed'
    BY <1>1 DEF Inv, Owed, Closing, Alike
  <1> QED
    BY <1>2, <1>3 DEF Alike

\* The loop goes on with the next patch.
LEMMA RecordedFits ==
    ASSUME Inv, Quiet, cli.at \in ApplyPlaces, NEW status, cli' = Recorded(status)
    PROVE  /\ ProperCli' /\ cli'.at = "next" /\ cli'.at \in ApplyPlaces \ {"pointing"}
           /\ Allowed' /\ AboutToCreate' /\ AboutToComment' /\ Known'
  <1>1. /\ DOMAIN cli = CliFields /\ cli.id \in DOMAIN reports
        /\ cli.todo \subseteq DOMAIN reports[cli.id]
    BY AtProper DEF Inv, Types
  <1>2. /\ DOMAIN cli' = CliFields /\ cli'.at = "next" /\ cli'.id = cli.id
        /\ cli'.todo = cli.todo \ {Place} /\ cli'.kids = <<>>
    BY <1>1, RecordedIs
  <1>3. "next" \notin PatchPlaces /\ "next" \in ApplyPlaces \ {"pointing"}
    BY DEF ApplyPlaces, PatchPlaces, WritePlaces
  <1>4. cli'.kids \in Seq(IssueNumbers)
    BY <1>2
  <1>5. ProperCli'
    BY <1>1, <1>2, <1>3, <1>4 DEF ProperCli, Quiet
  <1>6. Allowed' /\ AboutToCreate' /\ AboutToComment' /\ Known'
    BY <1>2 DEF Allowed, AboutToCreate, AboutToComment, Known, WritePlaces
  <1> QED
    BY <1>2, <1>3, <1>5, <1>6

LEMMA RecordedKeeps ==
    ASSUME Inv, Quiet, cli.at \in ApplyPlaces \ {"closing"}, Alike(issues, issues'),
           NEW status, cli' = Recorded(status)
    PROVE  Inv'
  BY RecordedFits, AlikeKeeps, StepKeeps

\* The command goes on with the patch.
LEMMA GoesOn ==
    ASSUME Inv, Quiet, cli.at \in ApplyPlaces, cli.todo # {},
           DOMAIN cli' = CliFields, cli'.at \in PatchPlaces,
           cli'.id = cli.id, cli'.todo = cli.todo, cli'.kids \in Seq(IssueNumbers)
    PROVE  ProperCli' /\ Patch' = Patch /\ cli'.at \in ApplyPlaces \ {"pointing"}
  <1>1. /\ cli.id \in DOMAIN reports /\ cli.todo \subseteq DOMAIN reports[cli.id]
    BY AtProper DEF Inv, Types
  <1>2. cli'.at \in ApplyPlaces \ {"pointing"}
    BY DEF ApplyPlaces, PatchPlaces, WritePlaces
  <1>3. ProperCli'
    BY <1>1, <1>2 DEF ProperCli, Quiet
  <1>4. Patch' = Patch
    BY SamePatch DEF Quiet
  <1> QED
    BY <1>2, <1>3, <1>4

LEMMA StillAllowed ==
    ASSUME Inv, Patch' = Patch, cli'.mode = cli.mode, cli'.consented = cli.consented,
           cli.at \in WritePlaces
    PROVE  Allowed'
  BY DEF Inv, Allowed, Approves, AutoSafe

LEMMA PlacesDiffer ==
    /\ \A place \in PatchPlaces : place \in ApplyPlaces /\ place \notin {"next", "saving", "pointing"}
    /\ \A place \in WritePlaces : place \in PatchPlaces /\ place \notin {"preparing", "deciding"}
  BY DEF ApplyPlaces, PatchPlaces, WritePlaces

\* Before a request, and after one that only read.
LEMMA GoesIsQuiet ==
    ASSUME Inv, NEW next, Goes(next)
    PROVE  Quiet /\ Alike(issues, issues') /\ cli' = next /\ issues' = issues
  BY SameIssues DEF Goes, Quiet, Counters, Inv, Types

LEMMA ReadIsQuiet ==
    ASSUME Inv, NEW answer, NEW error, Read(answer, error)
    PROVE  Quiet /\ Alike(issues, issues') /\ issues' = issues /\ cli' \in {answer, error}
  BY SameIssues DEF Read, Fault, Quiet, Inv, Types

LEMMA RequestIsQuiet ==
    ASSUME Inv, NEW after, NEW answer, NEW error, Request(after, answer, error)
    PROVE  /\ Quiet /\ issues' \in {issues, after} /\ cli' \in {answer, error}
           /\ \/ issues' = after /\ cli' = answer /\ faults' = faults
              \/ cli' = error /\ faults' = faults + 1
  BY DEF Request, Fault, Quiet, Inv, Types

LEMMA WriteIsQuiet ==
    ASSUME Inv, NEW after, NEW answer, NEW error, Write(after, answer, error)
    PROVE  /\ Quiet /\ issues' \in {issues, after} /\ cli' \in {answer, error}
           /\ \/ issues' = after /\ cli' = answer /\ faults' = faults
              \/ cli' = error /\ faults' = faults + 1
  BY RequestIsQuiet DEF Write

-----------------------------------------------------------------------------
(***************************************************************************)
(* The decision on a patch.                                                *)
(***************************************************************************)
LEMMA NextPatchKeeps ==
    ASSUME Inv, NextPatch
    PROVE  Inv'
  <1>1. /\ cli.at = "next" /\ cli.todo # {} /\ cli.at \in ApplyPlaces \ {"closing"}
        /\ DOMAIN cli = CliFields /\ cli.kids \in Seq(IssueNumbers)
    BY AtProper DEF NextPatch, Inv, Types, ApplyPlaces
  <1>2. CASE Goes(Recorded("approval"))
    BY <1>1, <1>2, GoesIsQuiet, RecordedKeeps
  <1>3. CASE Goes(At("preparing"))
    <2>1. Quiet /\ Alike(issues, issues') /\ cli' = At("preparing")
      BY <1>3, GoesIsQuiet
    <2>2. /\ DOMAIN cli' = CliFields /\ cli'.at = "preparing" /\ cli'.id = cli.id
          /\ cli'.todo = cli.todo /\ cli'.kids = cli.kids
      BY <1>1, <2>1, AtIs DEF CliFields
    <2>3. ProperCli' /\ cli'.at \in ApplyPlaces \ {"pointing"}
      BY <1>1, <2>1, <2>2, GoesOn DEF PatchPlaces
    <2>4. Allowed' /\ AboutToCreate' /\ AboutToComment' /\ Known'
      BY <2>2 DEF Allowed, AboutToCreate, AboutToComment, Known, WritePlaces
    <2> QED
      BY <1>1, <2>1, <2>3, <2>4, AlikeKeeps, StepKeeps
  <1> QED
    BY <1>2, <1>3 DEF NextPatch

LEMMA PrepareKeeps ==
    ASSUME Inv, Prepare
    PROVE  Inv'
  <1>1. /\ cli.at = "preparing" /\ cli.todo # {} /\ cli.at \in ApplyPlaces \ {"closing"}
        /\ DOMAIN cli = CliFields /\ cli.kids \in Seq(IssueNumbers)
    BY AtProper DEF Prepare, Inv, Types, ApplyPlaces, PatchPlaces
  <1>2. /\ Quiet /\ Alike(issues, issues')
        /\ \/ \E status \in {"approval", "idempotent", "failed"} : cli' = Recorded(status)
           \/ /\ cli' = At("deciding") /\ issues' = issues
              /\ Patch.type = "NEEDS_HUMAN" => Patch.issue # Nothing
              /\ Patch.type \in IssuePatches => Patch.issue \in Existing(issues)
    BY GoesIsQuiet, ReadIsQuiet DEF Prepare, Failed, Missing, IssuePatches
  <1>3. CASE \E status \in {"approval", "idempotent", "failed"} : cli' = Recorded(status)
    BY <1>1, <1>2, <1>3, RecordedKeeps
  <1>4. CASE /\ cli' = At("deciding") /\ issues' = issues
             /\ Patch.type = "NEEDS_HUMAN" => Patch.issue # Nothing
             /\ Patch.type \in IssuePatches => Patch.issue \in Existing(issues)
    <2>2. /\ DOMAIN cli' = CliFields /\ cli'.at = "deciding" /\ cli'.id = cli.id
          /\ cli'.todo = cli.todo /\ cli'.kids = cli.kids
      BY <1>1, <1>4, AtIs DEF CliFields
    <2>3. ProperCli' /\ cli'.at \in ApplyPlaces \ {"pointing"} /\ Patch' = Patch
      BY <1>1, <1>2, <2>2, GoesOn DEF PatchPlaces
    <2>4. Allowed' /\ AboutToCreate' /\ AboutToComment'
      BY <1>4, <2>2, <2>3 DEF Allowed, AboutToCreate, AboutToComment, WritePlaces
    <2>5. Known'
      BY <1>4, <2>2, <2>3 DEF Known
    <2> QED
      BY <1>1, <1>2, <2>3, <2>4, <2>5, AlikeKeeps, StepKeeps
  <1> QED
    BY <1>2, <1>3, <1>4

\* From the decision to the fresh look, with the consent the patch needs.
LEMMA ToFreshLook ==
    ASSUME Inv, Quiet, issues' = issues, cli.at = "deciding",
           DOMAIN cli' = CliFields, cli'.at = "reading", cli'.id = cli.id,
           cli'.todo = cli.todo, cli'.kids = cli.kids, cli'.mode = cli.mode,
           cli.mode # "preview",
           AutoSafe(Patch) \/ Patch.type = "NEEDS_HUMAN" \/ cli'.consented
    PROVE  Inv'
  <1>1. /\ cli.todo # {} /\ cli.at \in ApplyPlaces \ {"closing"}
        /\ DOMAIN cli = CliFields /\ cli.kids \in Seq(IssueNumbers)
    BY AtProper DEF Inv, Types, ApplyPlaces, PatchPlaces
  <1>2. ProperCli' /\ cli'.at \in ApplyPlaces \ {"pointing"} /\ Patch' = Patch
    BY <1>1, GoesOn DEF PatchPlaces, WritePlaces
  <1>3. Allowed'
    <2>1. Approves'
      BY <1>2 DEF Approves, AutoSafe
    <2> QED
      BY <2>1 DEF Allowed
  <1>4. AboutToCreate' /\ AboutToComment'
    BY <1>2 DEF Inv, AboutToCreate, AboutToComment, WritePlaces
  <1>5. Alike(issues, issues')
    BY SameIssues DEF Inv, Types
  <1>6. Known'
    BY <1>2 DEF Inv, Known
  <1> QED
    BY <1>1, <1>2, <1>3, <1>4, <1>5, <1>6, AlikeKeeps, StepKeeps

LEMMA DecideKeeps ==
    ASSUME Inv, DecideAlone \/ Menu
    PROVE  Inv'
  <1>1. /\ cli.at = "deciding" /\ cli.todo # {} /\ cli.at \in ApplyPlaces \ {"closing"}
        /\ DOMAIN cli = CliFields /\ cli.kids \in Seq(IssueNumbers)
    BY AtProper DEF DecideAlone, Menu, Inv, Types, ApplyPlaces, PatchPlaces
  <1>2. ASSUME NEW status, Goes(Recorded(status)) PROVE Inv'
    BY <1>1, <1>2, GoesIsQuiet, RecordedKeeps
  <1>3. ASSUME Goes(At("reading")), cli.mode # "preview",
               AutoSafe(Patch) \/ Patch.type = "NEEDS_HUMAN"
        PROVE  Inv'
    <2>1. Quiet /\ issues' = issues /\ cli' = At("reading")
      BY <1>3, GoesIsQuiet
    <2>2. /\ DOMAIN cli' = CliFields /\ cli'.at = "reading" /\ cli'.id = cli.id
          /\ cli'.todo = cli.todo /\ cli'.kids = cli.kids /\ cli'.mode = cli.mode
      BY <1>1, <2>1, AtIs DEF CliFields
    <2> QED
      BY <1>1, <1>3, <2>1, <2>2, ToFreshLook
  <1>4. CASE DecideAlone
    <2>1. CASE cli.mode = "preview"
      BY <1>2, <1>4, <2>1 DEF DecideAlone
    <2>2. CASE cli.mode = "yes" /\ ~AutoSafe(Patch)
      BY <1>2, <1>4, <2>2 DEF DecideAlone
    <2>3. CASE AutoSafe(Patch) /\ (cli.mode = "yes" \/ (cli.mode = "menu" /\ cli.all))
      BY <1>3, <1>4, <2>3 DEF DecideAlone
    <2>4. CASE cli.mode = "menu" /\ ~(cli.all /\ AutoSafe(Patch)) /\ Patch.type = "NEEDS_HUMAN"
      BY <1>3, <1>4, <2>4 DEF DecideAlone
    <2> QED
      BY <1>4, <2>1, <2>2, <2>3, <2>4 DEF DecideAlone
  <1>5. CASE Menu
    <2>1. CASE Goes(Recorded("user"))
      BY <1>2, <2>1
    <2>2. ASSUME NEW c, Goes(c), c.consented, DOMAIN c = CliFields, c.at = "reading",
                 c.id = cli.id, c.todo = cli.todo, c.kids = cli.kids, c.mode = cli.mode
          PROVE  Inv'
      <3>1. Quiet /\ issues' = issues /\ cli' = c
        BY <2>2, GoesIsQuiet
      <3> QED
        BY <1>1, <1>5, <2>2, <3>1, ToFreshLook DEF Menu
    <2>3. CASE Goes([cli EXCEPT !.at = "reading", !.consented = TRUE])
      BY <1>1, <2>2, <2>3 DEF CliFields
    <2>4. CASE Goes([cli EXCEPT !.at = "reading", !.consented = TRUE, !.all = TRUE])
      BY <1>1, <2>2, <2>4 DEF CliFields
    <2>5. CASE Goes([cli EXCEPT !.at = "saving", !.aborted = TRUE])
      <3>1. /\ Quiet /\ Alike(issues, issues')
            /\ cli' = [cli EXCEPT !.at = "saving", !.aborted = TRUE]
        BY <2>5, GoesIsQuiet
      <3>2. /\ DOMAIN cli' = CliFields /\ cli'.at = "saving" /\ cli'.id = cli.id
            /\ cli'.todo = cli.todo /\ cli'.kids = cli.kids
        BY <1>1, <3>1 DEF CliFields
      <3>3. cli.id \in DOMAIN reports /\ cli.todo \subseteq DOMAIN reports[cli.id]
        BY <1>1, AtProper DEF Inv, Types
      <3>4. cli'.at \in ApplyPlaces \ {"pointing"} /\ cli'.at \notin PatchPlaces
        BY <3>2 DEF ApplyPlaces, PatchPlaces, WritePlaces
      <3>5. ProperCli'
        BY <1>1, <3>1, <3>2, <3>3, <3>4 DEF ProperCli, Quiet
      <3>6. Allowed' /\ AboutToCreate' /\ AboutToComment' /\ Known'
        BY <3>2 DEF Allowed, AboutToCreate, AboutToComment, Known, WritePlaces
      <3> QED
        BY <1>1, <3>1, <3>4, <3>5, <3>6, AlikeKeeps, StepKeeps
    <2> QED
      BY <1>5, <2>1, <2>3, <2>4, <2>5 DEF Menu
  <1> QED
    BY <1>4, <1>5

-----------------------------------------------------------------------------
(***************************************************************************)
(* The fresh looks and the writes.                                         *)
(***************************************************************************)
LEMMA AtWrite ==
    ASSUME Inv, cli.at \in WritePlaces
    PROVE  /\ cli.todo # {} /\ cli.at \in ApplyPlaces /\ cli.at \in PatchPlaces
           /\ DOMAIN cli = CliFields /\ cli.kids \in Seq(IssueNumbers)
           /\ IsPatch(Patch) /\ (Patch.type = "NEEDS_HUMAN" => Patch.issue # Nothing)
  <1>1. cli.at \in ApplyPlaces /\ cli.at \in PatchPlaces
    BY PlacesDiffer
  <1>2. cli.todo # {} /\ DOMAIN cli = CliFields /\ cli.kids \in Seq(IssueNumbers)
    BY <1>1, AtProper DEF Inv, Types
  <1> QED
    BY <1>1, <1>2, PatchIsThere DEF Inv, AboutToComment

\* The issue of a patch that has one.
LEMMA IssueIsThere ==
    ASSUME Inv, cli.at \in WritePlaces, Patch.type \in IssuePatches \/ cli.at = "commenting"
    PROVE  Patch.issue \in Existing(issues) /\ Patch.issue \in IssueNumbers
  BY ExistingIsFinite DEF Inv, Known

\* An issue that is there stays there.
LEMMA StillKnown ==
    ASSUME Inv, cli.at \in WritePlaces, Patch' = Patch, Existing(issues) \subseteq Existing(issues'),
           cli'.at = "commenting" /\ Patch.type = "NEEDS_HUMAN" => Patch.issue \in Existing(issues),
           cli'.at = "commenting" => Patch.type \in {"NEEDS_HUMAN", "MERGE_DUPLICATE"}
    PROVE  Known'
  BY DEF Inv, Known, IssuePatches

LEMMA WritesOnProper ==
    ASSUME Inv, Quiet, cli.at \in WritePlaces,
           DOMAIN cli' = CliFields, cli'.at \in WritePlaces, cli'.id = cli.id, cli'.todo = cli.todo,
           cli'.mode = cli.mode, cli'.consented = cli.consented,
           cli'.kids \in Seq(IssueNumbers)
    PROVE  /\ ProperCli' /\ Patch' = Patch /\ cli'.at \in ApplyPlaces \ {"pointing"} /\ Allowed'
  <1>1. ProperCli' /\ Patch' = Patch /\ cli'.at \in ApplyPlaces \ {"pointing"}
    BY AtWrite, GoesOn, PlacesDiffer
  <1> QED
    BY <1>1, StillAllowed

LEMMA WritesOn ==
    ASSUME Inv, Quiet, cli.at \in WritePlaces \ {"closing"}, Alike(issues, issues'),
           DOMAIN cli' = CliFields, cli'.at \in WritePlaces, cli'.id = cli.id, cli'.todo = cli.todo,
           cli'.mode = cli.mode, cli'.consented = cli.consented,
           cli'.kids \in Seq(IssueNumbers),
           AboutToCreate', AboutToComment',
           cli'.at = "commenting" => Patch.issue \in Existing(issues)
    PROVE  Inv'
  <1>1. /\ ProperCli' /\ Patch' = Patch /\ cli'.at \in ApplyPlaces \ {"pointing"} /\ Allowed'
        /\ ProperIssues(issues') /\ Existing(issues) \subseteq Existing(issues')
        /\ NothingIsRepeated' /\ Owed' /\ cli.at \in ApplyPlaces
    BY WritesOnProper, AlikeKeeps, PlacesDiffer
  <1>2. Known'
    BY <1>1, StillKnown DEF AboutToComment
  <1> QED
    BY <1>1, <1>2, StepKeeps

LEMMA ReadFreshKeeps ==
    ASSUME Inv, ReadFresh
    PROVE  Inv'
  <1>1. /\ cli.at = "reading" /\ cli.at \in ApplyPlaces \ {"closing"}
        /\ cli.at \in WritePlaces \ {"closing"}
        /\ DOMAIN cli = CliFields /\ cli.kids \in Seq(IssueNumbers) /\ IsPatch(Patch)
    BY AtWrite DEF ReadFresh, ApplyPlaces, PatchPlaces, WritePlaces
  <1> DEFINE next == [cli EXCEPT !.seen = issues[Patch.issue].body,
                             !.at = CASE Patch.type = "SPLIT_ISSUE" -> "child"
                                      [] Patch.type = "MERGE_DUPLICATE" -> "commenting"
                                      [] OTHER -> "writing"]
  <1>2. /\ Quiet /\ Alike(issues, issues') /\ issues' = issues
        /\ \/ \E status \in {"idempotent", "failed"} : cli' = Recorded(status)
           \/ cli' = next /\ ~Done(Patch)
    BY ReadIsQuiet DEF ReadFresh, Failed
  <1>3. CASE \E status \in {"idempotent", "failed"} : cli' = Recorded(status)
    BY <1>1, <1>2, <1>3, RecordedKeeps
  <1>4. CASE cli' = next /\ ~Done(Patch)
    <2>1. /\ DOMAIN cli' = CliFields /\ cli'.id = cli.id /\ cli'.todo = cli.todo
          /\ cli'.mode = cli.mode /\ cli'.consented = cli.consented /\ cli'.kids = cli.kids
      BY <1>1, <1>4 DEF CliFields
    <2>2. cli'.at = CASE Patch.type = "SPLIT_ISSUE" -> "child"
                      [] Patch.type = "MERGE_DUPLICATE" -> "commenting"
                      [] OTHER -> "writing"
      BY <1>1, <1>4 DEF CliFields
    <2>3. cli'.at \in {"child", "commenting", "writing"}
      BY <2>2
    <2>4. /\ cli'.at = "child" => Patch.type = "SPLIT_ISSUE"
          /\ cli'.at = "commenting" => Patch.type = "MERGE_DUPLICATE"
      BY <2>2
    <2>5. cli'.at \in WritePlaces
      BY <2>3 DEF WritePlaces
    <2>6. Patch' = Patch
      BY <1>2, <2>1, SamePatch DEF Quiet
    <2>7. AboutToCreate'
      BY <2>3, <2>4, <2>6 DEF AboutToCreate
    <2>10. cli'.at = "commenting" => Patch.issue \in Existing(issues)
      BY <1>1, <2>4, IssueIsThere DEF IssuePatches
    <2>8. cli'.at = "commenting" => issues[Patch.issue].duplicate <= faults + crashes
      <3>1. SUFFICES ASSUME cli'.at = "commenting"
                     PROVE  issues[Patch.issue].duplicate <= faults + crashes
        OBVIOUS
      <3>2. Patch.type = "MERGE_DUPLICATE"
        BY <2>4, <3>1
      <3>3. Patch.issue \in Existing(issues)
        BY <2>10, <3>1
      <3>4. issues[Patch.issue].open
        BY <1>4, <3>2 DEF Done
      <3> QED
        BY <1>1, <3>3, <3>4 DEF Inv, Owed, Closing
    <2>9. AboutToComment'
      <3>1. /\ faults + crashes \in Nat /\ faults + crashes <= faults' + crashes'
        BY <1>2, Counts DEF Inv, Types, Quiet
      <3>2. cli'.at = "commenting" => issues[Patch.issue].duplicate <= faults' + crashes'
        <4>1. SUFFICES ASSUME cli'.at = "commenting"
                       PROVE  issues[Patch.issue].duplicate <= faults' + crashes'
          OBVIOUS
        <4>2. Patch.issue \in Existing(issues)
          BY <2>10, <4>1
        <4>3. issues[Patch.issue].duplicate \in Nat
          BY <4>2, Counts DEF Inv, Types
        <4>4. faults' + crashes' \in Nat
          BY <1>2 DEF Quiet, Inv, Types
        <4> QED
          BY <2>8, <3>1, <4>1, <4>3, <4>4
      <3>3. Patch.type = "NEEDS_HUMAN" => Patch.issue # Nothing
        BY <1>1, AtWrite
      <3> QED
        BY <1>2, <2>3, <2>4, <2>6, <3>2, <3>3 DEF AboutToComment
    <2> QED
      BY <1>1, <1>2, <2>10, <2>1, <2>5, <2>7, <2>9, WritesOn
  <1> QED
    BY <1>2, <1>3, <1>4

\* A write that leaves titles and comments, whatever becomes of it.
LEMMA AlikeWrite ==
    ASSUME Inv, NEW after, Alike(issues, after), NEW answer, NEW error,
           Write(after, answer, error)
    PROVE  Quiet /\ Alike(issues, issues') /\ cli' \in {answer, error}
  BY WriteIsQuiet, SameIssues DEF Inv, Types

LEMMA WriteBodyKeeps ==
    ASSUME Inv, WriteBody
    PROVE  Inv'
  <1>1. cli.at \in ApplyPlaces \ {"closing"} /\ cli.at \in WritePlaces
    BY DEF WriteBody, ApplyPlaces, PatchPlaces, WritePlaces
  <1> DEFINE after == UpdateIssueBody(issues, Patch.issue, Patched(cli.seen, Patch))
  <1>2. Alike(issues, after)
    BY UpdateIsAlike DEF Inv, Types
  <1>3. Write(after, Recorded("applied"), Recorded("failed"))
    BY DEF WriteBody, Failed
  <1> HIDE DEF after
  <1> QED
    BY <1>1, <1>2, <1>3, AlikeWrite, RecordedKeeps

LEMMA LabelKeeps ==
    ASSUME Inv, LabelSplit \/ UnlabelSplit
    PROVE  Inv'
  <1>1. /\ cli.at \in ApplyPlaces \ {"closing"} /\ cli.at \in WritePlaces \ {"closing"}
        /\ cli.at \in {"labelling", "unlabelling"}
    BY DEF LabelSplit, UnlabelSplit, ApplyPlaces, PatchPlaces, WritePlaces
  <1>2. PICK after : Alike(issues, after) /\
                     \/ Write(after, At("unlabelling"), Recorded("applied"))
                     \/ Write(after, Recorded("applied"), Recorded("applied"))
    BY LabelIsAlike DEF Inv, Types, LabelSplit, UnlabelSplit
  <1>3. /\ Quiet /\ Alike(issues, issues')
        /\ cli' = At("unlabelling") \/ cli' = Recorded("applied")
    BY <1>2, AlikeWrite
  <1>4. CASE cli' = Recorded("applied")
    BY <1>1, <1>3, <1>4, RecordedKeeps
  <1>5. CASE cli' = At("unlabelling")
    <2>1. DOMAIN cli = CliFields /\ cli.kids \in Seq(IssueNumbers)
      BY <1>1, AtWrite
    <2>2. /\ DOMAIN cli' = CliFields /\ cli'.at = "unlabelling" /\ cli'.id = cli.id
          /\ cli'.todo = cli.todo /\ cli'.kids = cli.kids /\ cli'.mode = cli.mode
          /\ cli'.consented = cli.consented
      BY <2>1, <1>5, AtIs DEF CliFields
    <2>3. Patch' = Patch /\ (Patch.type = "NEEDS_HUMAN" => Patch.issue # Nothing)
      BY <1>1, <1>3, <2>2, SamePatch, AtWrite DEF Quiet
    <2>4. AboutToCreate' /\ AboutToComment' /\ cli'.at \in WritePlaces
      BY <2>2, <2>3 DEF AboutToCreate, AboutToComment, WritePlaces
    <2> QED
      BY <1>1, <1>3, <2>1, <2>2, <2>4, WritesOn
  <1> QED
    BY <1>3, <1>4, <1>5

LEMMA WriteSplitKeeps ==
    ASSUME Inv, WriteSplit
    PROVE  Inv'
  <1>1. /\ cli.at \in ApplyPlaces \ {"closing"} /\ cli.at \in WritePlaces \ {"closing"}
        /\ cli.at = "child"
    BY DEF WriteSplit, ApplyPlaces, PatchPlaces, WritePlaces
  <1>2. PICK after : Alike(issues, after) /\ Write(after, At("labelling"), Recorded("failed"))
    BY UpdateIsAlike DEF Inv, Types, WriteSplit, Failed
  <1>3. /\ Quiet /\ Alike(issues, issues')
        /\ cli' = At("labelling") \/ cli' = Recorded("failed")
    BY <1>2, AlikeWrite
  <1>4. CASE cli' = Recorded("failed")
    BY <1>1, <1>3, <1>4, RecordedKeeps
  <1>5. CASE cli' = At("labelling")
    <2>1. DOMAIN cli = CliFields /\ cli.kids \in Seq(IssueNumbers)
      BY <1>1, AtWrite
    <2>2. /\ DOMAIN cli' = CliFields /\ cli'.at = "labelling" /\ cli'.id = cli.id
          /\ cli'.todo = cli.todo /\ cli'.kids = cli.kids /\ cli'.mode = cli.mode
          /\ cli'.consented = cli.consented
      BY <2>1, <1>5, AtIs DEF CliFields
    <2>3. Patch' = Patch /\ (Patch.type = "NEEDS_HUMAN" => Patch.issue # Nothing)
      BY <1>1, <1>3, <2>2, SamePatch, AtWrite DEF Quiet
    <2>4. AboutToCreate' /\ AboutToComment' /\ cli'.at \in WritePlaces
      BY <2>2, <2>3 DEF AboutToCreate, AboutToComment, WritePlaces
    <2> QED
      BY <1>1, <1>3, <2>1, <2>2, <2>4, WritesOn
  <1> QED
    BY <1>3, <1>4, <1>5

\* Once an issue is linked to the epic.
LEMMA AfterLinkKeeps ==
    ASSUME Inv, Quiet, Alike(issues, issues'), cli.at \in {"linking", "linkwrite"},
           cli' \in {AfterLink, [AfterLink EXCEPT !.epic = Nothing]}
    PROVE  Inv'
  <1>1. /\ cli.at \in ApplyPlaces \ {"closing"} /\ cli.at \in WritePlaces \ {"closing"}
        /\ DOMAIN cli = CliFields /\ cli.kids \in Seq(IssueNumbers) /\ cli.issue \in IssueNumbers
        /\ (Patch.type = "NEEDS_HUMAN" => Patch.issue # Nothing)
    BY AtWrite DEF Inv, AboutToCreate, ApplyPlaces, PatchPlaces, WritePlaces
  <1>2. CASE Patch.type # "SPLIT_ISSUE"
    <2>1. DOMAIN Recorded("applied") = CliFields /\ Recorded("applied").epic = Nothing
      BY <1>1 DEF Recorded, CliFields
    <2>2. [Recorded("applied") EXCEPT !.epic = Nothing] = Recorded("applied")
      BY <2>1 DEF CliFields, Recorded
    <2>3. cli' = Recorded("applied")
      BY <1>2, <2>2 DEF AfterLink
    <2> QED
      BY <1>1, <2>3, RecordedKeeps
  <1>3. CASE Patch.type = "SPLIT_ISSUE"
    <2> DEFINE next == [cli EXCEPT !.at = "child", !.kids = Append(@, cli.issue), !.issue = Nothing]
    <2>1. AfterLink = next
      BY <1>3 DEF AfterLink
    <2>2. /\ DOMAIN next = CliFields /\ next.at = "child" /\ next.id = cli.id
          /\ next.todo = cli.todo /\ next.kids = Append(cli.kids, cli.issue)
          /\ next.mode = cli.mode /\ next.consented = cli.consented
      BY <1>1 DEF CliFields
    <2> HIDE DEF next
    <2>3. /\ DOMAIN cli' = CliFields /\ cli'.at = "child" /\ cli'.id = cli.id
          /\ cli'.todo = cli.todo /\ cli'.kids = Append(cli.kids, cli.issue)
          /\ cli'.mode = cli.mode /\ cli'.consented = cli.consented
      BY <2>1, <2>2 DEF CliFields
    <2>4. cli'.kids \in Seq(IssueNumbers)
      BY <1>1, <2>3
    <2>5. Patch' = Patch
      BY <2>3, SamePatch DEF Quiet
    <2>6. AboutToCreate' /\ AboutToComment' /\ cli'.at \in WritePlaces
      BY <1>1, <1>3, <2>3, <2>5 DEF AboutToCreate, AboutToComment, WritePlaces
    <2> QED
      BY <1>1, <2>3, <2>4, <2>6, WritesOn
  <1> QED
    BY <1>2, <1>3

LEMMA ReadEpicKeeps ==
    ASSUME Inv, ReadEpic
    PROVE  Inv'
  <1>1. /\ cli.at = "linking"
        /\ cli.at \in ApplyPlaces \ {"closing"} /\ cli.at \in WritePlaces \ {"closing"}
        /\ DOMAIN cli = CliFields /\ cli.kids \in Seq(IssueNumbers) /\ cli.issue \in IssueNumbers
        /\ (Patch.type = "NEEDS_HUMAN" => Patch.issue # Nothing)
    BY AtWrite DEF ReadEpic, Inv, AboutToCreate, ApplyPlaces, PatchPlaces, WritePlaces
  <1> DEFINE next == [cli EXCEPT !.at = "linkwrite", !.epic = issues[Epic].body]
  <1>2. /\ Quiet /\ Alike(issues, issues')
        /\ cli' = AfterLink \/ cli' = Recorded("failed") \/ cli' = next
    BY ReadIsQuiet DEF ReadEpic, Failed
  <1>3. CASE cli' = AfterLink
    BY <1>1, <1>2, <1>3, AfterLinkKeeps
  <1>4. CASE cli' = Recorded("failed")
    BY <1>1, <1>2, <1>4, RecordedKeeps
  <1>5. CASE cli' = next
    <2>1. /\ DOMAIN cli' = CliFields /\ cli'.at = "linkwrite" /\ cli'.id = cli.id
          /\ cli'.todo = cli.todo /\ cli'.kids = cli.kids /\ cli'.mode = cli.mode
          /\ cli'.consented = cli.consented /\ cli'.issue = cli.issue
      BY <1>1, <1>5 DEF CliFields
    <2>2. Patch' = Patch
      BY <1>2, <2>1, SamePatch DEF Quiet
    <2>3. AboutToCreate' /\ AboutToComment' /\ cli'.at \in WritePlaces
      BY <1>1, <2>1, <2>2 DEF AboutToCreate, AboutToComment, WritePlaces
    <2> QED
      BY <1>1, <1>2, <2>1, <2>3, WritesOn
  <1> QED
    BY <1>2, <1>3, <1>4, <1>5

LEMMA LinkKeeps ==
    ASSUME Inv, LinkIssueToEpic
    PROVE  Inv'
  <1>1. cli.at \in ApplyPlaces \ {"closing"} /\ cli.at = "linkwrite"
    BY DEF LinkIssueToEpic, ApplyPlaces, PatchPlaces, WritePlaces
  <1>2. PICK after : /\ Alike(issues, after)
                     /\ Write(after, [AfterLink EXCEPT !.epic = Nothing], Recorded("failed"))
    BY UpdateIsAlike DEF Inv, Types, LinkIssueToEpic, Failed
  <1>3. /\ Quiet /\ Alike(issues, issues')
        /\ cli' = [AfterLink EXCEPT !.epic = Nothing] \/ cli' = Recorded("failed")
    BY <1>2, AlikeWrite
  <1> QED
    BY <1>1, <1>3, AfterLinkKeeps, RecordedKeeps

\* A title was looked for: none has it, or the issue found is linked next.
LEMMA TitleLookedFor ==
    ASSUME Inv, Quiet, issues' = issues, NEW title \in IssueTitles,
           cli.at \in {"reading", "child"},
           cli.at = "child" \/ Patch.type = "CREATE_ISSUE",
           Sought = title,
           \/ cli' = At("creating") /\ FindIssueByTitle(issues, title) = Nothing
           \/ /\ cli' = [cli EXCEPT !.at = "linking", !.issue = FindIssueByTitle(issues, title)]
              /\ FindIssueByTitle(issues, title) # Nothing
    PROVE  Inv'
  <1>1. /\ cli.at \in WritePlaces \ {"closing"}
        /\ DOMAIN cli = CliFields /\ cli.kids \in Seq(IssueNumbers)
        /\ (Patch.type = "NEEDS_HUMAN" => Patch.issue # Nothing)
    BY AtWrite DEF WritePlaces
  <1>2. Alike(issues, issues')
    BY SameIssues DEF Inv, Types
  <1>3. CASE cli' = At("creating") /\ FindIssueByTitle(issues, title) = Nothing
    <2>1. /\ DOMAIN cli' = CliFields /\ cli'.at = "creating" /\ cli'.id = cli.id
          /\ cli'.todo = cli.todo /\ cli'.kids = cli.kids /\ cli'.mode = cli.mode
          /\ cli'.consented = cli.consented
      BY <1>1, <1>3, AtIs DEF CliFields
    <2>2. Patch' = Patch
      BY <2>1, SamePatch DEF Quiet
    <2>3. Sought' = title
      BY <2>1, <2>2 DEF Sought, TitleToCreate
    <2>4. Titled(issues, title) = {}
      BY <1>3, SearchFinds
    <2>5. AboutToCreate'
      BY <2>1, <2>3, <2>4 DEF AboutToCreate
    <2>6. AboutToComment' /\ cli'.at \in WritePlaces
      BY <1>1, <2>1, <2>2 DEF AboutToComment, WritePlaces
    <2> QED
      BY <1>1, <1>2, <2>1, <2>5, <2>6, WritesOn
  <1>4. CASE /\ cli' = [cli EXCEPT !.at = "linking", !.issue = FindIssueByTitle(issues, title)]
             /\ FindIssueByTitle(issues, title) # Nothing
    <2>1. /\ DOMAIN cli' = CliFields /\ cli'.at = "linking" /\ cli'.id = cli.id
          /\ cli'.todo = cli.todo /\ cli'.kids = cli.kids /\ cli'.mode = cli.mode
          /\ cli'.consented = cli.consented /\ cli'.issue = FindIssueByTitle(issues, title)
      BY <1>1, <1>4 DEF CliFields
    <2>2. cli'.issue \in IssueNumbers
      BY <1>4, <2>1, SearchFinds, ExistingIsFinite DEF Titled
    <2>3. Patch' = Patch
      BY <2>1, SamePatch DEF Quiet
    <2>4. AboutToCreate' /\ AboutToComment' /\ cli'.at \in WritePlaces
      BY <1>1, <2>1, <2>2, <2>3 DEF AboutToCreate, AboutToComment, WritePlaces
    <2> QED
      BY <1>1, <1>2, <2>1, <2>4, WritesOn
  <1> QED
    BY <1>3, <1>4

LEMMA ReadCreateKeeps ==
    ASSUME Inv, ReadCreate
    PROVE  Inv'
  <1>1. /\ cli.at = "reading" /\ Patch.type = "CREATE_ISSUE"
        /\ cli.at \in ApplyPlaces \ {"closing"} /\ IsPatch(Patch)
    BY AtWrite DEF ReadCreate, ApplyPlaces, PatchPlaces, WritePlaces
  <1>2. Normalized[Patch.title] \in IssueTitles /\ Sought = Normalized[Patch.title]
    BY <1>1, ReconcileApplyAssumption DEF IsPatch, Sought, TitleToCreate
  <1> DEFINE n == FindIssueByTitle(issues, Normalized[Patch.title])
  <1>3. /\ Quiet /\ Alike(issues, issues') /\ issues' = issues
        /\ \/ \E status \in {"idempotent", "failed"} : cli' = Recorded(status)
           \/ cli' = At("creating") /\ n = Nothing
           \/ cli' = [cli EXCEPT !.at = "linking", !.issue = n] /\ n # Nothing
    BY ReadIsQuiet DEF ReadCreate, Failed
  <1>4. CASE \E status \in {"idempotent", "failed"} : cli' = Recorded(status)
    BY <1>1, <1>3, <1>4, RecordedKeeps
  <1> QED
    BY <1>1, <1>2, <1>3, <1>4, TitleLookedFor

LEMMA FindChildKeeps ==
    ASSUME Inv, FindChild
    PROVE  Inv'
  <1>1. /\ cli.at = "child" /\ Patch.type = "SPLIT_ISSUE"
        /\ cli.at \in ApplyPlaces \ {"closing"} /\ IsPatch(Patch)
        /\ cli.kids \in Seq(IssueNumbers)
    BY AtWrite DEF FindChild, Inv, AboutToCreate, ApplyPlaces, PatchPlaces, WritePlaces
  <1> DEFINE title == Normalized[Patch.kids[Len(cli.kids) + 1]]
             n == FindIssueByTitle(issues, title)
  <1>2. title \in IssueTitles
    <2>1. Patch.kids \in Seq(DOMAIN Normalized)
      BY <1>1 DEF IsPatch
    <2>2. Len(cli.kids) + 1 \in 1..Len(Patch.kids)
      BY <1>1, <2>1 DEF FindChild
    <2> QED
      BY <2>1, <2>2, ReconcileApplyAssumption
  <1>3. Sought = title
    BY <1>1 DEF Sought, TitleToCreate
  <1>4. /\ Quiet /\ Alike(issues, issues') /\ issues' = issues
        /\ \/ cli' = Recorded("failed")
           \/ cli' = At("creating") /\ n = Nothing
           \/ cli' = [cli EXCEPT !.at = "linking", !.issue = n] /\ n # Nothing
    BY ReadIsQuiet DEF FindChild, Failed
  <1>5. CASE cli' = Recorded("failed")
    BY <1>1, <1>4, <1>5, RecordedKeeps
  <1> HIDE DEF title
  <1> QED
    BY <1>1, <1>2, <1>3, <1>4, <1>5, TitleLookedFor

LEMMA CreatedIs ==
    ASSUME NEW is, ProperIssues(is), HasNext(is), NEW title \in IssueTitles, NEW body, NEW labels,
           NEW js, js = CreateIssue(is, title, body, labels)
    PROVE  /\ ProperIssues(js) /\ Existing(js) = Existing(is) \cup {NextNumber(is)}
           /\ NextNumber(is) \in IssueNumbers /\ NextNumber(is) \notin Existing(is)
           /\ \A m \in Existing(is) : js[m] = is[m]
           /\ js[NextNumber(is)].title = title
           /\ js[NextNumber(is)].duplicate = 0 /\ js[NextNumber(is)].answers = 0
  <1> DEFINE next == NextNumber(is)
  <1>1. next \in IssueNumbers /\ next \notin Existing(is)
    BY NextIsFree
  <1>2. /\ DOMAIN js = IssueNumbers /\ js[next] = NewIssue(title, body, labels)
        /\ \A m \in IssueNumbers \ {next} : js[m] = is[m]
    BY <1>1 DEF CreateIssue, ProperIssues
  <1>3. /\ IsIssue(js[next]) /\ js[next].title = title
        /\ js[next].duplicate = 0 /\ js[next].answers = 0
    BY <1>2 DEF NewIssue, IsIssue
  <1> HIDE DEF next
  <1>4. ProperIssues(js)
    BY <1>2, <1>3 DEF ProperIssues
  <1>5. title # Nothing
    BY TrackerAssumption
  <1>6. Existing(js) = Existing(is) \cup {next}
    BY <1>1, <1>2, <1>3, <1>5 DEF Existing
  <1>7. \A m \in Existing(is) : js[m] = is[m]
    BY <1>1, <1>2, ExistingIsFinite
  <1> QED
    BY <1>1, <1>3, <1>4, <1>6, <1>7 DEF next

LEMMA CreateKeeps ==
    ASSUME Inv, Create
    PROVE  Inv'
  <1> DEFINE js == CreateIssue(issues, Sought, PlainBody(Nothing), {"task"})
             next == [cli EXCEPT !.at = "linking", !.issue = NextNumber(issues)]
  <1>1. /\ cli.at = "creating" /\ HasNext(issues)
        /\ cli.at \in ApplyPlaces \ {"closing"} /\ cli.at \in WritePlaces
        /\ DOMAIN cli = CliFields /\ cli.kids \in Seq(IssueNumbers)
        /\ (Patch.type = "NEEDS_HUMAN" => Patch.issue # Nothing)
    BY AtWrite DEF Create, ApplyPlaces, PatchPlaces, WritePlaces
  <1>2. Sought \in IssueTitles /\ Titled(issues, Sought) = {}
    BY <1>1 DEF Inv, AboutToCreate
  <1>3. Request(js, next, Recorded("failed"))
    BY DEF Create, Failed, Sought
  <1>4. /\ Quiet /\ issues' \in {issues, js}
        /\ \/ cli' = next
           \/ cli' = Recorded("failed")
    BY <1>3, RequestIsQuiet
  <1>5. /\ ProperIssues(js) /\ Existing(js) = Existing(issues) \cup {NextNumber(issues)}
        /\ NextNumber(issues) \in IssueNumbers /\ NextNumber(issues) \notin Existing(issues)
        /\ \A m \in Existing(issues) : js[m] = issues[m]
        /\ js[NextNumber(issues)].title = Sought
        /\ js[NextNumber(issues)].duplicate = 0 /\ js[NextNumber(issues)].answers = 0
    BY <1>1, <1>2, CreatedIs DEF Inv, Types
  <1> HIDE DEF js
  <1>6. /\ ProperIssues(issues') /\ Existing(issues) \subseteq Existing(issues')
        /\ NothingIsRepeated' /\ Owed'
    <2>1. CASE issues' = issues
      <3>1. Alike(issues, issues')
        BY <2>1, SameIssues DEF Inv, Types
      <3> QED
        BY <1>1, <1>4, <3>1, AlikeKeeps
    <2>2. CASE issues' = js
      <3>1. /\ faults + crashes \in Nat /\ faults' + crashes' \in Nat
            /\ faults + crashes <= faults' + crashes' /\ faults' \in Nat /\ crashes' \in Nat
            /\ \A n \in Existing(issues) : issues[n].duplicate \in Nat /\ issues[n].answers \in Nat
        BY <1>4, Counts DEF Inv, Types, Quiet
      <3>2. ASSUME NEW m \in Existing(js), NEW n \in Existing(js), js[m].title = js[n].title
            PROVE  m = n \/ {m, n} \subseteq Existing(Backlog)
        <4>1. \A i \in Existing(issues) : issues[i].title # Sought
          BY <1>2 DEF Titled
        <4>2. CASE m \in Existing(issues) /\ n \in Existing(issues)
          BY <1>5, <3>2, <4>2 DEF Inv, NothingIsRepeated
        <4> QED
          BY <1>5, <3>2, <4>1, <4>2
      <3>3. ASSUME NEW n \in Existing(js)
            PROVE  js[n].duplicate <= 1 + faults' + crashes' /\ js[n].answers <= 1
        <4>1. CASE n \in Existing(issues)
          <5>1. issues[n].duplicate <= 1 + faults + crashes /\ issues[n].answers <= 1
            BY <4>1 DEF Inv, NothingIsRepeated
          <5>2. /\ faults \in Nat /\ crashes \in Nat /\ js[n] = issues[n]
                /\ issues[n].duplicate \in Nat
            BY <1>5, <3>1, <4>1 DEF Inv, Types
          <5>3. issues[n].duplicate <= 1 + faults' + crashes'
            BY <1>4, <5>1, <5>2 DEF Quiet
          <5> QED
            BY <5>1, <5>2, <5>3
        <4>2. CASE n = NextNumber(issues)
          BY <1>5, <3>1, <4>2
        <4> QED
          BY <1>5, <4>1, <4>2
      <3>4. ASSUME NEW n \in Existing(js), js[n].open
            PROVE  js[n].duplicate <= faults' + crashes'
        <4>1. CASE n \in Existing(issues)
          <5>1. issues[n].open /\ ~Closing(n)
            BY <1>1, <1>5, <3>4, <4>1 DEF Closing
          <5>2. issues[n].duplicate <= faults + crashes
            BY <4>1, <5>1 DEF Inv, Owed
          <5> QED
            BY <1>5, <3>1, <4>1, <5>2
        <4>2. CASE n = NextNumber(issues)
          BY <1>5, <3>1, <4>2
        <4> QED
          BY <1>5, <4>1, <4>2
      <3>5. NothingIsRepeated'
        BY <2>2, <3>2, <3>3 DEF NothingIsRepeated
      <3>6. Owed'
        BY <2>2, <3>4 DEF Owed
      <3> QED
        BY <1>5, <2>2, <3>5, <3>6
    <2> QED
      BY <1>4, <2>1, <2>2
  <1>7. CASE cli' = Recorded("failed")
    BY <1>1, <1>4, <1>6, <1>7, RecordedFits, StepKeeps
  <1>8. CASE cli' = next
    <2>1. /\ DOMAIN cli' = CliFields /\ cli'.at = "linking" /\ cli'.id = cli.id
          /\ cli'.todo = cli.todo /\ cli'.kids = cli.kids /\ cli'.mode = cli.mode
          /\ cli'.consented = cli.consented /\ cli'.issue = NextNumber(issues)
      BY <1>1, <1>8 DEF CliFields
    <2>2. cli'.at \in WritePlaces
      BY <2>1 DEF WritePlaces
    <2>3. ProperCli' /\ Patch' = Patch /\ cli'.at \in ApplyPlaces \ {"pointing"} /\ Allowed'
      BY <1>1, <1>4, <2>1, <2>2, WritesOnProper
    <2>4. AboutToCreate' /\ AboutToComment'
      BY <1>1, <1>5, <2>1, <2>3 DEF AboutToCreate, AboutToComment
    <2>5. Known'
      BY <1>1, <1>6, <2>1, <2>3, StillKnown
    <2> QED
      BY <1>4, <1>6, <2>3, <2>4, <2>5, StepKeeps
  <1> QED
    BY <1>4, <1>7, <1>8

-----------------------------------------------------------------------------
(***************************************************************************)
(* Comments.                                                               *)
(***************************************************************************)
\* One issue is replaced by one that exists as well.
LEMMA OneReplaced ==
    ASSUME NEW is, ProperIssues(is), NEW n \in Existing(is),
           NEW issue, IsIssue(issue), NEW js, js = [is EXCEPT ![n] = issue]
    PROVE  ProperIssues(js) /\ Existing(js) = Existing(is)
  <1>1. n \in IssueNumbers /\ Existing(js) \subseteq IssueNumbers
        /\ Existing(is) \subseteq IssueNumbers
    BY ExistingIsFinite
  <1>2. /\ DOMAIN js = IssueNumbers /\ js[n] = issue
        /\ \A m \in IssueNumbers : m # n => js[m] = is[m]
    BY <1>1 DEF ProperIssues
  <1>3. ProperIssues(js)
    BY <1>2 DEF ProperIssues
  <1>4. js[n].title # Nothing /\ is[n].title # Nothing
    BY <1>1, <1>2, TrackerAssumption DEF IsIssue, Existing
  <1>5. \A m \in IssueNumbers : m \in Existing(js) <=> m \in Existing(is)
    BY <1>2, <1>4 DEF Existing
  <1> QED
    BY <1>1, <1>3, <1>5

\* One issue gets one more comment about a duplicate.
LEMMA DuplicateNoted ==
    ASSUME NEW is, ProperIssues(is), NEW n \in Existing(is), NEW js, js = CommentDuplicate(is, n)
    PROVE  /\ ProperIssues(js) /\ Existing(js) = Existing(is)
           /\ \A m \in Existing(is) :
                 /\ js[m].title = is[m].title /\ js[m].answers = is[m].answers
                 /\ js[m].open = is[m].open /\ js[m].body = is[m].body
                 /\ js[m].duplicate = IF m = n THEN is[m].duplicate + 1 ELSE is[m].duplicate
  <1>1. IsIssue(is[n]) /\ n \in IssueNumbers
    BY IssueOrNot, ExistingIsFinite
  <1>2. /\ DOMAIN js = IssueNumbers /\ \A m \in IssueNumbers \ {n} : js[m] = is[m]
        /\ js[n] = [is[n] EXCEPT !.duplicate = @ + 1] /\ js = [is EXCEPT ![n] = js[n]]
    BY <1>1 DEF CommentDuplicate, ProperIssues
  <1>3. /\ IsIssue(js[n]) /\ js[n].title = is[n].title /\ js[n].answers = is[n].answers
        /\ js[n].body = is[n].body
        /\ js[n].open = is[n].open /\ js[n].duplicate = is[n].duplicate + 1
    BY <1>1, <1>2 DEF IsIssue
  <1>4. ProperIssues(js) /\ Existing(js) = Existing(is)
    BY <1>1, <1>2, <1>3, OneReplaced
  <1> QED
    BY <1>2, <1>3, <1>4, ExistingIsFinite

\* One issue gets one more comment with the answers.
LEMMA AnswersNoted ==
    ASSUME NEW is, ProperIssues(is), NEW n \in Existing(is), NEW js, js = CommentAnswers(is, n)
    PROVE  /\ ProperIssues(js) /\ Existing(js) = Existing(is)
           /\ \A m \in Existing(is) :
                 /\ js[m].title = is[m].title /\ js[m].duplicate = is[m].duplicate
                 /\ js[m].open = is[m].open /\ js[m].body = is[m].body
                 /\ js[m].answers = IF m = n THEN is[m].answers + 1 ELSE is[m].answers
  <1>1. IsIssue(is[n]) /\ n \in IssueNumbers
    BY IssueOrNot, ExistingIsFinite
  <1>2. /\ DOMAIN js = IssueNumbers /\ \A m \in IssueNumbers \ {n} : js[m] = is[m]
        /\ js[n] = [is[n] EXCEPT !.answers = @ + 1] /\ js = [is EXCEPT ![n] = js[n]]
    BY <1>1 DEF CommentAnswers, ProperIssues
  <1>3. /\ IsIssue(js[n]) /\ js[n].title = is[n].title /\ js[n].duplicate = is[n].duplicate
        /\ js[n].body = is[n].body
        /\ js[n].open = is[n].open /\ js[n].answers = is[n].answers + 1
    BY <1>1, <1>2 DEF IsIssue
  <1>4. ProperIssues(js) /\ Existing(js) = Existing(is)
    BY <1>1, <1>2, <1>3, OneReplaced
  <1> QED
    BY <1>2, <1>3, <1>4, ExistingIsFinite

\* What a comment may do to the issues.
LEMMA CommentKeeps ==
    ASSUME Inv, Quiet, cli.at # "closing", ProperIssues(issues'),
           Existing(issues') = Existing(issues),
           \A m \in Existing(issues) :
              /\ issues'[m].title = issues[m].title
              /\ issues'[m].answers <= 1
              /\ issues'[m].duplicate <= 1 + faults' + crashes'
              /\ issues'[m].open /\ ~Closing(m)' => issues'[m].duplicate <= faults' + crashes'
    PROVE  NothingIsRepeated' /\ Owed'
  <1>1. ASSUME NEW m \in Existing(issues), NEW n \in Existing(issues),
               issues'[m].title = issues'[n].title
        PROVE  m = n \/ {m, n} \subseteq Existing(Backlog)
    BY <1>1 DEF Inv, NothingIsRepeated
  <1>2. NothingIsRepeated'
    BY <1>1 DEF NothingIsRepeated
  <1>3. Owed'
    BY DEF Owed
  <1> QED
    BY <1>2, <1>3

LEMMA CommentDuplicateKeeps ==
    ASSUME Inv, CommentDuplicateOf
    PROVE  Inv'
  <1> DEFINE i  == Patch.issue
             js == CommentDuplicate(issues, i)
  <1>0. ProperIssues(issues)
    BY DEF Inv, Types
  <1>1. /\ cli.at = "commenting" /\ Patch.type = "MERGE_DUPLICATE"
        /\ cli.at \in ApplyPlaces \ {"closing"} /\ cli.at \in WritePlaces
        /\ DOMAIN cli = CliFields /\ cli.kids \in Seq(IssueNumbers) /\ IsPatch(Patch)
    BY AtWrite DEF CommentDuplicateOf, ApplyPlaces, PatchPlaces, WritePlaces
  <1>2. i \in Existing(issues) /\ issues[i].duplicate <= faults + crashes
    BY <1>1, IssueIsThere DEF Inv, AboutToComment
  <1>3. /\ Quiet /\ issues' \in {issues, js}
        /\ \/ issues' = js /\ cli' = At("closing") /\ faults' = faults
           \/ cli' = Recorded("failed") /\ faults' = faults + 1
    BY WriteIsQuiet DEF CommentDuplicateOf, Failed
  <1>4. /\ ProperIssues(js) /\ Existing(js) = Existing(issues)
        /\ \A m \in Existing(issues) :
              /\ js[m].title = issues[m].title /\ js[m].answers = issues[m].answers
              /\ js[m].open = issues[m].open
              /\ js[m].duplicate = IF m = i THEN issues[m].duplicate + 1 ELSE issues[m].duplicate
    BY <1>0, <1>2, DuplicateNoted
  <1> HIDE DEF i, js
  <1>5. /\ faults \in Nat /\ crashes \in Nat /\ crashes' = crashes
        /\ \A n \in Existing(issues) : issues[n].duplicate \in Nat /\ issues[n].answers \in Nat
    BY <1>3, Counts DEF Inv, Types, Quiet
  <1>6. ASSUME NEW m \in Existing(issues)
        PROVE  /\ issues[m].answers <= 1 /\ issues[m].duplicate <= 1 + faults + crashes
               /\ issues[m].open => issues[m].duplicate <= faults + crashes
    BY <1>1 DEF Inv, NothingIsRepeated, Owed, Closing
  <1>7. ASSUME issues' = js, cli' = At("closing"), faults' = faults PROVE Inv'
    <2>1. /\ DOMAIN cli' = CliFields /\ cli'.at = "closing" /\ cli'.id = cli.id
          /\ cli'.todo = cli.todo /\ cli'.kids = cli.kids /\ cli'.mode = cli.mode
          /\ cli'.consented = cli.consented
      BY <1>1, <1>7, AtIs DEF CliFields
    <2>2. cli'.at \in WritePlaces
      BY <2>1 DEF WritePlaces
    <2>3. ProperCli' /\ Patch' = Patch /\ cli'.at \in ApplyPlaces \ {"pointing"} /\ Allowed'
      BY <1>1, <1>3, <2>1, <2>2, WritesOnProper
    <2>4. AboutToCreate' /\ AboutToComment'
      BY <1>1, <2>1, <2>3 DEF AboutToCreate, AboutToComment
    <2>5. ASSUME NEW m \in Existing(issues)
          PROVE  /\ issues'[m].title = issues[m].title
                 /\ issues'[m].answers <= 1
                 /\ issues'[m].duplicate <= 1 + faults' + crashes'
                 /\ issues'[m].open /\ ~Closing(m)' => issues'[m].duplicate <= faults' + crashes'
      <3>1. CASE m = i
        <4>1. Closing(m)'
          BY <2>1, <2>3, <3>1 DEF Closing, i
        <4>2. /\ js[m].title = issues[m].title /\ js[m].answers = issues[m].answers
              /\ js[m].duplicate = issues[m].duplicate + 1
          BY <1>4, <3>1
        <4>3. js[m].duplicate <= 1 + faults + crashes
          BY <1>2, <1>5, <3>1, <4>2
        <4> QED
          BY <1>5, <1>6, <1>7, <4>1, <4>2, <4>3
      <3>2. CASE m # i
        BY <1>4, <1>5, <1>6, <1>7, <3>2
      <3> QED
        BY <3>1, <3>2
    <2>6. ProperIssues(issues') /\ Existing(issues') = Existing(issues)
      BY <1>4, <1>7
    <2>7. NothingIsRepeated' /\ Owed'
      BY <1>1, <1>3, <2>5, <2>6, CommentKeeps
    <2>8. Known'
      BY <1>1, <2>1, <2>3, <2>6, StillKnown
    <2> QED
      BY <1>3, <2>3, <2>4, <2>6, <2>7, <2>8, StepKeeps
  <1>8. ASSUME cli' = Recorded("failed"), faults' = faults + 1 PROVE Inv'
    <2>1. CASE issues' = issues
      <3>1. Alike(issues, issues')
        BY <2>1, SameIssues DEF Inv, Types
      <3> QED
        BY <1>1, <1>3, <1>8, <3>1, RecordedKeeps
    <2>2. CASE issues' = js
      <3>1. ASSUME NEW m \in Existing(issues)
            PROVE  /\ issues'[m].title = issues[m].title
                   /\ issues'[m].answers <= 1
                   /\ issues'[m].duplicate <= 1 + faults' + crashes'
                   /\ issues'[m].open => issues'[m].duplicate <= faults' + crashes'
        <4>1. CASE m = i
          <5>1. /\ js[m].title = issues[m].title /\ js[m].answers = issues[m].answers
                /\ js[m].duplicate = issues[m].duplicate + 1
            BY <1>4, <4>1
          <5>2. js[m].duplicate <= (faults + 1) + crashes /\ js[m].duplicate \in Nat
            BY <1>2, <1>5, <4>1, <5>1
          <5> QED
            BY <1>5, <1>6, <1>8, <2>2, <5>1, <5>2
        <4>2. CASE m # i
          BY <1>4, <1>5, <1>6, <1>8, <2>2, <4>2
        <4> QED
          BY <4>1, <4>2
      <3>2. ProperIssues(issues') /\ Existing(issues') = Existing(issues)
        BY <1>4, <2>2
      <3>3. NothingIsRepeated' /\ Owed'
        BY <1>1, <1>3, <3>1, <3>2, CommentKeeps
      <3> QED
        BY <1>1, <1>3, <1>8, <3>2, <3>3, RecordedFits, StepKeeps
    <2> QED
      BY <1>3, <2>1, <2>2
  <1> QED
    BY <1>3, <1>7, <1>8

LEMMA CloseDuplicateKeeps ==
    ASSUME Inv, CloseDuplicate
    PROVE  Inv'
  <1> DEFINE i  == Patch.issue
             js == CloseIssue(issues, i)
  <1>1. /\ cli.at = "closing" /\ Patch.type = "MERGE_DUPLICATE"
        /\ cli.at \in ApplyPlaces /\ cli.at \in WritePlaces /\ IsPatch(Patch)
    BY AtWrite DEF CloseDuplicate, Inv, AboutToComment, ApplyPlaces, PatchPlaces, WritePlaces
  <1>2. i \in Existing(issues)
    BY <1>1, IssueIsThere DEF IssuePatches
  <1>3. /\ Quiet /\ issues' \in {issues, js}
        /\ \/ issues' = js /\ cli' = Recorded("applied") /\ faults' = faults
           \/ cli' = Recorded("failed") /\ faults' = faults + 1
    BY WriteIsQuiet DEF CloseDuplicate, Failed
  <1>4. Alike(issues, js) /\ ~js[i].open
    BY <1>2, CloseIsAlike DEF Inv, Types
  <1> HIDE DEF i, js
  <1>5. Alike(issues, issues')
    BY <1>3, <1>4, SameIssues DEF Inv, Types
  <1>6. /\ faults \in Nat /\ crashes \in Nat /\ crashes' = crashes
        /\ \A n \in Existing(issues) : issues[n].duplicate \in Nat /\ issues[n].answers \in Nat
    BY <1>3, Counts DEF Inv, Types, Quiet
  <1>7. ASSUME NEW m \in Existing(issues)
        PROVE  /\ issues'[m].title = issues[m].title
               /\ issues'[m].answers <= 1
               /\ issues'[m].duplicate <= 1 + faults' + crashes'
               /\ issues'[m].open => issues'[m].duplicate <= faults' + crashes'
    <2>1. /\ issues[m].answers <= 1 /\ issues[m].duplicate <= 1 + faults + crashes
          /\ m # i /\ issues[m].open => issues[m].duplicate <= faults + crashes
      BY <1>1 DEF Inv, NothingIsRepeated, Owed, Closing, i
    <2>2. /\ issues'[m].title = issues[m].title
          /\ issues'[m].answers = issues[m].answers /\ issues'[m].duplicate = issues[m].duplicate
          /\ issues'[m].open => issues[m].open
      BY <1>5 DEF Alike
    <2>3. issues'[m].answers <= 1 /\ issues'[m].duplicate <= 1 + faults' + crashes'
      BY <1>3, <1>6, <2>1, <2>2
    <2>4. CASE m # i
      BY <1>3, <1>6, <2>1, <2>2, <2>3, <2>4
    <2>5. CASE m = i /\ issues' = js
      BY <1>4, <2>2, <2>3, <2>5
    <2>6. CASE faults' = faults + 1
      BY <1>6, <2>1, <2>2, <2>3, <2>6
    <2> QED
      BY <1>3, <2>4, <2>5, <2>6
  <1>8. ProperIssues(issues') /\ Existing(issues') = Existing(issues)
    BY <1>5 DEF Alike
  <1>9. NothingIsRepeated'
    <2>1. ASSUME NEW m \in Existing(issues), NEW n \in Existing(issues),
                 issues'[m].title = issues'[n].title
          PROVE  m = n \/ {m, n} \subseteq Existing(Backlog)
      BY <1>7, <2>1 DEF Inv, NothingIsRepeated
    <2> QED
      BY <1>7, <1>8, <2>1 DEF NothingIsRepeated
  <1>10. Owed'
    BY <1>7, <1>8 DEF Owed
  <1>11. cli' = Recorded("applied") \/ cli' = Recorded("failed")
    BY <1>3
  <1> QED
    BY <1>1, <1>3, <1>8, <1>9, <1>10, <1>11, RecordedFits, StepKeeps

LEMMA ReadAnswersKeeps ==
    ASSUME Inv, ReadAnswers
    PROVE  Inv'
  <1>1. /\ cli.at = "reading" /\ Patch.type = "NEEDS_HUMAN" /\ Patch.issue # Nothing
        /\ cli.at \in ApplyPlaces \ {"closing"} /\ cli.at \in WritePlaces \ {"closing"}
        /\ DOMAIN cli = CliFields /\ cli.kids \in Seq(IssueNumbers) /\ IsPatch(Patch)
    BY AtWrite DEF ReadAnswers, ApplyPlaces, PatchPlaces, WritePlaces
  <1>2. Patch.issue \in Existing(issues) => issues[Patch.issue].answers \in Nat
    BY Counts DEF Inv, Types
  <1>3. CASE Goes(Recorded("failed"))
    BY <1>1, <1>3, GoesIsQuiet, RecordedKeeps
  <1>4. ASSUME ~Goes(Recorded("failed"))
        PROVE  /\ Quiet /\ Alike(issues, issues') /\ issues' = issues
               /\ \/ \E status \in {"idempotent", "failed"} : cli' = Recorded(status)
                  \/ /\ cli' = At("commenting") /\ issues[Patch.issue].answers = 0
                     /\ Patch.issue \in Existing(issues)
    BY <1>1, <1>2, <1>4, ReadIsQuiet DEF ReadAnswers, Failed, Missing
  <1>5. CASE ~Goes(Recorded("failed")) /\ \E status \in {"idempotent", "failed"} : cli' = Recorded(status)
    BY <1>1, <1>4, <1>5, RecordedKeeps
  <1>6. CASE /\ ~Goes(Recorded("failed")) /\ cli' = At("commenting")
             /\ issues[Patch.issue].answers = 0 /\ Patch.issue \in Existing(issues)
    <2>1. /\ DOMAIN cli' = CliFields /\ cli'.at = "commenting" /\ cli'.id = cli.id
          /\ cli'.todo = cli.todo /\ cli'.kids = cli.kids /\ cli'.mode = cli.mode
          /\ cli'.consented = cli.consented
      BY <1>1, <1>6, AtIs DEF CliFields
    <2>2. Patch' = Patch
      BY <1>4, <1>6, <2>1, SamePatch DEF Quiet
    <2>3. AboutToCreate' /\ AboutToComment' /\ cli'.at \in WritePlaces
      BY <1>1, <1>4, <1>6, <2>1, <2>2 DEF AboutToCreate, AboutToComment, WritePlaces
    <2> QED
      BY <1>1, <1>4, <1>6, <2>1, <2>3, WritesOn
  <1> QED
    BY <1>3, <1>4, <1>5, <1>6

LEMMA PostAnswersKeeps ==
    ASSUME Inv, PostAnswers
    PROVE  Inv'
  <1> DEFINE i  == Patch.issue
             js == CommentAnswers(issues, i)
  <1>0. ProperIssues(issues)
    BY DEF Inv, Types
  <1>1. /\ cli.at = "commenting" /\ Patch.type = "NEEDS_HUMAN" /\ Patch.issue # Nothing
        /\ cli.at \in ApplyPlaces \ {"closing"} /\ cli.at \in WritePlaces /\ IsPatch(Patch)
    BY AtWrite DEF PostAnswers, ApplyPlaces, PatchPlaces, WritePlaces
  <1>2. i \in Existing(issues) /\ issues[i].answers = 0
    BY <1>1, IssueIsThere DEF Inv, AboutToComment
  <1>3. /\ Quiet /\ issues' \in {issues, js}
        /\ \E status \in {"applied", "failed"} : cli' = Recorded(status)
    BY WriteIsQuiet DEF PostAnswers, Failed
  <1>4. /\ ProperIssues(js) /\ Existing(js) = Existing(issues)
        /\ \A m \in Existing(issues) :
              /\ js[m].title = issues[m].title /\ js[m].duplicate = issues[m].duplicate
              /\ js[m].open = issues[m].open
              /\ js[m].answers = IF m = i THEN issues[m].answers + 1 ELSE issues[m].answers
    BY <1>0, <1>2, AnswersNoted
  <1> HIDE DEF i, js
  <1>5. CASE issues' = issues
    <2>1. Alike(issues, issues')
      BY <1>5, SameIssues DEF Inv, Types
    <2> QED
      BY <1>1, <1>3, <2>1, RecordedKeeps
  <1>6. CASE issues' = js
    <2>1. /\ faults \in Nat /\ crashes \in Nat /\ crashes' = crashes
          /\ faults' = faults \/ faults' = faults + 1
          /\ \A n \in Existing(issues) : issues[n].duplicate \in Nat
      BY <1>3, Counts DEF Inv, Types, Quiet
    <2>2. ASSUME NEW m \in Existing(issues)
          PROVE  /\ issues'[m].title = issues[m].title
                 /\ issues'[m].answers <= 1
                 /\ issues'[m].duplicate <= 1 + faults' + crashes'
                 /\ issues'[m].open => issues'[m].duplicate <= faults' + crashes'
      <3>1. /\ issues[m].answers <= 1 /\ issues[m].duplicate <= 1 + faults + crashes
            /\ issues[m].open => issues[m].duplicate <= faults + crashes
        BY <1>1 DEF Inv, NothingIsRepeated, Owed, Closing
      <3>2. js[m].answers <= 1
        BY <1>2, <1>4, <3>1
      <3> QED
        BY <1>4, <1>6, <2>1, <3>1, <3>2
    <2>3. ProperIssues(issues') /\ Existing(issues') = Existing(issues)
      BY <1>4, <1>6
    <2>4. NothingIsRepeated' /\ Owed'
      BY <1>1, <1>3, <2>2, <2>3, CommentKeeps
    <2> QED
      BY <1>1, <1>3, <2>3, <2>4, RecordedFits, StepKeeps
  <1> QED
    BY <1>3, <1>5, <1>6

-----------------------------------------------------------------------------
(***************************************************************************)
(* The artifact, the other commands and the rest of the world.             *)
(***************************************************************************)
\* Steps that leave the issues and the bounds that count towards comments.
LEMMA SameCounts ==
    ASSUME Inv, issues' = issues, faults' = faults, crashes' = crashes, cli.at # "closing"
    PROVE  NothingIsRepeated' /\ Owed'
  <1>1. NothingIsRepeated'
    BY DEF Inv, NothingIsRepeated
  <1>2. Owed'
    BY DEF Inv, Owed, Closing
  <1> QED
    BY <1>1, <1>2

\* A command that is not applying a patch is about to do nothing to the issues.
LEMMA NothingAhead ==
    ASSUME cli'.at \in {"idle", "session", "next", "pointing"}
    PROVE  Allowed' /\ AboutToCreate' /\ AboutToComment' /\ Known'
  BY DEF Allowed, AboutToCreate, AboutToComment, Known, WritePlaces

LEMMA SaveApplyKeeps ==
    ASSUME Inv, SaveApply
    PROVE  Inv'
  <1>1. /\ cli.at \in {"saving", "next"} /\ cli.at \in ApplyPlaces /\ cli.at # "closing"
        /\ issues' = issues /\ reports' = reports /\ latest' = latest
        /\ faults' = faults /\ crashes' = crashes /\ edits' = edits
    BY DEF SaveApply, Counters, ApplyPlaces
  <1>2. /\ DOMAIN cli = CliFields /\ cli.id \in DOMAIN reports
        /\ cli.todo \subseteq DOMAIN reports[cli.id] /\ cli.kids \in Seq(IssueNumbers)
    BY <1>1, AtProper DEF Inv, Types
  <1>3. /\ DOMAIN applied' = DOMAIN applied \cup {cli.id}
        /\ \A id \in DOMAIN applied \ {cli.id} : applied'[id] = applied[id]
    BY DEF SaveApply, Stored
  <1>4. /\ DOMAIN decided' = {"declines", "lost"} /\ decided'.declines = decided.declines
        /\ decided'.lost = (decided.lost \/ cli.id = latest)
    BY DEF SaveApply, Inv, Types
  <1>5. decided'.lost \in BOOLEAN
    BY <1>4
  <1>6. cli' = Idle \/ cli' = At("pointing")
    BY DEF SaveApply
  <1>7. ProperCli' /\ cli'.at \in {"idle", "pointing"} /\ (cli'.at = "pointing" => cli'.id = cli.id)
    <2>1. CASE cli' = Idle
      BY <2>1 DEF ProperCli, Idle
    <2>2. CASE cli' = At("pointing")
      <3>1. /\ DOMAIN cli' = CliFields /\ cli'.at = "pointing" /\ cli'.id = cli.id
            /\ cli'.todo = cli.todo /\ cli'.kids = cli.kids
        BY <1>2, <2>2, AtIs DEF CliFields
      <3>2. "pointing" \in ApplyPlaces /\ "pointing" \notin PatchPlaces
        BY DEF ApplyPlaces, PatchPlaces, WritePlaces
      <3> QED
        BY <1>1, <1>2, <3>1, <3>2 DEF ProperCli
    <2> QED
      BY <1>6, <2>1, <2>2
  <1>8. Types'
    BY <1>1, <1>2, <1>3, <1>4, <1>5, <1>7 DEF Inv, Types
  <1>9. Remembered'
    <2>1. SUFFICES ASSUME ~decided'.lost
                   PROVE  decided'.declines = IF latest' = Nothing THEN {} ELSE Declines(applied'[latest'])
      BY DEF Remembered, Declines, TargetIssue
    <2>2. ~decided.lost /\ cli.id # latest
      BY <1>4, <2>1
    <2>3. decided.declines = IF latest = Nothing THEN {} ELSE Declines(applied[latest])
      BY <2>2 DEF Inv, Remembered
    <2>4. latest # Nothing => applied'[latest] = applied[latest]
      BY <1>3, <2>2 DEF Inv, Types
    <2> QED
      BY <1>1, <1>4, <2>3, <2>4
  <1>10. Pointing'
    BY <1>3, <1>7 DEF Pointing
  <1>11. SteeredByLastApply'
    BY <1>1, <1>3, <1>7 DEF Inv, SteeredByLastApply
  <1> QED
    BY <1>1, <1>7, <1>8, <1>9, <1>10, <1>11, SameCounts, NothingAhead DEF Inv

LEMMA PointKeeps ==
    ASSUME Inv, WriteLatestApply
    PROVE  Inv'
  <1>1. /\ cli.at = "pointing" /\ cli.at \in ApplyPlaces
        /\ issues' = issues /\ reports' = reports /\ applied' = applied
        /\ faults' = faults /\ crashes' = crashes /\ edits' = edits
        /\ cli' = Idle /\ latest' = cli.id
        /\ decided' = [declines |-> Declines(applied[cli.id]), lost |-> FALSE]
    BY DEF WriteLatestApply, Counters, ApplyPlaces
  <1>2. cli.id \in DOMAIN reports /\ cli.id \in DOMAIN applied
    BY <1>1, AtProper DEF Inv, Types, Pointing
  <1>3. cli.id # Nothing
    BY <1>2, ReconcileApplyAssumption DEF Inv, Types
  <1>4. ProperCli' /\ cli'.at = "idle"
    BY <1>1 DEF ProperCli, Idle
  <1>5. Types'
    BY <1>1, <1>2, <1>4 DEF Inv, Types
  <1>6. decided'.declines = Declines(applied'[latest'])
    BY <1>1
  <1>7. Remembered'
    BY <1>1, <1>3, <1>6 DEF Remembered, Declines, TargetIssue
  <1>8. SteeredByLastApply' /\ Pointing'
    BY <1>1, <1>2, <1>4 DEF SteeredByLastApply, Pointing
  <1> QED
    BY <1>1, <1>4, <1>5, <1>7, <1>8, SameCounts, NothingAhead DEF Inv

LEMMA StartKeeps ==
    ASSUME Inv, NEW id \in DOMAIN reports, NEW mode \in {"yes", "menu", "preview"},
           StartApply(id, mode)
    PROVE  Inv'
  <1>1. /\ cli = Idle /\ cli.at = "idle"
        /\ issues' = issues /\ reports' = reports /\ applied' = applied /\ latest' = latest
        /\ decided' = decided /\ faults' = faults /\ crashes' = crashes /\ edits' = edits
    BY DEF StartApply, Idle
  <1>2. /\ DOMAIN cli' = CliFields /\ cli'.at = "next" /\ cli'.id = id
        /\ cli'.todo = DOMAIN reports[id] /\ cli'.kids = <<>>
    BY DEF StartApply, CliFields
  <1>3. "next" \in ApplyPlaces /\ "next" \notin PatchPlaces
    BY DEF ApplyPlaces, PatchPlaces, WritePlaces
  <1>4. cli'.kids \in Seq(IssueNumbers)
    BY <1>2
  <1>5. ProperCli'
    BY <1>1, <1>2, <1>3, <1>4 DEF ProperCli
  <1>6. Types'
    BY <1>1, <1>5 DEF Inv, Types
  <1>7. Remembered' /\ Pointing' /\ SteeredByLastApply'
    BY <1>1, <1>2 DEF Inv, Remembered, Pointing, SteeredByLastApply, Declines, TargetIssue
  <1> QED
    BY <1>1, <1>2, <1>6, <1>7, SameCounts, NothingAhead DEF Inv

LEMMA ReadBacklogKeeps ==
    ASSUME Inv, ReadBacklog
    PROVE  Inv'
  <1>1. /\ cli = Idle /\ cli.at = "idle"
        /\ issues' = issues /\ reports' = reports /\ applied' = applied /\ latest' = latest
        /\ decided' = decided /\ faults' = faults /\ crashes' = crashes /\ edits' = edits
    BY DEF ReadBacklog, Counters, Idle
  <1>2. /\ DOMAIN cli' = {"at", "seen", "steering"} /\ cli'.at = "session"
        /\ cli'.steering = IF latest = Nothing THEN {} ELSE Declines(applied[latest])
    BY DEF ReadBacklog
  <1>3. ProperCli'
    BY <1>2 DEF ProperCli
  <1>4. Types'
    BY <1>1, <1>3 DEF Inv, Types
  <1>5. Remembered' /\ Pointing'
    BY <1>1, <1>2 DEF Inv, Remembered, Pointing, Declines, TargetIssue
  <1>6. SteeredByLastApply'
    BY <1>1, <1>2 DEF Inv, Remembered, SteeredByLastApply
  <1> QED
    BY <1>1, <1>2, <1>4, <1>5, <1>6, SameCounts, NothingAhead DEF Inv

LEMMA StoreReportKeeps ==
    ASSUME Inv, StoreReport
    PROVE  Inv'
  <1>1. /\ cli.at = "session"
        /\ issues' = issues /\ applied' = applied /\ latest' = latest /\ cli' = Idle
        /\ decided' = decided /\ faults' = faults /\ crashes' = crashes /\ edits' = edits
    BY DEF StoreReport, Counters
  <1>2. PICK ps \in Proposals :
          LET downgraded == ApplyIdempotencyDowngrades(ps, cli.seen)
              left == {k \in DOMAIN ps : ~PatchReferencesClosedIssue(downgraded[k], cli.seen)}
          IN  reports' = Append(reports, [k \in left |-> downgraded[k]])
    BY DEF StoreReport
  <1> DEFINE downgraded == ApplyIdempotencyDowngrades(ps, cli.seen)
             left == {k \in DOMAIN ps : ~PatchReferencesClosedIssue(downgraded[k], cli.seen)}
             report == [k \in left |-> downgraded[k]]
  <1>3. left \subseteq DOMAIN ps /\ left \in SUBSET Nat
    BY ReconcileApplyAssumption
  <1>4. ASSUME NEW k \in DOMAIN ps
        PROVE  downgraded[k] \in Patches
    <2>1. ps[k] \in Spoken
      BY DEF Spoken
    <2>2. downgraded[k] \in {ps[k], [ps[k] EXCEPT !.type = "KEEP"], [ps[k] EXCEPT !.type = "NEEDS_HUMAN"]}
      BY DEF ApplyIdempotencyDowngrades
    <2> QED
      BY <2>1, <2>2 DEF Patches
  <1> HIDE DEF downgraded, left
  <1>5. report \in [left -> Patches]
    BY <1>3, <1>4
  <1>6. report \in Reports
    BY <1>3, <1>5 DEF Reports
  <1>7. reports' = Append(reports, report)
    BY <1>2 DEF downgraded, left
  <1> HIDE DEF report
  <1>8. reports' \in Seq(Reports) /\ DOMAIN reports \subseteq DOMAIN reports'
    BY <1>6, <1>7 DEF Inv, Types
  <1>9. ProperCli' /\ cli'.at = "idle"
    BY <1>1 DEF ProperCli, Idle
  <1>10. Types'
    BY <1>1, <1>8, <1>9 DEF Inv, Types
  <1>11. Remembered' /\ Pointing' /\ SteeredByLastApply'
    BY <1>1, <1>9 DEF Inv, Remembered, Pointing, SteeredByLastApply, Declines, TargetIssue
  <1> QED
    BY <1>1, <1>9, <1>10, <1>11, SameCounts, NothingAhead DEF Inv

\* A comment whose duplicate is not closed any more is owed to the kill.
LEMMA KillKeeps ==
    ASSUME Inv, Kill
    PROVE  Inv'
  <1>1. /\ issues' = issues /\ applied' = applied /\ latest' = latest /\ cli' = Idle
        /\ reports' = reports /\ decided' = decided /\ faults' = faults
        /\ crashes' = crashes + 1 /\ edits' = edits
    BY DEF Kill
  <1>2. ProperCli' /\ cli'.at = "idle"
    BY <1>1 DEF ProperCli, Idle
  <1>3. Types'
    BY <1>1, <1>2 DEF Inv, Types
  <1>4. Remembered' /\ Pointing' /\ SteeredByLastApply'
    BY <1>1, <1>2 DEF Inv, Remembered, Pointing, SteeredByLastApply, Declines, TargetIssue
  <1>5. /\ faults \in Nat /\ crashes \in Nat
        /\ \A n \in Existing(issues) : issues[n].duplicate \in Nat /\ issues[n].answers \in Nat
    BY Counts DEF Inv, Types
  <1>6. ASSUME NEW n \in Existing(issues)
        PROVE  /\ issues[n].answers <= 1
               /\ issues[n].duplicate <= 1 + faults + crashes'
               /\ issues[n].duplicate <= faults + crashes'
    BY <1>1, <1>5 DEF Inv, NothingIsRepeated
  <1>7. NothingIsRepeated'
    BY <1>1, <1>6 DEF Inv, NothingIsRepeated
  <1>8. Owed'
    BY <1>1, <1>6 DEF Owed
  <1> QED
    BY <1>2, <1>3, <1>4, <1>7, <1>8, NothingAhead DEF Inv

LEMMA EditIsAlike ==
    ASSUME Inv, Edit
    PROVE  Alike(issues, issues')
  <1>1. CASE \E n \in Existing(issues) : issues' = CloseIssue(issues, n)
    BY <1>1, CloseIsAlike DEF Inv, Types
  <1>2. ASSUME NEW n \in Existing(issues), NEW d,
               issues' = [issues EXCEPT ![n].body.free = @ \cup {d}]
        PROVE  Alike(issues, issues')
    <2>1. n \in IssueNumbers
      BY ExistingIsFinite
    <2>2. /\ DOMAIN issues' = DOMAIN issues
          /\ \A m \in IssueNumbers \ {n} : issues'[m] = issues[m]
          /\ issues'[n] = [issues[n] EXCEPT !["body"] =
                              [issues[n].body EXCEPT !.free = issues[n].body.free \cup {d}]]
      BY <1>2, <2>1 DEF Inv, Types, ProperIssues
    <2>3. PICK body : issues'[n] = [issues[n] EXCEPT !["body"] = body]
      BY <2>2
    <2>4. ProperIssues(issues)
      BY DEF Inv, Types
    <2> QED
      BY ONLY <2>2, <2>3, <2>4, FieldIsAlike
  <1>3. ASSUME NEW n \in Existing(issues),
               issues' = [issues EXCEPT ![n].body.section = Ambiguous]
        PROVE  Alike(issues, issues')
    <2>1. n \in IssueNumbers
      BY ExistingIsFinite
    <2>2. /\ DOMAIN issues' = DOMAIN issues
          /\ \A m \in IssueNumbers \ {n} : issues'[m] = issues[m]
          /\ issues'[n] = [issues[n] EXCEPT !["body"] =
                              [issues[n].body EXCEPT !.section = Ambiguous]]
      BY <1>3, <2>1 DEF Inv, Types, ProperIssues
    <2>3. PICK body : issues'[n] = [issues[n] EXCEPT !["body"] = body]
      BY <2>2
    <2>4. ProperIssues(issues)
      BY DEF Inv, Types
    <2> QED
      BY ONLY <2>2, <2>3, <2>4, FieldIsAlike
  <1> QED
    BY <1>1, <1>2, <1>3 DEF Edit

LEMMA EditKeeps ==
    ASSUME Inv, Edit
    PROVE  Inv'
  <1>1. /\ applied' = applied /\ latest' = latest /\ cli' = cli
        /\ reports' = reports /\ decided' = decided /\ faults' = faults
        /\ crashes' = crashes /\ edits' = edits + 1
    BY DEF Edit
  <1>2. Alike(issues, issues')
    BY EditIsAlike
  <1>3. Patch' = Patch /\ Sought' = Sought
    BY <1>1 DEF Patch, Place, Sought, TitleToCreate
  <1>4. ProperIssues(issues') /\ Existing(issues') = Existing(issues)
    BY <1>2 DEF Alike
  <1>5. Types'
    BY <1>1, <1>4 DEF Inv, Types, ProperCli
  <1>6. Remembered' /\ Pointing' /\ SteeredByLastApply'
    BY <1>1 DEF Inv, Remembered, Pointing, SteeredByLastApply, Declines, TargetIssue
  <1>7. Allowed'
    BY <1>1, <1>3 DEF Inv, Allowed, Approves, AutoSafe
  <1>8. \A title : Titled(issues', title) = Titled(issues, title)
    BY <1>2, <1>4 DEF Titled, Alike
  <1>9. AboutToCreate'
    BY <1>1, <1>3, <1>8 DEF Inv, AboutToCreate
  <1>10. AboutToComment'
    <2>1. cli.at = "commenting" => Patch.issue \in Existing(issues)
      BY DEF Inv, Known
    <2> QED
      BY <1>1, <1>2, <1>3, <2>1 DEF Inv, AboutToComment, Alike
  <1>11. NothingIsRepeated'
    <2>1. ASSUME NEW m \in Existing(issues), NEW n \in Existing(issues),
                 issues'[m].title = issues'[n].title
          PROVE  m = n \/ {m, n} \subseteq Existing(Backlog)
      BY <1>2, <2>1 DEF Inv, NothingIsRepeated, Alike
    <2>2. ASSUME NEW n \in Existing(issues)
          PROVE  issues'[n].duplicate <= 1 + faults' + crashes' /\ issues'[n].answers <= 1
      BY <1>1, <1>2 DEF Inv, NothingIsRepeated, Alike
    <2> QED
      BY <1>4, <2>1, <2>2 DEF NothingIsRepeated
  <1>12. Owed'
    BY <1>1, <1>2, <1>3 DEF Inv, Owed, Closing, Alike
  <1>13. Known'
    BY <1>1, <1>3, <1>4 DEF Inv, Known
  <1> QED
    BY <1>5, <1>6, <1>7, <1>9, <1>10, <1>11, <1>12, <1>13 DEF Inv

-----------------------------------------------------------------------------
(***************************************************************************)
(* The invariant holds.                                                    *)
(***************************************************************************)
LEMMA ApplyInit == Init => Inv
  <1>1. SUFFICES ASSUME Init PROVE Inv
    OBVIOUS
  <1>2. /\ issues = Backlog /\ cli = Idle /\ cli.at = "idle" /\ reports = <<>>
        /\ applied = [id \in {} |-> {}] /\ latest = Nothing
        /\ decided = [declines |-> {}, lost |-> FALSE]
        /\ faults = 0 /\ crashes = 0 /\ edits = 0
    BY <1>1 DEF Init, Idle
  <1>3. ProperIssues(issues)
    BY <1>2, ReconcileApplyAssumption DEF ProperIssues
  <1>4. Types
    BY <1>2, <1>3 DEF Types, ProperCli
  <1>5. ASSUME NEW n \in Existing(issues)
        PROVE  issues[n].duplicate = 0 /\ issues[n].answers <= 1
    <2>1. n \in IssueNumbers /\ IsIssue(issues[n])
      BY <1>3, IssueOrNot, ExistingIsFinite
    <2>2. issues[n] # NoIssue
      BY DEF Existing, NoIssue
    <2> QED
      BY <1>2, <2>1, <2>2, ReconcileApplyAssumption
  <1>6. NothingIsRepeated
    BY <1>2, <1>5 DEF NothingIsRepeated
  <1>7. Owed
    BY <1>2, <1>5 DEF Owed
  <1>8. Remembered /\ Pointing /\ SteeredByLastApply
    BY <1>2 DEF Remembered, Pointing, SteeredByLastApply
  <1>9. Allowed /\ AboutToCreate /\ AboutToComment /\ Known
    BY <1>2 DEF Allowed, AboutToCreate, AboutToComment, Known, WritePlaces
  <1> QED
    BY <1>4, <1>6, <1>7, <1>8, <1>9 DEF Inv

LEMMA ApplyNext ==
    ASSUME Inv, [Next]_vars
    PROVE  Inv'
  <1>1. CASE UNCHANGED vars
    <2>1. /\ issues' = issues /\ applied' = applied /\ latest' = latest /\ cli' = cli
          /\ reports' = reports /\ decided' = decided /\ faults' = faults
          /\ crashes' = crashes /\ edits' = edits
      BY <1>1 DEF vars
    <2>2. Types' /\ NothingIsRepeated' /\ Owed'
      BY <2>1 DEF Inv, Types, ProperCli, NothingIsRepeated, Owed, Closing, Patch, Place
    <2>3. Remembered' /\ Pointing' /\ SteeredByLastApply'
      BY <2>1 DEF Inv, Remembered, Pointing, SteeredByLastApply, Declines, TargetIssue
    <2>4. Patch' = Patch /\ Sought' = Sought
      BY <2>1 DEF Patch, Place, Sought, TitleToCreate
    <2>5. Allowed' /\ AboutToCreate' /\ AboutToComment' /\ Known'
      BY <2>1, <2>4 DEF Inv, Allowed, AboutToCreate, AboutToComment, Known, Approves, AutoSafe
    <2> QED
      BY <2>2, <2>3, <2>5 DEF Inv
  <1>2. CASE ApplyStep
    BY <1>2, NextPatchKeeps, PrepareKeeps, DecideKeeps, ReadFreshKeeps, WriteBodyKeeps,
       ReadCreateKeeps, FindChildKeeps, CreateKeeps, ReadEpicKeeps, LinkKeeps, WriteSplitKeeps,
       LabelKeeps, CommentDuplicateKeeps, CloseDuplicateKeeps, ReadAnswersKeeps,
       PostAnswersKeeps, SaveApplyKeeps, PointKeeps DEF ApplyStep
  <1>3. CASE ReadBacklog \/ StoreReport \/ Kill \/ Edit
    BY <1>3, ReadBacklogKeeps, StoreReportKeeps, KillKeeps, EditKeeps
  <1>4. CASE \E id \in DOMAIN reports, mode \in {"yes", "menu", "preview"} : StartApply(id, mode)
    BY <1>4, StartKeeps
  <1> QED
    BY <1>1, <1>2, <1>3, <1>4 DEF Next

LEMMA ApplyHolds == Spec => []Inv
  BY ApplyInit, ApplyNext, PTL DEF Spec

\* However often a report is applied, and wherever it fails: no issue is created
\* that there is, answers are posted once, and a duplicate gets a second comment
\* only after a failure.
THEOREM AppliesRepeatNothing == Spec => []NothingIsRepeated
  BY ApplyHolds, PTL DEF Inv

\* Every reconcile is steered by what the operator declined last, and finds the
\* artifact the pointer names.
THEOREM LastWordSteers == Spec => []SteeredByLastApply
  BY ApplyHolds, PTL DEF Inv

\* What needs approval is written only with it, and a preview writes nothing.
THEOREM ApprovedBeforeWritten == Spec => WritesAreApproved
  <1>1. ASSUME Inv, [Next]_vars
        PROVE  [Applying /\ issues' # issues /\ edits' = edits
                  => cli.mode # "preview" /\ Approves]_vars
    <2>1. SUFFICES ASSUME Next, Applying, issues' # issues, edits' = edits
                   PROVE  cli.mode # "preview" /\ Approves
      BY <1>1 DEF vars
    <2>2. ~Edit
      BY <1>1, <2>1 DEF Edit, Inv, Types
    <2>3. \/ WriteBody \/ Create \/ LinkIssueToEpic \/ WriteSplit \/ LabelSplit \/ UnlabelSplit
          \/ CommentDuplicateOf \/ CloseDuplicate \/ PostAnswers
      <3>1. ApplyStep
        BY <2>1, <2>2 DEF Next, ReadBacklog, StoreReport, StartApply, Kill
      <3> QED
        BY <2>1, <3>1 DEF ApplyStep, NextPatch, Prepare, DecideAlone, Menu, ReadFresh, ReadCreate,
                          FindChild, ReadEpic, ReadAnswers, SaveApply, WriteLatestApply, Goes, Read
    <2>4. cli.at \in WritePlaces
      BY <2>3 DEF WriteBody, Create, LinkIssueToEpic, WriteSplit, LabelSplit, UnlabelSplit,
                  CommentDuplicateOf, CloseDuplicate, PostAnswers, WritePlaces
    <2> QED
      BY <1>1, <2>4 DEF Inv, Allowed
  <1> QED
    BY <1>1, ApplyHolds, PTL DEF Spec, WritesAreApproved

-----------------------------------------------------------------------------
(***************************************************************************)
(* What reports say, where the sessions' patches do not contradict each    *)
(* other.                                                                  *)
(***************************************************************************)
WorkTypes == IssuePatches \cup {"CREATE_ISSUE", "NEEDS_HUMAN"}
ChildPlaces == {"child", "creating", "linking", "linkwrite"}

\* What is listed under an issue is there and in the epic.
ListsAreTrue(is) ==
    \A n \in Existing(is) :
        /\ DOMAIN is[n].body = BodyFields
        /\ n # Epic => /\ is[n].body.links = {}
                       /\ \A s \in is[n].body.split :
                              s = <<s[1], s[2]>> /\ s[1] \in Titled(is, Normalized[s[2]]) \cap Refs(is)

ClosedForReason(is) ==
    \A n \in Existing(is) :
        ~is[n].open => \/ n \in Existing(Backlog) /\ ~Backlog[n].open
                       \/ /\ is[n].duplicate > 0
                          /\ \E q \in Spoken : q.type = "MERGE_DUPLICATE" /\ q.issue = n

GrownFrom(is) ==
    /\ Refs(Backlog) \subseteq Refs(is)
    /\ \A n \in Existing(Backlog) : is[n].title = Backlog[n].title

Sound(is) == ListsAreTrue(is) /\ ClosedForReason(is) /\ GrownFrom(is)

\* A patch that is about issues that are there, and what it says holds.
\* Of the session, or a question made of what could not be judged.
Asked(p) == p.type \in WorkTypes /\ (p.type = "NEEDS_HUMAN" \/ p \in Spoken)

Meant(p, is) == Asked(p) /\ (p.type # "CREATE_ISSUE" => p.issue \in Existing(is))

Skipped(p, is) == (p.type \in Simple /\ ~is[p.issue].open) \/ Garbled(p, is)

TellTruth(entries, is) ==
    \A e \in entries :
        /\ e.status \in {"applied", "idempotent"} => Meant(e.patch, is)
        /\ e.status = "applied" \/ (e.status = "idempotent" /\ ~Skipped(e.patch, is))
              => Holds(e.patch, is)

\* What the command has read is still so.
AboutToWrite ==
    /\ cli.at \in PatchPlaces => Asked(Patch)
    /\ cli.at = "writing" => Patch.type \in Simple /\ ~Garbled(Patch, issues)
    /\ cli.at \in ChildPlaces => Patch.type \in {"CREATE_ISSUE", "SPLIT_ISSUE"}
    /\ cli.at = "writing" \/ (cli.at \in ChildPlaces /\ Patch.type = "SPLIT_ISSUE")
          => cli.seen = issues[Patch.issue].body
    /\ cli.at \in ChildPlaces /\ Patch.type = "SPLIT_ISSUE" =>
          /\ Len(cli.kids) <= Len(Patch.kids) /\ (cli.at # "child" => Len(cli.kids) < Len(Patch.kids))
          /\ \A k \in 1 .. Len(cli.kids) :
                cli.kids[k] \in Titled(issues, Normalized[Patch.kids[k]]) \cap Refs(issues)
    /\ cli.at \in {"linking", "linkwrite"} => cli.issue \in Titled(issues, Sought)
    /\ cli.at = "linkwrite" => cli.epic = issues[Epic].body
    /\ cli.at \in {"labelling", "unlabelling"} => Patch.type = "SPLIT_ISSUE" /\ Holds(Patch, issues)
    /\ cli.at = "closing" => issues[Patch.issue].duplicate > 0
    /\ cli.at \in {"next", "preparing", "deciding", "reading"} => cli.kids = <<>>

Truth ==
    /\ Sound(issues) /\ AboutToWrite
    /\ \A id \in DOMAIN applied : TellTruth(applied[id], issues)
    /\ Applying => TellTruth(cli.entries, issues)

\* The two ways in which the titles are known.
TitlesAgree ==
    /\ DOMAIN titles = IssueNumbers
    /\ \A n \in Existing(issues) : Normalized[titles[n]] = issues[n].title

-----------------------------------------------------------------------------
(***************************************************************************)
(* What holds goes on to hold.                                             *)
(***************************************************************************)
LEMMA WorkIsSpoken ==
    ASSUME NEW p \in Patches, p.type \in WorkTypes
    PROVE  Asked(p)
  <1>1. SUFFICES ASSUME NEW q \in Spoken, NEW type \in {"KEEP", "NEEDS_HUMAN"},
                        p = [q EXCEPT !.type = type]
                 PROVE  Asked(p)
    BY DEF Patches, Asked
  <1>2. "type" \in DOMAIN q
    BY <1>1, ReconcileApplyAssumption DEF Spoken, IsPatch
  <1>3. p.type = type
    BY <1>1, <1>2
  <1> QED
    BY <1>1, <1>3 DEF WorkTypes, IssuePatches, Asked

\* The issue of a patch that means one.
LEMMA TargetIs ==
    ASSUME Coherent, NEW is, NEW p, Meant(p, is), p.type \in IssuePatches
    PROVE  p.issue \in Existing(is) \ {Epic}
  BY DEF Meant, Asked, IssuePatches, Coherent

\* How the patch w may change a body.
BodyGoesOn(w, b, c) ==
    /\ c.free = b.free
    /\ \/ c.section = b.section
       \/ w.type = "ENRICH_ISSUE" /\ c.section = w.goal /\ b.section # Ambiguous
    /\ \A d \in b.deps : d \in c.deps \/ (w.type = "REMOVE_DEPENDENCY" /\ d = w.on)
    /\ \A d \in c.deps : d \in b.deps \/ (w.type = "ADD_DEPENDENCY" /\ d = w.on)
    /\ c.split = b.split \/ w.type = "SPLIT_ISSUE"

\* What the commands do to the issues, one request after the other.
Grown(is, js) ==
    /\ Existing(is) \subseteq Existing(js) /\ Refs(is) \subseteq Refs(js)
    /\ \A n \in Existing(is) :
          /\ js[n].title = is[n].title /\ (js[n].open => is[n].open)
          /\ is[n].duplicate \in Nat /\ js[n].duplicate \in Nat /\ is[n].duplicate <= js[n].duplicate
          /\ is[n].answers \in Nat /\ js[n].answers \in Nat /\ is[n].answers <= js[n].answers

Moves(is, js) ==
    /\ Grown(is, js)
    /\ \A n \in Existing(is) \ {Epic} :
          \/ js[n].body = is[n].body
          \/ \E w \in Spoken : /\ w.issue = n /\ w.type \in IssuePatches
                               /\ BodyGoesOn(w, is[n].body, js[n].body)
                               /\ w.type = "SPLIT_ISSUE" => Holds(w, js)

LEMMA TitledGrows ==
    ASSUME NEW is, NEW js, Grown(is, js), NEW title
    PROVE  Titled(is, title) \cap Refs(is) \subseteq Titled(js, title) \cap Refs(js)
  BY DEF Grown, Titled

LEMMA HoldsOn ==
    ASSUME Coherent, NEW is, NEW js, Moves(is, js), NEW p, Meant(p, is), Holds(p, is)
    PROVE  Holds(p, js)
  <1>1. Grown(is, js) /\ p.type \in WorkTypes /\ (p.type \in IssuePatches => p \in Spoken)
    BY DEF Moves, Meant, Asked, IssuePatches
  <1>2. CASE p.type = "CREATE_ISSUE"
    <2>1. Titled(is, Normalized[p.title]) \cap Refs(is) # {}
      BY <1>2 DEF Holds, Refs
    <2>2. Titled(js, Normalized[p.title]) \cap Refs(js) # {}
      BY <1>1, <2>1, TitledGrows
    <2> QED
      BY <1>2, <2>2 DEF Holds, Refs
  <1>3. CASE p.type = "NEEDS_HUMAN"
    <2>1. p.issue \in Existing(is) /\ is[p.issue].answers > 0
      BY <1>3 DEF Meant, Holds
    <2>2. js[p.issue].answers > 0
      BY <1>1, <2>1 DEF Grown
    <2> QED
      BY <1>3, <2>2 DEF Holds
  <1>4. CASE p.type \in IssuePatches
    <2>1. p.issue \in Existing(is) \ {Epic}
      BY <1>4, TargetIs
    <2>2. CASE p.type = "MERGE_DUPLICATE"
      <3>1. ~is[p.issue].open /\ is[p.issue].duplicate > 0
        BY <2>2 DEF Holds
      <3>2. ~js[p.issue].open /\ js[p.issue].duplicate > 0
        BY <1>1, <2>1, <3>1 DEF Grown
      <3> QED
        BY <2>2, <3>2 DEF Holds
    <2> DEFINE b == is[p.issue].body
               c == js[p.issue].body
    <2>8. p \in Spoken
      BY <1>1, <1>4
    <2>3. \/ c = b
          \/ \E w \in Spoken : /\ w.issue = p.issue /\ w.type \in IssuePatches
                               /\ BodyGoesOn(w, b, c) /\ (w.type = "SPLIT_ISSUE" => Holds(w, js))
      BY <2>1 DEF Moves
    <2>4. CASE p.type = "ENRICH_ISSUE"
      <3>1. b.section = p.goal
        BY <2>4 DEF Holds
      <3>2. c.section = p.goal
        BY <2>3, <2>4, <2>8, <3>1 DEF Coherent, BodyGoesOn
      <3> QED
        BY <2>4, <3>2 DEF Holds
    <2>5. CASE p.type = "ADD_DEPENDENCY"
      <3>1. p.on \in b.deps \cup b.free
        BY <2>5 DEF Holds, DependsAlready
      <3>2. p.on \in c.deps \cup c.free
        BY <2>3, <2>5, <2>8, <3>1 DEF Coherent, BodyGoesOn
      <3> QED
        BY <2>5, <3>2 DEF Holds, DependsAlready
    <2>6. CASE p.type = "REMOVE_DEPENDENCY"
      <3>1. p.on \notin b.deps
        BY <2>6 DEF Holds
      <3>2. p.on \notin c.deps
        BY <2>3, <2>6, <2>8, <3>1 DEF Coherent, BodyGoesOn
      <3> QED
        BY <2>6, <3>2 DEF Holds
    <2>7. CASE p.type = "SPLIT_ISSUE"
      <3>1. \A t \in ToSet(p.kids) : \E s \in b.split : s[1] \in Titled(is, Normalized[t]) \cap Refs(is)
        BY <2>7 DEF Holds, Refs
      <3>2. CASE c.split = b.split
        <4>1. \A t \in ToSet(p.kids) : \E s \in c.split : s[1] \in Titled(js, Normalized[t]) \cap Refs(js)
          BY <1>1, <3>1, <3>2, TitledGrows
        <4> QED
          BY <2>7, <4>1 DEF Holds, Refs
      <3>3. CASE c.split # b.split
        <4>1. PICK w \in Spoken : /\ w.issue = p.issue /\ w.type = "SPLIT_ISSUE" /\ Holds(w, js)
          BY <2>3, <3>3 DEF BodyGoesOn
        <4>2. w.kids = p.kids
          BY <2>7, <2>8, <4>1 DEF Coherent
        <4> QED
          BY <2>7, <4>1, <4>2 DEF Holds
      <3> QED
        BY <3>2, <3>3
    <2> QED
      BY <1>4, <2>2, <2>4, <2>5, <2>6, <2>7 DEF IssuePatches
  <1> QED
    BY <1>1, <1>2, <1>3, <1>4 DEF WorkTypes

\* No command mends ambiguous markers.
LEMMA GarbledStays ==
    ASSUME Coherent, NEW is, NEW js, Moves(is, js), NEW p, Meant(p, is), Garbled(p, is)
    PROVE  Garbled(p, js)
  <1>1. p.type = "ENRICH_ISSUE" /\ is[p.issue].body.section = Ambiguous
    BY DEF Garbled
  <1>2. p.issue \in Existing(is) \ {Epic}
    BY <1>1, TargetIs DEF IssuePatches
  <1>3. js[p.issue].body.section = Ambiguous
    BY <1>1, <1>2 DEF Moves, BodyGoesOn
  <1>4. p.issue \in Existing(js)
    BY <1>2 DEF Moves, Grown
  <1> QED
    BY <1>1, <1>3, <1>4 DEF Garbled

\* An entry that is true stays true.
LEMMA TruthStays ==
    ASSUME Coherent, NEW is, NEW js, Moves(is, js), NEW entries, TellTruth(entries, is)
    PROVE  TellTruth(entries, js)
  <1>1. Grown(is, js)
    BY DEF Moves
  <1>2. ASSUME NEW e \in entries, e.status \in {"applied", "idempotent"}
        PROVE  Meant(e.patch, is) /\ Meant(e.patch, js)
    BY <1>1, <1>2 DEF TellTruth, Meant, Grown
  <1>3. ASSUME NEW e \in entries, e.status = "idempotent", ~Skipped(e.patch, js)
        PROVE  ~Skipped(e.patch, is)
    <2>1. e.patch.type \in Simple => e.patch.issue \in Existing(is) /\ ~(~is[e.patch.issue].open)
      BY <1>1, <1>2, <1>3 DEF Meant, Simple, Skipped, Grown
    <2>2. Meant(e.patch, is)
      BY <1>2, <1>3
    <2>3. ~Garbled(e.patch, is)
      BY <1>3, <2>2, GarbledStays DEF Skipped
    <2> QED
      BY <2>1, <2>3 DEF Skipped
  <1>4. ASSUME NEW e \in entries,
               e.status = "applied" \/ (e.status = "idempotent" /\ ~Skipped(e.patch, js))
        PROVE  Holds(e.patch, js)
    <2>1. Holds(e.patch, is)
      BY <1>3, <1>4 DEF TellTruth
    <2> QED
      BY <1>2, <1>4, <2>1, HoldsOn
  <1> QED
    BY <1>2, <1>4 DEF TellTruth

(***************************************************************************)
(* What the requests do to issues of which nothing false is known.         *)
(***************************************************************************)
LEMMA EpicIsThere ==
    ASSUME Coherent, Inv
    PROVE  /\ Epic \in Existing(issues) /\ ProperIssues(issues)
           /\ Existing(Backlog) \subseteq Existing(issues)
  BY DEF Coherent, Inv, Types

LEMMA CountsAreNumbers ==
    ASSUME NEW is, ProperIssues(is), NEW n \in Existing(is)
    PROVE  is[n].duplicate \in Nat /\ is[n].answers \in Nat
  BY IssueOrNot, ExistingIsFinite DEF IsIssue

LEMMA SameMoves ==
    ASSUME NEW is, ProperIssues(is)
    PROVE  Moves(is, is)
  BY CountsAreNumbers DEF Moves, Grown

\* All but the bodies of some issues go on as they are, or grow.
LEMMA SoundOn ==
    ASSUME NEW is, NEW js, Sound(is), Grown(is, js), Existing(Backlog) \subseteq Existing(is),
           \A n \in Existing(js) \ Existing(is) :
              js[n].open /\ DOMAIN js[n].body = BodyFields /\ js[n].body.links = {} /\ js[n].body.split = {},
           \A n \in Existing(is) :
              /\ DOMAIN js[n].body = BodyFields
              /\ n # Epic =>
                    /\ js[n].body.links = is[n].body.links
                    /\ \A s \in js[n].body.split :
                          \/ s \in is[n].body.split
                          \/ s = <<s[1], s[2]>> /\ s[1] \in Titled(js, Normalized[s[2]]) \cap Refs(js)
              /\ \/ js[n].open = is[n].open
                 \/ /\ js[n].duplicate > 0
                    /\ \E q \in Spoken : q.type = "MERGE_DUPLICATE" /\ q.issue = n
    PROVE  Sound(js)
  <1>1. GrownFrom(js)
    BY DEF Sound, GrownFrom, Grown
  <1>2. ClosedForReason(js)
    <2>1. SUFFICES ASSUME NEW n \in Existing(js), ~js[n].open
                   PROVE  \/ n \in Existing(Backlog) /\ ~Backlog[n].open
                          \/ /\ js[n].duplicate > 0
                             /\ \E q \in Spoken : q.type = "MERGE_DUPLICATE" /\ q.issue = n
      BY DEF ClosedForReason
    <2>2. n \in Existing(is)
      BY <2>1
    <2>3. CASE js[n].open = is[n].open
      <3>1. \/ n \in Existing(Backlog) /\ ~Backlog[n].open
            \/ /\ is[n].duplicate > 0
               /\ \E q \in Spoken : q.type = "MERGE_DUPLICATE" /\ q.issue = n
        BY <2>1, <2>2, <2>3 DEF Sound, ClosedForReason
      <3>2. is[n].duplicate > 0 => js[n].duplicate > 0
        BY <2>2 DEF Grown
      <3> QED
        BY <3>1, <3>2
    <2> QED
      BY <2>2, <2>3
  <1>3. ListsAreTrue(js)
    <2>1. SUFFICES ASSUME NEW n \in Existing(js)
                   PROVE  /\ DOMAIN js[n].body = BodyFields
                          /\ n # Epic =>
                                /\ js[n].body.links = {}
                                /\ \A s \in js[n].body.split :
                                      s = <<s[1], s[2]>> /\ s[1] \in Titled(js, Normalized[s[2]]) \cap Refs(js)
      BY DEF ListsAreTrue
    <2>2. CASE n \in Existing(is)
      <3>1. n # Epic => /\ is[n].body.links = {}
                        /\ \A s \in is[n].body.split :
                              s = <<s[1], s[2]>> /\ s[1] \in Titled(js, Normalized[s[2]]) \cap Refs(js)
        BY <2>2, TitledGrows DEF Sound, ListsAreTrue
      <3> QED
        BY <2>2, <3>1
    <2>3. CASE n \notin Existing(is)
      BY <2>1, <2>3
    <2> QED
      BY <2>2, <2>3
  <1> QED
    BY <1>1, <1>2, <1>3 DEF Sound

\* A field of an issue is written.
Written(is, js, n, f, value) ==
    /\ ProperIssues(js) /\ Existing(js) = Existing(is)
    /\ \A m \in Existing(is) :
          /\ js[m].title = is[m].title /\ js[m].open = is[m].open
          /\ js[m].duplicate = is[m].duplicate /\ js[m].answers = is[m].answers
          /\ js[m].body = IF m = n /\ f = "body" THEN value ELSE is[m].body

LEMMA FieldWritten ==
    ASSUME NEW is, ProperIssues(is), NEW n \in Existing(is), NEW f \in {"body", "labels"}, NEW value,
           NEW js, js = [is EXCEPT ![n] = [is[n] EXCEPT ![f] = value]]
    PROVE  Written(is, js, n, f, value)
  <1>1. IsIssue(is[n]) /\ n \in IssueNumbers
    BY IssueOrNot, ExistingIsFinite
  <1> DEFINE issue == [is[n] EXCEPT ![f] = value]
  <1>2. /\ IsIssue(issue) /\ issue.title = is[n].title /\ issue.open = is[n].open
        /\ issue.duplicate = is[n].duplicate /\ issue.answers = is[n].answers
        /\ issue.body = IF f = "body" THEN value ELSE is[n].body
    BY <1>1 DEF IsIssue
  <1>3. js = [is EXCEPT ![n] = issue]
    OBVIOUS
  <1> HIDE DEF issue
  <1>4. js[n] = issue /\ \A m \in IssueNumbers \ {n} : js[m] = is[m]
    BY <1>1, <1>3 DEF ProperIssues
  <1>5. ProperIssues(js) /\ Existing(js) = Existing(is)
    BY ONLY <1>2, <1>3, ProperIssues(is), n \in Existing(is), OneReplaced
  <1>6. ASSUME NEW m \in Existing(is)
        PROVE  /\ js[m].title = is[m].title /\ js[m].open = is[m].open
               /\ js[m].duplicate = is[m].duplicate /\ js[m].answers = is[m].answers
               /\ js[m].body = IF m = n /\ f = "body" THEN value ELSE is[m].body
    <2>1. CASE m = n
      BY <1>2, <1>4, <2>1
    <2>2. CASE m # n
      BY <1>4, <1>6, <2>2, ExistingIsFinite
    <2> QED
      BY <2>1, <2>2
  <1> QED
    BY <1>5, <1>6 DEF Written

LEMMA BodyWritten ==
    ASSUME NEW is, ProperIssues(is), NEW n \in Existing(is), NEW body,
           NEW js, js = UpdateIssueBody(is, n, body)
    PROVE  Written(is, js, n, "body", body)
  <1>1. js = [is EXCEPT ![n] = [is[n] EXCEPT !["body"] = body]]
    BY DEF UpdateIssueBody
  <1> QED
    BY <1>1, FieldWritten

\* The body of an issue of the epic is written for a patch.
LEMMA PatchedMoves ==
    ASSUME Coherent, NEW is, ProperIssues(is), Sound(is), Epic \in Existing(is),
           Existing(Backlog) \subseteq Existing(is),
           NEW w \in Spoken, w.type \in IssuePatches, w.issue \in Existing(is) \ {Epic},
           NEW body, DOMAIN body = BodyFields, body.links = is[w.issue].body.links,
           BodyGoesOn(w, is[w.issue].body, body),
           NEW js, js = UpdateIssueBody(is, w.issue, body), w.type = "SPLIT_ISSUE" => Holds(w, js),
           \A s \in body.split :
              \/ s \in is[w.issue].body.split
              \/ s = <<s[1], s[2]>> /\ s[1] \in Titled(is, Normalized[s[2]]) \cap Refs(is)
    PROVE  ProperIssues(js) /\ Moves(is, js) /\ Sound(js)
  <1>1. /\ ProperIssues(js) /\ Existing(js) = Existing(is)
        /\ \A m \in Existing(is) :
              /\ js[m].title = is[m].title /\ js[m].open = is[m].open
              /\ js[m].duplicate = is[m].duplicate /\ js[m].answers = is[m].answers
              /\ js[m].body = IF m = w.issue THEN body ELSE is[m].body
    BY BodyWritten DEF Written
  <1>2. Refs(js) = Refs(is)
    BY <1>1 DEF Refs
  <1>3. Grown(is, js)
    BY <1>1, <1>2, CountsAreNumbers DEF Grown
  <1>4. Moves(is, js)
    BY <1>1, <1>3 DEF Moves
  <1>5. ASSUME NEW n \in Existing(is)
        PROVE  /\ DOMAIN js[n].body = BodyFields
               /\ n # Epic =>
                     /\ js[n].body.links = is[n].body.links
                     /\ \A s \in js[n].body.split :
                           \/ s \in is[n].body.split
                           \/ s = <<s[1], s[2]>> /\ s[1] \in Titled(js, Normalized[s[2]]) \cap Refs(js)
    <2>1. DOMAIN is[n].body = BodyFields
      BY DEF Sound, ListsAreTrue
    <2>2. CASE n = w.issue
      BY <1>1, <1>3, <2>2, TitledGrows
    <2>3. CASE n # w.issue
      BY <1>1, <2>1, <2>3
    <2> QED
      BY <2>2, <2>3
  <1>6. Sound(js)
    BY <1>1, <1>3, <1>5, SoundOn
  <1> QED
    BY <1>1, <1>4, <1>6

\* An issue is linked to the epic.
LEMMA LinkMoves ==
    ASSUME Coherent, NEW is, ProperIssues(is), Sound(is), Epic \in Existing(is),
           Existing(Backlog) \subseteq Existing(is),
           NEW link, NEW js,
           js = UpdateIssueBody(is, Epic, [is[Epic].body EXCEPT !.links = @ \cup {link}])
    PROVE  /\ ProperIssues(js) /\ Moves(is, js) /\ Sound(js) /\ link[1] \in Refs(js)
           /\ \A n \in Existing(is) \ {Epic} : js[n].body = is[n].body
           /\ \A title : Titled(js, title) = Titled(is, title)
  <1> DEFINE body == [is[Epic].body EXCEPT !.links = @ \cup {link}]
  <1>1. /\ DOMAIN body = BodyFields /\ body.links = is[Epic].body.links \cup {link}
        /\ body.split = is[Epic].body.split /\ body.deps = is[Epic].body.deps
    BY DEF Sound, ListsAreTrue, BodyFields, PlainBody
  <1>2. js = UpdateIssueBody(is, Epic, body)
    OBVIOUS
  <1> HIDE DEF body
  <1>3. /\ ProperIssues(js) /\ Existing(js) = Existing(is)
        /\ \A m \in Existing(is) :
              /\ js[m].title = is[m].title /\ js[m].open = is[m].open
              /\ js[m].duplicate = is[m].duplicate /\ js[m].answers = is[m].answers
              /\ js[m].body = IF m = Epic THEN body ELSE is[m].body
    <2>1. Written(is, js, Epic, "body", body)
      BY <1>2, BodyWritten
    <2> QED
      BY <2>1 DEF Written
  <1>10. js[Epic].body = body
    BY <1>3
  <1>4. Refs(is) \subseteq Refs(js) /\ link[1] \in Refs(js)
    BY <1>1, <1>10 DEF Refs, CollectEpicIssueRefs, Listed
  <1>11. ASSUME NEW m \in Existing(is)
         PROVE  /\ is[m].duplicate \in Nat /\ js[m].duplicate = is[m].duplicate
                /\ is[m].answers \in Nat /\ js[m].answers = is[m].answers
    BY <1>3, CountsAreNumbers
  <1>5. Grown(is, js)
    BY ONLY <1>3, <1>4, <1>11 DEF Grown
  <1>6. Moves(is, js)
    BY <1>3, <1>5 DEF Moves
  <1>7. \A n \in Existing(is) : DOMAIN js[n].body = BodyFields
    BY <1>1, <1>3 DEF Sound, ListsAreTrue
  <1>8. Sound(js)
    BY <1>3, <1>5, <1>7, SoundOn
  <1>9. \A title : Titled(js, title) = Titled(is, title)
    BY <1>3 DEF Titled
  <1> QED
    BY <1>3, <1>4, <1>6, <1>8, <1>9

\* A request that leaves all bodies.
LEMMA BodiesStay ==
    ASSUME NEW is, ProperIssues(is), Sound(is), Epic \in Existing(is),
           Existing(Backlog) \subseteq Existing(is), NEW js, ProperIssues(js),
           Existing(js) = Existing(is),
           \A m \in Existing(is) :
              /\ js[m].title = is[m].title /\ js[m].body = is[m].body
              /\ is[m].duplicate <= js[m].duplicate /\ is[m].answers <= js[m].answers
              /\ js[m].open => is[m].open
              /\ \/ js[m].open = is[m].open
                 \/ /\ js[m].duplicate > 0
                    /\ \E q \in Spoken : q.type = "MERGE_DUPLICATE" /\ q.issue = m
    PROVE  Moves(is, js) /\ Sound(js)
  <1>1. Refs(js) = Refs(is)
    BY DEF Refs
  <1>2. Grown(is, js)
    BY <1>1, CountsAreNumbers DEF Grown
  <1>3. Moves(is, js)
    BY <1>2 DEF Moves
  <1>4. \A n \in Existing(is) : DOMAIN js[n].body = BodyFields
    BY DEF Sound, ListsAreTrue
  <1>5. Sound(js)
    BY <1>2, <1>4, SoundOn
  <1> QED
    BY <1>3, <1>5

(***************************************************************************)
(* What the reports said goes on to be true, and what is added to them is. *)
(***************************************************************************)
LEMMA MeantOn ==
    ASSUME NEW is, NEW js, Moves(is, js), NEW p, Meant(p, is)
    PROVE  Meant(p, js)
  BY DEF Moves, Grown, Meant

LEMMA SaidBefore ==
    ASSUME Coherent, Truth, applied' = applied, Moves(issues, issues')
    PROVE  /\ \A id \in DOMAIN applied' : TellTruth(applied'[id], issues')
           /\ Applying => TellTruth(cli.entries, issues')
  BY TruthStays DEF Truth

\* The command goes on with the patch.
LEMMA GoesOnTrue ==
    ASSUME Coherent, Truth, Quiet, Applying, Moves(issues, issues'), Sound(issues'),
           cli'.entries = cli.entries, AboutToWrite'
    PROVE  Truth'
  BY SaidBefore DEF Truth, Quiet

LEMMA SamePlaceTrue ==
    ASSUME Coherent, Inv, Truth, Quiet, issues' = issues, Applying,
           cli'.entries = cli.entries, AboutToWrite'
    PROVE  Truth'
  <1>1. Moves(issues, issues') /\ Sound(issues')
    BY SameMoves DEF Inv, Types, Truth
  <1> QED
    BY <1>1, GoesOnTrue

LEMMA EntryIs ==
    ASSUME DOMAIN cli = CliFields, NEW status
    PROVE  Recorded(status).entries = cli.entries \cup {[patch |-> Patch, status |-> status]}
  BY DEF Recorded, CliFields

LEMMA NoPatchAhead ==
    ASSUME cli'.at \in {"idle", "session", "next", "saving", "pointing"},
           cli'.at = "next" => cli'.kids = <<>>
    PROVE  AboutToWrite'
  BY DEF AboutToWrite, PatchPlaces, WritePlaces, ChildPlaces

\* The patch gets its entry.
LEMMA RecordedTrue ==
    ASSUME Coherent, Inv, Truth, Quiet, Moves(issues, issues'), Sound(issues'), cli.at \in ApplyPlaces,
           NEW status, cli' = Recorded(status),
           status \in {"applied", "idempotent"} => Meant(Patch, issues'),
           status = "applied" \/ (status = "idempotent" /\ ~Skipped(Patch, issues'))
              => Holds(Patch, issues')
    PROVE  Truth'
  <1>1. DOMAIN cli = CliFields
    BY AtProper DEF Inv, Types
  <1>2. /\ cli'.entries = cli.entries \cup {[patch |-> Patch, status |-> status]}
        /\ cli'.at = "next" /\ cli'.kids = <<>>
    BY <1>1, EntryIs, RecordedIs
  <1>3. Applying
    BY DEF Applying, ApplyPlaces, PatchPlaces, WritePlaces
  <1>4. /\ TellTruth(cli.entries, issues')
        /\ \A id \in DOMAIN applied' : TellTruth(applied'[id], issues')
    BY <1>3, SaidBefore DEF Quiet
  <1>5. TellTruth(cli'.entries, issues')
    <2>1. SUFFICES ASSUME NEW e \in cli'.entries
                   PROVE  /\ e.status \in {"applied", "idempotent"} => Meant(e.patch, issues')
                          /\ e.status = "applied" \/ (e.status = "idempotent" /\ ~Skipped(e.patch, issues'))
                                => Holds(e.patch, issues')
      BY DEF TellTruth
    <2>2. CASE e \in cli.entries
      BY <1>4, <2>2 DEF TellTruth
    <2>3. CASE e = [patch |-> Patch, status |-> status]
      <3>1. e.patch = Patch /\ e.status = status
        BY <2>3
      <3> QED
        BY <3>1
    <2> QED
      BY <1>2, <2>1, <2>2, <2>3
  <1>6. AboutToWrite'
    BY <1>2, NoPatchAhead
  <1> QED
    BY <1>4, <1>5, <1>6 DEF Truth

\* The patch is given up, or put to the operator.
LEMMA NothingSaid ==
    ASSUME Coherent, Inv, Truth, Quiet, Moves(issues, issues'), Sound(issues'), cli.at \in ApplyPlaces,
           NEW status \in {"failed", "approval", "user", "preview"}, cli' = Recorded(status)
    PROVE  Truth'
  <1>1. status \notin {"applied", "idempotent"}
    OBVIOUS
  <1> QED
    BY <1>1, RecordedTrue

LEMMA NothingDone ==
    ASSUME Coherent, Inv, Truth, Quiet, issues' = issues, cli.at \in ApplyPlaces,
           NEW status \in {"failed", "approval", "user", "preview"}, cli' = Recorded(status)
    PROVE  Truth'
  <1>1. Moves(issues, issues') /\ Sound(issues')
    BY SameMoves DEF Inv, Types, Truth
  <1> QED
    BY <1>1, NothingSaid

LEMMA PatchMeant ==
    ASSUME Truth, cli.at \in PatchPlaces, Patch.type # "CREATE_ISSUE" => Patch.issue \in Existing(issues)
    PROVE  Meant(Patch, issues)
  BY DEF Truth, AboutToWrite, Meant

\* What is found done is so.
LEMMA FoundTitle ==
    ASSUME Coherent, Inv, Truth, NEW p \in Spoken, p.type = "CREATE_ISSUE", ExistsLinked(p.title)
    PROVE  Holds(p, issues)
  <1> DEFINE n == FindIssueByTitle(issues, Normalized[p.title])
  <1>1. n # Nothing /\ Linked(n)
    BY DEF ExistsLinked
  <1>2. n \in Titled(issues, Normalized[p.title])
    BY <1>1, SearchFinds
  <1>3. n # Epic
    <2>1. SUFFICES ASSUME n = Epic PROVE FALSE
      OBVIOUS
    <2>2. issues[Epic].title = Normalized[p.title]
      BY <1>2, <2>1 DEF Titled
    <2>3. Epic \in Existing(Backlog) /\ Backlog[Epic].title = Normalized[p.title]
      BY <2>2 DEF Truth, Sound, GrownFrom, Coherent
    <2> QED
      BY <2>3 DEF Coherent, Titled
  <1> HIDE DEF n
  <1>4. n \in CollectEpicIssueRefs(issues[Epic].body)
    BY <1>1, <1>3 DEF Linked
  <1> QED
    BY <1>2, <1>4 DEF Holds

LEMMA DoneHolds ==
    ASSUME Coherent, Inv, Truth, NEW p, Meant(p, issues), Done(p), p.type # "NEEDS_HUMAN"
    PROVE  Holds(p, issues)
  <1>1. p \in Spoken /\ p.type \in IssuePatches \cup {"CREATE_ISSUE"}
    BY DEF Meant, Asked, WorkTypes
  <1>2. CASE p.type = "CREATE_ISSUE"
    BY <1>1, <1>2, FoundTitle DEF Done
  <1>3. ASSUME p.type \in IssuePatches
        PROVE  p.issue \in Existing(issues) \ {Epic} /\ p.issue \in IssueNumbers
    BY <1>3, TargetIs, ExistingIsFinite
  <1>4. CASE p.type = "ENRICH_ISSUE"
    BY <1>4 DEF Done, Holds
  <1>5. CASE p.type = "ADD_DEPENDENCY"
    BY <1>5 DEF Done, Holds
  <1>6. CASE p.type = "REMOVE_DEPENDENCY"
    BY <1>6 DEF Done, Holds, DependsAlready
  <1>7. CASE p.type = "SPLIT_ISSUE"
    <2> DEFINE b == issues[p.issue].body
    <2>1. ToSet(p.kids) \subseteq {s[2] : s \in b.split \cup b.links}
      BY <1>7 DEF Done, SplitAlreadyApplied
    <2>2. /\ b.links = {}
          /\ \A s \in b.split : s = <<s[1], s[2]>> /\ s[1] \in Titled(issues, Normalized[s[2]]) \cap Refs(issues)
      BY <1>3, <1>7 DEF IssuePatches, Truth, Sound, ListsAreTrue
    <2>3. ASSUME NEW t \in ToSet(p.kids)
          PROVE  \E s \in b.split : s[1] \in Titled(issues, Normalized[t]) \cap Refs(issues)
      <3>1. PICK s \in b.split : s[2] = t
        BY <2>1, <2>2
      <3> QED
        BY <2>2, <3>1
    <2> QED
      BY <1>7, <2>3 DEF Holds, Refs
  <1>8. CASE p.type = "MERGE_DUPLICATE"
    <2>1. ~issues[p.issue].open
      BY <1>8 DEF Done
    <2>2. p.issue \in Existing(Backlog) => Backlog[p.issue].open
      BY <1>1, <1>8 DEF Coherent
    <2>3. issues[p.issue].duplicate > 0
      BY <1>3, <1>8, <2>1, <2>2 DEF IssuePatches, Truth, Sound, ClosedForReason
    <2> QED
      BY <1>8, <2>1, <2>3 DEF Holds
  <1> QED
    BY <1>1, <1>2, <1>4, <1>5, <1>6, <1>7, <1>8 DEF IssuePatches

-----------------------------------------------------------------------------
(***************************************************************************)
(* The decision, and the writes about an issue.                            *)
(***************************************************************************)
LEMMA StillThePatch ==
    ASSUME Inv, Quiet, cli.at \in ApplyPlaces, DOMAIN cli' = CliFields,
           cli'.id = cli.id, cli'.todo = cli.todo
    PROVE  Patch' = Patch
  BY SamePatch DEF Quiet

\* The command goes to a place from which it has to look at the issues again.
LEMMA LooksAgain ==
    ASSUME Coherent, Inv, Truth, Quiet, issues' = issues, cli.at \in ApplyPlaces,
           DOMAIN cli' = CliFields, cli'.at \in {"preparing", "deciding", "reading", "commenting"},
           cli'.id = cli.id, cli'.todo = cli.todo, cli'.entries = cli.entries,
           cli'.at = "commenting" \/ (cli.at \in {"next", "preparing", "deciding"} /\ cli'.kids = cli.kids),
           Asked(Patch)
    PROVE  Truth'
  <1>1. Patch' = Patch
    BY StillThePatch
  <1>2. AboutToWrite'
    BY <1>1 DEF Truth, AboutToWrite, ChildPlaces
  <1>3. Applying
    BY DEF Applying, ApplyPlaces, PatchPlaces, WritePlaces
  <1> QED
    BY <1>2, <1>3, SamePlaceTrue

LEMMA NextPatchTrue ==
    ASSUME Coherent, Inv, Truth, NextPatch
    PROVE  Truth'
  <1>1. /\ cli.at = "next" /\ cli.todo # {} /\ cli.at \in ApplyPlaces
        /\ DOMAIN cli = CliFields
    BY AtProper DEF NextPatch, Inv, Types, ApplyPlaces
  <1>2. CASE ~(AutoSafe(Patch) \/ Offerable(Patch))
    <2>1. Quiet /\ issues' = issues /\ cli' = Recorded("approval")
      BY <1>2, GoesIsQuiet DEF NextPatch
    <2> QED
      BY <1>1, <2>1, NothingDone
  <1>3. CASE AutoSafe(Patch) \/ Offerable(Patch)
    <2>1. Quiet /\ issues' = issues /\ cli' = At("preparing")
      BY <1>3, GoesIsQuiet DEF NextPatch
    <2>2. Patch \in Patches
      BY <1>1, PatchIsThere DEF Inv
    <2>3. Patch.type \in WorkTypes
      BY <1>3 DEF AutoSafe, Offerable, WorkTypes, IssuePatches
    <2>4. Asked(Patch)
      BY <2>2, <2>3, WorkIsSpoken
    <2>5. /\ DOMAIN cli' = CliFields /\ cli'.at = "preparing" /\ cli'.id = cli.id
          /\ cli'.todo = cli.todo /\ cli'.entries = cli.entries /\ cli'.kids = cli.kids
      BY <1>1, <2>1, AtIs DEF CliFields
    <2> QED
      BY <1>1, <2>1, <2>3, <2>4, <2>5, LooksAgain
  <1> QED
    BY <1>2, <1>3

\* A patch that is done or needs nothing is reported as such.
LEMMA FoundDone ==
    ASSUME Coherent, Inv, Truth, Quiet, issues' = issues, cli.at \in PatchPlaces,
           cli' = Recorded("idempotent"), Patch.type # "NEEDS_HUMAN",
           Patch.type # "CREATE_ISSUE" => Patch.issue \in Existing(issues),
           Done(Patch) \/ KeepsClosed(Patch) \/ Garbled(Patch, issues)
    PROVE  Truth'
  <1>1. Meant(Patch, issues)
    BY PatchMeant
  <1>2. ~Skipped(Patch, issues) => Holds(Patch, issues)
    BY <1>1, DoneHolds DEF Skipped, KeepsClosed, Simple
  <1>3. Moves(issues, issues') /\ Sound(issues') /\ cli.at \in ApplyPlaces
    BY SameMoves, PlacesDiffer DEF Inv, Types, Truth
  <1> QED
    BY <1>1, <1>2, <1>3, RecordedTrue

LEMMA PrepareTrue ==
    ASSUME Coherent, Inv, Truth, Prepare
    PROVE  Truth'
  <1>1. /\ cli.at = "preparing" /\ cli.at \in ApplyPlaces /\ cli.at \in PatchPlaces
        /\ DOMAIN cli = CliFields
    BY AtProper DEF Prepare, Inv, Types, ApplyPlaces, PatchPlaces
  <1>2. ASSUME Quiet, issues' = issues, cli' = At("deciding")
        PROVE  Truth'
    <2>1. /\ DOMAIN cli' = CliFields /\ cli'.at = "deciding" /\ cli'.id = cli.id
          /\ cli'.todo = cli.todo /\ cli'.entries = cli.entries /\ cli'.kids = cli.kids
      BY <1>1, <1>2, AtIs DEF CliFields
    <2>2. Asked(Patch)
      BY <1>1 DEF Truth, AboutToWrite
    <2> QED
      BY <1>1, <1>2, <2>1, <2>2, LooksAgain
  <1>3. CASE Patch.type = "NEEDS_HUMAN"
    <2>1. Quiet /\ issues' = issues /\ (cli' = Recorded("approval") \/ cli' = At("deciding"))
      BY <1>3, GoesIsQuiet DEF Prepare
    <2> QED
      BY <1>1, <1>2, <2>1, NothingDone
  <1>4. CASE Patch.type # "NEEDS_HUMAN" /\ Missing(Patch)
    <2>1. Quiet /\ issues' = issues /\ cli' = Recorded("failed")
      BY <1>4, GoesIsQuiet DEF Prepare, Failed
    <2> QED
      BY <1>1, <2>1, NothingDone
  <1>5. CASE Patch.type # "NEEDS_HUMAN" /\ ~Missing(Patch)
    <2>1. /\ Quiet /\ issues' = issues
          /\ \/ cli' = Recorded("failed") \/ cli' = At("deciding")
             \/ cli' = Recorded("idempotent") /\ (Done(Patch) \/ KeepsClosed(Patch) \/ Garbled(Patch, issues))
      BY <1>5, ReadIsQuiet DEF Prepare, Failed
    <2>2. CASE cli' = Recorded("failed")
      BY <1>1, <2>1, <2>2, NothingDone
    <2>3. CASE cli' = At("deciding")
      BY <1>2, <2>1, <2>3
    <2>4. CASE cli' = Recorded("idempotent") /\ (Done(Patch) \/ KeepsClosed(Patch) \/ Garbled(Patch, issues))
      BY <1>1, <1>5, <2>1, <2>4, FoundDone DEF Missing
    <2> QED
      BY <2>1, <2>2, <2>3, <2>4
  <1> QED
    BY <1>3, <1>4, <1>5

LEMMA DecideTrue ==
    ASSUME Coherent, Inv, Truth, DecideAlone \/ Menu
    PROVE  Truth'
  <1>1. /\ cli.at = "deciding" /\ cli.at \in ApplyPlaces /\ cli.at \in PatchPlaces
        /\ DOMAIN cli = CliFields
    BY AtProper DEF DecideAlone, Menu, Inv, Types, ApplyPlaces, PatchPlaces
  <1>2. Asked(Patch)
    BY <1>1 DEF Truth, AboutToWrite
  <1>3. ASSUME NEW status \in {"approval", "user", "preview"}, Goes(Recorded(status))
        PROVE  Truth'
    <2>1. Quiet /\ issues' = issues /\ cli' = Recorded(status)
      BY <1>3, GoesIsQuiet
    <2> QED
      BY <1>1, <2>1, NothingDone
  <1>4. ASSUME NEW next, Goes(next), DOMAIN next = CliFields, next.at = "reading",
               next.id = cli.id, next.todo = cli.todo, next.entries = cli.entries,
               next.kids = cli.kids
        PROVE  Truth'
    <2>1. Quiet /\ issues' = issues /\ cli' = next
      BY <1>4, GoesIsQuiet
    <2> QED
      BY <1>1, <1>2, <1>4, <2>1, LooksAgain
  <1>5. ASSUME Goes(At("reading")) PROVE Truth'
    <2>1. /\ DOMAIN At("reading") = CliFields /\ At("reading").at = "reading"
          /\ At("reading").id = cli.id /\ At("reading").todo = cli.todo
          /\ At("reading").entries = cli.entries /\ At("reading").kids = cli.kids
      BY <1>1 DEF At, CliFields
    <2> QED
      BY <1>4, <1>5, <2>1
  <1>6. ASSUME NEW all,
               Goes([cli EXCEPT !.at = "reading", !.consented = TRUE, !.all = all])
        PROVE  Truth'
    <2> DEFINE next == [cli EXCEPT !.at = "reading", !.consented = TRUE, !.all = all]
    <2>1. /\ DOMAIN next = CliFields /\ next.at = "reading" /\ next.id = cli.id
          /\ next.todo = cli.todo /\ next.entries = cli.entries /\ next.kids = cli.kids
      BY <1>1 DEF CliFields
    <2>2. Goes(next)
      BY <1>6
    <2> HIDE DEF next
    <2> QED
      BY <1>4, <2>1, <2>2
  <1>7. ASSUME Goes([cli EXCEPT !.at = "reading", !.consented = TRUE]) PROVE Truth'
    <2> DEFINE next == [cli EXCEPT !.at = "reading", !.consented = TRUE]
    <2>1. /\ DOMAIN next = CliFields /\ next.at = "reading" /\ next.id = cli.id
          /\ next.todo = cli.todo /\ next.entries = cli.entries /\ next.kids = cli.kids
      BY <1>1 DEF CliFields
    <2>2. Goes(next)
      BY <1>7
    <2> HIDE DEF next
    <2> QED
      BY <1>4, <2>1, <2>2
  <1>8. ASSUME Goes([cli EXCEPT !.at = "saving", !.aborted = TRUE]) PROVE Truth'
    <2> DEFINE next == [cli EXCEPT !.at = "saving", !.aborted = TRUE]
    <2>1. next.at = "saving" /\ next.entries = cli.entries
      BY <1>1 DEF CliFields
    <2>2. Goes(next)
      BY <1>8
    <2> HIDE DEF next
    <2>3. Quiet /\ issues' = issues /\ cli' = next
      BY <2>2, GoesIsQuiet
    <2>4. AboutToWrite' /\ Applying
      BY <1>1, <2>1, <2>3, NoPatchAhead DEF Applying
    <2> QED
      BY <2>1, <2>3, <2>4, SamePlaceTrue
  <1>9. CASE DecideAlone
    <2>1. \/ \E status \in {"approval", "preview"} : Goes(Recorded(status))
          \/ Goes(At("reading"))
      BY <1>9 DEF DecideAlone
    <2> QED
      BY <1>3, <1>5, <2>1
  <1>10. CASE Menu
    BY <1>3, <1>6, <1>7, <1>8, <1>10 DEF Menu
  <1> QED
    BY <1>9, <1>10

\* A request that, answered, leaves the patch applied.
LEMMA WriteApplied ==
    ASSUME Coherent, Inv, Truth, cli.at \in ApplyPlaces, Meant(Patch, issues),
           NEW after, Moves(issues, after), Sound(after), Holds(Patch, after),
           Write(after, Recorded("applied"), Recorded("failed"))
    PROVE  Truth'
  <1>1. /\ Quiet /\ issues' \in {issues, after}
        /\ \/ issues' = after /\ cli' = Recorded("applied")
           \/ cli' = Recorded("failed")
    BY WriteIsQuiet
  <1>2. Moves(issues, issues') /\ Sound(issues')
    BY <1>1, SameMoves DEF Inv, Types, Truth
  <1>3. CASE cli' = Recorded("failed")
    BY <1>1, <1>2, <1>3, NothingSaid
  <1>4. CASE issues' = after /\ cli' = Recorded("applied")
    <2>1. Meant(Patch, issues') /\ Holds(Patch, issues')
      BY <1>2, <1>4, MeantOn
    <2> QED
      BY <1>1, <1>2, <1>4, <2>1, RecordedTrue
  <1> QED
    BY <1>1, <1>3, <1>4

LEMMA PatchedIs ==
    ASSUME NEW b, DOMAIN b = BodyFields, NEW p, p.type \in Simple, NEW c, c = Patched(b, p),
           p.type = "ENRICH_ISSUE" => b.section # Ambiguous
    PROVE  /\ DOMAIN c = BodyFields /\ c.links = b.links /\ c.split = b.split
           /\ BodyGoesOn(p, b, c)
           /\ p.type = "ENRICH_ISSUE" => c.section = p.goal
           /\ p.type = "ADD_DEPENDENCY" => p.on \in c.deps
           /\ p.type = "REMOVE_DEPENDENCY" => p.on \notin c.deps
  <1>1. CASE p.type = "ENRICH_ISSUE"
    <2>1. c = [b EXCEPT !.section = p.goal]
      BY <1>1 DEF Patched
    <2> QED
      BY <1>1, <2>1 DEF BodyFields, PlainBody, BodyGoesOn
  <1>2. CASE p.type = "ADD_DEPENDENCY"
    <2>1. c = [b EXCEPT !.deps = @ \cup {p.on}]
      BY <1>2 DEF Patched
    <2> QED
      BY <1>2, <2>1 DEF BodyFields, PlainBody, BodyGoesOn
  <1>3. CASE p.type = "REMOVE_DEPENDENCY"
    <2>1. c = [b EXCEPT !.deps = @ \ {p.on}]
      BY <1>3 DEF Patched
    <2> QED
      BY <1>3, <2>1 DEF BodyFields, PlainBody, BodyGoesOn
  <1> QED
    BY <1>1, <1>2, <1>3 DEF Simple

\* The issue of the patch that is being written.
LEMMA IssueAtHand ==
    ASSUME Coherent, Inv, Truth, cli.at \in WritePlaces, Patch.type \in IssuePatches
    PROVE  /\ Patch.issue \in Existing(issues) \ {Epic} /\ Patch \in Spoken
           /\ Meant(Patch, issues) /\ DOMAIN issues[Patch.issue].body = BodyFields
           /\ ProperIssues(issues) /\ Sound(issues)
           /\ Epic \in Existing(issues) /\ Existing(Backlog) \subseteq Existing(issues)
  <1>1. cli.at \in PatchPlaces /\ Patch.issue \in Existing(issues)
    BY PlacesDiffer, IssueIsThere
  <1>2. Meant(Patch, issues)
    BY <1>1, PatchMeant
  <1>3. Patch.issue # Epic
    BY <1>2, TargetIs
  <1> QED
    BY <1>1, <1>2, <1>3, EpicIsThere DEF Truth, Sound, ListsAreTrue, Meant, Asked, IssuePatches

LEMMA WriteBodyTrue ==
    ASSUME Coherent, Inv, Truth, WriteBody
    PROVE  Truth'
  <1> DEFINE i == Patch.issue
             body == Patched(cli.seen, Patch)
             js == UpdateIssueBody(issues, i, body)
  <1>1. /\ cli.at = "writing" /\ cli.at \in WritePlaces /\ cli.at \in ApplyPlaces
        /\ Write(js, Recorded("applied"), Recorded("failed"))
    BY DEF WriteBody, Failed, WritePlaces, ApplyPlaces, PatchPlaces
  <1>2. Patch.type \in Simple /\ Patch.type \in IssuePatches /\ cli.seen = issues[i].body
    BY <1>1 DEF Truth, AboutToWrite, Simple, IssuePatches
  <1>3. /\ i \in Existing(issues) \ {Epic} /\ Patch \in Spoken /\ Meant(Patch, issues)
        /\ DOMAIN issues[i].body = BodyFields /\ ProperIssues(issues) /\ Sound(issues)
        /\ Epic \in Existing(issues) /\ Existing(Backlog) \subseteq Existing(issues)
    BY <1>1, <1>2, IssueAtHand
  <1>9. Patch.type = "ENRICH_ISSUE" => issues[i].body.section # Ambiguous
    BY <1>1, <1>3 DEF Truth, AboutToWrite, Garbled
  <1>4. /\ DOMAIN body = BodyFields /\ body.links = issues[i].body.links
        /\ body.split = issues[i].body.split /\ BodyGoesOn(Patch, issues[i].body, body)
        /\ Patch.type = "ENRICH_ISSUE" => body.section = Patch.goal
        /\ Patch.type = "ADD_DEPENDENCY" => Patch.on \in body.deps
        /\ Patch.type = "REMOVE_DEPENDENCY" => Patch.on \notin body.deps
    BY <1>2, <1>3, <1>9, PatchedIs
  <1> HIDE DEF body
  <1>5. Patch.type # "SPLIT_ISSUE"
    BY <1>2 DEF Simple
  <1>6. Moves(issues, js) /\ Sound(js)
    BY <1>2, <1>3, <1>4, <1>5, PatchedMoves
  <1>7. js[i].body = body
    BY <1>3, BodyWritten DEF Written
  <1>8. Holds(Patch, js)
    BY <1>2, <1>4, <1>7 DEF Holds, Simple, DependsAlready
  <1> HIDE DEF js
  <1> QED
    BY <1>1, <1>3, <1>6, <1>8, WriteApplied

LEMMA LabelStays ==
    ASSUME NEW is, ProperIssues(is), Sound(is), Epic \in Existing(is),
           Existing(Backlog) \subseteq Existing(is), NEW n \in Existing(is), NEW label,
           NEW js \in {AddLabel(is, n, label), RemoveLabel(is, n, label)}
    PROVE  Moves(is, js) /\ Sound(js)
  <1>1. PICK labels : js = [is EXCEPT ![n] = [is[n] EXCEPT !["labels"] = labels]]
    BY DEF AddLabel, RemoveLabel
  <1>2. Written(is, js, n, "labels", labels)
    BY <1>1, FieldWritten
  <1>3. /\ ProperIssues(js) /\ Existing(js) = Existing(is)
        /\ \A m \in Existing(is) :
              /\ js[m].title = is[m].title /\ js[m].open = is[m].open
              /\ js[m].duplicate = is[m].duplicate /\ js[m].answers = is[m].answers
              /\ js[m].body = is[m].body
    BY <1>2 DEF Written
  <1>4. \A m \in Existing(is) : is[m].duplicate <= js[m].duplicate /\ is[m].answers <= js[m].answers
    BY <1>3, CountsAreNumbers
  <1> QED
    BY ONLY <1>3, <1>4, BodiesStay, ProperIssues(is), Sound(is), Epic \in Existing(is),
            Existing(Backlog) \subseteq Existing(is)

LEMMA LabelTrue ==
    ASSUME Coherent, Inv, Truth, LabelSplit \/ UnlabelSplit
    PROVE  Truth'
  <1>1. /\ cli.at \in {"labelling", "unlabelling"} /\ cli.at \in WritePlaces
        /\ cli.at \in ApplyPlaces /\ DOMAIN cli = CliFields
    BY AtProper DEF LabelSplit, UnlabelSplit, Inv, Types, WritePlaces, ApplyPlaces, PatchPlaces
  <1>2. Patch.type = "SPLIT_ISSUE" /\ Patch.type \in IssuePatches /\ Holds(Patch, issues)
    BY <1>1 DEF Truth, AboutToWrite, IssuePatches
  <1>3. /\ Patch.issue \in Existing(issues) \ {Epic} /\ Patch \in Spoken /\ Meant(Patch, issues)
        /\ ProperIssues(issues) /\ Sound(issues)
        /\ Epic \in Existing(issues) /\ Existing(Backlog) \subseteq Existing(issues)
    BY <1>1, <1>2, IssueAtHand
  <1>4. PICK after : /\ Moves(issues, after) /\ Sound(after)
                     /\ \/ Write(after, At("unlabelling"), Recorded("applied"))
                        \/ Write(after, Recorded("applied"), Recorded("applied"))
    BY <1>3, LabelStays DEF LabelSplit, UnlabelSplit
  <1>5. /\ Quiet /\ Moves(issues, issues') /\ Sound(issues')
        /\ cli' = At("unlabelling") \/ cli' = Recorded("applied")
    BY <1>3, <1>4, WriteIsQuiet, SameMoves
  <1>6. Meant(Patch, issues') /\ Holds(Patch, issues')
    BY <1>2, <1>3, <1>5, MeantOn, HoldsOn
  <1>7. CASE cli' = Recorded("applied")
    BY <1>1, <1>5, <1>6, <1>7, RecordedTrue
  <1>8. CASE cli' = At("unlabelling")
    <2>1. /\ DOMAIN cli' = CliFields /\ cli'.at = "unlabelling" /\ cli'.id = cli.id
          /\ cli'.todo = cli.todo /\ cli'.entries = cli.entries
      BY <1>1, <1>8, AtIs DEF CliFields
    <2>2. Patch' = Patch
      BY <1>1, <1>5, <2>1, StillThePatch
    <2>3. AboutToWrite'
      BY <1>2, <1>3, <1>6, <2>1, <2>2 DEF AboutToWrite, ChildPlaces, Meant
    <2>4. Applying
      BY <1>1 DEF Applying
    <2> QED
      BY <1>5, <2>1, <2>3, <2>4, GoesOnTrue
  <1> QED
    BY <1>5, <1>7, <1>8

LEMMA CommentDuplicateTrue ==
    ASSUME Coherent, Inv, Truth, CommentDuplicateOf
    PROVE  Truth'
  <1> DEFINE i  == Patch.issue
             js == CommentDuplicate(issues, i)
  <1>1. /\ cli.at = "commenting" /\ Patch.type = "MERGE_DUPLICATE" /\ Patch.type \in IssuePatches
        /\ cli.at \in WritePlaces /\ cli.at \in ApplyPlaces /\ DOMAIN cli = CliFields
        /\ Write(js, At("closing"), Recorded("failed"))
    BY AtProper DEF CommentDuplicateOf, Failed, Inv, Types, WritePlaces, ApplyPlaces, PatchPlaces,
                    IssuePatches
  <1>2. /\ i \in Existing(issues) \ {Epic} /\ Patch \in Spoken /\ Meant(Patch, issues)
        /\ ProperIssues(issues) /\ Sound(issues)
        /\ Epic \in Existing(issues) /\ Existing(Backlog) \subseteq Existing(issues)
    BY <1>1, IssueAtHand
  <1>3. /\ ProperIssues(js) /\ Existing(js) = Existing(issues)
        /\ \A m \in Existing(issues) :
              /\ js[m].title = issues[m].title /\ js[m].answers = issues[m].answers
              /\ js[m].open = issues[m].open /\ js[m].body = issues[m].body
              /\ js[m].duplicate = IF m = i THEN issues[m].duplicate + 1 ELSE issues[m].duplicate
    BY <1>2, DuplicateNoted
  <1> HIDE DEF js
  <1>4. \A m \in Existing(issues) :
           issues[m].duplicate <= js[m].duplicate /\ issues[m].answers <= js[m].answers
    BY <1>2, <1>3, CountsAreNumbers
  <1>5. Moves(issues, js) /\ Sound(js)
    BY <1>2, <1>3, <1>4, BodiesStay
  <1>6. /\ Quiet /\ issues' \in {issues, js}
        /\ \/ issues' = js /\ cli' = At("closing")
           \/ cli' = Recorded("failed")
    BY <1>1, WriteIsQuiet
  <1>7. Moves(issues, issues') /\ Sound(issues')
    BY <1>2, <1>5, <1>6, SameMoves
  <1>8. CASE cli' = Recorded("failed")
    BY <1>1, <1>6, <1>7, <1>8, NothingSaid
  <1>9. CASE issues' = js /\ cli' = At("closing")
    <2>1. /\ DOMAIN cli' = CliFields /\ cli'.at = "closing" /\ cli'.id = cli.id
          /\ cli'.todo = cli.todo /\ cli'.entries = cli.entries
      BY <1>1, <1>9, AtIs DEF CliFields
    <2>2. Patch' = Patch
      BY <1>1, <1>6, <2>1, StillThePatch
    <2>3. issues'[i].duplicate > 0
      BY <1>2, <1>3, <1>9, CountsAreNumbers
    <2>4. AboutToWrite'
      BY <1>2, <2>1, <2>2, <2>3 DEF AboutToWrite, ChildPlaces, Meant
    <2>5. Applying
      BY <1>1 DEF Applying
    <2> QED
      BY <1>6, <1>7, <2>1, <2>4, <2>5, GoesOnTrue
  <1> QED
    BY <1>6, <1>8, <1>9

LEMMA CloseDuplicateTrue ==
    ASSUME Coherent, Inv, Truth, CloseDuplicate
    PROVE  Truth'
  <1> DEFINE i  == Patch.issue
             js == CloseIssue(issues, i)
  <1>1. /\ cli.at = "closing" /\ Patch.type = "MERGE_DUPLICATE" /\ Patch.type \in IssuePatches
        /\ cli.at \in WritePlaces /\ cli.at \in ApplyPlaces
        /\ Write(js, Recorded("applied"), Recorded("failed"))
    BY DEF CloseDuplicate, Failed, Inv, AboutToComment, WritePlaces, ApplyPlaces, PatchPlaces,
           IssuePatches
  <1>2. /\ i \in Existing(issues) \ {Epic} /\ Patch \in Spoken /\ Meant(Patch, issues)
        /\ ProperIssues(issues) /\ Sound(issues)
        /\ Epic \in Existing(issues) /\ Existing(Backlog) \subseteq Existing(issues)
    BY <1>1, IssueAtHand
  <1>3. issues[i].duplicate > 0
    BY <1>1 DEF Truth, AboutToWrite
  <1>4. /\ Alike(issues, js) /\ ~js[i].open
        /\ \A m \in Existing(issues) :
              js[m].body = issues[m].body /\ (m # i => js[m].open = issues[m].open)
    <2>1. IsIssue(issues[i]) /\ i \in IssueNumbers
      BY <1>2, IssueOrNot, ExistingIsFinite
    <2>2. /\ \A m \in IssueNumbers \ {i} : js[m] = issues[m]
          /\ js[i] = [issues[i] EXCEPT !.open = FALSE]
      BY <1>2, <2>1 DEF CloseIssue, ProperIssues
    <2>3. js[i].body = issues[i].body
      BY <2>1, <2>2 DEF IsIssue
    <2>4. Alike(issues, js) /\ ~js[i].open
      BY <1>2, CloseIsAlike
    <2> HIDE DEF js, i
    <2> QED
      BY <2>2, <2>3, <2>4, ExistingIsFinite
  <1> HIDE DEF js
  <1>5. \A m \in Existing(issues) :
           /\ js[m].duplicate = issues[m].duplicate /\ js[m].answers = issues[m].answers
           /\ issues[m].duplicate <= js[m].duplicate /\ issues[m].answers <= js[m].answers
    BY <1>2, <1>4, CountsAreNumbers DEF Alike
  <1>6. \A m \in Existing(issues) :
           \/ js[m].open = issues[m].open
           \/ /\ js[m].duplicate > 0
              /\ \E q \in Spoken : q.type = "MERGE_DUPLICATE" /\ q.issue = m
    BY <1>1, <1>2, <1>3, <1>4, <1>5
  <1>7. Moves(issues, js) /\ Sound(js)
    BY <1>2, <1>4, <1>5, <1>6, BodiesStay DEF Alike
  <1>8. Holds(Patch, js)
    BY <1>1, <1>2, <1>3, <1>4, <1>5 DEF Holds
  <1> QED
    BY <1>1, <1>2, <1>7, <1>8, WriteApplied

\* The answers to the questions.
LEMMA ReadAnswersTrue ==
    ASSUME Coherent, Inv, Truth, ReadAnswers
    PROVE  Truth'
  <1>1. /\ cli.at = "reading" /\ Patch.type = "NEEDS_HUMAN" /\ cli.at \in ApplyPlaces
        /\ cli.at \in PatchPlaces /\ DOMAIN cli = CliFields
    BY AtProper DEF ReadAnswers, Inv, Types, WritePlaces, ApplyPlaces, PatchPlaces
  <1>2. CASE Missing(Patch)
    <2>1. Quiet /\ issues' = issues /\ cli' = Recorded("failed")
      BY <1>2, GoesIsQuiet DEF ReadAnswers, Failed
    <2> QED
      BY <1>1, <2>1, NothingDone
  <1>3. CASE ~Missing(Patch)
    <2>1. /\ Quiet /\ issues' = issues
          /\ \/ cli' = Recorded("failed") \/ cli' = At("commenting")
             \/ cli' = Recorded("idempotent") /\ issues[Patch.issue].answers > 0
      BY <1>3, ReadIsQuiet DEF ReadAnswers, Failed
    <2>2. Meant(Patch, issues)
      BY <1>1, <1>3, PatchMeant DEF Missing
    <2>3. CASE cli' = Recorded("failed")
      BY <1>1, <2>1, <2>3, NothingDone
    <2>4. CASE cli' = At("commenting")
      <3>1. /\ DOMAIN cli' = CliFields /\ cli'.at = "commenting" /\ cli'.id = cli.id
            /\ cli'.todo = cli.todo /\ cli'.entries = cli.entries
        BY <1>1, <2>4, AtIs DEF CliFields
      <3> QED
        BY <1>1, <2>1, <2>2, <3>1, LooksAgain DEF Meant
    <2>5. CASE cli' = Recorded("idempotent") /\ issues[Patch.issue].answers > 0
      <3>1. Holds(Patch, issues) /\ Moves(issues, issues) /\ Sound(issues)
        BY <1>1, <2>5, SameMoves DEF Holds, Truth, Inv, Types
      <3> QED
        BY <1>1, <2>1, <2>2, <2>5, <3>1, RecordedTrue
    <2> QED
      BY <2>1, <2>3, <2>4, <2>5
  <1> QED
    BY <1>2, <1>3

LEMMA PostAnswersTrue ==
    ASSUME Coherent, Inv, Truth, PostAnswers
    PROVE  Truth'
  <1> DEFINE i  == Patch.issue
             js == CommentAnswers(issues, i)
  <1>1. /\ cli.at = "commenting" /\ Patch.type = "NEEDS_HUMAN" /\ cli.at \in PatchPlaces
        /\ cli.at \in WritePlaces /\ cli.at \in ApplyPlaces
        /\ Write(js, Recorded("applied"), Recorded("failed"))
    BY DEF PostAnswers, Failed, WritePlaces, ApplyPlaces, PatchPlaces
  <1>2. /\ i \in Existing(issues) /\ ProperIssues(issues) /\ Sound(issues) /\ Epic \in Existing(issues)
        /\ Existing(Backlog) \subseteq Existing(issues)
    BY <1>1, IssueIsThere, EpicIsThere DEF Truth
  <1>3. Meant(Patch, issues)
    BY <1>1, <1>2, PatchMeant
  <1>4. /\ ProperIssues(js) /\ Existing(js) = Existing(issues)
        /\ \A m \in Existing(issues) :
              /\ js[m].title = issues[m].title /\ js[m].duplicate = issues[m].duplicate
              /\ js[m].open = issues[m].open /\ js[m].body = issues[m].body
              /\ js[m].answers = IF m = i THEN issues[m].answers + 1 ELSE issues[m].answers
    BY <1>2, AnswersNoted
  <1> HIDE DEF js
  <1>5. \A m \in Existing(issues) :
           issues[m].duplicate <= js[m].duplicate /\ issues[m].answers <= js[m].answers
    BY <1>2, <1>4, CountsAreNumbers
  <1>6. Moves(issues, js) /\ Sound(js)
    BY <1>2, <1>4, <1>5, BodiesStay
  <1>7. Holds(Patch, js)
    BY <1>1, <1>2, <1>4, CountsAreNumbers DEF Holds
  <1> QED
    BY <1>1, <1>3, <1>6, <1>7, WriteApplied

-----------------------------------------------------------------------------
(***************************************************************************)
(* Creations, links and splits.                                            *)
(***************************************************************************)
LEMMA ReadFreshTrue ==
    ASSUME Coherent, Inv, Truth, ReadFresh
    PROVE  Truth'
  <1> DEFINE place == CASE Patch.type = "SPLIT_ISSUE" -> "child"
                        [] Patch.type = "MERGE_DUPLICATE" -> "commenting"
                        [] OTHER -> "writing"
             next == [cli EXCEPT !.seen = issues[Patch.issue].body, !.at = place]
  <1>1. /\ cli.at = "reading" /\ cli.at \in WritePlaces /\ cli.at \in PatchPlaces
        /\ cli.at \in ApplyPlaces /\ DOMAIN cli = CliFields
        /\ Patch.type \in IssuePatches
        /\ Patch.type \in Simple \/ Patch.type = "SPLIT_ISSUE" \/ Patch.type = "MERGE_DUPLICATE"
    BY AtProper DEF ReadFresh, Inv, Types, WritePlaces, ApplyPlaces, PatchPlaces, Simple, IssuePatches
  <1>2. /\ Quiet /\ issues' = issues
        /\ \/ cli' = Recorded("failed")
           \/ cli' = next /\ ~Garbled(Patch, issues)
           \/ cli' = Recorded("idempotent") /\ (Done(Patch) \/ Garbled(Patch, issues))
    BY ReadIsQuiet DEF ReadFresh, Failed
  <1>3. /\ Patch.issue \in Existing(issues) \ {Epic} /\ Asked(Patch)
    BY <1>1, IssueAtHand DEF Meant, Asked, IssuePatches
  <1>4. CASE cli' = Recorded("failed")
    BY <1>1, <1>2, <1>4, NothingDone
  <1>5. CASE cli' = Recorded("idempotent") /\ (Done(Patch) \/ Garbled(Patch, issues))
    BY <1>1, <1>2, <1>3, <1>5, FoundDone DEF IssuePatches
  <1>6. CASE cli' = next /\ ~Garbled(Patch, issues)
    <2>1. /\ DOMAIN cli' = CliFields /\ cli'.at = place /\ cli'.id = cli.id
          /\ cli'.todo = cli.todo /\ cli'.entries = cli.entries /\ cli'.kids = cli.kids
          /\ cli'.seen = issues[Patch.issue].body
      BY <1>1, <1>6 DEF CliFields
    <2>2. Patch' = Patch
      BY <1>1, <1>2, <2>1, StillThePatch
    <2>3. cli'.kids = <<>>
      BY <1>1, <2>1 DEF Truth, AboutToWrite
    <2>4. AboutToWrite'
      <3>1. CASE Patch.type = "SPLIT_ISSUE"
        <4>1. cli'.at = "child"
          BY <2>1, <3>1
        <4>2. Patch.kids \in Seq(DOMAIN Normalized)
          BY <1>1, <3>1, AtWrite DEF IsPatch
        <4>3. Len(cli'.kids) = 0 /\ Len(cli'.kids) <= Len(Patch.kids)
          BY <2>3, <4>2
        <4> QED
          BY <1>2, <1>3, <2>1, <2>2, <3>1, <4>1, <4>3 DEF AboutToWrite, ChildPlaces
      <3>2. CASE Patch.type = "MERGE_DUPLICATE"
        <4>1. cli'.at = "commenting"
          BY <2>1, <3>2
        <4> QED
          BY <1>3, <2>2, <4>1 DEF AboutToWrite, ChildPlaces
      <3>3. CASE Patch.type \in Simple
        <4>1. cli'.at = "writing"
          BY <2>1, <3>3 DEF Simple
        <4> QED
          BY <1>2, <1>3, <1>6, <2>1, <2>2, <3>3, <4>1 DEF AboutToWrite, ChildPlaces
      <3> QED
        BY <1>1, <3>1, <3>2, <3>3
    <2>5. Applying
      BY <1>1 DEF Applying
    <2> QED
      BY <1>2, <2>1, <2>4, <2>5, SamePlaceTrue
  <1> QED
    BY <1>2, <1>4, <1>5, <1>6

\* The title at hand does not change while its issue is looked for.
LEMMA SameTitle ==
    ASSUME Patch' = Patch, cli'.kids = cli.kids
    PROVE  Sought' = Sought
  BY DEF Sought, TitleToCreate

\* The children that are there already, as far as the split has come.
ChildrenAreThere(kids, is) ==
    /\ Len(kids) <= Len(Patch.kids)
    /\ \A k \in 1 .. Len(kids) : kids[k] \in Titled(is, Normalized[Patch.kids[k]]) \cap Refs(is)

\* An issue is looked for, created or linked, for a creation or a split.
LEMMA ChildGoesOn ==
    ASSUME Coherent, Inv, Truth, Quiet, Moves(issues, issues'), Sound(issues'),
           cli.at \in ApplyPlaces, DOMAIN cli' = CliFields, cli'.id = cli.id, cli'.todo = cli.todo,
           cli'.entries = cli.entries, cli'.seen = cli.seen,
           cli'.at \in ChildPlaces, Patch \in Spoken,
           Patch.type \in {"CREATE_ISSUE", "SPLIT_ISSUE"},
           Patch.type = "SPLIT_ISSUE" =>
              /\ cli.seen = issues'[Patch.issue].body
              /\ ChildrenAreThere(cli'.kids, issues')
              /\ cli'.at # "child" => Len(cli'.kids) < Len(Patch.kids),
           cli'.at \in {"linking", "linkwrite"} => cli'.issue \in Titled(issues', Sought'),
           cli'.at = "linkwrite" => cli'.epic = issues'[Epic].body
    PROVE  Truth'
  <1>1. Patch' = Patch
    BY StillThePatch
  <1>2. Patch.type \in WorkTypes
    BY DEF WorkTypes, IssuePatches
  <1>3. Applying
    BY DEF Applying, ApplyPlaces, PatchPlaces, WritePlaces
  <1>4. AboutToWrite'
    BY <1>1, <1>2 DEF AboutToWrite, ChildrenAreThere, ChildPlaces, Asked
  <1> QED
    BY <1>3, <1>4, GoesOnTrue

\* What is known at the places of a creation or a split.
LEMMA ChildAtHand ==
    ASSUME Coherent, Inv, Truth, cli.at \in ChildPlaces
    PROVE  /\ cli.at \in ApplyPlaces /\ cli.at \in WritePlaces /\ DOMAIN cli = CliFields
           /\ ProperIssues(issues) /\ Sound(issues) /\ Epic \in Existing(issues)
           /\ Existing(Backlog) \subseteq Existing(issues)
           /\ Patch \in Spoken /\ Patch.type \in {"CREATE_ISSUE", "SPLIT_ISSUE"} /\ IsPatch(Patch)
           /\ Meant(Patch, issues) /\ cli.kids \in Seq(IssueNumbers)
           /\ Patch.type = "SPLIT_ISSUE" =>
                 /\ Patch.issue \in Existing(issues) \ {Epic} /\ Patch.kids \in Seq(DOMAIN Normalized)
                 /\ cli.seen = issues[Patch.issue].body /\ ChildrenAreThere(cli.kids, issues)
                 /\ cli.at # "child" => Len(cli.kids) < Len(Patch.kids)
  <1>1. cli.at \in ApplyPlaces /\ cli.at \in WritePlaces /\ cli.at \in PatchPlaces
    BY DEF ChildPlaces, ApplyPlaces, PatchPlaces, WritePlaces
  <1>2. /\ DOMAIN cli = CliFields /\ cli.kids \in Seq(IssueNumbers) /\ IsPatch(Patch)
    BY <1>1, AtWrite
  <1>3. Patch \in Spoken /\ Patch.type \in {"CREATE_ISSUE", "SPLIT_ISSUE"}
    BY <1>1 DEF Truth, AboutToWrite, Asked
  <1>4. Patch.type = "SPLIT_ISSUE" => /\ Patch.issue \in Existing(issues) \ {Epic}
                                      /\ Meant(Patch, issues) /\ Patch.kids \in Seq(DOMAIN Normalized)
    BY <1>1, <1>2, IssueAtHand DEF IssuePatches, IsPatch
  <1>5. Patch.type = "CREATE_ISSUE" => Meant(Patch, issues)
    BY <1>1, PatchMeant
  <1>6. Patch.type = "SPLIT_ISSUE" =>
           /\ cli.seen = issues[Patch.issue].body /\ ChildrenAreThere(cli.kids, issues)
           /\ cli.at # "child" => Len(cli.kids) < Len(Patch.kids)
    BY DEF Truth, AboutToWrite, ChildrenAreThere
  <1>7. /\ ProperIssues(issues) /\ Sound(issues) /\ Epic \in Existing(issues)
        /\ Existing(Backlog) \subseteq Existing(issues)
    BY EpicIsThere DEF Truth
  <1> QED
    BY <1>1, <1>2, <1>3, <1>4, <1>5, <1>6, <1>7

LEMMA ChildrenStay ==
    ASSUME NEW is, NEW js, Moves(is, js), NEW kids, ChildrenAreThere(kids, is)
    PROVE  ChildrenAreThere(kids, js)
  BY TitledGrows DEF Moves, ChildrenAreThere

LEMMA ReadCreateTrue ==
    ASSUME Coherent, Inv, Truth, ReadCreate
    PROVE  Truth'
  <1> DEFINE n == FindIssueByTitle(issues, Normalized[Patch.title])
             next == [cli EXCEPT !.at = "linking", !.issue = n]
  <1>1. /\ cli.at = "reading" /\ Patch.type = "CREATE_ISSUE" /\ cli.at \in PatchPlaces
        /\ cli.at \in ApplyPlaces /\ DOMAIN cli = CliFields
    BY AtProper DEF ReadCreate, Inv, Types, ApplyPlaces, PatchPlaces, WritePlaces
  <1>2. /\ Quiet /\ issues' = issues
        /\ \/ cli' = Recorded("failed") \/ cli' = At("creating")
           \/ cli' = Recorded("idempotent") /\ n # Nothing /\ Linked(n)
           \/ cli' = next /\ n # Nothing
    BY ReadIsQuiet DEF ReadCreate, Failed
  <1>3. Patch \in Spoken /\ Moves(issues, issues') /\ Sound(issues')
    BY <1>1, <1>2, SameMoves DEF Truth, AboutToWrite, Inv, Types, Asked
  <1>4. n # Nothing => n \in Titled(issues, Normalized[Patch.title])
    BY SearchFinds
  <1>5. CASE cli' = Recorded("failed")
    BY <1>1, <1>2, <1>5, NothingDone
  <1>6. CASE cli' = Recorded("idempotent") /\ n # Nothing /\ Linked(n)
    <2>1. Done(Patch)
      BY <1>1, <1>6 DEF Done, ExistsLinked
    <2> QED
      BY <1>1, <1>2, <1>6, <2>1, FoundDone
  <1>7. CASE cli' = At("creating")
    <2>1. /\ DOMAIN cli' = CliFields /\ cli'.at = "creating" /\ cli'.id = cli.id
          /\ cli'.todo = cli.todo /\ cli'.entries = cli.entries /\ cli'.seen = cli.seen
      BY <1>1, <1>7, AtIs DEF CliFields
    <2> QED
      BY <1>1, <1>2, <1>3, <2>1, ChildGoesOn DEF ChildPlaces
  <1>8. CASE cli' = next /\ n # Nothing
    <2>1. /\ DOMAIN cli' = CliFields /\ cli'.at = "linking" /\ cli'.id = cli.id
          /\ cli'.todo = cli.todo /\ cli'.entries = cli.entries /\ cli'.seen = cli.seen
          /\ cli'.issue = n /\ cli'.kids = cli.kids
      BY <1>1, <1>8 DEF CliFields
    <2>2. Sought' = Normalized[Patch.title]
      <3>1. Patch' = Patch
        BY <1>1, <1>2, <2>1, StillThePatch
      <3> QED
        BY <1>1, <2>1, <3>1, SameTitle DEF Sought, TitleToCreate
    <2>3. cli'.issue \in Titled(issues', Sought')
      BY <1>2, <1>4, <1>8, <2>1, <2>2
    <2> HIDE DEF n, next
    <2> QED
      BY <1>1, <1>2, <1>3, <2>1, <2>3, ChildGoesOn DEF ChildPlaces
  <1> QED
    BY <1>2, <1>5, <1>6, <1>7, <1>8

LEMMA FindChildTrue ==
    ASSUME Coherent, Inv, Truth, FindChild
    PROVE  Truth'
  <1> DEFINE title == Normalized[Patch.kids[Len(cli.kids) + 1]]
             n == FindIssueByTitle(issues, title)
             next == [cli EXCEPT !.at = "linking", !.issue = n]
  <1>1. /\ cli.at = "child" /\ cli.at \in ChildPlaces /\ Len(cli.kids) < Len(Patch.kids)
        /\ Patch.type = "SPLIT_ISSUE"
    BY DEF FindChild, ChildPlaces, Inv, AboutToCreate
  <1>2. /\ Quiet /\ issues' = issues
        /\ \/ cli' = Recorded("failed") \/ cli' = At("creating")
           \/ cli' = next /\ n # Nothing
    BY ReadIsQuiet DEF FindChild, Failed
  <1>3. /\ cli.at \in ApplyPlaces /\ DOMAIN cli = CliFields /\ Patch \in Spoken
        /\ cli.seen = issues[Patch.issue].body /\ ChildrenAreThere(cli.kids, issues)
        /\ ProperIssues(issues) /\ Sound(issues)
    BY <1>1, ChildAtHand
  <1>4. Moves(issues, issues') /\ Sound(issues')
    BY <1>2, <1>3, SameMoves
  <1>5. n # Nothing => n \in Titled(issues, title)
    BY SearchFinds
  <1>6. CASE cli' = Recorded("failed")
    BY <1>2, <1>3, <1>6, NothingDone
  <1>7. CASE cli' = At("creating")
    <2>1. /\ DOMAIN cli' = CliFields /\ cli'.at = "creating" /\ cli'.id = cli.id
          /\ cli'.todo = cli.todo /\ cli'.entries = cli.entries /\ cli'.seen = cli.seen
          /\ cli'.kids = cli.kids
      BY <1>3, <1>7, AtIs DEF CliFields
    <2> QED
      BY <1>1, <1>2, <1>3, <1>4, <2>1, ChildGoesOn DEF ChildPlaces
  <1>8. CASE cli' = next /\ n # Nothing
    <2>1. /\ DOMAIN cli' = CliFields /\ cli'.at = "linking" /\ cli'.id = cli.id
          /\ cli'.todo = cli.todo /\ cli'.entries = cli.entries /\ cli'.seen = cli.seen
          /\ cli'.issue = n /\ cli'.kids = cli.kids
      BY <1>3, <1>8 DEF CliFields
    <2>2. Sought' = title
      <3>1. Patch' = Patch
        BY <1>2, <1>3, <2>1, StillThePatch
      <3> QED
        BY <1>1, <2>1, <3>1, SameTitle DEF Sought, TitleToCreate
    <2>3. cli'.issue \in Titled(issues', Sought')
      BY <1>2, <1>5, <1>8, <2>1, <2>2
    <2> HIDE DEF n, next, title
    <2> QED
      BY <1>1, <1>2, <1>3, <1>4, <2>1, <2>3, ChildGoesOn DEF ChildPlaces
  <1> QED
    BY <1>2, <1>6, <1>7, <1>8

LEMMA CreateMoves ==
    ASSUME NEW is, ProperIssues(is), Sound(is), Epic \in Existing(is),
           Existing(Backlog) \subseteq Existing(is), HasNext(is), NEW title \in IssueTitles,
           NEW js, js = CreateIssue(is, title, PlainBody(Nothing), {"task"})
    PROVE  /\ Moves(is, js) /\ Sound(js) /\ NextNumber(is) \in Titled(js, title)
           /\ \A n \in Existing(is) : js[n] = is[n]
  <1> DEFINE next == NextNumber(is)
  <1>1. /\ ProperIssues(js) /\ Existing(js) = Existing(is) \cup {next}
        /\ next \in IssueNumbers /\ next \notin Existing(is)
        /\ \A m \in Existing(is) : js[m] = is[m]
        /\ js[next].title = title
    BY CreatedIs
  <1>2. js[next] = NewIssue(title, PlainBody(Nothing), {"task"})
    BY <1>1 DEF CreateIssue, ProperIssues
  <1>3. /\ js[next].open /\ DOMAIN js[next].body = BodyFields
        /\ js[next].body.links = {} /\ js[next].body.split = {}
    <2>1. js[next].open = TRUE /\ js[next].body = PlainBody(Nothing)
      BY <1>2 DEF NewIssue
    <2>2. /\ DOMAIN PlainBody(Nothing) = BodyFields
          /\ PlainBody(Nothing).links = {} /\ PlainBody(Nothing).split = {}
      BY DEF PlainBody, BodyFields
    <2> QED
      BY <2>1, <2>2
  <1> HIDE DEF next
  <1>4. Refs(js) = Refs(is)
    BY <1>1 DEF Refs
  <1>5. Grown(is, js)
    <2>1. \A n \in Existing(is) : is[n].duplicate \in Nat /\ is[n].answers \in Nat
      BY CountsAreNumbers
    <2> QED
      BY ONLY <1>1, <1>4, <2>1 DEF Grown
  <1>6. Moves(is, js)
    BY ONLY <1>1, <1>5 DEF Moves
  <1>7. \A n \in Existing(is) : DOMAIN js[n].body = BodyFields
    BY <1>1 DEF Sound, ListsAreTrue
  <1>8. Sound(js)
    BY <1>1, <1>3, <1>5, <1>7, SoundOn
  <1>9. next \in Titled(js, title)
    BY <1>1 DEF Titled
  <1> QED
    BY <1>1, <1>6, <1>8, <1>9 DEF next

LEMMA CreateTrue ==
    ASSUME Coherent, Inv, Truth, Create
    PROVE  Truth'
  <1> DEFINE js == CreateIssue(issues, Sought, PlainBody(Nothing), {"task"})
             new == NextNumber(issues)
             next == [cli EXCEPT !.at = "linking", !.issue = new]
  <1>1. /\ cli.at = "creating" /\ cli.at \in ChildPlaces /\ HasNext(issues)
        /\ Request(js, next, Recorded("failed"))
    BY DEF Create, Failed, ChildPlaces, Sought
  <1>2. Sought \in IssueTitles
    BY <1>1 DEF Inv, AboutToCreate
  <1>3. /\ cli.at \in ApplyPlaces /\ DOMAIN cli = CliFields /\ Patch \in Spoken
        /\ Patch.type \in {"CREATE_ISSUE", "SPLIT_ISSUE"}
        /\ ProperIssues(issues) /\ Sound(issues) /\ Epic \in Existing(issues)
        /\ Existing(Backlog) \subseteq Existing(issues)
        /\ Patch.type = "SPLIT_ISSUE" =>
              /\ Patch.issue \in Existing(issues)
              /\ cli.seen = issues[Patch.issue].body /\ ChildrenAreThere(cli.kids, issues)
              /\ Len(cli.kids) < Len(Patch.kids)
    BY <1>1, ChildAtHand
  <1>4. /\ Moves(issues, js) /\ Sound(js) /\ new \in Titled(js, Sought)
        /\ \A n \in Existing(issues) : js[n] = issues[n]
    BY <1>1, <1>2, <1>3, CreateMoves
  <1> HIDE DEF js
  <1>5. /\ Quiet /\ issues' \in {issues, js}
        /\ \/ issues' = js /\ cli' = next
           \/ cli' = Recorded("failed")
    BY <1>1, RequestIsQuiet
  <1>6. Moves(issues, issues') /\ Sound(issues')
    BY <1>3, <1>4, <1>5, SameMoves
  <1>7. CASE cli' = Recorded("failed")
    BY <1>3, <1>5, <1>6, <1>7, NothingSaid
  <1>8. CASE issues' = js /\ cli' = next
    <2>1. /\ DOMAIN cli' = CliFields /\ cli'.at = "linking" /\ cli'.id = cli.id
          /\ cli'.todo = cli.todo /\ cli'.entries = cli.entries /\ cli'.seen = cli.seen
          /\ cli'.issue = new /\ cli'.kids = cli.kids
      BY <1>3, <1>8 DEF CliFields
    <2>2. Sought' = Sought
      BY <1>3, <1>5, <2>1, StillThePatch, SameTitle
    <2>3. cli'.issue \in Titled(issues', Sought')
      BY <1>4, <1>8, <2>1, <2>2
    <2>4. Patch.type = "SPLIT_ISSUE" =>
             cli.seen = issues'[Patch.issue].body /\ ChildrenAreThere(cli'.kids, issues')
      BY <1>3, <1>4, <1>6, <1>8, <2>1, ChildrenStay
    <2> HIDE DEF new, next
    <2> QED
      BY <1>3, <1>5, <1>6, <2>1, <2>3, <2>4, ChildGoesOn DEF ChildPlaces
  <1> QED
    BY <1>5, <1>7, <1>8

\* The issue at hand is there and in the epic.
LEMMA AfterLinkTrue ==
    ASSUME Coherent, Inv, Truth, Quiet, Moves(issues, issues'), Sound(issues'),
           cli.at \in {"linking", "linkwrite"}, cli.issue \in Refs(issues'),
           Patch.type = "SPLIT_ISSUE" => cli.seen = issues'[Patch.issue].body,
           cli' \in {AfterLink, [AfterLink EXCEPT !.epic = Nothing]}
    PROVE  Truth'
  <1>1. cli.at \in ChildPlaces
    BY DEF ChildPlaces
  <1>2. /\ cli.at \in ApplyPlaces /\ cli.at \in WritePlaces /\ DOMAIN cli = CliFields
        /\ Patch \in Spoken /\ Patch.type \in {"CREATE_ISSUE", "SPLIT_ISSUE"}
        /\ Meant(Patch, issues) /\ cli.kids \in Seq(IssueNumbers)
        /\ Patch.type = "SPLIT_ISSUE" =>
              /\ Patch.kids \in Seq(DOMAIN Normalized) /\ ChildrenAreThere(cli.kids, issues)
              /\ Len(cli.kids) < Len(Patch.kids)
    BY <1>1, ChildAtHand DEF ChildPlaces
  <1>3. cli.issue \in Titled(issues', Sought) \cap Refs(issues')
    <2>1. cli.issue \in Titled(issues, Sought)
      BY DEF Truth, AboutToWrite
    <2> QED
      BY <2>1 DEF Moves, Grown, Titled
  <1>4. CASE Patch.type = "CREATE_ISSUE"
    <2>1. cli' = Recorded("applied")
      <3>1. /\ DOMAIN Recorded("applied") = CliFields /\ Recorded("applied").epic = Nothing
        BY <1>2 DEF Recorded, CliFields
      <3>2. [Recorded("applied") EXCEPT !.epic = Nothing] = Recorded("applied")
        BY <3>1 DEF CliFields, Recorded
      <3> QED
        BY <1>4, <3>2 DEF AfterLink
    <2>2. Holds(Patch, issues')
      BY <1>3, <1>4 DEF Sought, TitleToCreate, Holds, Refs
    <2> QED
      BY <1>2, <2>1, <2>2, MeantOn, RecordedTrue
  <1>5. CASE Patch.type = "SPLIT_ISSUE"
    <2> DEFINE kids == Append(cli.kids, cli.issue)
    <2>1. /\ DOMAIN cli' = CliFields /\ cli'.at = "child" /\ cli'.id = cli.id
          /\ cli'.todo = cli.todo /\ cli'.entries = cli.entries /\ cli'.seen = cli.seen
          /\ cli'.kids = kids
      BY <1>2, <1>5 DEF AfterLink, CliFields
    <2>2. cli.issue \in IssueNumbers
      BY DEF Inv, AboutToCreate
    <2>3. Len(cli.kids) \in Nat /\ Len(Patch.kids) \in Nat
      BY <1>2, <1>5
    <2>4. /\ Len(kids) = Len(cli.kids) + 1 /\ kids[Len(cli.kids) + 1] = cli.issue
          /\ \A k \in 1 .. Len(cli.kids) : kids[k] = cli.kids[k]
      BY <1>2, <2>2
    <2>5. Sought = Normalized[Patch.kids[Len(cli.kids) + 1]]
      BY <1>5 DEF Sought, TitleToCreate
    <2>6. ChildrenAreThere(cli.kids, issues')
      BY <1>2, <1>5, ChildrenStay
    <2> HIDE DEF kids
    <2>7. ASSUME NEW k \in 1 .. Len(kids)
          PROVE  kids[k] \in Titled(issues', Normalized[Patch.kids[k]]) \cap Refs(issues')
      <3>1. CASE k = Len(cli.kids) + 1
        BY <1>3, <2>4, <2>5, <3>1
      <3>2. CASE k # Len(cli.kids) + 1
        <4>1. k \in 1 .. Len(cli.kids)
          BY <2>3, <2>4, <3>2
        <4> QED
          BY <2>4, <2>6, <4>1 DEF ChildrenAreThere
      <3> QED
        BY <3>1, <3>2
    <2>8. ChildrenAreThere(cli'.kids, issues')
      BY <1>2, <1>5, <2>1, <2>3, <2>4, <2>7 DEF ChildrenAreThere
    <2> QED
      BY <1>2, <1>5, <2>1, <2>8, ChildGoesOn DEF ChildPlaces
  <1> QED
    BY <1>2, <1>4, <1>5

LEMMA ReadEpicTrue ==
    ASSUME Coherent, Inv, Truth, ReadEpic
    PROVE  Truth'
  <1> DEFINE next == [cli EXCEPT !.at = "linkwrite", !.epic = issues[Epic].body]
  <1>1. cli.at = "linking" /\ cli.at \in ChildPlaces
    BY DEF ReadEpic, ChildPlaces
  <1>2. /\ cli.at \in ApplyPlaces /\ DOMAIN cli = CliFields /\ Patch \in Spoken
        /\ Patch.type \in {"CREATE_ISSUE", "SPLIT_ISSUE"}
        /\ ProperIssues(issues) /\ Sound(issues)
        /\ Patch.type = "SPLIT_ISSUE" =>
              /\ cli.seen = issues[Patch.issue].body /\ ChildrenAreThere(cli.kids, issues)
              /\ Len(cli.kids) < Len(Patch.kids)
    BY <1>1, ChildAtHand
  <1>3. /\ Quiet /\ issues' = issues
        /\ \/ cli' = Recorded("failed") \/ cli' = next
           \/ cli' = AfterLink /\ cli.issue \in Refs(issues)
    BY ReadIsQuiet DEF ReadEpic, Failed, Refs
  <1>4. Moves(issues, issues') /\ Sound(issues')
    BY <1>2, <1>3, SameMoves
  <1>5. CASE cli' = Recorded("failed")
    BY <1>2, <1>3, <1>5, NothingDone
  <1>6. CASE cli' = next
    <2>1. /\ DOMAIN cli' = CliFields /\ cli'.at = "linkwrite" /\ cli'.id = cli.id
          /\ cli'.todo = cli.todo /\ cli'.entries = cli.entries /\ cli'.seen = cli.seen
          /\ cli'.issue = cli.issue /\ cli'.kids = cli.kids /\ cli'.epic = issues[Epic].body
      BY <1>2, <1>6 DEF CliFields
    <2>2. Sought' = Sought
      BY <1>2, <1>3, <2>1, StillThePatch, SameTitle
    <2>3. cli'.issue \in Titled(issues', Sought')
      BY <1>1, <1>3, <2>1, <2>2 DEF Truth, AboutToWrite
    <2> HIDE DEF next
    <2> QED
      BY <1>2, <1>3, <1>4, <2>1, <2>3, ChildGoesOn DEF ChildPlaces
  <1>7. CASE cli' = AfterLink /\ cli.issue \in Refs(issues)
    BY <1>1, <1>2, <1>3, <1>4, <1>7, AfterLinkTrue
  <1> QED
    BY <1>3, <1>5, <1>6, <1>7

LEMMA LinkTrue ==
    ASSUME Coherent, Inv, Truth, LinkIssueToEpic
    PROVE  Truth'
  <1> DEFINE link == <<cli.issue, titles[cli.issue]>>
             js == UpdateIssueBody(issues, Epic, [issues[Epic].body EXCEPT !.links = @ \cup {link}])
  <1>1. /\ cli.at = "linkwrite" /\ cli.at \in ChildPlaces
        /\ Write(UpdateIssueBody(issues, Epic, WithLink), [AfterLink EXCEPT !.epic = Nothing],
                 Recorded("failed"))
    BY DEF LinkIssueToEpic, Failed, ChildPlaces
  <1>2. /\ cli.at \in ApplyPlaces /\ ProperIssues(issues) /\ Sound(issues) /\ Epic \in Existing(issues)
        /\ Existing(Backlog) \subseteq Existing(issues)
        /\ Patch.type = "SPLIT_ISSUE" =>
              /\ Patch.issue \in Existing(issues) \ {Epic}
              /\ cli.seen = issues[Patch.issue].body
    BY <1>1, ChildAtHand
  <1>3. UpdateIssueBody(issues, Epic, WithLink) = js
    BY <1>1 DEF Truth, AboutToWrite, WithLink
  <1>4. /\ Moves(issues, js) /\ Sound(js) /\ link[1] \in Refs(js)
        /\ \A n \in Existing(issues) \ {Epic} : js[n].body = issues[n].body
    <2> HIDE DEF link
    <2> QED
      BY <1>2, LinkMoves
  <1>5. link[1] = cli.issue
    OBVIOUS
  <1> HIDE DEF js, link
  <1>6. /\ Quiet /\ issues' \in {issues, js}
        /\ \/ issues' = js /\ cli' = [AfterLink EXCEPT !.epic = Nothing]
           \/ cli' = Recorded("failed")
    BY <1>1, <1>3, WriteIsQuiet
  <1>7. Moves(issues, issues') /\ Sound(issues')
    BY <1>2, <1>4, <1>6, SameMoves
  <1>8. CASE cli' = Recorded("failed")
    BY <1>2, <1>6, <1>7, <1>8, NothingSaid
  <1>9. CASE issues' = js /\ cli' = [AfterLink EXCEPT !.epic = Nothing]
    BY <1>1, <1>2, <1>4, <1>5, <1>6, <1>7, <1>9, AfterLinkTrue
  <1> QED
    BY <1>6, <1>8, <1>9

LEMMA WriteSplitTrue ==
    ASSUME Coherent, Inv, Truth, TitlesAgree, WriteSplit
    PROVE  Truth'
  <1> DEFINE i == Patch.issue
             children == {<<cli.kids[k], titles[cli.kids[k]]>> : k \in DOMAIN Patch.kids}
             body == [cli.seen EXCEPT !.split = children]
             js == UpdateIssueBody(issues, i, body)
  <1>1. /\ cli.at = "child" /\ cli.at \in ChildPlaces /\ Len(cli.kids) = Len(Patch.kids)
        /\ Patch.type = "SPLIT_ISSUE" /\ Patch.type \in IssuePatches
        /\ Write(js, At("labelling"), Recorded("failed"))
    BY DEF WriteSplit, Failed, ChildPlaces, Inv, AboutToCreate, IssuePatches
  <1>2. /\ cli.at \in ApplyPlaces /\ DOMAIN cli = CliFields /\ Patch \in Spoken
        /\ i \in Existing(issues) \ {Epic} /\ Patch.kids \in Seq(DOMAIN Normalized)
        /\ cli.seen = issues[i].body /\ ChildrenAreThere(cli.kids, issues) /\ Meant(Patch, issues)
        /\ ProperIssues(issues) /\ Sound(issues) /\ Epic \in Existing(issues)
        /\ Existing(Backlog) \subseteq Existing(issues)
    BY <1>1, ChildAtHand
  <1>3. \A k \in DOMAIN Patch.kids : cli.kids[k] \in Titled(issues, Normalized[Patch.kids[k]]) \cap Refs(issues)
    BY <1>1, <1>2 DEF ChildrenAreThere
  <1>4. /\ DOMAIN body = BodyFields /\ body.links = issues[i].body.links /\ body.split = children
        /\ BodyGoesOn(Patch, issues[i].body, body)
    <2>1. DOMAIN issues[i].body = BodyFields
      BY <1>2 DEF Sound, ListsAreTrue
    <2> HIDE DEF children
    <2>2. /\ body.deps = issues[i].body.deps /\ body.free = issues[i].body.free
          /\ body.section = issues[i].body.section /\ body.links = issues[i].body.links
          /\ body.split = children /\ DOMAIN body = BodyFields
      BY <1>2, <2>1 DEF BodyFields, PlainBody
    <2> QED
      BY <1>1, <2>2 DEF BodyGoesOn
  <1>5. \A s \in children : s = <<s[1], s[2]>> /\ s[1] \in Titled(issues, Normalized[s[2]]) \cap Refs(issues)
    BY <1>3 DEF Titled, TitlesAgree
  <1>6. \A k \in DOMAIN Patch.kids : <<cli.kids[k], titles[cli.kids[k]]>> \in children
    OBVIOUS
  <1> HIDE DEF body, children
  <1>7. Written(issues, js, i, "body", body)
    BY <1>2, BodyWritten
  <1>8. /\ js[i].body = body /\ js[Epic].body = issues[Epic].body
        /\ \A title : Titled(js, title) = Titled(issues, title)
    BY <1>2, <1>7 DEF Written, Titled
  <1>9. Holds(Patch, js)
    <2>1. ASSUME NEW t \in ToSet(Patch.kids)
          PROVE  \E s \in js[i].body.split : s[1] \in Titled(js, Normalized[t]) \cap Refs(js)
      <3>1. PICK k \in DOMAIN Patch.kids : Patch.kids[k] = t
        BY <2>1 DEF ToSet
      <3> DEFINE s == <<cli.kids[k], titles[cli.kids[k]]>>
      <3>2. s[1] \in Titled(js, Normalized[t]) \cap Refs(js)
        BY <1>3, <1>8, <3>1 DEF Refs
      <3>3. s \in js[i].body.split
        BY <1>4, <1>6, <1>8
      <3> QED
        BY <3>2, <3>3
    <2> QED
      BY <1>1, <2>1 DEF Holds, Refs
  <1>10. Moves(issues, js) /\ Sound(js)
    BY <1>1, <1>2, <1>4, <1>5, <1>9, PatchedMoves
  <1> HIDE DEF js
  <1>11. /\ Quiet /\ issues' \in {issues, js}
         /\ \/ issues' = js /\ cli' = At("labelling")
            \/ cli' = Recorded("failed")
    BY <1>1, WriteIsQuiet
  <1>12. Moves(issues, issues') /\ Sound(issues')
    BY <1>2, <1>10, <1>11, SameMoves
  <1>13. CASE cli' = Recorded("failed")
    BY <1>2, <1>11, <1>12, <1>13, NothingSaid
  <1>14. CASE issues' = js /\ cli' = At("labelling")
    <2>1. /\ DOMAIN cli' = CliFields /\ cli'.at = "labelling" /\ cli'.id = cli.id
          /\ cli'.todo = cli.todo /\ cli'.entries = cli.entries
      BY <1>2, <1>14, AtIs DEF CliFields
    <2>2. Patch' = Patch
      BY <1>2, <1>11, <2>1, StillThePatch
    <2>3. Holds(Patch, issues')
      BY <1>9, <1>14
    <2>4. AboutToWrite'
      BY <1>1, <1>2, <2>1, <2>2, <2>3 DEF AboutToWrite, ChildPlaces, Meant
    <2>5. Applying
      BY <1>1 DEF Applying
    <2> QED
      BY <1>11, <1>12, <2>1, <2>4, <2>5, GoesOnTrue
  <1> QED
    BY <1>11, <1>13, <1>14

-----------------------------------------------------------------------------
(***************************************************************************)
(* The artifact, the other commands, and the theorems.                     *)
(***************************************************************************)
LEMMA SaveApplyTrue ==
    ASSUME Coherent, Inv, Truth, SaveApply
    PROVE  Truth'
  <1>1. /\ cli.at \in {"saving", "next"} /\ Applying /\ issues' = issues /\ DOMAIN cli = CliFields
        /\ applied' = Stored(cli.id, cli.entries) /\ (cli' = Idle \/ cli' = At("pointing"))
    BY AtProper DEF SaveApply, Applying, Inv, Types, ApplyPlaces
  <1>2. TellTruth(cli.entries, issues)
    BY <1>1 DEF Truth
  <1>3. \A id \in DOMAIN applied' : TellTruth(applied'[id], issues')
    BY <1>1, <1>2 DEF Stored, Truth
  <1>4. /\ cli'.at \in {"idle", "pointing"}
        /\ cli'.at = "pointing" => cli'.entries = cli.entries
    <2>1. CASE cli' = Idle
      BY <2>1 DEF Idle
    <2>2. CASE cli' = At("pointing")
      BY <1>1, <2>2, AtIs DEF CliFields
    <2> QED
      BY <1>1, <2>1, <2>2
  <1>5. AboutToWrite'
    BY <1>4, NoPatchAhead
  <1> QED
    BY <1>1, <1>2, <1>3, <1>4, <1>5 DEF Truth, Applying

\* No patch is at hand before an apply, or after it.
LEMMA NothingAtHand ==
    ASSUME Truth, issues' = issues, applied' = applied,
           cli'.at \in {"idle", "session"} \/ (cli'.at = "next" /\ cli'.kids = <<>> /\ cli'.entries = {})
    PROVE  Truth'
  <1>1. AboutToWrite'
    BY NoPatchAhead
  <1> QED
    BY <1>1 DEF Truth, Applying, TellTruth

LEMMA OtherStepsTrue ==
    ASSUME Truth,
           \/ WriteLatestApply \/ ReadBacklog \/ StoreReport \/ Kill
           \/ \E id \in DOMAIN reports, mode \in {"yes", "menu", "preview"} : StartApply(id, mode)
    PROVE  Truth'
  <1>1. CASE WriteLatestApply \/ StoreReport \/ Kill
    BY <1>1, NothingAtHand DEF WriteLatestApply, StoreReport, Kill, Idle
  <1>2. CASE ReadBacklog
    BY <1>2, NothingAtHand DEF ReadBacklog
  <1>3. ASSUME NEW id \in DOMAIN reports, NEW mode \in {"yes", "menu", "preview"}, StartApply(id, mode)
        PROVE  Truth'
    BY <1>3, NothingAtHand DEF StartApply
  <1> QED
    BY <1>1, <1>2, <1>3

LEMMA StutterTrue ==
    ASSUME Truth, UNCHANGED vars
    PROVE  Truth'
  <1>1. /\ issues' = issues /\ applied' = applied /\ cli' = cli /\ reports' = reports
    BY DEF vars
  <1>2. Patch' = Patch /\ Sought' = Sought
    BY <1>1 DEF Patch, Place, Sought, TitleToCreate
  <1> QED
    BY <1>1, <1>2 DEF Truth, AboutToWrite, Applying

\* The titles are of the issues, however they came to be.
LEMMA TitlesInit ==
    ASSUME Init
    PROVE  TitlesAgree
  <1>1. issues = Backlog /\ titles = BacklogTitles
    BY DEF Init
  <1>2. ASSUME NEW n \in Existing(Backlog)
        PROVE  Normalized[BacklogTitles[n]] = Backlog[n].title
    <2>1. n \in IssueNumbers /\ Backlog[n] # NoIssue
      BY ExistingIsFinite DEF Existing, NoIssue
    <2> QED
      BY <2>1, ReconcileApplyAssumption
  <1> QED
    BY <1>1, <1>2, ReconcileApplyAssumption DEF TitlesAgree

LEMMA TitlesStay ==
    ASSUME TitlesAgree, titles' = titles, Existing(issues') = Existing(issues),
           \A n \in Existing(issues) : issues'[n].title = issues[n].title
    PROVE  TitlesAgree'
  BY DEF TitlesAgree

LEMMA AlikeTitles ==
    ASSUME TitlesAgree, titles' = titles, Alike(issues, issues')
    PROVE  TitlesAgree'
  BY TitlesStay DEF Alike

LEMMA CommentTitles ==
    ASSUME Inv, TitlesAgree, CommentDuplicateOf \/ PostAnswers
    PROVE  TitlesAgree'
  <1>1. /\ titles' = titles /\ cli.at = "commenting"
        /\ \/ issues' \in {issues, CommentDuplicate(issues, Patch.issue)}
           \/ issues' \in {issues, CommentAnswers(issues, Patch.issue)}
    BY DEF CommentDuplicateOf, PostAnswers, Write, Request
  <1>2. Patch.issue \in Existing(issues)
    BY <1>1 DEF Inv, Known
  <1>3. ProperIssues(issues)
    BY DEF Inv, Types
  <1>4. CASE issues' = issues
    BY <1>1, <1>4 DEF TitlesAgree
  <1>5. CASE issues' = CommentDuplicate(issues, Patch.issue)
    BY <1>1, <1>2, <1>3, <1>5, DuplicateNoted, TitlesStay
  <1>6. CASE issues' = CommentAnswers(issues, Patch.issue)
    BY <1>1, <1>2, <1>3, <1>6, AnswersNoted, TitlesStay
  <1> QED
    BY <1>1, <1>4, <1>5, <1>6

LEMMA CreateTitles ==
    ASSUME Inv, TitlesAgree, Create
    PROVE  TitlesAgree'
  <1> DEFINE new == NextNumber(issues)
             js == CreateIssue(issues, Sought, PlainBody(Nothing), {"task"})
  <1>1. /\ cli.at = "creating" /\ HasNext(issues) /\ issues' \in {issues, js}
        /\ titles' = IF issues' = issues THEN titles ELSE [titles EXCEPT ![new] = TitleToCreate]
    BY DEF Create, Request, Sought
  <1>2. Sought \in IssueTitles /\ ProperIssues(issues)
    BY <1>1 DEF Inv, AboutToCreate, Types
  <1>3. /\ Existing(js) = Existing(issues) \cup {new} /\ new \in IssueNumbers
        /\ new \notin Existing(issues) /\ js[new].title = Sought
        /\ \A m \in Existing(issues) : js[m] = issues[m]
    BY <1>1, <1>2, CreatedIs
  <1> HIDE DEF new, js
  <1>4. CASE issues' = issues
    BY <1>1, <1>4 DEF TitlesAgree
  <1>5. CASE issues' = js /\ issues' # issues
    <2>1. titles' = [titles EXCEPT ![new] = TitleToCreate]
      BY <1>1, <1>5
    <2>2. /\ DOMAIN titles' = IssueNumbers /\ titles'[new] = TitleToCreate
          /\ \A m \in Existing(issues) : titles'[m] = titles[m]
      BY <1>3, <2>1, ExistingIsFinite DEF TitlesAgree
    <2>3. \A m \in Existing(issues') : m \in Existing(issues) \/ m = new
      BY <1>3, <1>5
    <2>4. Normalized[titles'[new]] = issues'[new].title
      BY <1>3, <1>5, <2>2 DEF Sought
    <2>5. \A m \in Existing(issues) : Normalized[titles'[m]] = issues'[m].title
      BY <1>3, <1>5, <2>2 DEF TitlesAgree
    <2> QED
      BY <2>2, <2>3, <2>4, <2>5 DEF TitlesAgree
  <1> QED
    BY <1>1, <1>4, <1>5

LEMMA EditTitles ==
    ASSUME Inv, TitlesAgree, Edit
    PROVE  TitlesAgree'
  BY EditIsAlike, AlikeTitles DEF Edit

LEMMA ClosesWhatIsThere ==
    ASSUME Inv, CloseDuplicate
    PROVE  Patch.issue \in Existing(issues)
  <1>1. /\ cli.at = "closing" /\ Patch.type = "MERGE_DUPLICATE"
        /\ cli.at \in ApplyPlaces /\ cli.at \in WritePlaces /\ IsPatch(Patch)
    BY AtWrite DEF CloseDuplicate, Inv, AboutToComment, ApplyPlaces, PatchPlaces, WritePlaces
  <1> QED
    BY <1>1, IssueIsThere DEF IssuePatches

LEMMA TitlesNext ==
    ASSUME Inv, TitlesAgree, [Next]_vars
    PROVE  TitlesAgree'
  <1>1. CASE issues' = issues /\ titles' = titles
    BY <1>1 DEF TitlesAgree
  <1>2. CASE WriteBody \/ LinkIssueToEpic \/ WriteSplit
    <2>1. titles' = titles /\ \E n, body : issues' \in {issues, UpdateIssueBody(issues, n, body)}
      BY <1>2 DEF WriteBody, LinkIssueToEpic, WriteSplit, Write, Request
    <2> QED
      BY <2>1, UpdateIsAlike, SameIssues, AlikeTitles DEF Inv, Types
  <1>3. CASE LabelSplit \/ UnlabelSplit
    <2>1. titles' = titles /\ \E n, label : issues' \in {issues, AddLabel(issues, n, label), RemoveLabel(issues, n, label)}
      BY <1>3 DEF LabelSplit, UnlabelSplit, Write, Request
    <2> QED
      BY <2>1, LabelIsAlike, SameIssues, AlikeTitles DEF Inv, Types
  <1>4. CASE CloseDuplicate
    <2>1. /\ titles' = titles /\ issues' \in {issues, CloseIssue(issues, Patch.issue)}
          /\ Patch.issue \in Existing(issues)
      BY <1>4, ClosesWhatIsThere DEF CloseDuplicate, Write, Request
    <2> QED
      BY <2>1, CloseIsAlike, SameIssues, AlikeTitles DEF Inv, Types
  <1>5. \/ issues' = issues /\ titles' = titles
        \/ WriteBody \/ LinkIssueToEpic \/ WriteSplit
        \/ LabelSplit \/ UnlabelSplit \/ CloseDuplicate
        \/ CommentDuplicateOf \/ PostAnswers \/ Create \/ Edit
    BY DEF vars, Next, ApplyStep, Kill, StartApply, ReadBacklog, StoreReport, SaveApply,
           WriteLatestApply, NextPatch, Prepare, DecideAlone, Menu, ReadFresh, ReadCreate,
           FindChild, ReadEpic, ReadAnswers, Goes, Read
  <1> QED
    BY <1>1, <1>2, <1>3, <1>4, <1>5, CommentTitles, CreateTitles, EditTitles

LEMMA TruthInit ==
    ASSUME Coherent, Init
    PROVE  Truth
  <1>1. issues = Backlog /\ cli.at = "idle" /\ DOMAIN applied = {}
    BY DEF Init, Idle
  <1>2. ListsAreTrue(Backlog) /\ ClosedForReason(Backlog) /\ GrownFrom(Backlog)
    BY DEF Coherent, ListsAreTrue, ClosedForReason, GrownFrom
  <1>3. AboutToWrite
    BY <1>1 DEF AboutToWrite, PatchPlaces, WritePlaces, ChildPlaces
  <1> QED
    BY <1>1, <1>2, <1>3 DEF Truth, Sound, Applying

LEMMA TruthNext ==
    ASSUME Coherent, Inv, TitlesAgree, edits = 0 => Truth, [Next]_vars, edits' = 0
    PROVE  Truth'
  <1>1. ~Edit /\ Truth
    <2>1. edits \in Nat /\ edits' \in {edits, edits + 1}
      BY DEF Inv, Types, Next, ApplyStep, vars, Edit, Kill, StartApply, ReadBacklog, StoreReport,
             SaveApply, WriteLatestApply, NextPatch, Prepare, DecideAlone, Menu, ReadFresh,
             WriteBody, ReadCreate, FindChild, Create, ReadEpic, LinkIssueToEpic, WriteSplit,
             LabelSplit, UnlabelSplit, CommentDuplicateOf, CloseDuplicate, ReadAnswers,
             PostAnswers, Goes, Read, Write, Request, Counters
    <2> QED
      BY <2>1 DEF Edit
  <1>2. CASE ApplyStep
    BY <1>1, <1>2, NextPatchTrue, PrepareTrue, DecideTrue, ReadFreshTrue, WriteBodyTrue,
       ReadCreateTrue, FindChildTrue, CreateTrue, ReadEpicTrue, LinkTrue, WriteSplitTrue,
       LabelTrue, CommentDuplicateTrue, CloseDuplicateTrue, ReadAnswersTrue,
       PostAnswersTrue, SaveApplyTrue, OtherStepsTrue DEF ApplyStep
  <1> QED
    BY <1>1, <1>2, OtherStepsTrue, StutterTrue DEF Next

LEMMA TruthHolds ==
    ASSUME Coherent
    PROVE  Spec => [](Inv /\ TitlesAgree /\ (edits = 0 => Truth))
  <1>1. Init => Inv /\ TitlesAgree /\ (edits = 0 => Truth)
    BY ApplyInit, TruthInit, TitlesInit
  <1>2. Inv /\ TitlesAgree /\ (edits = 0 => Truth) /\ [Next]_vars
          => (Inv /\ TitlesAgree /\ (edits = 0 => Truth))'
    BY ApplyNext, TruthNext, TitlesNext
  <1> QED
    BY <1>1, <1>2, PTL DEF Spec

\* As long as nobody edits, what the stored reports say was applied, or found
\* done, is so, whatever else was applied since, in whatever order the commands
\* failed and were repeated: where the sessions' patches do not contradict each
\* other.
THEOREM ReportsTellTruth ==
    ASSUME Coherent
    PROVE  Spec => []ReportsAreTrue
  <1>1. (edits = 0 => Truth) => ReportsAreTrue
    BY DEF Truth, TellTruth, Skipped, KeepsClosed, Simple, ReportsAreTrue
  <1> QED
    BY <1>1, TruthHolds, PTL

\* An issue of the epic is one of the open or of the closed ones.
LEMMA SettledPatch ==
    ASSUME Coherent, AboutTheEpic, Sound(issues), NEW p, Meant(p, issues), Holds(p, issues), p.type # "NEEDS_HUMAN",
           ~ListedOtherwise(p)
    PROVE  Satisfied(p, issues) \/ PatchReferencesClosedIssue(p, issues)
  <1>1. p \in Spoken /\ p.type \in IssuePatches \cup {"CREATE_ISSUE"}
    BY DEF Meant, Asked, WorkTypes
  <1>2. ASSUME p.type \in IssuePatches
        PROVE  /\ p.issue \in Active(issues) \cup Closed(issues)
               /\ ~issues[p.issue].open => p.issue \in Closed(issues)
    <2>1. p.issue \in Existing(issues) /\ p.issue \in IssueNumbers
      BY <1>2, TargetIs, ExistingIsFinite
    <2>2. p.issue \in Refs(issues)
      BY <1>1, <1>2, <2>1 DEF AboutTheEpic, Sound, GrownFrom
    <2> QED
      BY <2>1, <2>2 DEF Active, Closed, Refs
  <1>3. CASE p.type = "CREATE_ISSUE"
    <2>1. PICK n \in Titled(issues, Normalized[p.title]) : n \in Refs(issues)
      BY <1>3 DEF Holds, Refs
    <2>2. n \in Existing(issues) /\ n \in IssueNumbers /\ issues[n].title = Normalized[p.title]
      BY <2>1, ExistingIsFinite DEF Titled
    <2>3. issues[n].open
      <3>1. SUFFICES ASSUME ~issues[n].open PROVE FALSE
        OBVIOUS
      <3>2. n \in Existing(Backlog) => n \in Titled(Backlog, Normalized[p.title])
        BY <2>2 DEF Sound, GrownFrom, Titled
      <3>3. PICK q \in Spoken : q.type = "MERGE_DUPLICATE" /\ q.issue = n
        BY <1>1, <1>3, <2>2, <3>1, <3>2 DEF AboutTheEpic, Sound, ClosedForReason
      <3>4. n \in Existing(Backlog)
        BY <2>2, <3>3 DEF AboutTheEpic, IssuePatches
      <3> QED
        BY <1>1, <1>3, <3>2, <3>3, <3>4 DEF AboutTheEpic
    <2>4. n \in Active(issues)
      BY <2>1, <2>2, <2>3 DEF Active, Refs
    <2> QED
      BY <1>3, <2>2, <2>4 DEF Satisfied
  <1>4. CASE p.type \in {"ENRICH_ISSUE", "ADD_DEPENDENCY", "REMOVE_DEPENDENCY"}
    BY <1>2, <1>4 DEF IssuePatches, Holds, Satisfied, PatchReferencesClosedIssue
  <1>5. CASE p.type = "SPLIT_ISSUE"
    <2>1. \A t \in ToSet(p.kids) : \E s \in issues[p.issue].body.split : s[1] \in Titled(issues, Normalized[t])
      BY <1>5 DEF Holds
    <2>3. \A s \in issues[p.issue].body.split : s[1] \in Titled(issues, Normalized[s[2]])
      BY <1>1, <1>5, TargetIs DEF IssuePatches, Sound, ListsAreTrue
    <2>2. SplitAlreadyApplied(issues[p.issue].body, p.kids)
      <3>1. ASSUME NEW t \in ToSet(p.kids)
            PROVE  \E s \in issues[p.issue].body.split : s[2] = t
        <4>1. PICK s \in issues[p.issue].body.split : s[1] \in Titled(issues, Normalized[t])
          BY <2>1, <3>1
        <4>2. Normalized[s[2]] = Normalized[t]
          BY <2>3, <4>1 DEF Titled
        <4> QED
          BY <1>5, <3>1, <4>1, <4>2 DEF ListedOtherwise
      <3> QED
        BY <3>1 DEF SplitAlreadyApplied
    <2> QED
      BY <1>2, <1>5, <2>2 DEF IssuePatches, Satisfied, PatchReferencesClosedIssue
  <1>6. CASE p.type = "MERGE_DUPLICATE"
    <2>1. ~issues[p.issue].open
      BY <1>6 DEF Holds
    <2> QED
      BY <1>2, <1>6, <2>1 DEF IssuePatches, PatchReferencesClosedIssue
  <1> QED
    BY <1>1, <1>3, <1>4, <1>5, <1>6 DEF IssuePatches

\* A reconcile after the applies finds nothing left of what was applied, where
\* the sessions speak of the epic's own issues.
THEOREM NothingLeftToPropose ==
    ASSUME Coherent, AboutTheEpic
    PROVE  Spec => []AppliedIsSettled
  <1>1. (edits = 0 => Truth) => AppliedIsSettled
    BY SettledPatch DEF Truth, TellTruth, AppliedIsSettled
  <1> QED
    BY <1>1, TruthHolds, PTL
=================================================================================
