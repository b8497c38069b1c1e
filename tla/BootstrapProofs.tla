----------------------------- MODULE BootstrapProofs ----------------------------
(***************************************************************************)
(* The questions of a bootstrap session, for any number of calls at once:  *)
(* a reply reaches the call that asked, and is given once.                 *)
(***************************************************************************)
EXTENDS Bootstrap, SiftProofs

Files == [of : Calls \cup {None}, whole : BOOLEAN]

Call0 == [at : {"idle", "writing", "waiting", "answered", "aborted", "failed"},
          slot : Slots \cup {0}, got : Calls \cup {None}]

Pump0 == [at : {"poll", "prompt", "writing"}, slot : Slots \cup {0},
          answered : SUBSET Slots, stopping : BOOLEAN]

TypeInv ==
    /\ call \in [Calls -> Call0]
    /\ question \in [Slots -> Files] /\ answer \in [Slots -> Files]
    /\ pump \in Pump0
    /\ replies \in [Calls -> Nat]

\* A call that has asked has one question file, and the file is its own.
Asked ==
    \A c \in Calls :
       /\ call[c].at \notin {"idle", "failed"} =>
             call[c].slot \in Slots /\ question[call[c].slot].of = c
       /\ \A n \in Slots : question[n].of = c => call[c].at # "idle" /\ call[c].slot = n

\* An answer is to the question of its slot, and was given once.
Answered ==
    /\ \A n \in Slots : question[n].of = None => question[n] = NoFile
    /\ \A n \in Slots :
          /\ answer[n] # NoFile => answer[n].of = question[n].of /\ question[n].of \in Calls
          /\ answer[n] = NoFile /\ n \notin pump.answered =>
                \A c \in Calls : question[n].of = c => replies[c] = 0
    /\ \A c \in Calls :
          /\ call[c].at = "idle" => replies[c] = 0
          /\ call[c].at # "idle" => replies[c] <= 1
          /\ call[c].got \in {c, None}

\* The pump stands before a question without an answer, or at its answer.
Pumps ==
    /\ pump.at = "prompt" =>
          /\ pump.slot \in Slots /\ question[pump.slot].of \in Calls
          /\ answer[pump.slot] = NoFile /\ pump.slot \notin pump.answered
    /\ pump.at = "writing" => pump.slot \in Slots /\ answer[pump.slot] # NoFile
                              /\ answer[pump.slot].of \in Calls

Inv == TypeInv /\ Asked /\ Answered /\ Pumps

LEMMA InitInv == ASSUME AskInit PROVE Inv
  <1> USE BootstrapAskAssumption DEF AskInit, NoFile
  <1>1. TypeInv
    BY DEF TypeInv, Call0, Pump0, Files
  <1>2. Asked
    BY DEF Asked
  <1>3. Answered
    BY DEF Answered
  <1>4. Pumps
    BY DEF Pumps
  <1> QED
    BY <1>1, <1>2, <1>3, <1>4 DEF Inv

(***************************************************************************)
(* The session's steps.                                                    *)
(***************************************************************************)
LEMMA AskKeeps ==
    ASSUME Inv, NEW c \in Calls, Ask(c)
    PROVE  Inv'
  <1> USE BootstrapAskAssumption DEF Inv
  <1>1. PICK n \in Slots :
          /\ question[n] = NoFile /\ answer[n] = NoFile
          /\ question' = [question EXCEPT ![n] = [of |-> c, whole |-> FALSE]]
          /\ call' = [call EXCEPT ![c] = [call[c] EXCEPT !.at = "writing", !.slot = n]]
    BY DEF Ask, Free
  <1> DEFINE k == [call[c] EXCEPT !.at = "writing", !.slot = n]
             f == [of |-> c, whole |-> FALSE]
  <1>0. /\ k \in Call0 /\ k.at = "writing" /\ k.slot = n /\ k.got = call[c].got
        /\ f \in Files
    <2>1. call[c] \in Call0
      BY DEF TypeInv
    <2>2. k \in Call0 /\ k.at = "writing" /\ k.slot = n /\ k.got = call[c].got
      BY <2>1 DEF Call0
    <2>3. f \in Files
      BY DEF Files
    <2> QED
      BY <2>2, <2>3
  <1>2. call[c].at = "idle" /\ UNCHANGED <<answer, pump, replies>>
    BY DEF Ask
  <1>3. /\ call'[c] = k
        /\ \A d \in Calls : d # c => call'[d] = call[d]
        /\ question'[n] = [of |-> c, whole |-> FALSE]
        /\ \A m \in Slots : m # n => question'[m] = question[m]
    BY <1>1, <1>0 DEF TypeInv
  <1>4. TypeInv'
    BY <1>1, <1>2, <1>0 DEF TypeInv
  <1>5. Asked'
    BY <1>0, <1>1, <1>2, <1>3 DEF TypeInv, Asked, NoFile
  <1>6. Answered'
    <2>1. \A m \in Slots : question'[m].of = None => question'[m] = NoFile
      BY <1>1, <1>3 DEF Answered
    <2>2. replies[c] = 0 /\ \A m \in Slots : question[m].of # c
      BY <1>2 DEF Asked, Answered
    <2>3. \A m \in Slots :
            /\ answer[m] # NoFile => answer[m].of = question'[m].of /\ question'[m].of \in Calls
            /\ answer[m] = NoFile /\ m \notin pump.answered =>
                  \A d \in Calls : question'[m].of = d => replies[d] = 0
      BY <1>1, <1>3, <2>2 DEF Answered
    <2>4. \A d \in Calls :
            /\ call'[d].at = "idle" => replies[d] = 0
            /\ call'[d].at # "idle" => replies[d] <= 1
            /\ call'[d].got \in {d, None}
      <3> SUFFICES ASSUME NEW d \in Calls
                   PROVE  /\ call'[d].at = "idle" => replies[d] = 0
                          /\ call'[d].at # "idle" => replies[d] <= 1
                          /\ call'[d].got \in {d, None}
        OBVIOUS
      <3>1. CASE d = c
        <4>1. call'[c].at = "writing" /\ call'[c].got = call[c].got
          BY <1>0, <1>3
        <4>2. call[c].got \in {c, None}
          BY DEF Answered
        <4> QED
          BY <2>2, <3>1, <4>1, <4>2
      <3>2. CASE d # c
        BY <1>3, <3>2 DEF Answered
      <3> QED
        BY <3>1, <3>2
    <2> QED
      BY <1>2, <2>1, <2>3, <2>4 DEF Answered
  <1>7. Pumps'
    BY <1>1, <1>2, <1>3 DEF TypeInv, Pumps, NoFile
  <1> QED
    BY <1>4, <1>5, <1>6, <1>7

\* A call goes on from a question that is there, and writes no file of its own.
LEMMA CallKeeps ==
    ASSUME Inv, NEW c \in Calls, AskTorn(c) \/ AskWritten(c) \/ Hear(c) \/ Abort(c)
    PROVE  Inv'
  <1> USE BootstrapAskAssumption DEF Inv
  <1>1. PICK k \in Call0 :
          /\ call' = [call EXCEPT ![c] = k]
          /\ k.at # "idle" /\ k.slot = call[c].slot /\ k.got \in {c, None}
    <2>0. call[c] \in Call0 /\ call[c].got \in {c, None}
      BY DEF TypeInv, Answered
    <2>1. CASE AskWritten(c)
      <3> DEFINE k == [call[c] EXCEPT !.at = "waiting"]
      <3>1. k \in Call0 /\ k.at # "idle" /\ k.slot = call[c].slot /\ k.got \in {c, None}
        BY <2>0 DEF Call0
      <3> QED
        BY <2>1, <3>1 DEF AskWritten
    <2>2. CASE Hear(c)
      <3>1. PICK got \in {c, None} :
               call' = [call EXCEPT ![c] = [call[c] EXCEPT !.at = "answered", !.got = got]]
        <4> DEFINE n == call[c].slot
        <4>1. answer[n].of = c
          BY <2>2 DEF Hear, Asked, Answered
        <4>2. (IF answer[n].whole THEN answer[n].of ELSE None) \in {c, None}
          BY <4>1
        <4> QED
          BY <2>2, <4>2 DEF Hear
      <3> DEFINE k == [call[c] EXCEPT !.at = "answered", !.got = got]
      <3>2. k \in Call0 /\ k.at # "idle" /\ k.slot = call[c].slot /\ k.got \in {c, None}
        BY <2>0 DEF Call0
      <3> QED
        BY <3>1, <3>2
    <2>3. CASE Abort(c)
      <3> DEFINE k == [call[c] EXCEPT !.at = "aborted"]
      <3>1. k \in Call0 /\ k.at # "idle" /\ k.slot = call[c].slot /\ k.got \in {c, None}
        BY <2>0 DEF Call0
      <3> QED
        BY <2>3, <3>1 DEF Abort
    <2>4. CASE AskTorn(c)
      <3> DEFINE k == [call[c] EXCEPT !.at = "failed"]
      <3>1. k \in Call0 /\ k.at # "idle" /\ k.slot = call[c].slot /\ k.got \in {c, None}
        BY <2>0 DEF Call0
      <3> QED
        BY <2>4, <3>1 DEF AskTorn
    <2> QED
      BY <2>1, <2>2, <2>3, <2>4
  <1>2. call[c].at \in {"writing", "waiting"} /\ UNCHANGED <<answer, pump, replies>>
    BY DEF AskTorn, AskWritten, Hear, Abort
  <1>3. /\ question' \in [Slots -> Files]
        /\ \A n \in Slots : question'[n].of = question[n].of
        /\ \A n \in Slots : question[n].of = None => question'[n] = question[n]
    <2> DEFINE n == call[c].slot
    <2>1. n \in Slots /\ question[n].of = c /\ question[n] \in Files
      BY <1>2 DEF Asked, TypeInv
    <2>2. CASE UNCHANGED question
      BY <2>2 DEF TypeInv
    <2>3. CASE question' = [question EXCEPT ![n].whole = TRUE]
      <3> DEFINE f == [question[n] EXCEPT !.whole = TRUE]
      <3>1. f \in Files /\ f.of = c
        BY <2>1 DEF Files
      <3> QED
        BY <2>1, <2>3, <3>1 DEF TypeInv
    <2> QED
      BY <2>2, <2>3 DEF AskTorn, AskWritten, Hear, Abort
  <1>4. /\ call'[c] = k
        /\ \A d \in Calls : d # c => call'[d] = call[d]
    BY <1>1 DEF TypeInv
  <1>5. TypeInv'
    BY <1>1, <1>2, <1>3 DEF TypeInv
  <1>6. Asked'
    BY <1>1, <1>2, <1>3, <1>4 DEF Asked
  <1>7. Answered'
    BY <1>1, <1>2, <1>3, <1>4 DEF Answered
  <1>8. Pumps'
    BY <1>2, <1>3 DEF Pumps
  <1> QED
    BY <1>5, <1>6, <1>7, <1>8

\* A call whose file cannot be created has none.
LEMMA AskFailsKeeps ==
    ASSUME Inv, NEW c \in Calls, AskFails(c)
    PROVE  Inv'
  <1> USE BootstrapAskAssumption DEF Inv
  <1> DEFINE k == [call[c] EXCEPT !.at = "failed"]
  <1>1. /\ call' = [call EXCEPT ![c] = k] /\ call[c].at = "idle"
        /\ UNCHANGED <<question, answer, pump, replies>>
    BY DEF AskFails
  <1>2. k \in Call0 /\ k.at = "failed" /\ k.got = call[c].got
    <2>1. call[c] \in Call0
      BY DEF TypeInv
    <2> QED
      BY <2>1 DEF Call0
  <1>3. /\ call'[c] = k
        /\ \A d \in Calls : d # c => call'[d] = call[d]
    BY <1>1 DEF TypeInv
  <1>4. TypeInv'
    BY <1>1, <1>2 DEF TypeInv
  <1>5. Asked'
    BY <1>1, <1>2, <1>3 DEF Asked
  <1>6. Answered'
    BY <1>1, <1>2, <1>3 DEF Answered
  <1>7. Pumps'
    BY <1>1 DEF Pumps
  <1> QED
    BY <1>4, <1>5, <1>6, <1>7

(***************************************************************************)
(* The pump's steps.                                                       *)
(***************************************************************************)
LEMMA ReplyKeeps ==
    ASSUME Inv, Reply
    PROVE  Inv'
  <1> USE BootstrapAskAssumption DEF Inv
  <1> DEFINE n == pump.slot
             c == question[n].of
  <1>1. n \in Slots /\ c \in Calls /\ answer[n] = NoFile /\ replies[c] = 0
    BY DEF Reply, Pumps, Answered
  <1>0. pump'.answered = pump.answered \cup {n}
    BY DEF Reply, TypeInv, Pump0
  <1>2. /\ replies' = [replies EXCEPT ![c] = 1]
        /\ answer' = [answer EXCEPT ![n] = [of |-> c, whole |-> FALSE]]
        /\ pump' = [pump EXCEPT !.at = "writing", !.answered = @ \cup {n}]
        /\ UNCHANGED <<call, question>>
    BY <1>1 DEF Reply
  <1>3. /\ replies'[c] = 1 /\ \A d \in Calls : d # c => replies'[d] = replies[d]
        /\ answer'[n] = [of |-> c, whole |-> FALSE]
        /\ \A m \in Slots : m # n => answer'[m] = answer[m]
    BY <1>1, <1>2 DEF TypeInv
  <1>4. call[c].at # "idle" /\ call[c].slot = n
    BY <1>1 DEF Asked
  <1>5. TypeInv'
    <2>1. pump' \in Pump0
      BY <1>1, <1>2 DEF TypeInv, Pump0
    <2>2. [of |-> c, whole |-> FALSE] \in Files
      BY <1>1 DEF Files
    <2> QED
      BY <1>1, <1>2, <2>1, <2>2 DEF TypeInv
  <1>6. Asked'
    BY <1>2 DEF Asked
  <1>7. Answered'
    <2>1. \A m \in Slots : answer'[m] # NoFile =>
             answer'[m].of = question[m].of /\ question[m].of \in Calls
      BY <1>1, <1>3 DEF Answered
    <2>2. \A m \in Slots : answer'[m] = NoFile /\ m \notin pump'.answered =>
             \A d \in Calls : question[m].of = d => replies'[d] = 0
      <3> SUFFICES ASSUME NEW m \in Slots, answer'[m] = NoFile, m \notin pump'.answered,
                          NEW d \in Calls, question[m].of = d
                   PROVE  replies'[d] = 0
        OBVIOUS
      <3>1. m # n
        BY <1>0
      <3>2. d # c
        BY <1>4, <3>1 DEF Asked
      <3> QED
        BY <1>0, <1>3, <3>1, <3>2 DEF Answered
    <2>3. \A d \in Calls :
            /\ call[d].at = "idle" => replies'[d] = 0
            /\ call[d].at # "idle" => replies'[d] <= 1
            /\ call[d].got \in {d, None}
      BY <1>3, <1>4 DEF Answered
    <2> QED
      BY <1>2, <2>1, <2>2, <2>3 DEF Answered
  <1>8. Pumps'
    BY <1>1, <1>2, <1>3 DEF Pumps, TypeInv, NoFile
  <1> QED
    BY <1>5, <1>6, <1>7, <1>8

\* A reply that is lost has been given: its question is not put again.
LEMMA ReplyFailsKeeps ==
    ASSUME Inv, ReplyFails
    PROVE  Inv'
  <1> USE BootstrapAskAssumption DEF Inv
  <1> DEFINE n == pump.slot
             c == question[n].of
  <1>1. n \in Slots /\ c \in Calls /\ answer[n] = NoFile /\ replies[c] = 0
    BY DEF ReplyFails, Pumps, Answered
  <1>2. /\ replies' = [replies EXCEPT ![c] = 1]
        /\ pump' = [pump EXCEPT !.at = "poll", !.slot = 0, !.answered = @ \cup {n}]
        /\ UNCHANGED <<call, question, answer>>
    BY <1>1 DEF ReplyFails
  <1>3. replies'[c] = 1 /\ \A d \in Calls : d # c => replies'[d] = replies[d]
    BY <1>1, <1>2 DEF TypeInv
  <1>4. call[c].at # "idle" /\ call[c].slot = n
    BY <1>1 DEF Asked
  <1>5. pump' \in Pump0 /\ pump'.at = "poll" /\ pump'.answered = pump.answered \cup {n}
    BY <1>1, <1>2 DEF TypeInv, Pump0
  <1>6. TypeInv'
    BY <1>1, <1>2, <1>5 DEF TypeInv
  <1>7. Asked'
    BY <1>2 DEF Asked
  <1>8. Answered'
    <2>1. \A m \in Slots : answer[m] = NoFile /\ m \notin pump'.answered =>
             \A d \in Calls : question[m].of = d => replies'[d] = 0
      <3> SUFFICES ASSUME NEW m \in Slots, answer[m] = NoFile, m \notin pump'.answered,
                          NEW d \in Calls, question[m].of = d
                   PROVE  replies'[d] = 0
        OBVIOUS
      <3>1. m # n /\ m \notin pump.answered
        BY <1>5
      <3>2. d # c
        BY <1>4, <3>1 DEF Asked
      <3> QED
        BY <1>3, <3>1, <3>2 DEF Answered
    <2>2. \A d \in Calls :
            /\ call[d].at = "idle" => replies'[d] = 0
            /\ call[d].at # "idle" => replies'[d] <= 1
            /\ call[d].got \in {d, None}
      BY <1>3, <1>4 DEF Answered
    <2> QED
      BY <1>2, <2>1, <2>2 DEF Answered
  <1>9. Pumps'
    BY <1>5 DEF Pumps
  <1> QED
    BY <1>6, <1>7, <1>8, <1>9

LEMMA PumpKeeps ==
    ASSUME Inv, Poll \/ ReplyTorn \/ ReplyWritten \/ PromptFails
    PROVE  Inv'
  <1> USE BootstrapAskAssumption DEF Inv
  <1>1. CASE Poll
    <2>1. PICK n \in Slots :
            /\ Open(n)
            /\ pump' = [pump EXCEPT !.at = "prompt", !.slot = n]
      BY <1>1 DEF Poll
    <2>4. question[n] # NoFile /\ answer[n] = NoFile /\ n \notin pump.answered
      BY <2>1 DEF Open
    <2>2. UNCHANGED <<call, question, answer, replies>>
      BY <1>1 DEF Poll
    <2>3. question[n].of \in Calls
      BY <2>4 DEF Answered, TypeInv, Files
    <2> QED
      <3>1. pump' \in Pump0 /\ pump'.at = "prompt" /\ pump'.slot = n
            /\ pump'.answered = pump.answered
        BY <2>1 DEF TypeInv, Pump0
      <3> QED
        BY <2>2, <2>3, <2>4, <3>1 DEF TypeInv, Asked, Answered, Pumps
  <1>2. CASE ReplyWritten
    <2> DEFINE n == pump.slot
    <2>1. n \in Slots /\ answer[n] # NoFile /\ answer[n].of \in Calls
      BY <1>2 DEF ReplyWritten, Pumps
    <2>2. /\ answer' = [answer EXCEPT ![n].whole = TRUE]
          /\ pump' = [pump EXCEPT !.at = "poll", !.slot = 0]
          /\ UNCHANGED <<call, question, replies>>
      BY <1>2 DEF ReplyWritten
    <2>3. /\ answer'[n] # NoFile /\ answer'[n].of = answer[n].of
          /\ \A m \in Slots : m # n => answer'[m] = answer[m]
      BY <2>1, <2>2 DEF TypeInv, Files, NoFile
    <2>7. pump'.answered = pump.answered
      BY <2>2 DEF TypeInv, Pump0
    <2>4. TypeInv'
      <3>1. answer' \in [Slots -> Files]
        BY <2>1, <2>2 DEF TypeInv, Files
      <3>2. pump' \in Pump0
        BY <2>2 DEF TypeInv, Pump0
      <3> QED
        BY <2>2, <3>1, <3>2 DEF TypeInv
    <2>5. Asked' /\ Pumps'
      BY <2>2 DEF TypeInv, Pump0, Asked, Pumps
    <2>6. Answered'
      BY <2>1, <2>2, <2>3, <2>7 DEF Answered
    <2> QED
      BY <2>4, <2>5, <2>6
  <1>3. CASE PromptFails \/ ReplyTorn
    <2>1. pump' \in Pump0 /\ pump'.at = "poll" /\ pump'.answered = pump.answered
      BY <1>3 DEF PromptFails, ReplyTorn, TypeInv, Pump0
    <2>2. UNCHANGED <<call, question, answer, replies>>
      BY <1>3 DEF PromptFails, ReplyTorn
    <2> QED
      BY <2>1, <2>2 DEF TypeInv, Asked, Answered, Pumps
  <1> QED
    BY <1>1, <1>2, <1>3

LEMMA NextKeeps == Inv /\ [AskNext]_askVars => Inv'
  <1> SUFFICES ASSUME Inv, [AskNext]_askVars PROVE Inv'
    OBVIOUS
  <1>1. ASSUME NEW c \in Calls,
               \/ Ask(c) \/ AskFails(c) \/ AskTorn(c) \/ AskWritten(c)
               \/ Hear(c) \/ Abort(c)
        PROVE  Inv'
    BY <1>1, AskKeeps, AskFailsKeeps, CallKeeps
  <1>2. CASE Poll \/ PromptFails \/ Reply \/ ReplyFails \/ ReplyTorn \/ ReplyWritten
    BY <1>2, PumpKeeps, ReplyKeeps, ReplyFailsKeeps
  <1>3. CASE SessionEnds \/ SavePlan \/ UNCHANGED askVars
    <2>1. UNCHANGED <<call, question, answer, replies>>
      BY <1>3 DEF SessionEnds, SavePlan, askVars
    <2>2. pump' \in Pump0 /\ pump'.at = pump.at /\ pump'.slot = pump.slot
          /\ pump'.answered = pump.answered
      BY <1>3 DEF SessionEnds, SavePlan, askVars, Inv, TypeInv, Pump0
    <2> QED
      BY <2>1, <2>2 DEF Inv, TypeInv, Asked, Answered, Pumps
  <1> QED
    BY <1>1, <1>2, <1>3 DEF AskNext

\* However many calls of ask_human overlap, and whichever prompts and writes of
\* files fail, a call hears the reply to its own question or nothing, and the operator replies to
\* a question once.
THEOREM EachHearsItsOwn == Spec => []RepliesGoHome
  <1>1. Init => Inv
    BY InitInv DEF Init
  <1>2. [Next]_vars => [AskNext]_askVars
    BY DEF Next, vars
  <1>3. Inv => RepliesGoHome
    BY DEF Inv, TypeInv, Answered, RepliesGoHome
  <1> QED
    BY <1>1, <1>2, <1>3, NextKeeps, PTL DEF Spec

(***************************************************************************)
(* The application of the plan. A plan, in memory or on disk, never says   *)
(* more than GitHub has: that is so of both at once, and stays so whatever *)
(* the command does next and wherever it is stopped.                       *)
(***************************************************************************)
StepSet == {"board", "epics", "issues", "links", "checklists", "cards", "config"}
Columns == {"none", "Todo", "In Progress"}

PlanType == [number : [Items -> IssueNumbers \cup {Nothing}], linked : SUBSET Kids,
             done : SUBSET StepSet]
RunType  == [at : {"work", "save", "ended"}, plan : PlanType, visited : SUBSET Items]

ApplyTypes ==
    /\ issues \in [IssueNumbers -> Issue \cup {NoIssue}]
    /\ parent \in [IssueNumbers -> IssueNumbers \cup {Nothing}]
    /\ boards \in {0, 1}
    /\ card \in [IssueNumbers -> Columns]
    /\ disk \in PlanType
    /\ run \in RunType

\* The numbers of a plan are those of issues of its titles.
Numbered(p, is) ==
    \A t \in Items : p.number[t] # Nothing => p.number[t] \in Titled(is, TitleOf(t))

\* A child that counts as linked is a sub-issue of its epic.
LinkedUp(p, par) ==
    \A t \in p.linked :
       /\ p.number[t] # Nothing /\ p.number[EpicOf[t]] # Nothing
       /\ par[p.number[t]] = p.number[EpicOf[t]]

\* The children of epic e are in its checklist, if it writes last.
Ticked(p, is, e) ==
    WritesLast(e) =>
       \A t \in KidsOf(e) : <<p.number[t], TitleOf(t)>> \in is[p.number[e]].body.links

Carded(p, cd, t) == cd[p.number[t]] # "none"

\* What each step that is done has left, ...
Gives(step, p, is, bs, cd, cf) ==
    /\ step = "board" => bs = 1
    /\ step = "epics" => \A t \in Epics : p.number[t] # Nothing
    /\ step = "issues" => \A t \in Kids : p.number[t] # Nothing
    /\ step = "links" => Kids \subseteq p.linked
    /\ step = "checklists" => \A e \in Epics : Ticked(p, is, e)
    /\ step = "cards" => \A t \in Items : Carded(p, cd, t)
    /\ step = "config" => (HasConfig => cf)

StepsDone(p, is, bs, cd, cf) == \A step \in p.done : Gives(step, p, is, bs, cd, cf)

\* ... and those before it are done.
InOrder(done) ==
    /\ "epics" \in done => "board" \in done
    /\ "issues" \in done => "epics" \in done
    /\ "links" \in done => "issues" \in done
    /\ "checklists" \in done => "links" \in done
    /\ "cards" \in done => "checklists" \in done
    /\ "config" \in done => "cards" \in done

Fits(p, is, par, bs, cd, cf) ==
    Numbered(p, is) /\ LinkedUp(p, par) /\ StepsDone(p, is, bs, cd, cf) /\ InOrder(p.done)

\* What the two loops that write nothing are past is done, in the order of the
\* plan. A plan is saved with no loop on its way.
Passed ==
    /\ run.at = "save" => run.visited = {}
    /\ At("checklists") =>
          \A e \in run.visited \cap Epics :
             /\ Ticked(run.plan, issues, e)
             /\ \A f \in Epics : f < e => f \in run.visited
    /\ At("cards") => \A t \in run.visited : Carded(run.plan, card, t)

\* A title of the plan has an issue at most, and the one it had.
Single(is) ==
    \A t \in PlanTitles :
       IF Titled(Earlier, t) # {} THEN Titled(is, t) = Titled(Earlier, t)
                                  ELSE \A m, n \in Titled(is, t) : m = n

ApplyInv ==
    /\ ApplyTypes
    /\ Single(issues)
    /\ Fits(disk, issues, parent, boards, card, config)
    /\ Fits(run.plan, issues, parent, boards, card, config)
    /\ run.at # "ended" => disk.done \subseteq run.plan.done
    /\ Passed

(***************************************************************************)
(* What is assumed, and the operators of the plan.                         *)
(***************************************************************************)
LEMMA PlanFacts ==
    /\ Epics \subseteq Items /\ Kids \subseteq Items /\ Items = Epics \cup Kids
    /\ Items \subseteq Nat
    /\ \A t \in Items : TitleOf(t) \in PlanTitles
    /\ PlanTitles \subseteq IssueTitles
    /\ \A t \in Items : TitleOf(t) \in IssueTitles
    /\ Nothing \notin IssueNumbers /\ Nothing \notin IssueTitles
    /\ EpicOf \in [Kids -> Epics]
    /\ \A e : KidsOf(e) \subseteq Kids
    /\ \A e : \A t \in KidsOf(e) : EpicOf[t] = e
    /\ IssueNumbers \subseteq Nat /\ IsFiniteSet(IssueNumbers)
  <1>1. Epics \subseteq Nat /\ \A t \in Epics : EpicTitles[t] \in IssueTitles
    BY BootstrapApplyAssumption DEF Epics
  <1>2. ASSUME NEW t \in Kids
        PROVE  t \in Nat /\ KidTitles[t - Len(EpicTitles)] \in IssueTitles
    <2>1. PICK k \in 1..Len(KidTitles) : t = Len(EpicTitles) + k
      BY DEF Kids
    <2>2. Len(EpicTitles) \in Nat /\ t - Len(EpicTitles) = k
      BY <2>1, BootstrapApplyAssumption
    <2> QED
      BY <2>1, <2>2, BootstrapApplyAssumption
  <1>3. \A t \in Items : TitleOf(t) \in IssueTitles
    BY <1>1, <1>2 DEF Items, TitleOf
  <1> QED
    BY <1>1, <1>2, <1>3, BootstrapApplyAssumption, TrackerAssumption
    DEF Items, PlanTitles, KidsOf

\* The item at work is the first one left.
LEMMA ItemIsLeft ==
    ASSUME ApplyTypes, NEW step \in {"epics", "issues", "links", "checklists", "cards"},
           ToDo(step) # {}
    PROVE  /\ Item(step) \in ToDo(step)
           /\ \A t \in ToDo(step) : Item(step) <= t
           /\ Item(step) \in Items
           /\ step \in {"epics", "checklists"} => Item(step) \in Epics
           /\ step \in {"issues", "links"} => Item(step) \in Kids
  <1>1. /\ ToDo(step) \subseteq Items
        /\ step \in {"epics", "checklists"} => ToDo(step) \subseteq Epics
        /\ step \in {"issues", "links"} => ToDo(step) \subseteq Kids
    BY PlanFacts DEF ToDo, Unnumbered
  <1>2. \E m \in ToDo(step) : \A t \in ToDo(step) : m <= t
    BY <1>1, PlanFacts, LeastNumber
  <1>3. Item(step) \in ToDo(step) /\ \A t \in ToDo(step) : Item(step) <= t
    BY <1>2 DEF Item, Min
  <1> QED
    BY <1>1, <1>3

\* The step at work is the first that is not done.
LEMMA AtMeans ==
    ASSUME ApplyTypes, NEW step, At(step)
    PROVE  /\ run.at = "work" /\ step \in StepSet /\ step \notin run.plan.done
           /\ step \in {"epics", "issues", "links", "checklists", "cards", "config"} =>
                 "board" \in run.plan.done
           /\ step \in {"issues", "links", "checklists", "cards", "config"} =>
                 "epics" \in run.plan.done
           /\ step \in {"links", "checklists", "cards", "config"} => "issues" \in run.plan.done
           /\ step \in {"checklists", "cards", "config"} => "links" \in run.plan.done
           /\ step \in {"cards", "config"} => "checklists" \in run.plan.done
           /\ step = "config" => "cards" \in run.plan.done
  <1>1. PICK k \in 1..7 : Steps[k] = step /\ \A j \in 1..(k - 1) : Steps[j] \in run.plan.done
    BY DEF At, Steps
  <1>2. /\ Steps[1] = "board" /\ Steps[2] = "epics" /\ Steps[3] = "issues" /\ Steps[4] = "links"
        /\ Steps[5] = "checklists" /\ Steps[6] = "cards" /\ Steps[7] = "config"
    BY DEF Steps
  <1>3. k = 1 \/ k = 2 \/ k = 3 \/ k = 4 \/ k = 5 \/ k = 6 \/ k = 7
    OBVIOUS
  <1>4. /\ k > 1 => "board" \in run.plan.done
        /\ k > 2 => "epics" \in run.plan.done
        /\ k > 3 => "issues" \in run.plan.done
        /\ k > 4 => "links" \in run.plan.done
        /\ k > 5 => "checklists" \in run.plan.done
        /\ k > 6 => "cards" \in run.plan.done
    BY <1>1, <1>2
  <1> QED
    BY <1>1, <1>2, <1>3, <1>4 DEF At, StepSet

(***************************************************************************)
(* What the requests do to the issues.                                     *)
(***************************************************************************)
IssueTable == [IssueNumbers -> Issue \cup {NoIssue}]

LEMMA IssueFields ==
    ASSUME NEW is \in IssueTable, NEW n \in Existing(is)
    PROVE  /\ is[n] \in Issue /\ n \in IssueNumbers
           /\ is[n].title \in IssueTitles /\ is[n].body \in Body
  <1>1. is[n] \in Issue \cup {NoIssue} /\ is[n].title # Nothing /\ n \in IssueNumbers
    BY DEF IssueTable, Existing
  <1>2. NoIssue.title = Nothing
    BY DEF NoIssue
  <1>3. is[n] \in Issue
    BY <1>1, <1>2
  <1> QED
    BY <1>1, <1>3 DEF Issue

\* The search by title finds an issue of that title, if there is one.
LEMMA FindFinds ==
    ASSUME NEW is, NEW t
    PROVE  \/ FindIssueByTitle(is, t) = Nothing /\ Titled(is, t) = {}
           \/ FindIssueByTitle(is, t) \in Titled(is, t)
  <1> DEFINE open == {n \in Titled(is, t) : is[n].open}
  <1>1. Titled(is, t) \subseteq IssueNumbers
    BY DEF Titled, Existing
  <1>2. ASSUME NEW S, S \subseteq Titled(is, t), S # {}
        PROVE  Max(S) \in S
    <2>1. S \subseteq Nat /\ IsFiniteSet(S)
      BY <1>1, <1>2, TrackerAssumption, FS_Subset
    <2>2. \E m \in S : \A n \in S : m >= n
      BY <1>2, <2>1, GreatestNumber
    <2> QED
      BY <2>2 DEF Max
  <1>3. CASE open # {}
    BY <1>2, <1>3 DEF FindIssueByTitle
  <1>4. CASE open = {} /\ Titled(is, t) # {}
    BY <1>2, <1>4 DEF FindIssueByTitle
  <1>5. CASE Titled(is, t) = {}
    BY <1>5 DEF FindIssueByTitle
  <1> QED
    BY <1>3, <1>4, <1>5

LEMMA PlainIsBody ==
    ASSUME NEW t \in IssueTitles, NEW l \in SUBSET (IssueNumbers \X IssueTitles)
    PROVE  /\ PlainBody(t) \in Body
           /\ [PlainBody(t) EXCEPT !.links = l] \in Body
           /\ [PlainBody(t) EXCEPT !.links = l].links = l
  BY DEF PlainBody, Body

\* A new issue has a number no issue had, and leaves all others as they are.
LEMMA CreateAdds ==
    ASSUME NEW is \in IssueTable, NEW t \in IssueTitles, HasNext(is),
           NEW n, n = NextNumber(is),
           NEW js, js = CreateIssue(is, t, PlainBody(t), {})
    PROVE  /\ n \in IssueNumbers /\ n \notin Existing(is)
           /\ js \in IssueTable
           /\ \A u : Titled(js, u) = IF u = t THEN Titled(is, u) \cup {n} ELSE Titled(is, u)
           /\ \A m \in Existing(is) : js[m] = is[m]
  <1> DEFINE free == IssueNumbers \ Existing(is)
             new == NewIssue(t, PlainBody(t), {})
  <1>1. n \in free
    <2>1. free # {} /\ free \subseteq Nat
      BY TrackerAssumption DEF HasNext, Existing
    <2>2. \E m \in free : \A k \in free : m <= k
      BY <2>1, LeastNumber
    <2> QED
      BY <2>2 DEF NextNumber, Min
  <1>2. t # Nothing
    BY PlanFacts
  <1>3. new \in Issue /\ new.title = t
    <2>1. PlainBody(t) \in Body
      BY <1>2, PlainIsBody
    <2> QED
      BY <1>2, <2>1 DEF NewIssue, Issue
  <1>4. js = [is EXCEPT ![n] = new]
    BY DEF CreateIssue
  <1> HIDE DEF new
  <1>5. js \in IssueTable
    BY <1>1, <1>3, <1>4 DEF IssueTable
  <1>6. js[n] = new /\ \A m \in IssueNumbers : m # n => js[m] = is[m]
    BY <1>1, <1>4 DEF IssueTable
  <1>7. Existing(js) = Existing(is) \cup {n}
    BY <1>1, <1>2, <1>3, <1>6 DEF Existing
  <1>8. ASSUME NEW u
        PROVE  Titled(js, u) = IF u = t THEN Titled(is, u) \cup {n} ELSE Titled(is, u)
    <2>1. \A m \in Existing(is) : js[m] = is[m]
      BY <1>1, <1>6 DEF Existing
    <2> QED
      BY <1>1, <1>3, <1>6, <1>7, <2>1 DEF Titled
  <1> QED
    BY <1>1, <1>5, <1>6, <1>8 DEF Existing

\* A body that is replaced or edited leaves the titles.
LEMMA BodyChanges ==
    ASSUME NEW is \in IssueTable, NEW n \in Existing(is), NEW body \in Body,
           NEW js, js = UpdateIssueBody(is, n, body)
    PROVE  /\ js \in IssueTable
           /\ \A u : Titled(js, u) = Titled(is, u)
           /\ js[n].body = body
           /\ \A m \in IssueNumbers : m # n => js[m] = is[m]
  <1>1. is[n] \in Issue /\ n \in IssueNumbers
    BY IssueFields
  <1> DEFINE i == [is[n] EXCEPT !.body = body]
  <1>2. i \in Issue /\ i.title = is[n].title /\ i.body = body
    BY <1>1 DEF Issue
  <1>3. js = [is EXCEPT ![n] = i]
    BY DEF UpdateIssueBody
  <1> HIDE DEF i
  <1>4. js \in IssueTable
    BY <1>1, <1>2, <1>3 DEF IssueTable
  <1>5. js[n] = i /\ \A m \in IssueNumbers : m # n => js[m] = is[m]
    BY <1>1, <1>3 DEF IssueTable
  <1>6. \A m \in IssueNumbers : js[m].title = is[m].title
    BY <1>2, <1>5
  <1>7. Existing(js) = Existing(is)
    BY <1>6 DEF Existing
  <1>8. ASSUME NEW u PROVE Titled(js, u) = Titled(is, u)
    BY <1>6, <1>7 DEF Titled, Existing
  <1> QED
    BY <1>2, <1>4, <1>5, <1>8

(***************************************************************************)
(* A plan goes on to fit when GitHub only gains: issues of more titles,    *)
(* parents for those that had none, cards, and a checklist that stays.     *)
(***************************************************************************)
LEMMA StillFits ==
    ASSUME NEW p \in PlanType, NEW is, NEW par, NEW bs, NEW cd, NEW cf,
           Fits(p, is, par, bs, cd, cf),
           NEW is2, NEW par2, NEW bs2, NEW cd2, NEW cf2,
           \A t \in PlanTitles : Titled(is, t) \subseteq Titled(is2, t),
           \A n \in IssueNumbers : par[n] # Nothing => par2[n] = par[n],
           bs = 1 => bs2 = 1,
           \A n \in IssueNumbers : cd[n] # "none" => cd2[n] # "none",
           cf => cf2,
           "checklists" \in p.done => \A e \in Epics : Ticked(p, is, e) => Ticked(p, is2, e)
    PROVE  Fits(p, is2, par2, bs2, cd2, cf2)
  <1>1. /\ p.number \in [Items -> IssueNumbers \cup {Nothing}]
        /\ p.linked \subseteq Kids /\ p.done \subseteq StepSet
    BY DEF PlanType
  <1>2. Numbered(p, is2)
    BY PlanFacts DEF Fits, Numbered
  <1>3. LinkedUp(p, par2)
    <2>1. ASSUME NEW t \in p.linked
          PROVE  /\ p.number[t] # Nothing /\ p.number[EpicOf[t]] # Nothing
                 /\ par2[p.number[t]] = p.number[EpicOf[t]]
      <3>1. /\ p.number[t] # Nothing /\ p.number[EpicOf[t]] # Nothing
            /\ par[p.number[t]] = p.number[EpicOf[t]]
        BY DEF Fits, LinkedUp
      <3>2. p.number[t] \in IssueNumbers
        BY <1>1, <3>1, PlanFacts
      <3> QED
        BY <3>1, <3>2
    <2> QED
      BY <2>1 DEF LinkedUp
  <1>4. ASSUME NEW step \in p.done
        PROVE  Gives(step, p, is2, bs2, cd2, cf2)
    <2>1. Gives(step, p, is, bs, cd, cf)
      BY DEF Fits, StepsDone
    <2>2. step = "cards" => \A t \in Items : Carded(p, cd2, t)
      <3>1. ASSUME step = "cards", NEW t \in Items
            PROVE  Carded(p, cd2, t)
        <4>1. "epics" \in p.done /\ "issues" \in p.done
          BY <3>1 DEF Fits, InOrder
        <4>2. Gives("epics", p, is, bs, cd, cf) /\ Gives("issues", p, is, bs, cd, cf)
          BY <4>1 DEF Fits, StepsDone
        <4>3. p.number[t] \in IssueNumbers
          BY <1>1, <4>2, PlanFacts DEF Gives
        <4> QED
          BY <2>1, <3>1, <4>3 DEF Gives, Carded
      <3> QED
        BY <3>1
    <2>3. step = "checklists" => \A e \in Epics : Ticked(p, is2, e)
      BY <2>1 DEF Gives
    <2> QED
      BY <2>1, <2>2, <2>3 DEF Gives
  <1> QED
    BY <1>2, <1>3, <1>4 DEF Fits, StepsDone

\* A step more counts as done.
LEMMA DoneFits ==
    ASSUME NEW p \in PlanType, NEW q, NEW step,
           NEW is, NEW par, NEW bs, NEW cd, NEW cf,
           Fits(p, is, par, bs, cd, cf),
           q.number = p.number, q.linked = p.linked, q.done = p.done \cup {step},
           Gives(step, p, is, bs, cd, cf), InOrder(q.done)
    PROVE  Fits(q, is, par, bs, cd, cf)
  <1>1. Numbered(q, is) /\ LinkedUp(q, par)
    BY DEF Fits, Numbered, LinkedUp
  <1>2. ASSUME NEW s \in q.done PROVE Gives(s, q, is, bs, cd, cf)
    <2>1. Gives(s, p, is, bs, cd, cf)
      BY DEF Fits, StepsDone
    <2> QED
      BY <2>1 DEF Gives, Ticked, Carded
  <1> QED
    BY <1>1, <1>2 DEF Fits, StepsDone

(***************************************************************************)
(* The command's memory.                                                   *)
(***************************************************************************)
LEMMA Noted ==
    ASSUME NEW p \in PlanType, Note(p)
    PROVE  run' \in RunType /\ run'.at = "save" /\ run'.plan = p /\ Passed'
  <1>1. run' = [at |-> "save", plan |-> p, visited |-> {}]
    BY DEF Note
  <1>2. run' \in RunType /\ run'.at = "save" /\ run'.plan = p /\ run'.visited = {}
    BY <1>1 DEF RunType
  <1>3. ~At("checklists")' /\ ~At("cards")'
    BY <1>2 DEF At
  <1> QED
    BY <1>2, <1>3 DEF Passed

LEMMA FreshFits ==
    /\ Fresh \in PlanType /\ Ended \in RunType /\ Ended.at = "ended" /\ Ended.plan = Fresh
    /\ \A is, par, bs, cd, cf : Fits(Fresh, is, par, bs, cd, cf)
  <1>1. /\ Fresh \in PlanType /\ Fresh.done = {} /\ Fresh.linked = {}
        /\ \A t \in Items : Fresh.number[t] = Nothing
    BY DEF Fresh, PlanType
  <1>2. Ended \in RunType /\ Ended.at = "ended" /\ Ended.plan = Fresh
    BY <1>1 DEF Ended, RunType
  <1>3. ASSUME NEW is, NEW par, NEW bs, NEW cd, NEW cf
        PROVE  Fits(Fresh, is, par, bs, cd, cf)
    BY <1>1 DEF Fits, Numbered, LinkedUp, StepsDone, InOrder
  <1> QED
    BY <1>1, <1>2, <1>3

\* A plan with a step, a number or a link more.
LEMMA PlanChanges ==
    ASSUME NEW p \in PlanType
    PROVE  /\ \A step \in StepSet :
                 LET q == [p EXCEPT !.done = @ \cup {step}]
                 IN  /\ q \in PlanType /\ q.done = p.done \cup {step}
                     /\ q.number = p.number /\ q.linked = p.linked
           /\ \A t \in Items, n \in IssueNumbers :
                 LET q == [p EXCEPT !.number[t] = n]
                 IN  /\ q \in PlanType /\ q.done = p.done /\ q.linked = p.linked
                     /\ q.number[t] = n
                     /\ \A u \in Items : u # t => q.number[u] = p.number[u]
           /\ \A t \in Kids :
                 LET q == [p EXCEPT !.linked = @ \cup {t}]
                 IN  /\ q \in PlanType /\ q.done = p.done /\ q.linked = p.linked \cup {t}
                     /\ q.number = p.number
  BY DEF PlanType

\* What the actions on memory and disk leave alone keeps.
LEMMA ApplyStutters ==
    ASSUME ApplyInv, UNCHANGED applyVars PROVE ApplyInv'
  <1>1. UNCHANGED <<issues, parent, boards, card, config, disk, run>>
    BY DEF applyVars, github, bounds
  <1>2. ApplyTypes' /\ Single(issues)'
    BY <1>1 DEF ApplyInv, ApplyTypes, Single
  <1>3. /\ Fits(disk, issues, parent, boards, card, config)'
        /\ Fits(run.plan, issues, parent, boards, card, config)'
    BY <1>1 DEF ApplyInv
  <1>4. Passed'
    <2>1. Passed
      BY DEF ApplyInv
    <2> QED
      BY <1>1, <2>1 DEF Passed, At
  <1> QED
    BY <1>1, <1>2, <1>3, <1>4 DEF ApplyInv

LEMMA EndKeeps ==
    ASSUME ApplyInv, run' = Ended, UNCHANGED <<github, config, disk>>
    PROVE  ApplyInv'
  <1>1. UNCHANGED <<issues, parent, boards, card, config, disk>>
    BY DEF github
  <1>2. run' \in RunType /\ run'.at = "ended" /\ run'.plan = Fresh
    BY FreshFits
  <1>3. ~At("checklists")' /\ ~At("cards")'
    BY <1>2 DEF At
  <1>4. Fits(run.plan, issues, parent, boards, card, config)'
    BY <1>2, FreshFits
  <1>5. Fits(disk, issues, parent, boards, card, config)'
    BY <1>1 DEF ApplyInv
  <1> QED
    BY <1>1, <1>2, <1>3, <1>4, <1>5 DEF ApplyInv, ApplyTypes, Single, Passed

LEMMA StartKeeps ==
    ASSUME ApplyInv, StartApply PROVE ApplyInv'
  <1>1. UNCHANGED <<issues, parent, boards, card, config, disk>>
    BY DEF StartApply, github
  <1>2. run' = [at |-> "work", plan |-> disk, visited |-> {}] /\ disk \in PlanType
    BY DEF StartApply, ApplyInv, ApplyTypes
  <1>3. run' \in RunType /\ run'.plan = disk /\ run'.visited = {}
    BY <1>2 DEF RunType
  <1>4. Fits(disk, issues, parent, boards, card, config)'
    BY <1>1 DEF ApplyInv
  <1>5. Fits(run.plan, issues, parent, boards, card, config)'
    BY <1>1, <1>3, <1>4
  <1>6. Passed'
    BY <1>3 DEF Passed
  <1> QED
    BY <1>1, <1>3, <1>4, <1>5, <1>6 DEF ApplyInv, ApplyTypes, Single

LEMMA SaveKeeps ==
    ASSUME ApplyInv, Save PROVE ApplyInv'
  <1>1. UNCHANGED <<issues, parent, boards, card, config>>
    BY DEF Save, github
  <1>2. run \in RunType /\ run.at = "save"
    BY DEF Save, ApplyInv, ApplyTypes
  <1>3. /\ run' \in RunType /\ run'.plan = run.plan /\ run'.visited = run.visited
        /\ disk' = run.plan /\ disk' \in PlanType
    BY <1>2 DEF Save, RunType
  <1>4. Fits(run.plan, issues, parent, boards, card, config) /\ run.visited = {}
    BY <1>2 DEF ApplyInv, Passed
  <1>5. /\ Fits(disk, issues, parent, boards, card, config)'
        /\ Fits(run.plan, issues, parent, boards, card, config)'
    BY <1>1, <1>3, <1>4
  <1>6. Passed'
    BY <1>3, <1>4 DEF Passed
  <1>7. ApplyTypes' /\ Single(issues)'
    BY <1>1, <1>3 DEF ApplyInv, ApplyTypes, Single
  <1> QED
    BY <1>1, <1>3, <1>5, <1>6, <1>7 DEF ApplyInv

(***************************************************************************)
(* The steps.                                                              *)
(***************************************************************************)
LEMMA NoteKeeps ==
    ASSUME ApplyInv, run.at = "work",
           NEW p \in PlanType, Note(p), run.plan.done \subseteq p.done,
           issues' \in IssueTable, parent' \in [IssueNumbers -> IssueNumbers \cup {Nothing}],
           boards' \in {0, 1}, card' \in [IssueNumbers -> Columns], disk' = disk,
           Single(issues'),
           Fits(disk, issues', parent', boards', card', config'),
           Fits(p, issues', parent', boards', card', config')
    PROVE  ApplyInv'
  <1>1. run' \in RunType /\ run'.at = "save" /\ run'.plan = p /\ Passed'
    BY Noted
  <1>2. ApplyTypes'
    BY <1>1 DEF ApplyInv, ApplyTypes, IssueTable
  <1>3. Fits(disk, issues, parent, boards, card, config)'
    OBVIOUS
  <1>4. Fits(run.plan, issues, parent, boards, card, config)'
    BY <1>1
  <1>5. disk'.done \subseteq run'.plan.done
    BY <1>1 DEF ApplyInv
  <1>6. Single(issues)'
    BY DEF Single
  <1> QED
    BY <1>1, <1>2, <1>3, <1>4, <1>5, <1>6 DEF ApplyInv

LEMMA BoardKeeps ==
    ASSUME ApplyInv, ResolveOrCreateBoard PROVE ApplyInv'
  <1> DEFINE p == run.plan
             q == [p EXCEPT !.done = @ \cup {"board"}]
  <1>1. /\ At("board") /\ Note(q) /\ boards' = IF boards = 0 THEN 1 ELSE boards
        /\ UNCHANGED <<issues, parent, card, config, disk>>
    BY DEF ResolveOrCreateBoard, StepDone
  <1>2. p \in PlanType /\ disk \in PlanType /\ run.at = "work" /\ boards' = 1
    BY <1>1 DEF ApplyInv, ApplyTypes, RunType, At
  <1>3. /\ q \in PlanType /\ q.done = p.done \cup {"board"}
        /\ q.number = p.number /\ q.linked = p.linked
    BY <1>2, PlanChanges DEF StepSet
  <1> HIDE DEF q
  <1>4. ASSUME NEW r \in PlanType, Fits(r, issues, parent, boards, card, config)
        PROVE  Fits(r, issues', parent', boards', card', config')
    <2>1. \A e : Ticked(r, issues, e) => Ticked(r, issues', e)
      BY <1>1
    <2> QED
      BY <1>1, <1>2, <1>4, <2>1, StillFits
  <1>5. Fits(p, issues', parent', boards', card', config')
    BY <1>2, <1>4 DEF ApplyInv
  <1>6. Fits(q, issues', parent', boards', card', config')
    <2>1. Gives("board", p, issues', boards', card', config')
      BY <1>2 DEF Gives
    <2>2. InOrder(q.done)
      BY <1>3, <1>5 DEF Fits, InOrder
    <2> QED
      BY <1>2, <1>3, <1>5, <2>1, <2>2, DoneFits DEF StepSet
  <1>7. Fits(disk, issues', parent', boards', card', config')
    BY <1>2, <1>4 DEF ApplyInv
  <1>8. Single(issues') /\ issues' \in IssueTable
    BY <1>1 DEF ApplyInv, ApplyTypes, IssueTable
  <1> QED
    BY <1>1, <1>2, <1>3, <1>6, <1>7, <1>8, NoteKeeps DEF ApplyInv, ApplyTypes

\* A number is filled in: that of an issue of the title.
LEMMA NumberFits ==
    ASSUME NEW p \in PlanType, NEW t \in Items, NEW n \in IssueNumbers,
           NEW is, NEW par, NEW bs, NEW cd, NEW cf,
           Fits(p, is, par, bs, cd, cf), p.number[t] = Nothing, n \in Titled(is, TitleOf(t)),
           "checklists" \notin p.done, "cards" \notin p.done
    PROVE  Fits([p EXCEPT !.number[t] = n], is, par, bs, cd, cf)
  <1> DEFINE q == [p EXCEPT !.number[t] = n]
  <1>1. /\ q \in PlanType /\ q.done = p.done /\ q.linked = p.linked /\ q.number[t] = n
        /\ \A u \in Items : u # t => q.number[u] = p.number[u]
    BY PlanChanges
  <1> HIDE DEF q
  <1>2. n # Nothing /\ p.linked \subseteq Kids
    BY PlanFacts DEF PlanType
  <1>3. Numbered(q, is)
    BY <1>1 DEF Fits, Numbered
  <1>4. \A u \in Items : p.number[u] # Nothing => q.number[u] = p.number[u]
    BY <1>1
  <1>5. LinkedUp(q, par)
    <2>1. ASSUME NEW u \in p.linked
          PROVE  /\ q.number[u] # Nothing /\ q.number[EpicOf[u]] # Nothing
                 /\ par[q.number[u]] = q.number[EpicOf[u]]
      <3>1. u \in Items /\ EpicOf[u] \in Items
        BY <1>2, PlanFacts
      <3>2. /\ p.number[u] # Nothing /\ p.number[EpicOf[u]] # Nothing
            /\ par[p.number[u]] = p.number[EpicOf[u]]
        BY DEF Fits, LinkedUp
      <3> QED
        BY <1>4, <3>1, <3>2
    <2> QED
      BY <1>1, <2>1 DEF LinkedUp
  <1>6. \A u \in Items : p.number[u] # Nothing => q.number[u] # Nothing
    BY <1>4
  <1>7. ASSUME NEW step \in q.done PROVE Gives(step, q, is, bs, cd, cf)
    <2>1. Gives(step, p, is, bs, cd, cf) /\ step # "checklists" /\ step # "cards"
      BY <1>1 DEF Fits, StepsDone
    <2> QED
      BY <1>1, <1>6, <2>1, PlanFacts DEF Gives
  <1>8. Fits(q, is, par, bs, cd, cf)
    BY <1>1, <1>3, <1>5, <1>7 DEF Fits, StepsDone
  <1> QED
    BY <1>8 DEF q

LEMMA FindOrCreateKeeps ==
    ASSUME ApplyInv, NEW step \in {"epics", "issues"}, FindOrCreate(step) PROVE ApplyInv'
  <1> DEFINE p == run.plan
             t == Item(step)
             name == TitleOf(t)
             f == FindIssueByTitle(issues, name)
  <1>1. /\ At(step) /\ ToDo(step) # {}
        /\ UNCHANGED <<parent, boards, card, config, disk>>
    BY DEF FindOrCreate, Works
  <1>2. /\ p \in PlanType /\ disk \in PlanType /\ run.at = "work" /\ issues \in IssueTable
        /\ disk.done \subseteq p.done
    BY <1>1 DEF ApplyInv, ApplyTypes, RunType, At, IssueTable
  <1>3. t \in Items /\ p.number[t] = Nothing
    <2>1. t \in ToDo(step) /\ t \in Items
      BY <1>1, ItemIsLeft DEF ApplyInv
    <2> QED
      BY <2>1 DEF ToDo, Unnumbered
  <1>4. "checklists" \notin p.done /\ "cards" \notin p.done
    <2>1. step \notin p.done /\ InOrder(p.done)
      BY <1>1 DEF ApplyInv, Fits, At
    <2> QED
      BY <2>1 DEF InOrder
  <1>12. name \in PlanTitles /\ name \in IssueTitles
    BY <1>3, PlanFacts
  <1> HIDE DEF t, name, f
  <1>5. \E n \in IssueNumbers :
           /\ Note([p EXCEPT !.number[t] = n])
           /\ n \in Titled(issues', name)
           /\ issues' \in IssueTable
           /\ Single(issues')
           /\ \A u \in PlanTitles : Titled(issues, u) \subseteq Titled(issues', u)
    <2>1. CASE f # Nothing
      <3>1. Note([p EXCEPT !.number[t] = f]) /\ issues' = issues
        BY <2>1 DEF FindOrCreate, Number, f, name, t
      <3>2. f \in Titled(issues, name) /\ f \in IssueNumbers
        BY <2>1, FindFinds DEF f, Titled, Existing
      <3> QED
        BY <1>2, <3>1, <3>2 DEF ApplyInv
    <2>2. CASE f = Nothing
      <3> DEFINE n == NextNumber(issues)
      <3>1. /\ HasNext(issues) /\ issues' = CreateIssue(issues, name, PlainBody(name), {})
            /\ Note([p EXCEPT !.number[t] = n])
        BY <2>2 DEF FindOrCreate, Create, Number, f, name, t
      <3> HIDE DEF n
      <3>2. Titled(issues, name) = {}
        <4>1. \A k \in Titled(issues, name) : k # Nothing
          BY PlanFacts DEF Titled, Existing
        <4> QED
          BY <2>2, <4>1, FindFinds DEF f
      <3>3. /\ n \in IssueNumbers /\ issues' \in IssueTable
            /\ \A u : Titled(issues', u) =
                         IF u = name THEN Titled(issues, u) \cup {n} ELSE Titled(issues, u)
        BY <1>2, <1>12, <3>1, CreateAdds DEF n
      <3>4. Single(issues')
        <4>1. ASSUME NEW u \in PlanTitles
              PROVE  IF Titled(Earlier, u) # {} THEN Titled(issues', u) = Titled(Earlier, u)
                     ELSE \A m, k \in Titled(issues', u) : m = k
          <5>1. CASE u = name
            <6>1. Titled(issues', u) = {n} /\ Titled(Earlier, u) = {}
              BY <3>2, <3>3, <5>1 DEF ApplyInv, Single
            <6> QED
              BY <6>1
          <5>2. CASE u # name
            BY <3>3, <5>2 DEF ApplyInv, Single
          <5> QED
            BY <5>1, <5>2
        <4> QED
          BY <4>1 DEF Single
      <3> QED
        BY <3>1, <3>3, <3>4
    <2> QED
      BY <2>1, <2>2
  <1>6. PICK n \in IssueNumbers :
           /\ Note([p EXCEPT !.number[t] = n])
           /\ n \in Titled(issues', name)
           /\ issues' \in IssueTable
           /\ Single(issues')
           /\ \A u \in PlanTitles : Titled(issues, u) \subseteq Titled(issues', u)
    BY <1>5
  <1> DEFINE q == [p EXCEPT !.number[t] = n]
  <1>7. q \in PlanType /\ q.done = p.done
    BY <1>2, <1>3, PlanChanges
  <1>8. ASSUME NEW r \in PlanType, "checklists" \notin r.done,
               Fits(r, issues, parent, boards, card, config)
        PROVE  Fits(r, issues', parent', boards', card', config')
    BY <1>1, <1>6, <1>8, StillFits
  <1>9. /\ Fits(p, issues', parent', boards', card', config')
        /\ Fits(disk, issues', parent', boards', card', config')
    BY <1>2, <1>4, <1>8 DEF ApplyInv
  <1>10. Fits(q, issues', parent', boards', card', config')
    BY <1>2, <1>3, <1>4, <1>6, <1>9, NumberFits DEF name
  <1> HIDE DEF q
  <1>11. Note(q)
    BY <1>6 DEF q
  <1> QED
    BY <1>1, <1>2, <1>6, <1>7, <1>9, <1>10, <1>11, NoteKeeps DEF ApplyInv, ApplyTypes

LEMMA LinkKeeps ==
    ASSUME ApplyInv, LinkSubIssue PROVE ApplyInv'
  <1> DEFINE p == run.plan
             t == Item("links")
             n == p.number[t]
             e == p.number[EpicOf[t]]
             q == [p EXCEPT !.linked = @ \cup {t}]
  <1>1. /\ At("links") /\ ToDo("links") # {} /\ Note(q)
        /\ parent[n] \in {Nothing, e} /\ parent' = [parent EXCEPT ![n] = e]
        /\ UNCHANGED <<issues, boards, card, config, disk>>
    BY DEF LinkSubIssue, Works
  <1>2. /\ p \in PlanType /\ disk \in PlanType /\ run.at = "work"
        /\ parent \in [IssueNumbers -> IssueNumbers \cup {Nothing}]
        /\ Fits(p, issues, parent, boards, card, config)
    BY <1>1 DEF ApplyInv, ApplyTypes, RunType, At
  <1>3. t \in Kids /\ EpicOf[t] \in Epics
    BY <1>1, ItemIsLeft, PlanFacts DEF ApplyInv
  <1>4. n \in IssueNumbers /\ e \in IssueNumbers
    <2>1. "epics" \in p.done /\ "issues" \in p.done
      BY <1>1, AtMeans DEF ApplyInv
    <2>2. n # Nothing /\ e # Nothing
      BY <1>2, <1>3, <2>1 DEF Fits, StepsDone, Gives
    <2>3. t \in Items /\ EpicOf[t] \in Items
      BY <1>3, PlanFacts
    <2> QED
      BY <1>2, <2>2, <2>3 DEF PlanType
  <1>5. /\ q \in PlanType /\ q.done = p.done /\ q.linked = p.linked \cup {t}
        /\ q.number = p.number
    BY <1>2, <1>3, PlanChanges
  <1> HIDE DEF q, t
  <1>6. /\ parent' \in [IssueNumbers -> IssueNumbers \cup {Nothing}]
        /\ parent'[n] = e
        /\ \A m \in IssueNumbers : parent[m] # Nothing => parent'[m] = parent[m]
    BY <1>1, <1>2, <1>4
  <1>7. ASSUME NEW r \in PlanType, Fits(r, issues, parent, boards, card, config)
        PROVE  Fits(r, issues', parent', boards', card', config')
    <2>1. UNCHANGED <<issues, boards, card, config>>
      BY <1>1
    <2>2. Fits(r, issues, parent', boards, card, config)
      BY <1>6, <1>7, StillFits
    <2> QED
      BY <2>1, <2>2
  <1>8. Fits(p, issues', parent', boards', card', config')
    BY <1>2, <1>7
  <1>9. Fits(q, issues', parent', boards', card', config')
    <2>1. Numbered(q, issues') /\ InOrder(q.done)
      BY <1>5, <1>8 DEF Fits, Numbered
    <2>2. LinkedUp(q, parent')
      <3>1. ASSUME NEW u \in q.linked
            PROVE  /\ q.number[u] # Nothing /\ q.number[EpicOf[u]] # Nothing
                   /\ parent'[q.number[u]] = q.number[EpicOf[u]]
        <4>1. CASE u = t
          BY <1>4, <1>5, <1>6, <4>1, PlanFacts
        <4>2. CASE u # t
          BY <1>5, <1>8, <4>2 DEF Fits, LinkedUp
        <4> QED
          BY <4>1, <4>2
      <3> QED
        BY <3>1 DEF LinkedUp
    <2>3. ASSUME NEW step \in q.done
          PROVE  Gives(step, q, issues', boards', card', config')
      <3>1. Gives(step, p, issues', boards', card', config')
        BY <1>5, <1>8 DEF Fits, StepsDone
      <3> QED
        BY <1>5, <3>1 DEF Gives, Ticked, Carded
    <2> QED
      BY <2>1, <2>2, <2>3 DEF Fits, StepsDone
  <1>10. Fits(disk, issues', parent', boards', card', config')
    BY <1>2, <1>7 DEF ApplyInv
  <1>11. Single(issues') /\ issues' \in IssueTable
    BY <1>1 DEF ApplyInv, ApplyTypes, IssueTable
  <1> QED
    BY <1>1, <1>2, <1>5, <1>6, <1>9, <1>10, <1>11, NoteKeeps DEF ApplyInv, ApplyTypes

\* A step is through: nothing is left of it.
LEMMA FinishKeeps ==
    ASSUME ApplyInv, NEW step \in LoopSteps, FinishStep(step) PROVE ApplyInv'
  <1> DEFINE p == run.plan
             q == [p EXCEPT !.done = @ \cup {step}]
  <1>1. /\ At(step) /\ ToDo(step) = {} /\ Note(q)
        /\ UNCHANGED <<issues, parent, boards, card, config, disk>>
    BY DEF FinishStep, StepDone, github
  <1>2. /\ p \in PlanType /\ run.at = "work" /\ Fits(p, issues, parent, boards, card, config)
        /\ step \in StepSet
    BY <1>1 DEF ApplyInv, ApplyTypes, RunType, At, LoopSteps, StepSet
  <1>3. /\ q \in PlanType /\ q.done = p.done \cup {step}
        /\ q.number = p.number /\ q.linked = p.linked
    BY <1>2, PlanChanges
  <1> HIDE DEF q
  <1>4. Gives(step, p, issues, boards, card, config)
    <2>2. CASE step = "epics"
      BY <1>1, <2>2 DEF Gives, ToDo, Unnumbered
    <2>3. CASE step = "issues"
      BY <1>1, <2>3 DEF Gives, ToDo, Unnumbered
    <2>4. CASE step = "links"
      BY <1>1, <2>4 DEF Gives, ToDo
    <2>5. CASE step = "checklists"
      <3>1. Epics \subseteq run.visited
        BY <1>1, <2>5 DEF ToDo
      <3>2. \A e \in Epics : Ticked(p, issues, e)
        BY <1>1, <2>5, <3>1 DEF ApplyInv, Passed
      <3> QED
        BY <2>5, <3>2 DEF Gives
    <2>6. CASE step = "cards"
      <3>1. Items \subseteq run.visited
        BY <1>1, <2>6 DEF ToDo
      <3>2. \A t \in Items : Carded(p, card, t)
        BY <1>1, <2>6, <3>1 DEF ApplyInv, Passed
      <3> QED
        BY <2>6, <3>2 DEF Gives
    <2> QED
      BY <2>2, <2>3, <2>4, <2>5, <2>6 DEF LoopSteps
  <1>5. InOrder(q.done)
    BY <1>1, <1>2, <1>3, AtMeans DEF ApplyInv, Fits, InOrder, LoopSteps
  <1>6. Fits(q, issues, parent, boards, card, config)
    BY <1>2, <1>3, <1>4, <1>5, DoneFits
  <1>7. /\ Fits(q, issues', parent', boards', card', config')
        /\ Fits(disk, issues', parent', boards', card', config')
    BY <1>1, <1>6 DEF ApplyInv
  <1>8. Single(issues') /\ issues' \in IssueTable
    BY <1>1 DEF ApplyInv, ApplyTypes, IssueTable
  <1> QED
    BY <1>1, <1>2, <1>3, <1>7, <1>8, NoteKeeps DEF ApplyInv, ApplyTypes

LEMMA ConfigKeeps ==
    ASSUME ApplyInv, WriteConfig PROVE ApplyInv'
  <1> DEFINE p == run.plan
             q == [p EXCEPT !.done = @ \cup {"config"}]
  <1>1. /\ At("config") /\ Note(q) /\ config' = (config \/ HasConfig)
        /\ UNCHANGED <<issues, parent, boards, card, disk>>
    BY DEF WriteConfig, StepDone, github
  <1>2. /\ p \in PlanType /\ disk \in PlanType /\ run.at = "work"
        /\ Fits(p, issues, parent, boards, card, config)
    BY <1>1 DEF ApplyInv, ApplyTypes, RunType, At
  <1>3. /\ q \in PlanType /\ q.done = p.done \cup {"config"}
        /\ q.number = p.number /\ q.linked = p.linked
    BY <1>2, PlanChanges DEF StepSet
  <1> HIDE DEF q
  <1>4. ASSUME NEW r \in PlanType, Fits(r, issues, parent, boards, card, config)
        PROVE  Fits(r, issues', parent', boards', card', config')
    <2>1. config => config'
      BY <1>1
    <2>2. Fits(r, issues, parent, boards, card, config')
      BY <1>4, <2>1, StillFits
    <2> QED
      BY <1>1, <2>2
  <1>5. Fits(p, issues', parent', boards', card', config')
    BY <1>2, <1>4
  <1>6. Fits(q, issues', parent', boards', card', config')
    <2>1. Gives("config", p, issues', boards', card', config')
      BY <1>1 DEF Gives
    <2>2. InOrder(q.done)
      BY <1>1, <1>2, <1>3, AtMeans DEF ApplyInv, Fits, InOrder
    <2> QED
      BY <1>2, <1>3, <1>5, <2>1, <2>2, DoneFits DEF StepSet
  <1>7. Fits(disk, issues', parent', boards', card', config')
    BY <1>2, <1>4 DEF ApplyInv
  <1>8. Single(issues') /\ issues' \in IssueTable
    BY <1>1 DEF ApplyInv, ApplyTypes, IssueTable
  <1> QED
    BY <1>1, <1>2, <1>3, <1>6, <1>7, <1>8, NoteKeeps DEF ApplyInv, ApplyTypes

(***************************************************************************)
(* The loops that write nothing until they are through, and the people.    *)
(***************************************************************************)
\* The numbers of a plan, once its steps are done, and whose they are.
LEMMA NumbersKnown ==
    ASSUME NEW p \in PlanType, NEW is, NEW par, NEW bs, NEW cd, NEW cf,
           Fits(p, is, par, bs, cd, cf)
    PROVE  /\ "epics" \in p.done => \A e \in Epics :
                 p.number[e] \in IssueNumbers /\ p.number[e] \in Titled(is, TitleOf(e))
           /\ "issues" \in p.done => \A t \in Kids :
                 p.number[t] \in IssueNumbers /\ p.number[t] \in Titled(is, TitleOf(t))
  <1>1. \A t \in Items : p.number[t] # Nothing =>
           p.number[t] \in IssueNumbers /\ p.number[t] \in Titled(is, TitleOf(t))
    BY PlanFacts DEF PlanType, Fits, Numbered
  <1>2. "epics" \in p.done => \A e \in Epics : p.number[e] # Nothing
    BY DEF Fits, StepsDone, Gives
  <1>3. "issues" \in p.done => \A t \in Kids : p.number[t] # Nothing
    BY DEF Fits, StepsDone, Gives
  <1> QED
    BY <1>1, <1>2, <1>3, PlanFacts

LEMMA VisitedFields ==
    ASSUME run \in RunType, NEW t \in Items, Visited(t)
    PROVE  /\ run' \in RunType /\ run'.plan = run.plan /\ run'.at = run.at
           /\ run'.visited = run.visited \cup {t}
  BY DEF RunType, Visited

LEMMA ChecklistKeeps ==
    ASSUME ApplyInv, PatchChecklist PROVE ApplyInv'
  <1> DEFINE p == run.plan
             t == Item("checklists")
             n == p.number[t]
             body == [PlainBody(TitleOf(t)) EXCEPT !.links = Checklist(t)]
  <1>1. /\ At("checklists") /\ ToDo("checklists") # {} /\ Visited(t)
        /\ issues' = UpdateIssueBody(issues, n, body)
        /\ UNCHANGED <<parent, boards, card, config, disk>>
    BY DEF PatchChecklist, Works
  <1>2. /\ p \in PlanType /\ disk \in PlanType /\ run \in RunType /\ run.at = "work"
        /\ issues \in IssueTable /\ disk.done \subseteq p.done
        /\ Fits(p, issues, parent, boards, card, config)
        /\ Fits(disk, issues, parent, boards, card, config)
    BY <1>1 DEF ApplyInv, ApplyTypes, RunType, At, IssueTable
  <1>3. /\ t \in Epics /\ t \in Items /\ TitleOf(t) \in IssueTitles
        /\ t \notin run.visited /\ \A f \in Epics \ run.visited : t <= f
        /\ "epics" \in p.done /\ "issues" \in p.done /\ "checklists" \notin p.done
    <2>1. /\ t \in ToDo("checklists") /\ t \in Epics /\ t \in Items
          /\ \A f \in ToDo("checklists") : t <= f
      BY <1>1, ItemIsLeft DEF ApplyInv
    <2>2. ToDo("checklists") = Epics \ run.visited
      BY DEF ToDo
    <2>3. "epics" \in p.done /\ "issues" \in p.done /\ "checklists" \notin p.done
      BY <1>1, AtMeans DEF ApplyInv
    <2> HIDE DEF t
    <2> QED
      BY <2>1, <2>2, <2>3, PlanFacts
  <1>4. /\ \A e \in Epics : p.number[e] \in IssueNumbers /\ p.number[e] \in Titled(issues, TitleOf(e))
        /\ \A k \in Kids : p.number[k] \in IssueNumbers
    BY <1>2, <1>3, NumbersKnown
  <1>5. n \in Existing(issues)
    BY <1>3, <1>4 DEF Titled
  <1>6. Checklist(t) \in SUBSET (IssueNumbers \X IssueTitles)
    <2>1. ASSUME NEW k \in KidsOf(t)
          PROVE  <<p.number[k], TitleOf(k)>> \in IssueNumbers \X IssueTitles
      <3>1. k \in Kids /\ k \in Items
        BY PlanFacts
      <3> QED
        BY <1>4, <3>1, PlanFacts
    <2> QED
      BY <2>1 DEF Checklist
  <1>7. body \in Body /\ body.links = Checklist(t)
    BY <1>3, <1>6, PlainIsBody
  <1> HIDE DEF body
  <1>8. issues' = UpdateIssueBody(issues, n, body)
    BY <1>1 DEF body
  <1> HIDE DEF t
  <1>9. /\ issues' \in IssueTable
        /\ \A u : Titled(issues', u) = Titled(issues, u)
        /\ issues'[n].body = body
        /\ \A m \in IssueNumbers : m # n => issues'[m] = issues[m]
    BY <1>2, <1>5, <1>7, <1>8, BodyChanges
  <1>10. /\ run' \in RunType /\ run'.plan = p /\ run'.at = run.at
         /\ run'.visited = run.visited \cup {t}
    BY <1>1, <1>2, <1>3, VisitedFields
  <1>11. ASSUME NEW r \in PlanType, "checklists" \notin r.done,
                Fits(r, issues, parent, boards, card, config)
         PROVE  Fits(r, issues', parent', boards', card', config')
    <2>1. UNCHANGED <<parent, boards, card, config>>
      BY <1>1
    <2>2. Fits(r, issues', parent, boards, card, config)
      BY <1>9, <1>11, StillFits
    <2> QED
      BY <2>1, <2>2
  <1>12. /\ Fits(p, issues', parent', boards', card', config')
         /\ Fits(disk, issues', parent', boards', card', config')
    BY <1>2, <1>3, <1>11
  <1>17. ASSUME NEW e \in run'.visited \cap Epics
         PROVE  \A f \in Epics : f < e => f \in run'.visited
    <2>1. CASE e = t
      <3>1. ASSUME NEW f \in Epics, f < t PROVE f \in run.visited
        <4>1. f \in Nat /\ t \in Nat
          BY <1>3, PlanFacts
        <4> QED
          BY <1>3, <3>1, <4>1
      <3> QED
        BY <1>10, <2>1, <3>1
    <2>2. CASE e # t
      BY <1>1, <1>10, <2>2 DEF ApplyInv, Passed
    <2> QED
      BY <2>1, <2>2
  <1>13. ASSUME NEW e \in run'.visited \cap Epics
         PROVE  Ticked(p, issues', e)
    <2>1. CASE e = t
      <3>1. \A k \in KidsOf(t) : <<p.number[k], TitleOf(k)>> \in body.links
        BY <1>7 DEF Checklist
      <3> QED
        BY <1>9, <2>1, <3>1 DEF Ticked
    <2>2. CASE e # t /\ WritesLast(e)
      <3>0. e \in run.visited
        BY <1>10, <2>2
      <3>1. Ticked(p, issues, e) /\ \A f \in Epics : f < e => f \in run.visited
        BY <1>1, <3>0 DEF ApplyInv, Passed
      <3>2. e < t
        <4>1. e \in Nat /\ t \in Nat /\ ~(t < e)
          BY <1>3, <3>1, PlanFacts
        <4> QED
          BY <2>2, <4>1
      <3>3. TitleOf(t) # TitleOf(e)
        <4>0. e \in Nat /\ t \in Nat
          BY <1>3, PlanFacts
        <4>1. ~(t <= e)
          BY <3>2, <4>0
        <4> QED
          BY <1>3, <2>2, <4>1 DEF WritesLast
      <3>4. p.number[e] # n /\ p.number[e] \in IssueNumbers
        BY <1>3, <1>4, <3>3 DEF Titled
      <3> QED
        BY <1>9, <3>1, <3>4 DEF Ticked
    <2>3. CASE ~WritesLast(e)
      BY <2>3 DEF Ticked
    <2> QED
      BY <2>1, <2>2, <2>3
  <1>14. Passed'
    <2>1. ~At("cards")'
      <3>1. run'.plan = run.plan
        BY <1>10
      <3>2. ASSUME At("cards")' PROVE FALSE
        <4>1. At("cards")
          BY <1>2, <3>1, <3>2 DEF At
        <4> QED
          BY <1>3, <4>1, AtMeans DEF ApplyInv
      <3> QED
        BY <3>2
    <2>2. \A e \in run'.visited \cap Epics :
             /\ Ticked(run'.plan, issues', e)
             /\ \A f \in Epics : f < e => f \in run'.visited
      BY <1>10, <1>13, <1>17
    <2> QED
      BY <1>2, <1>10, <2>1, <2>2 DEF Passed
  <1>15. ApplyTypes' /\ Single(issues)'
    BY <1>1, <1>9, <1>10 DEF ApplyInv, ApplyTypes, IssueTable, Single
  <1>16. /\ Fits(run.plan, issues, parent, boards, card, config)'
         /\ Fits(disk, issues, parent, boards, card, config)'
    BY <1>1, <1>10, <1>12
  <1> QED
    BY <1>1, <1>2, <1>10, <1>14, <1>15, <1>16 DEF ApplyInv

\* Cards that are there stay on the board.
LEMMA CardsFit ==
    ASSUME ApplyInv, UNCHANGED <<issues, parent, boards, config, disk>>,
           run'.plan = run.plan,
           \A n \in IssueNumbers : card[n] # "none" => card'[n] # "none"
    PROVE  /\ Fits(run.plan, issues, parent, boards, card, config)'
           /\ Fits(disk, issues, parent, boards, card, config)'
  <1>1. ASSUME NEW r \in PlanType, Fits(r, issues, parent, boards, card, config)
        PROVE  Fits(r, issues, parent, boards, card', config)
    BY <1>1, StillFits
  <1>2. /\ Fits(run.plan, issues, parent, boards, card', config)
        /\ Fits(disk, issues, parent, boards, card', config)
    BY <1>1 DEF ApplyInv, ApplyTypes, RunType
  <1> QED
    BY <1>2

LEMMA CardKeeps ==
    ASSUME ApplyInv, AddToBoard PROVE ApplyInv'
  <1> DEFINE p == run.plan
             t == Item("cards")
             n == p.number[t]
  <1>1. /\ At("cards") /\ ToDo("cards") # {} /\ Visited(t)
        /\ card' = [card EXCEPT ![n] = "Todo"]
        /\ UNCHANGED <<issues, parent, boards, config, disk>>
    BY DEF AddToBoard, Works
  <1>2. /\ p \in PlanType /\ run \in RunType /\ run.at = "work"
        /\ card \in [IssueNumbers -> Columns] /\ disk.done \subseteq p.done
        /\ Fits(p, issues, parent, boards, card, config)
    BY <1>1 DEF ApplyInv, ApplyTypes, RunType, At
  <1>3. /\ t \in Items
        /\ "epics" \in p.done /\ "issues" \in p.done /\ "checklists" \in p.done
    BY <1>1, ItemIsLeft, AtMeans DEF ApplyInv
  <1>4. \A u \in Items : p.number[u] \in IssueNumbers
    BY <1>2, <1>3, NumbersKnown, PlanFacts
  <1> HIDE DEF t
  <1>5. n \in IssueNumbers
    BY <1>3, <1>4
  <1>6. /\ card' \in [IssueNumbers -> Columns] /\ card'[n] = "Todo"
        /\ \A m \in IssueNumbers : card[m] # "none" => card'[m] # "none"
    BY <1>1, <1>2, <1>5 DEF Columns
  <1>7. /\ run' \in RunType /\ run'.plan = p /\ run'.at = run.at
        /\ run'.visited = run.visited \cup {t}
    BY <1>1, <1>2, <1>3, VisitedFields
  <1>8. /\ Fits(run.plan, issues, parent, boards, card, config)'
        /\ Fits(disk, issues, parent, boards, card, config)'
    BY <1>1, <1>6, <1>7, CardsFit
  <1>9. Passed'
    <2>1. ASSUME At("checklists")' PROVE FALSE
      <3>1. run'.plan = run.plan
        BY <1>7
      <3>2. At("checklists")
        BY <1>2, <2>1, <3>1 DEF At
      <3> QED
        BY <1>3, <3>2, AtMeans DEF ApplyInv
    <2>2. \A u \in run.visited : Carded(p, card, u) /\ u \in Items
      BY <1>1, <1>2 DEF ApplyInv, Passed, RunType
    <2>3. \A u \in run'.visited : Carded(run'.plan, card', u)
      BY <1>3, <1>4, <1>6, <1>7, <2>2 DEF Carded
    <2> QED
      BY <1>2, <1>7, <2>1, <2>3 DEF Passed
  <1>10. ApplyTypes' /\ Single(issues)'
    BY <1>1, <1>6, <1>7 DEF ApplyInv, ApplyTypes, Single
  <1> QED
    BY <1>1, <1>2, <1>7, <1>8, <1>9, <1>10 DEF ApplyInv

LEMMA MoveKeeps ==
    ASSUME ApplyInv, Move PROVE ApplyInv'
  <1>1. UNCHANGED <<parent, boards, config, disk, run>>
    BY DEF Move
  <1>2. /\ run \in RunType /\ run.plan \in PlanType /\ disk \in PlanType
        /\ issues \in IssueTable /\ card \in [IssueNumbers -> Columns]
        /\ Fits(run.plan, issues, parent, boards, card, config)
        /\ Fits(disk, issues, parent, boards, card, config)
    BY DEF ApplyInv, ApplyTypes, RunType, IssueTable
  <1>3. ASSUME NEW n \in IssueNumbers, card[n] = "Todo",
               card' = [card EXCEPT ![n] = "In Progress"], UNCHANGED issues
        PROVE  ApplyInv'
    <2>1. /\ card' \in [IssueNumbers -> Columns]
          /\ \A m \in IssueNumbers : card[m] # "none" => card'[m] # "none"
      BY <1>2, <1>3 DEF Columns
    <2>2. /\ Fits(run.plan, issues, parent, boards, card, config)'
          /\ Fits(disk, issues, parent, boards, card, config)'
      BY <1>1, <1>3, <2>1, CardsFit
    <2>3. At("cards") => \A t \in run.visited : Carded(run.plan, card', t)
      <3>1. ASSUME At("cards"), NEW t \in run.visited
            PROVE  Carded(run.plan, card', t)
        <4>1. Carded(run.plan, card, t) /\ t \in Items
          BY <1>2, <3>1 DEF ApplyInv, Passed, RunType
        <4>2. "epics" \in run.plan.done /\ "issues" \in run.plan.done
          BY <3>1, AtMeans DEF ApplyInv
        <4>3. run.plan.number[t] \in IssueNumbers
          BY <1>2, <4>1, <4>2, NumbersKnown, PlanFacts
        <4> QED
          BY <2>1, <4>1, <4>3 DEF Carded
      <3> QED
        BY <3>1
    <2>4. Passed'
      <3>1. Passed
        BY DEF ApplyInv
      <3> QED
        BY <1>1, <1>3, <2>3, <3>1 DEF Passed, At
    <2> QED
      BY <1>1, <1>3, <2>1, <2>2, <2>4 DEF ApplyInv, ApplyTypes, Single
  <1>4. ASSUME NEW n \in Existing(issues),
               issues' = [issues EXCEPT ![n].body.contract = "edited"], UNCHANGED card
        PROVE  ApplyInv'
    <2> DEFINE body == [issues[n].body EXCEPT !.contract = "edited"]
    <2>1. body \in Body /\ body.links = issues[n].body.links
      <3>1. issues[n].body \in Body
        BY <1>2, IssueFields
      <3> QED
        BY <3>1 DEF Body
    <2>2. issues' = UpdateIssueBody(issues, n, body)
      BY <1>4 DEF UpdateIssueBody
    <2> HIDE DEF body
    <2>3. /\ issues' \in IssueTable
          /\ \A u : Titled(issues', u) = Titled(issues, u)
          /\ issues'[n].body = body
          /\ \A m \in IssueNumbers : m # n => issues'[m] = issues[m]
      BY <1>2, <2>1, <2>2, BodyChanges
    <2>4. \A m \in IssueNumbers : issues'[m].body.links = issues[m].body.links
      BY <2>1, <2>3
    <2>5. ASSUME NEW r \in PlanType, "epics" \in r.done,
                 Fits(r, issues, parent, boards, card, config)
          PROVE  \A e \in Epics : Ticked(r, issues, e) => Ticked(r, issues', e)
      <3>1. \A e \in Epics : r.number[e] \in IssueNumbers
        BY <2>5, NumbersKnown
      <3> QED
        BY <2>4, <3>1 DEF Ticked
    <2>6. ASSUME NEW r \in PlanType, Fits(r, issues, parent, boards, card, config)
          PROVE  Fits(r, issues', parent, boards, card, config)
      <3>1. "checklists" \in r.done => "epics" \in r.done
        BY <2>6 DEF Fits, InOrder
      <3>2. "checklists" \in r.done =>
               \A e \in Epics : Ticked(r, issues, e) => Ticked(r, issues', e)
        BY <2>5, <2>6, <3>1
      <3> QED
        BY <2>3, <2>6, <3>2, StillFits
    <2>7. /\ Fits(run.plan, issues, parent, boards, card, config)'
          /\ Fits(disk, issues, parent, boards, card, config)'
      BY <1>1, <1>2, <1>4, <2>6
    <2>8. At("checklists") => \A e \in run.visited \cap Epics : Ticked(run.plan, issues', e)
      <3>1. ASSUME At("checklists"), NEW e \in run.visited \cap Epics
            PROVE  Ticked(run.plan, issues', e)
        <4>1. "epics" \in run.plan.done
          BY <3>1, AtMeans DEF ApplyInv
        <4> QED
          BY <1>2, <2>5, <3>1, <4>1 DEF ApplyInv, Passed
      <3> QED
        BY <3>1
    <2>9. Passed'
      <3>1. Passed
        BY DEF ApplyInv
      <3> QED
        BY <1>1, <1>4, <2>8, <3>1 DEF Passed, At
    <2> QED
      BY <1>1, <1>4, <2>3, <2>7, <2>9 DEF ApplyInv, ApplyTypes, Single, IssueTable
  <1> QED
    BY <1>3, <1>4 DEF Move

LEMMA ApplyStarts == ApplyInit => ApplyInv
  <1> SUFFICES ASSUME ApplyInit PROVE ApplyInv
    OBVIOUS
  <1>1. /\ issues = Earlier /\ parent = EarlierParent /\ boards = 0
        /\ card = [n \in IssueNumbers |-> "none"]
        /\ disk = Fresh /\ run = Ended
    BY DEF ApplyInit
  <1>2. ApplyTypes
    BY <1>1, BootstrapApplyAssumption, FreshFits DEF ApplyTypes, Columns
  <1>3. Single(issues)
    BY <1>1 DEF Single
  <1>4. /\ Fits(disk, issues, parent, boards, card, config)
        /\ Fits(run.plan, issues, parent, boards, card, config)
    BY <1>1, FreshFits
  <1>5. Passed
    BY <1>1, FreshFits DEF Passed, At
  <1> QED
    BY <1>1, <1>2, <1>3, <1>4, <1>5, FreshFits DEF ApplyInv

LEMMA ApplyNextKeeps == ApplyInv /\ ApplyNext => ApplyInv'
  <1> SUFFICES ASSUME ApplyInv, ApplyNext PROVE ApplyInv'
    OBVIOUS
  <1>1. CASE StartApply \/ Save \/ ResolveOrCreateBoard \/ WriteConfig
    BY <1>1, StartKeeps, SaveKeeps, BoardKeeps, ConfigKeeps
  <1>2. CASE FindOrCreate("epics") \/ FindOrCreate("issues")
    BY <1>2, FindOrCreateKeeps
  <1>3. CASE LinkSubIssue \/ PatchChecklist \/ AddToBoard
    BY <1>3, LinkKeeps, ChecklistKeeps, CardKeeps
  <1>4. CASE \E step \in LoopSteps : FinishStep(step)
    BY <1>4, FinishKeeps
  <1>5. CASE Finish \/ Stop
    <2>1. run' = Ended /\ UNCHANGED <<github, config, disk>>
      BY <1>5 DEF Finish, Stop
    <2> QED
      BY <2>1, EndKeeps
  <1>6. CASE Move
    BY <1>6, MoveKeeps
  <1> QED
    BY <1>1, <1>2, <1>3, <1>4, <1>5, <1>6 DEF ApplyNext, Apply

LEMMA ApplyInvariant == Spec => []ApplyInv
  <1>1. Init => ApplyInv
    BY ApplyStarts DEF Init
  <1>2. ApplyInv /\ [Next]_vars => ApplyInv'
    <2> SUFFICES ASSUME ApplyInv, [Next]_vars PROVE ApplyInv'
      OBVIOUS
    <2>1. UNCHANGED applyVars \/ ApplyNext
      BY DEF Next, vars
    <2> QED
      BY <2>1, ApplyStutters, ApplyNextKeeps
  <1> QED
    BY <1>1, <1>2, PTL DEF Spec

\* A plan, whatever its titles, that is applied again and again, after errors,
\* lost answers and kills, makes no second issue of a title, takes the ones there
\* were before, makes one board at most, and stores the numbers of issues of the
\* titles of its items.
THEOREM RepeatsNothing == Spec => []NothingTwice
  <1>1. ApplyInv => NothingTwice
    <2> SUFFICES ASSUME ApplyInv PROVE NothingTwice
      OBVIOUS
    <2>1. ASSUME NEW t \in PlanTitles, Titled(Earlier, t) = {}
          PROVE  Cardinality(Titled(issues, t)) <= 1
      <3>1. \A m, n \in Titled(issues, t) : m = n
        BY <2>1 DEF ApplyInv, Single
      <3>2. CASE Titled(issues, t) = {}
        BY <3>2, FS_EmptySet
      <3>3. CASE Titled(issues, t) # {}
        <4>1. PICK n : Titled(issues, t) = {n}
          BY <3>1, <3>3
        <4> QED
          BY <4>1, FS_Singleton
      <3> QED
        BY <3>2, <3>3
    <2>2. \A t \in PlanTitles : Titled(Earlier, t) # {} => Titled(issues, t) = Titled(Earlier, t)
      BY DEF ApplyInv, Single
    <2>3. boards <= 1
      BY DEF ApplyInv, ApplyTypes
    <2>4. \A t \in Items :
             disk.number[t] # Nothing => disk.number[t] \in Titled(issues, TitleOf(t))
      BY DEF ApplyInv, Fits, Numbered
    <2> QED
      BY <2>1, <2>2, <2>3, <2>4 DEF NothingTwice
  <1> QED
    BY <1>1, ApplyInvariant, PTL

\* A plan, whatever its titles, that counts as applied has its board, the
\* configuration it proposes and all of its issues, each on the board, each child
\* below its epic and, unless a later epic of that title wrote over it, in its
\* checklist, however many attempts it took and whatever people did meanwhile.
THEOREM AppliedAsAWhole == Spec => []AppliedIsComplete
  <1>1. ApplyInv => AppliedIsComplete
    <2> SUFFICES ASSUME ApplyInv, "config" \in disk.done PROVE AppliedIsComplete
      BY DEF AppliedIsComplete
    <2>1. Fits(disk, issues, parent, boards, card, config) /\ disk \in PlanType
      BY DEF ApplyInv, ApplyTypes
    <2>2. \A step \in StepSet : step \in disk.done
      BY <2>1 DEF Fits, InOrder, StepSet
    <2>3. \A step \in StepSet : Gives(step, disk, issues, boards, card, config)
      BY <2>1, <2>2 DEF Fits, StepsDone
    <2>4. /\ boards = 1
          /\ \A t \in Epics : disk.number[t] # Nothing
          /\ \A t \in Kids : disk.number[t] # Nothing
          /\ Kids \subseteq disk.linked
          /\ \A e \in Epics : Ticked(disk, issues, e)
          /\ \A t \in Items : Carded(disk, card, t)
      BY <2>3 DEF Gives, StepSet
    <2>5. HasConfig => config
      BY <2>3 DEF Gives, StepSet
    <2>6. \A t \in Items : disk.number[t] # Nothing /\ card[disk.number[t]] # "none"
      BY <2>4, PlanFacts DEF Carded
    <2>7. ASSUME NEW e \in Epics, NEW t \in KidsOf(e)
          PROVE  /\ parent[disk.number[t]] = disk.number[e]
                 /\ WritesLast(e) =>
                       <<disk.number[t], TitleOf(t)>> \in issues[disk.number[e]].body.links
      <3>1. t \in disk.linked /\ EpicOf[t] = e
        BY <2>4, PlanFacts
      <3>2. parent[disk.number[t]] = disk.number[e]
        BY <2>1, <3>1 DEF Fits, LinkedUp
      <3>3. Ticked(disk, issues, e)
        BY <2>4
      <3> QED
        BY <3>2, <3>3 DEF Ticked
    <2> QED
      BY <2>4, <2>5, <2>6, <2>7 DEF AppliedIsComplete
  <1> QED
    BY <1>1, ApplyInvariant, PTL
=================================================================================
