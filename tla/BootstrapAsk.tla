------------------------------ MODULE BootstrapAsk ------------------------------
(***************************************************************************)
(* `bootstrap --plan` runs a session in a process of its own. Its tool     *)
(* ask_human writes a numbered question file and polls for the answer      *)
(* file; a pump in the command polls for questions, asks the operator and  *)
(* writes the answers. Writing a file is two steps, it exists before it    *)
(* has its content, and either may fail: what is there then stays.         *)
(***************************************************************************)
EXTENDS Naturals, FiniteSets

CONSTANTS
    Calls,              \* the calls of ask_human a session may make, at once or not
    None,
    MaxFailures         \* bound: prompts without usable input, and writes that fail

ASSUME BootstrapAskAssumption ==
    IsFiniteSet(Calls) /\ None \notin Calls /\ MaxFailures \in Nat

Slots == 1..Cardinality(Calls)

VARIABLES
    session,    \* the session's process
    call,       \* the calls in it
    question,   \* the question file of a slot: whose it is, and if it is whole
    answer,     \* the answer file of a slot: to whom the operator replied
    pump,       \* the loop in the command
    planned,    \* plan.json is stored
    \* bounds and bookkeeping
    failures,
    replies     \* how often the operator replied to each question

askVars == <<session, call, question, answer, pump, planned, failures, replies>>

NoFile == [of |-> None, whole |-> FALSE]

AskInit ==
    /\ session = "open"
    /\ call = [c \in Calls |-> [at |-> "idle", slot |-> 0, got |-> None]]
    /\ question = [n \in Slots |-> NoFile] /\ answer = [n \in Slots |-> NoFile]
    /\ pump = [at |-> "poll", slot |-> 0, answered |-> {}, stopping |-> FALSE]
    /\ planned = FALSE /\ failures = 0
    /\ replies = [c \in Calls |-> 0]

(***************************************************************************)
(* ask_human, in the session                                               *)
(***************************************************************************)
Free(n) == question[n] = NoFile /\ answer[n] = NoFile

\* The write is synchronous: no other call of the session runs meanwhile.
NoneWrites == \A c \in Calls : call[c].at # "writing"

Ask(c) ==
    /\ session = "open" /\ call[c].at = "idle" /\ NoneWrites
    /\ \E n \in Slots :
          /\ Free(n) /\ \A m \in Slots : m < n => ~Free(m)
          /\ question' = [question EXCEPT ![n] = [of |-> c, whole |-> FALSE]]
          /\ call' = [call EXCEPT ![c].at = "writing", ![c].slot = n]
    /\ UNCHANGED <<session, answer, pump, planned, failures, replies>>

\* The file cannot be created: the model is told so.
AskFails(c) ==
    /\ session = "open" /\ call[c].at = "idle" /\ NoneWrites /\ failures < MaxFailures
    /\ failures' = failures + 1
    /\ call' = [call EXCEPT ![c].at = "failed"]
    /\ UNCHANGED <<session, question, answer, pump, planned, replies>>

\* Or it cannot be filled, and nothing removes it.
AskTorn(c) ==
    /\ session = "open" /\ call[c].at = "writing" /\ failures < MaxFailures
    /\ failures' = failures + 1
    /\ call' = [call EXCEPT ![c].at = "failed"]
    /\ UNCHANGED <<session, question, answer, pump, planned, replies>>

AskWritten(c) ==
    /\ session = "open" /\ call[c].at = "writing"
    /\ question' = [question EXCEPT ![call[c].slot].whole = TRUE]
    /\ call' = [call EXCEPT ![c].at = "waiting"]
    /\ UNCHANGED <<session, answer, pump, planned, failures, replies>>

\* Variant: an answer is taken from whichever file is there.
HearAny(c) ==
    /\ session = "open" /\ call[c].at = "waiting" /\ NoneWrites
    /\ \E n \in Slots :
          /\ answer[n] # NoFile
          /\ call' = [call EXCEPT ![c].at = "answered", ![c].got = answer[n].of]
    /\ UNCHANGED <<session, question, answer, pump, planned, failures, replies>>

\* What cannot be parsed is taken for an empty answer.
Hear(c) ==
    LET n == call[c].slot IN
    /\ session = "open" /\ call[c].at = "waiting" /\ NoneWrites
    /\ answer[n] # NoFile
    /\ call' = [call EXCEPT ![c].at = "answered",
                            ![c].got = IF answer[n].whole THEN answer[n].of ELSE None]
    /\ UNCHANGED <<session, question, answer, pump, planned, failures, replies>>

Abort(c) ==
    /\ session = "open" /\ call[c].at = "waiting" /\ NoneWrites
    /\ call' = [call EXCEPT ![c].at = "aborted"]
    /\ UNCHANGED <<session, question, answer, pump, planned, failures, replies>>

(***************************************************************************)
(* The pump                                                                *)
(***************************************************************************)
Open(n) == question[n] # NoFile /\ answer[n] = NoFile /\ n \notin pump.answered

\* The slots are scanned up to the first without a question.
Scanned(n) == \A m \in Slots : m <= n => question[m] # NoFile

\* The lowest open question; one half written is tried again later.
Poll ==
    /\ pump.at = "poll" /\ ~pump.stopping
    /\ \E n \in Slots :
          /\ Scanned(n) /\ Open(n) /\ \A m \in Slots : m < n => ~Open(m)
          /\ question[n].whole
          /\ pump' = [pump EXCEPT !.at = "prompt", !.slot = n]
    /\ UNCHANGED <<session, call, question, answer, planned, failures, replies>>

\* The operator replies; the question counts as answered before the write.
Reply ==
    LET n == pump.slot IN
    /\ pump.at = "prompt"
    /\ replies' = [replies EXCEPT ![question[n].of] = @ + 1]
    /\ answer' = [answer EXCEPT ![n] = [of |-> question[n].of, whole |-> FALSE]]
    /\ pump' = [pump EXCEPT !.at = "writing", !.answered = @ \cup {n}]
    /\ UNCHANGED <<session, call, question, planned, failures>>

\* The answer cannot be written, or only in part: the error is swallowed.
ReplyFails ==
    /\ pump.at = "prompt" /\ failures < MaxFailures
    /\ failures' = failures + 1
    /\ replies' = [replies EXCEPT ![question[pump.slot].of] = @ + 1]
    /\ pump' = [pump EXCEPT !.at = "poll", !.slot = 0, !.answered = @ \cup {pump.slot}]
    /\ UNCHANGED <<session, call, question, answer, planned>>

ReplyTorn ==
    /\ pump.at = "writing" /\ failures < MaxFailures
    /\ failures' = failures + 1
    /\ pump' = [pump EXCEPT !.at = "poll", !.slot = 0]
    /\ UNCHANGED <<session, call, question, answer, planned, replies>>

ReplyWritten ==
    /\ pump.at = "writing"
    /\ answer' = [answer EXCEPT ![pump.slot].whole = TRUE]
    /\ pump' = [pump EXCEPT !.at = "poll", !.slot = 0]
    /\ UNCHANGED <<session, call, question, planned, failures, replies>>

\* Variant: the question counts as answered once it is put.
PromptFailsForGood ==
    /\ pump.at = "prompt" /\ failures < MaxFailures
    /\ failures' = failures + 1
    /\ pump' = [pump EXCEPT !.at = "poll", !.slot = 0, !.answered = @ \cup {pump.slot}]
    /\ UNCHANGED <<session, call, question, answer, planned, replies>>

\* No usable input: the next poll asks again.
PromptFails ==
    /\ pump.at = "prompt" /\ failures < MaxFailures
    /\ failures' = failures + 1
    /\ pump' = [pump EXCEPT !.at = "poll", !.slot = 0]
    /\ UNCHANGED <<session, call, question, answer, planned, replies>>

(***************************************************************************)
(* The command                                                             *)
(***************************************************************************)
\* The session returns its result, times out or breaks; either way the pump
\* is told to stop, and ends once the prompt it is at has its answer.
SessionEnds ==
    /\ session = "open"
    /\ \/ session' = "returned" /\ \A c \in Calls : call[c].at \notin {"writing", "waiting"}
       \/ session' = "failed"
    /\ pump' = [pump EXCEPT !.stopping = TRUE]
    /\ UNCHANGED <<call, question, answer, planned, failures, replies>>

SavePlan ==
    /\ session = "returned" /\ ~planned
    /\ planned' = TRUE
    /\ UNCHANGED <<session, call, question, answer, pump, failures, replies>>

AskNext ==
    \/ \E c \in Calls : \/ Ask(c) \/ AskFails(c) \/ AskTorn(c) \/ AskWritten(c)
                        \/ Hear(c) \/ Abort(c)
    \/ Poll \/ PromptFails \/ Reply \/ ReplyFails \/ ReplyTorn \/ ReplyWritten
    \/ SessionEnds \/ SavePlan

\* Both processes go on, and an operator who is asked again and again replies.
AskFairness ==
    /\ \A c \in Calls : WF_askVars(AskWritten(c)) /\ WF_askVars(Hear(c))
    /\ WF_askVars(Poll) /\ SF_askVars(Reply) /\ WF_askVars(ReplyWritten)

(***************************************************************************)
(* Properties                                                              *)
(***************************************************************************)
\* However the calls of a session overlap, and whichever prompts and writes
\* fail, a call hears the operator's reply to its own question or nothing, never
\* another's; and the operator replies to a question once, though its prompt may
\* fail and its call be given up.
RepliesGoHome == \A c \in Calls : call[c].got \in {c, None} /\ replies[c] <= 1

\* What the code has no way out of: the operator's reply to the call was lost
\* when it was written, or an earlier question was left half written by a call
\* that failed, and the pump tries that one again for ever.
Stranded(c) ==
    \/ replies[c] > 0 /\ answer[call[c].slot] = NoFile
    \/ \E d \in Calls : call[d].at = "failed" /\ call[d].slot \in 1..(call[c].slot - 1)

\* A call that waits hears something, or the session ends, or it is stranded:
\* a prompt that fails, a call that is given up, a file that cannot be created
\* and an answer written in part hold nobody up.
CallsAreHeard ==
    \A c \in Calls :
       call[c].at = "waiting" ~> \/ call[c].at # "waiting" \/ session # "open"
                                 \/ Stranded(c)

=================================================================================
