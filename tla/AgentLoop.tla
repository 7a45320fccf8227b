----------------------------- MODULE AgentLoop -----------------------------
(***************************************************************************)
(* agents/react.py: the loop every arm and `learn` solves with.  A turn    *)
(* asks for a completion over the transcript so far, runs the tool calls   *)
(* it holds one after another and answers each; the loop ends when the     *)
(* agent declares the task done, when the provider fails, or with one last *)
(* word once the turns or the tool calls are spent.                        *)
(*                                                                         *)
(* A session is one call of solve, and any number run beside each other:   *)
(* loop[s] is the local state of session s.  A benchmark's sessions ask    *)
(* through _AccountingProvider, which retries and counts; the others ask   *)
(* the provider itself.  A transcript entry keeps its role, how many tool  *)
(* calls it carries and what it is marked as; its text is left out.        *)
(***************************************************************************)
EXTENDS Naturals, Sequences, FiniteSets

CONSTANTS
    Sessions,       \* calls of solve
    Accounted,      \* those that ask through _AccountingProvider
    MaxSteps,       \* max_steps
    MaxToolCalls,   \* max_tool_calls
    NudgeMargin,    \* NUDGE_TOOL_CALL_MARGIN
    BatchBound      \* bound on the tool calls of one completion

ASSUME LoopAssumption ==
    /\ Accounted \subseteq Sessions
    /\ MaxSteps \in Nat \ {0}
    /\ MaxToolCalls \in Nat \ {0}
    /\ NudgeMargin \in Nat
    /\ BatchBound \in Nat \ {0}

VARIABLE loop

-----------------------------------------------------------------------------

MAX_RETRY_ATTEMPTS == 3

(* What the model may call: one of the tools, known or not, or finish.      *)
Batches == UNION {[1 .. n -> {"tool", "finish"}] : n \in 1 .. BatchBound}

(* How asking for a completion may fail short of a rejected key: for a      *)
(* while (no response, nothing in the reply, a rate limit or a server       *)
(* error), for good (a wrong request, an unreadable reply), or by a reply   *)
(* whose usage is no number, which is not a provider's error.               *)
Failures == {"transient", "malformed", "usage"}

(* _is_retryable.                                                           *)
Retryable(failure) == failure = "transient"

ProviderErrors == Failures \ {"usage"}

-----------------------------------------------------------------------------
(* The transcript.                                                          *)

Entry(role, calls, marks) == [role |-> role, calls |-> calls, marks |-> marks]

Opening == <<Entry("system", 0, {}), Entry("user", 0, {})>>

(* executed_tool_calls.                                                     *)
ExecutedToolCalls(t) ==
    Cardinality({i \in DOMAIN t : t[i].role = "tool" /\ "not_run" \notin t[i].marks})

(* _api_messages: what of a transcript the provider is sent.                *)
ApiMessages(t) ==
    LET sent[n \in 0 .. Len(t)] ==
            IF n = 0 THEN <<>>
            ELSE IF t[n].role \in {"system", "error"} THEN sent[n - 1]
            ELSE Append(sent[n - 1], t[n])
    IN  sent[Len(t)]

-----------------------------------------------------------------------------
(* The loop.  Fresh is a solve that has not been called.                    *)

Fresh ==
    [pc |-> "off", step |-> 0, executed |-> 0, nudged |-> FALSE, spent |-> "none",
     batch |-> <<>>, transcript |-> Opening, tries |-> 0, calls |-> 0, outcome |-> "none"]

LoopInit == loop = [s \in Sessions |-> Fresh]

At(s, pc) == loop[s].pc = pc

LastTurn(s) == loop[s].step = MaxSteps - 1

NearlyOut(s) == MaxToolCalls - loop[s].executed <= NudgeMargin

Nudges(s) == ~loop[s].nudged /\ loop[s].step > 0 /\ (LastTurn(s) \/ NearlyOut(s))

(* The last word is asked for once a budget is spent.                       *)
AsksLastWord(s) == loop[s].spent # "none"

(* The session's loop ends with this outcome and these last entries.        *)
Returns(s, outcome, entries) ==
    loop' = [loop EXCEPT ![s].pc = "returned", ![s].outcome = outcome, ![s].batch = <<>>,
                         ![s].transcript = @ \o entries]

(* What a completion that was asked for adds to llm_calls.                  *)
Counted(s) == loop[s].calls + (IF s \in Accounted THEN 1 ELSE 0)

StartSolve(s) ==
    /\ At(s, "off")
    /\ loop' = [loop EXCEPT ![s].pc = "turn"]

(* A turn's start: the one reminder when the turn may be the last.          *)
BeginTurn(s) ==
    /\ At(s, "turn")
    /\ loop[s].step < MaxSteps
    /\ loop' = [loop EXCEPT
                    ![s].pc = "ask",
                    ![s].nudged = @ \/ Nudges(s),
                    ![s].transcript = IF Nudges(s) THEN Append(@, Entry("user", 0, {"nudge"})) ELSE @]

(* _last_word, up to its request.                                           *)
LastWord(s, spent) ==
    loop' = [loop EXCEPT ![s].pc = "ask", ![s].spent = spent,
                         ![s].transcript = Append(@, Entry("user", 0, {"last_word"}))]

StepsSpent(s) ==
    /\ At(s, "turn")
    /\ loop[s].step = MaxSteps
    /\ LastWord(s, "steps")

(* _AccountingProvider.complete tries again: a transient failure, while an  *)
(* attempt is left.  As a bug would have it: however often it has tried.    *)
AgainForever(s, failure) == s \in Accounted /\ Retryable(failure)

Again(s, failure) ==
    s \in Accounted /\ Retryable(failure) /\ loop[s].tries + 1 < MAX_RETRY_ATTEMPTS

Retry(s, failure) ==
    /\ At(s, "ask")
    /\ Again(s, failure)
    /\ loop' = [loop EXCEPT ![s].tries = @ + 1, ![s].calls = Counted(s)]

(* Asking fails for good: the solve fails, with the reason left in the      *)
(* transcript.  Only a provider's error is counted as a call.               *)
AskFails(s, failure) ==
    /\ At(s, "ask")
    /\ ~Again(s, failure)
    /\ LET reasons == <<Entry("error", 0, {"provider"})>>
                      \o (IF AsksLastWord(s) THEN <<Entry("error", 0, {"spent"})>> ELSE <<>>)
       IN  loop' = [loop EXCEPT
                        ![s].pc = "returned", ![s].outcome = "fail",
                        ![s].tries = @ + 1,
                        ![s].calls = IF failure \in ProviderErrors THEN Counted(s) ELSE @,
                        ![s].transcript = @ \o reasons]

(* The key is rejected: the error leaves solve, and no turn is recorded.    *)
KeyRejected(s) ==
    /\ At(s, "ask")
    /\ loop' = [loop EXCEPT ![s].pc = "raised", ![s].calls = Counted(s)]

(* A reply without a call declares the task done.                           *)
PlainReply(s) ==
    /\ At(s, "ask")
    /\ ~AsksLastWord(s)
    /\ loop' = [loop EXCEPT ![s].pc = "returned", ![s].outcome = "success",
                            ![s].tries = 0, ![s].calls = Counted(s),
                            ![s].transcript = Append(@, Entry("assistant", 0, {"done"}))]

ReplyWithCalls(s, batch) ==
    /\ At(s, "ask")
    /\ ~AsksLastWord(s)
    /\ loop' = [loop EXCEPT ![s].pc = "calls", ![s].batch = batch,
                            ![s].tries = 0, ![s].calls = Counted(s),
                            ![s].transcript = Append(@, Entry("assistant", Len(batch), {}))]

(* finish ends the loop where it stands; later calls of the turn are not    *)
(* looked at.                                                               *)
FinishCall(s) ==
    /\ At(s, "calls")
    /\ loop[s].batch # <<>>
    /\ Head(loop[s].batch) = "finish"
    /\ Returns(s, "success", <<Entry("assistant", 0, {"done"})>>)

NextCallIsATool(s) ==
    /\ At(s, "calls")
    /\ loop[s].batch # <<>>
    /\ Head(loop[s].batch) = "tool"

(* A command, a file tool or a refusal: all are counted and answered.       *)
RunCall(s) ==
    /\ NextCallIsATool(s)
    /\ loop[s].executed < MaxToolCalls
    /\ loop' = [loop EXCEPT ![s].batch = Tail(@), ![s].executed = @ + 1,
                            ![s].transcript = Append(@, Entry("tool", 0, {}))]

(* A file tool's write raises what it does not expect: a parent of the path *)
(* is a regular file.  Nothing catches it.                                  *)
ToolRaises(s) ==
    /\ NextCallIsATool(s)
    /\ loop[s].executed < MaxToolCalls
    /\ loop' = [loop EXCEPT ![s].pc = "raised", ![s].executed = @ + 1]

(* Past the budget a call is answered and not run.  As a bug would have it: *)
(* the rest of the turn is dropped.                                         *)
DropCalls(s) ==
    /\ NextCallIsATool(s)
    /\ loop[s].executed >= MaxToolCalls
    /\ loop' = [loop EXCEPT ![s].batch = <<>>]

AnswerNotRun(s) ==
    /\ NextCallIsATool(s)
    /\ loop[s].executed >= MaxToolCalls
    /\ loop' = [loop EXCEPT ![s].batch = Tail(@),
                            ![s].transcript = Append(@, Entry("tool", 0, {"not_run"}))]

EndOfCalls(s) ==
    /\ At(s, "calls")
    /\ loop[s].batch = <<>>
    /\ IF loop[s].executed >= MaxToolCalls
       THEN LastWord(s, "calls")
       ELSE loop' = [loop EXCEPT ![s].pc = "turn", ![s].step = @ + 1]

(* _last_word's reply, nothing of which is run: only finish declares the    *)
(* task done.                                                               *)
LastReply(s, batch) ==
    /\ At(s, "ask")
    /\ AsksLastWord(s)
    /\ LET declared == \E i \in DOMAIN batch : batch[i] = "finish"
       IN  loop' = [loop EXCEPT
                        ![s].pc = "returned", ![s].tries = 0, ![s].calls = Counted(s),
                        ![s].outcome = IF declared THEN "success" ELSE "fail",
                        ![s].transcript =
                            IF declared
                            THEN Append(@, Entry("assistant", 0, {"done", "last_word"}))
                            ELSE @ \o <<Entry("assistant", 0, {"last_word"}),
                                        Entry("error", 0, {"spent"})>>]

(* Every step of a solve but the tool calls, which act on the clone.        *)
ThinkStep(s) ==
    \/ StartSolve(s)
    \/ BeginTurn(s)
    \/ StepsSpent(s)
    \/ \E failure \in Failures : Retry(s, failure)
    \/ \E failure \in Failures : AskFails(s, failure)
    \/ KeyRejected(s)
    \/ PlainReply(s)
    \/ \E batch \in Batches : ReplyWithCalls(s, batch)
    \/ FinishCall(s)
    \/ ToolRaises(s)
    \/ AnswerNotRun(s)
    \/ EndOfCalls(s)
    \/ \E batch \in Batches \cup {<<>>} : LastReply(s, batch)

SolveStep(s) == ThinkStep(s) \/ RunCall(s)

=============================================================================
