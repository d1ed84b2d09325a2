--------------------------- MODULE EmployeeAgent ---------------------------
(***************************************************************************)
(* One employee conversation with the assistant (employee_agent/): message *)
(* turns that stream an answer, resolution feedback, the ticket draft made *)
(* from it and its confirmation.  Requests run concurrently; each reads    *)
(* the state of the conversation in one transaction and acts on it in a    *)
(* later one.  An answer may call the AI gateway, once per turn, and       *)
(* relies on its contract (AiContract).  The ticket service is used        *)
(* through what it commits: one draft per conversation, submitted once.    *)
(***************************************************************************)
EXTENDS AiSurface

CONSTANT Requests   \* feedback and confirmation requests

Turns == Calls

VARIABLES
    conv,           \* [state, feedback, draft, ticket] of the conversation
    turn,           \* turn_status, NONE before the row is inserted
    handler,        \* handler[t]: [step, snap, answer] of the request streaming t
    request,        \* request[r]: [step, kind] of a feedback or confirmation
    draft           \* the ticket draft of the conversation, in the ticket service

dialog == <<conv, turn, handler, request, draft, crashes>>
dialogVars == <<contract, dialog>>

States == {"NEW", "COLLECTING_INFORMATION", "AWAITING_RESOLUTION_CONFIRMATION",
           "COLLECTING_TICKET_FIELDS", "AWAITING_USER_CONFIRMATION",
           "RESOLVED_WITHOUT_TICKET", "TICKET_SUBMITTED"}
Answers == {"AWAITING_RESOLUTION_CONFIRMATION", "COLLECTING_TICKET_FIELDS"}
TurnStatuses == {"NONE", "ACTIVE", "COMPLETED", "CANCELLED", "FAILED"}
Kinds == {"resolved", "unresolved", "confirm"}

DialogTypeOK ==
    /\ ContractTypeOK
    /\ conv \in [state : States, feedback : {"none", "resolved", "unresolved"},
                 draft : BOOLEAN, ticket : BOOLEAN]
    /\ turn \in [Turns -> TurnStatuses]
    /\ handler \in [Turns -> [step : {"none", "read", "started", "answering",
                                      "streaming", "over"},
                              snap : States, answer : Answers]]
    /\ request \in [Requests -> [step : {"none", "drafting", "recording", "submitting",
                                         "linking"}, kind : Kinds]]
    /\ draft \in {"ABSENT", "DRAFT", "READY_FOR_REVIEW", "SUBMITTED"}
    /\ crashes \in 0 .. MaxCrashes

DialogInit ==
    /\ ContractInit
    /\ conv = [state |-> "NEW", feedback |-> "none", draft |-> FALSE, ticket |-> FALSE]
    /\ turn = [t \in Turns |-> "NONE"]
    /\ handler = [t \in Turns |-> [step |-> "none", snap |-> "NEW",
                                   answer |-> "COLLECTING_TICKET_FIELDS"]]
    /\ request = [r \in Requests |-> [step |-> "none", kind |-> "confirm"]]
    /\ draft = "ABSENT" /\ crashes = 0

Streaming(t, step) == handler' = [handler EXCEPT ![t].step = step]
Serving(r, step)   == request' = [request EXCEPT ![r].step = step]

-----------------------------------------------------------------------------
(* stream_message *)

\* conversation: the state the machine of this turn starts from.
ReadConversation(t) ==
    /\ handler[t].step = "none"
    /\ handler' = [handler EXCEPT ![t].step = "read", ![t].snap = conv.state]
    /\ UNCHANGED <<contract, conv, turn, request, draft, crashes>>

\* Mutant of AcceptsMessage: a running turn not looked for.
AcceptsMessage_Always ==
    conv.state \notin {"RESOLVED_WITHOUT_TICKET", "TICKET_SUBMITTED",
                       "AWAITING_USER_CONFIRMATION"}

\* start_turn, which holds the conversation row.
AcceptsMessage ==
    /\ conv.state \notin {"RESOLVED_WITHOUT_TICKET", "TICKET_SUBMITTED",
                          "AWAITING_USER_CONFIRMATION"}
    /\ \A t \in Turns : turn[t] # "ACTIVE"

StartTurn(t) ==
    /\ handler[t].step = "read"
    /\ AcceptsMessage
    /\ turn' = [turn EXCEPT ![t] = "ACTIVE"]
    /\ conv' = [conv EXCEPT !.state = "COLLECTING_INFORMATION"]
    /\ Streaming(t, "started")
    /\ UNCHANGED <<contract, request, draft, crashes>>

\* ConflictError: the conversation is closed or has an active turn.
RefuseMessage(t) ==
    /\ handler[t].step = "read"
    /\ ~AcceptsMessage
    /\ Streaming(t, "none")
    /\ UNCHANGED <<contract, conv, turn, request, draft, crashes>>

Answered(t, answer) ==
    handler' = [handler EXCEPT ![t].step = "streaming", ![t].answer = answer]

\* The deterministic answers: the machine already collects ticket fields, the
\* message is refused or escalated at once, or there is no evidence to use.
AnswerWithoutAi(t) ==
    /\ handler[t].step = "started"
    /\ Answered(t, "COLLECTING_TICKET_FIELDS")
    /\ UNCHANGED <<contract, conv, turn, request, draft, crashes>>

\* _answer reaches the gateway with evidence.
AskGateway(t) ==
    /\ handler[t].step = "started"
    /\ handler[t].snap # "COLLECTING_TICKET_FIELDS"
    /\ Ask(t) \/ Refuse(t)
    /\ Streaming(t, "answering")
    /\ UNCHANGED <<conv, turn, request, draft, crashes>>

\* The generation is usable or not; no generation, the unavailable answer.
TakeAnswer(t, answer) ==
    /\ handler[t].step = "answering"
    /\ stage[t] \in {"generated", "unavailable"}
    /\ answer = "AWAITING_RESOLUTION_CONFIRMATION" => stage[t] = "generated"
    /\ Answered(t, answer)
    /\ UNCHANGED <<contract, conv, turn, request, draft, crashes>>

\* asyncio.timeout cancels the answer; the turn goes on with the fixed one.
AnswerTimesOut(t) ==
    /\ handler[t].step = "answering"
    /\ Stop(t)
    /\ Answered(t, "COLLECTING_TICKET_FIELDS")
    /\ UNCHANGED <<conv, turn, request, draft, crashes>>

\* finish_turn updates WHERE turn_status = 'ACTIVE'.
MayFinish(t) == handler[t].step = "streaming" /\ turn[t] = "ACTIVE"

FinishTurn(t) ==
    /\ MayFinish(t)
    /\ turn' = [turn EXCEPT ![t] = "COMPLETED"]
    /\ conv' = [conv EXCEPT !.state = handler[t].answer]
    /\ Streaming(t, "over")
    /\ UNCHANGED <<contract, request, draft, crashes>>

\* Mutant of FinishRefused: a cancelled turn is taken to be running still.
FinishRefused_CompletedOnly(t) ==
    /\ handler[t].step = "streaming"
    /\ turn[t] \notin {"ACTIVE", "CANCELLED"}
    /\ Streaming(t, "over")
    /\ UNCHANGED <<contract, conv, turn, request, draft, crashes>>

\* The turn is no longer ACTIVE: the answer rolls back with ActiveTurnError and
\* fail_turn changes no row.
FinishRefused(t) ==
    /\ handler[t].step = "streaming"
    /\ turn[t] # "ACTIVE"
    /\ Streaming(t, "over")
    /\ UNCHANGED <<contract, conv, turn, request, draft, crashes>>

\* POST .../turns/{id}/cancel; the state of the conversation stays.
CancelTurn(t) ==
    /\ turn[t] = "ACTIVE"
    /\ turn' = [turn EXCEPT ![t] = "CANCELLED"]
    /\ UNCHANGED <<contract, conv, handler, request, draft, crashes>>

\* The cancellation event of this process, or the watcher of another one.
NoticeCancellation(t) ==
    /\ handler[t].step = "answering"
    /\ turn[t] # "ACTIVE"
    /\ IF stage[t] = "calling" THEN Stop(t) ELSE UNCHANGED contract
    /\ Streaming(t, "over")
    /\ UNCHANGED <<conv, turn, request, draft, crashes>>

Settled(t, status) ==
    turn' = [turn EXCEPT ![t] = IF @ = "ACTIVE" THEN status ELSE @]

\* An exception outside the gateway call: _fail.
TurnFails(t) ==
    /\ handler[t].step \in {"started", "answering", "streaming"}
    /\ stage[t] # "calling"
    /\ Settled(t, "FAILED")
    /\ Streaming(t, "over")
    /\ UNCHANGED <<contract, conv, request, draft, crashes>>

\* The client goes away while the request waits for something: CancelledError
\* is raised there, and _cancel records it.
Disconnect(t) ==
    /\ handler[t].step = "answering"
    /\ Settled(t, "CANCELLED")
    /\ IF stage[t] = "calling" THEN Stop(t) ELSE UNCHANGED contract
    /\ Streaming(t, "over")
    /\ UNCHANGED <<conv, request, draft, crashes>>

\* The client goes away while the generator waits in a yield: it is closed
\* with GeneratorExit, which no except clause catches.
DropStream(t) ==
    /\ handler[t].step \in {"started", "streaming"}
    /\ Streaming(t, "over")
    /\ UNCHANGED <<contract, conv, turn, request, draft, crashes>>

-----------------------------------------------------------------------------
(* resolution_feedback *)

FeedbackStates == {"AWAITING_RESOLUTION_CONFIRMATION", "COLLECTING_TICKET_FIELDS",
                   "AWAITING_USER_CONFIRMATION", "RESOLVED_WITHOUT_TICKET"}

BeginFeedback(r, kind) ==
    /\ request[r].step = "none"
    /\ kind \in {"resolved", "unresolved"}
    /\ conv.state \in FeedbackStates
    /\ kind = "unresolved" => conv.state # "RESOLVED_WITHOUT_TICKET"
    /\ request' = [request EXCEPT ![r] =
            [step |-> IF kind = "resolved" THEN "recording" ELSE "drafting", kind |-> kind]]
    /\ UNCHANGED <<contract, conv, turn, handler, draft, crashes>>

\* create_agent_draft commits on its own; the draft of the conversation is
\* returned when there is one already.
CreateDraft(r) ==
    /\ request[r].step = "drafting"
    /\ draft' = IF draft = "ABSENT" THEN "DRAFT" ELSE draft
    /\ Serving(r, "recording")
    /\ UNCHANGED <<contract, conv, turn, handler, crashes>>

\* Mutant of MayRecord: a recorded outcome may be replaced.
MayRecord_OutcomeReplaced(kind) ==
    /\ conv.state \in FeedbackStates
    /\ kind = "resolved" => conv.state # "COLLECTING_TICKET_FIELDS"

\* record_resolution_feedback holds the conversation row and asks again; the
\* feedback row is unique, and another outcome conflicts with it.
MayRecord(kind) ==
    /\ conv.state \in FeedbackStates
    /\ kind = "resolved" => conv.state # "COLLECTING_TICKET_FIELDS"
    /\ conv.feedback \in {"none", kind}

\* The unresolved outcome commits together with link_draft.
RecordFeedback(r) ==
    LET kind == request[r].kind IN
    /\ request[r].step = "recording"
    /\ MayRecord(kind)
    /\ conv' = IF kind = "resolved"
               THEN [conv EXCEPT !.feedback = kind, !.state = "RESOLVED_WITHOUT_TICKET"]
               ELSE [conv EXCEPT !.feedback = kind, !.draft = TRUE,
                                 !.state = "AWAITING_USER_CONFIRMATION"]
    /\ Serving(r, "none")
    /\ UNCHANGED <<contract, turn, handler, draft, crashes>>

FeedbackRefused(r) ==
    /\ request[r].step = "recording"
    /\ ~MayRecord(request[r].kind)
    /\ Serving(r, "none")
    /\ UNCHANGED <<contract, conv, turn, handler, draft, crashes>>

-----------------------------------------------------------------------------
(* confirm_ticket, and the draft in the ticket service *)

BeginConfirm(r) ==
    /\ request[r].step = "none"
    /\ draft # "ABSENT"
    /\ conv.state \in {"AWAITING_USER_CONFIRMATION", "TICKET_SUBMITTED"}
    /\ request' = [request EXCEPT ![r] = [step |-> "submitting", kind |-> "confirm"]]
    /\ UNCHANGED <<contract, conv, turn, handler, draft, crashes>>

\* A submitted draft is answered with its ticket, a reviewed one is submitted.
SubmitDraft(r) ==
    /\ request[r].step = "submitting"
    /\ draft \in {"READY_FOR_REVIEW", "SUBMITTED"}
    /\ draft' = "SUBMITTED"
    /\ Serving(r, "linking")
    /\ UNCHANGED <<contract, conv, turn, handler, crashes>>

ConfirmRefused(r) ==
    /\ request[r].step = "submitting"
    /\ draft = "DRAFT"
    /\ Serving(r, "none")
    /\ UNCHANGED <<contract, conv, turn, handler, draft, crashes>>

\* link_ticket asks for the draft's ticket, not for the state.
LinkTicket(r) ==
    /\ request[r].step = "linking"
    /\ conv' = [conv EXCEPT !.state = "TICKET_SUBMITTED", !.ticket = TRUE]
    /\ Serving(r, "none")
    /\ UNCHANGED <<contract, turn, handler, draft, crashes>>

\* The employee reviews, edits or submits the draft through the ticket API.
EditDraft(status) ==
    /\ draft \in {"DRAFT", "READY_FOR_REVIEW"}
    /\ status = "SUBMITTED" => draft = "READY_FOR_REVIEW"
    /\ status \in {"DRAFT", "READY_FOR_REVIEW", "SUBMITTED"} \ {draft}
    /\ draft' = status
    /\ UNCHANGED <<contract, conv, turn, handler, request, crashes>>

\* The process dies: turns stay as they are, requests end where they were.
DialogCrash ==
    /\ ProcessDies
    /\ StopAll({t \in Turns : stage[t] = "calling"})
    /\ handler' = [t \in Turns |-> IF handler[t].step = "none" THEN handler[t]
                                   ELSE [handler[t] EXCEPT !.step = "over"]]
    /\ request' = [r \in Requests |-> [request[r] EXCEPT !.step = "none"]]
    /\ UNCHANGED <<conv, turn, draft>>

-----------------------------------------------------------------------------

StreamStep(t) ==
    \/ StartTurn(t) \/ RefuseMessage(t)
    \/ AnswerWithoutAi(t) \/ AskGateway(t)
    \/ \E answer \in Answers : TakeAnswer(t, answer)
    \/ FinishTurn(t) \/ FinishRefused(t)
    \/ NoticeCancellation(t)

GatewayEnds(t) ==
    /\ Generate(t) \/ Fail(t)
    /\ UNCHANGED dialog

GatewayStep(t) ==
    \/ GatewayEnds(t)
    \/ RecordStop(t) /\ UNCHANGED dialog

DialogNext ==
    \/ \E t \in Turns :
          \/ ReadConversation(t) \/ StreamStep(t) \/ GatewayStep(t)
          \/ AnswerTimesOut(t) \/ CancelTurn(t)
          \/ TurnFails(t) \/ Disconnect(t) \/ DropStream(t)
    \/ \E r \in Requests :
          \/ \E kind \in Kinds : BeginFeedback(r, kind)
          \/ CreateDraft(r) \/ RecordFeedback(r) \/ FeedbackRefused(r)
          \/ BeginConfirm(r) \/ SubmitDraft(r) \/ ConfirmRefused(r) \/ LinkTicket(r)
    \/ \E status \in {"DRAFT", "READY_FOR_REVIEW", "SUBMITTED"} : EditDraft(status)
    \/ DialogCrash

DialogSpec == DialogInit /\ [][DialogNext]_dialogVars

\* A request that is being served goes on, and a provider call ends by its
\* timeout; clients, reviews and clocks owe nothing.
FairSpec ==
    /\ DialogSpec
    /\ \A t \in Turns : WF_dialogVars(StreamStep(t)) /\ WF_dialogVars(GatewayEnds(t))

-----------------------------------------------------------------------------
(* What the conversation promises *)

\* There is one running turn at most, and while it runs nothing else moves the
\* conversation: feedback on an earlier answer, a cancelled turn that still
\* streams or a second message never changes the state under it (start_turn,
\* finish_turn, record_resolution_feedback).
TurnOwnsConversation ==
    \A t \in Turns : turn[t] = "ACTIVE" =>
        /\ conv.state = "COLLECTING_INFORMATION"
        /\ \A u \in Turns : turn[u] = "ACTIVE" => u = t

\* What the conversation says is what its feedback, draft and ticket are: it is
\* resolved without a ticket on a resolved outcome only, waits for confirmation
\* with a linked draft, and has a ticket only from its submitted draft
\* (record_resolution_feedback, link_draft, link_ticket).
OutcomeConsistent ==
    /\ conv.state = "RESOLVED_WITHOUT_TICKET" => conv.feedback = "resolved" /\ ~conv.draft
    /\ conv.draft <=> conv.state \in {"AWAITING_USER_CONFIRMATION", "TICKET_SUBMITTED"}
    /\ conv.draft => conv.feedback = "unresolved" /\ draft # "ABSENT"
    /\ conv.ticket <=> conv.state = "TICKET_SUBMITTED"
    /\ conv.ticket => draft = "SUBMITTED"

\* A turn that started to answer comes to its end in every case, with the
\* gateway down, slow or over budget, cancelled or not (the timeouts, the
\* bounded retries and the watcher of stream_message).
TurnsEnd == \A t \in Turns : handler[t].step = "started" ~> handler[t].step = "over"

=============================================================================
