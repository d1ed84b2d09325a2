------------------------ MODULE AiAndAttachmentProofs ------------------------
(***************************************************************************)
(* Three components that share no names, each by itself and for any number *)
(* of calls, requests, handlers and crashes. Of a conversation with the    *)
(* employee agent: a running turn owns it, and its outcome is consistent.  *)
(* Of the drafts of the analyst copilot: each reaches the ticket once and  *)
(* is recorded as it was sent. Of the files of a ticket: what is released  *)
(* or served is clean and in its place, and records agree with rows, for   *)
(* transactions that roll back, die or lose their commit.                  *)
(***************************************************************************)
EXTENDS EmployeeAgent, AnalystCopilot, Attachments, SequenceTheorems, TLAPS

\* The gateway moves one call.
Moves(c) == Ask(c) \/ Refuse(c) \/ Generate(c) \/ Fail(c) \/ Stop(c) \/ RecordStop(c)

-----------------------------------------------------------------------------
(* The employee agent: the invariant                                       *)

HandlerType == [step : {"none", "read", "started", "answering", "streaming", "over"},
                snap : States, answer : Answers]
RequestType == [step : {"none", "drafting", "recording", "submitting", "linking"},
                kind : Kinds]

\* What a request between two of its transactions has behind it: a draft to
\* link, or a linked draft to submit, or a submitted one.  Feedback is not
\* confirmation.
Requested ==
    \A r \in Requests :
        /\ request[r].step \in {"drafting", "recording"} => request[r].kind # "confirm"
        /\ request[r].step = "recording" /\ request[r].kind = "unresolved" => draft # "ABSENT"
        /\ request[r].step \in {"submitting", "linking"} => conv.draft
        /\ request[r].step = "linking" => draft = "SUBMITTED"

DialogIInv == DialogTypeOK /\ TurnOwnsConversation /\ OutcomeConsistent /\ Requested

LEMMA DialogInitIInv == ASSUME DialogInit PROVE DialogIInv
  <1> USE DEF DialogInit
  <1>1. DialogTypeOK
    BY CrashAssumption
       DEF DialogTypeOK, ContractInit, ContractTypeOK, Stages, RunStates, TurnStatuses, States, Answers, Kinds
  <1>2. TurnOwnsConversation /\ OutcomeConsistent /\ Requested
    BY DEF TurnOwnsConversation, OutcomeConsistent, Requested
  <1>3. QED
    BY <1>1, <1>2 DEF DialogIInv

-----------------------------------------------------------------------------
(* Steps of the handlers and of the gateway.                               *)

\* Whatever the gateway does keeps its types.
LEMMA MovesType ==
  ASSUME ContractTypeOK, NEW t \in Turns, Moves(t) \/ UNCHANGED contract
  PROVE  ContractTypeOK'
  <1>1. CASE UNCHANGED contract
    BY <1>1 DEF contract, ContractTypeOK
  <1>2. ASSUME NEW s \in Stages, NEW x \in RunStates, Move(t, s, x)
        PROVE  ContractTypeOK'
    BY <1>2 DEF Move, Turns, ContractTypeOK
  <1>3. CASE Moves(t)
    <2>1. \E s \in Stages, x \in RunStates : Move(t, s, x)
      BY <1>3 DEF Moves, Ask, Refuse, Generate, Fail, Stop, RecordStop, Stages, RunStates
    <2>2. QED
      BY <1>2, <2>1
  <1>4. QED
    BY <1>1, <1>3

\* A handler moves on, perhaps with what it read or what it will answer.
LEMMA HandlerStep ==
  ASSUME DialogTypeOK, NEW t \in Turns
  PROVE  /\ \A s \in {"none", "read", "started", "answering", "streaming", "over"} :
              Streaming(t, s) => handler' \in [Turns -> HandlerType]
         /\ \A answer \in Answers : Answered(t, answer) => handler' \in [Turns -> HandlerType]
  <1> DEFINE HandlerStages == {"none", "read", "started", "answering", "streaming", "over"}
  <1>1. handler \in [Turns -> HandlerType]
    BY DEF DialogTypeOK, HandlerType
  <1>2. ASSUME NEW s \in HandlerStages, Streaming(t, s)
        PROVE  handler' \in [Turns -> HandlerType]
    <2>1. [handler[t] EXCEPT !.step = s] \in HandlerType
      BY <1>1 DEF HandlerType
    <2>2. handler' = [handler EXCEPT ![t] = [handler[t] EXCEPT !.step = s]]
      BY <1>1, <1>2 DEF Streaming
    <2>3. QED
      BY <1>1, <2>1, <2>2
  <1>3. ASSUME NEW answer \in Answers, Answered(t, answer)
        PROVE  handler' \in [Turns -> HandlerType]
    <2> DEFINE x == [handler[t] EXCEPT !.step = "streaming", !.answer = answer]
    <2>1. x \in HandlerType
      BY <1>1 DEF HandlerType
    <2>2. handler' = [handler EXCEPT ![t] = x]
      BY <1>1, <1>3 DEF Answered
    <2> HIDE DEF x
    <2>3. QED
      BY <1>1, <2>1, <2>2
  <1>4. QED
    BY <1>2, <1>3

\* A step that leaves the conversation, its draft and its requests alone, and
\* starts no turn.
LEMMA QuietIInv ==
  ASSUME DialogIInv, UNCHANGED <<conv, request, draft>>, DialogTypeOK',
         \A t \in Turns : turn'[t] = "ACTIVE" => turn[t] = "ACTIVE"
  PROVE  DialogIInv'
  <1> USE DEF DialogIInv
  <1>1. TurnOwnsConversation' /\ OutcomeConsistent'
    BY DEF TurnOwnsConversation, OutcomeConsistent
  <1>2. Requested'
    BY DEF Requested
  <1>3. QED
    BY <1>1, <1>2

LEMMA HandlerIInv ==
  ASSUME DialogIInv, NEW t \in Turns,
         \/ ReadConversation(t) \/ RefuseMessage(t) \/ AnswerWithoutAi(t) \/ AskGateway(t)
         \/ (\E answer \in Answers : TakeAnswer(t, answer)) \/ FinishRefused(t)
         \/ NoticeCancellation(t) \/ GatewayStep(t) \/ AnswerTimesOut(t) \/ CancelTurn(t)
         \/ TurnFails(t) \/ Disconnect(t) \/ DropStream(t)
  PROVE  DialogIInv'
  <1> USE DEF DialogIInv
  <1>1. UNCHANGED <<conv, request, draft, crashes>> /\ (Moves(t) \/ UNCHANGED contract)
    BY DEF ReadConversation, RefuseMessage, AnswerWithoutAi, AskGateway, TakeAnswer, FinishRefused,
           NoticeCancellation, GatewayStep, GatewayEnds, AnswerTimesOut, CancelTurn, TurnFails,
           Disconnect, DropStream, Moves, dialog
  <1>2. /\ turn' \in [Turns -> TurnStatuses]
        /\ \A u \in Turns : turn'[u] = "ACTIVE" => turn[u] = "ACTIVE"
    <2>1. CASE UNCHANGED turn
      BY <2>1 DEF DialogTypeOK
    <2>2. CASE CancelTurn(t)
      BY <2>2 DEF CancelTurn, DialogTypeOK, TurnStatuses
    <2>3. CASE Settled(t, "FAILED") \/ Settled(t, "CANCELLED")
      BY <2>3 DEF Settled, DialogTypeOK, TurnStatuses
    <2>4. CASE \/ ReadConversation(t) \/ RefuseMessage(t) \/ AskGateway(t) \/ NoticeCancellation(t)
               \/ GatewayStep(t) \/ Disconnect(t)
      <3>1. UNCHANGED turn \/ Settled(t, "FAILED") \/ Settled(t, "CANCELLED")
        BY <2>4 DEF ReadConversation, RefuseMessage, AskGateway, NoticeCancellation, GatewayStep,
                    GatewayEnds, Disconnect, dialog
      <3>2. QED
        BY <2>1, <2>3, <3>1
    <2>5. CASE \/ AnswerWithoutAi(t) \/ (\E answer \in Answers : TakeAnswer(t, answer))
               \/ FinishRefused(t) \/ AnswerTimesOut(t) \/ TurnFails(t) \/ DropStream(t)
      <3>1. UNCHANGED turn \/ Settled(t, "FAILED") \/ Settled(t, "CANCELLED")
        BY <2>5 DEF AnswerWithoutAi, TakeAnswer, FinishRefused, AnswerTimesOut, TurnFails,
                    DropStream, dialog
      <3>2. QED
        BY <2>1, <2>3, <3>1
    <2>6. QED
      BY <2>2, <2>4, <2>5
  <1>3. handler' \in [Turns -> HandlerType]
    <2>1. CASE ReadConversation(t)
      <3> DEFINE x == [handler[t] EXCEPT !.step = "read", !.snap = conv.state]
      <3>1. handler \in [Turns -> HandlerType] /\ conv.state \in States
        BY DEF DialogTypeOK, HandlerType
      <3>2. x \in HandlerType
        BY <3>1 DEF HandlerType
      <3>3. handler' = [handler EXCEPT ![t] = x]
        BY <2>1, <3>1 DEF ReadConversation
      <3> HIDE DEF x
      <3>4. QED
        BY <3>1, <3>2, <3>3
    <2>2. CASE GatewayStep(t) \/ CancelTurn(t)
      BY <2>2 DEF GatewayStep, GatewayEnds, CancelTurn, dialog, DialogTypeOK, HandlerType
    <2>3. CASE AnswerWithoutAi(t) \/ AnswerTimesOut(t) \/ \E answer \in Answers : TakeAnswer(t, answer)
      BY <2>3, HandlerStep DEF AnswerWithoutAi, AnswerTimesOut, TakeAnswer, Answers
    <2>4. CASE \/ RefuseMessage(t) \/ AskGateway(t) \/ FinishRefused(t) \/ NoticeCancellation(t)
               \/ TurnFails(t) \/ Disconnect(t) \/ DropStream(t)
      BY <2>4, HandlerStep DEF RefuseMessage, AskGateway, FinishRefused, NoticeCancellation,
                               TurnFails, Disconnect, DropStream
    <2>5. QED
      BY <2>1, <2>2, <2>3, <2>4
  <1>4. ContractTypeOK'
    BY <1>1, MovesType DEF DialogTypeOK
  <1>5. DialogTypeOK'
    BY <1>1, <1>2, <1>3, <1>4 DEF DialogTypeOK, HandlerType
  <1>6. QED
    BY <1>1, <1>2, <1>5, QuietIInv

\* start_turn: no turn is running and the conversation is open.
LEMMA StartTurnIInv ==
  ASSUME DialogIInv, NEW t \in Turns, StartTurn(t)
  PROVE  DialogIInv'
  <1> USE DEF DialogIInv, StartTurn, AcceptsMessage
  <1>1. conv' = [conv EXCEPT !.state = "COLLECTING_INFORMATION"]
    OBVIOUS
  <1>2. ~conv.draft /\ ~conv.ticket
    BY DEF OutcomeConsistent, DialogTypeOK
  <1>3. handler' \in [Turns -> HandlerType]
    BY HandlerStep
  <1>4. DialogTypeOK'
    BY <1>3 DEF DialogTypeOK, HandlerType, ContractTypeOK, contract, States, TurnStatuses
  <1>5. TurnOwnsConversation'
    BY DEF TurnOwnsConversation, DialogTypeOK
  <1>6. OutcomeConsistent'
    BY <1>2 DEF OutcomeConsistent, DialogTypeOK
  <1>7. Requested'
    BY DEF Requested, DialogTypeOK
  <1>8. QED
    BY <1>4, <1>5, <1>6, <1>7

\* finish_turn: the turn is the one that runs, so the state is its own.
LEMMA FinishTurnIInv ==
  ASSUME DialogIInv, NEW t \in Turns, FinishTurn(t)
  PROVE  DialogIInv'
  <1> USE DEF DialogIInv, FinishTurn, MayFinish
  <1>1. conv.state = "COLLECTING_INFORMATION" /\ \A u \in Turns : turn[u] = "ACTIVE" => u = t
    BY DEF TurnOwnsConversation
  <1>2. handler[t].answer \in Answers
    BY DEF DialogTypeOK
  <1>3. ~conv.draft /\ ~conv.ticket
    BY <1>1 DEF OutcomeConsistent, DialogTypeOK
  <1>4. handler' \in [Turns -> HandlerType]
    BY HandlerStep
  <1>5. DialogTypeOK'
    BY <1>2, <1>4 DEF DialogTypeOK, HandlerType, ContractTypeOK, contract, States, Answers, TurnStatuses
  <1>6. TurnOwnsConversation'
    BY <1>1 DEF TurnOwnsConversation, DialogTypeOK
  <1>7. OutcomeConsistent'
    BY <1>2, <1>3 DEF OutcomeConsistent, DialogTypeOK, Answers
  <1>8. Requested'
    BY DEF Requested, DialogTypeOK
  <1>9. QED
    BY <1>5, <1>6, <1>7, <1>8

-----------------------------------------------------------------------------
(* Feedback and confirmation.                                              *)

\* A request moves on, for the same kind of outcome.
LEMMA ServingStep ==
  ASSUME DialogTypeOK, NEW r \in Requests,
         NEW s \in {"none", "drafting", "recording", "submitting", "linking"}, Serving(r, s)
  PROVE  /\ request' \in [Requests -> RequestType]
         /\ request'[r].step = s /\ request'[r].kind = request[r].kind
         /\ \A q \in Requests \ {r} : request'[q] = request[q]
  BY DEF DialogTypeOK, Serving, RequestType

\* BeginFeedback, BeginConfirm.
LEMMA BeginIInv ==
  ASSUME DialogIInv, NEW r \in Requests,
         BeginConfirm(r) \/ \E kind \in Kinds : BeginFeedback(r, kind)
  PROVE  DialogIInv'
  <1> USE DEF DialogIInv
  <1>1. PICK s \in {"drafting", "recording", "submitting"}, k \in Kinds :
          /\ request' = [request EXCEPT ![r] = [step |-> s, kind |-> k]]
          /\ s \in {"drafting", "recording"} => k # "confirm"
          /\ s = "recording" => k = "resolved"
          /\ s = "submitting" => conv.draft
    BY DEF BeginConfirm, BeginFeedback, Kinds, OutcomeConsistent
  <1>2. UNCHANGED <<contract, conv, turn, handler, draft, crashes>>
    BY DEF BeginConfirm, BeginFeedback
  <1>3. DialogTypeOK'
    BY <1>1, <1>2 DEF DialogTypeOK, ContractTypeOK, contract
  <1>4. TurnOwnsConversation' /\ OutcomeConsistent'
    BY <1>2 DEF TurnOwnsConversation, OutcomeConsistent
  <1>5. Requested'
    BY <1>1, <1>2 DEF Requested, DialogTypeOK
  <1>6. QED
    BY <1>3, <1>4, <1>5

\* create_agent_draft and the refusals.
LEMMA DraftOrRefuseIInv ==
  ASSUME DialogIInv, NEW r \in Requests, CreateDraft(r) \/ FeedbackRefused(r) \/ ConfirmRefused(r)
  PROVE  DialogIInv'
  <1> USE DEF DialogIInv
  <1>1. PICK s \in {"none", "recording"} : 
          /\ Serving(r, s)
          /\ s = "recording" => draft' # "ABSENT" /\ request[r].kind # "confirm"
    BY DEF Requested, CreateDraft, FeedbackRefused, ConfirmRefused, DialogTypeOK
  <1>2. /\ UNCHANGED <<contract, conv, turn, handler, crashes>>
        /\ draft' = draft \/ (draft = "ABSENT" /\ draft' = "DRAFT")
    BY DEF CreateDraft, FeedbackRefused, ConfirmRefused
  <1>3. DialogTypeOK'
    BY <1>1, <1>2, ServingStep DEF DialogTypeOK, RequestType, ContractTypeOK, contract
  <1>4. TurnOwnsConversation' /\ OutcomeConsistent'
    BY <1>2 DEF TurnOwnsConversation, OutcomeConsistent
  <1>5. Requested'
    BY <1>1, <1>2, ServingStep DEF Requested
  <1>6. QED
    BY <1>3, <1>4, <1>5

\* record_resolution_feedback: an outcome that was recorded stays.
LEMMA RecordFeedbackIInv ==
  ASSUME DialogIInv, NEW r \in Requests, RecordFeedback(r)
  PROVE  DialogIInv'
  <1> DEFINE kind == request[r].kind
  <1> USE DEF DialogIInv, RecordFeedback
  <1>1. /\ conv.state \in FeedbackStates /\ conv.feedback \in {"none", kind}
        /\ kind \in Kinds /\ Serving(r, "none")
        /\ request[r].step = "recording"
    BY DEF MayRecord, DialogTypeOK
  <1>2. ~conv.ticket /\ \A t \in Turns : turn[t] # "ACTIVE"
    BY <1>1 DEF OutcomeConsistent, TurnOwnsConversation, FeedbackStates, DialogTypeOK
  <1>3. conv' \in [state : States, feedback : {"none", "resolved", "unresolved"},
                   draft : BOOLEAN, ticket : BOOLEAN] => DialogTypeOK'
    BY <1>1, ServingStep DEF DialogTypeOK, RequestType, ContractTypeOK, contract
  <1>4. TurnOwnsConversation'
    BY <1>2 DEF TurnOwnsConversation
  <1>5. CASE kind = "resolved"
    <2>1. ~conv.draft
      BY <1>1, <1>5 DEF OutcomeConsistent, DialogTypeOK
    <2>2. conv' = [conv EXCEPT !.feedback = "resolved", !.state = "RESOLVED_WITHOUT_TICKET"]
      BY <1>5
    <2>3. DialogTypeOK'
      BY <1>3, <2>2 DEF DialogTypeOK, States
    <2>4. OutcomeConsistent'
      BY <1>2, <2>1, <2>2 DEF OutcomeConsistent, DialogTypeOK
    <2>5. Requested'
      BY <1>1, <2>1, <2>2, ServingStep DEF Requested, DialogTypeOK
    <2>6. QED
      BY <1>4, <2>3, <2>4, <2>5
  <1>6. CASE kind # "resolved"
    <2>1. draft # "ABSENT" /\ kind = "unresolved"
      <3>1. kind = "unresolved"
        BY <1>1, <1>6 DEF Requested, Kinds
      <3>2. QED
        BY <1>1, <3>1 DEF Requested
    <2>2. conv' = [conv EXCEPT !.feedback = "unresolved", !.draft = TRUE,
                               !.state = "AWAITING_USER_CONFIRMATION"]
      BY <1>6, <2>1
    <2>3. DialogTypeOK'
      BY <1>3, <2>2 DEF DialogTypeOK, States
    <2>4. OutcomeConsistent'
      BY <1>2, <2>1, <2>2 DEF OutcomeConsistent, DialogTypeOK
    <2>5. Requested'
      BY <1>1, <2>1, <2>2, ServingStep DEF Requested, DialogTypeOK
    <2>6. QED
      BY <1>4, <2>3, <2>4, <2>5
  <1>7. QED
    BY <1>5, <1>6

\* confirm_ticket: submission commits in the ticket service, and the link later.
LEMMA ConfirmIInv ==
  ASSUME DialogIInv, NEW r \in Requests, SubmitDraft(r) \/ LinkTicket(r)
  PROVE  DialogIInv'
  <1> USE DEF DialogIInv
  <1>1. CASE SubmitDraft(r)
    <2> USE <1>1 DEF SubmitDraft
    <2>1. DialogTypeOK'
      BY ServingStep DEF DialogTypeOK, RequestType, ContractTypeOK, contract
    <2>2. TurnOwnsConversation' /\ OutcomeConsistent'
      BY DEF TurnOwnsConversation, OutcomeConsistent
    <2>3. Requested'
      BY ServingStep DEF Requested
    <2>4. QED
      BY <2>1, <2>2, <2>3
  <1>2. CASE LinkTicket(r)
    <2> USE <1>2 DEF LinkTicket
    <2>1. conv.draft /\ draft = "SUBMITTED"
      BY DEF Requested
    <2>2. conv.state \in {"AWAITING_USER_CONFIRMATION", "TICKET_SUBMITTED"}
      BY <2>1 DEF OutcomeConsistent
    <2>3. DialogTypeOK'
      BY ServingStep DEF DialogTypeOK, RequestType, ContractTypeOK, contract, States
    <2>4. TurnOwnsConversation'
      BY <2>2 DEF TurnOwnsConversation
    <2>5. OutcomeConsistent'
      BY <2>1 DEF OutcomeConsistent, DialogTypeOK
    <2>6. Requested'
      BY ServingStep DEF Requested, DialogTypeOK
    <2>7. QED
      BY <2>3, <2>4, <2>5, <2>6
  <1>3. QED
    BY <1>1, <1>2

-----------------------------------------------------------------------------

LEMMA EditDraftIInv ==
  ASSUME DialogIInv, NEW status \in {"DRAFT", "READY_FOR_REVIEW", "SUBMITTED"}, EditDraft(status)
  PROVE  DialogIInv'
  <1> USE DEF DialogIInv, EditDraft
  <1>1. DialogTypeOK'
    BY DEF DialogTypeOK, ContractTypeOK, contract
  <1>2. TurnOwnsConversation' /\ OutcomeConsistent'
    BY DEF TurnOwnsConversation, OutcomeConsistent
  <1>3. Requested'
    BY DEF Requested
  <1>4. QED
    BY <1>1, <1>2, <1>3

LEMMA DialogCrashIInv == ASSUME DialogIInv, DialogCrash PROVE DialogIInv'
  <1> USE DEF DialogIInv, DialogCrash, ProcessDies, StopAll
  <1>1. \A t \in Turns : handler'[t] \in HandlerType
    <2> TAKE t \in Turns
    <2>1. handler'[t] = IF handler[t].step = "none" THEN handler[t]
                        ELSE [handler[t] EXCEPT !.step = "over"]
      BY Zenon
    <2>2. handler[t] \in HandlerType
      BY DEF DialogTypeOK, HandlerType
    <2>3. QED
      BY <2>1, <2>2 DEF HandlerType
  <1>2. \A r \in Requests : request'[r] \in RequestType /\ request'[r].step = "none"
    <2> TAKE r \in Requests
    <2>1. request'[r] = [request[r] EXCEPT !.step = "none"]
      BY Zenon
    <2>2. request[r] \in RequestType
      BY DEF DialogTypeOK, RequestType
    <2>3. QED
      BY <2>1, <2>2 DEF RequestType
  <1>3. handler' = [t \in Turns |-> handler'[t]] /\ request' = [r \in Requests |-> request'[r]]
    BY Zenon
  <1>4. handler' \in [Turns -> HandlerType] /\ request' \in [Requests -> RequestType]
    BY <1>1, <1>2, <1>3
  <1>5. DialogTypeOK'
    BY <1>4, CrashAssumption DEF DialogTypeOK, HandlerType, RequestType, ContractTypeOK, Stages, Turns
  <1>6. TurnOwnsConversation' /\ OutcomeConsistent'
    BY DEF TurnOwnsConversation, OutcomeConsistent
  <1>7. Requested'
    BY <1>2 DEF Requested
  <1>8. QED
    BY <1>5, <1>6, <1>7

LEMMA DialogNextIInv == ASSUME DialogIInv, [DialogNext]_dialogVars PROVE DialogIInv'
  <1>1. CASE UNCHANGED dialogVars
    BY <1>1 DEF dialogVars, dialog, contract, DialogIInv, DialogTypeOK, ContractTypeOK, TurnOwnsConversation,
                OutcomeConsistent, Requested
  <1>2. ASSUME NEW t \in Turns,
               \/ ReadConversation(t) \/ StreamStep(t) \/ GatewayStep(t)
               \/ AnswerTimesOut(t) \/ CancelTurn(t)
               \/ TurnFails(t) \/ Disconnect(t) \/ DropStream(t)
        PROVE  DialogIInv'
    BY <1>2, HandlerIInv, StartTurnIInv, FinishTurnIInv DEF StreamStep
  <1>3. ASSUME NEW r \in Requests,
               \/ \E kind \in Kinds : BeginFeedback(r, kind)
               \/ CreateDraft(r) \/ RecordFeedback(r) \/ FeedbackRefused(r)
               \/ BeginConfirm(r) \/ SubmitDraft(r) \/ ConfirmRefused(r) \/ LinkTicket(r)
        PROVE  DialogIInv'
    BY <1>3, BeginIInv, DraftOrRefuseIInv, RecordFeedbackIInv, ConfirmIInv
  <1>4. QED
    BY <1>1, <1>2, <1>3, EditDraftIInv, DialogCrashIInv DEF DialogNext

LEMMA DialogIInvHolds == DialogSpec => []DialogIInv
  BY DialogInitIInv, DialogNextIInv, PTL DEF DialogSpec

\* start_turn, finish_turn, record_resolution_feedback: while a turn runs
\* nothing else moves its conversation, whatever was read before.
THEOREM TurnOwns == DialogSpec => []TurnOwnsConversation
  BY DialogIInvHolds, PTL DEF DialogIInv

\* A conversation is resolved, waits for confirmation or has a ticket only with
\* the feedback, the draft and the submission that say so.
THEOREM OutcomeAgrees == DialogSpec => []OutcomeConsistent
  BY DialogIInvHolds, PTL DEF DialogIInv

-----------------------------------------------------------------------------
(* The analyst copilot: the invariant                                      *)

\* What the ticket has of a draft is what was claimed under the draft's key.
EffectsClaimed ==
    \A d \in Drafts : effects[d] = IF claim[d] = NoClaim THEN << >> ELSE <<claim[d][1]>>

\* Who is about to record an action holds the hash that is under the key.
Underway ==
    \A a \in Actions :
        /\ action[a].step # "none" => conversation[action[a].draft] = "CLOSED"
        /\ action[a].step \in {"done", "recording"} => claim[action[a].draft] = Hash(a)

\* Only what was generated is stored, and its run was completed first.
Generated == \A c \in Calls : stage[c] = "generated" => run[c] = "COMPLETED"

Stored == \A c \in Calls : conversation[c] = "CLOSED" => stage[c] = "generated"

ClaimedStored == \A d \in Drafts : claim[d] # NoClaim => conversation[d] = "CLOSED"

DeskIInv ==
    /\ DeskTypeOK /\ EffectsClaimed /\ Underway /\ Generated /\ Stored /\ ClaimedStored
    /\ EffectsRecorded

\* A hash is a body and a version, and no hash is the absence of a claim.
LEMMA HashType ==
  ASSUME DeskTypeOK, NEW a \in Actions
  PROVE  /\ Hash(a) \in Bodies \X (1 .. MaxVersion)
         /\ Hash(a)[1] = action[a].body
         /\ Hash(a) # NoClaim
         /\ action[a].draft \in Drafts /\ action[a].draft \in Calls
  BY DEF DeskTypeOK, Hash, NoClaim, Drafts

LEMMA DeskInitIInv == ASSUME DeskInit PROVE DeskIInv
  <1> USE DEF DeskInit
  <1>1. PICK d \in Drafts : d = CHOOSE x \in Drafts : TRUE
    BY CopilotAssumption DEF Drafts
  <1>2. PICK b \in Bodies : b = CHOOSE x \in Bodies : TRUE
    BY CopilotAssumption
  <1>3. \A a \in Actions : action[a] = [step |-> "none", draft |-> d, body |-> b, version |-> 1]
    BY <1>1, <1>2
  <1>4. 1 \in 1 .. MaxVersion
    BY CopilotAssumption
  <1>5. action \in [Actions -> [step : {"none", "claimed", "done", "recording"},
                                draft : Drafts, body : Bodies, version : 1 .. MaxVersion]]
    BY <1>1, <1>2, <1>3, <1>4
  <1>6. DeskTypeOK
    BY <1>4, <1>5, CopilotAssumption, CrashAssumption
       DEF DeskTypeOK, ContractInit, ContractTypeOK, Stages, RunStates, Drafts
  <1>7. EffectsClaimed /\ ClaimedStored
    BY DEF EffectsClaimed, ClaimedStored
  <1>8. Underway
    BY <1>3 DEF Underway
  <1>9. Generated /\ Stored /\ EffectsRecorded
    BY DEF Generated, Stored, EffectsRecorded, Drafts, ContractInit
  <1>10. QED
    BY <1>6, <1>7, <1>8, <1>9 DEF DeskIInv

-----------------------------------------------------------------------------
(* The steps of a generation: no draft is used by them.                    *)

\* A generated call stays generated.
LEMMA MovesKeepGenerated ==
  ASSUME ContractTypeOK, Generated, NEW c \in Calls, Moves(c)
  PROVE  /\ ContractTypeOK' /\ Generated'
         /\ \A x \in Calls : stage[x] = "generated" => stage'[x] = "generated"
  BY DEF Generated, ContractTypeOK, Stages, RunStates, Moves, Ask, Refuse, Generate, Fail, Stop, RecordStop,
         Move

LEMMA GenerationIInv ==
  ASSUME DeskIInv, NEW c \in Calls, Begin(c) \/ GatewayAnswers(c) \/ Complete(c) \/ SubmitFeedback(c)
  PROVE  DeskIInv'
  <1> USE DEF DeskIInv
  <1>0. UNCHANGED <<action, claim, effects, records, ticket, crashes>>
    BY DEF Begin, GatewayAnswers, Complete, SubmitFeedback, desk
  <1>1. /\ ContractTypeOK' /\ Generated'
        /\ \A x \in Calls : stage[x] = "generated" => stage'[x] = "generated"
    <2>1. CASE Begin(c)
      BY <2>1, MovesKeepGenerated DEF Begin, Moves, DeskTypeOK
    <2>2. CASE GatewayAnswers(c)
      BY <2>2, MovesKeepGenerated DEF GatewayAnswers, Moves, DeskTypeOK
    <2>3. CASE Complete(c) \/ SubmitFeedback(c)
      BY <2>3 DEF Complete, SubmitFeedback, contract, DeskTypeOK, ContractTypeOK, Generated
    <2>4. QED
      BY <2>1, <2>2, <2>3
  <1>2. \A x \in Calls : /\ conversation[x] = "CLOSED" => conversation'[x] = "CLOSED"
                         /\ conversation'[x] = "CLOSED" =>
                              conversation[x] = "CLOSED" \/ (stage[x] = "generated" /\ x = c /\ Complete(c))
    BY DEF Begin, GatewayAnswers, Complete, SubmitFeedback, Conversation, desk, DeskTypeOK
  <1>3. DeskTypeOK'
    BY <1>0, <1>1 DEF DeskTypeOK, Begin, GatewayAnswers, Complete, SubmitFeedback, Conversation, desk
  <1>4. EffectsClaimed' /\ EffectsRecorded'
    BY <1>0 DEF EffectsClaimed, EffectsRecorded
  <1>5. Underway' /\ ClaimedStored'
    BY <1>0, <1>2, HashType DEF Underway, ClaimedStored, Hash, Drafts
  <1>6. Stored'
    BY <1>1, <1>2 DEF Stored, Complete
  <1>7. QED
    BY <1>1, <1>3, <1>4, <1>5, <1>6

-----------------------------------------------------------------------------
(* The steps of a request to use a draft, between its effect.              *)

\* Steps of requests that leave the database alone.
LEMMA RequestIInv ==
  ASSUME DeskIInv, UNCHANGED <<contract, conversation, feedback, claim, effects, records>>,
         DeskTypeOK', Underway'
  PROVE  DeskIInv'
  <1> USE DEF DeskIInv, contract
  <1>1. EffectsClaimed' /\ ClaimedStored' /\ EffectsRecorded'
    BY DEF EffectsClaimed, ClaimedStored, EffectsRecorded
  <1>2. Generated' /\ Stored'
    BY DEF Generated, Stored
  <1>3. QED
    BY <1>1, <1>2

\* Moving one request on changes its step only.
LEMMA GoStep ==
  ASSUME DeskTypeOK, NEW a \in Actions, NEW s \in {"none", "claimed", "done", "recording"}, Go(a, s)
  PROVE  /\ action' \in [Actions -> [step : {"none", "claimed", "done", "recording"},
                                     draft : Drafts, body : Bodies, version : 1 .. MaxVersion]]
         /\ action'[a].step = s
         /\ \A b \in Actions : /\ action'[b].draft = action[b].draft
                               /\ action'[b].body = action[b].body
                               /\ action'[b].version = action[b].version
                               /\ b # a => action'[b] = action[b]
                               /\ Hash(b)' = Hash(b)
  <1> DEFINE Rec == [step : {"none", "claimed", "done", "recording"},
                     draft : Drafts, body : Bodies, version : 1 .. MaxVersion]
             x == [action[a] EXCEPT !.step = s]
  <1>1. action \in [Actions -> Rec]
    BY DEF DeskTypeOK
  <1>2. action' = [action EXCEPT ![a] = x]
    BY <1>1 DEF Go
  <1>3. /\ x \in Rec /\ x.step = s /\ x.draft = action[a].draft
        /\ x.body = action[a].body /\ x.version = action[a].version
    BY <1>1
  <1> HIDE DEF x
  <1>4. action'[a] = x /\ \A b \in Actions \ {a} : action'[b] = action[b]
    BY <1>1, <1>2
  <1>5. action' \in [Actions -> Rec]
    BY <1>1, <1>2, <1>3
  <1>6. \A b \in Actions : /\ action'[b].draft = action[b].draft
                           /\ action'[b].body = action[b].body
                           /\ action'[b].version = action[b].version
    BY <1>3, <1>4
  <1>7. \A b \in Actions : Hash(b)' = Hash(b)
    BY <1>6 DEF Hash
  <1>8. QED
    BY <1>3, <1>4, <1>5, <1>6, <1>7

LEMMA ClaimDraftIInv ==
  ASSUME DeskIInv, NEW a \in Actions, NEW d \in Drafts, NEW body \in Bodies,
         NEW version \in 1 .. MaxVersion, ClaimDraft(a, d, body, version)
  PROVE  DeskIInv'
  <1> USE DEF DeskIInv, ClaimDraft, contract
  <1>1. DeskTypeOK'
    BY DEF DeskTypeOK, ContractTypeOK
  <1>2. Underway'
    BY DEF Underway, Hash, DeskTypeOK
  <1>3. QED
    BY <1>1, <1>2, RequestIInv

\* Replays, refusals and the look for a record.
LEMMA AnswerIInv ==
  ASSUME DeskIInv, NEW a \in Actions, ReplayEffect(a) \/ EffectRefused(a) \/ LookForRecord(a)
  PROVE  DeskIInv'
  <1> USE DEF DeskIInv, ReplayEffect, EffectRefused, LookForRecord, contract
  <1>1. PICK s \in {"none", "done", "recording"} :
          /\ Go(a, s)
          /\ s = "done" => Replays(a)
          /\ s = "recording" => action[a].step = "done"
          /\ s # "none" => action[a].step # "none"
    BY DEF Replays
  <1>2. DeskTypeOK'
    BY <1>1, GoStep DEF DeskTypeOK, ContractTypeOK
  <1>3. Underway'
    BY <1>1, GoStep DEF Underway, Replays
  <1>4. QED
    BY <1>2, <1>3, RequestIInv

LEMMA TicketAndCrashIInv ==
  ASSUME DeskIInv, DeskCrash \/ (\E open \in BOOLEAN : TicketChanges(open))
  PROVE  DeskIInv'
  <1> USE DEF DeskIInv
  <1>1. CASE \E open \in BOOLEAN : TicketChanges(open)
    <2>1. DeskTypeOK'
      BY <1>1, CopilotAssumption DEF TicketChanges, DeskTypeOK, contract, ContractTypeOK
    <2>2. Underway'
      BY <1>1 DEF TicketChanges, Underway, Hash
    <2>3. QED
      BY <1>1, <2>1, <2>2, RequestIInv DEF TicketChanges
  <1>2. CASE DeskCrash
    <2> USE <1>2 DEF DeskCrash, ProcessDies, StopAll
    <2>1. /\ action' \in [Actions -> [step : {"none", "claimed", "done", "recording"},
                                     draft : Drafts, body : Bodies, version : 1 .. MaxVersion]]
          /\ \A a \in Actions : action'[a].step = "none"
      <3>1. \A a \in Actions :
              action'[a] = [step |-> "none", draft |-> action[a].draft,
                            body |-> action[a].body, version |-> action[a].version]
        <4> TAKE a \in Actions
        <4>1. action'[a] = [action[a] EXCEPT !.step = "none"]
          BY Zenon
        <4>2. action[a] \in [step : {"none", "claimed", "done", "recording"}, draft : Drafts,
                             body : Bodies, version : 1 .. MaxVersion]
          BY DEF DeskTypeOK
        <4>3. QED
          BY <4>1, <4>2
      <3>2. \A a \in Actions : action[a].draft \in Drafts /\ action[a].body \in Bodies
                               /\ action[a].version \in 1 .. MaxVersion
        BY DEF DeskTypeOK
      <3>3. action' = [a \in Actions |-> action'[a]]
        BY Zenon
      <3>4. \A a \in Actions :
              action'[a] \in [step : {"none", "claimed", "done", "recording"},
                              draft : Drafts, body : Bodies, version : 1 .. MaxVersion]
        <4> TAKE a \in Actions
        <4>1. action[a].draft \in Drafts /\ action[a].body \in Bodies
              /\ action[a].version \in 1 .. MaxVersion
          BY <3>2
        <4>2. action'[a] = [step |-> "none", draft |-> action[a].draft,
                            body |-> action[a].body, version |-> action[a].version]
          BY <3>1
        <4>3. QED
          BY <4>1, <4>2
      <3>5. action' \in [Actions -> [step : {"none", "claimed", "done", "recording"},
                                     draft : Drafts, body : Bodies, version : 1 .. MaxVersion]]
        BY <3>3, <3>4
      <3>6. QED
        BY <3>1, <3>5
    <2>2. DeskTypeOK'
      BY <2>1, CopilotAssumption, CrashAssumption DEF DeskTypeOK, ContractTypeOK, Stages
    <2>3. Underway'
      BY <2>1 DEF Underway
    <2>4. EffectsClaimed' /\ ClaimedStored' /\ EffectsRecorded'
      BY DEF EffectsClaimed, ClaimedStored, EffectsRecorded
    <2>5. Generated' /\ Stored'
      BY DEF Generated, Stored, DeskTypeOK, ContractTypeOK
    <2>6. QED
      BY <2>2, <2>3, <2>4, <2>5
  <1>3. QED
    BY <1>1, <1>2

-----------------------------------------------------------------------------
(* The effect of a draft and the record of it.                             *)

\* The key is free: the draft has had no effect, and nothing was recorded.
LEMMA EffectIInv ==
  ASSUME DeskIInv, NEW a \in Actions, PostComment(a) \/ ResolveTicket(a)
  PROVE  DeskIInv'
  <1> DEFINE d == action[a].draft
  <1> USE DEF DeskIInv
  <1>1. /\ Effect(a)
        /\ UNCHANGED <<contract, conversation, feedback, records, crashes>>
        /\ ticket' \in [open : BOOLEAN, version : 1 .. MaxVersion]
    <2>1. CASE PostComment(a)
      BY <2>1 DEF PostComment, DeskTypeOK
    <2>2. CASE ResolveTicket(a)
      <3>1. ticket.version \in 1 .. MaxVersion /\ ticket.version < MaxVersion
        BY <2>2 DEF ResolveTicket, DeskTypeOK
      <3>2. ticket.version + 1 \in 1 .. MaxVersion
        BY <3>1, CopilotAssumption
      <3>3. ticket' = [open |-> FALSE, version |-> ticket.version + 1]
        BY <2>2 DEF ResolveTicket
      <3>4. ticket' \in [open : BOOLEAN, version : 1 .. MaxVersion]
        BY <3>2, <3>3
      <3>5. QED
        BY <2>2, <3>4 DEF ResolveTicket
    <2>3. QED
      BY <2>1, <2>2
  <1>2. /\ d \in Drafts /\ d \in Calls /\ conversation[d] = "CLOSED"
        /\ claim[d] = NoClaim /\ effects[d] = << >>
        /\ action[a].body \in Bodies /\ action[a].step = "claimed"
    BY <1>1, HashType DEF Effect, Conflicts, Replays, Underway, EffectsClaimed, DeskTypeOK
  <1>3. /\ claim' = [claim EXCEPT ![d] = Hash(a)]
        /\ effects' = [effects EXCEPT ![d] = <<action[a].body>>]
        /\ Go(a, "done")
    BY <1>1, <1>2 DEF Effect, DeskTypeOK
  <1>4. records[d] = << >>
    <2>1. records[d] \in Seq(Bodies)
      BY <1>2 DEF DeskTypeOK
    <2>2. \A x : <<x>> # << >>
      <3>1. \A x : Len(<<x>>) = 1
        OBVIOUS
      <3>2. QED
        BY <3>1, Len(<< >>) = 0
    <2>3. DOMAIN records[d] = {}
      BY <1>2, <2>2 DEF EffectsRecorded
    <2>4. Len(records[d]) = 0
      <3>1. DOMAIN records[d] = 1 .. Len(records[d]) /\ Len(records[d]) \in Nat
        BY <2>1
      <3>2. 1 \notin 1 .. Len(records[d])
        BY <2>3, <3>1
      <3>3. QED
        BY <3>1, <3>2
    <2>5. QED
      BY <2>1, <2>4, EmptySeq
  <1>5. DeskTypeOK'
    <2>1. claim' \in [Drafts -> (Bodies \X (1 .. MaxVersion)) \cup {NoClaim}]
      BY <1>2, <1>3, HashType DEF DeskTypeOK
    <2>2. effects' \in [Drafts -> Seq(Bodies)]
      <3>1. <<action[a].body>> \in Seq(Bodies)
        BY <1>2
      <3>2. QED
        BY <1>3, <3>1 DEF DeskTypeOK
    <2>3. action' \in [Actions -> [step : {"none", "claimed", "done", "recording"},
                                   draft : Drafts, body : Bodies, version : 1 .. MaxVersion]]
      BY <1>3, GoStep
    <2>4. /\ ContractTypeOK' /\ conversation' \in [Calls -> {"NONE", "OPEN", "CLOSED"}]
          /\ feedback' \subseteq Calls /\ records' \in [Drafts -> Seq(Bodies)]
          /\ crashes' \in 0 .. MaxCrashes
      BY <1>1 DEF DeskTypeOK, contract, ContractTypeOK
    <2>5. QED
      BY <1>1, <2>1, <2>2, <2>3, <2>4 DEF DeskTypeOK
  <1>6. EffectsClaimed'
    BY <1>2, <1>3, HashType DEF EffectsClaimed, DeskTypeOK
  <1>7. Underway'
    <2> SUFFICES ASSUME NEW b \in Actions
                 PROVE  /\ action'[b].step # "none" => conversation'[action'[b].draft] = "CLOSED"
                        /\ action'[b].step \in {"done", "recording"} =>
                             claim'[action'[b].draft] = Hash(b)'
      BY DEF Underway
    <2>1. CASE b = a
      BY <2>1, <1>1, <1>2, <1>3, GoStep DEF DeskTypeOK
    <2>2. CASE b # a
      <3>1. action'[b] = action[b] /\ Hash(b)' = Hash(b)
        BY <2>2, <1>3, GoStep
      <3>2. action[b].step \in {"done", "recording"} => action[b].draft # d
        BY <1>2, HashType DEF Underway
      <3>3. QED
        BY <1>1, <1>3, <3>1, <3>2, HashType DEF Underway, DeskTypeOK
    <2>3. QED
      BY <2>1, <2>2
  <1>8. ClaimedStored'
    BY <1>1, <1>2, <1>3 DEF ClaimedStored, DeskTypeOK
  <1>9. Generated' /\ Stored'
    BY <1>1 DEF Generated, Stored, contract
  <1>10. EffectsRecorded'
    BY <1>1, <1>2, <1>3, <1>4 DEF EffectsRecorded, DeskTypeOK
  <1>11. QED
    BY <1>5, <1>6, <1>7, <1>8, <1>9, <1>10

\* Whoever records holds the hash under the key, hence the body that was sent.
LEMMA RecordIInv ==
  ASSUME DeskIInv, NEW a \in Actions, RecordAction(a)
  PROVE  DeskIInv'
  <1> DEFINE d == action[a].draft
  <1> USE DEF DeskIInv, RecordAction
  <1>1. d \in Drafts /\ action[a].body \in Bodies
    BY HashType DEF DeskTypeOK
  <1>2. effects[d] = <<action[a].body>>
    BY <1>1, HashType DEF Underway, EffectsClaimed
  <1>3. records[d] \in Seq(Bodies) /\ Append(records[d], action[a].body) \in Seq(Bodies)
    BY <1>1 DEF DeskTypeOK
  <1>4. DeskTypeOK'
    BY <1>1, <1>3, GoStep DEF DeskTypeOK, contract, ContractTypeOK
  <1>5. Underway'
    BY GoStep DEF Underway
  <1>6. EffectsRecorded'
    <2> SUFFICES ASSUME NEW x \in Drafts, NEW i \in DOMAIN records'[x]
                 PROVE  <<records'[x][i]>> = effects'[x]
      BY DEF EffectsRecorded
    <2>1. CASE x = d
      <3>1. records'[x] = Append(records[d], action[a].body)
        BY <2>1, <1>1 DEF DeskTypeOK
      <3>2. i \in DOMAIN records[d] \/ records'[x][i] = action[a].body
        BY <3>1, <1>3
      <3>3. i \in DOMAIN records[d] => records'[x][i] = records[d][i]
        BY <3>1, <1>3
      <3>4. QED
        BY <2>1, <1>1, <1>2, <3>2, <3>3 DEF EffectsRecorded
    <2>2. CASE x # d
      BY <2>2 DEF EffectsRecorded, DeskTypeOK
    <2>3. QED
      BY <2>1, <2>2
  <1>7. EffectsClaimed' /\ ClaimedStored' /\ Generated' /\ Stored'
    BY DEF EffectsClaimed, ClaimedStored, Generated, Stored, contract
  <1>8. QED
    BY <1>4, <1>5, <1>6, <1>7

-----------------------------------------------------------------------------

LEMMA DeskNextIInv == ASSUME DeskIInv, [DeskNext]_deskVars PROVE DeskIInv'
  <1>1. CASE UNCHANGED deskVars
    BY <1>1 DEF deskVars, desk, contract, DeskIInv, DeskTypeOK, ContractTypeOK, EffectsClaimed, Underway,
                Generated, Stored, ClaimedStored, EffectsRecorded, Hash
  <1>2. ASSUME NEW c \in Calls,
               \/ AskForAnalysis(c) \/ AskForDraft(c) \/ GatewayAnswers(c)
               \/ StoreAnalysis(c) \/ StoreDraft(c) \/ SubmitFeedback(c)
        PROVE  DeskIInv'
    BY <1>2, GenerationIInv DEF AskForAnalysis, AskForDraft, StoreAnalysis, StoreDraft
  <1>3. ASSUME NEW a \in Actions,
               \/ \E d \in Drafts, body \in Bodies, version \in 1 .. MaxVersion :
                     ClaimDraft(a, d, body, version)
               \/ PostComment(a) \/ ResolveTicket(a) \/ ReplayEffect(a) \/ EffectRefused(a)
               \/ LookForRecord(a) \/ RecordAction(a)
        PROVE  DeskIInv'
    BY <1>3, ClaimDraftIInv, EffectIInv, AnswerIInv, RecordIInv
  <1>4. QED
    BY <1>1, <1>2, <1>3, TicketAndCrashIInv DEF DeskNext

LEMMA DeskIInvHolds == DeskSpec => []DeskIInv
  BY DeskInitIInv, DeskNextIInv, PTL DEF DeskSpec

\* post_draft, resolve_draft: a draft reaches the ticket once at most, and only
\* one whose generation was completed and stored.
THEOREM DraftReachesTicketOnce == DeskSpec => []DraftUsedOnce
  <1>1. ASSUME DeskIInv PROVE DraftUsedOnce
    <2> SUFFICES ASSUME NEW d \in Drafts
                 PROVE  /\ Len(effects[d]) <= 1
                        /\ effects[d] # << >> => conversation[d] = "CLOSED" /\ run[d] = "COMPLETED"
      BY DEF DraftUsedOnce
    <2>1. CASE claim[d] = NoClaim
      <3>1. effects[d] = << >>
        BY <1>1, <2>1 DEF DeskIInv, EffectsClaimed
      <3>2. QED
        BY <3>1
    <2>2. CASE claim[d] # NoClaim
      <3>1. effects[d] = <<claim[d][1]>>
        BY <1>1, <2>2 DEF DeskIInv, EffectsClaimed
      <3>2. Len(effects[d]) = 1
        BY <3>1
      <3>3. conversation[d] = "CLOSED" /\ run[d] = "COMPLETED"
        BY <1>1, <2>2 DEF DeskIInv, ClaimedStored, Stored, Generated, Drafts
      <3>4. QED
        BY <3>2, <3>3
    <2>3. QED
      BY <2>1, <2>2
  <1>2. QED
    BY <1>1, DeskIInvHolds, PTL

\* _record_action: whatever is recorded of a draft, once or more, is what the
\* ticket received, although requests race with edited bodies.
THEOREM RecordsTellTheEffect == DeskSpec => []EffectsRecorded
  BY DeskIInvHolds, PTL DEF DeskIInv

-----------------------------------------------------------------------------
(* Attachments: the invariant                                              *)

\* The row lock: a file has one finalize under way, and it is undecided.
Scanning ==
    \A h \in Handlers : Running(h) =>
        /\ row[tx[h].file].state = "QUARANTINED" /\ row[tx[h].file].attempts < MaxAttempts
        /\ \A g \in Handlers : Running(g) /\ tx[g].file = tx[h].file => g = h

\* What a finalize knows of the objects: a clean verdict is true, and once the
\* copy returned the file is under its protected key.
Inspected ==
    \A h \in Handlers :
        /\ tx[h].step = "copying" => content[tx[h].file] = "clean"
        /\ tx[h].step \in {"deleting", "recording"} /\ tx[h].verdict = "clean" =>
             tx[h].file \in protected

\* A release is final: what was served once stays released.
ServedRows == \A u \in Users, f \in Files : <<u, f>> \in served => row[f].state = "RELEASED"

IInv == TypeOK /\ Scanning /\ Inspected /\ ServedRows /\ ReleasedIsClean /\ RecordsAgree

\* A transaction under way is not Idle.
LEMMA RunningTransaction ==
  ASSUME TypeOK, NEW h \in Handlers
  PROVE  Running(h) <=> tx[h] \in Transaction
  BY DEF TypeOK, Running, Transaction, Idle

\* What a decision makes of a row that may still be scanned.
LEMMA DecideRow ==
  ASSUME NEW r \in Row, r.attempts < MaxAttempts, NEW v \in Verdicts
  PROVE  /\ Decide(r, v) \in Row
         /\ Decide(r, v).visibility = r.visibility
         /\ Decide(r, v).state = "RELEASED" => v = "clean"
  <1>1. r.attempts + 1 \in 0 .. MaxAttempts
    BY LimitsAssumption DEF Row
  <1>2. CASE v = "clean"
    BY <1>1, <1>2 DEF Decide, Row
  <1>3. CASE v = "infected"
    BY <1>1, <1>3 DEF Decide, Row
  <1>4. CASE v = "invalid"
    BY <1>1, <1>4 DEF Decide, Row
  <1>5. CASE v = "error"
    BY <1>1, <1>5 DEF Decide, Row
  <1>6. QED
    BY <1>2, <1>3, <1>4, <1>5 DEF Verdicts, Contents

LEMMA InitIInv == ASSUME Init PROVE IInv
  <1> USE DEF Init
  <1>1. TypeOK
    BY LimitsAssumption DEF TypeOK, Row, Absent, Unused, Idle
  <1>2. Scanning /\ Inspected /\ ServedRows
    BY DEF Scanning, Inspected, ServedRows, Running, Idle
  <1>3. ReleasedIsClean /\ RecordsAgree
    BY DEF ReleasedIsClean, RecordsAgree, Absent
  <1>4. QED
    BY <1>1, <1>2, <1>3 DEF IInv

-----------------------------------------------------------------------------
(* Steps outside finalize.                                                 *)

\* authorize_upload inserts a row nothing refers to yet.
LEMMA AuthorizeUploadIInv ==
  ASSUME IInv, NEW u \in Users, NEW f \in Files, NEW v \in {"PUBLIC", "INTERNAL"},
         AuthorizeUpload(u, f, v)
  PROVE  IInv'
  <1> USE DEF IInv, AuthorizeUpload
  <1>1. row[f].state = "ABSENT"
    BY DEF Absent
  <1>2. [scan |-> "PENDING", state |-> "QUARANTINED", attempts |-> 0, delayed |-> FALSE,
         visibility |-> v] \in Row
    BY LimitsAssumption DEF Row
  <1>3. TypeOK'
    BY <1>2 DEF TypeOK
  <1>4. \A h \in Handlers : Running(h) => tx[h].file # f /\ tx[h].file \in Files
    BY <1>1, RunningTransaction DEF Scanning, Transaction
  <1>5. Scanning'
    BY <1>4 DEF Scanning, Running, TypeOK
  <1>6. Inspected'
    BY DEF Inspected
  <1>7. ServedRows'
    BY <1>1 DEF ServedRows, TypeOK
  <1>8. ReleasedIsClean'
    BY <1>1 DEF ReleasedIsClean, ServedRows, TypeOK
  <1>9. RecordsAgree'
    BY <1>1 DEF RecordsAgree, TypeOK, Record
  <1>10. QED
    BY <1>3, <1>5, <1>6, <1>7, <1>8, <1>9

LEMMA DelayElapsesIInv ==
  ASSUME IInv, NEW f \in Files, DelayElapses(f)
  PROVE  IInv'
  <1> USE DEF IInv, DelayElapses
  <1>1. \A g \in Files : /\ row'[g] \in Row
                         /\ row'[g].scan = row[g].scan /\ row'[g].state = row[g].state
                         /\ row'[g].attempts = row[g].attempts
                         /\ row'[g].visibility = row[g].visibility
    <2>1. row \in [Files -> Row] /\ row' = [row EXCEPT ![f] = [row[f] EXCEPT !.delayed = FALSE]]
      BY DEF TypeOK
    <2> DEFINE x == [row[f] EXCEPT !.delayed = FALSE]
    <2>2. /\ x \in Row /\ x.scan = row[f].scan /\ x.state = row[f].state
          /\ x.attempts = row[f].attempts /\ x.visibility = row[f].visibility
      BY <2>1 DEF Row
    <2>3. \A g \in Files : row'[g] = IF g = f THEN x ELSE row[g]
      BY <2>1
    <2> HIDE DEF x
    <2>4. QED
      BY <2>1, <2>2, <2>3
  <1>2. TypeOK'
    BY <1>1 DEF TypeOK
  <1>3. Scanning'
    BY <1>1, RunningTransaction DEF Scanning, Running, Transaction
  <1>4. Inspected' /\ ServedRows'
    BY <1>1 DEF Inspected, ServedRows
  <1>5. ReleasedIsClean'
    BY <1>1 DEF ReleasedIsClean, TypeOK
  <1>6. RecordsAgree'
    BY <1>1 DEF RecordsAgree, TypeOK, Record
  <1>7. QED
    BY <1>2, <1>3, <1>4, <1>5, <1>6

LEMMA UploadAndDownloadIInv ==
  ASSUME IInv, NEW f \in Files, Upload(f) \/ \E u \in Users : Download(u, f)
  PROVE  IInv'
  <1> USE DEF IInv
  <1>1. CASE Upload(f)
    BY <1>1 DEF Upload, TypeOK, Scanning, Running, Inspected, ServedRows, ReleasedIsClean,
                RecordsAgree
  <1>2. ASSUME NEW u \in Users, Download(u, f) PROVE IInv'
    <2> USE <1>2 DEF Download, Downloadable
    <2>1. TypeOK'
      BY DEF TypeOK
    <2>2. Scanning' /\ Inspected' /\ RecordsAgree'
      BY DEF Scanning, Running, Inspected, RecordsAgree
    <2>3. ServedRows'
      BY DEF ServedRows
    <2>4. row[f].visibility = "INTERNAL" => u \in Analysts
      BY DEF Allowed
    <2>5. ReleasedIsClean'
      BY <2>4 DEF ReleasedIsClean
    <2>6. QED
      BY <2>1, <2>2, <2>3, <2>5
  <1>3. QED
    BY <1>1, <1>2

-----------------------------------------------------------------------------
(* finalize                                                                *)

LEMMA FinalizeDecidedIInv ==
  ASSUME IInv, NEW u \in Users, NEW k \in Keys, NEW f \in Files, FinalizeDecided(u, k, f)
  PROVE  IInv'
  <1> USE DEF IInv, FinalizeDecided
  <1>1. Outcome(row[f]) \in {"COMPLETED", "FAILED_FINAL"}
        /\ (Outcome(row[f]) = "COMPLETED" => row[f].state = "RELEASED")
        /\ (Outcome(row[f]) = "FAILED_FINAL" => row[f].state = "REJECTED")
    BY DEF Outcome
  <1>2. TypeOK'
    BY <1>1 DEF TypeOK, Record
  <1>3. Scanning' /\ Inspected' /\ ServedRows' /\ ReleasedIsClean'
    BY DEF Scanning, Running, Inspected, ServedRows, ReleasedIsClean
  <1>4. RecordsAgree'
    BY <1>1 DEF RecordsAgree, TypeOK
  <1>5. QED
    BY <1>2, <1>3, <1>4

\* A step of handler h that keeps its file: the objects only gain clean files.
LEMMA ObjectsIInv ==
  ASSUME IInv, NEW h \in Handlers,
         UNCHANGED <<row, idem, content, served>>,
         TypeOK', Inspected',
         protected \subseteq protected',
         \A f \in protected' : f \in protected \/ content[f] = "clean",
         \A g \in Handlers : Running(g)' => Running(g) /\ tx'[g].file = tx[g].file
  PROVE  IInv'
  <1> USE DEF IInv
  <1>1. Scanning'
    BY DEF Scanning
  <1>2. ServedRows' /\ RecordsAgree'
    BY DEF ServedRows, RecordsAgree
  <1>3. ReleasedIsClean'
    BY DEF ReleasedIsClean
  <1>4. QED
    BY <1>1, <1>2, <1>3

LEMMA BeginScanIInv ==
  ASSUME IInv, NEW h \in Handlers, NEW u \in Users, NEW k \in Keys, NEW f \in Files,
         BeginScan(h, u, k, f)
  PROVE  IInv'
  <1> USE DEF IInv, BeginScan
  <1>1. tx' = [tx EXCEPT ![h] = [step |-> "reading", file |-> f, key |-> k, user |-> u,
                                 verdict |-> "error"]]
    OBVIOUS
  <1>2. TypeOK'
    BY <1>1 DEF TypeOK, Transaction, Verdicts
  <1>3. /\ row[f].state = "QUARANTINED" /\ row[f].attempts < MaxAttempts
        /\ \A g \in Handlers : Running(g) => tx[g].file # f
    <2>1. \A g \in Handlers : Running(g) => tx[g].file # f
      BY DEF MayFinalize, Locked
    <2>2. row[f].state = "QUARANTINED" /\ row[f].attempts < MaxAttempts
      BY DEF Scannable
    <2>3. QED
      BY <2>1, <2>2
  <1>4. Scanning'
    BY <1>1, <1>3 DEF Scanning, Running, TypeOK
  <1>5. Inspected'
    BY <1>1 DEF Inspected, TypeOK
  <1>6. ServedRows' /\ ReleasedIsClean' /\ RecordsAgree'
    BY DEF ServedRows, ReleasedIsClean, RecordsAgree
  <1>7. QED
    BY <1>2, <1>4, <1>5, <1>6

\* A handler goes on with its file: the objects only gain clean files, and the
\* new step fits what is known of them.
LEMMA HandlerStepIInv ==
  ASSUME IInv, NEW h \in Handlers, Running(h),
         NEW s \in {"reading", "copying", "deleting", "recording"}, NEW v \in Verdicts,
         tx' = [tx EXCEPT ![h].step = s, ![h].verdict = v],
         UNCHANGED <<row, idem, content, served, aborts>>,
         quarantine' \subseteq quarantine, held' \subseteq held, protected' \subseteq Files,
         protected \subseteq protected',
         \A f \in protected' : f \in protected \/ content[f] = "clean",
         s = "copying" => content[tx[h].file] = "clean",
         s \in {"deleting", "recording"} /\ v = "clean" => tx[h].file \in protected'
  PROVE  IInv'
  <1> USE DEF IInv
  <1>1. /\ tx' \in [Handlers -> Transaction \cup {Idle}]
        /\ tx'[h].step = s /\ tx'[h].verdict = v /\ tx'[h].file = tx[h].file
        /\ \A g \in Handlers \ {h} : tx'[g] = tx[g]
        /\ \A g \in Handlers : Running(g)' => Running(g) /\ tx'[g].file = tx[g].file
    <2>1. tx \in [Handlers -> Transaction \cup {Idle}] /\ tx[h] \in Transaction
      BY RunningTransaction DEF TypeOK
    <2> DEFINE x == [tx[h] EXCEPT !.step = s, !.verdict = v]
    <2>2. x \in Transaction /\ x.step = s /\ x.verdict = v /\ x.file = tx[h].file
      BY <2>1 DEF Transaction
    <2>3. tx' = [tx EXCEPT ![h] = x]
      BY <2>1
    <2> HIDE DEF x, IInv
    <2>4. tx'[h] = x /\ \A g \in Handlers \ {h} : tx'[g] = tx[g]
      BY <2>1, <2>3
    <2>5. tx' \in [Handlers -> Transaction \cup {Idle}]
      BY <2>1, <2>2, <2>3
    <2>6. \A g \in Handlers : Running(g)' => Running(g) /\ tx'[g].file = tx[g].file
      BY <2>2, <2>4 DEF Running
    <2>7. QED
      BY <2>2, <2>4, <2>5, <2>6
  <1>2. TypeOK'
    <2>1. /\ row' \in [Files -> Row] /\ idem' \in [Keys -> Record \cup {Unused}]
          /\ content' \in [Files -> Contents]
          /\ served' \subseteq Users \X Files /\ aborts' \in 0 .. MaxAborts
      BY DEF TypeOK
    <2>2. quarantine' \subseteq Files /\ held' \subseteq Files
      BY DEF TypeOK
    <2>3. QED
      BY <1>1, <2>1, <2>2 DEF TypeOK
  <1>3. Inspected'
    <2> SUFFICES ASSUME NEW g \in Handlers
                 PROVE  /\ tx'[g].step = "copying" => content'[tx'[g].file] = "clean"
                        /\ tx'[g].step \in {"deleting", "recording"} /\ tx'[g].verdict = "clean" =>
                             tx'[g].file \in protected'
      BY DEF Inspected
    <2>1. CASE g = h
      BY <1>1, <2>1
    <2>2. CASE g # h
      BY <1>1, <2>2 DEF Inspected
    <2>3. QED
      BY <2>1, <2>2
  <1>4. QED
    BY <1>1, <1>2, <1>3, ObjectsIInv

LEMMA InspectIInv ==
  ASSUME IInv, NEW h \in Handlers, NEW v \in Verdicts, Inspect(h, v)
  PROVE  IInv'
  <1>1. /\ Running(h) /\ tx[h] \in Transaction
        /\ StepAfter(v) \in {"reading", "copying", "deleting", "recording"}
        /\ StepAfter(v) = "copying" <=> v = "clean"
        /\ v = "clean" => content[tx[h].file] = "clean"
    BY RunningTransaction DEF IInv, Inspect, Running, StepAfter
  <1>2. tx' = [tx EXCEPT ![h].step = StepAfter(v), ![h].verdict = v]
    BY <1>1 DEF IInv, TypeOK, Transaction, Inspect
  <1>3. /\ protected \subseteq Files
        /\ UNCHANGED <<row, idem, content, quarantine, protected, held, served, aborts>>
    BY DEF IInv, TypeOK, Inspect
  <1>4. QED
    BY <1>1, <1>2, <1>3, HandlerStepIInv

\* The first half of promote, which may take effect and raise.
LEMMA CopyIInv ==
  ASSUME IInv, NEW h \in Handlers, NEW ok \in BOOLEAN, NEW done \in BOOLEAN, Copy(h, ok, done)
  PROVE  IInv'
  <1> DEFINE s == IF ok THEN "deleting" ELSE "recording"
             v == IF ok THEN tx[h].verdict ELSE "error"
  <1>1. /\ Running(h) /\ tx[h] \in Transaction /\ tx[h].file \in Files
        /\ content[tx[h].file] = "clean" /\ v \in Verdicts
        /\ s \in {"reading", "copying", "deleting", "recording"} /\ s # "copying"
        /\ v = "clean" => ok
    BY RunningTransaction DEF IInv, Copy, Running, Inspected, Transaction, Verdicts
  <1>2. tx' = [tx EXCEPT ![h].step = s, ![h].verdict = v]
    BY <1>1 DEF IInv, TypeOK, Transaction, Copy
  <1>3. /\ protected \subseteq protected' /\ protected' \subseteq Files
        /\ \A f \in protected' : f \in protected \/ content[f] = "clean"
        /\ ok => tx[h].file \in protected'
        /\ UNCHANGED <<row, idem, content, quarantine, held, served, aborts>>
    BY <1>1 DEF IInv, TypeOK, Copy
  <1> HIDE DEF s, v
  <1>4. QED
    BY <1>1, <1>2, <1>3, HandlerStepIInv

LEMMA DeleteIInv ==
  ASSUME IInv, NEW h \in Handlers, NEW ok \in BOOLEAN, NEW done \in BOOLEAN, Delete(h, ok, done)
  PROVE  IInv'
  <1> DEFINE v == IF ok THEN tx[h].verdict ELSE "error"
  <1>1. /\ Running(h) /\ tx[h] \in Transaction /\ v \in Verdicts
        /\ v = "clean" => tx[h].file \in protected
    BY RunningTransaction DEF IInv, Delete, Running, Inspected, Transaction, Verdicts
  <1>2. tx' = [tx EXCEPT ![h].step = "recording", ![h].verdict = v]
    BY <1>1 DEF IInv, TypeOK, Transaction, Delete
  <1>3. /\ quarantine' \subseteq quarantine /\ held' \subseteq held /\ protected \subseteq Files
        /\ UNCHANGED <<row, idem, content, protected, served, aborts>>
    BY DEF IInv, TypeOK, Delete
  <1> HIDE DEF v
  <1>4. QED
    BY <1>1, <1>2, <1>3, HandlerStepIInv

\* The decision is recorded by the only finalize of an undecided file.
LEMMA RecordDecisionIInv ==
  ASSUME IInv, NEW h \in Handlers, RecordDecision(h)
  PROVE  IInv'
  <1> DEFINE f == tx[h].file
             k == tx[h].key
             decided == Decide(row[f], tx[h].verdict)
  <1> USE DEF IInv, RecordDecision
  <1>1. /\ Running(h) /\ tx[h] \in Transaction /\ f \in Files /\ k \in Keys
        /\ tx[h].user \in Users /\ tx[h].verdict \in Verdicts /\ tx[h].step = "recording"
    BY RunningTransaction DEF Running, Transaction
  <1>2. row[f] \in Row /\ row[f].state = "QUARANTINED" /\ row[f].attempts < MaxAttempts
    BY <1>1 DEF Scanning, TypeOK
  <1>3. /\ decided \in Row /\ decided.visibility = row[f].visibility
        /\ decided.state = "RELEASED" => f \in protected
    BY <1>1, <1>2, DecideRow DEF Inspected
  <1>4. /\ Outcome(decided) \in {"COMPLETED", "FAILED_FINAL", "FAILED_RETRYABLE"}
        /\ Outcome(decided) = "COMPLETED" => decided.state = "RELEASED"
        /\ Outcome(decided) = "FAILED_FINAL" => decided.state = "REJECTED"
    BY DEF Outcome
  <1> HIDE DEF decided
  <1>5. /\ row' = [row EXCEPT ![f] = decided]
        /\ idem' = [idem EXCEPT ![k] = [state |-> Outcome(decided), file |-> f,
                                        user |-> tx[h].user]]
        /\ tx' = [tx EXCEPT ![h] = Idle]
        /\ UNCHANGED <<content, quarantine, protected, held, served, aborts>>
    BY DEF decided
  <1> HIDE DEF RecordDecision
  <1>6. TypeOK'
    BY <1>1, <1>3, <1>4, <1>5 DEF TypeOK, Record
  <1>7. \A g \in Handlers : Running(g)' => g # h /\ tx'[g] = tx[g] /\ Running(g)
                                          /\ tx[g].file # f /\ tx[g].file \in Files
    BY <1>1, <1>5, RunningTransaction DEF Running, Idle, TypeOK, Scanning, Transaction
  <1>8. Scanning'
    BY <1>5, <1>7 DEF Scanning, TypeOK
  <1>9. Inspected'
    BY <1>5 DEF Inspected, Idle, TypeOK
  <1>10. ServedRows'
    BY <1>1, <1>2, <1>5 DEF ServedRows, TypeOK
  <1>11. ReleasedIsClean'
    BY <1>1, <1>3, <1>5 DEF ReleasedIsClean, TypeOK
  <1>12. RecordsAgree'
    BY <1>1, <1>2, <1>4, <1>5 DEF RecordsAgree, TypeOK, Record
  <1>13. QED
    BY <1>6, <1>8, <1>9, <1>10, <1>11, <1>12

LEMMA AbortIInv ==
  ASSUME IInv, NEW h \in Handlers, Abort(h)
  PROVE  IInv'
  <1> USE DEF IInv, Abort
  <1>1. TypeOK'
    BY LimitsAssumption DEF TypeOK
  <1>2. \A g \in Handlers : /\ Running(g)' => Running(g) /\ tx'[g].file = tx[g].file
                            /\ tx'[g] = tx[g] \/ tx'[g].step = "idle"
    BY DEF Running, Idle, TypeOK
  <1>3. Inspected'
    BY <1>2 DEF Inspected
  <1>4. QED
    BY <1>1, <1>2, <1>3, ObjectsIInv

-----------------------------------------------------------------------------

LEMMA NextIInv == ASSUME IInv, [Next]_vars PROVE IInv'
  <1>1. CASE UNCHANGED vars
    BY <1>1 DEF vars, IInv, TypeOK, Scanning, Running, Inspected, ServedRows, ReleasedIsClean,
                RecordsAgree
  <1>2. ASSUME NEW f \in Files,
               \/ \E u \in Users, v \in {"PUBLIC", "INTERNAL"} : AuthorizeUpload(u, f, v)
               \/ Upload(f) \/ DelayElapses(f)
               \/ \E u \in Users : Download(u, f)
        PROVE  IInv'
    BY <1>2, AuthorizeUploadIInv, UploadAndDownloadIInv, DelayElapsesIInv
  <1>3. ASSUME NEW f \in Files, NEW u \in Users, NEW k \in Keys,
               FinalizeDecided(u, k, f) \/ \E h \in Handlers : BeginScan(h, u, k, f)
        PROVE  IInv'
    BY <1>3, FinalizeDecidedIInv, BeginScanIInv
  <1>4. ASSUME NEW h \in Handlers,
               \/ \E verdict \in Verdicts : Inspect(h, verdict)
               \/ \E ok, done \in BOOLEAN : Copy(h, ok, done) \/ Delete(h, ok, done)
               \/ RecordDecision(h) \/ Abort(h)
        PROVE  IInv'
    BY <1>4, InspectIInv, CopyIInv, DeleteIInv, RecordDecisionIInv, AbortIInv
  <1>5. QED
    BY <1>1, <1>2, <1>3, <1>4 DEF Next

LEMMA IInvHolds == Spec => []IInv
  BY InitIInv, NextIInv, PTL DEF Spec

\* finalize, promote, download: over failed, half done and repeated promotions,
\* crashes and lost commits, what is released or served is a clean file under
\* its protected key.
THEOREM ReleasedFilesClean == Spec => []ReleasedIsClean
  BY IInvHolds, PTL DEF IInv

\* claim_idempotency, finish_idempotency: a final answer under a key is what
\* became of the attachment, whichever attempt decided it.
THEOREM RecordsTellTheDecision == Spec => []RecordsAgree
  BY IInvHolds, PTL DEF IInv

=============================================================================
