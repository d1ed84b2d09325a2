--------------------------- MODULE AnalystCopilot ---------------------------
(***************************************************************************)
(* Drafts of the analyst copilot on one ticket (analyst_copilot/) and the  *)
(* one way they reach it: an explicit post through queues.add_comment or   *)
(* an explicit resolve through workflows.execute, each with an idempotency *)
(* key made of the draft's id.  Claiming a draft, the effect on the ticket *)
(* and the record of the action are three transactions; only the first     *)
(* holds the conversation of the draft.                                    *)
(*                                                                         *)
(* An analysis or a draft is generated by one call of the AI gateway, in a *)
(* conversation of its own, and relies on the gateway's contract           *)
(* (AiContract). An analysis ends there; only a draft can be used.         *)
(***************************************************************************)
EXTENDS AiSurface, Sequences

CONSTANTS
    Analyses,       \* the calls that are an analysis, the others are drafts
    Resolutions,    \* the drafts of kind RESOLUTION_SUMMARY, the others are posted
    Actions,        \* post_draft and resolve_draft requests
    Bodies,         \* what an analyst sends, edited or not
    MaxVersion      \* bound on the row_version of the ticket

ASSUME CopilotAssumption ==
    /\ Analyses \subseteq Calls /\ Resolutions \subseteq Calls \ Analyses
    /\ Calls # Analyses /\ Bodies # {}
    /\ MaxVersion \in Nat \ {0}

Drafts == Calls \ Analyses

VARIABLES
    conversation,   \* conversation[c]: NONE, OPEN, CLOSED with its outcome stored
    feedback,       \* calls whose run has the analyst's decision
    action,         \* action[a]: [step, draft, body, version] of a request
    claim,          \* claim[d]: the request hash under the draft's idempotency key
    effects,        \* effects[d]: bodies the ticket received from the draft
    records,        \* records[d]: bodies of its SYSTEM messages
    ticket          \* [open, version] of the ticket

desk == <<conversation, feedback, action, claim, effects, records, ticket, crashes>>
deskVars == <<contract, desk>>

NoClaim == << >>

DeskTypeOK ==
    /\ ContractTypeOK
    /\ conversation \in [Calls -> {"NONE", "OPEN", "CLOSED"}]
    /\ feedback \subseteq Calls
    /\ action \in [Actions -> [step : {"none", "claimed", "done", "recording"},
                               draft : Drafts, body : Bodies, version : 1 .. MaxVersion]]
    /\ claim \in [Drafts -> (Bodies \X (1 .. MaxVersion)) \cup {NoClaim}]
    /\ effects \in [Drafts -> Seq(Bodies)] /\ records \in [Drafts -> Seq(Bodies)]
    /\ ticket \in [open : BOOLEAN, version : 1 .. MaxVersion]
    /\ crashes \in 0 .. MaxCrashes

DeskInit ==
    /\ ContractInit
    /\ conversation = [c \in Calls |-> "NONE"]
    /\ feedback = {}
    /\ action \in [Actions -> {[step |-> "none", draft |-> CHOOSE d \in Drafts : TRUE,
                                body |-> CHOOSE b \in Bodies : TRUE, version |-> 1]}]
    /\ claim = [d \in Drafts |-> NoClaim]
    /\ effects = [d \in Drafts |-> << >>] /\ records = [d \in Drafts |-> << >>]
    /\ ticket = [open |-> TRUE, version |-> 1]
    /\ crashes = 0

Conversation(c, s) == conversation' = [conversation EXCEPT ![c] = s]
Go(a, step) == action' = [action EXCEPT ![a].step = step]

-----------------------------------------------------------------------------
(* analyze, draft *)

\* create_conversation: committed before the gateway is asked, which may refuse.
Begin(c) ==
    /\ conversation[c] = "NONE"
    /\ Ask(c) \/ Refuse(c)
    /\ Conversation(c, "OPEN")
    /\ UNCHANGED <<feedback, action, claim, effects, records, ticket, crashes>>

\* Both gather their evidence first, in transactions that only read.
AskForAnalysis(c) == c \in Analyses /\ Begin(c)
AskForDraft(c) == c \in Drafts /\ Begin(c)

\* complete_analysis closes the conversation with what was generated.
Complete(c) ==
    /\ conversation[c] = "OPEN"
    /\ stage[c] = "generated"
    /\ Conversation(c, "CLOSED")
    /\ UNCHANGED <<contract, feedback, action, claim, effects, records, ticket, crashes>>

StoreAnalysis(c) == c \in Analyses /\ Complete(c)

\* store_draft, in the same transaction.
StoreDraft(c) == c \in Drafts /\ Complete(c)

\* The provider ends the call, or the request of the analyst is cancelled.
GatewayAnswers(c) ==
    /\ Generate(c) \/ Fail(c) \/ Stop(c) \/ RecordStop(c)
    /\ UNCHANGED desk

\* insert_feedback: on any run of the analyst's, ended or not, once.
SubmitFeedback(c) ==
    /\ run[c] # "NONE"
    /\ c \notin feedback
    /\ feedback' = feedback \cup {c}
    /\ UNCHANGED <<contract, conversation, action, claim, effects, records, ticket, crashes>>

-----------------------------------------------------------------------------
(* post_draft, resolve_draft *)

Actioned(d) == records[d] # << >>

\* The row_version an analyst resolves with is one the ticket had.
Versions(d) == IF d \in Resolutions THEN 1 .. ticket.version ELSE {1}

\* _claim_draft: reads under the lock of the conversation and commits.
ClaimDraft(a, d, body, version) ==
    /\ action[a].step = "none"
    /\ conversation[d] = "CLOSED"
    /\ ~Actioned(d)
    /\ version \in Versions(d)
    /\ action' = [action EXCEPT ![a] = [step |-> "claimed", draft |-> d, body |-> body,
                                        version |-> version]]
    /\ UNCHANGED <<contract, conversation, feedback, claim, effects, records, ticket, crashes>>

\* What request_hash tells apart: the body, and the version to resolve from.
Hash(a) == <<action[a].body, action[a].version>>

\* claim_idempotency finds the key with this hash, so that the answer is the
\* recorded one; with another hash it is a conflict.
Replays(a) == claim[action[a].draft] = Hash(a)

Conflicts(a) == claim[action[a].draft] # NoClaim /\ ~Replays(a)

\* Mutant of Effect: the key is not kept with its effect.
Effect_KeyDropped(a) ==
    /\ action[a].step = "claimed"
    /\ effects' = [effects EXCEPT ![action[a].draft] = Append(@, action[a].body)]
    /\ Go(a, "done")
    /\ UNCHANGED claim

Effect(a) ==
    LET d == action[a].draft IN
    /\ action[a].step = "claimed"
    /\ ~Conflicts(a) /\ ~Replays(a)
    /\ claim' = [claim EXCEPT ![d] = Hash(a)]
    /\ effects' = [effects EXCEPT ![d] = Append(@, action[a].body)]
    /\ Go(a, "done")

\* add_comment: the key, the comment and its events under the ticket's lock.
PostComment(a) ==
    /\ action[a].draft \notin Resolutions
    /\ Effect(a)
    /\ UNCHANGED <<contract, conversation, feedback, records, ticket, crashes>>

\* workflows.execute: the transition from the version the analyst has seen.
ResolveTicket(a) ==
    /\ action[a].draft \in Resolutions
    /\ ticket.open /\ ticket.version = action[a].version /\ ticket.version < MaxVersion
    /\ ticket' = [open |-> FALSE, version |-> ticket.version + 1]
    /\ Effect(a)
    /\ UNCHANGED <<contract, conversation, feedback, records, crashes>>

\* The key is COMPLETED already.
ReplayEffect(a) ==
    /\ action[a].step = "claimed"
    /\ Replays(a)
    /\ Go(a, "done")
    /\ UNCHANGED <<contract, conversation, feedback, claim, effects, records, ticket, crashes>>

\* IdempotencyConflict, or a transition that is refused; the claim of the key
\* rolls back.
EffectRefused(a) ==
    /\ action[a].step = "claimed"
    /\ ~Replays(a)
    /\ \/ Conflicts(a)
       \/ /\ action[a].draft \in Resolutions
          /\ ticket.open => ticket.version # action[a].version
    /\ Go(a, "none")
    /\ UNCHANGED <<contract, conversation, feedback, claim, effects, records, ticket, crashes>>

\* Mutant of LookForRecord: the effect is answered with the claim only, as if
\* nothing had been said in between.
LookForRecord_Skipped(a) ==
    /\ action[a].step \in {"claimed", "done"}
    /\ Go(a, "recording")
    /\ UNCHANGED <<contract, conversation, feedback, claim, effects, records, ticket, crashes>>

\* _record_action looks for the record without holding the conversation ...
LookForRecord(a) ==
    /\ action[a].step = "done"
    /\ Go(a, IF Actioned(action[a].draft) THEN "none" ELSE "recording")
    /\ UNCHANGED <<contract, conversation, feedback, claim, effects, records, ticket, crashes>>

\* ... and writes it, with the body of this request; the conversation, closed
\* when the draft was stored, stays as it is.
RecordAction(a) ==
    LET d == action[a].draft IN
    /\ action[a].step = "recording"
    /\ records' = [records EXCEPT ![d] = Append(@, action[a].body)]
    /\ Go(a, "none")
    /\ UNCHANGED <<contract, conversation, feedback, claim, effects, ticket, crashes>>

\* Someone else moves the ticket.
TicketChanges(open) ==
    /\ ticket.version < MaxVersion
    /\ ticket' = [open |-> open, version |-> ticket.version + 1]
    /\ UNCHANGED <<contract, conversation, feedback, action, claim, effects, records, crashes>>

\* The process dies between two transactions of its requests.
DeskCrash ==
    /\ ProcessDies
    /\ StopAll({c \in Calls : stage[c] = "calling"})
    /\ action' = [a \in Actions |-> [action[a] EXCEPT !.step = "none"]]
    /\ UNCHANGED <<conversation, feedback, claim, effects, records, ticket>>

DeskNext ==
    \/ \E c \in Calls :
          \/ AskForAnalysis(c) \/ AskForDraft(c) \/ GatewayAnswers(c)
          \/ StoreAnalysis(c) \/ StoreDraft(c) \/ SubmitFeedback(c)
    \/ \E a \in Actions :
          \/ \E d \in Drafts, body \in Bodies, version \in 1 .. MaxVersion :
                ClaimDraft(a, d, body, version)
          \/ PostComment(a) \/ ResolveTicket(a) \/ ReplayEffect(a) \/ EffectRefused(a)
          \/ LookForRecord(a) \/ RecordAction(a)
    \/ \E open \in BOOLEAN : TicketChanges(open)
    \/ DeskCrash

DeskSpec == DeskInit /\ [][DeskNext]_deskVars

-----------------------------------------------------------------------------
(* What the copilot promises *)

\* A draft reaches the ticket once at most, and only a stored one does,
\* whatever requests race, are retried or die on the way (_claim_draft,
\* add_comment, execute).
DraftUsedOnce ==
    \A d \in Drafts :
        /\ Len(effects[d]) <= 1
        /\ effects[d] # << >> => conversation[d] = "CLOSED" /\ run[d] = "COMPLETED"

\* What is recorded of a draft is what the ticket received from it, with the
\* same body, however often it is recorded (_record_action).
EffectsRecorded ==
    \A d \in Drafts : \A i \in DOMAIN records[d] : <<records[d][i]>> = effects[d]

=============================================================================
