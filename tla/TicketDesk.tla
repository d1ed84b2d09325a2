----------------------------- MODULE TicketDesk -----------------------------
(***************************************************************************)
(* One ticket of the helpdesk, from the draft to the approval that gates   *)
(* it (tickets/service.py, workflows/service.py, routing/service.py,       *)
(* approvals/service.py and their repositories).                           *)
(*                                                                         *)
(* A command is one database transaction run by an API worker: a slot.  It *)
(* takes its locks one after the other, and any other transaction may run  *)
(* in between: the row of its idempotency key (an INSERT ... ON CONFLICT   *)
(* DO NOTHING and a SELECT ... FOR UPDATE, both of which wait for an       *)
(* uncommitted claim of the key) and the row it changes.  Then it checks   *)
(* what it read under the lock, writes and commits, or is rolled back.     *)
(* Clients read a row version, send a command with it later, and repeat a  *)
(* command whose answer they did not get under the same key.               *)
(*                                                                         *)
(* Abstracted: who may see and change the ticket, and the references and   *)
(* configuration a command looks up and may find missing (any command may  *)
(* be refused for them).  The key of the i-th command is i.                *)
(***************************************************************************)
EXTENDS TicketForm, Routing

CONSTANTS
    Slots,          \* API workers, each running one transaction at a time
    Approvers,      \* the users the approval definition resolves to
    Modes,          \* the approval modes of the published definitions
    Answers,        \* what reporters enter, by name: raw answers to the form, and a level
    Targets,        \* the holders analysts choose by hand, by name
    RemarkOn,       \* the transitions that analysts also send with a remark
    MaxCommands,    \* bound on the commands clients think of
    MaxRepeats      \* bound on the repeated uses of a key

AnyOne == {"ANY_ONE_APPROVER", "MANAGER_APPROVAL"}

ASSUME DeskAssumption ==
    /\ IsFiniteSet(Approvers) /\ Approvers # {}
    /\ Modes \subseteq AnyOne \cup {"ALL_APPROVERS"} /\ Modes # {}
    /\ MaxCommands \in Nat /\ MaxRepeats \in Nat
    /\ \A n \in DOMAIN Answers : HasPriority(Answers[n].level)

VARIABLES
    draft,      \* itsm.ticket_draft: status, row version, normalized answers, level
    ticket,     \* itsm.ticket, its custom values, and the draft version it was made from
    history,    \* the itsm.assignment_history rows
    approval,   \* itsm.ticket_approval with the decisions of its approvers
    idem,       \* integration.idempotency_record, by operation and key
    slot,       \* what each API worker runs
    sent,       \* sent[k]: the command clients first sent under key k (draft edits have none)
    repeats,
    tally,      \* rows inserted: tickets, comments
    trail,      \* the WORKFLOW_TRANSITION_EXECUTED events
    facts       \* outbox rows that carry a deduplication key

vars == <<draft, ticket, history, approval, idem, slot, sent, repeats, tally, trail, facts>>
clients == <<sent, repeats>>

(***************************************************************************)
(* Data.                                                                   *)
(***************************************************************************)
Transition(code, from, to, kind) == [code |-> code, from |-> from, to |-> to, kind |-> kind]

\* The shipped workflow: "request" carries CREATE_APPROVAL, "continue" carries
\* APPROVAL_CONTINUATION.
Workflow ==
    {Transition("START_PROGRESS", "NEW", "IN_PROGRESS", "plain"),
     Transition("WAIT_FOR_CUSTOMER", "IN_PROGRESS", "WAITING_FOR_CUSTOMER", "plain"),
     Transition("RESUME_PROGRESS", "WAITING_FOR_CUSTOMER", "IN_PROGRESS", "plain"),
     Transition("RESOLVE", "IN_PROGRESS", "RESOLVED", "plain"),
     Transition("REOPEN", "RESOLVED", "IN_PROGRESS", "plain"),
     Transition("CLOSE", "RESOLVED", "CLOSED", "plain"),
     Transition("REQUEST_APPROVAL", "NEW", "AWAITING_APPROVAL", "request"),
     Transition("APPROVE_ACCESS", "AWAITING_APPROVAL", "IN_PROGRESS", "continue"),
     Transition("REJECT_ACCESS", "AWAITING_APPROVAL", "REJECTED", "continue")}

\* Its SET_TIMESTAMP and CLEAR_FIELD actions and its required_field validators.
Filled(w) ==
    CASE w.code = "START_PROGRESS" -> {"first_response_at"}
      [] w.code = "RESOLVE" -> {"resolved_at"}
      [] w.code = "CLOSE" -> {"closed_at"}
      [] OTHER -> {}

Cleared(w) == IF w.code = "REOPEN" THEN {"resolved_at", "resolution_code"} ELSE {}
Required(w) == IF w.code = "RESOLVE" THEN {"resolution_code"} ELSE {}

\* The transition the approval definition pins to each outcome.
Pinned(verdict) == IF verdict = "APPROVED" THEN "APPROVE_ACCESS" ELSE "REJECT_ACCESS"

OpenDraft == {"DRAFT", "READY_FOR_REVIEW"}
KeyedOps == {"SUBMIT", "TRANSITION", "ROUTE", "MANUAL", "COMMENT", "DECIDE"}
DraftOps == {"EDIT", "VALIDATE", "CANCEL"}
Keys == 1 .. MaxCommands

\* The fingerprint of a request: everything that is hashed, and the principal. "more" is
\* the approver who decides, or the remark or the resolution code a transition carries.
Command(op, ver, arg, more) == [op |-> op, ver |-> ver, arg |-> arg, more |-> more]
NoCommand == Command("NONE", 0, "-", "-")
NoRecord == [cmd |-> NoCommand, status |-> "ABSENT"]
NoRow == [status |-> "NONE", ver |-> 0]
Empty == [cmd |-> NoCommand, key |-> 0, held |-> 0, seen |-> NoRow]

Stored(decision) == IF decision = "APPROVE" THEN "APPROVED" ELSE "REJECTED"

\* ApprovalService._terminal_status; PENDING is its None.
Verdict(mode, total, approved, rejected) ==
    IF mode \in AnyOne
    THEN IF approved > 0 THEN "APPROVED"
         ELSE IF rejected = total THEN "REJECTED" ELSE "PENDING"
    ELSE IF rejected > 0 THEN "REJECTED"
         ELSE IF approved = total THEN "APPROVED" ELSE "PENDING"

Count(votes, v) == Cardinality({a \in Approvers : votes[a] = v})

(***************************************************************************)
(* Locks.  A keyed command claims its key and then locks the row it is     *)
(* about; a comment locks the ticket first.                                *)
(***************************************************************************)
DraftRow == <<"ticket_draft", 0>>
TicketRow == <<"ticket", 0>>
ApprovalRow == <<"ticket_approval", 0>>
RowLocks == {DraftRow, TicketRow, ApprovalRow}

\* Mutant of Record: every operation claims under the default operation code.
Record_OneOperation(op, key) == <<"SUBMIT", key>>

\* idempotency_record is unique by tenant, operation code and key.
Record(op, key) == <<op, key>>

\* Mutant of LockPlan: comments are inserted without claiming their key.
LockPlan_CommentUnclaimed(op, key) ==
    IF op \in DraftOps THEN <<DraftRow>>
    ELSE IF op = "SUBMIT" THEN <<Record(op, key), DraftRow>>
    ELSE IF op = "COMMENT" THEN <<TicketRow>>
    ELSE IF op = "DECIDE" THEN <<Record(op, key), ApprovalRow>>
    ELSE <<Record(op, key), TicketRow>>

LockPlan(op, key) ==
    IF op \in DraftOps THEN <<DraftRow>>
    ELSE IF op = "SUBMIT" THEN <<Record(op, key), DraftRow>>
    ELSE IF op = "COMMENT" THEN <<TicketRow, Record(op, key)>>
    ELSE IF op = "DECIDE" THEN <<Record(op, key), ApprovalRow>>
    ELSE <<Record(op, key), TicketRow>>

Plan(s) == LockPlan(slot[s].cmd.op, slot[s].key)
Id(s) == Record(slot[s].cmd.op, slot[s].key)

Idle(s) == slot[s].cmd = NoCommand
Waiting(s) == ~Idle(s) /\ slot[s].held < Len(Plan(s))
Ready(s) == ~Idle(s) /\ slot[s].held = Len(Plan(s))
Wanted(s) == Plan(s)[slot[s].held + 1]
LocksOf(s) == IF Idle(s) THEN {} ELSE {Plan(s)[i] : i \in 1 .. slot[s].held}
Free(lock) == \A s \in Slots : lock \notin LocksOf(s)

(***************************************************************************)
(* The initial state: a draft was created, nothing else.  A draft is       *)
(* written with the normal form of answers that may still be incomplete.   *)
(***************************************************************************)
Enterable(n) == Rejected(Answers[n].raw, FALSE) = {}
Entered(n) == Normalized(Answers[n].raw)

CreateDraft(n) ==
    [status |-> "DRAFT", ver |-> 1, values |-> Entered(n), level |-> Answers[n].level]

NoTicket == [status |-> "NONE", ver |-> 0, form |-> 0, values |-> <<>>, priority |-> "-",
             holder |-> Unassigned, filled |-> {}]

Init ==
    /\ \E n \in DOMAIN Answers : Enterable(n) /\ draft = CreateDraft(n)
    /\ ticket = NoTicket
    /\ history = <<>>
    /\ approval = [status |-> "NONE", ver |-> 0, mode |-> "-", due |-> FALSE, asked |-> {},
                   votes |-> [a \in Approvers |-> "NONE"]]
    /\ idem = [id \in {Record(op, k) : op \in KeyedOps, k \in Keys} |-> NoRecord]
    /\ slot = [s \in Slots |-> Empty]
    /\ sent = <<>> /\ repeats = 0
    /\ tally = [tickets |-> 0, comments |-> 0]
    /\ trail = <<>> /\ facts = {}

(***************************************************************************)
(* Clients.  They know the version they last read, which may be stale by   *)
(* the time the command gets its locks.                                    *)
(***************************************************************************)
DraftCommands ==
    IF draft.status = "SUBMITTED" THEN {}
    ELSE {Command(op, draft.ver, "-", "-") : op \in {"VALIDATE", "CANCEL", "SUBMIT"}}
         \cup {Command("EDIT", draft.ver, n, "-") : n \in DOMAIN Answers}

\* A transition offered now, or one an analyst executed before and clicks again.
TicketCommands ==
    IF ticket.status = "NONE" THEN {}
    ELSE {Command("TRANSITION", ticket.ver, w.code, "-") :
             w \in {x \in Workflow : x.from = ticket.status \/ \E i \in 1 .. Len(trail) : trail[i] = x}}
         \cup {Command("TRANSITION", ticket.ver, w.code, "remark") :
                 w \in {x \in Workflow : x.from = ticket.status /\ x.code \in RemarkOn}}
         \cup {Command("TRANSITION", ticket.ver, w.code, "resolution") :
                 w \in {x \in Workflow : x.from = ticket.status /\ Required(x) # {}}}
         \cup {Command("MANUAL", ticket.ver, n, "-") : n \in DOMAIN Targets}
         \cup {Command("ROUTE", ticket.ver, "-", "-"), Command("COMMENT", 0, "-", "-")}

VoteCommands ==
    IF approval.status = "NONE" THEN {}
    ELSE {Command("DECIDE", approval.ver, v, a) : v \in {"APPROVE", "REJECT"}, a \in Approvers}

Plausible == DraftCommands \cup TicketCommands \cup VoteCommands

Open(s, c, k) == slot' = [slot EXCEPT ![s] = [Empty EXCEPT !.cmd = c, !.key = k]]

Send(s) ==
    /\ Idle(s) /\ Len(sent) < MaxCommands
    /\ \E c \in Plausible :
         /\ Open(s, c, Len(sent) + 1)
         /\ sent' = Append(sent, IF c.op \in KeyedOps THEN c ELSE NoCommand)
    /\ UNCHANGED <<draft, ticket, history, approval, idem, repeats, tally, trail, facts>>

\* A retry, while the first attempt runs or after it; or a key used for another request
\* of the operation, or for a comment.
Repeat(s) ==
    /\ Idle(s) /\ repeats < MaxRepeats
    /\ \E k \in 1 .. Len(sent) :
         /\ sent[k].op \in KeyedOps
         /\ \E c \in {sent[k]} \cup {p \in Plausible : p.op \in {sent[k].op, "COMMENT"}} :
               Open(s, c, k)
    /\ repeats' = repeats + 1
    /\ UNCHANGED <<draft, ticket, history, approval, idem, sent, tally, trail, facts>>

\* The approval's expires_at passes.
ComeDue ==
    /\ approval.status = "PENDING" /\ ~approval.due
    /\ approval' = [approval EXCEPT !.due = TRUE]
    /\ UNCHANGED <<draft, ticket, history, idem, slot, sent, repeats, tally, trail, facts>>

(***************************************************************************)
(* A transaction takes its locks.                                          *)
(***************************************************************************)
Row(lock) ==
    IF lock = DraftRow THEN [status |-> draft.status, ver |-> draft.ver]
    ELSE IF lock = TicketRow THEN [status |-> ticket.status, ver |-> ticket.ver]
    ELSE [status |-> approval.status, ver |-> approval.ver]

LockRow(s) ==
    /\ Waiting(s) /\ Wanted(s) \in RowLocks /\ Free(Wanted(s))
    /\ slot' = [slot EXCEPT ![s].held = @ + 1, ![s].seen = Row(Wanted(s))]
    /\ UNCHANGED <<draft, ticket, history, approval, idem, clients, tally, trail, facts>>

\* Commit or rollback: the locks are released and the client is answered.
Release(s) == slot' = [slot EXCEPT ![s] = Empty]

Reused(s) == idem[Id(s)] # NoRecord /\ idem[Id(s)].cmd # slot[s].cmd
Completed(s) == idem[Id(s)].status = "COMPLETED" /\ idem[Id(s)].cmd = slot[s].cmd

\* claim_idempotency, and what each service does with the record it returns: another
\* request's record is a conflict, a completed one is replayed, otherwise go on.
Claim(s) ==
    /\ Waiting(s) /\ Wanted(s) \notin RowLocks /\ Free(Wanted(s))
    /\ \/ (Reused(s) \/ Completed(s)) /\ Release(s)
       \/ ~Reused(s) /\ ~Completed(s) /\ slot' = [slot EXCEPT ![s].held = @ + 1]
    /\ UNCHANGED <<draft, ticket, history, approval, idem, clients, tally, trail, facts>>

\* A check fails, a constraint is violated: the transaction is rolled back.
Refuse(s) ==
    /\ Ready(s)
    /\ Release(s)
    /\ UNCHANGED <<draft, ticket, history, approval, idem, clients, tally, trail, facts>>

\* The worker dies or the connection is lost before the commit.
Abort(s) ==
    /\ ~Idle(s)
    /\ Release(s)
    /\ UNCHANGED <<draft, ticket, history, approval, idem, clients, tally, trail, facts>>

(***************************************************************************)
(* Drafts.                                                                 *)
(***************************************************************************)
Cmd(s) == slot[s].cmd
Seen(s) == slot[s].seen
Fresh(s) == Seen(s).ver = Cmd(s).ver

CompleteIdem(s) ==
    idem' = [idem EXCEPT ![Id(s)] = [cmd |-> slot[s].cmd, status |-> "COMPLETED"]]

\* update_draft, set_ready and cancel: the UPDATE repeats the version and the status.
SetDraft(s, status) ==
    /\ Fresh(s) /\ draft.ver = Cmd(s).ver /\ draft.status \in OpenDraft
    /\ draft' = [draft EXCEPT !.status = status, !.ver = @ + 1]
    /\ Release(s)
    /\ UNCHANGED <<ticket, history, approval, idem, clients, tally, trail, facts>>

\* update_draft writes the answers, and the draft is to be reviewed again.
Revised(d, n) ==
    [d EXCEPT !.status = "DRAFT", !.ver = @ + 1, !.values = Entered(n),
              !.level = Answers[n].level]

EditDraft(s) ==
    /\ Ready(s) /\ Cmd(s).op = "EDIT" /\ Seen(s).status \in OpenDraft /\ Fresh(s)
    /\ Enterable(Cmd(s).arg)
    /\ draft.ver = Cmd(s).ver /\ draft' = Revised(draft, Cmd(s).arg)
    /\ Release(s)
    /\ UNCHANGED <<ticket, history, approval, idem, clients, tally, trail, facts>>

Complete(d) == Rejected(d.values, TRUE) = {}

ValidateDraft(s) ==
    /\ Ready(s) /\ Cmd(s).op = "VALIDATE" /\ Complete(draft) /\ SetDraft(s, "READY_FOR_REVIEW")

CancelDraft(s) == Ready(s) /\ Cmd(s).op = "CANCEL" /\ SetDraft(s, "CANCELLED")

\* Mutant of Submittable: the confirmed version is not compared.
Submittable_AnyVersion(s) == Seen(s).status \in OpenDraft

Submittable(s) == Fresh(s) /\ Seen(s).status \in OpenDraft

\* finish_submission updates the draft by id alone; the trigger refuses a submitted one.
Submitted(d) ==
    d.status # "SUBMITTED" /\ draft' = [d EXCEPT !.status = "SUBMITTED", !.ver = @ + 1]

\* create_ticket: the initial status of the workflow; the answers validated once more.
CreateTicket(d) ==
    [NoTicket EXCEPT !.status = "NEW", !.ver = 1, !.form = d.ver,
                     !.values = Persisted(Normalized(d.values)), !.priority = Priority(d.level)]

Submit(s) ==
    /\ Ready(s) /\ Cmd(s).op = "SUBMIT" /\ Submittable(s) /\ Complete(draft)
    /\ ticket' = CreateTicket(draft)
    /\ tally' = [tally EXCEPT !.tickets = @ + 1]
    /\ Submitted(draft)
    /\ CompleteIdem(s) /\ Release(s)
    /\ UNCHANGED <<history, approval, clients, trail, facts>>

(***************************************************************************)
(* Ticket commands.                                                        *)
(***************************************************************************)
Fact(type, n) == [type |-> type, n |-> n]

\* The row is pinned by the UPDATE: same status and version as when it was locked.
TicketUnmoved(s) == ticket.status = Seen(s).status /\ ticket.ver = Seen(s).ver

\* Mutants of Executable: looked up by code alone; continuations not excluded.
Executable_ByCode(s, w) == w.code = Cmd(s).arg /\ w.kind # "continue"
Executable_Continuations(s, w) == w.code = Cmd(s).arg /\ w.from = Seen(s).status

\* The active transition of this code out of the ticket's status, never a continuation.
Executable(s, w) ==
    /\ w.code = Cmd(s).arg /\ w.from = Seen(s).status
    /\ w.kind # "continue"

Move(w, given) ==
    /\ ticket' = [ticket EXCEPT !.status = w.to, !.ver = @ + 1,
                                !.filled = ((@ \cup given) \ Cleared(w)) \cup Filled(w)]
    /\ trail' = Append(trail, w)

\* _validated_updates: the fields the command carries, and those the transition requires.
Carried(s) == IF Cmd(s).more = "resolution" THEN {"resolution_code"} ELSE {}
Satisfied(s, w) == Required(w) \subseteq ticket.filled \cup Carried(s)

\* ApprovalEngine._resolve: the listed users, or the manager of the requester.
Resolve(m) == IF m = "MANAGER_APPROVAL" THEN {{a} : a \in Approvers} ELSE {Approvers}

\* create: a pending instance, and a row for each approver.
Requested(m, asked) ==
    [status |-> "PENDING", ver |-> 1, mode |-> m, due |-> FALSE, asked |-> asked,
     votes |-> [a \in Approvers |-> "NONE"]]

\* ApprovalEngine.request; one pending instance per ticket and definition.
RequestApproval(m) ==
    /\ approval.status # "PENDING"
    /\ \E asked \in Resolve(m) : approval' = Requested(m, asked)

ExecuteTransition(s) ==
    /\ Ready(s) /\ Cmd(s).op = "TRANSITION" /\ Fresh(s)
    /\ \E w \in Workflow :
         /\ Executable(s, w) /\ Satisfied(s, w) /\ TicketUnmoved(s) /\ Move(w, Carried(s))
         /\ \/ /\ w.kind # "request"
               /\ facts' = facts \cup {Fact("NOTIFY_STATUS_CHANGED", ticket.ver + 1)}
               /\ UNCHANGED approval
            \/ /\ w.kind = "request"
               /\ facts' = facts \cup {Fact("NOTIFY_STATUS_CHANGED", ticket.ver + 1),
                                       Fact("APPROVAL_REQUESTED", 1)}
               /\ \E m \in Modes : RequestApproval(m)
    /\ tally' = IF Cmd(s).more = "remark" THEN [tally EXCEPT !.comments = @ + 1] ELSE tally
    /\ CompleteIdem(s) /\ Release(s)
    /\ UNCHANGED <<draft, history, clients>>

\* RoutingRepository.assign and record_assignment.
AssignTo(s, holder, by) ==
    /\ ticket.ver = Seen(s).ver
    /\ ticket' = [ticket EXCEPT !.holder = holder, !.ver = @ + 1]
    /\ history' = Append(history, [from |-> ticket.holder, to |-> holder, by |-> by])
    /\ facts' = IF holder.who = Nobody THEN facts
                ELSE facts \cup {Fact("NOTIFY_TICKET_ASSIGNED", ticket.ver + 1)}
    /\ CompleteIdem(s) /\ Release(s)
    /\ UNCHANGED <<draft, approval, clients, tally, trail>>

Route(s) ==
    LET rule == Selected(ticket.status)
    IN  /\ Ready(s) /\ Cmd(s).op = "ROUTE" /\ Fresh(s)
        /\ Routable /\ Assignable(rule)
        /\ AssignTo(s, Holder(rule.group, Assignee(history, rule)), rule.id)

AssignManual(s) ==
    LET target == Targets[Cmd(s).arg]
    IN  /\ Ready(s) /\ Cmd(s).op = "MANUAL" /\ Fresh(s)
        /\ Target(target.group, target.who)
        /\ AssignTo(s, target, 0)

\* A comment does not touch the ticket row it locks.
Comment(s) ==
    /\ Ready(s) /\ Cmd(s).op = "COMMENT"
    /\ tally' = [tally EXCEPT !.comments = @ + 1]
    /\ CompleteIdem(s) /\ Release(s)
    /\ UNCHANGED <<draft, ticket, history, approval, clients, trail, facts>>

(***************************************************************************)
(* Approval decisions.  The approval row is locked; the ticket row is      *)
(* waited for when the first event that references it is inserted (its     *)
(* foreign key takes the ticket row FOR KEY SHARE), and then updated.      *)
(***************************************************************************)
\* lock_for_decision finds the approval only for one of the users it asked.
Deciding(s) == Ready(s) /\ Cmd(s).op = "DECIDE" /\ Cmd(s).more \in approval.asked
Overdue == approval.status = "PENDING" /\ approval.due

\* An expired approval is closed by the approver who finds it so, who is refused.
\* The commit keeps the claim, still IN_PROGRESS.
ExpireApproval(s) ==
    /\ Deciding(s) /\ Overdue /\ Free(TicketRow)
    /\ approval' = [approval EXCEPT !.status = "EXPIRED", !.ver = @ + 1]
    /\ facts' = facts \cup {Fact("APPROVAL_EXPIRED", 1)}
    /\ idem' = [idem EXCEPT ![Id(s)] = [cmd |-> Cmd(s), status |-> "IN_PROGRESS"]]
    /\ Release(s)
    /\ UNCHANGED <<draft, ticket, history, clients, tally, trail>>

Decidable(s) ==
    /\ ~Overdue /\ Seen(s).status = "PENDING" /\ Fresh(s)
    /\ approval.votes[Cmd(s).more] = "NONE"

\* Mutant of Outcome: the counts are used without this decision.
Outcome_OthersOnly(s) ==
    Verdict(approval.mode, Cardinality(approval.asked), Count(approval.votes, "APPROVED"),
            Count(approval.votes, "REJECTED"))

\* decision_counts are those of the other approvers; this decision is added to them.
Outcome(s) ==
    LET v == Stored(Cmd(s).arg)
        n(x) == Count(approval.votes, x) + (IF v = x THEN 1 ELSE 0)
    IN  Verdict(approval.mode, Cardinality(approval.asked), n("APPROVED"), n("REJECTED"))

\* record_decision: the decision, and the version the outbox row is keyed by.
RecordDecision(s, verdict) ==
    /\ approval.ver = Seen(s).ver
    /\ approval' = [approval EXCEPT !.status = verdict, !.ver = @ + 1,
                                    !.votes[Cmd(s).more] = Stored(Cmd(s).arg)]

DecidedFact(s) == Fact("APPROVAL_DECIDED", approval'.ver)

Vote(s) ==
    /\ Deciding(s) /\ Decidable(s) /\ Outcome(s) = "PENDING" /\ Free(TicketRow)
    /\ RecordDecision(s, "PENDING")
    /\ facts' = facts \cup {DecidedFact(s)}
    /\ CompleteIdem(s) /\ Release(s)
    /\ UNCHANGED <<draft, ticket, history, clients, tally, trail>>

\* continue_workflow; its outbox row is keyed by the approval.
Settle(s) ==
    /\ Deciding(s) /\ Decidable(s) /\ Outcome(s) # "PENDING" /\ Free(TicketRow)
    /\ RecordDecision(s, Outcome(s))
    /\ \E w \in Workflow :
         /\ w.code = Pinned(Outcome(s)) /\ w.from = ticket.status /\ w.kind = "continue"
         /\ Move(w, {})
    /\ Fact("APPROVAL_WORKFLOW", 1) \notin facts
    /\ facts' = facts \cup {DecidedFact(s), Fact("APPROVAL_WORKFLOW", 1)}
    /\ CompleteIdem(s) /\ Release(s)
    /\ UNCHANGED <<draft, history, clients, tally>>

Step(s) ==
    \/ LockRow(s) \/ Claim(s) \/ Refuse(s) \/ Abort(s)
    \/ EditDraft(s) \/ ValidateDraft(s) \/ CancelDraft(s) \/ Submit(s)
    \/ ExecuteTransition(s) \/ Route(s) \/ AssignManual(s) \/ Comment(s)
    \/ ExpireApproval(s) \/ Vote(s) \/ Settle(s)

Next ==
    \/ ComeDue
    \/ \E s \in Slots : Send(s) \/ Repeat(s) \/ Step(s)

Spec == Init /\ [][Next]_vars

(***************************************************************************)
(* Properties.                                                             *)
(***************************************************************************)
Records(op) == {k \in Keys : idem[Record(op, k)].status = "COMPLETED"}
Remarked == {k \in Records("TRANSITION") : idem[Record("TRANSITION", k)].cmd.more = "remark"}
ByAnalyst == {i \in 1 .. Len(trail) : trail[i].kind # "continue"}
Voters == {a \in Approvers : approval.votes[a] # "NONE"}
Assigned == {i \in 1 .. Len(history) : history[i].to.who # Nobody}
Announced(type) == Cardinality({f \in facts : f.type = type})

\* Idempotency: however often a command is sent, crashed or repeated, the rows it inserts
\* and the outbox facts that announce them are there exactly once for each completed
\* record of its operation, and no deduplication key swallows one.
EffectsMatchRecords ==
    /\ tally.tickets = Cardinality(Records("SUBMIT"))
    /\ tally.comments = Cardinality(Records("COMMENT")) + Cardinality(Remarked)
    /\ Len(history) = Cardinality(Records("ROUTE")) + Cardinality(Records("MANUAL"))
    /\ Announced("NOTIFY_TICKET_ASSIGNED") = Cardinality(Assigned)
    /\ Cardinality(ByAnalyst) = Cardinality(Records("TRANSITION"))
    /\ Announced("NOTIFY_STATUS_CHANGED") = Cardinality(ByAnalyst)
    /\ Cardinality(Voters) = Cardinality(Records("DECIDE"))
    /\ Announced("APPROVAL_DECIDED") = Cardinality(Voters)
    /\ Announced("APPROVAL_WORKFLOW") = Len(trail) - Cardinality(ByAnalyst)

\* A draft becomes at most one ticket, is SUBMITTED exactly when it did, and the ticket is
\* made from the very version its reporter confirmed.  What was found ready for review
\* stays complete until it is edited, so that validating it again at submission refuses
\* nothing, and the ticket carries complete answers in normal form and nothing that does
\* not apply (update_draft, validate_draft, submit).
OneTicketPerDraft ==
    /\ tally.tickets <= 1
    /\ tally.tickets = 1 <=> draft.status = "SUBMITTED"
    /\ \A k \in Records("SUBMIT") : idem[Record("SUBMIT", k)].cmd.ver = ticket.form
    /\ draft.status = "READY_FOR_REVIEW" => Complete(draft)
    /\ ticket.status # "NONE" =>
         /\ Rejected(ticket.values, TRUE) = {}
         /\ ticket.values = Persisted(Normalized(ticket.values))

\* The recorded transitions are a path of the workflow from NEW to the ticket's status, the
\* assignment history is a chain from nobody to its holder, the version counts both, and a
\* ticket is stamped as resolved and closed exactly while it is.
TrailIsPath ==
    /\ \A i \in 1 .. Len(trail) : trail[i].from = (IF i = 1 THEN "NEW" ELSE trail[i - 1].to)
    /\ \A i \in 1 .. Len(history) :
         history[i].from = (IF i = 1 THEN Unassigned ELSE history[i - 1].to)
    /\ ticket.status # "NONE" =>
         /\ ticket.status = IF trail = <<>> THEN "NEW" ELSE trail[Len(trail)].to
         /\ ticket.holder = IF history = <<>> THEN Unassigned ELSE history[Len(history)].to
         /\ ticket.ver = 1 + Len(trail) + Len(history)
         /\ "resolved_at" \in ticket.filled <=> ticket.status \in {"RESOLVED", "CLOSED"}
         /\ "closed_at" \in ticket.filled <=> ticket.status = "CLOSED"

\* A ticket waits for approval exactly while its approval is undecided, so it goes on
\* only by the verdict of its approvers, in the transaction that reaches it.
ApprovalGatesTicket ==
    ticket.status = "AWAITING_APPROVAL" <=> approval.status \in {"PENDING", "EXPIRED"}

\* The status of the approval is the one the votes of those it asked call for: no verdict
\* too early and none overdue, however the votes interleave; nobody else votes.
VerdictMatchesVotes ==
    LET all(v) == approval.asked # {} /\ \A a \in approval.asked : approval.votes[a] = v
        one(v) == \E a \in approval.asked : approval.votes[a] = v
        approved == IF approval.mode \in AnyOne THEN one("APPROVED") ELSE all("APPROVED")
        rejected == IF approval.mode \in AnyOne THEN all("REJECTED") ELSE one("REJECTED")
    IN  /\ approval.status = "APPROVED" <=> approved
        /\ approval.status = "REJECTED" <=> rejected
        /\ Voters \subseteq approval.asked

\* Two transactions never wait for each other's locks.
BlockedOn(s) ==
    IF Waiting(s) THEN {Wanted(s)}
    ELSE IF Deciding(s) /\ (Overdue \/ Decidable(s)) THEN {TicketRow} ELSE {}

NoLockCycle ==
    \A s, t \in Slots : s # t =>
        ~(BlockedOn(s) \cap LocksOf(t) # {} /\ BlockedOn(t) \cap LocksOf(s) # {})

=============================================================================
