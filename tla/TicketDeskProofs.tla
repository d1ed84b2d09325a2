--------------------------- MODULE TicketDeskProofs ---------------------------
(***************************************************************************)
(* A ticket waits exactly while its approval is undecided, the verdict is  *)
(* the one the votes call for, two commands never wait for each other, the *)
(* recorded transitions and assignments lead to the ticket as it is, a     *)
(* draft becomes one ticket, and every completed command has its rows and  *)
(* facts once: for any API workers, approvers, modes, forms, routing rules *)
(* and clients.                                                            *)
(***************************************************************************)
EXTENDS TicketDesk, FiniteSetTheorems, SequenceTheorems, TLAPS

Ops == KeyedOps \cup DraftOps
Votes == {"NONE", "APPROVED", "REJECTED"}

\* What a record consists of, whatever its untyped fields hold.
IsSlot(e) == e \in [cmd : {e.cmd}, key : {e.key}, held : Nat, seen : {e.seen}]
IsDraft(d) == d \in [status : {d.status}, ver : Nat, values : {d.values}, level : {d.level}]
IsTicket(t) == t \in [status : {t.status}, ver : {t.ver}, form : {t.form}, values : {t.values},
                      priority : {t.priority}, holder : {t.holder}, filled : {t.filled}]

\* A worker holds a prefix of the locks its command takes.
SlotTypes ==
    /\ slot = [s \in Slots |-> slot[s]]
    /\ \A s \in Slots :
         /\ IsSlot(slot[s])
         /\ ~Idle(s) => Cmd(s).op \in Ops /\ slot[s].held <= Len(Plan(s))

RowTypes ==
    /\ IsDraft(draft) /\ IsTicket(ticket)
    /\ approval \in [status : {"NONE", "PENDING", "EXPIRED", "APPROVED", "REJECTED"}, ver : Nat,
                     mode : Modes \cup {"-"}, due : BOOLEAN, asked : SUBSET Approvers,
                     votes : [Approvers -> Votes]]

\* Versions only grow, so what a command saw under its lock is what is there
\* as long as the version is.
AsSeen(s, row) ==
    /\ Seen(s).ver \in Nat /\ Seen(s).ver <= row.ver
    /\ Seen(s).ver = row.ver => Seen(s).status = row.status

Current ==
    \A s \in Slots : Ready(s) =>
        /\ Cmd(s).op \in DraftOps \cup {"SUBMIT"} => AsSeen(s, draft)
        /\ Cmd(s).op = "DECIDE" => AsSeen(s, approval)

\* A ticket comes of a submitted draft, and an approval of a ticket past NEW.
Stages ==
    /\ draft.status # "SUBMITTED" => ticket.status = "NONE"
    /\ ticket.status \in {"NONE", "NEW"} => approval.status = "NONE"
    /\ approval.status = "NONE" => approval.ver = 0

IInv == SlotTypes /\ RowTypes /\ Current /\ Stages /\ ApprovalGatesTicket /\ VerdictMatchesVotes

-----------------------------------------------------------------------------
(* Locks                                                                   *)

\* The locks of each operation.
LEMMA Plans ==
  ASSUME NEW op \in Ops, NEW key
  PROVE  /\ op \in DraftOps => LockPlan(op, key) = <<DraftRow>>
         /\ op = "SUBMIT" => LockPlan(op, key) = <<Record(op, key), DraftRow>>
         /\ op = "COMMENT" => LockPlan(op, key) = <<TicketRow, Record(op, key)>>
         /\ op = "DECIDE" => LockPlan(op, key) = <<Record(op, key), ApprovalRow>>
         /\ op \in {"TRANSITION", "ROUTE", "MANUAL"} =>
              LockPlan(op, key) = <<Record(op, key), TicketRow>>
         /\ Len(LockPlan(op, key)) = IF op \in DraftOps THEN 1 ELSE 2
  BY DEF Ops, KeyedOps, DraftOps, LockPlan

\* Their number, and the last one, which is the row that a draft command, a
\* submission and a decision check.
LEMMA PlanLength ==
  ASSUME NEW op \in Ops, NEW key
  PROVE  Len(LockPlan(op, key)) = IF op \in DraftOps THEN 1 ELSE 2
  BY Plans, Zenon

LEMMA LastLock ==
  ASSUME NEW op \in Ops, NEW key
  PROVE  LET plan == LockPlan(op, key) IN
         /\ op \in DraftOps \cup {"SUBMIT"} => plan[Len(plan)] = DraftRow
         /\ op = "DECIDE" => plan[Len(plan)] = ApprovalRow
  <1>1. CASE op \in DraftOps
    <2>1. LockPlan(op, key) = <<DraftRow>> /\ op # "DECIDE"
      BY <1>1, Plans DEF DraftOps
    <2>2. QED
      BY <2>1
  <1>2. CASE op = "SUBMIT"
    <2>1. LockPlan(op, key) = <<Record(op, key), DraftRow>>
      BY <1>2, Plans
    <2>2. QED
      BY <1>2, <2>1
  <1>3. CASE op = "DECIDE"
    <2>1. LockPlan(op, key) = <<Record(op, key), ApprovalRow>> /\ op \notin DraftOps \cup {"SUBMIT"}
      BY <1>3, Plans DEF DraftOps
    <2>2. QED
      BY <1>3, <2>1
  <1>4. QED
    BY <1>1, <1>2, <1>3

\* A record of an idempotency key is not one of the three rows.
LEMMA RecordsAndRows ==
  ASSUME NEW op \in KeyedOps, NEW key
  PROVE  Record(op, key) \notin RowLocks
  BY DEF KeyedOps, Record, RowLocks, DraftRow, TicketRow, ApprovalRow

\* What a command that holds a lock and waits for another holds and waits for.
LEMMA HoldAndWait ==
  ASSUME SlotTypes, NEW s \in Slots, BlockedOn(s) # {}, LocksOf(s) # {}
  PROVE  \E op \in KeyedOps : \E key :
           \/ /\ op = "COMMENT" /\ BlockedOn(s) = {Record(op, key)} /\ LocksOf(s) = {TicketRow}
           \/ /\ op # "COMMENT" /\ BlockedOn(s) \subseteq RowLocks /\ LocksOf(s) = {Record(op, key)}
           \/ /\ op = "DECIDE" /\ BlockedOn(s) = {TicketRow}
              /\ LocksOf(s) = {Record(op, key), ApprovalRow}
  <1> DEFINE op == Cmd(s).op
             key == slot[s].key
  <1>1. ~Idle(s) /\ op \in Ops /\ slot[s].held \in Nat /\ slot[s].held <= Len(Plan(s))
    BY DEF SlotTypes, LocksOf, IsSlot
  <1>2. Plan(s) = LockPlan(op, key)
    BY DEF Plan, Cmd
  <1>3. slot[s].held > 0
    BY <1>1 DEF LocksOf
  <1>4. CASE Waiting(s)
    <2>1. Len(Plan(s)) = 2 /\ slot[s].held = 1 /\ op \in KeyedOps
      <3>1. Len(Plan(s)) = IF op \in DraftOps THEN 1 ELSE 2
        BY <1>1, <1>2, PlanLength
      <3>2. slot[s].held < Len(Plan(s))
        BY <1>4 DEF Waiting
      <3>3. QED
        BY <1>1, <1>3, <3>1, <3>2 DEF Ops
    <2>2. LocksOf(s) = {Plan(s)[1]} /\ BlockedOn(s) = {Plan(s)[2]}
      <3>1. 1 .. slot[s].held = {1} /\ slot[s].held + 1 = 2
        BY <2>1
      <3>2. LocksOf(s) = {Plan(s)[i] : i \in {1}}
        BY <1>1, <3>1 DEF LocksOf
      <3>3. QED
        BY <1>4, <3>1, <3>2 DEF BlockedOn, Wanted
    <2>3. CASE op = "COMMENT"
      BY <1>1, <1>2, <2>1, <2>2, <2>3, Plans
    <2>4. CASE op # "COMMENT"
      <3>1. Plan(s)[1] = Record(op, key) /\ Plan(s)[2] \in RowLocks
        BY <1>1, <1>2, <2>1, <2>4, Plans DEF KeyedOps, RowLocks
      <3>2. QED
        BY <2>1, <2>2, <2>4, <3>1
    <2>5. QED
      BY <2>3, <2>4
  <1>5. CASE ~Waiting(s)
    <2>1. Deciding(s) /\ BlockedOn(s) = {TicketRow}
      BY <1>5 DEF BlockedOn
    <2>2. op = "DECIDE" /\ Plan(s) = <<Record(op, key), ApprovalRow>> /\ slot[s].held = 2
      BY <1>1, <1>2, <2>1, Plans DEF Deciding, Ready
    <2>3. LocksOf(s) = {Record(op, key), ApprovalRow}
      <3>1. 1 .. slot[s].held = {1, 2}
        BY <2>2
      <3>2. LocksOf(s) = {Plan(s)[i] : i \in {1, 2}}
        BY <1>1, <3>1 DEF LocksOf
      <3>3. QED
        BY <2>2, <3>2
    <2>4. QED
      BY <2>1, <2>2, <2>3 DEF KeyedOps
  <1>6. QED
    BY <1>4, <1>5

LEMMA NoCycle == SlotTypes => NoLockCycle
  <1> SUFFICES ASSUME SlotTypes, NEW s \in Slots, NEW t \in Slots, s # t,
                      BlockedOn(s) \cap LocksOf(t) # {}, BlockedOn(t) \cap LocksOf(s) # {}
               PROVE  FALSE
    BY DEF NoLockCycle
  <1>1. PICK op, key :
           /\ op \in KeyedOps
           /\ \/ op = "COMMENT" /\ BlockedOn(s) = {Record(op, key)} /\ LocksOf(s) = {TicketRow}
              \/ op # "COMMENT" /\ BlockedOn(s) \subseteq RowLocks /\ LocksOf(s) = {Record(op, key)}
              \/ /\ op = "DECIDE" /\ BlockedOn(s) = {TicketRow}
                 /\ LocksOf(s) = {Record(op, key), ApprovalRow}
    BY HoldAndWait
  <1>2. PICK oq, kez :
           /\ oq \in KeyedOps
           /\ \/ oq = "COMMENT" /\ BlockedOn(t) = {Record(oq, kez)} /\ LocksOf(t) = {TicketRow}
              \/ oq # "COMMENT" /\ BlockedOn(t) \subseteq RowLocks /\ LocksOf(t) = {Record(oq, kez)}
              \/ /\ oq = "DECIDE" /\ BlockedOn(t) = {TicketRow}
                 /\ LocksOf(t) = {Record(oq, kez), ApprovalRow}
    BY HoldAndWait
  <1>3. /\ Record(op, key) \notin RowLocks /\ Record(oq, kez) \notin RowLocks
        /\ Record(op, key) = Record(oq, kez) => op = oq
        /\ TicketRow # ApprovalRow /\ {TicketRow, ApprovalRow} \subseteq RowLocks
    BY <1>1, <1>2, RecordsAndRows DEF Record, TicketRow, ApprovalRow, RowLocks
  <1> HIDE DEF Record, TicketRow, ApprovalRow, RowLocks
  <1>4. QED
    BY <1>1, <1>2, <1>3

-----------------------------------------------------------------------------
(* Slots                                                                   *)

\* What clients think of is a command.
LEMMA PlausibleOps == \A c \in Plausible : c.op \in Ops
  BY DEF Plausible, DraftCommands, TicketCommands, VoteCommands, Command, Ops, KeyedOps, DraftOps

\* A transaction ends or begins: its worker holds no lock.
LEMMA SlotReset ==
  ASSUME SlotTypes, NEW s \in Slots, NEW e, slot' = [slot EXCEPT ![s] = e],
         IsSlot(e), e.held = 0,
         e.cmd = NoCommand \/ e.cmd.op \in Ops
  PROVE  SlotTypes' /\ \A t \in Slots : Ready(t)' => Ready(t) /\ slot'[t] = slot[t]
  <1>1. /\ slot' = [t \in Slots |-> slot'[t]]
        /\ slot'[s] = e /\ \A t \in Slots \ {s} : slot'[t] = slot[t]
    BY DEF SlotTypes
  <1>2. \A t \in Slots \ {s} : /\ Ready(t)' <=> Ready(t)
                               /\ Idle(t)' <=> Idle(t)
                               /\ Cmd(t)' = Cmd(t) /\ Plan(t)' = Plan(t)
    BY <1>1 DEF Ready, Idle, Cmd, Plan
  <1>3. ~Idle(s)' => Cmd(s)' \in {e.cmd} /\ e.cmd.op \in Ops /\ Plan(s)' = LockPlan(e.cmd.op, e.key)
    BY <1>1 DEF Idle, Cmd, Plan
  <1>4. ~Idle(s)' => Len(Plan(s)') \in {1, 2}
    BY <1>3, Plans
  <1>5. ~Ready(s)'
    BY <1>1, <1>4 DEF Ready
  <1>6. SlotTypes'
    BY <1>1, <1>2, <1>3, <1>4 DEF SlotTypes, IsSlot
  <1>7. QED
    BY <1>1, <1>2, <1>5, <1>6

LEMMA ReleaseReset ==
  ASSUME SlotTypes, NEW s \in Slots, Release(s)
  PROVE  SlotTypes' /\ \A t \in Slots : Ready(t)' => Ready(t) /\ slot'[t] = slot[t]
  <1>1. IsSlot(Empty) /\ Empty.held = 0 /\ Empty.cmd = NoCommand
    BY DEF Empty, IsSlot
  <1>2. QED
    BY <1>1, SlotReset DEF Release

\* What stays as seen: the versions of draft and approval only grow.
LEMMA CurrentKept ==
  ASSUME Current, RowTypes, draft'.ver \in Nat, approval'.ver \in Nat,
         \A t \in Slots : Ready(t)' => Ready(t) /\ slot'[t] = slot[t],
         \/ draft'.ver = draft.ver /\ draft'.status = draft.status
         \/ draft'.ver > draft.ver,
         \/ approval'.ver = approval.ver /\ approval'.status = approval.status
         \/ approval'.ver > approval.ver
  PROVE  Current'
  <1>1. draft.ver \in Nat /\ approval.ver \in Nat
    BY DEF RowTypes, IsDraft
  <1>2. SUFFICES ASSUME NEW t \in Slots, Ready(t)'
                 PROVE  /\ Cmd(t)'.op \in DraftOps \cup {"SUBMIT"} => AsSeen(t, draft)'
                        /\ Cmd(t)'.op = "DECIDE" => AsSeen(t, approval)'
    BY DEF Current
  <1>3. Ready(t) /\ Cmd(t)' = Cmd(t) /\ Seen(t)' = Seen(t)
    BY <1>2 DEF Cmd, Seen
  <1>4. /\ Cmd(t).op \in DraftOps \cup {"SUBMIT"} => AsSeen(t, draft)
        /\ Cmd(t).op = "DECIDE" => AsSeen(t, approval)
    BY <1>3 DEF Current
  <1>5. AsSeen(t, draft) => AsSeen(t, draft)'
    BY <1>1, <1>3 DEF AsSeen
  <1>6. AsSeen(t, approval) => AsSeen(t, approval)'
    BY <1>1, <1>3 DEF AsSeen
  <1>7. QED
    BY <1>3, <1>4, <1>5, <1>6

\* A step that changes none of the three rows.
LEMMA RowsKept ==
  ASSUME IInv, UNCHANGED <<draft, ticket, approval>>, SlotTypes', Current'
  PROVE  IInv'
  BY DEF IInv, RowTypes, Stages, ApprovalGatesTicket, VerdictMatchesVotes, Voters

\* A transaction ends without changing them, or a new one begins.
LEMMA QuietIInv ==
  ASSUME IInv, NEW s \in Slots, UNCHANGED <<draft, ticket, approval>>,
         SlotTypes', \A t \in Slots : Ready(t)' => Ready(t) /\ slot'[t] = slot[t]
  PROVE  IInv'
  BY CurrentKept, RowsKept DEF IInv, RowTypes, IsDraft

LEMMA Opening ==
  ASSUME NEW s \in Slots, Send(s) \/ Repeat(s)
  PROVE  \E c, k : Open(s, c, k) /\ c.op \in Ops
  <1>1. CASE Send(s)
    BY <1>1, PlausibleOps DEF Send
  <1>2. CASE Repeat(s)
    <2>1. PICK k \in 1 .. Len(sent) :
            /\ sent[k].op \in KeyedOps
            /\ \E c \in {sent[k]} \cup {p \in Plausible : p.op \in {sent[k].op, "COMMENT"}} :
                  Open(s, c, k)
      BY <1>2 DEF Repeat
    <2>2. PICK c \in {sent[k]} \cup {p \in Plausible : p.op \in {sent[k].op, "COMMENT"}} :
                  Open(s, c, k)
      BY <2>1
    <2>3. c.op \in Ops
      BY <2>1, <2>2, PlausibleOps DEF Ops
    <2>4. QED
      BY <2>2, <2>3
  <1>3. QED
    BY <1>1, <1>2

LEMMA BeginIInv ==
  ASSUME IInv, NEW s \in Slots, Send(s) \/ Repeat(s)
  PROVE  IInv'
  <1>2. PICK c, k : Open(s, c, k) /\ c.op \in Ops
    BY Opening
  <1> DEFINE e == [Empty EXCEPT !.cmd = c, !.key = k]
  <1>3. slot' = [slot EXCEPT ![s] = e] /\ IsSlot(e) /\ e.cmd = c /\ e.held = 0
    BY <1>2 DEF Open, Empty, IsSlot
  <1> HIDE DEF e
  <1>4. SlotTypes' /\ \A t \in Slots : Ready(t)' => Ready(t) /\ slot'[t] = slot[t]
    BY <1>2, <1>3, SlotReset DEF IInv
  <1>5. UNCHANGED <<draft, ticket, approval>>
    BY DEF Send, Repeat
  <1>6. QED
    BY <1>4, <1>5, QuietIInv

LEMMA EndIInv ==
  ASSUME IInv, NEW s \in Slots, Release(s), UNCHANGED <<draft, ticket, approval>>
  PROVE  IInv'
  BY ReleaseReset, QuietIInv DEF IInv

\* A transaction takes its next lock, and sees the row if it is one.
LEMMA TakeLock ==
  ASSUME IInv, NEW s \in Slots, Waiting(s), UNCHANGED <<draft, ticket, approval>>, NEW e,
         slot' = [slot EXCEPT ![s] = e], IsSlot(e), e.cmd = slot[s].cmd, e.key = slot[s].key,
         e.held = slot[s].held + 1, Wanted(s) \in RowLocks => e.seen = Row(Wanted(s))
  PROVE  IInv'
  <1>1. /\ slot' = [t \in Slots |-> slot'[t]]
        /\ slot'[s] = e
        /\ \A t \in Slots \ {s} : slot'[t] = slot[t]
    BY DEF IInv, SlotTypes
  <1>2. \A t \in Slots : Idle(t)' = Idle(t) /\ Cmd(t)' = Cmd(t) /\ Plan(t)' = Plan(t)
    BY <1>1 DEF Idle, Cmd, Plan
  <1>3. /\ ~Idle(s) /\ Cmd(s).op \in Ops /\ slot[s].held \in Nat
        /\ slot[s].held < Len(Plan(s)) /\ Plan(s) = LockPlan(Cmd(s).op, slot[s].key)
    BY DEF IInv, SlotTypes, Waiting, Plan, Cmd, IsSlot
  <1>4. Len(Plan(s)) \in {1, 2}
    BY <1>3, Plans
  <1>5. SlotTypes'
    BY <1>1, <1>2, <1>3, <1>4 DEF IInv, SlotTypes
  <1>6. ASSUME Ready(s)'
        PROVE  /\ Cmd(s).op \in DraftOps \cup {"SUBMIT"} => AsSeen(s, draft)'
               /\ Cmd(s).op = "DECIDE" => AsSeen(s, approval)'
    <2>1. slot[s].held + 1 = Len(Plan(s)) /\ Seen(s)' = e.seen
      BY <1>1, <1>2, <1>6 DEF Ready, Seen
    <2>2. Wanted(s) = Plan(s)[Len(Plan(s))]
      BY <2>1 DEF Wanted
    <2>3. ASSUME Cmd(s).op \in DraftOps \cup {"SUBMIT"} PROVE AsSeen(s, draft)'
      <3>1. Wanted(s) = DraftRow
        BY <1>3, <2>2, <2>3, LastLock
      <3>2. e.seen = [status |-> draft.status, ver |-> draft.ver]
        BY <3>1 DEF Row, RowLocks
      <3>3. QED
        BY <2>1, <3>2 DEF AsSeen, IInv, RowTypes, IsDraft
    <2>4. ASSUME Cmd(s).op = "DECIDE" PROVE AsSeen(s, approval)'
      <3>1. Wanted(s) = ApprovalRow
        BY <1>3, <2>2, <2>4, LastLock
      <3>2. e.seen = [status |-> approval.status, ver |-> approval.ver]
        BY <3>1 DEF Row, RowLocks, DraftRow, TicketRow, ApprovalRow
      <3>3. QED
        BY <2>1, <3>2 DEF AsSeen, IInv, RowTypes, IsDraft
    <2>5. QED
      BY <2>3, <2>4
  <1>7. ASSUME NEW t \in Slots \ {s}, Ready(t)'
        PROVE  /\ Cmd(t).op \in DraftOps \cup {"SUBMIT"} => AsSeen(t, draft)'
               /\ Cmd(t).op = "DECIDE" => AsSeen(t, approval)'
    <2>1. Ready(t) /\ Seen(t)' = Seen(t)
      BY <1>1, <1>2, <1>7 DEF Ready, Seen
    <2>2. QED
      BY <2>1 DEF IInv, Current, AsSeen
  <1>8. Current'
    BY <1>2, <1>6, <1>7 DEF Current
  <1>9. QED
    BY <1>5, <1>8, RowsKept

LEMMA OneMoreLock ==
  ASSUME NEW r, IsSlot(r), NEW seen
  PROVE  LET e == [r EXCEPT !.held = @ + 1, !.seen = seen] IN
         /\ e \in [cmd : {r.cmd}, key : {r.key}, held : Nat, seen : {seen}]
         /\ e.held = r.held + 1
  <1>1. r.held + 1 \in Nat
    BY DEF IsSlot
  <1>2. QED
    BY <1>1 DEF IsSlot

LEMMA LockIInv ==
  ASSUME IInv, NEW s \in Slots, LockRow(s) \/ Claim(s)
  PROVE  IInv'
  <1>1. IsSlot(slot[s])
    BY DEF IInv, SlotTypes
  <1>2. CASE LockRow(s)
    <2> DEFINE e == [slot[s] EXCEPT !.held = @ + 1, !.seen = Row(Wanted(s))]
    <2>1. slot' = [slot EXCEPT ![s] = e]
      BY <1>2 DEF LockRow, IInv, SlotTypes
    <2>2. /\ e \in [cmd : {slot[s].cmd}, key : {slot[s].key}, held : Nat,
                    seen : {Row(Wanted(s))}]
          /\ e.held = slot[s].held + 1
      BY <1>1, OneMoreLock
    <2>3. Waiting(s) /\ UNCHANGED <<draft, ticket, approval>>
      BY <1>2 DEF LockRow
    <2> HIDE DEF e
    <2>4. IsSlot(e) /\ e.cmd = slot[s].cmd /\ e.key = slot[s].key /\ e.seen = Row(Wanted(s))
      BY <2>2 DEF IsSlot
    <2>5. QED
      BY <2>1, <2>2, <2>3, <2>4, TakeLock
  <1>3. CASE Claim(s) /\ Release(s)
    BY <1>3, EndIInv DEF Claim
  <1>4. CASE Claim(s) /\ ~Release(s)
    <2> DEFINE e == [slot[s] EXCEPT !.held = @ + 1]
    <2>1. slot' = [slot EXCEPT ![s] = e]
      BY <1>4 DEF Claim, IInv, SlotTypes
    <2>2. /\ IsSlot(e) /\ e.cmd = slot[s].cmd /\ e.key = slot[s].key
          /\ e.held = slot[s].held + 1
      BY <1>1 DEF IsSlot
    <2>3. Waiting(s) /\ Wanted(s) \notin RowLocks /\ UNCHANGED <<draft, ticket, approval>>
      BY <1>4 DEF Claim
    <2> HIDE DEF e
    <2>4. QED
      BY <2>1, <2>2, <2>3, TakeLock
  <1>5. QED
    BY <1>2, <1>3, <1>4

-----------------------------------------------------------------------------
(* Drafts and the ticket                                                   *)

\* A command on the draft, the ticket or the approval ends: what is left to
\* show is about the rows.
LEMMA CommandIInv ==
  ASSUME IInv, NEW s \in Slots, Release(s), RowTypes',
         \/ draft'.ver = draft.ver /\ draft'.status = draft.status
         \/ draft'.ver > draft.ver,
         \/ approval'.ver = approval.ver /\ approval'.status = approval.status
         \/ approval'.ver > approval.ver,
         Stages', ApprovalGatesTicket', VerdictMatchesVotes'
  PROVE  IInv'
  <1>1. draft'.ver \in Nat /\ approval'.ver \in Nat
    BY DEF RowTypes, IsDraft
  <1>2. SlotTypes' /\ \A t \in Slots : Ready(t)' => Ready(t) /\ slot'[t] = slot[t]
    BY ReleaseReset DEF IInv
  <1>3. Current'
    BY <1>1, <1>2, CurrentKept DEF IInv
  <1>4. QED
    BY <1>2, <1>3 DEF IInv

\* An open draft gets another version, and stays unsubmitted.
LEMMA DraftIInv ==
  ASSUME IInv, NEW s \in Slots, Release(s), UNCHANGED <<ticket, approval>>,
         IsDraft(draft'), draft'.ver = draft.ver + 1, draft.status \in OpenDraft
  PROVE  IInv'
  <1>1. draft.ver \in Nat /\ draft.status # "SUBMITTED"
    BY DEF IInv, RowTypes, IsDraft, OpenDraft
  <1>2. RowTypes'
    BY DEF IInv, RowTypes
  <1>3. Stages'
    BY <1>1 DEF IInv, Stages
  <1>4. ApprovalGatesTicket' /\ VerdictMatchesVotes'
    BY DEF IInv, ApprovalGatesTicket, VerdictMatchesVotes, Voters
  <1>5. QED
    BY <1>1, <1>2, <1>3, <1>4, CommandIInv

LEMMA NextDraft ==
  ASSUME NEW d, IsDraft(d), NEW status
  PROVE  LET e == [d EXCEPT !.status = status, !.ver = @ + 1] IN
         IsDraft(e) /\ e.ver = d.ver + 1 /\ e.status = status /\ d.ver \in Nat
  <1> DEFINE e == [d EXCEPT !.status = status, !.ver = @ + 1]
  <1>1. d.ver \in Nat /\ d.ver + 1 \in Nat
    BY DEF IsDraft
  <1>2. e \in [status : {status}, ver : {d.ver + 1}, values : {d.values}, level : {d.level}]
    BY DEF IsDraft
  <1> HIDE DEF e
  <1>3. IsDraft(e) /\ e.ver = d.ver + 1 /\ e.status = status
    BY <1>1, <1>2 DEF IsDraft
  <1>4. QED
    BY <1>1, <1>3 DEF e

LEMMA RevisedDraft ==
  ASSUME NEW d, IsDraft(d), NEW n
  PROVE  IsDraft(Revised(d, n)) /\ Revised(d, n).ver = d.ver + 1
  <1> DEFINE values == Entered(n)
             level == Answers[n].level
  <1>1. d.ver \in Nat /\ d.ver + 1 \in Nat
    BY DEF IsDraft
  <1>2. Revised(d, n) = [d EXCEPT !.status = "DRAFT", !.ver = @ + 1, !.values = values,
                                  !.level = level]
    BY DEF Revised
  <1> HIDE DEF values, level
  <1>3. Revised(d, n) \in [status : {"DRAFT"}, ver : {d.ver + 1}, values : {values},
                           level : {level}]
    BY <1>2 DEF IsDraft
  <1>4. QED
    BY <1>1, <1>3 DEF IsDraft

LEMMA DraftCommandsIInv ==
  ASSUME IInv, NEW s \in Slots, EditDraft(s) \/ ValidateDraft(s) \/ CancelDraft(s)
  PROVE  IInv'
  <1>1. IsDraft(draft)
    BY DEF IInv, RowTypes
  <1>2. ASSUME NEW status, SetDraft(s, status) PROVE IInv'
    <2>1. draft' = [draft EXCEPT !.status = status, !.ver = @ + 1]
      BY <1>2 DEF SetDraft
    <2>2. IsDraft(draft') /\ draft'.ver = draft.ver + 1
      BY <1>1, <2>1, NextDraft
    <2>3. Release(s) /\ UNCHANGED <<ticket, approval>> /\ draft.status \in OpenDraft
      BY <1>2 DEF SetDraft
    <2>4. QED
      BY <2>2, <2>3, DraftIInv
  <1>3. CASE EditDraft(s)
    <2> DEFINE n == Cmd(s).arg
    <2>1. draft' = Revised(draft, n) /\ Release(s) /\ UNCHANGED <<ticket, approval>>
      BY <1>3 DEF EditDraft
    <2>2. IsDraft(draft') /\ draft'.ver = draft.ver + 1
      BY <1>1, <2>1, RevisedDraft
    <2> HIDE DEF n
    <2>4. AsSeen(s, draft)
      BY <1>3 DEF EditDraft, IInv, Current, DraftOps
    <2>5. draft.status \in OpenDraft
      BY <1>3, <2>4 DEF EditDraft, Fresh, AsSeen
    <2>6. QED
      BY <2>1, <2>2, <2>5, DraftIInv
  <1>4. QED
    BY <1>2, <1>3 DEF ValidateDraft, CancelDraft

\* finish_submission: the one draft that is not yet submitted has no ticket.
LEMMA SubmitIInv ==
  ASSUME IInv, NEW s \in Slots, Submit(s)
  PROVE  IInv'
  <1>1. draft.status # "SUBMITTED" /\ ticket.status = "NONE" /\ approval.status = "NONE"
    BY DEF Submit, Submitted, IInv, Stages
  <1>2. IsDraft(draft') /\ draft'.ver = draft.ver + 1 /\ draft'.status = "SUBMITTED"
        /\ draft.ver \in Nat
    <2>1. draft' = [draft EXCEPT !.status = "SUBMITTED", !.ver = @ + 1] /\ IsDraft(draft)
      BY DEF Submit, Submitted, IInv, RowTypes
    <2>2. QED
      BY <2>1, NextDraft
  <1>3. IsTicket(ticket') /\ ticket'.status = "NEW"
    <2> DEFINE values == Persisted(Normalized(draft.values))
               priority == Priority(draft.level)
    <2>1. ticket' = [NoTicket EXCEPT !.status = "NEW", !.ver = 1, !.form = draft.ver,
                                     !.values = values, !.priority = priority]
      BY DEF Submit, CreateTicket
    <2> HIDE DEF values, priority
    <2>2. ticket' \in [status : {"NEW"}, ver : {1}, form : {draft.ver}, values : {values},
                      priority : {priority}, holder : {Unassigned}, filled : {{}}]
      BY <2>1 DEF NoTicket
    <2>3. QED
      BY <2>2 DEF IsTicket
  <1>4. Release(s) /\ approval' = approval
    BY DEF Submit
  <1>5. RowTypes'
    BY <1>2, <1>3, <1>4 DEF IInv, RowTypes
  <1>6. Stages'
    BY <1>1, <1>2, <1>3, <1>4 DEF IInv, Stages
  <1>7. ApprovalGatesTicket' /\ VerdictMatchesVotes'
    BY <1>1, <1>3, <1>4 DEF IInv, ApprovalGatesTicket, VerdictMatchesVotes, Voters
  <1>8. QED
    BY <1>2, <1>4, <1>5, <1>6, <1>7, CommandIInv

\* route, assign and comment leave status, draft and approval alone.
LEMMA AssignIInv ==
  ASSUME IInv, NEW s \in Slots, Route(s) \/ AssignManual(s)
  PROVE  IInv'
  <1>1. PICK holder, by : AssignTo(s, holder, by)
    BY DEF Route, AssignManual
  <1>2. IsTicket(ticket)
    BY DEF IInv, RowTypes
  <1>3. ticket' \in [status : {ticket.status}, ver : {ticket.ver + 1}, form : {ticket.form},
                    values : {ticket.values}, priority : {ticket.priority}, holder : {holder},
                    filled : {ticket.filled}]
    BY <1>1, <1>2 DEF AssignTo, IsTicket
  <1>4. IsTicket(ticket') /\ ticket'.status = ticket.status
    BY <1>3 DEF IsTicket
  <1>5. Release(s) /\ UNCHANGED <<draft, approval>>
    BY <1>1 DEF AssignTo
  <1>6. RowTypes'
    BY <1>4, <1>5 DEF IInv, RowTypes
  <1>7. Stages' /\ ApprovalGatesTicket' /\ VerdictMatchesVotes'
    BY <1>4, <1>5 DEF IInv, Stages, ApprovalGatesTicket, VerdictMatchesVotes, Voters
  <1>8. QED
    BY <1>5, <1>6, <1>7, CommandIInv

-----------------------------------------------------------------------------
(* Votes                                                                   *)

\* Among the approvers asked, a count is full when all of them voted so, and
\* not zero when one of them did.
LEMMA CountAll ==
  ASSUME NEW asked \in SUBSET Approvers, NEW votes \in [Approvers -> Votes], NEW v,
         \A a \in Approvers : votes[a] = v => a \in asked
  PROVE  /\ Count(votes, v) \in Nat /\ Cardinality(asked) \in Nat
         /\ Count(votes, v) = Cardinality(asked) <=> \A a \in asked : votes[a] = v
         /\ Count(votes, v) > 0 <=> \E a \in asked : votes[a] = v
  <1> DEFINE A == {a \in Approvers : votes[a] = v}
  <1>1. A \in SUBSET asked /\ IsFiniteSet(asked) /\ IsFiniteSet(A)
    <2>1. IsFiniteSet(asked)
      BY DeskAssumption, FS_Subset
    <2>2. A \in SUBSET asked
      OBVIOUS
    <2>3. QED
      BY <2>1, <2>2, FS_Subset
  <1>2. Cardinality(A) \in Nat /\ Cardinality(asked) \in Nat
    BY <1>1, FS_CardinalityType
  <1>3. Cardinality(A) = Cardinality(asked) <=> A = asked
    BY <1>1, FS_Subset
  <1>4. Cardinality(A) = 0 <=> A = {}
    BY <1>1, FS_EmptySet
  <1>5. A = asked <=> \A a \in asked : votes[a] = v
    OBVIOUS
  <1>6. A # {} <=> \E a \in asked : votes[a] = v
    OBVIOUS
  <1>7. Count(votes, v) = Cardinality(A)
    BY DEF Count
  <1> HIDE DEF A
  <1>8. QED
    BY <1>2, <1>3, <1>4, <1>5, <1>6, <1>7

\* One more vote counts once.
LEMMA CountOneMore ==
  ASSUME NEW votes \in [Approvers -> Votes], NEW a \in Approvers, votes[a] = "NONE",
         NEW v \in {"APPROVED", "REJECTED"}, NEW x \in {"APPROVED", "REJECTED"}
  PROVE  Count([votes EXCEPT ![a] = v], x) = Count(votes, x) + (IF v = x THEN 1 ELSE 0)
  <1> DEFINE A == {b \in Approvers : votes[b] = x}
             B == {b \in Approvers : [votes EXCEPT ![a] = v][b] = x}
  <1>1. IsFiniteSet(A)
    BY DeskAssumption, FS_Subset
  <1>2. CASE v = x
    <2>1. B = A \cup {a} /\ a \notin A
      BY <1>2
    <2>2. Cardinality(B) = Cardinality(A) + 1
      BY <1>1, <2>1, FS_AddElement
    <2>3. QED
      BY <1>2, <2>2 DEF Count
  <1>3. CASE v # x
    <2>1. B = A
      BY <1>3
    <2>2. Cardinality(A) \in Nat
      BY <1>1, FS_CardinalityType
    <2>3. QED
      BY <1>3, <2>1, <2>2 DEF Count
  <1>4. QED
    BY <1>2, <1>3

\* The status that the votes of those asked call for.
Matches(status, mode, asked, votes) ==
    LET all(v) == asked # {} /\ \A a \in asked : votes[a] = v
        one(v) == \E a \in asked : votes[a] = v
        approved == IF mode \in AnyOne THEN one("APPROVED") ELSE all("APPROVED")
        rejected == IF mode \in AnyOne THEN all("REJECTED") ELSE one("REJECTED")
    IN  /\ status = "APPROVED" <=> approved
        /\ status = "REJECTED" <=> rejected

LEMMA VerdictMatches ==
  VerdictMatchesVotes <=>
    /\ Matches(approval.status, approval.mode, approval.asked, approval.votes)
    /\ Voters \subseteq approval.asked
  BY DEF VerdictMatchesVotes, Matches

\* The verdict on complete counts is the one the votes call for.
LEMMA VerdictOfVotes ==
  ASSUME NEW asked \in SUBSET Approvers, NEW votes \in [Approvers -> Votes], NEW mode,
         asked # {}, \A a \in Approvers : votes[a] # "NONE" => a \in asked
  PROVE  Matches(Verdict(mode, Cardinality(asked), Count(votes, "APPROVED"),
                         Count(votes, "REJECTED")), mode, asked, votes)
  <1>1. \A v \in {"APPROVED", "REJECTED"} :
          /\ Count(votes, v) \in Nat /\ Cardinality(asked) \in Nat
          /\ Count(votes, v) = Cardinality(asked) <=> \A a \in asked : votes[a] = v
          /\ Count(votes, v) > 0 <=> \E a \in asked : votes[a] = v
    BY CountAll
  <1>2. CASE mode \in AnyOne
    BY <1>1, <1>2 DEF Verdict, Matches
  <1>3. CASE mode \notin AnyOne
    BY <1>1, <1>3 DEF Verdict, Matches
  <1>4. QED
    BY <1>2, <1>3

-----------------------------------------------------------------------------
(* Transitions                                                             *)

\* Approvals are asked for in NEW only, and only a continuation leaves
\* AWAITING_APPROVAL.
LEMMA WorkflowShape ==
  \A w \in Workflow :
    /\ w.to \notin {"NONE", "NEW"} /\ w.from # "NONE"
    /\ w.kind = "request" => w.from = "NEW" /\ w.to = "AWAITING_APPROVAL"
    /\ w.kind = "continue" => w.from = "AWAITING_APPROVAL"
    /\ w.kind # "request" => w.to # "AWAITING_APPROVAL"
    /\ w.kind \notin {"request", "continue"} => w.from # "AWAITING_APPROVAL"
  BY DEF Workflow, Transition

LEMMA MoveTicket ==
  ASSUME IInv, NEW w, NEW given, Move(w, given)
  PROVE  IsTicket(ticket') /\ ticket'.status = w.to
  <1> DEFINE filled == ((ticket.filled \cup given) \ Cleared(w)) \cup Filled(w)
  <1>1. IsTicket(ticket)
    BY DEF IInv, RowTypes
  <1>2. ticket' = [ticket EXCEPT !.status = w.to, !.ver = @ + 1, !.filled = filled]
    BY <1>1 DEF Move, IsTicket
  <1> HIDE DEF filled
  <1>3. ticket' \in [status : {w.to}, ver : {ticket.ver + 1}, form : {ticket.form},
                    values : {ticket.values}, priority : {ticket.priority},
                    holder : {ticket.holder}, filled : {filled}]
    BY <1>1, <1>2 DEF IsTicket
  <1>4. QED
    BY <1>3 DEF IsTicket

LEMMA ExecuteTransitionIInv ==
  ASSUME IInv, NEW s \in Slots, ExecuteTransition(s)
  PROVE  IInv'
  <1>1. PICK w \in Workflow :
           /\ Executable(s, w) /\ Satisfied(s, w) /\ TicketUnmoved(s) /\ Move(w, Carried(s))
           /\ \/ w.kind # "request" /\ UNCHANGED approval
              \/ w.kind = "request" /\ \E m \in Modes : RequestApproval(m)
    BY DEF ExecuteTransition
  <1>2. IsTicket(ticket') /\ ticket'.status = w.to
    BY <1>1, MoveTicket
  <1>3. ticket.status = w.from /\ w.kind # "continue"
    BY <1>1 DEF Executable, TicketUnmoved
  <1>4. Release(s) /\ draft' = draft
    BY DEF ExecuteTransition
  <1>5. draft.status = "SUBMITTED"
    BY <1>3, WorkflowShape DEF IInv, Stages
  <1>6. CASE w.kind # "request"
    <2>1. approval' = approval
      BY <1>1, <1>6
    <2>2. RowTypes'
      BY <1>2, <1>4, <2>1 DEF IInv, RowTypes
    <2>3. Stages' /\ ApprovalGatesTicket' /\ VerdictMatchesVotes'
      BY <1>2, <1>3, <1>4, <1>5, <1>6, <2>1, WorkflowShape
         DEF IInv, Stages, ApprovalGatesTicket, VerdictMatchesVotes, Voters
    <2>4. QED
      BY <1>4, <2>1, <2>2, <2>3, CommandIInv
  <1>7. CASE w.kind = "request"
    <2>1. PICK m \in Modes : RequestApproval(m)
      BY <1>1, <1>7
    <2>2. PICK asked \in Resolve(m) : approval' = Requested(m, asked)
      BY <2>1 DEF RequestApproval
    <2>3. asked \in SUBSET Approvers /\ asked # {}
      BY <2>2, DeskAssumption DEF Resolve
    <2>4. /\ approval'.status = "PENDING" /\ approval'.ver = 1 /\ approval'.mode = m
          /\ approval'.asked = asked /\ approval'.votes = [a \in Approvers |-> "NONE"]
      BY <2>2 DEF Requested
    <2>5. approval.ver = 0
      BY <1>3, <1>7, WorkflowShape DEF IInv, Stages
    <2>6. RowTypes'
      BY <1>2, <1>4, <2>2, <2>3 DEF IInv, RowTypes, Requested, Votes
    <2>7. Stages' /\ ApprovalGatesTicket'
      BY <1>2, <1>4, <1>5, <1>7, <2>4, WorkflowShape DEF Stages, ApprovalGatesTicket
    <2>8. VerdictMatchesVotes'
      BY <2>3, <2>4 DEF VerdictMatchesVotes, Voters
    <2>9. QED
      BY <1>4, <2>4, <2>5, <2>6, <2>7, <2>8, CommandIInv
  <1>8. QED
    BY <1>6, <1>7

-----------------------------------------------------------------------------
(* Approvals                                                               *)

ApprovalType == [status : {"NONE", "PENDING", "EXPIRED", "APPROVED", "REJECTED"}, ver : Nat,
                 mode : Modes \cup {"-"}, due : BOOLEAN, asked : SUBSET Approvers,
                 votes : [Approvers -> Votes]]

After(p, status, votes) == [p EXCEPT !.status = status, !.ver = @ + 1, !.votes = votes]

LEMMA NextApproval ==
  ASSUME NEW p \in ApprovalType, NEW status \in {"PENDING", "EXPIRED", "APPROVED", "REJECTED"},
         NEW votes \in [Approvers -> Votes]
  PROVE  LET q == After(p, status, votes) IN
         /\ q \in ApprovalType /\ q.status = status /\ q.ver = p.ver + 1
         /\ q.mode = p.mode /\ q.asked = p.asked /\ q.votes = votes
  <1>1. p.ver + 1 \in Nat
    BY DEF ApprovalType
  <1>2. QED
    BY <1>1 DEF ApprovalType, After

LEMMA ComeDueIInv ==
  ASSUME IInv, ComeDue
  PROVE  IInv'
  <1>1. /\ approval' \in ApprovalType
        /\ approval'.status = approval.status /\ approval'.ver = approval.ver
        /\ approval'.mode = approval.mode /\ approval'.asked = approval.asked
        /\ approval'.votes = approval.votes /\ UNCHANGED <<draft, ticket, slot>>
    BY DEF ComeDue, IInv, RowTypes, ApprovalType
  <1>2. RowTypes' /\ Stages' /\ ApprovalGatesTicket' /\ VerdictMatchesVotes'
    BY <1>1 DEF IInv, RowTypes, Stages, ApprovalGatesTicket, VerdictMatchesVotes, Voters,
                ApprovalType
  <1>3. SlotTypes'
    BY <1>1 DEF IInv, SlotTypes, Idle, Cmd, Plan
  <1>4. \A t \in Slots : Ready(t)' => Ready(t) /\ slot'[t] = slot[t]
    BY <1>1 DEF Ready, Idle, Plan
  <1>5. Current'
    BY <1>1, <1>2, <1>4, CurrentKept DEF IInv, RowTypes, IsDraft, ApprovalType
  <1>6. QED
    BY <1>2, <1>3, <1>5 DEF IInv

LEMMA ExpireIInv ==
  ASSUME IInv, NEW s \in Slots, ExpireApproval(s)
  PROVE  IInv'
  <1>1. /\ approval' \in ApprovalType
        /\ approval'.status = "EXPIRED" /\ approval'.ver = approval.ver + 1
        /\ approval'.mode = approval.mode /\ approval'.asked = approval.asked
        /\ approval'.votes = approval.votes /\ UNCHANGED <<draft, ticket>>
    <2>1. approval \in ApprovalType /\ approval.votes \in [Approvers -> Votes]
      BY DEF IInv, RowTypes, ApprovalType
    <2>2. approval' = After(approval, "EXPIRED", approval.votes)
      BY <2>1 DEF ExpireApproval, ApprovalType, After
    <2>3. QED
      BY <2>1, <2>2, NextApproval DEF ExpireApproval
  <1>2. approval.status = "PENDING" /\ approval.ver \in Nat
    BY DEF ExpireApproval, Overdue, IInv, RowTypes
  <1>3. RowTypes'
    BY <1>1 DEF IInv, RowTypes, ApprovalType
  <1>4. Stages' /\ ApprovalGatesTicket' /\ VerdictMatchesVotes'
    BY <1>1, <1>2 DEF IInv, Stages, ApprovalGatesTicket, VerdictMatchesVotes, Voters
  <1>5. Release(s)
    BY DEF ExpireApproval
  <1>6. QED
    BY <1>1, <1>2, <1>3, <1>4, <1>5, CommandIInv

\* A vote that is recorded is the first of its approver, on a pending approval,
\* and the status becomes the one the votes with this one call for.
LEMMA RecordedVote ==
  ASSUME IInv, NEW s \in Slots, Deciding(s), Decidable(s), RecordDecision(s, Outcome(s))
  PROVE  /\ approval.status = "PENDING" /\ approval.ver \in Nat
         /\ approval' \in ApprovalType /\ approval'.ver = approval.ver + 1
         /\ approval'.status = Outcome(s) /\ Outcome(s) \in {"PENDING", "APPROVED", "REJECTED"}
         /\ VerdictMatchesVotes'
  <1> DEFINE a == Cmd(s).more
             v == Stored(Cmd(s).arg)
             outcome == Outcome(s)
             votes == [approval.votes EXCEPT ![a] = v]
  <1>1. /\ a \in approval.asked /\ a \in Approvers /\ approval.votes[a] = "NONE"
        /\ v \in {"APPROVED", "REJECTED"}
    BY DEF Deciding, Decidable, Stored, IInv, RowTypes
  <1>2. approval.status = "PENDING" /\ approval.ver \in Nat
    <2>1. AsSeen(s, approval)
      BY DEF Deciding, IInv, Current
    <2>2. QED
      BY <2>1 DEF Decidable, RecordDecision, AsSeen, IInv, RowTypes
  <1>3. outcome = Verdict(approval.mode, Cardinality(approval.asked),
                          Count(votes, "APPROVED"), Count(votes, "REJECTED"))
    <2>1. \A x \in {"APPROVED", "REJECTED"} :
            Count(votes, x) = Count(approval.votes, x) + (IF v = x THEN 1 ELSE 0)
      BY <1>1, CountOneMore DEF IInv, RowTypes
    <2>2. QED
      BY <2>1 DEF Outcome
  <1>4. outcome \in {"PENDING", "APPROVED", "REJECTED"}
    BY <1>3 DEF Verdict
  <1>5. approval' = After(approval, outcome, votes)
    BY DEF RecordDecision, IInv, RowTypes, After
  <1>6. votes \in [Approvers -> Votes]
    BY <1>1 DEF IInv, RowTypes, Votes
  <1> HIDE DEF outcome, votes
  <1>7. /\ approval' \in ApprovalType /\ approval'.status = outcome
        /\ approval'.ver = approval.ver + 1 /\ approval'.mode = approval.mode
        /\ approval'.asked = approval.asked /\ approval'.votes = votes
    <2>1. approval \in ApprovalType
      BY DEF IInv, RowTypes, ApprovalType
    <2>2. QED
      BY <1>4, <1>5, <1>6, <2>1, NextApproval
  <1>8. \A b \in Approvers : votes[b] # "NONE" => b \in approval.asked
    BY <1>1 DEF votes, IInv, RowTypes, VerdictMatchesVotes, Voters
  <1>9. Matches(outcome, approval.mode, approval.asked, votes)
    BY <1>1, <1>3, <1>6, <1>8, VerdictOfVotes DEF IInv, RowTypes
  <1>10. VerdictMatchesVotes'
    BY <1>7, <1>8, <1>9 DEF VerdictMatchesVotes, Matches, Voters
  <1>11. QED
    BY <1>2, <1>4, <1>7, <1>10 DEF outcome

LEMMA VoteIInv ==
  ASSUME IInv, NEW s \in Slots, Vote(s)
  PROVE  IInv'
  <1>1. /\ Deciding(s) /\ Decidable(s) /\ RecordDecision(s, Outcome(s)) /\ Outcome(s) = "PENDING"
        /\ Release(s) /\ UNCHANGED <<draft, ticket>>
    BY DEF Vote
  <1>2. /\ approval.status = "PENDING" /\ approval.ver \in Nat
        /\ approval' \in ApprovalType /\ approval'.ver = approval.ver + 1
        /\ approval'.status = "PENDING" /\ VerdictMatchesVotes'
    BY <1>1, RecordedVote
  <1>3. RowTypes' /\ Stages' /\ ApprovalGatesTicket'
    BY <1>1, <1>2 DEF IInv, RowTypes, Stages, ApprovalGatesTicket, ApprovalType
  <1>4. QED
    BY <1>1, <1>2, <1>3, CommandIInv

\* continue_workflow moves the ticket in the transaction of the verdict.
LEMMA SettleIInv ==
  ASSUME IInv, NEW s \in Slots, Settle(s)
  PROVE  IInv'
  <1>1. /\ Deciding(s) /\ Decidable(s) /\ RecordDecision(s, Outcome(s)) /\ Outcome(s) # "PENDING"
        /\ Release(s) /\ draft' = draft
    BY DEF Settle
  <1>2. PICK w \in Workflow : w.from = ticket.status /\ w.kind = "continue" /\ Move(w, {})
    BY DEF Settle
  <1>3. /\ approval.status = "PENDING" /\ approval.ver \in Nat
        /\ approval' \in ApprovalType /\ approval'.ver = approval.ver + 1
        /\ approval'.status \in {"APPROVED", "REJECTED"} /\ VerdictMatchesVotes'
    BY <1>1, RecordedVote
  <1>4. /\ IsTicket(ticket') /\ ticket'.status = w.to
        /\ w.to \notin {"NONE", "NEW", "AWAITING_APPROVAL"} /\ ticket.status # "NONE"
    BY <1>2, MoveTicket, WorkflowShape
  <1>5. RowTypes' /\ Stages' /\ ApprovalGatesTicket'
    BY <1>1, <1>3, <1>4 DEF IInv, RowTypes, Stages, ApprovalGatesTicket, ApprovalType
  <1>6. QED
    BY <1>1, <1>3, <1>5, CommandIInv

-----------------------------------------------------------------------------

LEMMA InitIInv == ASSUME Init PROVE IInv
  <1>1. PICK n \in DOMAIN Answers : draft = CreateDraft(n)
    BY DEF Init
  <1>2. IsDraft(draft) /\ draft.status = "DRAFT"
    <2> DEFINE values == Entered(n)
               level == Answers[n].level
    <2>1. draft = [status |-> "DRAFT", ver |-> 1, values |-> values, level |-> level]
      BY <1>1 DEF CreateDraft
    <2> HIDE DEF values, level
    <2>2. QED
      BY <2>1 DEF IsDraft
  <1>3. IsTicket(ticket) /\ ticket.status = "NONE"
    BY DEF Init, NoTicket, IsTicket
  <1>4. /\ approval \in ApprovalType /\ approval.status = "NONE" /\ approval.ver = 0
        /\ approval.asked = {} /\ \A a \in Approvers : approval.votes[a] = "NONE"
    BY DEF Init, ApprovalType, Votes
  <1>5. slot = [s \in Slots |-> Empty] /\ IsSlot(Empty) /\ Empty.cmd = NoCommand
    BY DEF Init, Empty, IsSlot
  <1>6. SlotTypes /\ Current
    BY <1>5 DEF SlotTypes, Current, Idle, Ready
  <1>7. RowTypes /\ Stages /\ ApprovalGatesTicket
    BY <1>2, <1>3, <1>4 DEF RowTypes, Stages, ApprovalGatesTicket, ApprovalType
  <1>8. VerdictMatchesVotes
    BY <1>4 DEF VerdictMatchesVotes, Voters
  <1>9. QED
    BY <1>6, <1>7, <1>8 DEF IInv

LEMMA NextIInv == ASSUME IInv, [Next]_vars PROVE IInv'
  <1>1. CASE UNCHANGED vars
    <2>1. UNCHANGED <<draft, ticket, approval, slot>>
      BY <1>1 DEF vars
    <2>2. SlotTypes' /\ Current'
      BY <2>1 DEF IInv, SlotTypes, Current, Idle, Cmd, Plan, Ready, AsSeen, Seen
    <2>3. QED
      BY <2>1, <2>2, RowsKept
  <1>2. ASSUME NEW s \in Slots, Send(s) \/ Repeat(s) PROVE IInv'
    BY <1>2, BeginIInv
  <1>3. ASSUME NEW s \in Slots, Step(s) PROVE IInv'
    <2>1. CASE LockRow(s) \/ Claim(s)
      BY <2>1, LockIInv
    <2>2. CASE Refuse(s) \/ Abort(s) \/ Comment(s)
      BY <2>2, EndIInv DEF Refuse, Abort, Comment
    <2>3. CASE EditDraft(s) \/ ValidateDraft(s) \/ CancelDraft(s)
      BY <2>3, DraftCommandsIInv
    <2>4. CASE Submit(s)
      BY <2>4, SubmitIInv
    <2>5. CASE ExecuteTransition(s)
      BY <2>5, ExecuteTransitionIInv
    <2>6. CASE Route(s) \/ AssignManual(s)
      BY <2>6, AssignIInv
    <2>7. CASE ExpireApproval(s)
      BY <2>7, ExpireIInv
    <2>8. CASE Vote(s)
      BY <2>8, VoteIInv
    <2>9. CASE Settle(s)
      BY <2>9, SettleIInv
    <2>10. QED
      BY <1>3, <2>1, <2>2, <2>3, <2>4, <2>5, <2>6, <2>7, <2>8, <2>9 DEF Step
  <1>4. CASE ComeDue
    BY <1>4, ComeDueIInv
  <1>5. QED
    BY <1>1, <1>2, <1>3, <1>4 DEF Next

LEMMA IInvHolds == Spec => []IInv
  BY InitIInv, NextIInv, PTL DEF Spec

-----------------------------------------------------------------------------
(* Sequences                                                               *)

IsSeq(h) == \E S : h \in Seq(S)

LEMMA AppendSeq ==
  ASSUME NEW h, IsSeq(h), NEW x
  PROVE  /\ IsSeq(Append(h, x)) /\ Len(h) \in Nat /\ Len(Append(h, x)) = Len(h) + 1
         /\ \A i \in 1 .. Len(h) : Append(h, x)[i] = h[i]
         /\ Append(h, x)[Len(h) + 1] = x
         /\ 1 .. Len(Append(h, x)) = 1 .. Len(h) \cup {Len(h) + 1}
  <1>1. PICK S : h \in Seq(S)
    BY DEF IsSeq
  <1>2. h \in Seq(S \cup {x}) /\ x \in S \cup {x} /\ Len(h) \in Nat
    BY <1>1, SeqMonotonic, LenProperties
  <1>3. /\ Append(h, x) \in Seq(S \cup {x}) /\ Len(Append(h, x)) = Len(h) + 1
        /\ \A i \in 1 .. Len(h) : Append(h, x)[i] = h[i]
        /\ Append(h, x)[Len(h) + 1] = x
    BY <1>2, AppendProperties
  <1>4. 1 .. Len(h) + 1 = 1 .. Len(h) \cup {Len(h) + 1}
    BY <1>2
  <1>5. QED
    BY <1>2, <1>3, <1>4 DEF IsSeq

LEMMA EmptySeqs == IsSeq(<<>>) /\ Len(<<>>) = 0 /\ \A S : <<>> \in Seq(S)
  <1>1. \A S : <<>> \in Seq(S)
    BY EmptySeq
  <1>2. QED
    BY <1>1 DEF IsSeq

-----------------------------------------------------------------------------
(* What a step does to its worker and to the clients                       *)

\* A step of a worker ends its command or takes the lock it waits for.
TakesLock(s) ==
    /\ Waiting(s) /\ Free(Wanted(s))
    /\ Wanted(s) \notin RowLocks => ~Reused(s) /\ ~Completed(s)
    /\ \E e : /\ slot' = [slot EXCEPT ![s] = e]
              /\ e.cmd = slot[s].cmd /\ e.key = slot[s].key /\ e.held = slot[s].held + 1
              /\ Wanted(s) \in RowLocks => e.seen = Row(Wanted(s))

LEMMA StepSlot ==
  ASSUME IInv, NEW s \in Slots, Step(s)
  PROVE  /\ UNCHANGED clients
         /\ \/ Release(s)
            \/ TakesLock(s) /\ UNCHANGED <<draft, ticket, history, approval, idem, tally, trail, facts>>
  <1>1. IsSlot(slot[s]) /\ slot = [t \in Slots |-> slot[t]]
    BY DEF IInv, SlotTypes
  <1>2. CASE LockRow(s)
    <2> DEFINE e == [slot[s] EXCEPT !.held = @ + 1, !.seen = Row(Wanted(s))]
    <2>1. slot' = [slot EXCEPT ![s] = e]
      BY <1>1, <1>2 DEF LockRow
    <2>2. /\ e.cmd = slot[s].cmd /\ e.key = slot[s].key /\ e.held = slot[s].held + 1
          /\ e.seen = Row(Wanted(s))
      BY <1>1 DEF IsSlot
    <2>3. TakesLock(s)
      BY <1>2, <2>1, <2>2 DEF TakesLock, LockRow
    <2>4. QED
      BY <1>2, <2>3 DEF LockRow
  <1>3. CASE Claim(s) /\ ~Release(s)
    <2> DEFINE e == [slot[s] EXCEPT !.held = @ + 1]
    <2>1. slot' = [slot EXCEPT ![s] = e] /\ ~Reused(s) /\ ~Completed(s)
      BY <1>1, <1>3 DEF Claim
    <2>2. e.cmd = slot[s].cmd /\ e.key = slot[s].key /\ e.held = slot[s].held + 1
      BY <1>1 DEF IsSlot
    <2>3. TakesLock(s)
      BY <1>3, <2>1, <2>2 DEF TakesLock, Claim
    <2>4. QED
      BY <1>3, <2>3 DEF Claim
  <1>4. CASE Claim(s) /\ Release(s)
    BY <1>4 DEF Claim, clients
  <1>5. CASE Refuse(s) \/ Abort(s)
    BY <1>5 DEF Refuse, Abort, clients
  <1>6. CASE EditDraft(s) \/ ValidateDraft(s) \/ CancelDraft(s) \/ Submit(s)
    BY <1>6 DEF EditDraft, ValidateDraft, CancelDraft, SetDraft, Submit, clients
  <1>7. CASE ExecuteTransition(s) \/ Route(s) \/ AssignManual(s) \/ Comment(s)
    BY <1>7 DEF ExecuteTransition, Route, AssignManual, AssignTo, Comment, clients
  <1>8. CASE ExpireApproval(s) \/ Vote(s) \/ Settle(s)
    BY <1>8 DEF ExpireApproval, Vote, Settle, clients
  <1>9. QED
    BY <1>2, <1>3, <1>4, <1>5, <1>6, <1>7, <1>8 DEF Step

\* Commands on a ticket are sent when there is one, and keyed commands under the
\* key they were first sent with.
TicketOps == {"TRANSITION", "ROUTE", "MANUAL", "COMMENT"}
Exists == ticket.status # "NONE"

Clients ==
    /\ IsSeq(sent) /\ Len(sent) <= MaxCommands
    /\ \A k \in 1 .. Len(sent) : sent[k].op \in TicketOps => Exists
    /\ \A s \in Slots :
         /\ slot[s].cmd.op \in TicketOps => Exists
         /\ slot[s].cmd.op \in KeyedOps => slot[s].key \in 1 .. Len(sent)

LEMMA PlausibleTicket ==
  ASSUME NEW c \in Plausible, c.op \in TicketOps
  PROVE  Exists
  BY DEF Plausible, DraftCommands, VoteCommands, TicketCommands, Command, TicketOps, Exists

LEMMA BeginClients ==
  ASSUME IInv, Clients, NEW s \in Slots, Send(s) \/ Repeat(s)
  PROVE  Clients'
  <1>1. slot = [t \in Slots |-> slot[t]] /\ Exists' = Exists /\ Len(sent) \in Nat
    BY AppendSeq DEF IInv, SlotTypes, Send, Repeat, Exists, Clients
  <1>2. CASE Send(s)
    <2>1. PICK c \in Plausible :
            /\ Open(s, c, Len(sent) + 1)
            /\ sent' = Append(sent, IF c.op \in KeyedOps THEN c ELSE NoCommand)
      BY <1>2 DEF Send
    <2> DEFINE x == IF c.op \in KeyedOps THEN c ELSE NoCommand
               e == [Empty EXCEPT !.cmd = c, !.key = Len(sent) + 1]
    <2>2. e.cmd = c /\ e.key = Len(sent) + 1 /\ slot' = [slot EXCEPT ![s] = e]
      BY <2>1 DEF Open, Empty
    <2>3. x.op \in TicketOps => Exists
      BY PlausibleTicket DEF TicketOps, NoCommand, Command
    <2>4. c.op \in TicketOps => Exists
      BY PlausibleTicket
    <2>5. sent' = Append(sent, x) /\ Len(sent) < MaxCommands /\ MaxCommands \in Nat
      BY <1>2, <2>1, DeskAssumption DEF Send
    <2> HIDE DEF x, e
    <2>6. /\ IsSeq(sent') /\ Len(sent') = Len(sent) + 1
          /\ 1 .. Len(sent') = 1 .. Len(sent) \cup {Len(sent) + 1}
          /\ \A k \in 1 .. Len(sent) : sent'[k] = sent[k]
          /\ sent'[Len(sent) + 1] = x
      BY <2>5, AppendSeq DEF Clients
    <2>7. \A k \in 1 .. Len(sent') : sent'[k].op \in TicketOps => Exists'
      BY <1>1, <2>3, <2>6 DEF Clients
    <2>8. Len(sent') <= MaxCommands
      BY <1>1, <2>5, <2>6
    <2>9. ASSUME NEW t \in Slots
          PROVE  /\ slot'[t].cmd.op \in TicketOps => Exists'
                 /\ slot'[t].cmd.op \in KeyedOps => slot'[t].key \in 1 .. Len(sent')
      <3>1. CASE t = s
        BY <1>1, <2>2, <2>4, <2>6, <3>1
      <3>2. CASE t # s
        BY <1>1, <2>2, <2>6, <3>2 DEF Clients
      <3>3. QED
        BY <3>1, <3>2
    <2>10. QED
      BY <2>6, <2>7, <2>8, <2>9 DEF Clients
  <1>3. CASE Repeat(s)
    <2>1. PICK k \in 1 .. Len(sent) :
            /\ sent[k].op \in KeyedOps
            /\ \E c \in {sent[k]} \cup {p \in Plausible : p.op \in {sent[k].op, "COMMENT"}} :
                  Open(s, c, k)
      BY <1>3 DEF Repeat
    <2>2. PICK c \in {sent[k]} \cup {p \in Plausible : p.op \in {sent[k].op, "COMMENT"}} :
                  Open(s, c, k)
      BY <2>1
    <2> DEFINE e == [Empty EXCEPT !.cmd = c, !.key = k]
    <2>3. e.cmd = c /\ e.key = k /\ slot' = [slot EXCEPT ![s] = e]
      BY <2>2 DEF Open, Empty
    <2>4. c.op \in TicketOps => Exists
      BY <2>2, PlausibleTicket DEF Clients
    <2>5. sent' = sent
      BY <1>3 DEF Repeat
    <2> HIDE DEF e
    <2>6. ASSUME NEW t \in Slots
          PROVE  /\ slot'[t].cmd.op \in TicketOps => Exists'
                 /\ slot'[t].cmd.op \in KeyedOps => slot'[t].key \in 1 .. Len(sent')
      <3>1. CASE t = s
        BY <1>1, <2>1, <2>3, <2>4, <2>5, <3>1
      <3>2. CASE t # s
        BY <1>1, <2>3, <2>5, <3>2 DEF Clients
      <3>3. QED
        BY <3>1, <3>2
    <2>7. QED
      BY <1>1, <2>5, <2>6 DEF Clients
  <1>4. QED
    BY <1>2, <1>3

LEMMA NoTicketCommand == NoCommand.op = "NONE" /\ Empty.cmd = NoCommand
  BY DEF NoCommand, Command, Empty

LEMMA StepClients ==
  ASSUME IInv, Clients, NEW s \in Slots, Step(s), Exists => Exists'
  PROVE  Clients'
  <1>1. sent' = sent /\ slot = [t \in Slots |-> slot[t]]
    BY StepSlot DEF clients, IInv, SlotTypes
  <1>2. ASSUME NEW t \in Slots
        PROVE  \/ slot'[t].cmd.op = "NONE"
               \/ slot'[t].cmd = slot[t].cmd /\ slot'[t].key = slot[t].key
    <2>1. CASE Release(s)
      BY <1>1, <2>1, NoTicketCommand DEF Release
    <2>2. CASE TakesLock(s)
      BY <1>1, <2>2 DEF TakesLock
    <2>3. QED
      BY <2>1, <2>2, StepSlot
  <1>3. QED
    BY <1>1, <1>2 DEF Clients, TicketOps, KeyedOps

-----------------------------------------------------------------------------
(* The path of the ticket                                                  *)

Path ==
    /\ trail \in Seq(Workflow) /\ IsSeq(history)
    /\ ~Exists => trail = <<>> /\ history = <<>>
    /\ TrailIsPath

LEMMA PathKept ==
  ASSUME Path, UNCHANGED <<ticket, trail, history>>
  PROVE  Path'
  BY DEF Path, TrailIsPath, Exists

\* The timestamps a transition sets and clears are those of the status it leads to.
LEMMA Stamps ==
  ASSUME NEW w \in Workflow, NEW filled, NEW given \in SUBSET {"resolution_code"},
         "resolved_at" \in filled <=> w.from \in {"RESOLVED", "CLOSED"},
         "closed_at" \in filled <=> w.from = "CLOSED"
  PROVE  LET after == ((filled \cup given) \ Cleared(w)) \cup Filled(w) IN
         /\ "resolved_at" \in after <=> w.to \in {"RESOLVED", "CLOSED"}
         /\ "closed_at" \in after <=> w.to = "CLOSED"
  <1>1. /\ Filled(w) = IF w.code = "START_PROGRESS" THEN {"first_response_at"}
                       ELSE IF w.code = "RESOLVE" THEN {"resolved_at"}
                       ELSE IF w.code = "CLOSE" THEN {"closed_at"} ELSE {}
        /\ Cleared(w) = IF w.code = "REOPEN" THEN {"resolved_at", "resolution_code"} ELSE {}
    BY DEF Filled, Cleared
  <1>2. /\ w.code = "RESOLVE" => w.to = "RESOLVED"
        /\ w.code = "CLOSE" => w.from = "RESOLVED" /\ w.to = "CLOSED"
        /\ w.code = "REOPEN" => w.from = "RESOLVED" /\ w.to = "IN_PROGRESS"
        /\ w.code \notin {"RESOLVE", "CLOSE", "REOPEN"} =>
             w.from \notin {"RESOLVED", "CLOSED"} /\ w.to \notin {"RESOLVED", "CLOSED"}
        /\ w.code = "RESOLVE" => w.from = "IN_PROGRESS"
    BY DEF Workflow, Transition
  <1>3. "resolved_at" \notin given /\ "closed_at" \notin given
    OBVIOUS
  <1>4. QED
    BY <1>1, <1>2, <1>3

LEMMA PathMoved ==
  ASSUME IInv, Path, NEW w \in Workflow, NEW given \in SUBSET {"resolution_code"}, Move(w, given),
         w.from = ticket.status, history' = history
  PROVE  Path'
  <1> DEFINE filled == ((ticket.filled \cup given) \ Cleared(w)) \cup Filled(w)
  <1>1. IsTicket(ticket) /\ Exists /\ w.to # "NONE"
    BY WorkflowShape DEF IInv, RowTypes, Exists
  <1>2. /\ ticket'.status = w.to /\ ticket'.ver = ticket.ver + 1
        /\ ticket'.holder = ticket.holder /\ ticket'.filled = filled
    <2>1. ticket' = [ticket EXCEPT !.status = w.to, !.ver = @ + 1, !.filled = filled]
      BY <1>1 DEF Move, IsTicket
    <2> HIDE DEF filled
    <2>2. QED
      BY <1>1, <2>1 DEF IsTicket
  <1>3. /\ "resolved_at" \in filled <=> w.to \in {"RESOLVED", "CLOSED"}
        /\ "closed_at" \in filled <=> w.to = "CLOSED"
    BY <1>1, Stamps DEF Path, TrailIsPath, Exists
  <1> HIDE DEF filled
  <1>4. trail' = Append(trail, w) /\ trail \in Seq(Workflow) /\ IsSeq(trail)
    BY DEF Move, Path, IsSeq
  <1>5. /\ Len(trail) \in Nat /\ trail' \in Seq(Workflow) /\ Len(trail') = Len(trail) + 1
        /\ 1 .. Len(trail') = 1 .. Len(trail) \cup {Len(trail) + 1}
        /\ \A i \in 1 .. Len(trail) : trail'[i] = trail[i]
        /\ trail'[Len(trail) + 1] = w
    BY <1>4, AppendSeq, AppendProperties
  <1>6. ticket.status = IF Len(trail) = 0 THEN "NEW" ELSE trail[Len(trail)].to
    BY <1>1, <1>4 DEF Path, TrailIsPath, Exists
  <1>7. \A i \in 1 .. Len(trail') :
           trail'[i].from = (IF i = 1 THEN "NEW" ELSE trail'[i - 1].to)
    <2>1. TAKE i \in 1 .. Len(trail')
    <2>2. CASE i \in 1 .. Len(trail)
      <3>1. i = 1 \/ i - 1 \in 1 .. Len(trail)
        BY <1>5, <2>2
      <3>2. trail[i].from = (IF i = 1 THEN "NEW" ELSE trail[i - 1].to)
        BY <2>2 DEF Path, TrailIsPath
      <3>3. QED
        BY <1>5, <2>2, <3>1, <3>2
    <2>3. CASE i = Len(trail) + 1
      <3>1. trail'[i].from = ticket.status
        BY <1>5, <2>3
      <3>2. CASE Len(trail) = 0
        BY <1>6, <2>3, <3>1, <3>2
      <3>3. CASE Len(trail) # 0
        <4>1. i # 1 /\ i - 1 = Len(trail) /\ Len(trail) \in 1 .. Len(trail)
          BY <1>5, <2>3, <3>3
        <4>2. trail'[i - 1] = trail[Len(trail)]
          BY <1>5, <4>1
        <4>3. QED
          BY <1>6, <3>1, <3>3, <4>1, <4>2
      <3>4. QED
        BY <3>2, <3>3
    <2>4. QED
      BY <1>5, <2>1, <2>2, <2>3
  <1>8. trail' # <<>> /\ trail'[Len(trail')].to = ticket'.status
    BY <1>2, <1>5, EmptySeqs
  <1>9. ticket'.ver = 1 + Len(trail') + Len(history')
    <2>1. Len(history) \in Nat /\ ticket.ver = 1 + Len(trail) + Len(history)
      BY <1>1, AppendSeq DEF Path, TrailIsPath, Exists
    <2>2. QED
      BY <1>2, <1>5, <2>1
  <1>10. TrailIsPath'
    <2>1. ticket'.holder = IF history' = <<>> THEN Unassigned ELSE history'[Len(history')].to
      BY <1>1, <1>2 DEF Path, TrailIsPath, Exists
    <2>2. \A i \in 1 .. Len(history') :
             history'[i].from = (IF i = 1 THEN Unassigned ELSE history'[i - 1].to)
      BY DEF Path, TrailIsPath
    <2>3. QED
      BY <1>2, <1>3, <1>7, <1>8, <1>9, <2>1, <2>2 DEF TrailIsPath
  <1>11. QED
    BY <1>1, <1>2, <1>5, <1>10 DEF Path, Exists

LEMMA PathAssigned ==
  ASSUME IInv, Path, NEW s \in Slots, NEW holder, NEW by, AssignTo(s, holder, by), Exists
  PROVE  Path'
  <1> DEFINE x == [from |-> ticket.holder, to |-> holder, by |-> by]
  <1>1. IsTicket(ticket)
    BY DEF IInv, RowTypes
  <1>2. /\ ticket'.status = ticket.status /\ ticket'.ver = ticket.ver + 1
        /\ ticket'.holder = holder /\ ticket'.filled = ticket.filled
    BY <1>1 DEF AssignTo, IsTicket
  <1>3. history' = Append(history, x) /\ IsSeq(history) /\ trail' = trail
    BY DEF AssignTo, Path
  <1>4. x.from = ticket.holder /\ x.to = holder
    OBVIOUS
  <1> HIDE DEF x
  <1>5. /\ Len(history) \in Nat /\ IsSeq(history') /\ Len(history') = Len(history) + 1
        /\ 1 .. Len(history') = 1 .. Len(history) \cup {Len(history) + 1}
        /\ \A i \in 1 .. Len(history) : history'[i] = history[i]
        /\ history'[Len(history) + 1] = x
    BY <1>3, AppendSeq
  <1>6. ticket.holder = IF Len(history) = 0 THEN Unassigned ELSE history[Len(history)].to
    <2>1. Len(history) = 0 <=> history = <<>>
      BY <1>3, EmptySeq DEF IsSeq
    <2>2. QED
      BY <2>1 DEF Path, TrailIsPath, Exists
  <1>7. \A i \in 1 .. Len(history') :
           history'[i].from = (IF i = 1 THEN Unassigned ELSE history'[i - 1].to)
    <2>1. TAKE i \in 1 .. Len(history')
    <2>2. CASE i \in 1 .. Len(history)
      <3>1. i = 1 \/ i - 1 \in 1 .. Len(history)
        BY <1>5, <2>2
      <3>2. history[i].from = (IF i = 1 THEN Unassigned ELSE history[i - 1].to)
        BY <2>2 DEF Path, TrailIsPath
      <3>3. QED
        BY <1>5, <2>2, <3>1, <3>2
    <2>3. CASE i = Len(history) + 1
      <3>1. history'[i].from = ticket.holder
        BY <1>4, <1>5, <2>3
      <3>2. CASE Len(history) = 0
        BY <1>6, <2>3, <3>1, <3>2
      <3>3. CASE Len(history) # 0
        <4>1. i # 1 /\ i - 1 = Len(history) /\ Len(history) \in 1 .. Len(history)
          BY <1>5, <2>3, <3>3
        <4>2. history'[i - 1] = history[Len(history)]
          BY <1>5, <4>1
        <4>3. QED
          BY <1>6, <3>1, <3>3, <4>1, <4>2
      <3>4. QED
        BY <3>2, <3>3
    <2>4. QED
      BY <1>5, <2>1, <2>2, <2>3
  <1>8. history' # <<>> /\ history'[Len(history')].to = ticket'.holder
    BY <1>2, <1>4, <1>5, EmptySeqs
  <1>9. ticket'.ver = 1 + Len(trail') + Len(history')
    <2>1. Len(trail) \in Nat /\ ticket.ver = 1 + Len(trail) + Len(history)
      BY LenProperties DEF Path, TrailIsPath, Exists
    <2>2. QED
      BY <1>2, <1>3, <1>5, <2>1
  <1>10. TrailIsPath'
    <2>1. /\ ticket'.status = IF trail' = <<>> THEN "NEW" ELSE trail'[Len(trail')].to
          /\ "resolved_at" \in ticket'.filled <=> ticket'.status \in {"RESOLVED", "CLOSED"}
          /\ "closed_at" \in ticket'.filled <=> ticket'.status = "CLOSED"
      BY <1>2, <1>3 DEF Path, TrailIsPath, Exists
    <2>2. \A i \in 1 .. Len(trail') :
             trail'[i].from = (IF i = 1 THEN "NEW" ELSE trail'[i - 1].to)
      BY <1>3 DEF Path, TrailIsPath
    <2>3. QED
      BY <1>7, <1>8, <1>9, <2>1, <2>2 DEF TrailIsPath
  <1>11. QED
    BY <1>2, <1>3, <1>5, <1>10 DEF Path, Exists

LEMMA NewTicket ==
  ASSUME NEW d
  PROVE  LET t == CreateTicket(d) IN
         /\ t.status = "NEW" /\ t.ver = 1 /\ t.form = d.ver /\ t.holder = Unassigned
         /\ t.values = Persisted(Normalized(d.values)) /\ t.filled = {}
  <1> DEFINE values == Persisted(Normalized(d.values))
             priority == Priority(d.level)
  <1>1. CreateTicket(d) = [NoTicket EXCEPT !.status = "NEW", !.ver = 1, !.form = d.ver,
                                   !.values = values, !.priority = priority]
    BY DEF CreateTicket
  <1> HIDE DEF values, priority
  <1>2. CreateTicket(d) \in [status : {"NEW"}, ver : {1}, form : {d.ver}, values : {values},
                             priority : {priority}, holder : {Unassigned}, filled : {{}}]
    BY <1>1 DEF NoTicket
  <1>3. QED
    BY <1>2 DEF values

LEMMA PathSubmitted ==
  ASSUME IInv, Path, NEW s \in Slots, Submit(s)
  PROVE  Path'
  <1>1. ~Exists
    BY DEF Submit, Submitted, IInv, Stages, Exists
  <1>2. trail' = <<>> /\ history' = <<>>
    BY <1>1 DEF Submit, Path
  <1>3. ticket'.status = "NEW" /\ ticket'.ver = 1 /\ ticket'.holder = Unassigned /\ ticket'.filled = {}
    BY NewTicket DEF Submit
  <1>4. TrailIsPath'
    BY <1>2, <1>3, EmptySeqs DEF TrailIsPath
  <1>5. QED
    BY <1>2, <1>3, <1>4, EmptySeqs DEF Path, Exists

LEMMA StepPath ==
  ASSUME IInv, Clients, Path, NEW s \in Slots, Step(s)
  PROVE  Path' /\ (Exists => Exists')
  <1>1. CASE ExecuteTransition(s)
    <2>1. PICK w \in Workflow : Executable(s, w) /\ TicketUnmoved(s) /\ Move(w, Carried(s))
      BY <1>1 DEF ExecuteTransition
    <2>2. w.from = ticket.status /\ Carried(s) \in SUBSET {"resolution_code"} /\ history' = history
      BY <1>1, <2>1 DEF Executable, TicketUnmoved, Carried, ExecuteTransition
    <2>3. QED
      BY <2>1, <2>2, PathMoved, MoveTicket, WorkflowShape DEF Exists
  <1>2. CASE Settle(s)
    <2>1. PICK w \in Workflow : w.from = ticket.status /\ Move(w, {})
      BY <1>2 DEF Settle
    <2>2. history' = history
      BY <1>2 DEF Settle
    <2>3. QED
      BY <2>1, <2>2, PathMoved, MoveTicket, WorkflowShape DEF Exists
  <1>3. CASE Route(s) \/ AssignManual(s)
    <2>1. PICK holder, by : AssignTo(s, holder, by)
      BY <1>3 DEF Route, AssignManual
    <2>2. Exists
      BY <1>3 DEF Route, AssignManual, Cmd, Clients, TicketOps
    <2>3. Path'
      BY <2>1, <2>2, PathAssigned
    <2>4. ticket'.status = ticket.status
      BY <2>1 DEF AssignTo, IInv, RowTypes, IsTicket
    <2>5. QED
      BY <2>3, <2>4 DEF Exists
  <1>4. CASE Submit(s)
    <2>1. Path'
      BY <1>4, PathSubmitted
    <2>2. ticket'.status = "NEW"
      BY <1>4, NewTicket DEF Submit
    <2>3. QED
      BY <2>1, <2>2 DEF Exists
  <1>5. CASE LockRow(s) \/ Claim(s) \/ Refuse(s) \/ Abort(s) \/ EditDraft(s) \/ ValidateDraft(s)
              \/ CancelDraft(s) \/ Comment(s) \/ ExpireApproval(s) \/ Vote(s)
    <2>1. UNCHANGED <<ticket, trail, history>>
      BY <1>5 DEF LockRow, Claim, Refuse, Abort, EditDraft, ValidateDraft, CancelDraft, SetDraft,
                  Comment, ExpireApproval, Vote
    <2>2. QED
      BY <2>1, PathKept DEF Exists
  <1>6. QED
    BY <1>1, <1>2, <1>3, <1>4, <1>5 DEF Step

LEMMA InitPath == ASSUME Init PROVE Clients /\ Path
  <1>1. sent = <<>> /\ slot = [s \in Slots |-> Empty] /\ trail = <<>> /\ history = <<>>
        /\ ticket.status = "NONE"
    BY DEF Init, NoTicket
  <1>2. Len(sent) <= MaxCommands
    BY <1>1, DeskAssumption
  <1>3. Clients
    BY <1>1, <1>2, NoTicketCommand, EmptySeqs DEF Clients, TicketOps, KeyedOps
  <1>4. TrailIsPath
    BY <1>1 DEF TrailIsPath
  <1>5. QED
    BY <1>1, <1>3, <1>4, EmptySeqs DEF Path

LEMMA NextPath == ASSUME IInv, Clients, Path, [Next]_vars PROVE Clients' /\ Path'
  <1>1. CASE UNCHANGED vars
    BY <1>1, PathKept DEF vars, Clients, Exists
  <1>2. ASSUME NEW s \in Slots, Send(s) \/ Repeat(s) PROVE Clients' /\ Path'
    BY <1>2, BeginClients, PathKept DEF Send, Repeat
  <1>3. ASSUME NEW s \in Slots, Step(s) PROVE Clients' /\ Path'
    BY <1>3, StepPath, StepClients
  <1>4. CASE ComeDue
    BY <1>4, PathKept DEF ComeDue, Clients, Exists
  <1>5. QED
    BY <1>1, <1>2, <1>3, <1>4 DEF Next

-----------------------------------------------------------------------------
(* Locks and idempotency records                                           *)

Ids == {Record(op, k) : op \in KeyedOps, k \in Keys}
Exclusive == \A s, t \in Slots : s # t => LocksOf(s) \cap LocksOf(t) = {}

\* No two transactions hold the same lock, so the record of a key that is being worked
\* on is not completed, and a draft is as it was seen while its row is locked.
Claims ==
    /\ idem = [id \in Ids |-> idem[id]]
    /\ Exclusive
    /\ \A s \in Slots : Cmd(s).op \in KeyedOps /\ Id(s) \in LocksOf(s) =>
         idem[Id(s)].status # "COMPLETED"
    /\ \A s \in Slots : Ready(s) /\ Cmd(s).op \in DraftOps \cup {"SUBMIT"} =>
         Seen(s).ver = draft.ver

\* The locks of a transaction that has taken all of them.
LEMMA AllLocks ==
  ASSUME IInv, NEW s \in Slots, Ready(s)
  PROVE  /\ Cmd(s).op \in KeyedOps => Id(s) \in LocksOf(s)
         /\ Cmd(s).op \in DraftOps \cup {"SUBMIT"} => DraftRow \in LocksOf(s)
         /\ Cmd(s).op \in Ops /\ ~Idle(s)
  <1> DEFINE op == Cmd(s).op
             key == slot[s].key
  <1>1. ~Idle(s) /\ op \in Ops /\ slot[s].held = Len(Plan(s)) /\ Plan(s) = LockPlan(op, key)
        /\ Id(s) = Record(op, key)
    BY DEF Ready, IInv, SlotTypes, Plan, Cmd, Id
  <1>2. LocksOf(s) = {Plan(s)[i] : i \in 1 .. Len(Plan(s))}
    BY <1>1 DEF LocksOf
  <1>3. CASE op \in DraftOps
    <2>1. Plan(s) = <<DraftRow>> /\ op \notin KeyedOps /\ Len(Plan(s)) = 1 /\ 1 \in 1 .. 1
      BY <1>1, <1>3, Plans DEF DraftOps, KeyedOps
    <2>2. QED
      BY <1>1, <1>2, <1>3, <2>1
  <1>4. CASE op = "SUBMIT"
    <2>1. Plan(s) = <<Id(s), DraftRow>> /\ Len(Plan(s)) = 2 /\ 1 \in 1 .. 2 /\ 2 \in 1 .. 2
      BY <1>1, <1>4, Plans DEF DraftOps
    <2>2. QED
      BY <1>1, <1>2, <2>1
  <1>5. CASE op = "COMMENT"
    <2>1. Plan(s) = <<TicketRow, Id(s)>> /\ Len(Plan(s)) = 2 /\ 2 \in 1 .. 2
      BY <1>1, <1>5, Plans DEF DraftOps
    <2>2. QED
      BY <1>1, <1>2, <1>5, <2>1 DEF DraftOps
  <1>6. CASE op \in {"DECIDE", "TRANSITION", "ROUTE", "MANUAL"}
    <2>1. Plan(s)[1] = Id(s) /\ Len(Plan(s)) = 2 /\ 1 \in 1 .. 2
      BY <1>1, <1>6, Plans DEF DraftOps
    <2>2. QED
      BY <1>1, <1>2, <1>6, <2>1 DEF DraftOps
  <1>7. QED
    BY <1>1, <1>3, <1>4, <1>5, <1>6 DEF Ops, KeyedOps

\* The id of a keyed command is one of the table.
LEMMA KnownId ==
  ASSUME Clients, NEW s \in Slots, Cmd(s).op \in KeyedOps
  PROVE  Id(s) \in Ids /\ Id(s) = Record(Cmd(s).op, slot[s].key) /\ slot[s].key \in Keys
  <1>1. slot[s].key \in 1 .. Len(sent) /\ Len(sent) <= MaxCommands /\ Len(sent) \in Nat
    BY AppendSeq DEF Clients, Cmd
  <1>2. slot[s].key \in Keys
    BY <1>1, DeskAssumption DEF Keys
  <1>3. QED
    BY <1>2 DEF Id, Ids, Cmd

\* A worker begins or ends a command: it holds nothing, the others what they held.
LEMMA NothingHeld ==
  ASSUME SlotTypes, NEW s \in Slots, NEW e, slot' = [slot EXCEPT ![s] = e], e.held = 0
  PROVE  /\ LocksOf(s)' = {}
         /\ \A t \in Slots \ {s} : /\ slot'[t] = slot[t] /\ LocksOf(t)' = LocksOf(t)
                                   /\ Cmd(t)' = Cmd(t) /\ Id(t)' = Id(t)
                                   /\ Ready(t)' <=> Ready(t)
  <1>1. slot'[s] = e /\ \A t \in Slots \ {s} : slot'[t] = slot[t]
    BY DEF SlotTypes
  <1>2. QED
    BY <1>1 DEF LocksOf, Idle, Plan, Cmd, Id, Ready

\* What is left to show when a worker begins or ends a command.
LEMMA ResetClaims ==
  ASSUME IInv, Claims, NEW s \in Slots, NEW e, slot' = [slot EXCEPT ![s] = e], e.held = 0,
         e.cmd = NoCommand \/ e.cmd.op \in Ops,
         idem' = [id \in Ids |-> idem'[id]],
         \A t \in Slots \ {s} : Cmd(t).op \in KeyedOps /\ Id(t) \in LocksOf(t) =>
             idem'[Id(t)].status = idem[Id(t)].status,
         \/ draft'.ver = draft.ver
         \/ Ready(s) /\ Cmd(s).op \in DraftOps \cup {"SUBMIT"}
  PROVE  Claims'
  <1>1. /\ LocksOf(s)' = {} /\ slot'[s] = e
        /\ \A t \in Slots \ {s} : /\ slot'[t] = slot[t] /\ LocksOf(t)' = LocksOf(t)
                                  /\ Cmd(t)' = Cmd(t) /\ Id(t)' = Id(t)
                                  /\ Ready(t)' <=> Ready(t)
    BY NothingHeld DEF IInv, SlotTypes
  <1>2. ~Ready(s)'
    <2>1. ~Idle(s)' => Plan(s)' = LockPlan(e.cmd.op, e.key) /\ e.cmd.op \in Ops
      <3>1. ~Idle(s)' => e.cmd # NoCommand
        BY <1>1 DEF Idle
      <3>2. Plan(s)' = LockPlan(slot'[s].cmd.op, slot'[s].key)
        BY DEF Plan
      <3>3. Plan(s)' = LockPlan(e.cmd.op, e.key)
        BY <1>1, <3>2
      <3>4. QED
        BY <3>1, <3>3
    <2>2. ASSUME ~Idle(s)' PROVE Len(Plan(s)') # 0
      <3>1. PICK o, k : o \in Ops /\ Plan(s)' = LockPlan(o, k)
        BY <2>1, <2>2
      <3>2. Len(LockPlan(o, k)) = IF o \in DraftOps THEN 1 ELSE 2
        BY <3>1, PlanLength
      <3>3. QED
        BY <3>1, <3>2
    <2>3. QED
      BY <1>1, <2>2 DEF Ready
  <1>3. Exclusive'
    BY <1>1 DEF Claims, Exclusive
  <1>4. \A t \in Slots : Cmd(t)'.op \in KeyedOps /\ Id(t)' \in LocksOf(t)' =>
           idem'[Id(t)'].status # "COMPLETED"
    BY <1>1 DEF Claims
  <1>5. ASSUME NEW t \in Slots, Ready(t)', Cmd(t)'.op \in DraftOps \cup {"SUBMIT"}
        PROVE  Seen(t)'.ver = draft'.ver
    <2>1. t # s /\ Ready(t) /\ Cmd(t).op \in DraftOps \cup {"SUBMIT"} /\ Seen(t)' = Seen(t)
      BY <1>1, <1>2, <1>5 DEF Seen
    <2>2. draft'.ver = draft.ver
      BY <2>1, AllLocks DEF Claims, Exclusive
    <2>3. QED
      BY <2>1, <2>2 DEF Claims
  <1>6. QED
    BY <1>3, <1>4, <1>5 DEF Claims

LEMMA EmptySlot == Empty.held = 0 /\ Empty.cmd = NoCommand
  BY DEF Empty

LEMMA BeginClaims ==
  ASSUME IInv, Claims, NEW s \in Slots, Send(s) \/ Repeat(s)
  PROVE  Claims'
  <1>1. PICK c, k : Open(s, c, k) /\ c.op \in Ops
    BY Opening
  <1> DEFINE e == [Empty EXCEPT !.cmd = c, !.key = k]
  <1>2. slot' = [slot EXCEPT ![s] = e] /\ e.cmd = c /\ e.held = 0
    BY <1>1 DEF Open, Empty
  <1> HIDE DEF e
  <1>3. UNCHANGED <<idem, draft>>
    BY DEF Send, Repeat
  <1>4. idem' = [id \in Ids |-> idem'[id]]
    BY <1>3 DEF Claims
  <1>5. QED
    BY <1>1, <1>2, <1>3, <1>4, ResetClaims

\* A lock is taken only while nobody holds it, and a key only while it is not completed.
LEMMA LockClaims ==
  ASSUME IInv, Claims, Clients, NEW s \in Slots, TakesLock(s), UNCHANGED <<draft, idem>>
  PROVE  Claims'
  <1>1. PICK e : /\ slot' = [slot EXCEPT ![s] = e]
                 /\ e.cmd = slot[s].cmd /\ e.key = slot[s].key /\ e.held = slot[s].held + 1
                 /\ Wanted(s) \in RowLocks => e.seen = Row(Wanted(s))
    BY DEF TakesLock
  <1>2. slot'[s] = e /\ \A t \in Slots \ {s} : slot'[t] = slot[t]
    BY <1>1 DEF IInv, SlotTypes
  <1>3. \A t \in Slots : Idle(t)' = Idle(t) /\ Cmd(t)' = Cmd(t) /\ Plan(t)' = Plan(t)
                         /\ Id(t)' = Id(t)
    BY <1>1, <1>2 DEF Idle, Cmd, Plan, Id
  <1>4. \A t \in Slots \ {s} : LocksOf(t)' = LocksOf(t) /\ (Ready(t)' <=> Ready(t))
                               /\ Seen(t)' = Seen(t)
    BY <1>2, <1>3 DEF LocksOf, Ready, Seen
  <1>5. LocksOf(s)' = LocksOf(s) \cup {Wanted(s)}
    <2>1. ~Idle(s) /\ slot[s].held \in Nat
      BY DEF TakesLock, Waiting, IInv, SlotTypes, IsSlot
    <2>2. 1 .. e.held = 1 .. slot[s].held \cup {slot[s].held + 1}
      BY <1>1, <2>1
    <2>3. LocksOf(s)' = {Plan(s)[i] : i \in 1 .. e.held}
      BY <1>2, <1>3, <2>1 DEF LocksOf
    <2>4. LocksOf(s) = {Plan(s)[i] : i \in 1 .. slot[s].held}
      BY <2>1 DEF LocksOf
    <2>5. QED
      BY <2>2, <2>3, <2>4 DEF Wanted
  <1>6. Exclusive'
    BY <1>4, <1>5 DEF Claims, Exclusive, TakesLock, Free
  <1>7. ASSUME NEW t \in Slots, Cmd(t)'.op \in KeyedOps, Id(t)' \in LocksOf(t)'
        PROVE  idem'[Id(t)'].status # "COMPLETED"
    <2>1. CASE Id(t) \in LocksOf(t)
      BY <1>3, <1>7, <2>1 DEF Claims
    <2>2. CASE Id(t) \notin LocksOf(t)
      <3>1. t = s /\ Wanted(s) = Id(s) /\ Cmd(s).op \in KeyedOps
        BY <1>3, <1>4, <1>5, <1>7, <2>2
      <3>2. Wanted(s) \notin RowLocks
        BY <3>1, RecordsAndRows DEF Id, Cmd
      <3>3. ~Reused(s) /\ ~Completed(s)
        BY <3>2 DEF TakesLock
      <3>4. idem[Id(s)].status # "COMPLETED"
        BY <3>3 DEF Reused, Completed, NoRecord
      <3>5. QED
        BY <1>3, <3>1, <3>4
    <2>3. QED
      BY <2>1, <2>2
  <1>8. ASSUME NEW t \in Slots, Ready(t)', Cmd(t)'.op \in DraftOps \cup {"SUBMIT"}
        PROVE  Seen(t)'.ver = draft'.ver
    <2>1. CASE t # s
      BY <1>3, <1>4, <1>8, <2>1 DEF Claims
    <2>2. CASE t = s
      <3>1. Cmd(s).op \in DraftOps \cup {"SUBMIT"} /\ Cmd(s).op \in Ops
        BY <1>3, <1>8, <2>2 DEF Ops, KeyedOps
      <3>2. Wanted(s) = Plan(s)[Len(Plan(s))]
        BY <1>1, <1>2, <1>3, <1>8, <2>2 DEF Ready, Wanted
      <3>3. Wanted(s) = DraftRow
        BY <3>1, <3>2, LastLock DEF Plan, Cmd
      <3>4. e.seen = [status |-> draft.status, ver |-> draft.ver]
        BY <1>1, <3>3 DEF Row, RowLocks
      <3>5. QED
        BY <1>2, <2>2, <3>4 DEF Seen
    <2>3. QED
      BY <2>1, <2>2
  <1>9. QED
    BY <1>6, <1>7, <1>8 DEF Claims

\* A command that writes its record, completed or still in progress, holds its id.
WritesRecord(s, status) ==
    /\ Ready(s) /\ Cmd(s).op \in KeyedOps
    /\ idem' = [idem EXCEPT ![Id(s)] = [cmd |-> Cmd(s), status |-> status]]

LEMMA RecordClaims ==
  ASSUME IInv, Claims, Clients, NEW s \in Slots, Release(s), NEW status, WritesRecord(s, status),
         draft'.ver = draft.ver \/ Cmd(s).op = "SUBMIT"
  PROVE  Claims'
  <1> DEFINE x == [cmd |-> Cmd(s), status |-> status]
  <1>1. Id(s) \in Ids /\ Id(s) \in LocksOf(s) /\ Ready(s)
    BY AllLocks, KnownId DEF WritesRecord
  <1>2. idem' = [idem EXCEPT ![Id(s)] = x] /\ idem = [id \in Ids |-> idem[id]]
    BY DEF WritesRecord, Claims
  <1> HIDE DEF x
  <1>3. idem' = [id \in Ids |-> idem'[id]] /\ \A id \in Ids \ {Id(s)} : idem'[id] = idem[id]
    BY <1>1, <1>2
  <1>4. ASSUME NEW t \in Slots \ {s}, Cmd(t).op \in KeyedOps, Id(t) \in LocksOf(t)
        PROVE  idem'[Id(t)].status = idem[Id(t)].status
    <2>1. Id(t) # Id(s) /\ Id(t) \in Ids
      BY <1>1, <1>4, KnownId DEF Claims, Exclusive
    <2>2. QED
      BY <1>3, <2>1
  <1>5. slot' = [slot EXCEPT ![s] = Empty]
    BY DEF Release
  <1>6. QED
    BY <1>1, <1>3, <1>4, <1>5, EmptySlot, ResetClaims

\* Which commands write their record.
Completes(s) == Release(s) /\ WritesRecord(s, "COMPLETED")

LEMMA Completing ==
  ASSUME NEW s \in Slots,
         \/ Submit(s) \/ ExecuteTransition(s) \/ Route(s) \/ AssignManual(s) \/ Comment(s)
         \/ Vote(s) \/ Settle(s)
  PROVE  Completes(s)
  <1>1. Ready(s) /\ Cmd(s).op \in KeyedOps /\ Release(s) /\ CompleteIdem(s)
    BY DEF Submit, ExecuteTransition, Route, AssignManual, AssignTo, Comment, Vote, Settle,
           Deciding, KeyedOps
  <1>2. QED
    BY <1>1 DEF Completes, WritesRecord, CompleteIdem, Cmd

LEMMA Expiring ==
  ASSUME NEW s \in Slots, ExpireApproval(s)
  PROVE  Release(s) /\ WritesRecord(s, "IN_PROGRESS") /\ UNCHANGED draft
  BY DEF ExpireApproval, Deciding, WritesRecord, KeyedOps

\* The other steps leave all records alone.
LEMMA StepClaims ==
  ASSUME IInv, Clients, Claims, NEW s \in Slots, Step(s)
  PROVE  Claims'
  <1>1. CASE TakesLock(s) /\ UNCHANGED <<draft, idem>>
    BY <1>1, LockClaims
  <1>2. CASE \/ Submit(s) \/ ExecuteTransition(s) \/ Route(s) \/ AssignManual(s) \/ Comment(s)
             \/ Vote(s) \/ Settle(s)
    <2>1. Completes(s)
      BY <1>2, Completing
    <2>2. draft' = draft \/ Cmd(s).op = "SUBMIT"
      BY <1>2 DEF Submit, ExecuteTransition, Route, AssignManual, AssignTo, Comment, Vote, Settle
    <2>3. QED
      BY <2>1, <2>2, RecordClaims DEF Completes
  <1>3. CASE ExpireApproval(s)
    BY <1>3, Expiring, RecordClaims
  <1>4. CASE (Claim(s) \/ Refuse(s) \/ Abort(s) \/ EditDraft(s) \/ ValidateDraft(s) \/ CancelDraft(s))
             /\ Release(s)
    <2>1. /\ idem' = idem
          /\ draft' = draft \/ (Ready(s) /\ Cmd(s).op \in DraftOps)
      BY <1>4 DEF Claim, Refuse, Abort, EditDraft, ValidateDraft, CancelDraft, SetDraft, DraftOps
    <2>2. idem' = [id \in Ids |-> idem'[id]]
      BY <2>1 DEF Claims
    <2>3. slot' = [slot EXCEPT ![s] = Empty]
      BY <1>4 DEF Release
    <2>4. QED
      BY <2>1, <2>2, <2>3, EmptySlot, ResetClaims
  <1>6. CASE LockRow(s) /\ Release(s)
    <2>1. UNCHANGED <<idem, draft>> /\ slot' = [slot EXCEPT ![s] = Empty]
      BY <1>6 DEF LockRow, Release
    <2>2. idem' = [id \in Ids |-> idem'[id]]
      BY <2>1 DEF Claims
    <2>3. QED
      BY <2>1, <2>2, EmptySlot, ResetClaims
  <1>7. QED
    BY <1>1, <1>2, <1>3, <1>4, <1>6, StepSlot DEF Step

LEMMA InitClaims == ASSUME Init PROVE Claims
  <1>1. /\ slot = [s \in Slots |-> Empty] /\ Empty.cmd = NoCommand
        /\ idem = [id \in Ids |-> NoRecord]
    BY DEF Init, Ids, Empty
  <1>2. \A s \in Slots : LocksOf(s) = {} /\ ~Ready(s)
    BY <1>1 DEF LocksOf, Idle, Ready
  <1>3. QED
    BY <1>1, <1>2 DEF Claims, Exclusive

LEMMA NextClaims == ASSUME IInv, Clients, Claims, [Next]_vars PROVE Claims'
  <1>1. CASE UNCHANGED <<slot, idem, draft>>
    <2>1. \A s \in Slots : /\ LocksOf(s)' = LocksOf(s) /\ Cmd(s)' = Cmd(s) /\ Id(s)' = Id(s)
                            /\ Ready(s)' = Ready(s) /\ Seen(s)' = Seen(s)
      BY <1>1 DEF LocksOf, Idle, Plan, Cmd, Id, Ready, Seen
    <2>2. Exclusive'
      BY <2>1 DEF Claims, Exclusive
    <2>3. QED
      BY <1>1, <2>1, <2>2 DEF Claims
  <1>2. ASSUME NEW s \in Slots, Send(s) \/ Repeat(s) PROVE Claims'
    BY <1>2, BeginClaims
  <1>3. ASSUME NEW s \in Slots, Step(s) PROVE Claims'
    BY <1>3, StepClaims
  <1>4. QED
    BY <1>1, <1>2, <1>3 DEF Next, ComeDue, vars

\* A completed command adds its key to the records of its operation.
LEMMA RecordsGrow ==
  ASSUME IInv, Clients, Claims, NEW s \in Slots, Completes(s), NEW op, op = Cmd(s).op,
         NEW key, key = slot[s].key
  PROVE  /\ op \in KeyedOps /\ key \in Keys /\ key \notin Records(op)
         /\ Records(op)' = Records(op) \cup {key}
         /\ \A o \in KeyedOps \ {op} : Records(o)' = Records(o)
         /\ \A o \in KeyedOps \ {op} : \A k \in Keys : idem'[Record(o, k)] = idem[Record(o, k)]
         /\ \A k \in Keys \ {key} : idem'[Record(op, k)] = idem[Record(op, k)]
         /\ idem'[Record(op, key)] = [cmd |-> Cmd(s), status |-> "COMPLETED"]
  <1> DEFINE x == [cmd |-> Cmd(s), status |-> "COMPLETED"]
  <1>1. /\ Ready(s) /\ op \in KeyedOps /\ key \in Keys /\ Id(s) = Record(op, key)
        /\ Id(s) \in Ids /\ Id(s) \in LocksOf(s)
    BY KnownId, AllLocks DEF Completes, WritesRecord
  <1>2. idem' = [idem EXCEPT ![Id(s)] = x] /\ idem = [id \in Ids |-> idem[id]] /\ x.status = "COMPLETED"
    BY DEF Completes, WritesRecord, Claims
  <1> HIDE DEF x
  <1>3. idem'[Id(s)] = x /\ \A id \in Ids : id # Id(s) => idem'[id] = idem[id]
    BY <1>1, <1>2
  <1>4. \A o \in KeyedOps, k \in Keys : /\ Record(o, k) \in Ids
                                        /\ Record(o, k) = Id(s) <=> o = op /\ k = key
    BY <1>1 DEF Ids, Record
  <1>5. idem[Id(s)].status # "COMPLETED"
    BY <1>1 DEF Claims
  <1>6. \A o \in KeyedOps : Records(o)' = {k \in Keys : idem'[Record(o, k)].status = "COMPLETED"}
    BY DEF Records
  <1>7. Records(op)' = Records(op) \cup {key} /\ key \notin Records(op)
    <2>1. \A k \in Keys : idem'[Record(op, k)].status = "COMPLETED"
                            <=> k = key \/ idem[Record(op, k)].status = "COMPLETED"
      BY <1>1, <1>2, <1>3, <1>4
    <2>2. key \in Keys /\ idem[Record(op, key)].status # "COMPLETED"
      BY <1>1, <1>5
    <2>3. Records(op)' = {k \in Keys : idem'[Record(op, k)].status = "COMPLETED"}
      BY <1>1, <1>6
    <2>4. Records(op) = {k \in Keys : idem[Record(op, k)].status = "COMPLETED"}
      BY DEF Records
    <2>5. QED
      BY <2>1, <2>2, <2>3, <2>4
  <1>8. \A o \in KeyedOps \ {op} : Records(o)' = Records(o)
    BY <1>1, <1>3, <1>4, <1>6 DEF Records
  <1>9. QED
    BY <1>1, <1>3, <1>4, <1>7, <1>8 DEF x

\* An approval that is found overdue completes nothing.
LEMMA RecordsKept ==
  ASSUME IInv, Clients, Claims, NEW s \in Slots, WritesRecord(s, "IN_PROGRESS"), Cmd(s).op = "DECIDE"
  PROVE  /\ \A op \in KeyedOps : Records(op)' = Records(op)
         /\ \A op \in KeyedOps \ {"DECIDE"}, k \in Keys : idem'[Record(op, k)] = idem[Record(op, k)]
  <1> DEFINE key == slot[s].key
             x == [cmd |-> Cmd(s), status |-> "IN_PROGRESS"]
  <1>1. /\ key \in Keys /\ Id(s) = Record("DECIDE", key) /\ Id(s) \in Ids /\ Id(s) \in LocksOf(s)
    BY KnownId, AllLocks DEF WritesRecord
  <1>2. idem' = [idem EXCEPT ![Id(s)] = x] /\ idem = [id \in Ids |-> idem[id]]
        /\ x.status = "IN_PROGRESS"
    BY DEF WritesRecord, Claims
  <1> HIDE DEF x
  <1>3. idem'[Id(s)] = x /\ \A id \in Ids : id # Id(s) => idem'[id] = idem[id]
    BY <1>1, <1>2
  <1>4. \A o \in KeyedOps, k \in Keys : /\ Record(o, k) \in Ids
                                        /\ Record(o, k) = Id(s) <=> o = "DECIDE" /\ k = key
    BY <1>1 DEF Ids, Record
  <1>5. idem[Id(s)].status # "COMPLETED"
    BY <1>1 DEF Claims, WritesRecord
  <1>6. \A o \in KeyedOps : Records(o)' = {k \in Keys : idem'[Record(o, k)].status = "COMPLETED"}
    BY DEF Records
  <1>7. \A o \in KeyedOps, k \in Keys :
           idem'[Record(o, k)].status = "COMPLETED" <=> idem[Record(o, k)].status = "COMPLETED"
    BY <1>2, <1>3, <1>4, <1>5
  <1>8. \A o \in KeyedOps : Records(o)' = Records(o)
    BY <1>6, <1>7 DEF Records
  <1>9. QED
    BY <1>3, <1>4, <1>8

-----------------------------------------------------------------------------
(* Forms                                                                   *)

\* Values of known fields, each in the normal form of its type.
NormalForm(values) ==
    \A c \in DOMAIN values :
        /\ c \in DOMAIN Form
        /\ values[c] # Blank => /\ values[c] \in DOMAIN Form[c].norm
                                /\ Form[c].norm[values[c]] = values[c]

LEMMA EnteredNormal ==
  ASSUME NEW n, Enterable(n)
  PROVE  NormalForm(Entered(n))
  <1> DEFINE raw == Answers[n].raw
  <1>1. Entered(n) = [c \in Active(raw) |-> IF Given(raw, c) = Blank THEN Blank
                                            ELSE Form[c].norm[raw[c]]]
    BY DEF Entered, Normalized
  <1>2. \A c \in Active(raw) : /\ c \in DOMAIN Form
                               /\ Given(raw, c) # Blank => raw[c] \in DOMAIN Form[c].norm
    <2>1. Rejected(raw, FALSE) = {}
      BY DEF Enterable
    <2>2. Active(raw) \subseteq DOMAIN Form
      BY DEF Active
    <2>3. \A c \in Active(raw) : Given(raw, c) # Blank => Acceptable(c, raw[c])
      BY <2>1 DEF Rejected
    <2>4. QED
      BY <2>2, <2>3 DEF Acceptable
  <1> HIDE DEF raw
  <1>3. SUFFICES ASSUME NEW c \in Active(raw), Entered(n)[c] # Blank
                 PROVE  /\ Entered(n)[c] \in DOMAIN Form[c].norm
                        /\ Form[c].norm[Entered(n)[c]] = Entered(n)[c]
    BY <1>1, <1>2 DEF NormalForm
  <1>4. raw[c] \in DOMAIN Form[c].norm /\ Entered(n)[c] = Form[c].norm[raw[c]] /\ c \in DOMAIN Form
    BY <1>1, <1>2, <1>3
  <1>5. QED
    BY <1>3, <1>4, FormAssumption

\* Complete answers in normal form are found complete and in normal form again, without
\* the fields that do not apply.
LEMMA CompleteStays ==
  ASSUME NEW v, NormalForm(v), Rejected(v, TRUE) = {}
  PROVE  /\ Rejected(Persisted(Normalized(v)), TRUE) = {}
         /\ Persisted(Normalized(Persisted(Normalized(v)))) = Persisted(Normalized(v))
  <1> DEFINE A == Active(v)
             N == Normalized(v)
             p == Persisted(N)
  <1>1. \A c : Given(v, c) # Blank => c \in A /\ c \in DOMAIN v /\ v[c] = Given(v, c)
    <2>1. TAKE c
    <2>2. HAVE Given(v, c) # Blank
    <2>3. c \in DOMAIN v /\ v[c] = Given(v, c)
      BY <2>2 DEF Given
    <2>4. c \in DOMAIN Form /\ c \in A
      BY <2>2, <2>3 DEF Rejected
    <2>5. QED
      BY <2>3, <2>4
  <1>2. \A c \in A : /\ c \in DOMAIN Form
                     /\ Given(v, c) = Blank => ~Form[c].required
                     /\ Given(v, c) # Blank => /\ Acceptable(c, Given(v, c))
                                               /\ Form[c].norm[Given(v, c)] = Given(v, c)
    <2>1. TAKE c \in A
    <2>2. c \in DOMAIN Form
      BY DEF Active
    <2>3. Given(v, c) = Blank => ~Form[c].required
      BY <2>1 DEF Rejected
    <2>4. Given(v, c) # Blank => Acceptable(c, v[c])
      BY <2>1 DEF Rejected
    <2>5. QED
      BY <1>1, <2>2, <2>3, <2>4 DEF NormalForm
  <1>3. N = [c \in A |-> Given(v, c)]
    <2>1. N = [c \in A |-> IF Given(v, c) = Blank THEN Blank ELSE Form[c].norm[v[c]]]
      BY DEF Normalized
    <2>2. \A c \in A : (IF Given(v, c) = Blank THEN Blank ELSE Form[c].norm[v[c]]) = Given(v, c)
      BY <1>1, <1>2
    <2> HIDE DEF A, N
    <2>3. QED
      BY <2>1, <2>2
  <1> HIDE DEF A, N
  <1>4. p = [c \in {x \in A : Given(v, x) # Blank} |-> Given(v, c)]
    BY <1>3 DEF Persisted
  <1> HIDE DEF p
  <1>5. \A c : Given(p, c) = Given(v, c)
    BY <1>1, <1>4 DEF Given
  <1>6. Active(p) = A
    <2>1. \A q : PredicateMatches(q, Given(p, q.field)) <=> PredicateMatches(q, Given(v, q.field))
      BY <1>5
    <2>2. \A condition : Applies(condition, p) <=> Applies(condition, v)
      BY <2>1 DEF Applies
    <2>3. QED
      BY <2>2 DEF Active, A
  <1>7. Rejected(p, TRUE) = {}
    <2>1. \A c \in DOMAIN p : c \in A /\ c \in DOMAIN Form /\ p[c] = Given(v, c) /\ p[c] # Blank
      BY <1>2, <1>4
    <2>2. \A c \in A : IF Given(p, c) = Blank THEN ~Form[c].required ELSE Acceptable(c, p[c])
      <3>1. TAKE c \in A
      <3>2. CASE Given(p, c) = Blank
        BY <1>2, <1>5, <3>2
      <3>3. CASE Given(p, c) # Blank
        <4>1. Acceptable(c, Given(v, c)) /\ Given(v, c) # Blank
          BY <1>2, <1>5, <3>3
        <4>2. p[c] = Given(v, c)
          BY <1>4, <4>1
        <4>3. QED
          BY <3>3, <4>1, <4>2
      <3>4. QED
        BY <3>2, <3>3
    <2>3. QED
      BY <1>6, <2>1, <2>2 DEF Rejected
  <1>8. Normalized(p) = N
    <2>1. Normalized(p) = [c \in A |-> IF Given(p, c) = Blank THEN Blank ELSE Form[c].norm[p[c]]]
      BY <1>6 DEF Normalized
    <2>2. \A c \in A : (IF Given(p, c) = Blank THEN Blank ELSE Form[c].norm[p[c]]) = Given(v, c)
      <3>1. TAKE c \in A
      <3>2. CASE Given(v, c) = Blank
        BY <1>5, <3>2
      <3>3. CASE Given(v, c) # Blank
        <4>1. p[c] = Given(v, c)
          BY <1>4, <3>3
        <4>2. QED
          BY <1>2, <1>5, <3>3, <4>1
      <3>4. QED
        BY <3>2, <3>3
    <2>3. QED
      BY <1>3, <2>1, <2>2
  <1>9. Persisted(Normalized(p)) = p
    BY <1>8 DEF p
  <1>10. QED
    BY <1>7, <1>9 DEF p, N

-----------------------------------------------------------------------------
(* One ticket for a draft                                                  *)

\* The stored answers are in normal form; the ticket and the completed submission are
\* there once the draft is submitted, and not before.
Origin ==
    /\ NormalForm(draft.values)
    /\ tally \in [tickets : Nat, comments : Nat]
    /\ tally.tickets = (IF draft.status = "SUBMITTED" THEN 1 ELSE 0)
    /\ draft.status # "SUBMITTED" => Records("SUBMIT") = {}
    /\ OneTicketPerDraft

LEMMA OriginKept ==
  ASSUME Origin, draft' = draft, tally' \in [tickets : Nat, comments : Nat],
         tally'.tickets = tally.tickets,
         Records("SUBMIT")' = Records("SUBMIT"),
         \A k \in Keys : idem'[Record("SUBMIT", k)] = idem[Record("SUBMIT", k)],
         ticket'.form = ticket.form, ticket'.values = ticket.values, Exists' => Exists
  PROVE  Origin'
  <1>1. Records("SUBMIT") \subseteq Keys
    BY DEF Records
  <1>2. OneTicketPerDraft'
    <2>1. \A k \in Records("SUBMIT")' : idem'[Record("SUBMIT", k)].cmd.ver = ticket'.form
      BY <1>1 DEF Origin, OneTicketPerDraft
    <2>2. tally'.tickets <= 1 /\ (tally'.tickets = 1 <=> draft'.status = "SUBMITTED")
      BY DEF Origin, OneTicketPerDraft
    <2>3. draft'.status = "READY_FOR_REVIEW" => Complete(draft)'
      BY DEF Origin, OneTicketPerDraft, Complete
    <2>4. Exists' => /\ Rejected(ticket.values, TRUE)' = {}
                     /\ ticket'.values = Persisted(Normalized(ticket.values))'
      BY DEF Origin, OneTicketPerDraft, Exists
    <2>5. QED
      BY <2>1, <2>2, <2>3, <2>4 DEF OneTicketPerDraft, Exists
  <1>3. QED
    BY <1>2 DEF Origin

LEMMA OriginQuiet ==
  ASSUME Origin, UNCHANGED <<draft, ticket, idem, tally>>
  PROVE  Origin'
  <1>1. Records("SUBMIT")' = Records("SUBMIT")
    BY DEF Records
  <1>2. QED
    BY <1>1, OriginKept DEF Origin, Exists

\* What a transition and an assignment leave alone.
LEMMA SameForm ==
  ASSUME NEW t, IsTicket(t)
  PROVE  /\ \A status, filled : LET u == [t EXCEPT !.status = status, !.ver = @ + 1, !.filled = filled]
                                IN  u.form = t.form /\ u.values = t.values
         /\ \A holder : LET u == [t EXCEPT !.holder = holder, !.ver = @ + 1]
                        IN  u.form = t.form /\ u.values = t.values /\ u.status = t.status
  BY DEF IsTicket

LEMMA OriginCommand ==
  ASSUME IInv, Clients, Claims, Origin, NEW s \in Slots,
         ExecuteTransition(s) \/ Route(s) \/ AssignManual(s) \/ Comment(s) \/ Vote(s) \/ Settle(s)
  PROVE  Origin'
  <1>1. Completes(s) /\ draft' = draft /\ Cmd(s).op # "SUBMIT"
    BY Completing DEF ExecuteTransition, Route, AssignManual, AssignTo, Comment, Vote, Settle, Deciding
  <1>2. /\ Records("SUBMIT")' = Records("SUBMIT")
        /\ \A k \in Keys : idem'[Record("SUBMIT", k)] = idem[Record("SUBMIT", k)]
    <2>1. PICK op, key : op = Cmd(s).op /\ key = slot[s].key
      OBVIOUS
    <2>2. "SUBMIT" \in KeyedOps \ {op}
      BY <1>1, <2>1 DEF KeyedOps
    <2>3. /\ \A o \in KeyedOps \ {op} : Records(o)' = Records(o)
          /\ \A o \in KeyedOps \ {op} : \A k \in Keys : idem'[Record(o, k)] = idem[Record(o, k)]
      BY <1>1, <2>1, RecordsGrow, ZenonT(60)
    <2>4. QED
      BY <2>2, <2>3
  <1>3. tally' \in [tickets : Nat, comments : Nat] /\ tally'.tickets = tally.tickets
    <2>1. tally' = tally \/ tally' = [tally EXCEPT !.comments = @ + 1]
      BY DEF ExecuteTransition, Route, AssignManual, AssignTo, Comment, Vote, Settle
    <2>2. tally \in [tickets : Nat, comments : Nat] /\ tally.comments + 1 \in Nat
      BY DEF Origin
    <2>3. QED
      BY <2>1, <2>2
  <1>4. ticket'.form = ticket.form /\ ticket'.values = ticket.values /\ (Exists' => Exists)
    <2>1. IsTicket(ticket)
      BY DEF IInv, RowTypes
    <2>2. CASE ExecuteTransition(s) \/ Settle(s)
      <3>1. PICK w, given : w \in Workflow /\ w.from = ticket.status /\ Move(w, given)
        BY <2>2 DEF ExecuteTransition, Settle, Executable, TicketUnmoved
      <3>2. Exists
        BY <3>1, WorkflowShape DEF Exists
      <3>3. QED
        BY <2>1, <3>1, <3>2, SameForm DEF Move
    <2>3. CASE Route(s) \/ AssignManual(s)
      <3>1. PICK holder, by : AssignTo(s, holder, by)
        BY <2>3 DEF Route, AssignManual
      <3>2. QED
        BY <2>1, <3>1, SameForm DEF AssignTo, Exists
    <2>4. CASE Comment(s) \/ Vote(s)
      BY <2>4 DEF Comment, Vote, Exists
    <2>5. QED
      BY <2>2, <2>3, <2>4
  <1>5. QED
    BY <1>1, <1>2, <1>3, <1>4, OriginKept

\* An edit, a validation and a cancellation of an open draft.
LEMMA RevisedValues ==
  ASSUME NEW d, IsDraft(d), NEW n
  PROVE  Revised(d, n).status = "DRAFT" /\ Revised(d, n).values = Entered(n)
  <1> DEFINE values == Entered(n)
             level == Answers[n].level
  <1>1. Revised(d, n) = [d EXCEPT !.status = "DRAFT", !.ver = @ + 1, !.values = values,
                                  !.level = level]
    BY DEF Revised
  <1> HIDE DEF values, level
  <1>2. Revised(d, n).status = "DRAFT" /\ Revised(d, n).values = values
    BY <1>1 DEF IsDraft
  <1>3. QED
    BY <1>2 DEF values

\* An edit, a validation and a cancellation of an open draft.
LEMMA OriginDraft ==
  ASSUME IInv, Origin, NEW s \in Slots, EditDraft(s) \/ ValidateDraft(s) \/ CancelDraft(s)
  PROVE  Origin'
  <1>1. UNCHANGED <<ticket, idem, tally>> /\ IsDraft(draft) /\ Records("SUBMIT")' = Records("SUBMIT")
    BY DEF EditDraft, ValidateDraft, CancelDraft, SetDraft, IInv, RowTypes, Records
  <1>2. CASE EditDraft(s)
    <2> DEFINE n == Cmd(s).arg
    <2>1. draft' = Revised(draft, n) /\ Enterable(n)
      BY <1>2 DEF EditDraft
    <2>2. draft'.status = "DRAFT" /\ draft'.values = Entered(n)
      BY <1>1, <2>1, RevisedValues
    <2>3. AsSeen(s, draft)
      BY <1>2 DEF EditDraft, IInv, Current, DraftOps
    <2>4. draft.status \in OpenDraft
      BY <1>2, <2>3 DEF EditDraft, Fresh, AsSeen
    <2>5. NormalForm(draft'.values)
      BY <2>1, <2>2, EnteredNormal
    <2> HIDE DEF n
    <2>6. OneTicketPerDraft'
      BY <1>1, <2>2, <2>4 DEF Origin, OneTicketPerDraft, OpenDraft
    <2>7. QED
      BY <1>1, <2>2, <2>4, <2>5, <2>6 DEF Origin, OpenDraft
  <1>3. ASSUME NEW status \in {"READY_FOR_REVIEW", "CANCELLED"}, SetDraft(s, status),
               status = "READY_FOR_REVIEW" => Complete(draft)
        PROVE  Origin'
    <2>1. draft'.status = status /\ draft'.values = draft.values /\ draft.status \in OpenDraft
      BY <1>1, <1>3 DEF SetDraft, IsDraft
    <2>2. Complete(draft)' <=> Complete(draft)
      BY <2>1 DEF Complete
    <2>3. OneTicketPerDraft'
      BY <1>1, <1>3, <2>1, <2>2 DEF Origin, OneTicketPerDraft, OpenDraft
    <2>4. QED
      BY <1>1, <1>3, <2>1, <2>3 DEF Origin, OpenDraft
  <1>4. QED
    BY <1>2, <1>3 DEF ValidateDraft, CancelDraft

\* submit and finish_submission: the ticket is made of the version that was confirmed,
\* which the lock of the draft still guards.
LEMMA OriginSubmit ==
  ASSUME IInv, Clients, Claims, Origin, NEW s \in Slots, Submit(s)
  PROVE  Origin'
  <1>1. Completes(s) /\ Ready(s) /\ Cmd(s).op = "SUBMIT" /\ draft.status # "SUBMITTED"
    BY Completing DEF Submit, Submitted
  <1>2. draft'.status = "SUBMITTED" /\ draft'.values = draft.values
    <2>1. draft' = [draft EXCEPT !.status = "SUBMITTED", !.ver = @ + 1] /\ IsDraft(draft)
      BY DEF Submit, Submitted, IInv, RowTypes
    <2>2. QED
      BY <2>1 DEF IsDraft
  <1>3. tally' \in [tickets : Nat, comments : Nat] /\ tally'.tickets = 1
    BY <1>1 DEF Submit, Origin
  <1>4. draft.ver = Cmd(s).ver
    BY <1>1 DEF Claims, Submit, Submittable, Fresh
  <1>5. PICK key : key = slot[s].key
    OBVIOUS
  <1>6. Records("SUBMIT")' = {key} /\ idem'[Record("SUBMIT", key)].cmd = Cmd(s)
    <2>1. /\ Records("SUBMIT")' = Records("SUBMIT") \cup {key}
          /\ idem'[Record("SUBMIT", key)] = [cmd |-> Cmd(s), status |-> "COMPLETED"]
      BY <1>1, <1>5, RecordsGrow
    <2>2. QED
      BY <1>1, <2>1 DEF Origin
  <1>7. /\ ticket'.form = draft.ver
        /\ ticket'.values = Persisted(Normalized(draft.values))
    BY NewTicket DEF Submit
  <1>8. /\ Rejected(ticket'.values, TRUE) = {}
        /\ ticket'.values = Persisted(Normalized(ticket'.values))
    BY <1>7, CompleteStays DEF Submit, Complete, Origin
  <1>9. OneTicketPerDraft'
    <2>1. \A k \in Records("SUBMIT")' : idem'[Record("SUBMIT", k)].cmd.ver = ticket'.form
      BY <1>4, <1>6, <1>7
    <2>2. tally'.tickets <= 1 /\ (tally'.tickets = 1 <=> draft'.status = "SUBMITTED")
      BY <1>2, <1>3
    <2>3. draft'.status # "READY_FOR_REVIEW"
      BY <1>2
    <2>4. QED
      BY <1>8, <2>1, <2>2, <2>3 DEF OneTicketPerDraft
  <1>10. QED
    BY <1>2, <1>3, <1>9 DEF Origin

LEMMA StepOrigin ==
  ASSUME IInv, Clients, Claims, Origin, NEW s \in Slots, Step(s)
  PROVE  Origin'
  <1>1. CASE LockRow(s) \/ Claim(s) \/ Refuse(s) \/ Abort(s)
    BY <1>1, OriginQuiet DEF LockRow, Claim, Refuse, Abort
  <1>2. CASE EditDraft(s) \/ ValidateDraft(s) \/ CancelDraft(s)
    BY <1>2, OriginDraft
  <1>3. CASE Submit(s)
    BY <1>3, OriginSubmit
  <1>4. CASE ExecuteTransition(s) \/ Route(s) \/ AssignManual(s) \/ Comment(s) \/ Vote(s) \/ Settle(s)
    BY <1>4, OriginCommand
  <1>5. CASE ExpireApproval(s)
    <2>1. UNCHANGED <<draft, ticket, tally>> /\ Cmd(s).op = "DECIDE" /\ WritesRecord(s, "IN_PROGRESS")
      BY <1>5, Expiring DEF ExpireApproval, Deciding
    <2>2. /\ Records("SUBMIT")' = Records("SUBMIT")
          /\ \A k \in Keys : idem'[Record("SUBMIT", k)] = idem[Record("SUBMIT", k)]
      BY <2>1, RecordsKept DEF KeyedOps
    <2>3. QED
      BY <2>1, <2>2, OriginKept DEF Origin, Exists
  <1>6. QED
    BY <1>1, <1>2, <1>3, <1>4, <1>5 DEF Step

LEMMA InitOrigin == ASSUME Init PROVE Origin
  <1>1. PICK n \in DOMAIN Answers : Enterable(n) /\ draft = CreateDraft(n)
    BY DEF Init
  <1>2. draft.status = "DRAFT" /\ draft.values = Entered(n)
    <2> DEFINE values == Entered(n)
               level == Answers[n].level
    <2>1. draft = [status |-> "DRAFT", ver |-> 1, values |-> values, level |-> level]
      BY <1>1 DEF CreateDraft
    <2> HIDE DEF values, level
    <2>2. draft.status = "DRAFT" /\ draft.values = values
      BY <2>1
    <2>3. QED
      BY <2>2 DEF values
  <1>3. NormalForm(draft.values)
    BY <1>1, <1>2, EnteredNormal
  <1>4. tally = [tickets |-> 0, comments |-> 0] /\ ticket.status = "NONE"
    BY DEF Init, NoTicket
  <1>5. \A op \in KeyedOps : Records(op) = {}
    BY DEF Init, Records, NoRecord
  <1>6. Records("SUBMIT") = {}
    BY <1>5 DEF KeyedOps
  <1>7. OneTicketPerDraft
    BY <1>2, <1>4, <1>6 DEF OneTicketPerDraft
  <1>8. QED
    BY <1>2, <1>3, <1>4, <1>6, <1>7 DEF Origin

LEMMA NextOrigin == ASSUME IInv, Clients, Claims, Origin, [Next]_vars PROVE Origin'
  <1>1. CASE UNCHANGED <<draft, ticket, idem, tally>>
    BY <1>1, OriginQuiet
  <1>2. ASSUME NEW s \in Slots, Step(s) PROVE Origin'
    BY <1>2, StepOrigin
  <1>3. QED
    BY <1>1, <1>2 DEF Next, ComeDue, Send, Repeat, vars

-----------------------------------------------------------------------------
(* Counting                                                                *)

Typed(F, type) == {f \in F : f.type = type}

\* A fact that is new counts once, for its type.
LEMMA OneMoreFact ==
  ASSUME NEW F, IsFiniteSet(F), NEW f
  PROVE  /\ IsFiniteSet(F \cup {f})
         /\ \A type : Cardinality(Typed(F, type)) \in Nat
         /\ f \notin F => Cardinality(Typed(F \cup {f}, f.type)) = Cardinality(Typed(F, f.type)) + 1
         /\ \A type : type # f.type => Typed(F \cup {f}, type) = Typed(F, type)
  <1>1. IsFiniteSet(F \cup {f})
    BY FS_AddElement
  <1>2. \A type : IsFiniteSet(Typed(F, type)) /\ Cardinality(Typed(F, type)) \in Nat
    BY FS_Subset, FS_CardinalityType DEF Typed
  <1>3. ASSUME f \notin F
        PROVE  Cardinality(Typed(F \cup {f}, f.type)) = Cardinality(Typed(F, f.type)) + 1
    <2>1. /\ Typed(F \cup {f}, f.type) = Typed(F, f.type) \cup {f}
          /\ f \notin Typed(F, f.type)
      BY <1>3 DEF Typed
    <2>2. QED
      BY <1>2, <2>1, FS_AddElement
  <1>4. \A type : type # f.type => Typed(F \cup {f}, type) = Typed(F, type)
    BY DEF Typed
  <1>5. QED
    BY <1>1, <1>2, <1>3, <1>4

\* So does a row that is appended, if it is one of those counted.
Analysts(h) == {i \in 1 .. Len(h) : h[i].kind # "continue"}
Holders(h) == {i \in 1 .. Len(h) : h[i].to.who # Nobody}

LEMMA OneMoreTransition ==
  ASSUME NEW h \in Seq(Workflow), NEW w
  PROVE  /\ Cardinality(Analysts(h)) \in Nat
         /\ Cardinality(Analysts(Append(h, w))) =
              Cardinality(Analysts(h)) + (IF w.kind # "continue" THEN 1 ELSE 0)
  <1> DEFINE S == Analysts(h)
             T == Analysts(Append(h, w))
  <1>1. IsSeq(h)
    BY DEF IsSeq
  <1>2. /\ Len(h) \in Nat /\ 1 .. Len(Append(h, w)) = 1 .. Len(h) \cup {Len(h) + 1}
        /\ \A i \in 1 .. Len(h) : Append(h, w)[i] = h[i]
        /\ Append(h, w)[Len(h) + 1] = w
        /\ Len(h) + 1 \notin 1 .. Len(h)
    BY <1>1, AppendSeq
  <1>3. IsFiniteSet(S) /\ Cardinality(S) \in Nat /\ Len(h) + 1 \notin S
    <2>1. S \in SUBSET (1 .. Len(h)) /\ IsFiniteSet(1 .. Len(h))
      BY <1>2, FS_Interval DEF Analysts, Holders
    <2>2. QED
      BY <1>2, <2>1, FS_Subset, FS_CardinalityType
  <1>4. T = IF w.kind # "continue" THEN S \cup {Len(h) + 1} ELSE S
    BY <1>2 DEF Analysts
  <1>5. Cardinality(T) = Cardinality(S) + (IF w.kind # "continue" THEN 1 ELSE 0)
    <2> HIDE DEF S, T
    <2>1. CASE w.kind # "continue"
      BY <1>3, <1>4, <2>1, FS_AddElement
    <2>2. CASE ~(w.kind # "continue")
      BY <1>3, <1>4, <2>2
    <2>3. QED
      BY <2>1, <2>2
  <1>6. QED
    BY <1>3, <1>5

LEMMA OneMoreAssignment ==
  ASSUME NEW h, IsSeq(h), NEW x
  PROVE  /\ Cardinality(Holders(h)) \in Nat
         /\ Cardinality(Holders(Append(h, x))) =
              Cardinality(Holders(h)) + (IF x.to.who # Nobody THEN 1 ELSE 0)
  <1> DEFINE S == Holders(h)
             T == Holders(Append(h, x))
  <1>2. /\ Len(h) \in Nat /\ 1 .. Len(Append(h, x)) = 1 .. Len(h) \cup {Len(h) + 1}
        /\ \A i \in 1 .. Len(h) : Append(h, x)[i] = h[i]
        /\ Append(h, x)[Len(h) + 1] = x
        /\ Len(h) + 1 \notin 1 .. Len(h)
    BY AppendSeq
  <1>3. IsFiniteSet(S) /\ Cardinality(S) \in Nat /\ Len(h) + 1 \notin S
    <2>1. S \in SUBSET (1 .. Len(h)) /\ IsFiniteSet(1 .. Len(h))
      BY <1>2, FS_Interval DEF Analysts, Holders
    <2>2. QED
      BY <1>2, <2>1, FS_Subset, FS_CardinalityType
  <1>4. T = IF x.to.who # Nobody THEN S \cup {Len(h) + 1} ELSE S
    BY <1>2 DEF Holders
  <1>5. Cardinality(T) = Cardinality(S) + (IF x.to.who # Nobody THEN 1 ELSE 0)
    <2> HIDE DEF S, T
    <2>1. CASE x.to.who # Nobody
      BY <1>3, <1>4, <2>1, FS_AddElement
    <2>2. CASE ~(x.to.who # Nobody)
      BY <1>3, <1>4, <2>2
    <2>3. QED
      BY <2>1, <2>2
  <1>6. QED
    BY <1>3, <1>5

\* The records are finitely many, and a completed command is one more of its operation.
LEMMA FiniteRecords ==
  ASSUME NEW S \in SUBSET Keys
  PROVE  IsFiniteSet(S) /\ Cardinality(S) \in Nat
  <1>1. IsFiniteSet(Keys)
    BY DeskAssumption, FS_Interval DEF Keys
  <1>2. QED
    BY <1>1, FS_Subset, FS_CardinalityType

LEMMA OneMoreRecord ==
  ASSUME IInv, Clients, Claims, NEW s \in Slots, Completes(s), NEW op, op = Cmd(s).op
  PROVE  /\ \A o \in KeyedOps : Cardinality(Records(o)) \in Nat
         /\ Cardinality(Records(op)') = Cardinality(Records(op)) + 1
         /\ \A o \in KeyedOps \ {op} : Records(o)' = Records(o)
         /\ Cardinality(Remarked) \in Nat
         /\ Cardinality(Remarked') = Cardinality(Remarked) +
              (IF op = "TRANSITION" /\ Cmd(s).more = "remark" THEN 1 ELSE 0)
  <1>1. PICK key : key = slot[s].key
    OBVIOUS
  <1>2. /\ op \in KeyedOps /\ key \in Keys /\ key \notin Records(op)
        /\ Records(op)' = Records(op) \cup {key}
        /\ \A o \in KeyedOps \ {op} : Records(o)' = Records(o)
        /\ \A o \in KeyedOps \ {op} : \A k \in Keys : idem'[Record(o, k)] = idem[Record(o, k)]
        /\ \A k \in Keys \ {key} : idem'[Record(op, k)] = idem[Record(op, k)]
        /\ idem'[Record(op, key)] = [cmd |-> Cmd(s), status |-> "COMPLETED"]
    BY <1>1, RecordsGrow
  <1>3. \A o : Records(o) \in SUBSET Keys
    BY DEF Records
  <1>4. \A o \in KeyedOps : IsFiniteSet(Records(o)) /\ Cardinality(Records(o)) \in Nat
    BY <1>3, FiniteRecords
  <1>5. Cardinality(Records(op)') = Cardinality(Records(op)) + 1
    BY <1>2, <1>4, FS_AddElement
  <1>6. Remarked \in SUBSET Keys /\ IsFiniteSet(Remarked) /\ Cardinality(Remarked) \in Nat
    <2>1. Remarked \in SUBSET Keys
      BY <1>3 DEF Remarked
    <2>2. QED
      BY <2>1, FiniteRecords
  <1>7. Cardinality(Remarked') = Cardinality(Remarked) +
          (IF op = "TRANSITION" /\ Cmd(s).more = "remark" THEN 1 ELSE 0)
    <2>1. /\ Remarked = {k \in Records("TRANSITION") : idem[Record("TRANSITION", k)].cmd.more = "remark"}
          /\ Remarked' = {k \in Records("TRANSITION")' : idem'[Record("TRANSITION", k)].cmd.more = "remark"}
      BY DEF Remarked
    <2>2. CASE op = "TRANSITION"
      <3>1. Remarked' = IF Cmd(s).more = "remark" THEN Remarked \cup {key} ELSE Remarked
        <4>1. idem'[Record("TRANSITION", key)].cmd.more = Cmd(s).more
          BY <1>2, <2>2
        <4>2. \A k \in Records("TRANSITION") :
                 idem'[Record("TRANSITION", k)] = idem[Record("TRANSITION", k)]
          BY <1>2, <1>3, <2>2
        <4>3. Records("TRANSITION")' = Records("TRANSITION") \cup {key}
          BY <1>2, <2>2
        <4>4. QED
          BY <2>1, <4>1, <4>2, <4>3
      <3>2. key \notin Remarked
        BY <1>2, <2>1, <2>2
      <3>3. CASE Cmd(s).more = "remark"
        BY <1>6, <2>2, <3>1, <3>2, <3>3, FS_AddElement
      <3>4. CASE Cmd(s).more # "remark"
        BY <1>6, <3>1, <3>4
      <3>5. QED
        BY <3>3, <3>4
    <2>3. CASE op # "TRANSITION"
      <3>1. "TRANSITION" \in KeyedOps \ {op}
        BY <2>3 DEF KeyedOps
      <3>2. Records("TRANSITION")' = Records("TRANSITION")
        BY <1>2, <3>1
      <3>3. \A k \in Records("TRANSITION") :
                 idem'[Record("TRANSITION", k)] = idem[Record("TRANSITION", k)]
        BY <1>2, <1>3, <3>1
      <3>4. Remarked' = Remarked
        BY <2>1, <3>2, <3>3
      <3>5. QED
        BY <1>6, <2>3, <3>4
    <2>4. QED
      BY <2>2, <2>3
  <1>8. QED
    BY <1>2, <1>4, <1>5, <1>6, <1>7

-----------------------------------------------------------------------------
(* Rows and facts                                                          *)

\* The facts of the ticket and of its approval are keyed by versions that are past, so the
\* next one is new; nobody has voted before an approval is requested.
Effects ==
    /\ IsFiniteSet(facts) /\ ticket.ver \in Nat /\ (~Exists => ticket.ver = 0)
    /\ \A f \in facts :
         /\ f.type \in {"NOTIFY_STATUS_CHANGED", "NOTIFY_TICKET_ASSIGNED"} =>
              f.n \in Nat /\ f.n <= ticket.ver
         /\ f.type = "APPROVAL_DECIDED" => f.n \in Nat /\ f.n <= approval.ver
    /\ approval.status = "NONE" => Voters = {}
    /\ EffectsMatchRecords

LEMMA SameCounts ==
  /\ history' = history => Assigned' = Assigned
  /\ trail' = trail => ByAnalyst' = ByAnalyst
  /\ facts' = facts => \A type : Announced(type)' = Announced(type)
  /\ approval' = approval => Voters' = Voters
  /\ idem' = idem => Remarked' = Remarked /\ \A op : Records(op)' = Records(op)
  <1>1. idem' = idem => \A op : Records(op)' = Records(op)
    BY DEF Records
  <1>2. idem' = idem => Remarked' = Remarked
    BY <1>1 DEF Remarked
  <1>3. QED
    BY <1>1, <1>2 DEF Assigned, ByAnalyst, Announced, Voters

LEMMA EffectsQuiet ==
  ASSUME Effects, UNCHANGED <<ticket, history, approval, idem, tally, trail, facts>>
  PROVE  Effects'
  <1>1. EffectsMatchRecords'
    BY SameCounts DEF Effects, EffectsMatchRecords
  <1>2. QED
    BY <1>1, SameCounts DEF Effects, Exists

LEMMA TypedFacts ==
  \A type : /\ Announced(type) = Cardinality(Typed(facts, type))
            /\ Announced(type)' = Cardinality(Typed(facts', type))
  BY DEF Announced, Typed

LEMMA FactFields == \A type, n : Fact(type, n).type = type /\ Fact(type, n).n = n
  BY DEF Fact

\* One new fact.
LEMMA OneAnnounced ==
  ASSUME IsFiniteSet(facts), NEW f, facts' = facts \cup {f}
  PROVE  /\ IsFiniteSet(facts') /\ \A type : Announced(type) \in Nat
         /\ f \notin facts => Announced(f.type)' = Announced(f.type) + 1
         /\ \A type : type # f.type => Announced(type)' = Announced(type)
  BY OneMoreFact, TypedFacts

LEMMA EffectsSubmit ==
  ASSUME IInv, Clients, Claims, Origin, Effects, NEW s \in Slots, Submit(s)
  PROVE  Effects'
  <1>1. Completes(s) /\ Cmd(s).op = "SUBMIT" /\ UNCHANGED <<history, approval, trail, facts>>
    BY Completing DEF Submit
  <1>2. /\ Cardinality(Records("SUBMIT")) \in Nat
        /\ Cardinality(Records("SUBMIT")') = Cardinality(Records("SUBMIT")) + 1
        /\ \A o \in KeyedOps \ {"SUBMIT"} : Records(o)' = Records(o)
        /\ Cardinality(Remarked') = Cardinality(Remarked) + 0
        /\ Cardinality(Remarked) \in Nat
    BY <1>1, OneMoreRecord DEF KeyedOps
  <1>3. tally'.tickets = tally.tickets + 1 /\ tally'.comments = tally.comments
    BY DEF Submit, Origin
  <1>4. ticket'.ver = 1 /\ Exists' /\ ~Exists
    BY NewTicket DEF Submit, Submitted, IInv, Stages, Exists
  <1>5. EffectsMatchRecords'
    BY <1>1, <1>2, <1>3, SameCounts DEF Effects, EffectsMatchRecords, KeyedOps
  <1>6. QED
    BY <1>1, <1>4, <1>5, SameCounts DEF Effects

LEMMA EffectsComment ==
  ASSUME IInv, Clients, Claims, Origin, Effects, NEW s \in Slots, Comment(s)
  PROVE  Effects'
  <1>1. /\ Completes(s) /\ Cmd(s).op = "COMMENT"
        /\ UNCHANGED <<ticket, history, approval, trail, facts>>
    BY Completing DEF Comment
  <1>2. /\ Cardinality(Records("COMMENT")) \in Nat
        /\ Cardinality(Records("COMMENT")') = Cardinality(Records("COMMENT")) + 1
        /\ \A o \in KeyedOps \ {"COMMENT"} : Records(o)' = Records(o)
        /\ Cardinality(Remarked') = Cardinality(Remarked) + 0
        /\ Cardinality(Remarked) \in Nat
    BY <1>1, OneMoreRecord DEF KeyedOps
  <1>3. tally'.tickets = tally.tickets /\ tally'.comments = tally.comments + 1
    BY DEF Comment, Origin
  <1>4. EffectsMatchRecords'
    BY <1>1, <1>2, <1>3, SameCounts DEF Effects, EffectsMatchRecords, KeyedOps
  <1>5. QED
    BY <1>1, <1>4, SameCounts DEF Effects, Exists

LEMMA EffectsAssign ==
  ASSUME IInv, Clients, Claims, Path, Effects, NEW s \in Slots, NEW op \in {"ROUTE", "MANUAL"},
         op = Cmd(s).op, NEW holder, NEW by, AssignTo(s, holder, by), Completes(s), Exists
  PROVE  Effects'
  <1> DEFINE x == [from |-> ticket.holder, to |-> holder, by |-> by]
             f == Fact("NOTIFY_TICKET_ASSIGNED", ticket.ver + 1)
  <1>1. /\ ticket'.ver = ticket.ver + 1 /\ ticket'.status = ticket.status
        /\ UNCHANGED <<approval, tally, trail>>
    BY DEF AssignTo, IInv, RowTypes, IsTicket
  <1>2. /\ Cardinality(Records(op)) \in Nat
        /\ Cardinality(Records(op)') = Cardinality(Records(op)) + 1
        /\ \A o \in KeyedOps \ {op} : Records(o)' = Records(o)
        /\ Cardinality(Remarked') = Cardinality(Remarked) + 0
        /\ Cardinality(Remarked) \in Nat
        /\ \A o \in KeyedOps : Cardinality(Records(o)) \in Nat
    BY OneMoreRecord DEF KeyedOps
  <1>3. history' = Append(history, x) /\ IsSeq(history) /\ x.to = holder
    BY DEF AssignTo, Path
  <1>4. /\ Len(history') = Len(history) + 1 /\ Len(history) \in Nat
        /\ Cardinality(Assigned) \in Nat
        /\ Cardinality(Assigned') = Cardinality(Assigned) + (IF holder.who # Nobody THEN 1 ELSE 0)
    <2> HIDE DEF x
    <2>1. Len(history') = Len(history) + 1 /\ Len(history) \in Nat
      BY <1>3, AppendSeq
    <2>2. Assigned = Holders(history) /\ Assigned' = Holders(history')
      BY DEF Assigned, Holders
    <2>3. QED
      BY <1>3, <2>1, <2>2, OneMoreAssignment
  <1>5. facts' = IF holder.who = Nobody THEN facts ELSE facts \cup {f}
    BY DEF AssignTo
  <1>6. f.type = "NOTIFY_TICKET_ASSIGNED" /\ f.n = ticket.ver + 1
    BY FactFields
  <1> HIDE DEF f, x
  <1>7. f \notin facts /\ ticket.ver \in Nat
    BY <1>6 DEF Effects
  <1>8. /\ IsFiniteSet(facts')
        /\ Announced("NOTIFY_TICKET_ASSIGNED")' =
             Announced("NOTIFY_TICKET_ASSIGNED") + (IF holder.who # Nobody THEN 1 ELSE 0)
        /\ \A type : type # "NOTIFY_TICKET_ASSIGNED" => Announced(type)' = Announced(type)
    <2>1. IsFiniteSet(facts)
      BY DEF Effects
    <2>2. CASE holder.who # Nobody
      <3>1. facts' = facts \cup {f}
        BY <1>5, <2>2
      <3>2. /\ IsFiniteSet(facts')
            /\ Announced("NOTIFY_TICKET_ASSIGNED")' = Announced("NOTIFY_TICKET_ASSIGNED") + 1
        BY <1>6, <1>7, <2>1, <3>1, OneAnnounced
      <3>3. ASSUME NEW type, type # "NOTIFY_TICKET_ASSIGNED"
            PROVE  Announced(type)' = Announced(type)
        BY <1>6, <2>1, <3>1, <3>3, OneAnnounced
      <3>4. QED
        BY <2>2, <3>2, <3>3
    <2>3. CASE holder.who = Nobody
      <3>1. facts' = facts
        BY <1>5, <2>3
      <3>2. Announced("NOTIFY_TICKET_ASSIGNED") \in Nat
        BY <2>1, FS_Subset, FS_CardinalityType DEF Announced
      <3>3. QED
        BY <2>1, <2>3, <3>1, <3>2, SameCounts
    <2>4. QED
      BY <2>2, <2>3
  <1>9. Len(history') = Cardinality(Records("ROUTE")') + Cardinality(Records("MANUAL")')
    <2>1. CASE op = "ROUTE"
      BY <1>2, <1>4, <2>1 DEF Effects, EffectsMatchRecords, KeyedOps
    <2>2. CASE op = "MANUAL"
      BY <1>2, <1>4, <2>2 DEF Effects, EffectsMatchRecords, KeyedOps
    <2>3. QED
      BY <2>1, <2>2
  <1>10. EffectsMatchRecords'
    <2>1. \A o \in {"SUBMIT", "COMMENT", "TRANSITION", "DECIDE"} : Records(o)' = Records(o)
      BY <1>2 DEF KeyedOps
    <2>2. Cardinality(Remarked') = Cardinality(Remarked)
      BY <1>2
    <2>3. ByAnalyst' = ByAnalyst /\ Voters' = Voters
      BY <1>1, SameCounts
    <2>4. Announced("NOTIFY_TICKET_ASSIGNED")' = Cardinality(Assigned)'
      BY <1>4, <1>8 DEF Effects, EffectsMatchRecords
    <2>5. \A type \in {"NOTIFY_STATUS_CHANGED", "APPROVAL_DECIDED", "APPROVAL_WORKFLOW"} :
             Announced(type)' = Announced(type)
      BY <1>8
    <2>6. QED
      BY <1>1, <1>9, <2>1, <2>2, <2>3, <2>4, <2>5 DEF Effects, EffectsMatchRecords
  <1>11. \A g \in facts' :
           /\ g.type \in {"NOTIFY_STATUS_CHANGED", "NOTIFY_TICKET_ASSIGNED"} =>
                g.n \in Nat /\ g.n <= ticket'.ver
           /\ g.type = "APPROVAL_DECIDED" => g.n \in Nat /\ g.n <= approval'.ver
    BY <1>1, <1>5, <1>6, <1>7 DEF Effects
  <1>12. QED
    BY <1>1, <1>7, <1>8, <1>10, <1>11, SameCounts DEF Effects, Exists

\* A move of the ticket: its path, and the facts that announce it.
LEMMA Moved ==
  ASSUME IInv, Path, NEW w, NEW given, Move(w, given), Exists
  PROVE  /\ ticket'.ver = ticket.ver + 1 /\ ticket'.status = w.to
         /\ Len(trail') = Len(trail) + 1 /\ Len(trail) \in Nat
         /\ Cardinality(ByAnalyst) \in Nat
         /\ Cardinality(ByAnalyst') = Cardinality(ByAnalyst) + (IF w.kind # "continue" THEN 1 ELSE 0)
  <1> DEFINE filled == ((ticket.filled \cup given) \ Cleared(w)) \cup Filled(w)
  <1>1. ticket'.ver = ticket.ver + 1 /\ ticket'.status = w.to
    <2>1. ticket' = [ticket EXCEPT !.status = w.to, !.ver = @ + 1, !.filled = filled]
          /\ IsTicket(ticket)
      BY DEF Move, IInv, RowTypes, IsTicket
    <2> HIDE DEF filled
    <2>2. QED
      BY <2>1 DEF IsTicket
  <1>2. trail' = Append(trail, w) /\ trail \in Seq(Workflow) /\ IsSeq(trail)
    BY DEF Move, Path, IsSeq
  <1>3. ByAnalyst = Analysts(trail) /\ ByAnalyst' = Analysts(trail')
    BY DEF ByAnalyst, Analysts
  <1>4. QED
    BY <1>1, <1>2, <1>3, AppendSeq, OneMoreTransition

LEMMA EffectsTransition ==
  ASSUME IInv, Clients, Claims, Path, Origin, Effects, NEW s \in Slots, ExecuteTransition(s)
  PROVE  Effects'
  <1> DEFINE f == Fact("NOTIFY_STATUS_CHANGED", ticket.ver + 1)
             g == Fact("APPROVAL_REQUESTED", 1)
  <1>1. Completes(s) /\ Cmd(s).op = "TRANSITION" /\ UNCHANGED history
    BY Completing DEF ExecuteTransition
  <1>2. PICK w \in Workflow :
          /\ Executable(s, w) /\ TicketUnmoved(s) /\ Move(w, Carried(s))
          /\ \/ /\ w.kind # "request"
                /\ facts' = facts \cup {f}
                /\ UNCHANGED approval
             \/ /\ w.kind = "request"
                /\ facts' = facts \cup {f, g}
                /\ \E m \in Modes : RequestApproval(m)
    BY DEF ExecuteTransition
  <1>3. ticket.status = w.from /\ w.kind # "continue" /\ Exists /\ w.to # "NONE"
    BY <1>2, WorkflowShape DEF Executable, TicketUnmoved, Exists
  <1>4. /\ ticket'.ver = ticket.ver + 1 /\ ticket'.status = w.to
        /\ Len(trail') = Len(trail) + 1 /\ Len(trail) \in Nat
        /\ Cardinality(ByAnalyst) \in Nat
        /\ Cardinality(ByAnalyst') = Cardinality(ByAnalyst) + 1
    BY <1>2, <1>3, Moved
  <1>5. /\ Cardinality(Records("TRANSITION")) \in Nat /\ Cardinality(Records("COMMENT")) \in Nat
        /\ Cardinality(Records("TRANSITION")') = Cardinality(Records("TRANSITION")) + 1
        /\ \A o \in KeyedOps \ {"TRANSITION"} : Records(o)' = Records(o)
        /\ Cardinality(Remarked') = Cardinality(Remarked) +
             (IF Cmd(s).more = "remark" THEN 1 ELSE 0)
        /\ Cardinality(Remarked) \in Nat
    BY <1>1, OneMoreRecord DEF KeyedOps
  <1>6. /\ tally'.tickets = tally.tickets /\ tally.comments \in Nat
        /\ tally'.comments = tally.comments + (IF Cmd(s).more = "remark" THEN 1 ELSE 0)
    BY DEF ExecuteTransition, Origin
  <1>7. /\ Voters' = Voters /\ (approval'.status = "NONE" => Voters' = {})
        /\ approval.ver \in Nat /\ approval'.ver \in Nat /\ approval.ver <= approval'.ver
    <2>1. approval.ver \in Nat
      BY DEF IInv, RowTypes
    <2>2. CASE w.kind # "request"
      BY <1>2, <2>1, <2>2, SameCounts DEF Effects
    <2>3. CASE w.kind = "request"
      <3>1. PICK m \in Modes : RequestApproval(m)
        BY <1>2, <2>3
      <3>2. approval'.votes = [a \in Approvers |-> "NONE"] /\ approval'.ver = 1
            /\ approval'.status = "PENDING"
        BY <3>1 DEF RequestApproval, Requested
      <3>3. approval.status = "NONE" /\ approval.ver = 0
        BY <1>3, <2>3, WorkflowShape DEF IInv, Stages
      <3>4. Voters = {}
        BY <3>3 DEF Effects
      <3>5. Voters' = {}
        BY <3>2 DEF Voters
      <3>6. QED
        BY <3>2, <3>3, <3>4, <3>5
    <2>4. QED
      BY <2>2, <2>3
  <1>8. /\ f.type = "NOTIFY_STATUS_CHANGED" /\ f.n = ticket.ver + 1
        /\ g.type = "APPROVAL_REQUESTED"
    BY FactFields
  <1> HIDE DEF f, g
  <1>9. f \notin facts /\ ticket.ver \in Nat /\ IsFiniteSet(facts)
    BY <1>8 DEF Effects
  <1>10. facts' = facts \cup {f} \/ facts' = (facts \cup {f}) \cup {g}
    BY <1>2
  <1>11. /\ IsFiniteSet(facts') /\ Announced("NOTIFY_STATUS_CHANGED") \in Nat
         /\ Announced("NOTIFY_STATUS_CHANGED")' = Announced("NOTIFY_STATUS_CHANGED") + 1
         /\ \A type \in {"NOTIFY_TICKET_ASSIGNED", "APPROVAL_DECIDED", "APPROVAL_WORKFLOW"} :
              Announced(type)' = Announced(type)
    <2> DEFINE F == facts \cup {f}
    <2>1. /\ IsFiniteSet(F) /\ Cardinality(Typed(facts, "NOTIFY_STATUS_CHANGED")) \in Nat
          /\ Cardinality(Typed(F, "NOTIFY_STATUS_CHANGED")) =
               Cardinality(Typed(facts, "NOTIFY_STATUS_CHANGED")) + 1
          /\ \A type : type # "NOTIFY_STATUS_CHANGED" => Typed(F, type) = Typed(facts, type)
      BY <1>8, <1>9, OneMoreFact
    <2> HIDE DEF F
    <2>2. /\ IsFiniteSet(F \cup {g})
          /\ \A type : type # "APPROVAL_REQUESTED" => Typed(F \cup {g}, type) = Typed(F, type)
      BY <1>8, <2>1, OneMoreFact
    <2>3. facts' = F \/ facts' = F \cup {g}
      BY <1>10 DEF F
    <2>4. /\ IsFiniteSet(facts')
          /\ \A type : type # "APPROVAL_REQUESTED" => Typed(facts', type) = Typed(F, type)
      BY <2>1, <2>2, <2>3
    <2>5. QED
      BY <2>1, <2>4, TypedFacts
  <1>12. EffectsMatchRecords'
    <2>1. \A o \in {"SUBMIT", "COMMENT", "ROUTE", "MANUAL", "DECIDE"} : Records(o)' = Records(o)
      BY <1>5 DEF KeyedOps
    <2>2. Assigned' = Assigned
      BY <1>1, SameCounts
    <2>3. tally'.comments = Cardinality(Records("COMMENT")') + Cardinality(Remarked')
      BY <1>5, <1>6, <2>1 DEF Effects, EffectsMatchRecords
    <2>4. Announced("APPROVAL_WORKFLOW")' = Len(trail') - Cardinality(ByAnalyst')
      BY <1>4, <1>11 DEF Effects, EffectsMatchRecords
    <2>5. QED
      BY <1>1, <1>4, <1>5, <1>6, <1>7, <1>11, <2>1, <2>2, <2>3, <2>4 DEF Effects, EffectsMatchRecords
  <1>13. \A h \in facts' :
           /\ h.type \in {"NOTIFY_STATUS_CHANGED", "NOTIFY_TICKET_ASSIGNED"} =>
                h.n \in Nat /\ h.n <= ticket'.ver
           /\ h.type = "APPROVAL_DECIDED" => h.n \in Nat /\ h.n <= approval'.ver
    <2>1. \A h \in facts : 
           /\ h.type \in {"NOTIFY_STATUS_CHANGED", "NOTIFY_TICKET_ASSIGNED"} =>
                h.n \in Nat /\ h.n <= ticket.ver
           /\ h.type = "APPROVAL_DECIDED" => h.n \in Nat /\ h.n <= approval.ver
      BY DEF Effects
    <2>2. QED
      BY <1>4, <1>7, <1>8, <1>9, <1>10, <2>1
  <1>14. QED
    BY <1>3, <1>4, <1>7, <1>9, <1>11, <1>12, <1>13 DEF Effects, Exists

LEMMA EffectsExpire ==
  ASSUME IInv, Clients, Claims, Effects, NEW s \in Slots, ExpireApproval(s)
  PROVE  Effects'
  <1> DEFINE f == Fact("APPROVAL_EXPIRED", 1)
  <1>1. /\ WritesRecord(s, "IN_PROGRESS") /\ Cmd(s).op = "DECIDE" /\ facts' = facts \cup {f}
        /\ UNCHANGED <<ticket, history, tally, trail>>
    BY Expiring DEF ExpireApproval, Deciding
  <1>2. \A o \in KeyedOps : Records(o)' = Records(o)
    BY <1>1, RecordsKept
  <1>3. Remarked' = Remarked
    <2>1. "TRANSITION" \in KeyedOps \ {"DECIDE"}
      BY DEF KeyedOps
    <2>2. Records("TRANSITION")' = Records("TRANSITION") /\ Records("TRANSITION") \subseteq Keys
      BY <1>2, <2>1 DEF Records
    <2>3. \A k \in Keys : idem'[Record("TRANSITION", k)] = idem[Record("TRANSITION", k)]
      <3>1. \A o \in KeyedOps \ {"DECIDE"}, k \in Keys : idem'[Record(o, k)] = idem[Record(o, k)]
        BY <1>1, RecordsKept
      <3>2. QED
        BY <2>1, <3>1
    <2>4. /\ Remarked = {k \in Records("TRANSITION") : idem[Record("TRANSITION", k)].cmd.more = "remark"}
          /\ Remarked' = {k \in Records("TRANSITION")' : idem'[Record("TRANSITION", k)].cmd.more = "remark"}
      BY DEF Remarked
    <2>5. QED
      BY <2>2, <2>3, <2>4
  <1>4. /\ approval'.ver = approval.ver + 1 /\ approval'.status = "EXPIRED"
        /\ approval'.votes = approval.votes /\ approval.ver \in Nat
    BY DEF ExpireApproval, IInv, RowTypes
  <1>5. Voters' = Voters
    BY <1>4 DEF Voters
  <1>6. f.type = "APPROVAL_EXPIRED" /\ IsFiniteSet(facts)
    BY FactFields DEF Effects
  <1> HIDE DEF f
  <1>7. IsFiniteSet(facts') /\ \A type : type # "APPROVAL_EXPIRED" => Announced(type)' = Announced(type)
    <2>1. IsFiniteSet(facts')
      BY <1>1, <1>6, FS_AddElement
    <2>2. ASSUME NEW type, type # "APPROVAL_EXPIRED" PROVE Announced(type)' = Announced(type)
      BY <1>1, <1>6, <2>2, OneAnnounced
    <2>3. QED
      BY <2>1, <2>2
  <1>8. EffectsMatchRecords'
    <2>1. \A type \in {"NOTIFY_STATUS_CHANGED", "NOTIFY_TICKET_ASSIGNED", "APPROVAL_DECIDED",
                       "APPROVAL_WORKFLOW"} : Announced(type)' = Announced(type)
      BY <1>7
    <2>2. \A o \in {"SUBMIT", "COMMENT", "ROUTE", "MANUAL", "TRANSITION", "DECIDE"} :
            Records(o)' = Records(o)
      BY <1>2 DEF KeyedOps
    <2>3. QED
      BY <1>1, <1>3, <1>5, <2>1, <2>2, SameCounts DEF Effects, EffectsMatchRecords
  <1>9. QED
    BY <1>1, <1>4, <1>6, <1>7, <1>8 DEF Effects, Exists

\* A recorded decision is the first one of its approver.
LEMMA OneMoreVoter ==
  ASSUME IInv, Clients, Claims, NEW s \in Slots, Deciding(s), Decidable(s), NEW verdict,
         RecordDecision(s, verdict), verdict # "NONE"
  PROVE  /\ Cardinality(Voters) \in Nat /\ Cardinality(Voters') = Cardinality(Voters) + 1
         /\ approval'.ver = approval.ver + 1 /\ approval.ver \in Nat /\ approval'.status # "NONE"
  <1> DEFINE a == Cmd(s).more
             v == Stored(Cmd(s).arg)
  <1>1. /\ a \in Approvers /\ approval.votes[a] = "NONE" /\ v # "NONE"
        /\ approval.votes \in [Approvers -> Votes] /\ approval.ver \in Nat
    BY DEF Deciding, Decidable, Stored, IInv, RowTypes
  <1>2. /\ approval'.votes = [approval.votes EXCEPT ![a] = v] /\ approval'.ver = approval.ver + 1
        /\ approval'.status = verdict
    BY DEF RecordDecision, IInv, RowTypes
  <1> HIDE DEF a, v
  <1>3. Voters' = Voters \cup {a} /\ a \notin Voters
    BY <1>1, <1>2 DEF Voters
  <1>4. IsFiniteSet(Voters) /\ Cardinality(Voters) \in Nat
    <2>1. Voters \in SUBSET Approvers
      BY DEF Voters
    <2>2. QED
      BY <2>1, DeskAssumption, FS_Subset, FS_CardinalityType
  <1>5. QED
    BY <1>1, <1>2, <1>3, <1>4, FS_AddElement

\* A vote that is counted, and one that settles the approval.
LEMMA EffectsDecision ==
  ASSUME IInv, Clients, Claims, Path, Effects, NEW s \in Slots, Vote(s) \/ Settle(s)
  PROVE  Effects'
  <1> DEFINE f == Fact("APPROVAL_DECIDED", approval'.ver)
             g == Fact("APPROVAL_WORKFLOW", 1)
  <1>1. /\ Completes(s) /\ Cmd(s).op = "DECIDE" /\ UNCHANGED <<history, tally>>
        /\ Deciding(s) /\ Decidable(s) /\ RecordDecision(s, Outcome(s))
    BY Completing DEF Vote, Settle, Deciding
  <1>2. /\ Cardinality(Voters) \in Nat /\ Cardinality(Voters') = Cardinality(Voters) + 1
        /\ approval'.ver = approval.ver + 1 /\ approval.ver \in Nat /\ approval'.status # "NONE"
    BY <1>1, RecordedVote, OneMoreVoter
  <1>3. /\ Cardinality(Records("DECIDE")) \in Nat
        /\ Cardinality(Records("DECIDE")') = Cardinality(Records("DECIDE")) + 1
        /\ \A o \in KeyedOps \ {"DECIDE"} : Records(o)' = Records(o)
        /\ Cardinality(Remarked') = Cardinality(Remarked) + 0
        /\ Cardinality(Remarked) \in Nat
    BY <1>1, OneMoreRecord DEF KeyedOps
  <1>4. /\ f.type = "APPROVAL_DECIDED" /\ f.n = approval'.ver
        /\ g.type = "APPROVAL_WORKFLOW"
    BY FactFields
  <1>5. \/ facts' = facts \cup {f} /\ UNCHANGED <<ticket, trail>>
        \/ /\ facts' = (facts \cup {f}) \cup {g} /\ g \notin facts
           /\ \E w : w.kind = "continue" /\ w \in Workflow /\ w.from = ticket.status /\ Move(w, {})
    <2>1. DecidedFact(s) = f
      BY DEF DecidedFact
    <2>2. CASE Vote(s)
      BY <2>1, <2>2 DEF Vote
    <2>3. CASE Settle(s)
      BY <2>1, <2>3 DEF Settle
    <2>4. QED
      BY <2>2, <2>3
  <1> HIDE DEF f, g
  <1>6. f \notin facts /\ IsFiniteSet(facts) /\ ticket.ver \in Nat
    BY <1>2, <1>4 DEF Effects
  <1> DEFINE F == facts \cup {f}
  <1>7. /\ IsFiniteSet(F) /\ \A type : Cardinality(Typed(facts, type)) \in Nat
        /\ Cardinality(Typed(F, "APPROVAL_DECIDED")) =
             Cardinality(Typed(facts, "APPROVAL_DECIDED")) + 1
        /\ \A type : type # "APPROVAL_DECIDED" => Typed(F, type) = Typed(facts, type)
    BY <1>4, <1>6, OneMoreFact
  <1>8. CASE facts' = F /\ UNCHANGED <<ticket, trail>>
    <2>1. /\ Announced("APPROVAL_DECIDED")' = Announced("APPROVAL_DECIDED") + 1
          /\ \A type : type # "APPROVAL_DECIDED" => Announced(type)' = Announced(type)
          /\ IsFiniteSet(facts')
      BY <1>7, <1>8, TypedFacts
    <2>2. EffectsMatchRecords'
      <3>1. \A o \in {"SUBMIT", "COMMENT", "ROUTE", "MANUAL", "TRANSITION"} : Records(o)' = Records(o)
        BY <1>3 DEF KeyedOps
      <3>2. Assigned' = Assigned /\ ByAnalyst' = ByAnalyst
        BY <1>1, <1>8, SameCounts
      <3>3. Cardinality(Remarked') = Cardinality(Remarked)
        BY <1>3
      <3>4. QED
        BY <1>1, <1>2, <1>3, <1>8, <2>1, <3>1, <3>2, <3>3 DEF Effects, EffectsMatchRecords
    <2>3. \A h \in facts' :
             /\ h.type \in {"NOTIFY_STATUS_CHANGED", "NOTIFY_TICKET_ASSIGNED"} =>
                  h.n \in Nat /\ h.n <= ticket'.ver
             /\ h.type = "APPROVAL_DECIDED" => h.n \in Nat /\ h.n <= approval'.ver
      BY <1>2, <1>4, <1>8 DEF Effects
    <2>4. QED
      BY <1>2, <1>6, <1>8, <2>1, <2>2, <2>3 DEF Effects, Exists
  <1>9. ASSUME facts' = F \cup {g}, g \notin facts, NEW w, w.kind = "continue", w \in Workflow,
               w.from = ticket.status, Move(w, {})
        PROVE  Effects'
    <2>1. /\ ticket'.ver = ticket.ver + 1 /\ ticket'.status = w.to
          /\ Len(trail') = Len(trail) + 1 /\ Len(trail) \in Nat
          /\ Cardinality(ByAnalyst) \in Nat
          /\ Cardinality(ByAnalyst') = Cardinality(ByAnalyst) + 0
      BY <1>9, Moved, WorkflowShape DEF Exists
    <2>2. g \notin F /\ IsFiniteSet(F)
      BY <1>4, <1>7, <1>9
    <2> HIDE DEF F
    <2>3. /\ IsFiniteSet(F \cup {g})
          /\ Cardinality(Typed(F \cup {g}, "APPROVAL_WORKFLOW")) =
               Cardinality(Typed(F, "APPROVAL_WORKFLOW")) + 1
          /\ \A type : type # "APPROVAL_WORKFLOW" => Typed(F \cup {g}, type) = Typed(F, type)
      BY <1>4, <2>2, OneMoreFact
    <2>4. /\ Announced("APPROVAL_DECIDED")' = Announced("APPROVAL_DECIDED") + 1
          /\ Announced("APPROVAL_WORKFLOW")' = Announced("APPROVAL_WORKFLOW") + 1
          /\ Announced("APPROVAL_WORKFLOW") \in Nat
          /\ \A type \in {"NOTIFY_STATUS_CHANGED", "NOTIFY_TICKET_ASSIGNED"} :
                Announced(type)' = Announced(type)
          /\ IsFiniteSet(facts')
      BY <1>7, <1>9, <2>3, TypedFacts
    <2>5. EffectsMatchRecords'
      <3>1. \A o \in {"SUBMIT", "COMMENT", "ROUTE", "MANUAL", "TRANSITION"} : Records(o)' = Records(o)
        BY <1>3 DEF KeyedOps
      <3>2. Assigned' = Assigned
        BY <1>1, SameCounts
      <3>3. Cardinality(Remarked') = Cardinality(Remarked)
            /\ Cardinality(ByAnalyst') = Cardinality(ByAnalyst)
        BY <1>3, <2>1
      <3>4. Announced("APPROVAL_WORKFLOW")' = Len(trail') - Cardinality(ByAnalyst')
        BY <2>1, <2>4, <3>3 DEF Effects, EffectsMatchRecords
      <3>5. QED
        BY <1>1, <1>2, <1>3, <2>4, <3>1, <3>2, <3>3, <3>4 DEF Effects, EffectsMatchRecords
    <2>6. \A h \in facts' :
             /\ h.type \in {"NOTIFY_STATUS_CHANGED", "NOTIFY_TICKET_ASSIGNED"} =>
                  h.n \in Nat /\ h.n <= ticket'.ver
             /\ h.type = "APPROVAL_DECIDED" => h.n \in Nat /\ h.n <= approval'.ver
      <3>1. \A h \in facts :
              /\ h.type \in {"NOTIFY_STATUS_CHANGED", "NOTIFY_TICKET_ASSIGNED"} =>
                   h.n \in Nat /\ h.n <= ticket.ver
              /\ h.type = "APPROVAL_DECIDED" => h.n \in Nat /\ h.n <= approval.ver
        BY DEF Effects
      <3>2. QED
        BY <1>2, <1>4, <1>6, <1>9, <2>1, <3>1 DEF F
    <2>7. Exists'
      BY <1>9, <2>1, WorkflowShape DEF Exists
    <2>8. QED
      BY <1>2, <1>6, <2>1, <2>4, <2>5, <2>6, <2>7 DEF Effects
  <1>10. QED
    BY <1>5, <1>8, <1>9

LEMMA StepEffects ==
  ASSUME IInv, Clients, Claims, Path, Origin, Effects, NEW s \in Slots, Step(s)
  PROVE  Effects'
  <1>1. CASE \/ LockRow(s) \/ Claim(s) \/ Refuse(s) \/ Abort(s)
             \/ EditDraft(s) \/ ValidateDraft(s) \/ CancelDraft(s)
    BY <1>1, EffectsQuiet
       DEF LockRow, Claim, Refuse, Abort, EditDraft, ValidateDraft, CancelDraft, SetDraft
  <1>2. CASE Submit(s)
    BY <1>2, EffectsSubmit
  <1>3. CASE ExecuteTransition(s)
    BY <1>3, EffectsTransition
  <1>4. CASE Route(s) \/ AssignManual(s)
    <2>1. PICK op : op = Cmd(s).op
      OBVIOUS
    <2>2. op \in {"ROUTE", "MANUAL"} /\ Exists /\ Completes(s)
      BY <1>4, <2>1, Completing DEF Route, AssignManual, Cmd, Clients, TicketOps
    <2>3. PICK holder, by : AssignTo(s, holder, by)
      BY <1>4 DEF Route, AssignManual
    <2>4. QED
      BY <2>1, <2>2, <2>3, EffectsAssign
  <1>5. CASE Comment(s)
    BY <1>5, EffectsComment
  <1>6. CASE ExpireApproval(s)
    BY <1>6, EffectsExpire
  <1>7. CASE Vote(s) \/ Settle(s)
    BY <1>7, EffectsDecision
  <1>8. QED
    BY <1>1, <1>2, <1>3, <1>4, <1>5, <1>6, <1>7 DEF Step

LEMMA InitEffects == ASSUME Init PROVE Effects
  <1>1. /\ facts = {} /\ trail = <<>> /\ history = <<>> /\ Len(<<>>) = 0
        /\ ticket.ver = 0 /\ tally = [tickets |-> 0, comments |-> 0]
        /\ approval.votes = [a \in Approvers |-> "NONE"]
    BY EmptySeqs DEF Init, NoTicket
  <1>2. Cardinality({}) = 0 /\ IsFiniteSet({})
    BY FS_EmptySet
  <1>3. Voters = {}
    BY <1>1 DEF Voters
  <1>4. /\ \A op \in KeyedOps : Records(op) = {}
        /\ Remarked = {}
    <2>1. \A op \in KeyedOps : Records(op) = {}
      BY DEF Init, Records, NoRecord
    <2>2. "TRANSITION" \in KeyedOps
      BY DEF KeyedOps
    <2>3. QED
      BY <2>1, <2>2 DEF Remarked
  <1>5. Assigned = {} /\ ByAnalyst = {} /\ \A type : Announced(type) = 0
    BY <1>1, <1>2 DEF Assigned, ByAnalyst, Announced
  <1>6. EffectsMatchRecords
    <2>1. \A op \in {"SUBMIT", "COMMENT", "ROUTE", "MANUAL", "TRANSITION", "DECIDE"} :
             Records(op) = {}
      BY <1>4 DEF KeyedOps
    <2>2. Cardinality(Remarked) = 0 /\ Cardinality(Voters) = 0 /\ Cardinality(Assigned) = 0
          /\ Cardinality(ByAnalyst) = 0 /\ Len(trail) = 0 /\ Len(history) = 0
      BY <1>1, <1>2, <1>3, <1>4, <1>5
    <2>3. \A op \in {"SUBMIT", "COMMENT", "ROUTE", "MANUAL", "TRANSITION", "DECIDE"} :
             Cardinality(Records(op)) = 0
      BY <1>2, <2>1
    <2>4. tally.tickets = 0 /\ tally.comments = 0
      BY <1>1
    <2>5. QED
      BY <1>5, <2>2, <2>3, <2>4 DEF EffectsMatchRecords
  <1>7. QED
    BY <1>1, <1>2, <1>3, <1>6 DEF Effects

LEMMA NextEffects ==
  ASSUME IInv, Clients, Claims, Path, Origin, Effects, [Next]_vars
  PROVE  Effects'
  <1>1. CASE UNCHANGED <<ticket, history, approval, idem, tally, trail, facts>>
    BY <1>1, EffectsQuiet
  <1>2. ASSUME NEW s \in Slots, Step(s) PROVE Effects'
    BY <1>2, StepEffects
  <1>3. CASE ComeDue
    <2>1. /\ approval'.ver = approval.ver /\ approval'.status = approval.status
          /\ approval'.votes = approval.votes
          /\ UNCHANGED <<ticket, history, idem, tally, trail, facts>>
      BY <1>3 DEF ComeDue, IInv, RowTypes
    <2>2. Voters' = Voters
      BY <2>1 DEF Voters
    <2>3. EffectsMatchRecords'
      BY <2>1, <2>2, SameCounts DEF Effects, EffectsMatchRecords
    <2>4. QED
      BY <2>1, <2>2, <2>3 DEF Effects, Exists
  <1>4. QED
    BY <1>1, <1>2, <1>3 DEF Next, Send, Repeat, vars

-----------------------------------------------------------------------------
(* The theorems                                                            *)

\* The two invariants together: IInv is inductive by itself, the rest on top of it.
Ledger == Clients /\ Claims /\ Path /\ Origin /\ Effects

LEMMA LedgerHolds == Spec => []Ledger
  <1>1. Init => Ledger
    BY InitPath, InitClaims, InitOrigin, InitEffects DEF Ledger
  <1>2. IInv /\ Ledger /\ [Next]_vars => Ledger'
    BY NextPath, NextClaims, NextOrigin, NextEffects DEF Ledger
  <1>3. QED
    BY <1>1, <1>2, IInvHolds, PTL DEF Spec

\* execute, decide and continue_workflow: a ticket goes on from
\* AWAITING_APPROVAL only in the transaction that reaches the verdict.
THEOREM TicketWaitsForVerdict == Spec => []ApprovalGatesTicket
  BY IInvHolds, PTL DEF IInv

\* decide: whatever votes interleave, the status of the approval is the one the
\* recorded votes of those asked call for, in each mode.
THEOREM VerdictIsTheVotes == Spec => []VerdictMatchesVotes
  BY IInvHolds, PTL DEF IInv

\* The lock order of the keyed commands, of comments, which take the ticket
\* first, and of decisions, which take it last, admits no cycle of two.
THEOREM LocksNeverCycle == Spec => []NoLockCycle
  <1>1. IInv => NoLockCycle
    BY NoCycle DEF IInv
  <1>2. QED
    BY <1>1, IInvHolds, PTL

\* execute, continue_workflow and assign: the events of a ticket are a path through its
\* workflow that ends in its status, its assignments a chain that ends in its holder, and
\* the row version counts both, whatever commands interleave.
THEOREM TicketFollowsTrail == Spec => []TrailIsPath
  BY LedgerHolds, PTL DEF Ledger, Path

\* submit and finish_submission: a draft becomes at most one ticket, made of the version
\* its reporter confirmed, of complete answers in normal form, however often it is sent.
THEOREM DraftBecomesOneTicket == Spec => []OneTicketPerDraft
  BY LedgerHolds, PTL DEF Ledger, Origin

\* claim_idempotency and complete_idempotency: the rows a command inserts and the outbox
\* facts that announce them are there once for each completed record.
THEOREM EffectsOncePerRecord == Spec => []EffectsMatchRecords
  BY LedgerHolds, PTL DEF Ledger, Effects

=============================================================================
