---------------------------- MODULE Attachments ----------------------------
(***************************************************************************)
(* Ticket attachments (attachments/).  The browser uploads to a quarantine *)
(* key of the object store through a presigned URL; finalize reads the     *)
(* object, validates and scans it, moves or deletes it, and records the    *)
(* decision, all inside one database transaction that holds the row.  The  *)
(* object store takes no part in that transaction: what was copied or      *)
(* deleted stays so when the transaction rolls back, its process dies or   *)
(* its commit is lost, and a call may take effect and still raise.         *)
(*                                                                         *)
(* A file is what its content is: "clean", "infected", or "invalid" (size, *)
(* checksum, type or readability).  Uploading again sends the same file.   *)
(***************************************************************************)
EXTENDS Naturals, FiniteSets

CONSTANTS
    Files,          \* attachment ids
    Keys,           \* Idempotency-Key header values
    Users,          \* who call the API
    Analysts,       \* those who may read the whole ticket and its internal part
    Owners,         \* reporter, requested-for and participants of the ticket
    Handlers,       \* finalize requests that may be under way at once
    MaxAttempts,    \* settings.clamav_max_attempts
    MaxAborts       \* bound on rolled back, crashed or lost transactions

ASSUME UsersAssumption == Analysts \subseteq Users /\ Owners \subseteq Users
ASSUME LimitsAssumption == MaxAttempts \in Nat \ {0} /\ MaxAborts \in Nat

Contents == {"clean", "infected", "invalid"}
Verdicts == Contents \cup {"error"}

VARIABLES
    row,            \* committed itsm.ticket_attachment rows
    idem,           \* committed idempotency records of ATTACHMENT_FINALIZE
    content,        \* content[f]: what the client has to upload
    quarantine,     \* files with an object under their quarantine key
    protected,      \* files with an object under their protected key
    tx,             \* tx[h]: the transaction of handler h, Idle when none
    held,           \* uploaded files the code has not deleted unrecorded
    served,         \* <<u, f>>: a download URL of f was given to u
    aborts

vars == <<row, idem, content, quarantine, protected, tx, held, served, aborts>>

Absent == [scan |-> "ABSENT", state |-> "ABSENT", attempts |-> 0,
           delayed |-> FALSE, visibility |-> "PUBLIC"]
Unused == [state |-> "UNUSED"]
Idle   == [step |-> "idle"]

Row == [scan : {"ABSENT", "PENDING", "CLEAN", "INFECTED", "ERROR"},
        state : {"ABSENT", "QUARANTINED", "RELEASED", "REJECTED"},
        attempts : 0 .. MaxAttempts, delayed : BOOLEAN,
        visibility : {"PUBLIC", "INTERNAL"}]
Record == [state : {"COMPLETED", "FAILED_FINAL", "FAILED_RETRYABLE"},
           file : Files, user : Users]
Transaction == [step : {"reading", "copying", "deleting", "recording"},
                file : Files, key : Keys, user : Users, verdict : Verdicts]

TypeOK ==
    /\ row \in [Files -> Row]
    /\ idem \in [Keys -> Record \cup {Unused}]
    /\ content \in [Files -> Contents]
    /\ quarantine \subseteq Files /\ protected \subseteq Files /\ held \subseteq Files
    /\ tx \in [Handlers -> Transaction \cup {Idle}]
    /\ served \subseteq Users \X Files
    /\ aborts \in 0 .. MaxAborts

-----------------------------------------------------------------------------

\* _ticket: analysts see everything, owners what is public; writing is not
\* restricted by visibility.
Allowed(u, f, write) ==
    \/ u \in Analysts
    \/ /\ u \in Owners
       /\ (write \/ row[f].visibility = "PUBLIC")

Init ==
    /\ row = [f \in Files |-> Absent]
    /\ idem = [k \in Keys |-> Unused]
    /\ content \in [Files -> Contents]
    /\ quarantine = {} /\ protected = {} /\ held = {} /\ served = {}
    /\ tx = [h \in Handlers |-> Idle]
    /\ aborts = 0

\* authorize_upload: the row is inserted and a presigned PUT URL is issued;
\* when no URL can be issued the transaction rolls back.
AuthorizeUpload(u, f, visibility) ==
    /\ row[f] = Absent
    /\ Allowed(u, f, TRUE)
    /\ visibility = "INTERNAL" => u \in Analysts
    /\ row' = [row EXCEPT ![f] = [scan |-> "PENDING", state |-> "QUARANTINED",
                                  attempts |-> 0, delayed |-> FALSE,
                                  visibility |-> visibility]]
    /\ UNCHANGED <<idem, content, quarantine, protected, tx, held, served, aborts>>

\* The browser's PUT, possible as long as the URL is valid, whatever has
\* happened to the row meanwhile.
Upload(f) ==
    /\ row[f] # Absent
    /\ f \notin quarantine
    /\ quarantine' = quarantine \cup {f}
    /\ held' = held \cup {f}
    /\ UNCHANGED <<row, idem, content, protected, tx, served, aborts>>

-----------------------------------------------------------------------------
(* finalize *)

Running(h) == tx[h].step # "idle"

\* SELECT ... FOR UPDATE of the row, then of the idempotency record, which the
\* INSERT ... ON CONFLICT DO NOTHING before it also waits for.
Locked(f, k) == \E h \in Handlers : Running(h) /\ (tx[h].file = f \/ tx[h].key = k)

\* The stored principal and request hash.
KeyFits(k, u, f) == idem[k] # Unused => idem[k].file = f /\ idem[k].user = u

MayFinalize(u, k, f) ==
    /\ row[f] # Absent
    /\ Allowed(u, f, TRUE)
    /\ ~Locked(f, k)
    /\ KeyFits(k, u, f)

\* Mutant of Outcome: any decision completes the record.
Outcome_AnyDecision(r) ==
    IF r.state = "QUARANTINED" THEN "FAILED_RETRYABLE" ELSE "COMPLETED"

\* The status a decided or undecided row gives the idempotency record.
Outcome(r) == CASE r.state = "RELEASED" -> "COMPLETED"
                [] r.state = "REJECTED" -> "FAILED_FINAL"
                [] OTHER -> "FAILED_RETRYABLE"

\* A decided attachment answers every further finalize from its row.
FinalizeDecided(u, k, f) ==
    /\ MayFinalize(u, k, f)
    /\ row[f].state \in {"RELEASED", "REJECTED"}
    /\ idem' = [idem EXCEPT ![k] = [state |-> Outcome(row[f]), file |-> f, user |-> u]]
    /\ UNCHANGED <<row, content, quarantine, protected, tx, held, served, aborts>>

\* Undecided, the retry delay over, attempts left.
Scannable(f) ==
    row[f].state = "QUARANTINED" /\ ~row[f].delayed /\ row[f].attempts < MaxAttempts

\* mark_scanning is not committed before the end of the transaction.
BeginScan(h, u, k, f) ==
    /\ ~Running(h)
    /\ MayFinalize(u, k, f)
    /\ Scannable(f)
    /\ tx' = [tx EXCEPT ![h] = [step |-> "reading", file |-> f, key |-> k,
                                user |-> u, verdict |-> "error"]]
    /\ UNCHANGED <<row, idem, content, quarantine, protected, held, served, aborts>>

\* Where a verdict takes the transaction.
StepAfter(verdict) == CASE verdict = "clean" -> "copying"
                        [] verdict = "error" -> "recording"
                        [] OTHER -> "deleting"

\* storage.read, _validate_content and scanner.scan.  A missing object, a
\* storage failure and a scanner failure are all the retryable error; what is
\* invalid never reaches the scanner.
Inspect(h, verdict) ==
    /\ tx[h].step = "reading"
    /\ verdict \in {"error"} \cup (IF tx[h].file \in quarantine
                                   THEN {content[tx[h].file]} ELSE {})
    /\ tx' = [tx EXCEPT ![h].verdict = verdict, ![h].step = StepAfter(verdict)]
    /\ UNCHANGED <<row, idem, content, quarantine, protected, held, served, aborts>>

\* The first half of storage.promote.  ok: the call returned; done: it took
\* effect.
Copy(h, ok, done) ==
    /\ tx[h].step = "copying"
    /\ ok => done
    /\ protected' = IF done THEN protected \cup {tx[h].file} ELSE protected
    /\ tx' = [tx EXCEPT ![h].step = IF ok THEN "deleting" ELSE "recording",
                        ![h].verdict = IF ok THEN @ ELSE "error"]
    /\ UNCHANGED <<row, idem, content, quarantine, held, served, aborts>>

\* The second half of storage.promote, or storage.reject of an infected or
\* invalid file.  A StorageError becomes the retryable error, except from the
\* handler of UnsupportedFileError, where nothing catches it (Abort).
Delete(h, ok, done) ==
    LET f == tx[h].file IN
    /\ tx[h].step = "deleting"
    /\ ok => done
    /\ ok \/ tx[h].verdict # "invalid"
    /\ quarantine' = IF done THEN quarantine \ {f} ELSE quarantine
    /\ held' = IF done /\ ~ok THEN held \ {f} ELSE held
    /\ tx' = [tx EXCEPT ![h].step = "recording",
                        ![h].verdict = IF ok THEN @ ELSE "error"]
    /\ UNCHANGED <<row, idem, content, protected, served, aborts>>

\* Mutant of Decide: the failed move to the protected key taken for a release.
Decide_ReleaseOnError(r, verdict) ==
    IF verdict \in {"clean", "error"}
    THEN [r EXCEPT !.scan = "CLEAN", !.state = "RELEASED", !.attempts = @ + 1]
    ELSE [r EXCEPT !.scan = "ERROR", !.state = "REJECTED", !.attempts = @ + 1]

\* mark_scanning followed by mark_clean, mark_infected, mark_invalid or
\* mark_error.
Decide(r, verdict) ==
    LET decided(scan, state, delayed) ==
            [r EXCEPT !.scan = scan, !.state = state, !.delayed = delayed,
                      !.attempts = @ + 1]
    IN CASE verdict = "clean"    -> decided("CLEAN", "RELEASED", FALSE)
         [] verdict = "infected" -> decided("INFECTED", "REJECTED", FALSE)
         [] verdict = "invalid"  -> decided("ERROR", "REJECTED", FALSE)
         [] verdict = "error"    -> decided("ERROR", "QUARANTINED", TRUE)

\* The row and the idempotency record commit together.
RecordDecision(h) ==
    LET t == tx[h]  decided == Decide(row[t.file], t.verdict) IN
    /\ t.step = "recording"
    /\ row' = [row EXCEPT ![t.file] = decided]
    /\ idem' = [idem EXCEPT ![t.key] = [state |-> Outcome(decided), file |-> t.file,
                                        user |-> t.user]]
    /\ tx' = [tx EXCEPT ![h] = Idle]
    /\ UNCHANGED <<content, quarantine, protected, held, served, aborts>>

\* A rollback, the death of the process or a lost commit, at any step: the row
\* and the record are as before, the objects are where they are.  The failed
\* delete of an invalid file ends here too.
Abort(h) ==
    LET t == tx[h] IN
    /\ Running(h)
    /\ aborts < MaxAborts
    /\ aborts' = aborts + 1
    /\ held' = IF t.step = "recording" THEN held \ ({t.file} \ quarantine) ELSE held
    /\ tx' = [tx EXCEPT ![h] = Idle]
    /\ UNCHANGED <<row, idem, content, quarantine, protected, served>>

\* next_scan_at passes.
DelayElapses(f) ==
    /\ row[f].delayed
    /\ row' = [row EXCEPT ![f].delayed = FALSE]
    /\ UNCHANGED <<idem, content, quarantine, protected, tx, held, served, aborts>>

\* CLEAN, RELEASED, with a protected object URI (which mark_clean alone sets).
Downloadable(f) == row[f].scan = "CLEAN" /\ row[f].state = "RELEASED"

Download(u, f) ==
    /\ Allowed(u, f, FALSE)
    /\ Downloadable(f)
    /\ served' = served \cup {<<u, f>>}
    /\ UNCHANGED <<row, idem, content, quarantine, protected, tx, held, aborts>>

-----------------------------------------------------------------------------

Next ==
    \/ \E f \in Files :
          \/ \E u \in Users, v \in {"PUBLIC", "INTERNAL"} : AuthorizeUpload(u, f, v)
          \/ Upload(f)
          \/ DelayElapses(f)
          \/ \E u \in Users : Download(u, f)
          \/ \E u \in Users, k \in Keys :
                \/ FinalizeDecided(u, k, f)
                \/ \E h \in Handlers : BeginScan(h, u, k, f)
    \/ \E h \in Handlers :
          \/ \E verdict \in Verdicts : Inspect(h, verdict)
          \/ \E ok, done \in BOOLEAN : Copy(h, ok, done) \/ Delete(h, ok, done)
          \/ RecordDecision(h)
          \/ Abort(h)

Spec == Init /\ [][Next]_vars

-----------------------------------------------------------------------------
(* What the component promises *)

\* A released attachment, and one a URL was given for, is a clean file under its
\* protected key, and nothing else ever gets there: over failed, half done and
\* repeated promotions (finalize, storage.promote), and an internal one is
\* served to analysts only (download).
ReleasedIsClean ==
    /\ \A f \in Files : row[f].state = "RELEASED" => f \in protected
    /\ \A f \in protected : content[f] = "clean"
    /\ \A u \in Users, f \in Files : <<u, f>> \in served =>
          f \in protected /\ (row[f].visibility = "INTERNAL" => u \in Analysts)

\* What an idempotency record answers is what became of the attachment, also
\* when several keys and attempts were needed (claim_idempotency,
\* finish_idempotency).
RecordsAgree ==
    \A k \in Keys : idem[k] # Unused =>
        LET r == row[idem[k].file] IN
        /\ idem[k].state = "COMPLETED" => r.state = "RELEASED"
        /\ idem[k].state = "FAILED_FINAL" => r.state = "REJECTED"

=============================================================================
