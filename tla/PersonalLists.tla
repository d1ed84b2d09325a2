---------------------------- MODULE PersonalLists ----------------------------
(***************************************************************************)
(* The two personal lists of an analyst, saved ticket filters and canned   *)
(* responses (queues/service.py, queues/repository.py).  They share their  *)
(* handlers' shape: a list is ordered by display_order, every row carries  *)
(* a row version, names are unique whatever their case, creation takes an  *)
(* idempotency key, and a new order must name every row.                   *)
(*                                                                         *)
(* A command is built from a list its client read earlier.  Its handler is *)
(* one READ COMMITTED transaction of several statements: it reads, checks, *)
(* and then writes with the expected version in the WHERE clause.  A row   *)
(* written and not yet committed is locked, and so is its name: the unique *)
(* index makes another writer of that name wait for the outcome.           *)
(***************************************************************************)
EXTENDS Naturals, Sequences, FiniteSetsExt

CONSTANTS
    Kinds,          \* of the lists under study: "filter", "response"
    Ids,            \* saved_filter_id or canned_response_id, as they are drawn
    Names,          \* after " ".join(split()) and lower()
    Keys,           \* Idempotency-Key values
    Requests,       \* commands under way or done
    Initial         \* the list before them: a sequence of names

ASSUME ListsAssumption ==
    /\ Kinds \subseteq {"filter", "response"} /\ Ids = 1..Cardinality(Ids)
    /\ Initial \in Seq(Names) /\ IsInjective(Initial)
    /\ IsFiniteSet(Ids) /\ IsFiniteSet(Requests)
    /\ Cardinality(Ids) >= Len(Initial) + Cardinality(Requests)

Absent == [version |-> 0]
Unused == [id |-> 0]

\* config.analyst_saved_filter, without what a filter says.
RowType == [name : Names, order : Nat, version : Nat \ {0}]

VARIABLES
    kind,           \* which of the two lists; never changes
    rows,           \* rows[i]: the committed row, or Absent
    drawn,          \* ids gen_random_uuid() has given out
    keys,           \* keys[k]: the COMPLETED idempotency record, or Unused
    shown,          \* the analyst sees the queue that the filters name
    req,            \* req[r]: [step, cmd, mine, at], see Ask
    asked           \* the ids in the order of the last committed reorder

listsVars == <<kind, rows, drawn, keys, shown, req, asked>>

ReqSteps == {"idle", "asked", "write", "commit", "done"}

ListsTypeOK ==
    /\ kind \in Kinds /\ shown \in BOOLEAN
    /\ rows \in [Ids -> RowType \cup {Absent}]
    /\ drawn \subseteq Ids /\ asked \in Seq(drawn)
    /\ \A k \in Keys : keys[k] # Unused => keys[k].id \in drawn /\ keys[k].name \in Names
    /\ \A r \in Requests :
         /\ req[r].step \in ReqSteps /\ DOMAIN req[r].mine \subseteq drawn
         /\ req[r].mine # <<>> => req[r].step \in {"write", "commit"}

Listed == {i \in Ids : rows[i] # Absent}

-----------------------------------------------------------------------------
(* What the database lets a statement of r see and take.                   *)

\* Rows that a transaction other than r's has written.
Locked(i, r) == \E q \in Requests \ {r} : i \in DOMAIN req[q].mine

\* The unique index on lower(name) holds an entry of a transaction under way.
Contested(n, r) ==
    \E q \in Requests \ {r} : \E i \in DOMAIN req[q].mine :
        \E image \in {rows[i], req[q].mine[i]} : image # Absent /\ image.name = n

\* The claim of an idempotency key inserts its record, or locks it.
KeyHeld(k, r) ==
    \E q \in Requests \ {r} :
        req[q].step \in {"write", "commit"} /\ req[q].cmd.op = "create" /\ req[q].cmd.key = k

\* ..._name_exists(excluding)
NameExists(n, excluding) == \E i \in Listed \ excluding : rows[i].name = n

\* WHERE ... AND row_version = :expected_version.  A statement that waited for
\* the row's lock evaluates it on what was committed meanwhile.
Expected_AnyVersion(i, version) == i \in Listed
Expected(i, version) == i \in Listed /\ rows[i].version = version

\* COALESCE((SELECT max(display_order) + 10 ...), 0), in tens.
NextOrder == IF Listed = {} THEN 0 ELSE 1 + Max({rows[i].order : i \in Listed})

\* _validate_saved_filter: the filter's queue is published and visible.
Validated == kind = "filter" => shown

-----------------------------------------------------------------------------

ListsInit ==
    /\ kind \in Kinds
    /\ rows = [i \in Ids |-> IF i \in DOMAIN Initial
                             THEN [name |-> Initial[i], order |-> i - 1, version |-> 1]
                             ELSE Absent]
    /\ drawn = DOMAIN Initial
    /\ keys = [k \in Keys |-> Unused]
    /\ shown = TRUE
    /\ req = [r \in Requests |-> [step |-> "idle", cmd |-> <<>>, mine |-> <<>>, at |-> 0]]
    /\ asked = << >>

\* What a client can ask for that has just read the list; the handler starts
\* later.  A create needs no list; a reorder sends each row with its version.
Commands ==
    [op : {"create"}, name : Names, key : Keys]
    \cup (UNION {[op : {"update"}, id : {i}, version : {rows[i].version}, name : Names] :
                   i \in Listed})
    \cup {[op |-> "delete", id |-> i, version |-> rows[i].version] : i \in Listed}
    \cup {[op |-> "reorder", items |-> [n \in DOMAIN s |-> <<s[n], rows[s[n]].version>>]] :
                  s \in IF Listed = {} THEN {} ELSE Injection(1..Cardinality(Listed), Listed)}

Ask(r) ==
    /\ req[r].step = "idle"
    /\ \E c \in Commands : req' = [req EXCEPT ![r].step = "asked", ![r].cmd = c]
    /\ UNCHANGED <<kind, rows, drawn, keys, shown, asked>>

\* The transaction of r ends without effect: an error, or a read-only answer.
Ends(r) == req' = [req EXCEPT ![r].step = "done", ![r].mine = <<>>, ![r].at = 0]

\* r has read what it needs and goes on to its first write.
Proceeds(r) == req' = [req EXCEPT ![r].step = "write", ![r].at = 1]

\* The rows a transaction has written, with a new image of row i.
Wrote(mine, i, image) == [j \in {i} \cup DOMAIN mine |-> IF j = i THEN image ELSE mine[j]]

\* create_...: claim the key, answer a repeated request, check the name.
Create(r) ==
    LET c == req[r].cmd IN
    /\ req[r].step = "asked" /\ c.op = "create" /\ ~KeyHeld(c.key, r)
    /\ IF keys[c.key] = Unused /\ Validated /\ ~NameExists(c.name, {})
       THEN Proceeds(r) ELSE Ends(r)

CreateResponse(r) == kind = "response" /\ Create(r)
CreateFilter(r)   == kind = "filter" /\ Create(r)

\* INSERT ... ON CONFLICT DO NOTHING RETURNING.
Insert(r) ==
    LET c == req[r].cmd
        new == Min(Ids \ drawn)
    IN  /\ req[r].step = "write" /\ c.op = "create" /\ ~Contested(c.name, r)
        /\ IF NameExists(c.name, {})
           THEN Ends(r) /\ UNCHANGED drawn
           ELSE /\ drawn' = drawn \cup {new}
                /\ req' = [req EXCEPT ![r].step = "commit", ![r].mine =
                     Wrote(<<>>, new, [name |-> c.name, order |-> NextOrder, version |-> 1])]

\* update_...: the row, its version, the queue and the name, all read.
Update(r) ==
    LET c == req[r].cmd IN
    /\ req[r].step = "asked" /\ c.op = "update"
    /\ IF /\ Expected(c.id, c.version) /\ Validated
          /\ ~NameExists(c.name, {c.id})
       THEN Proceeds(r) ELSE Ends(r)

UpdateResponse(r) == kind = "response" /\ Update(r)
UpdateFilter(r)   == kind = "filter" /\ Update(r)

\* UPDATE ... WHERE row_version = :expected.  A name taken since the check
\* violates the index: the exception is not caught and ends the transaction.
WriteRow(r) ==
    LET c == req[r].cmd IN
    /\ req[r].step = "write" /\ c.op = "update" /\ ~Locked(c.id, r)
    /\ Expected(c.id, c.version) => ~Contested(c.name, r)
    /\ IF Expected(c.id, c.version) /\ ~NameExists(c.name, {c.id})
       THEN req' = [req EXCEPT ![r].step = "commit", ![r].mine =
              Wrote(<<>>, c.id, [rows[c.id] EXCEPT !.name = c.name, !.version = @ + 1])]
       ELSE Ends(r)

\* delete_..., its checks and its DELETE ... WHERE row_version = :expected.
Delete(r) ==
    LET c == req[r].cmd IN
    /\ req[r].step = "asked" /\ c.op = "delete"
    /\ IF Expected(c.id, c.version) THEN Proceeds(r) ELSE Ends(r)

DeleteResponse(r) == kind = "response" /\ Delete(r)
DeleteFilter(r)   == kind = "filter" /\ Delete(r)

RemoveRow(r) ==
    LET c == req[r].cmd IN
    /\ req[r].step = "write" /\ c.op = "delete" /\ ~Locked(c.id, r)
    /\ IF Expected(c.id, c.version)
       THEN req' = [req EXCEPT ![r].step = "commit", ![r].mine = Wrote(<<>>, c.id, Absent)]
       ELSE Ends(r)

\* reorder_...: the order names every row, at the version it has.
Complete(items) ==
    /\ {items[n][1] : n \in DOMAIN items} = Listed
    /\ \A n \in DOMAIN items : Expected(items[n][1], items[n][2])

Reorder(r) ==
    LET c == req[r].cmd IN
    /\ req[r].step = "asked" /\ c.op = "reorder"
    /\ IF Complete(c.items) THEN Proceeds(r) ELSE Ends(r)

ReorderResponses(r) == kind = "response" /\ Reorder(r)
ReorderFilters(r)   == kind = "filter" /\ Reorder(r)

\* One UPDATE per item, in the order of the request.
WriteOrder(r) ==
    LET c == req[r].cmd
        n == req[r].at
        i == c.items[n][1]
    IN  /\ req[r].step = "write" /\ c.op = "reorder" /\ n <= Len(c.items)
        /\ ~Locked(i, r)
        /\ req' = [req EXCEPT ![r].at = n + 1, ![r].mine =
             IF Expected(i, c.items[n][2])
             THEN Wrote(@, i, [rows[i] EXCEPT !.order = n - 1, !.version = @ + 1]) ELSE @]

\* changed != len(command.items) raises, and nothing of the order is kept.
AllChanged_Any(r) == TRUE
AllChanged(r) == Cardinality(DOMAIN req[r].mine) = Len(req[r].cmd.items)

CheckChanged(r) ==
    /\ req[r].step = "write" /\ req[r].cmd.op = "reorder"
    /\ req[r].at > Len(req[r].cmd.items)
    /\ IF AllChanged(r) THEN req' = [req EXCEPT ![r].step = "commit"] ELSE Ends(r)

Commit(r) ==
    LET c == req[r].cmd IN
    /\ req[r].step = "commit"
    /\ rows' = [i \in Ids |-> IF i \in DOMAIN req[r].mine THEN req[r].mine[i] ELSE rows[i]]
    /\ keys' = IF c.op # "create" THEN keys
               ELSE [keys EXCEPT ![c.key] = [id |-> Min(DOMAIN req[r].mine), name |-> c.name]]
    /\ asked' = IF c.op = "reorder" THEN [n \in DOMAIN c.items |-> c.items[n][1]] ELSE asked
    /\ Ends(r)
    /\ UNCHANGED <<kind, drawn, shown>>

\* The connection is lost before the commit.
Abort(r) ==
    /\ req[r].step \in {"write", "commit"}
    /\ Ends(r)
    /\ UNCHANGED <<kind, rows, drawn, keys, shown, asked>>

\* Orders that wait for each other's rows in a circle: the server ends one.
WaitsFor(r) ==
    IF req[r].step = "write" /\ req[r].cmd.op = "reorder" /\ req[r].at <= Len(req[r].cmd.items)
    THEN {q \in Requests \ {r} : req[r].cmd.items[req[r].at][1] \in DOMAIN req[q].mine}
    ELSE {}

DeadlockVictim(r) ==
    /\ \E C \in SUBSET Requests : /\ r \in C
                                 /\ \A q \in C : WaitsFor(q) \cap C # {}
                                 /\ C \subseteq UNION {WaitsFor(p) : p \in C}
    /\ Ends(r)
    /\ UNCHANGED <<kind, rows, drawn, keys, shown, asked>>

\* The queue's version is retired, or the analyst leaves its group.
Withdraw ==
    /\ kind = "filter" /\ shown
    /\ shown' = FALSE
    /\ UNCHANGED <<kind, rows, drawn, keys, req, asked>>

Statement(r) ==
    /\ \/ CreateResponse(r) \/ CreateFilter(r) \/ UpdateResponse(r) \/ UpdateFilter(r)
       \/ DeleteResponse(r) \/ DeleteFilter(r) \/ ReorderResponses(r) \/ ReorderFilters(r)
       \/ WriteRow(r) \/ RemoveRow(r) \/ WriteOrder(r) \/ CheckChanged(r)
    /\ UNCHANGED <<kind, rows, drawn, keys, shown, asked>>

ListsNext ==
    \/ \E r \in Requests :
         \/ Ask(r) \/ Statement(r) \/ Commit(r) \/ Abort(r) \/ DeadlockVictim(r)
         \/ Insert(r) /\ UNCHANGED <<kind, rows, keys, shown, asked>>
    \/ Withdraw

ListsSpec == ListsInit /\ [][ListsNext]_listsVars

-----------------------------------------------------------------------------
(* Properties.                                                             *)

\* The list stands in the order of the last reorder that was answered, as far
\* as its rows are still there: another reorder that ran at the same time took
\* effect wholly before it or not at all, and no edit, deletion or new row
\* disturbs it (reorder_saved_filters, reorder_canned_responses).
OrderKept ==
    \A m, n \in DOMAIN asked :
        m < n /\ {asked[m], asked[n]} \subseteq Listed =>
            rows[asked[m]].order < rows[asked[n]].order

\* The version of row i that the client of r had seen.
SeenVersion(r, i) ==
    IF req[r].cmd.op = "reorder"
    THEN (CHOOSE item \in Range(req[r].cmd.items) : item[1] = i)[2]
    ELSE req[r].cmd.version

\* A committed row changes, or goes, only by a command of a client that had
\* seen it as it was: no edit, order or deletion overwrites one its sender did
\* not know of, however long its statements waited for the row.
NoLostEdit ==
    [][\A i \in Listed : rows'[i] # rows[i] =>
         \E r \in Requests : /\ req[r].step = "commit" /\ i \in DOMAIN req[r].mine
                             /\ SeenVersion(r, i) = rows[i].version]_listsVars

=============================================================================
