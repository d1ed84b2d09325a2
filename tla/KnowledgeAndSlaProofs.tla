----------------------- MODULE KnowledgeAndSlaProofs -----------------------
(***************************************************************************)
(* What users find was approved and published, a document's trail says     *)
(* what it is, and the ledger names the active version of the corpus: for  *)
(* any documents, versions, starts and requests.                           *)
(*                                                                         *)
(* A scan ends every clock that is overdue, and a response ends the clock  *)
(* of the first response: for any calendar, goals, workers and inputs.     *)
(* Knowledge and SlaEngine share no names, so one module holds the proofs  *)
(* of both.                                                                *)
(***************************************************************************)
EXTENDS Knowledge, SlaEngine, SequenceTheorems, FiniteSetTheorems, WellFoundedInduction, TLAPS

-----------------------------------------------------------------------------
(* Knowledge                                                               *)

EventRow == [what : {"APPROVED", "REJECTED", "PUBLISHED", "RETIRED"}, version : Nat,
             by : {Owner, Steward}, key : Requests \cup {NoOne}]
LedgerRow == [what : {"PUBLISHED", "ROLLED_BACK"}, version : Nat, key : Requests \cup {NoOne}]
SwitchRow == [of : Nat, sees : SUBSET Nat, off : SUBSET Nat]
Commands == DocumentCommands \cup CorpusCommands \cup {NoCommand}

Switches == {"ready", "switching", "switched", "written"}
Holding == {"claimed", "read", "scanned"} \cup Switches
Phases == {"new", "asked", "done", "failed"} \cup Holding

RowsTyped ==
    /\ doc \in [Docs -> DocumentRow]
    /\ version \in [Docs -> [Numbers -> Versions]]
    /\ current \in [Docs -> SUBSET Numbers]
    /\ trail \in [Docs -> Seq(EventRow)]
    /\ flagged \subseteq Chunks
    /\ begun \in Nat
    /\ runs \subseteq ValidationRun /\ \A run \in runs : run.at <= begun
    /\ corpus \in Seq(CorpusRow)
    /\ ledger \in Seq(LedgerRow)

\* A request is a record, whatever it has read.
IsReq(e) == e \in [phase : Phases, key : Requests, cmd : Commands, got : {e.got}]
ReqTyped ==
    /\ req = [r \in Requests |-> req[r]]
    /\ \A r \in Requests : IsReq(req[r])

\* A transaction under way holds the claim on its key, and the key of what is
\* in a log is done.
ClaimsFit ==
    /\ claim \in [Requests -> {"free", "done"} \cup Requests]
    /\ \A r \in Requests : req[r].phase \in Holding => claim[req[r].key] = r
Logged(log) == {log[i].key : i \in DOMAIN log} \cap Requests
KeysDone ==
    /\ \A d \in Docs : \A k \in Logged(trail[d]) : claim[k] = "done"
    /\ \A k \in Logged(ledger) : claim[k] = "done"

\* What a transaction under way has read, and what is still so.
RollsBackTo(r) == IF req[r].cmd.op = "ROLLBACK" THEN {req[r].got.of} ELSE {}
ReadsRow(r) == req[r].cmd \in DocumentCommands /\ req[r].got = doc[req[r].cmd.doc]
ReadsChunks(r) ==
    /\ req[r].got.run \in ValidationRun /\ req[r].got.run.at <= begun
    /\ req[r].got.found \subseteq Chunks
ReadsVersions(r) ==
    /\ req[r].got \in SwitchRow
    /\ req[r].cmd.op = "ROLLBACK" => req[r].got.of \in DOMAIN corpus
    /\ req[r].phase = "written" => ActiveNumbers \subseteq req[r].got.off \cup RollsBackTo(r)
Serving(r) ==
    /\ req[r].phase = "read" => ReadsRow(r)
    /\ req[r].phase = "scanned" => ReadsChunks(r)
    /\ req[r].phase \in Switches => ReadsVersions(r)

\* The row lock of a document and the unique index of active versions.
Alone ==
    \A r, q \in Requests : r # q =>
      /\ ~ (req[r].phase = "written" /\ req[q].phase = "written")
      /\ req[r].phase = "read" /\ req[q].phase = "read" => req[r].cmd.doc # req[q].cmd.doc

\* What a log says of a row and of the current version, and that it is sound.
DecisionsIn(log, n) == {i \in 1..n : log[i].what \in {"APPROVED", "REJECTED", "RETIRED"}}
MovesIn(log) == {i \in 1..Len(log) : log[i].what \in {"PUBLISHED", "RETIRED"}}
Says(log, row, cur) ==
    /\ row.row = Len(log) + 1
    /\ row.approval = IF DecisionsIn(log, Len(log)) = {} THEN "DRAFT"
                      ELSE log[Max(DecisionsIn(log, Len(log)))].what
    /\ cur = IF MovesIn(log) = {} \/ log[Max(MovesIn(log))].what = "RETIRED" THEN {}
             ELSE {log[Max(MovesIn(log))].version}
Earned(log, i) ==
    /\ DecisionsIn(log, i) # {}
    /\ log[Max(DecisionsIn(log, i))].what = "APPROVED" /\ log[Max(DecisionsIn(log, i))].by # Owner
Sound(log) ==
    \A i \in 1..Len(log) : /\ log[i].what = "PUBLISHED" => Earned(log, i)
                           /\ log[i].what \in {"APPROVED", "REJECTED"} => log[i].by # Owner
Trails ==
    \A d \in Docs : Says(trail[d], doc[d], current[d]) /\ Sound(trail[d]) /\ OncePerKey(trail[d])

IInv ==
    /\ RowsTyped /\ ReqTyped /\ ClaimsFit /\ KeysDone
    /\ (\A r \in Requests : Serving(r)) /\ Alone
    /\ Trails /\ OncePerKey(ledger) /\ LedgerNamesActive

-----------------------------------------------------------------------------
(* Least and greatest numbers                                              *)

LEMMA Least ==
  ASSUME NEW S \in SUBSET Nat, S # {}
  PROVE  Min(S) \in S /\ \A x \in S : Min(S) <= x
  <1>1. IsWellFoundedOn(OpToRel(<, Nat), Nat)
    BY NatLessThanWellFounded
  <1>2. PICK x \in S : \A y \in S : ~ (<<y, x>> \in OpToRel(<, Nat))
    BY <1>1, WFMin
  <1>3. \A y \in S : ~ (y < x)
    BY <1>2 DEF OpToRel
  <1>4. \A y \in S : x <= y
    BY <1>3
  <1>5. \E m \in S : \A y \in S : m <= y
    BY <1>4
  <1>6. QED
    BY <1>5 DEF Min

LEMMA Greatest ==
  ASSUME NEW n \in Nat, NEW S \in SUBSET (0..n), S # {}
  PROVE  Max(S) \in S /\ \A x \in S : x <= Max(S)
  <1> DEFINE T == {n - x : x \in S}
  <1>1. T \in SUBSET Nat
    <2>1. ASSUME NEW x \in S
          PROVE  n - x \in Nat
      <3>1. x \in 0..n
        OBVIOUS
      <3>2. QED
        BY <3>1
    <2>2. QED
      BY <2>1
  <1>2. T # {}
    OBVIOUS
  <1> HIDE DEF T
  <1>3. PICK m \in T : \A y \in T : m <= y
    BY <1>1, <1>2, Least
  <1>4. PICK x \in S : m = n - x
    BY <1>3 DEF T
  <1>5. ASSUME NEW y \in S
        PROVE  x >= y
    <2>1. n - y \in T
      BY DEF T
    <2>2. m <= n - y
      BY <1>3, <2>1
    <2>3. x \in 0..n /\ y \in 0..n
      OBVIOUS
    <2>4. QED
      BY <1>4, <2>2, <2>3
  <1>6. \E z \in S : \A y \in S : z >= y
    BY <1>5
  <1>7. Max(S) \in S /\ \A y \in S : Max(S) >= y
    BY <1>6 DEF Max
  <1>8. QED
    BY <1>7

\* A number above all others is the greatest.
LEMMA GreatestLast ==
  ASSUME NEW n \in Nat, NEW S \in SUBSET (0..n), n \in S
  PROVE  Max(S) = n
  <1>1. Max(S) \in S /\ \A x \in S : x <= Max(S)
    BY Greatest
  <1>2. Max(S) \in 0..n /\ n <= Max(S)
    BY <1>1
  <1>3. QED
    BY <1>2

-----------------------------------------------------------------------------
(* Logs                                                                    *)

LEMMA LogLengthens ==
  ASSUME NEW E, NEW log \in Seq(E), NEW e \in E, NEW new, new = Append(log, e)
  PROVE  /\ new \in Seq(E) /\ Len(log) \in Nat /\ Len(new) = Len(log) + 1
         /\ DOMAIN log = 1..Len(log) /\ DOMAIN new = 1..(Len(log) + 1)
         /\ \A i \in 1..Len(log) : new[i] = log[i]
         /\ new[Len(log) + 1] = e
  BY AppendProperties, LenProperties

LEMMA EventsOnce ==
  ASSUME NEW E, NEW log \in Seq(E), NEW e \in E, NEW new, new = Append(log, e),
         OncePerKey(log), e.key \notin Logged(log)
  PROVE  /\ OncePerKey(new)
         /\ Logged(new) \subseteq Logged(log) \cup {e.key}
  <1> DEFINE n == Len(log)
  <1>1. /\ n \in Nat /\ DOMAIN log = 1..n /\ DOMAIN new = 1..(n + 1)
        /\ \A i \in 1..n : new[i] = log[i]
        /\ new[n + 1] = e
    BY LogLengthens
  <1> HIDE DEF n
  <1>2. \A i \in DOMAIN new : i = n + 1 \/ i \in 1..n
    BY <1>1
  <1>3. ASSUME NEW i \in DOMAIN new, NEW j \in DOMAIN new,
               new[i].key = new[j].key, new[i].key \in Requests
        PROVE  i = j
    <2>1. CASE i = n + 1 /\ j = n + 1
      BY <2>1
    <2>2. CASE i \in 1..n /\ j \in 1..n
      BY <1>1, <1>3, <2>2 DEF OncePerKey
    <2>3. CASE i = n + 1 /\ j \in 1..n
      BY <1>1, <1>3, <2>3 DEF Logged
    <2>4. CASE j = n + 1 /\ i \in 1..n
      BY <1>1, <1>3, <2>4 DEF Logged
    <2>5. QED
      BY <1>2, <2>1, <2>2, <2>3, <2>4
  <1>4. OncePerKey(new)
    BY <1>3 DEF OncePerKey
  <1>5. Logged(new) \subseteq Logged(log) \cup {e.key}
    BY <1>1, <1>2 DEF Logged
  <1>6. QED
    BY <1>4, <1>5

LEMMA DecisionsStay ==
  ASSUME NEW log \in Seq(EventRow), NEW e \in EventRow, NEW new, new = Append(log, e),
         NEW i \in 1..Len(log)
  PROVE  DecisionsIn(new, i) = DecisionsIn(log, i)
  <1>1. Len(log) \in Nat /\ \A j \in 1..Len(log) : new[j] = log[j]
    BY LogLengthens
  <1>2. 1..i \subseteq 1..Len(log)
    BY <1>1
  <1>3. QED
    BY <1>1, <1>2 DEF DecisionsIn

LEMMA DecisionsAppend ==
  ASSUME NEW log \in Seq(EventRow), NEW e \in EventRow, NEW new, new = Append(log, e)
  PROVE  /\ DecisionsIn(new, Len(log) + 1) = DecisionsIn(log, Len(log))
                \cup (IF e.what = "PUBLISHED" THEN {} ELSE {Len(log) + 1})
         /\ MovesIn(new) = MovesIn(log)
                \cup (IF e.what \in {"PUBLISHED", "RETIRED"} THEN {Len(log) + 1} ELSE {})
  <1> DEFINE n == Len(log)
  <1>1. /\ n \in Nat /\ Len(new) = n + 1
        /\ \A i \in 1..n : new[i] = log[i]
        /\ new[n + 1] = e
    BY LogLengthens
  <1>2. e.what \in {"APPROVED", "REJECTED", "PUBLISHED", "RETIRED"}
    BY DEF EventRow
  <1> HIDE DEF n
  <1>3. \A i \in 1..(n + 1) : i = n + 1 \/ i \in 1..n
    BY <1>1
  <1>4. 1..n \subseteq 1..(n + 1) /\ n + 1 \in 1..(n + 1)
    BY <1>1
  <1>5. DecisionsIn(new, n + 1) = DecisionsIn(log, n)
                \cup (IF e.what = "PUBLISHED" THEN {} ELSE {n + 1})
    BY <1>1, <1>2, <1>3, <1>4 DEF DecisionsIn
  <1>6. MovesIn(new) = MovesIn(log)
                \cup (IF e.what \in {"PUBLISHED", "RETIRED"} THEN {n + 1} ELSE {})
    BY <1>1, <1>2, <1>3, <1>4 DEF MovesIn, n
  <1>7. QED
    BY <1>5, <1>6 DEF n

LEMMA InLog ==
  ASSUME NEW log \in Seq(EventRow)
  PROVE  /\ Len(log) \in Nat
         /\ MovesIn(log) # {} => Max(MovesIn(log)) \in MovesIn(log)
         /\ \A i \in 1..Len(log) :
              DecisionsIn(log, i) # {} => Max(DecisionsIn(log, i)) \in DecisionsIn(log, i)
         /\ DecisionsIn(log, Len(log)) # {} =>
              Max(DecisionsIn(log, Len(log))) \in DecisionsIn(log, Len(log))
  <1>1. Len(log) \in Nat
    BY LenProperties
  <1>2. ASSUME NEW i \in Nat
        PROVE  DecisionsIn(log, i) \in SUBSET (0..i)
    BY DEF DecisionsIn
  <1>3. ASSUME NEW i \in Nat, DecisionsIn(log, i) # {}
        PROVE  Max(DecisionsIn(log, i)) \in DecisionsIn(log, i)
    BY <1>2, <1>3, Greatest
  <1>4. MovesIn(log) \in SUBSET (0..Len(log))
    BY <1>1 DEF MovesIn
  <1>5. MovesIn(log) # {} => Max(MovesIn(log)) \in MovesIn(log)
    BY <1>1, <1>4, Greatest
  <1>6. \A i \in 1..Len(log) : i \in Nat
    BY <1>1
  <1>7. QED
    BY <1>1, <1>3, <1>5, <1>6

\* What a log says after one more event.
LEMMA SaysAfter ==
  ASSUME NEW log \in Seq(EventRow), NEW e \in EventRow, NEW new, new = Append(log, e),
         NEW row, NEW cur, Says(log, row, cur),
         NEW row2, NEW now2,
         row2.row = row.row + 1,
         row2.approval = IF e.what = "PUBLISHED" THEN row.approval ELSE e.what,
         now2 = IF e.what = "PUBLISHED" THEN {e.version}
                ELSE IF e.what = "RETIRED" THEN {} ELSE cur
  PROVE  Says(new, row2, now2)
  <1> DEFINE n == Len(log)
             D == DecisionsIn(log, n)
             D2 == DecisionsIn(new, n + 1)
             M == MovesIn(log)
             M2 == MovesIn(new)
  <1>1. /\ n \in Nat /\ Len(new) = n + 1
        /\ \A i \in 1..n : new[i] = log[i]
        /\ new[n + 1] = e
    BY LogLengthens
  <1>2. /\ D2 = D \cup (IF e.what = "PUBLISHED" THEN {} ELSE {n + 1})
        /\ M2 = M \cup (IF e.what \in {"PUBLISHED", "RETIRED"} THEN {n + 1} ELSE {})
    BY DecisionsAppend
  <1>3. /\ D # {} => Max(D) \in D
        /\ M # {} => Max(M) \in M
    BY InLog
  <1>4. D \subseteq 1..n /\ M \subseteq 1..n
    BY DEF DecisionsIn, MovesIn
  <1>5. /\ row.row = n + 1
        /\ row.approval = IF D = {} THEN "DRAFT" ELSE log[Max(D)].what
        /\ cur = IF M = {} \/ log[Max(M)].what = "RETIRED" THEN {} ELSE {log[Max(M)].version}
    BY DEF Says
  <1>6. e.what \in {"APPROVED", "REJECTED", "PUBLISHED", "RETIRED"}
    BY DEF EventRow
  <1>7. D2 \in SUBSET (0..(n + 1)) /\ M2 \in SUBSET (0..(n + 1))
    BY <1>1, <1>2, <1>4
  <1> HIDE DEF n, D, D2, M, M2
  <1>8. row2.approval = IF D2 = {} THEN "DRAFT" ELSE new[Max(D2)].what
    <2>1. CASE e.what = "PUBLISHED"
      <3>1. D2 = D
        BY <1>2, <2>1
      <3>2. D # {} => new[Max(D)] = log[Max(D)]
        BY <1>1, <1>3, <1>4
      <3>3. QED
        BY <1>5, <2>1, <3>1, <3>2
    <2>2. CASE e.what # "PUBLISHED"
      <3>1. n + 1 \in D2
        BY <1>2, <2>2
      <3>2. Max(D2) = n + 1
        BY <1>1, <1>7, <3>1, GreatestLast
      <3>3. QED
        BY <1>1, <2>2, <3>1, <3>2
    <2>3. QED
      BY <2>1, <2>2
  <1>9. now2 = IF M2 = {} \/ new[Max(M2)].what = "RETIRED" THEN {} ELSE {new[Max(M2)].version}
    <2>1. CASE e.what \in {"PUBLISHED", "RETIRED"}
      <3>1. n + 1 \in M2
        BY <1>2, <2>1
      <3>2. Max(M2) = n + 1
        BY <1>1, <1>7, <3>1, GreatestLast
      <3>3. QED
        BY <1>1, <2>1, <3>1, <3>2
    <2>2. CASE e.what \notin {"PUBLISHED", "RETIRED"}
      <3>1. M2 = M
        BY <1>2, <2>2
      <3>2. M # {} => new[Max(M)] = log[Max(M)]
        BY <1>1, <1>3, <1>4
      <3>3. QED
        BY <1>5, <2>2, <3>1, <3>2
    <2>3. QED
      BY <2>1, <2>2
  <1>10. row2.row = n + 2
    BY <1>1, <1>5
  <1>11. QED
    BY <1>1, <1>8, <1>9, <1>10 DEF Says, n, D2, M2

LEMMA SoundAfter ==
  ASSUME NEW log \in Seq(EventRow), NEW e \in EventRow, NEW new, new = Append(log, e),
         Sound(log),
         e.what = "PUBLISHED" => DecisionsIn(log, Len(log)) # {}
                                 /\ log[Max(DecisionsIn(log, Len(log)))].what = "APPROVED",
         e.what \in {"APPROVED", "REJECTED"} => e.by # Owner
  PROVE  Sound(new)
  <1> DEFINE n == Len(log)
  <1>1. /\ n \in Nat /\ Len(new) = n + 1
        /\ \A i \in 1..n : new[i] = log[i]
        /\ new[n + 1] = e
    BY LogLengthens
  <1>2. /\ \A i \in 1..n : DecisionsIn(new, i) = DecisionsIn(log, i)
        /\ e.what = "PUBLISHED" => DecisionsIn(new, n + 1) = DecisionsIn(log, n)
    <2>1. ASSUME NEW i \in 1..n
          PROVE  DecisionsIn(new, i) = DecisionsIn(log, i)
      BY DecisionsStay
    <2>2. DecisionsIn(new, n + 1)
            = DecisionsIn(log, n) \cup (IF e.what = "PUBLISHED" THEN {} ELSE {n + 1})
      BY DecisionsAppend
    <2>3. QED
      BY <2>1, <2>2
  <1>3. /\ \A i \in 1..n :
             DecisionsIn(log, i) # {} => Max(DecisionsIn(log, i)) \in DecisionsIn(log, i)
        /\ DecisionsIn(log, n) # {} => Max(DecisionsIn(log, n)) \in DecisionsIn(log, n)
    BY InLog
  <1>4. \A i \in 1..n : DecisionsIn(log, i) \subseteq 1..n
    BY <1>1 DEF DecisionsIn
  <1>5. DecisionsIn(log, n) \subseteq 1..n
    BY DEF DecisionsIn
  <1>6. /\ \A i \in 1..n : log[i].what = "PUBLISHED" => Earned(log, i)
        /\ \A i \in 1..n : log[i].what \in {"APPROVED", "REJECTED"} => log[i].by # Owner
    BY DEF Sound
  <1>7. ASSUME NEW i \in 1..n
        PROVE  Earned(log, i) => Earned(new, i)
    BY <1>1, <1>2, <1>3, <1>4 DEF Earned
  <1>8. e.what = "PUBLISHED" => Earned(new, n + 1)
    <2> SUFFICES ASSUME e.what = "PUBLISHED"
                 PROVE  Earned(new, n + 1)
      OBVIOUS
    <2> DEFINE m == Max(DecisionsIn(log, n))
    <2>1. DecisionsIn(log, n) # {} /\ log[m].what = "APPROVED"
      OBVIOUS
    <2>2. m \in 1..n
      BY <1>3, <1>5, <2>1
    <2>3. log[m].by # Owner /\ new[m] = log[m]
      BY <1>1, <1>6, <2>1, <2>2
    <2>4. DecisionsIn(new, n + 1) = DecisionsIn(log, n)
      BY <1>2
    <2>5. QED
      BY <2>1, <2>3, <2>4 DEF Earned
  <1> HIDE DEF n
  <1>9. \A i \in 1..(n + 1) : i = n + 1 \/ i \in 1..n
    BY <1>1
  <1>10. ASSUME NEW i \in 1..(n + 1)
         PROVE  /\ new[i].what = "PUBLISHED" => Earned(new, i)
                /\ new[i].what \in {"APPROVED", "REJECTED"} => new[i].by # Owner
    BY <1>1, <1>6, <1>7, <1>8, <1>9
  <1>11. QED
    BY <1>1, <1>10 DEF Sound

\* The current version is one the log published, and no other.
LEMMA CurrentWasPublished ==
  ASSUME NEW log \in Seq(EventRow), NEW row, NEW cur, Says(log, row, cur)
  PROVE  /\ \A v \in cur : cur = {v} /\ \E i \in DOMAIN log : log[i].what = "PUBLISHED"
                                                              /\ log[i].version = v
         /\ row.approval = "APPROVED" =>
              /\ DecisionsIn(log, Len(log)) # {}
              /\ log[Max(DecisionsIn(log, Len(log)))].what = "APPROVED"
  <1> DEFINE M == MovesIn(log)
  <1>1. M # {} => Max(M) \in M
    BY InLog
  <1>2. \A i \in M : i \in DOMAIN log /\ log[i].what \in {"PUBLISHED", "RETIRED"}
    BY LenProperties DEF MovesIn
  <1>3. cur = IF M = {} \/ log[Max(M)].what = "RETIRED" THEN {} ELSE {log[Max(M)].version}
    BY DEF Says
  <1> HIDE DEF M
  <1>4. ASSUME NEW v \in cur
        PROVE  cur = {v} /\ \E i \in DOMAIN log : log[i].what = "PUBLISHED" /\ log[i].version = v
    <2>1. M # {} /\ log[Max(M)].what # "RETIRED" /\ cur = {log[Max(M)].version}
      BY <1>3, <1>4
    <2>2. Max(M) \in DOMAIN log /\ log[Max(M)].what = "PUBLISHED"
      BY <1>1, <1>2, <2>1
    <2>3. QED
      BY <1>4, <2>1, <2>2
  <1>5. QED
    BY <1>4 DEF Says

-----------------------------------------------------------------------------
(* Requests and claims                                                     *)

\* Only r moves.
OnlyMoves(r) ==
    /\ ReqTyped'
    /\ req'[r].key = req[r].key \/ req[r].phase = "new"
    /\ \A q \in Requests \ {r} : req'[q] = req[q]

LEMMA GotoMoves ==
  ASSUME ReqTyped, NEW r \in Requests, NEW p \in Phases, NEW x, Goto(r, p, x)
  PROVE  /\ OnlyMoves(r)
         /\ req'[r].phase = p /\ req'[r].got = x
         /\ req'[r].cmd = req[r].cmd /\ req'[r].key = req[r].key
  <1>1. /\ req' = [q \in Requests |-> req'[q]]
        /\ req'[r] = [[req[r] EXCEPT !.phase = p] EXCEPT !.got = x]
        /\ \A q \in Requests \ {r} : req'[q] = req[q]
    BY DEF ReqTyped, Goto
  <1>2. req'[r] \in [phase : {p}, key : {req[r].key}, cmd : {req[r].cmd}, got : {x}]
    BY <1>1 DEF ReqTyped, IsReq
  <1>3. IsReq(req'[r])
    BY <1>2 DEF ReqTyped, IsReq
  <1>4. ReqTyped'
    BY <1>1, <1>3 DEF ReqTyped, IsReq
  <1>5. QED
    BY <1>1, <1>2, <1>4 DEF OnlyMoves

LEMMA AskMoves ==
  ASSUME ReqTyped, NEW r \in Requests, NEW c \in Commands, NEW k \in Requests,
         req[r].phase = "new",
         \/ req' = [req EXCEPT ![r].phase = "asked", ![r].cmd = c, ![r].key = k]
         \/ req' = [req EXCEPT ![r].phase = "asked", ![r].cmd = c]
  PROVE  OnlyMoves(r) /\ req'[r].phase = "asked"
  <1>1. /\ req' = [q \in Requests |-> req'[q]]
        /\ \/ req'[r] = [[[req[r] EXCEPT !.phase = "asked"] EXCEPT !.cmd = c] EXCEPT !.key = k]
           \/ req'[r] = [[req[r] EXCEPT !.phase = "asked"] EXCEPT !.cmd = c]
        /\ \A q \in Requests \ {r} : req'[q] = req[q]
    BY DEF ReqTyped
  <1>2. req[r] \in [phase : Phases, key : Requests, cmd : Commands, got : {req[r].got}]
    BY DEF ReqTyped, IsReq
  <1>3. req'[r] \in [phase : {"asked"}, key : Requests, cmd : Commands, got : {req[r].got}]
    BY <1>1, <1>2
  <1>4. IsReq(req'[r])
    BY <1>3 DEF IsReq, Phases
  <1>5. ReqTyped'
    BY <1>1, <1>2, <1>4 DEF ReqTyped, IsReq
  <1>6. QED
    BY <1>1, <1>3, <1>5 DEF OnlyMoves

\* What a step does to the claims, and what others may go on relying on.
ClaimsStay == claim' = claim
ClaimsUndone(r) == claim' = [k \in Requests |-> IF claim[k] = r THEN "free" ELSE claim[k]]
ClaimsDone(r) == claim' = [claim EXCEPT ![req[r].key] = "done"]

LEMMA ClaimsKept ==
  ASSUME ReqTyped, ClaimsFit, NEW r \in Requests, OnlyMoves(r),
         \/ ClaimsStay /\ (req'[r].phase \notin Holding \/ req[r].phase \in Holding)
         \/ ClaimsUndone(r) /\ req'[r].phase \notin Holding
         \/ ClaimsDone(r) /\ req'[r].phase \notin Holding /\ req[r].phase \in Holding
         \/ /\ claim' = [claim EXCEPT ![req[r].key] = r] /\ claim[req[r].key] = "free"
            /\ req'[r].key = req[r].key
  PROVE  /\ ClaimsFit'
         /\ \A k \in Requests : claim[k] = "done" => claim'[k] = "done"
  <1>1. /\ claim \in [Requests -> {"free", "done"} \cup Requests]
        /\ \A q \in Requests : req[q].key \in Requests
        /\ \A q \in Requests : req[q].phase \in Holding => claim[req[q].key] = q
        /\ \A q \in Requests \ {r} : req'[q] = req[q]
        /\ "new" \notin Holding
        /\ "free" \notin Requests /\ "done" \notin Requests
        /\ req'[r].key \in Requests
    BY KnowledgeAssumption DEF ClaimsFit, ReqTyped, IsReq, OnlyMoves, Holding, Switches
  <1>2. CASE ClaimsStay /\ (req'[r].phase \notin Holding \/ req[r].phase \in Holding)
    <2>1. \A q \in Requests : req'[q].phase \in Holding => claim[req'[q].key] = q
      BY <1>1, <1>2 DEF OnlyMoves
    <2>2. QED
      BY <1>1, <1>2, <2>1 DEF ClaimsFit, ClaimsStay
  <1>3. CASE ClaimsUndone(r) /\ req'[r].phase \notin Holding
    <2>1. claim' \in [Requests -> {"free", "done"} \cup Requests]
      BY <1>1, <1>3 DEF ClaimsUndone
    <2>2. \A k \in Requests : claim[k] # r => claim'[k] = claim[k]
      BY <1>3 DEF ClaimsUndone
    <2>3. \A q \in Requests : req'[q].phase \in Holding => claim'[req'[q].key] = q
      BY <1>1, <1>3, <2>2
    <2>4. QED
      BY <1>1, <2>1, <2>2, <2>3 DEF ClaimsFit
  <1>4. CASE ClaimsDone(r) /\ req'[r].phase \notin Holding /\ req[r].phase \in Holding
    <2>1. claim' \in [Requests -> {"free", "done"} \cup Requests]
      BY <1>1, <1>4 DEF ClaimsDone
    <2>2. \A k \in Requests : claim[k] # r => claim'[k] = claim[k]
      BY <1>1, <1>4 DEF ClaimsDone
    <2>3. \A q \in Requests : req'[q].phase \in Holding => claim'[req'[q].key] = q
      BY <1>1, <1>4, <2>2
    <2>4. QED
      BY <1>1, <2>1, <2>2, <2>3 DEF ClaimsFit
  <1>5. CASE /\ claim' = [claim EXCEPT ![req[r].key] = r] /\ claim[req[r].key] = "free"
             /\ req'[r].key = req[r].key
    <2>1. claim' \in [Requests -> {"free", "done"} \cup Requests] /\ claim'[req[r].key] = r
      BY <1>1, <1>5
    <2>2. \A k \in Requests : claim[k] # "free" => claim'[k] = claim[k]
      BY <1>1, <1>5
    <2>3. \A q \in Requests : req'[q].phase \in Holding => claim'[req'[q].key] = q
      BY <1>1, <1>5, <2>1, <2>2
    <2>4. QED
      BY <1>1, <2>1, <2>2, <2>3 DEF ClaimsFit
  <1>6. QED
    BY <1>2, <1>3, <1>4, <1>5

LEMMA OthersServe ==
  ASSUME RowsTyped, NEW q \in Requests, IsReq(req[q]), req'[q] = req[q], Serving(q),
         begun' \in Nat, begun <= begun',
         DOMAIN corpus \subseteq DOMAIN corpus',
         req[q].phase = "read" => doc'[req[q].cmd.doc] = doc[req[q].cmd.doc],
         req[q].phase = "written" => corpus' = corpus
  PROVE  Serving(q)'
  <1>1. req'[q].phase = "read" => ReadsRow(q)'
    BY DEF Serving, ReadsRow
  <1>2. req'[q].phase = "scanned" => ReadsChunks(q)'
    <2> SUFFICES ASSUME req[q].phase = "scanned"
                 PROVE  ReadsChunks(q)'
      OBVIOUS
    <2>1. /\ req[q].got.run \in ValidationRun /\ req[q].got.run.at <= begun
          /\ req[q].got.found \subseteq Chunks
      BY DEF Serving, ReadsChunks
    <2>2. req[q].got.run.at \in Nat /\ begun \in Nat
      BY <2>1 DEF ValidationRun, RowsTyped
    <2>3. req[q].got.run.at <= begun'
      BY <2>1, <2>2
    <2>4. QED
      BY <2>1, <2>3 DEF ReadsChunks
  <1>3. req'[q].phase \in Switches => ReadsVersions(q)'
    <2> SUFFICES ASSUME req[q].phase \in Switches
                 PROVE  ReadsVersions(q)'
      OBVIOUS
    <2>1. /\ req[q].got \in SwitchRow
          /\ req[q].cmd.op = "ROLLBACK" => req[q].got.of \in DOMAIN corpus'
          /\ req[q].phase = "written" => ActiveNumbers \subseteq req[q].got.off \cup RollsBackTo(q)
      BY DEF Serving, ReadsVersions
    <2>2. RollsBackTo(q)' = RollsBackTo(q)
      BY DEF RollsBackTo
    <2>3. req[q].phase = "written" => ActiveNumbers' = ActiveNumbers
      BY DEF ActiveNumbers
    <2>4. QED
      BY <2>1, <2>2, <2>3 DEF ReadsVersions
  <1>4. QED
    BY <1>1, <1>2, <1>3 DEF Serving

LEMMA AloneKept ==
  ASSUME Alone, NEW r \in Requests, OnlyMoves(r),
         req'[r].phase = "read" => \A q \in Requests \ {r} :
           req[q].phase = "read" => req[q].cmd.doc # req'[r].cmd.doc,
         req'[r].phase = "written" => \A q \in Requests \ {r} : req[q].phase # "written"
  PROVE  Alone'
  BY DEF Alone, OnlyMoves

\* What is left to show of a step of r.
LEMMA StepOf ==
  ASSUME IInv, NEW r \in Requests, OnlyMoves(r), RowsTyped', ClaimsFit',
         \A k \in Requests : claim[k] = "done" => claim'[k] = "done",
         \A d \in Docs : \A k \in Logged(trail[d])' : k \in Logged(trail[d]) \/ claim'[k] = "done",
         \A k \in Logged(ledger)' : k \in Logged(ledger) \/ claim'[k] = "done",
         Serving(r)', Alone', Trails', OncePerKey(ledger)', LedgerNamesActive',
         begun <= begun', DOMAIN corpus \subseteq DOMAIN corpus',
         \A q \in Requests \ {r} :
           /\ req[q].phase = "read" => doc'[req[q].cmd.doc] = doc[req[q].cmd.doc]
           /\ req[q].phase = "written" => corpus' = corpus
  PROVE  IInv'
  <1>1. ASSUME NEW q \in Requests \ {r}
        PROVE  Serving(q)'
    <2>1. IsReq(req[q]) /\ Serving(q) /\ RowsTyped
      BY DEF IInv, ReqTyped
    <2>2. req'[q] = req[q] /\ begun' \in Nat
      BY DEF OnlyMoves, RowsTyped
    <2>3. QED
      BY <2>1, <2>2, OthersServe
  <1>2. \A k \in Logged(ledger)' : k \in Requests
    BY DEF Logged
  <1>3. \A d \in Docs : \A k \in Logged(trail[d])' : k \in Requests
    BY DEF Logged
  <1>4. \A k \in Logged(ledger)' : claim'[k] = "done"
    BY <1>2 DEF IInv, KeysDone
  <1>5. \A d \in Docs : \A k \in Logged(trail[d])' : claim'[k] = "done"
    BY <1>3 DEF IInv, KeysDone
  <1>6. KeysDone'
    BY <1>4, <1>5 DEF KeysDone
  <1>7. ReqTyped' /\ \A q \in Requests : Serving(q)'
    BY <1>1 DEF OnlyMoves
  <1>8. QED
    BY <1>6, <1>7 DEF IInv

\* A step that leaves the rows as they are.
LEMMA QuietStep ==
  ASSUME IInv, NEW r \in Requests, OnlyMoves(r), UNCHANGED <<documents, corpora>>,
         begun' \in Nat, begun <= begun', ClaimsFit',
         \A k \in Requests : claim[k] = "done" => claim'[k] = "done",
         Serving(r)', Alone'
  PROVE  IInv'
  <1>1. /\ doc' = doc /\ version' = version /\ current' = current /\ trail' = trail
        /\ flagged' = flagged /\ runs' = runs /\ corpus' = corpus /\ ledger' = ledger
    BY DEF documents, corpora
  <1>2. RowsTyped'
    <2>1. begun \in Nat /\ \A run \in runs : run.at \in Nat /\ run.at <= begun
      BY DEF IInv, RowsTyped, ValidationRun
    <2>2. \A run \in runs : run.at <= begun'
      BY <2>1
    <2>3. QED
      BY <1>1, <2>2 DEF IInv, RowsTyped
  <1>3. Trails' /\ OncePerKey(ledger)' /\ LedgerNamesActive'
    <2>1. Trails'
      BY <1>1 DEF IInv, Trails
    <2>2. OncePerKey(ledger)'
      BY <1>1 DEF IInv
    <2>3. LedgerNamesActive'
      BY <1>1 DEF IInv, LedgerNamesActive, ActiveNumbers
    <2>4. QED
      BY <2>1, <2>2, <2>3
  <1>4. /\ \A d \in Docs : \A k \in Logged(trail[d])' : k \in Logged(trail[d])
        /\ \A k \in Logged(ledger)' : k \in Logged(ledger)
    BY <1>1
  <1>5. QED
    BY <1>1, <1>2, <1>3, <1>4, StepOf

-----------------------------------------------------------------------------
(* Requests                                                                *)

LEMMA AskStep ==
  ASSUME IInv, NEW r \in Requests,
         (\E c \in Askable : Ask(r, c)) \/ (\E q \in Requests : AskAgain(r, q))
  PROVE  IInv'
  <1>1. ReqTyped /\ Alone /\ begun \in Nat /\ ClaimsFit
    BY DEF IInv, RowsTyped
  <1>2. UNCHANGED <<documents, corpora, begun, claim>> /\ req[r].phase = "new"
    BY DEF Ask, AskAgain
  <1>3. OnlyMoves(r) /\ req'[r].phase = "asked"
    <2>1. CASE \E c \in Askable : Ask(r, c)
      <3>1. PICK c \in Askable : Ask(r, c)
        BY <2>1
      <3>2. c \in Commands
        <4>1. \A d \in Docs : doc[d].row \in Nat
          BY DEF IInv, RowsTyped, DocumentRow
        <4>2. {doc[d].row : d \in Docs} \subseteq Nat
          BY <4>1
        <4>3. QED
          BY <4>2 DEF Askable, Commands, DocumentCommands, CorpusCommands
      <3>3. QED
        BY <1>1, <1>2, <3>1, <3>2, AskMoves DEF Ask
    <2>2. CASE \E q \in Requests : AskAgain(r, q)
      <3>1. PICK q \in Requests : AskAgain(r, q)
        BY <2>2
      <3>2. req[q].cmd \in Commands /\ req[q].key \in Requests
        BY <1>1 DEF ReqTyped, IsReq
      <3>3. QED
        BY <1>1, <1>2, <3>1, <3>2, AskMoves DEF AskAgain
    <2>3. QED
      BY <2>1, <2>2
  <1>4. Serving(r)' /\ "asked" \notin Holding
    BY <1>3 DEF Serving, Holding, Switches
  <1>5. Alone'
    BY <1>1, <1>3, AloneKept
  <1>6. ClaimsFit' /\ \A k \in Requests : claim[k] = "done" => claim'[k] = "done"
    BY <1>1, <1>2, <1>3, <1>4, ClaimsKept DEF ClaimsStay
  <1>7. begun <= begun' /\ begun' \in Nat
    BY <1>1, <1>2
  <1>8. QED
    BY <1>2, <1>3, <1>4, <1>5, <1>6, <1>7, QuietStep

LEMMA ClaimStep ==
  ASSUME IInv, NEW r \in Requests, ClaimIdempotency(r)
  PROVE  IInv'
  <1>1. ReqTyped /\ Alone /\ begun \in Nat /\ ClaimsFit
    BY DEF IInv, RowsTyped
  <1>2. UNCHANGED <<documents, corpora, begun>> /\ req[r].phase = "asked"
    BY DEF ClaimIdempotency
  <1>3. "done" \in Phases \ Holding /\ "claimed" \in Phases /\ "asked" \notin Holding
    BY DEF Phases, Holding, Switches
  <1>4. /\ OnlyMoves(r) /\ req'[r].phase \in {"done", "claimed"}
        /\ ClaimsFit' /\ \A k \in Requests : claim[k] = "done" => claim'[k] = "done"
    <2>1. CASE Goto(r, "done", <<>>) /\ UNCHANGED claim
      <3>1. OnlyMoves(r) /\ req'[r].phase = "done"
        BY <1>1, <1>3, <2>1, GotoMoves
      <3>2. QED
        BY <1>1, <1>3, <2>1, <3>1, ClaimsKept DEF ClaimsStay
    <2>2. CASE /\ Goto(r, "claimed", <<>>) /\ claim' = [claim EXCEPT ![req[r].key] = r]
               /\ claim[req[r].key] = "free"
      <3>1. OnlyMoves(r) /\ req'[r].phase = "claimed" /\ req'[r].key = req[r].key
        BY <1>1, <1>3, <2>2, GotoMoves
      <3>2. QED
        BY <1>1, <2>2, <3>1, ClaimsKept
    <2>3. QED
      BY <2>1, <2>2 DEF ClaimIdempotency
  <1>5. Serving(r)'
    BY <1>4 DEF Serving, Switches
  <1>6. Alone'
    BY <1>1, <1>4, AloneKept
  <1>7. begun <= begun' /\ begun' \in Nat
    BY <1>1, <1>2
  <1>8. QED
    BY <1>2, <1>4, <1>5, <1>6, <1>7, QuietStep

LEMMA UndoStep ==
  ASSUME IInv, NEW r \in Requests, Undo(r), req[r].phase \in Phases \ {"new", "done", "failed"}
  PROVE  IInv'
  <1>1. ReqTyped /\ Alone /\ begun \in Nat /\ ClaimsFit
    BY DEF IInv, RowsTyped
  <1>2. /\ UNCHANGED <<documents, corpora, begun>> /\ ClaimsUndone(r)
        /\ Goto(r, "failed", <<>>) /\ "failed" \in Phases \ Holding
    BY DEF Undo, ClaimsUndone, Phases, Holding, Switches
  <1>3. OnlyMoves(r) /\ req'[r].phase = "failed"
    BY <1>1, <1>2, GotoMoves
  <1>4. ClaimsFit' /\ \A k \in Requests : claim[k] = "done" => claim'[k] = "done"
    BY <1>1, <1>2, <1>3, ClaimsKept
  <1>5. Serving(r)'
    BY <1>3 DEF Serving, Switches
  <1>6. Alone'
    BY <1>1, <1>3, AloneKept
  <1>7. begun <= begun' /\ begun' \in Nat
    BY <1>1, <1>2
  <1>8. QED
    BY <1>2, <1>3, <1>4, <1>5, <1>6, <1>7, QuietStep

\* A statement of a transaction that only reads.
LEMMA ReadStep ==
  ASSUME IInv, NEW r \in Requests, NEW p \in Holding, NEW x, Goto(r, p, x),
         req[r].phase \in Holding, UNCHANGED <<documents, corpora, claim>>,
         begun' \in Nat, begun <= begun',
         Serving(r)',
         p = "read" => \A q \in Requests \ {r} :
           req[q].phase = "read" => req[q].cmd.doc # req[r].cmd.doc,
         p = "written" => \A q \in Requests \ {r} : req[q].phase # "written"
  PROVE  IInv'
  <1>1. ReqTyped /\ Alone /\ ClaimsFit /\ p \in Phases
    BY DEF IInv, Phases
  <1>2. OnlyMoves(r) /\ req'[r].phase = p /\ req'[r].cmd = req[r].cmd
    BY <1>1, GotoMoves
  <1>3. ClaimsFit' /\ \A k \in Requests : claim[k] = "done" => claim'[k] = "done"
    BY <1>1, <1>2, ClaimsKept DEF ClaimsStay
  <1>4. Alone'
    BY <1>1, <1>2, AloneKept
  <1>5. QED
    BY <1>2, <1>3, <1>4, QuietStep

LEMMA LockDocumentStep ==
  ASSUME IInv, NEW r \in Requests, LockDocument(r)
  PROVE  IInv'
  <1> DEFINE row == doc[req[r].cmd.doc]
  <1>1. ReqTyped /\ begun \in Nat
    BY DEF IInv, RowsTyped
  <1>2. /\ req[r].phase \in Holding /\ req[r].cmd \in DocumentCommands
        /\ Goto(r, "read", row) /\ "read" \in Holding /\ "read" \in Phases
        /\ UNCHANGED <<documents, corpora, begun, claim>>
        /\ \A q \in Requests \ {r} : req[q].phase = "read" => req[q].cmd.doc # req[r].cmd.doc
    BY DEF LockDocument, Phases, Holding, Switches
  <1>3. /\ req'[r].phase = "read" /\ req'[r].got = row /\ req'[r].cmd = req[r].cmd
    BY <1>1, <1>2, GotoMoves
  <1>4. doc' = doc
    BY <1>2 DEF documents
  <1>5. Serving(r)'
    BY <1>2, <1>3, <1>4 DEF Serving, ReadsRow, Switches
  <1>6. begun <= begun' /\ begun' \in Nat /\ UNCHANGED <<documents, corpora, claim>>
    BY <1>1, <1>2
  <1> HIDE DEF row
  <1>7. QED
    BY <1>2, <1>5, <1>6, ReadStep

LEMMA FindNearDuplicatesStep ==
  ASSUME IInv, NEW r \in Requests, FindNearDuplicates(r)
  PROVE  IInv'
  <1>1. ReqTyped /\ begun \in Nat
    BY DEF IInv, RowsTyped
  <1>2. PICK truncated \in BOOLEAN :
          Goto(r, "scanned", [run |-> CreateRun(truncated), found |-> NearDuplicates])
    BY DEF FindNearDuplicates
  <1> DEFINE got == [run |-> CreateRun(truncated), found |-> NearDuplicates]
  <1>3. /\ req[r].phase \in Holding /\ "scanned" \in Holding /\ "scanned" \in Phases
        /\ UNCHANGED <<documents, corpora, claim>> /\ begun' = begun + 1
    BY DEF FindNearDuplicates, Phases, Holding, Switches
  <1>4. got.run \in ValidationRun /\ got.run.at = begun + 1 /\ got.found \subseteq Chunks
    BY <1>1 DEF CreateRun, Processings, ValidationRun, NearDuplicates, Scanned
  <1>5. Goto(r, "scanned", got)
    BY <1>2
  <1> HIDE DEF got
  <1>6. req'[r].phase = "scanned" /\ req'[r].got = got
    BY <1>1, <1>3, <1>5, GotoMoves
  <1>7. begun' \in Nat /\ begun <= begun' /\ begun + 1 <= begun'
    BY <1>1, <1>3
  <1>8. Serving(r)'
    BY <1>4, <1>6, <1>7 DEF Serving, ReadsChunks, Switches
  <1>9. QED
    BY <1>3, <1>5, <1>7, <1>8, ReadStep

\* Of the runs there is a newest.
LEMMA LatestRunTyped ==
  ASSUME RowsTyped, runs # {}
  PROVE  LatestRun \in runs /\ LatestRun.at \in Nat
  <1> DEFINE S == {run.at : run \in runs}
  <1>1. /\ begun \in Nat
        /\ \A run \in runs : run.at \in Nat /\ run.at <= begun
    BY DEF RowsTyped, ValidationRun
  <1>2. S \in SUBSET (0..begun)
    BY <1>1
  <1>3. S # {}
    OBVIOUS
  <1>4. Max(S) \in S /\ \A x \in S : x <= Max(S)
    BY <1>1, <1>2, <1>3, Greatest
  <1>5. PICK run \in runs : run.at = Max(S)
    BY <1>4
  <1>6. \A other \in runs : other.at <= run.at
    BY <1>4, <1>5
  <1>7. LatestRun \in runs
    BY <1>6 DEF LatestRun
  <1>8. QED
    BY <1>1, <1>7

\* The first statement of a switch.
LEMMA SwitchBegins ==
  ASSUME IInv, NEW r \in Requests, NEW n \in Nat, Goto(r, "ready", Switch(n)),
         req[r].phase \in Holding, UNCHANGED <<documents, corpora, begun, claim>>,
         req[r].cmd.op = "ROLLBACK" => n \in DOMAIN corpus
  PROVE  IInv'
  <1> DEFINE got == Switch(n)
  <1>1. ReqTyped /\ begun \in Nat
    BY DEF IInv, RowsTyped
  <1>2. "ready" \in Holding /\ "ready" \in Phases /\ corpus' = corpus
    BY DEF Phases, Holding, Switches, corpora
  <1>3. got \in SwitchRow /\ got.of = n
    BY DEF Switch, SwitchRow
  <1> HIDE DEF got
  <1>4. Goto(r, "ready", got)
    BY DEF got
  <1>5. req'[r].phase = "ready" /\ req'[r].got = got /\ req'[r].cmd = req[r].cmd
    BY <1>1, <1>2, <1>4, GotoMoves
  <1>6. Serving(r)'
    BY <1>2, <1>3, <1>5 DEF Serving, ReadsVersions
  <1>7. begun' \in Nat /\ begun <= begun' /\ UNCHANGED <<documents, corpora, claim>>
    BY <1>1
  <1>8. QED
    BY <1>2, <1>4, <1>6, <1>7, ReadStep

LEMMA ReadinessStep ==
  ASSUME IInv, NEW r \in Requests, Readiness(r)
  PROVE  IInv'
  <1>1. req[r].phase = "claimed" /\ req[r].cmd.op = "PUBLISH_CORPUS"
    BY DEF Readiness
  <1>2. CASE Undo(r)
    BY <1>1, <1>2, UndoStep DEF Phases, Holding
  <1>3. CASE /\ ~ Blocked /\ Goto(r, "ready", Switch(LatestRun.at))
             /\ UNCHANGED <<documents, corpora, begun, claim>>
    <2>1. LatestRun.at \in Nat
      BY <1>3, LatestRunTyped DEF Blocked, IInv
    <2>2. req[r].phase \in Holding
      BY <1>1 DEF Holding
    <2>3. QED
      BY <1>1, <1>3, <2>1, <2>2, SwitchBegins
  <1>4. QED
    BY <1>2, <1>3 DEF Readiness

\* At most one version is active, and it is one of the corpus.
LEMMA OneActive ==
  ASSUME RowsTyped, LedgerNamesActive
  PROVE  /\ Len(corpus) \in Nat /\ DOMAIN corpus = 1..Len(corpus)
         /\ ActiveNumbers \subseteq DOMAIN corpus
         /\ \A n \in ActiveNumbers : ActiveNumbers = {n}
  <1>1. Len(corpus) \in Nat /\ DOMAIN corpus = 1..Len(corpus)
    BY LenProperties DEF RowsTyped
  <1>2. QED
    BY <1>1 DEF LedgerNamesActive, ActiveNumbers

LEMMA FindPreviousStep ==
  ASSUME IInv, NEW r \in Requests, FindPrevious(r)
  PROVE  IInv'
  <1>1. req[r].phase = "claimed" /\ req[r].cmd.op = "ROLLBACK"
    BY DEF FindPrevious
  <1>2. CASE Undo(r)
    BY <1>1, <1>2, UndoStep DEF Phases, Holding
  <1>3. CASE /\ ~ (ActiveNumbers \subseteq {1})
             /\ Goto(r, "ready", Switch(Max(ActiveNumbers) - 1))
             /\ UNCHANGED <<documents, corpora, begun, claim>>
    <2>1. /\ Len(corpus) \in Nat /\ DOMAIN corpus = 1..Len(corpus)
          /\ ActiveNumbers \subseteq DOMAIN corpus
          /\ \A n \in ActiveNumbers : ActiveNumbers = {n}
      BY OneActive DEF IInv
    <2>2. PICK n \in ActiveNumbers : n # 1
      BY <1>3
    <2>3. ActiveNumbers = {n} /\ n \in 1..Len(corpus)
      BY <2>1, <2>2
    <2>4. n \in Nat /\ {n} \in SUBSET (0..n)
      BY <2>3
    <2>5. Max({n}) = n
      BY <2>4, GreatestLast
    <2>6. n - 1 \in Nat /\ n - 1 \in DOMAIN corpus
      BY <2>1, <2>2, <2>3
    <2>7. req[r].phase \in Holding /\ Goto(r, "ready", Switch(n - 1))
      BY <1>1, <1>3, <2>3, <2>5 DEF Holding
    <2>8. QED
      BY <1>3, <2>6, <2>7, SwitchBegins
  <1>4. QED
    BY <1>2, <1>3 DEF FindPrevious

\* A later statement of a switch: what it read before stays.
LEMMA SwitchGoesOn ==
  ASSUME IInv, NEW r \in Requests, NEW p \in Switches, NEW got \in SwitchRow, Goto(r, p, got),
         req[r].phase \in Switches, got.of = req[r].got.of,
         UNCHANGED <<documents, corpora, begun, claim>>,
         p = "written" =>
           /\ \A q \in Requests \ {r} : req[q].phase # "written"
           /\ ActiveNumbers \subseteq got.off \cup RollsBackTo(r)
  PROVE  IInv'
  <1>1. ReqTyped /\ begun \in Nat /\ ReadsVersions(r)
    BY DEF IInv, RowsTyped, Serving
  <1>2. p \in Holding /\ p \in Phases /\ req[r].phase \in Holding /\ corpus' = corpus
    BY DEF Phases, Holding, corpora
  <1>3. req'[r].phase = p /\ req'[r].got = got /\ req'[r].cmd = req[r].cmd
    BY <1>1, <1>2, GotoMoves
  <1>4. ActiveNumbers' = ActiveNumbers /\ RollsBackTo(r)' = RollsBackTo(r)
    BY <1>2, <1>3 DEF ActiveNumbers, RollsBackTo
  <1>5. ReadsVersions(r)'
    BY <1>1, <1>2, <1>3, <1>4 DEF ReadsVersions
  <1>6. p \notin {"read", "scanned"}
    BY DEF Switches
  <1>7. Serving(r)'
    BY <1>3, <1>5, <1>6 DEF Serving
  <1>8. begun' \in Nat /\ begun <= begun' /\ UNCHANGED <<documents, corpora, claim>>
    BY <1>1
  <1>9. QED
    BY <1>2, <1>6, <1>7, <1>8, ReadStep

LEMMA SwitchStep ==
  ASSUME IInv, NEW r \in Requests, StartSwitch(r) \/ DeactivateActive(r) \/ WriteActive(r)
  PROVE  IInv'
  <1> DEFINE got == req[r].got
  <1>1. req[r].phase \in Switches /\ {"switching", "switched", "written"} \subseteq Switches
    BY DEF StartSwitch, DeactivateActive, WriteActive, Switches
  <1>2. got \in SwitchRow
    BY <1>1 DEF IInv, Serving, ReadsVersions
  <1>3. ActiveNumbers \subseteq Nat
    <2>1. /\ Len(corpus) \in Nat /\ DOMAIN corpus = 1..Len(corpus)
          /\ ActiveNumbers \subseteq DOMAIN corpus
      BY OneActive DEF IInv
    <2>2. QED
      BY <2>1
  <1>4. CASE StartSwitch(r)
    <2> DEFINE x == [got EXCEPT !.sees = ActiveNumbers]
    <2>1. x \in SwitchRow /\ x.of = got.of
      BY <1>2, <1>3 DEF SwitchRow
    <2>2. Goto(r, "switching", x) /\ UNCHANGED <<documents, corpora, begun, claim>>
      BY <1>4 DEF StartSwitch
    <2> HIDE DEF x
    <2>3. QED
      BY <1>1, <2>1, <2>2, SwitchGoesOn
  <1>5. CASE DeactivateActive(r)
    <2> DEFINE x == [got EXCEPT !.off = got.sees \cap ActiveNumbers]
    <2>1. x \in SwitchRow /\ x.of = got.of
      BY <1>2, <1>3 DEF SwitchRow
    <2>2. Goto(r, "switched", x) /\ UNCHANGED <<documents, corpora, begun, claim>>
      BY <1>5 DEF DeactivateActive
    <2> HIDE DEF x
    <2>3. QED
      BY <1>1, <2>1, <2>2, SwitchGoesOn
  <1>6. CASE WriteActive(r)
    <2>1. CASE Undo(r)
      BY <1>6, <2>1, UndoStep DEF WriteActive, Phases, Holding, Switches
    <2>2. CASE /\ ActiveNumbers \subseteq got.off \cup RollsBackTo(r)
               /\ Goto(r, "written", got) /\ UNCHANGED <<documents, corpora, begun, claim>>
      <3>1. \A q \in Requests : req[q].phase # "written"
        BY <1>6 DEF WriteActive
      <3>2. QED
        BY <1>1, <1>2, <2>2, <3>1, SwitchGoesOn
    <2>3. QED
      BY <1>6, <2>1, <2>2 DEF WriteActive, RollsBackTo
  <1>7. QED
    BY <1>4, <1>5, <1>6

-----------------------------------------------------------------------------
(* Commits                                                                 *)

\* What is left to show of a step that commits.
LEMMA CommitStep ==
  ASSUME IInv, NEW r \in Requests, req[r].phase \in Holding, Commit(r), RowsTyped',
         \A d \in Docs : Logged(trail[d])' \subseteq Logged(trail[d]) \cup {req[r].key},
         Logged(ledger)' \subseteq Logged(ledger) \cup {req[r].key},
         Trails', OncePerKey(ledger)', LedgerNamesActive',
         begun' = begun, DOMAIN corpus \subseteq DOMAIN corpus',
         \A q \in Requests \ {r} :
           /\ req[q].phase = "read" => doc'[req[q].cmd.doc] = doc[req[q].cmd.doc]
           /\ req[q].phase = "written" => corpus' = corpus
  PROVE  IInv'
  <1>1. ReqTyped /\ Alone /\ ClaimsFit /\ begun \in Nat
    BY DEF IInv, RowsTyped
  <1>2. /\ Goto(r, "done", <<>>) /\ ClaimsDone(r) /\ "done" \in Phases \ Holding
        /\ req[r].key \in Requests
    BY <1>1 DEF Commit, ClaimsDone, Phases, Holding, Switches, ReqTyped, IsReq
  <1>3. OnlyMoves(r) /\ req'[r].phase = "done"
    BY <1>1, <1>2, GotoMoves
  <1>4. ClaimsFit' /\ \A k \in Requests : claim[k] = "done" => claim'[k] = "done"
    BY <1>1, <1>2, <1>3, ClaimsKept
  <1>5. claim'[req[r].key] = "done"
    BY <1>1, <1>2 DEF ClaimsFit, ClaimsDone
  <1>6. Serving(r)'
    BY <1>3 DEF Serving, Switches
  <1>7. Alone'
    BY <1>1, <1>3, AloneKept
  <1>8. \A k \in Logged(ledger)' : k \in Logged(ledger) \/ claim'[k] = "done"
    BY <1>5
  <1>9. \A d \in Docs : \A k \in Logged(trail[d])' : k \in Logged(trail[d]) \/ claim'[k] = "done"
    BY <1>5
  <1>10. begun <= begun'
    BY <1>1
  <1>11. QED
    BY <1>3, <1>4, <1>6, <1>7, <1>8, <1>9, <1>10, StepOf

\* The key of a transaction under way is in no log.
LEMMA KeyNotLogged ==
  ASSUME IInv, NEW r \in Requests, req[r].phase \in Holding
  PROVE  /\ req[r].key \in Requests
         /\ req[r].key \notin Logged(ledger)
         /\ \A d \in Docs : req[r].key \notin Logged(trail[d])
  <1>1. claim[req[r].key] = r /\ req[r].key \in Requests /\ "done" \notin Requests
    BY KnowledgeAssumption DEF IInv, ClaimsFit, ReqTyped, IsReq
  <1>2. QED
    BY <1>1 DEF IInv, KeysDone

\* A command about document d, decided on the row r has locked: one event, and
\* what it says.
LEMMA DocumentStep ==
  ASSUME IInv, NEW r \in Requests, req[r].phase = "read", Commit(r),
         NEW e \in EventRow, e.key = req[r].key,
         NEW d \in Docs, d = req[r].cmd.doc,
         NEW row \in DocumentRow, NEW cur \in SUBSET Numbers,
         trail' = [trail EXCEPT ![d] = Append(trail[d], e)],
         doc' = [doc EXCEPT ![d] = row],
         current' = [current EXCEPT ![d] = cur],
         UNCHANGED <<version, corpora, begun>>,
         row.row = doc[d].row + 1,
         row.approval = IF e.what = "PUBLISHED" THEN doc[d].approval ELSE e.what,
         cur = IF e.what = "PUBLISHED" THEN {e.version}
               ELSE IF e.what = "RETIRED" THEN {} ELSE current[d],
         e.what = "PUBLISHED" => doc[d].approval = "APPROVED",
         e.what \in {"APPROVED", "REJECTED"} => e.by # Owner
  PROVE  IInv'
  <1> DEFINE log == trail[d]
             new == Append(log, e)
             was == doc[d]
             before == current[d]
  <1>1. RowsTyped /\ Trails /\ Alone
    BY DEF IInv
  <1>2. log \in Seq(EventRow) /\ Says(log, was, before) /\ Sound(log) /\ OncePerKey(log)
    BY <1>1 DEF RowsTyped, Trails
  <1>3. /\ new = Append(log, e)
        /\ row.row = was.row + 1
        /\ row.approval = IF e.what = "PUBLISHED" THEN was.approval ELSE e.what
        /\ cur = IF e.what = "PUBLISHED" THEN {e.version}
                 ELSE IF e.what = "RETIRED" THEN {} ELSE before
        /\ e.what = "PUBLISHED" => was.approval = "APPROVED"
        /\ e.key \notin Logged(log)
    BY KeyNotLogged DEF Holding
  <1> HIDE DEF log, new, was, before
  <1>4. new \in Seq(EventRow) /\ Says(new, row, cur)
    <2>1. new \in Seq(EventRow)
      BY <1>2, <1>3, LogLengthens
    <2>2. Says(new, row, cur)
      BY <1>2, <1>3, SaysAfter, ZenonT(30)
    <2>3. QED
      BY <2>1, <2>2
  <1>5. Sound(new)
    <2>1. was.approval = "APPROVED" =>
            /\ DecisionsIn(log, Len(log)) # {}
            /\ log[Max(DecisionsIn(log, Len(log)))].what = "APPROVED"
      BY <1>2, CurrentWasPublished
    <2>2. QED
      BY <1>2, <1>3, <2>1, SoundAfter
  <1>6. /\ OncePerKey(new)
        /\ Logged(new) \subseteq Logged(log) \cup {req[r].key}
    <2>1. OncePerKey(new) /\ Logged(new) \subseteq Logged(log) \cup {e.key}
      BY <1>2, <1>3, EventsOnce
    <2>2. QED
      BY <2>1
  <1> USE DEF log
  <1>7. /\ trail' = [trail EXCEPT ![d] = new]
        /\ version' = version /\ flagged' = flagged /\ runs' = runs /\ corpus' = corpus
        /\ ledger' = ledger /\ begun' = begun
    BY DEF corpora, new
  <1>8. RowsTyped'
    <2>1. trail' \in [Docs -> Seq(EventRow)]
      BY <1>1, <1>4, <1>7 DEF RowsTyped
    <2>2. doc' \in [Docs -> DocumentRow] /\ current' \in [Docs -> SUBSET Numbers]
      BY <1>1 DEF RowsTyped
    <2>3. version \in [Docs -> [Numbers -> Versions]] /\ flagged \subseteq Chunks /\ begun \in Nat
      BY <1>1 DEF RowsTyped
    <2>4. /\ runs \subseteq ValidationRun /\ \A run \in runs : run.at <= begun
          /\ corpus \in Seq(CorpusRow) /\ ledger \in Seq(LedgerRow)
      BY <1>1 DEF RowsTyped
    <2>5. /\ version' = version /\ flagged' = flagged /\ runs' = runs /\ corpus' = corpus
          /\ ledger' = ledger /\ begun' = begun
      BY <1>7
    <2>6. /\ version' \in [Docs -> [Numbers -> Versions]] /\ flagged' \subseteq Chunks
          /\ begun' \in Nat /\ corpus' \in Seq(CorpusRow) /\ ledger' \in Seq(LedgerRow)
      BY <2>3, <2>4, <2>5
    <2>7. runs' \subseteq ValidationRun /\ \A run \in runs' : run.at <= begun'
      BY <2>4, <2>5
    <2>8. QED
      BY <2>1, <2>2, <2>6, <2>7 DEF RowsTyped
  <1>9. /\ trail'[d] = new /\ doc'[d] = row /\ current'[d] = cur
        /\ \A x \in Docs \ {d} :
             trail'[x] = trail[x] /\ doc'[x] = doc[x] /\ current'[x] = current[x]
    BY <1>1, <1>7 DEF RowsTyped
  <1>10. Trails'
    <2>1. Says(trail'[d], doc'[d], current'[d]) /\ Sound(trail'[d]) /\ OncePerKey(trail'[d])
      BY <1>4, <1>5, <1>6, <1>9
    <2>2. ASSUME NEW x \in Docs \ {d}
          PROVE  Says(trail'[x], doc'[x], current'[x]) /\ Sound(trail'[x]) /\ OncePerKey(trail'[x])
      BY <1>1, <1>9 DEF Trails
    <2>3. QED
      BY <2>1, <2>2 DEF Trails
  <1>11. \A x \in Docs : Logged(trail[x])' \subseteq Logged(trail[x]) \cup {req[r].key}
    BY <1>6, <1>9
  <1>12. OncePerKey(ledger)' /\ LedgerNamesActive'
    BY <1>7 DEF IInv, LedgerNamesActive, ActiveNumbers
  <1>13. ASSUME NEW q \in Requests \ {r}, req[q].phase = "read"
         PROVE  doc'[req[q].cmd.doc] = doc[req[q].cmd.doc]
    <2>1. req[q].cmd.doc # d
      BY <1>1, <1>13 DEF Alone
    <2>2. req[q].cmd \in DocumentCommands
      BY <1>13 DEF IInv, Serving, ReadsRow
    <2>3. req[q].cmd.doc \in Docs
      BY <2>2 DEF DocumentCommands
    <2>4. QED
      BY <1>9, <2>1, <2>3
  <1>14. req[r].phase \in Holding /\ Logged(ledger)' = Logged(ledger)
    BY <1>7 DEF Holding
  <1>15. QED
    BY <1>7, <1>8, <1>10, <1>11, <1>12, <1>13, <1>14, CommitStep

\* What a command that has read its document knows.
LEMMA ReadsDocument ==
  ASSUME IInv, NEW r \in Requests, req[r].phase = "read"
  PROVE  /\ req[r].cmd \in DocumentCommands /\ req[r].cmd.doc \in Docs
         /\ req[r].got = doc[req[r].cmd.doc]
         /\ req[r].key \in Requests
         /\ doc[req[r].cmd.doc] \in DocumentRow
         /\ doc = [d \in Docs |-> doc[d]] /\ current = [d \in Docs |-> current[d]]
         /\ Numbers \subseteq Nat
  <1>1. req[r].cmd \in DocumentCommands /\ req[r].got = doc[req[r].cmd.doc]
    BY DEF IInv, Serving, ReadsRow
  <1>2. req[r].cmd.doc \in Docs
    BY <1>1 DEF DocumentCommands
  <1>3. /\ doc \in [Docs -> DocumentRow] /\ current \in [Docs -> SUBSET Numbers]
        /\ req[r].key \in Requests
    BY DEF IInv, RowsTyped, ReqTyped, IsReq
  <1>4. Numbers \subseteq Nat
    BY KnowledgeAssumption DEF Numbers
  <1>5. QED
    BY <1>1, <1>2, <1>3, <1>4

LEMMA ReadUndone ==
  ASSUME IInv, NEW r \in Requests, req[r].phase \in Holding, Undo(r)
  PROVE  IInv'
  BY UndoStep DEF Phases, Holding, Switches

LEMMA DecideStep ==
  ASSUME IInv, NEW r \in Requests, Decide(r)
  PROVE  IInv'
  <1> DEFINE c == req[r].cmd
             d == c.doc
             e == Event(c.decision, 0, c.by, req[r].key)
             row == [approval |-> c.decision, active |-> doc[d].active, row |-> doc[d].row + 1]
  <1>1. req[r].phase = "read" /\ c.op = "DECIDE" /\ req[r].phase \in Holding
    BY DEF Decide, Reads, Holding
  <1>2. CASE Undo(r)
    BY <1>1, <1>2, ReadUndone
  <1>3. CASE /\ c.by # Owner /\ Approve(c) /\ Commit(r)
             /\ Record(r, d, c.decision, 0, c.by)
    <2>1. /\ c \in DocumentCommands /\ d \in Docs /\ req[r].key \in Requests
          /\ doc[d] \in DocumentRow
          /\ doc = [x \in Docs |-> doc[x]] /\ current = [x \in Docs |-> current[x]]
          /\ current[d] \in SUBSET Numbers
      BY <1>1, ReadsDocument DEF IInv, RowsTyped
    <2>2. c.decision \in {"APPROVED", "REJECTED"} /\ c.by \in {Owner, Steward}
      BY <1>1, <2>1 DEF DocumentCommands
    <2>3. e \in EventRow /\ e.what = c.decision /\ e.by = c.by /\ e.key = req[r].key
      BY <2>1, <2>2 DEF Event, EventRow
    <2>4. /\ row \in DocumentRow /\ row.row = doc[d].row + 1 /\ row.approval = c.decision
      BY <2>1, <2>2 DEF DocumentRow, Approvals
    <2>5. doc' = [doc EXCEPT ![d] = row]
      <3>1. /\ doc' = [x \in Docs |-> doc'[x]]
            /\ \A x \in Docs \ {d} : doc'[x] = doc[x]
            /\ doc'[d] = [[doc[d] EXCEPT !.approval = c.decision] EXCEPT !.row = doc[d].row + 1]
        BY <1>3, <2>1 DEF Approve
      <3>2. doc'[d] = row
        BY <2>1, <3>1 DEF DocumentRow
      <3>3. QED
        BY <2>1, <3>1, <3>2
    <2>6. trail' = [trail EXCEPT ![d] = Append(trail[d], e)]
      BY <1>3, <2>1 DEF Record
    <2>7. current' = [current EXCEPT ![d] = current[d]]
      BY <1>3, <2>1 DEF Approve
    <2>8. UNCHANGED <<version, corpora, begun>>
      BY <1>3 DEF Approve
    <2> HIDE DEF e, row
    <2>9. QED
      BY <1>1, <1>3, <2>1, <2>2, <2>3, <2>4, <2>5, <2>6, <2>7, <2>8, DocumentStep
  <1>4. QED
    BY <1>2, <1>3 DEF Decide

LEMMA PublishDocumentStep ==
  ASSUME IInv, NEW r \in Requests, PublishDocument(r)
  PROVE  IInv'
  <1> DEFINE c == req[r].cmd
             d == c.doc
             e == Event("PUBLISHED", c.version, Steward, req[r].key)
             row == [doc[d] EXCEPT !.row = doc[d].row + 1]
             cur == {c.version}
  <1>1. req[r].phase = "read" /\ c.op = "PUBLISH" /\ req[r].phase \in Holding
    BY DEF PublishDocument, Reads, Holding
  <1>2. CASE Undo(r)
    BY <1>1, <1>2, ReadUndone
  <1>3. CASE /\ Publishable(r) /\ MakeCurrent(d, c.version) /\ Commit(r)
             /\ Record(r, d, "PUBLISHED", c.version, Steward)
    <2>1. /\ c \in DocumentCommands /\ d \in Docs /\ req[r].key \in Requests
          /\ doc[d] \in DocumentRow /\ req[r].got = doc[d]
          /\ doc = [x \in Docs |-> doc[x]] /\ current = [x \in Docs |-> current[x]]
          /\ Numbers \subseteq Nat
      BY <1>1, ReadsDocument
    <2>2. c.version \in Numbers /\ cur \in SUBSET Numbers
      BY <1>1, <2>1 DEF DocumentCommands
    <2>3. /\ e \in EventRow /\ e.what = "PUBLISHED" /\ e.key = req[r].key
          /\ e.version = c.version
      BY <2>1, <2>2 DEF Event, EventRow
    <2>4. /\ row \in DocumentRow /\ row.row = doc[d].row + 1 /\ row.approval = doc[d].approval
          /\ doc[d].approval = "APPROVED"
      <3>1. row \in DocumentRow /\ row.row = doc[d].row + 1 /\ row.approval = doc[d].approval
        BY <2>1 DEF DocumentRow
      <3>2. doc[d].approval = "APPROVED"
        BY <1>3, <2>1 DEF Publishable
      <3>3. QED
        BY <3>1, <3>2
    <2>5. doc' = [doc EXCEPT ![d] = row] /\ current' = [current EXCEPT ![d] = cur]
      BY <1>3, <2>1 DEF MakeCurrent
    <2>6. trail' = [trail EXCEPT ![d] = Append(trail[d], e)]
      BY <1>3, <2>1 DEF Record
    <2>7. UNCHANGED <<version, corpora, begun>> /\ cur = {e.version}
      BY <1>3, <2>3 DEF MakeCurrent
    <2> HIDE DEF e, row, cur
    <2>8. QED
      BY <1>1, <1>3, <2>1, <2>2, <2>3, <2>4, <2>5, <2>6, <2>7, DocumentStep
  <1>4. QED
    BY <1>2, <1>3 DEF PublishDocument

LEMMA RetireStep ==
  ASSUME IInv, NEW r \in Requests, Retire(r)
  PROVE  IInv'
  <1> DEFINE c == req[r].cmd
             d == c.doc
             e == Event("RETIRED", Max(current[d]), Steward, req[r].key)
             row == [approval |-> "RETIRED", active |-> FALSE, row |-> doc[d].row + 1]
  <1>1. req[r].phase = "read" /\ req[r].phase \in Holding
    BY DEF Retire, Reads, Holding
  <1>2. CASE Undo(r)
    BY <1>1, <1>2, ReadUndone
  <1>3. CASE /\ current[d] # {} /\ Withdraw(d) /\ Commit(r)
             /\ Record(r, d, "RETIRED", Max(current[d]), Steward)
    <2>1. /\ c \in DocumentCommands /\ d \in Docs /\ req[r].key \in Requests
          /\ doc[d] \in DocumentRow
          /\ doc = [x \in Docs |-> doc[x]] /\ current = [x \in Docs |-> current[x]]
          /\ Numbers \subseteq Nat
      BY <1>1, ReadsDocument
    <2>2. Max(current[d]) \in Nat
      <3>1. /\ current[d] \in SUBSET Numbers
            /\ \A v \in current[d] : current[d] = {v}
        BY <2>1, CurrentWasPublished DEF IInv, RowsTyped, Trails
      <3>2. PICK v \in Numbers : current[d] = {v}
        BY <1>3, <3>1
      <3>3. v \in Nat /\ {v} \in SUBSET (0..v)
        BY <2>1
      <3>4. QED
        BY <3>2, <3>3, GreatestLast
    <2>3. e \in EventRow /\ e.what = "RETIRED" /\ e.key = req[r].key
      BY <2>1, <2>2 DEF Event, EventRow
    <2>4. row \in DocumentRow /\ row.row = doc[d].row + 1 /\ row.approval = "RETIRED"
      BY <2>1 DEF DocumentRow, Approvals
    <2>5. doc' = [doc EXCEPT ![d] = row] /\ current' = [current EXCEPT ![d] = {}]
      BY <1>3, <2>1 DEF Withdraw
    <2>6. trail' = [trail EXCEPT ![d] = Append(trail[d], e)]
      BY <1>3, <2>1 DEF Record
    <2>7. UNCHANGED <<version, corpora, begun>> /\ {} \in SUBSET Numbers
      BY <1>3 DEF Withdraw
    <2> HIDE DEF e, row
    <2>8. QED
      BY <1>1, <1>3, <2>1, <2>3, <2>4, <2>5, <2>6, <2>7, DocumentStep
  <1>4. QED
    BY <1>2, <1>3 DEF Retire

\* A transaction about the corpus that commits is none that has read a document,
\* and what it leaves alone.
LEMMA CorpusStep ==
  ASSUME IInv, NEW r \in Requests, req[r].phase \in Holding, Commit(r), UNCHANGED documents,
         begun' = begun, RowsTyped', OncePerKey(ledger)', LedgerNamesActive',
         Logged(ledger)' \subseteq Logged(ledger) \cup {req[r].key},
         DOMAIN corpus \subseteq DOMAIN corpus',
         corpus' = corpus \/ req[r].phase = "written"
  PROVE  IInv'
  <1>1. doc' = doc /\ current' = current /\ trail' = trail
    BY DEF documents
  <1>2. Trails'
    BY <1>1 DEF IInv, Trails
  <1>3. \A d \in Docs : Logged(trail[d])' \subseteq Logged(trail[d]) \cup {req[r].key}
    BY <1>1
  <1>4. \A q \in Requests \ {r} : req[q].phase = "written" => corpus' = corpus
    BY DEF IInv, Alone
  <1>5. \A q \in Requests \ {r} :
          /\ req[q].phase = "read" => doc'[req[q].cmd.doc] = doc[req[q].cmd.doc]
          /\ req[q].phase = "written" => corpus' = corpus
    BY <1>1, <1>4
  <1>6. QED
    BY <1>2, <1>3, <1>5, CommitStep

LEMMA ApplySuppressionFlagsStep ==
  ASSUME IInv, NEW r \in Requests, ApplySuppressionFlags(r)
  PROVE  IInv'
  <1> DEFINE got == req[r].got
  <1>1. /\ req[r].phase = "scanned" /\ req[r].phase \in Holding
        /\ flagged' = (flagged \ Scanned) \cup got.found
        /\ runs' = runs \cup {got.run} /\ Commit(r)
        /\ UNCHANGED documents /\ UNCHANGED <<begun, corpus, ledger>>
    BY DEF ApplySuppressionFlags, Holding
  <1>2. got.run \in ValidationRun /\ got.run.at <= begun /\ got.found \subseteq Chunks
    BY <1>1 DEF IInv, Serving, ReadsChunks
  <1>3. RowsTyped'
    <2>1. flagged' \subseteq Chunks
      BY <1>1, <1>2 DEF IInv, RowsTyped
    <2>2. runs' \subseteq ValidationRun /\ \A run \in runs' : run.at <= begun'
      BY <1>1, <1>2 DEF IInv, RowsTyped
    <2>3. QED
      BY <1>1, <2>1, <2>2 DEF IInv, RowsTyped, documents
  <1>4. OncePerKey(ledger)' /\ LedgerNamesActive'
    BY <1>1 DEF IInv, LedgerNamesActive, ActiveNumbers
  <1>5. Logged(ledger)' \subseteq Logged(ledger) \cup {req[r].key}
    BY <1>1
  <1>6. QED
    BY <1>1, <1>3, <1>4, <1>5, CorpusStep

LEMMA WithoutTyped ==
  ASSUME RowsTyped, NEW off
  PROVE  /\ Without(off) \in Seq(CorpusRow) /\ Len(Without(off)) = Len(corpus)
         /\ \A n \in DOMAIN corpus : Without(off)[n].active => corpus[n].active /\ n \notin off
  <1> DEFINE w == Without(off)
             row(n) == [corpus[n] EXCEPT !.active = @ /\ n \notin off]
  <1>1. /\ Len(corpus) \in Nat /\ DOMAIN corpus = 1..Len(corpus)
        /\ \A n \in DOMAIN corpus : corpus[n] \in CorpusRow
    BY LenProperties DEF RowsTyped
  <1>2. ASSUME NEW n \in DOMAIN corpus
        PROVE  row(n) \in CorpusRow /\ (row(n).active => corpus[n].active /\ n \notin off)
    BY <1>1 DEF CorpusRow
  <1> HIDE DEF row
  <1>3. w = [n \in 1..Len(corpus) |-> row(n)]
    BY <1>1 DEF Without, row
  <1> HIDE DEF w
  <1>4. w \in [1..Len(corpus) -> CorpusRow]
    BY <1>1, <1>2, <1>3
  <1>5. w \in Seq(CorpusRow)
    BY <1>1, <1>4, SeqDef
  <1>6. DOMAIN w = 1..Len(corpus) /\ DOMAIN w = 1..Len(w) /\ Len(w) \in Nat
    BY <1>4, <1>5, LenProperties
  <1>7. Len(w) = Len(corpus)
    BY <1>1, <1>6
  <1>8. QED
    BY <1>1, <1>2, <1>3, <1>5, <1>7 DEF w

\* The event of a switch names the version that is active after it.
LEMMA LedgerAppend ==
  ASSUME IInv, NEW r \in Requests, req[r].phase \in Holding,
         NEW what \in {"PUBLISHED", "ROLLED_BACK"}, NEW n \in Nat, InsertEvent(r, what, n),
         ActiveNumbers' = {n}
  PROVE  /\ ledger' \in Seq(LedgerRow) /\ OncePerKey(ledger)' /\ LedgerNamesActive'
         /\ Logged(ledger)' \subseteq Logged(ledger) \cup {req[r].key}
  <1> DEFINE e == [what |-> what, version |-> n, key |-> req[r].key]
  <1>1. ledger \in Seq(LedgerRow) /\ OncePerKey(ledger)
    BY DEF IInv, RowsTyped
  <1>2. req[r].key \in Requests /\ req[r].key \notin Logged(ledger)
    BY KeyNotLogged
  <1>3. e \in LedgerRow /\ e.key = req[r].key /\ e.version = n
    BY <1>2 DEF LedgerRow
  <1> HIDE DEF e
  <1>4. ledger' = Append(ledger, e)
    BY DEF InsertEvent, e
  <1>5. /\ ledger' \in Seq(LedgerRow) /\ Len(ledger') = Len(ledger) + 1
        /\ ledger'[Len(ledger) + 1] = e /\ ledger' # <<>>
    BY <1>1, <1>3, <1>4, AppendProperties
  <1>6. OncePerKey(ledger') /\ Logged(ledger') \subseteq Logged(ledger) \cup {e.key}
    BY <1>1, <1>2, <1>3, <1>4, EventsOnce
  <1>7. LedgerNamesActive'
    BY <1>3, <1>5 DEF LedgerNamesActive
  <1>8. QED
    BY <1>3, <1>5, <1>6, <1>7

LEMMA PublishCorpusStep ==
  ASSUME IInv, NEW r \in Requests, PublishCorpus(r)
  PROVE  IInv'
  <1> DEFINE got == req[r].got
             w == Without(got.off)
             snap == Snapshot(got.of)
             n == Len(corpus) + 1
  <1>1. /\ req[r].phase = "written" /\ req[r].phase \in Holding /\ req[r].phase \in Switches
        /\ req[r].cmd.op = "PUBLISH_CORPUS" /\ corpus' = Append(w, snap)
        /\ InsertEvent(r, "PUBLISHED", Len(corpus')) /\ Commit(r)
        /\ UNCHANGED documents /\ begun' = begun /\ flagged' = flagged /\ runs' = runs
    BY DEF PublishCorpus, Holding, Switches
  <1>2. RowsTyped /\ LedgerNamesActive /\ got \in SwitchRow
        /\ ActiveNumbers \subseteq got.off \cup RollsBackTo(r)
    BY <1>1 DEF IInv, Serving, ReadsVersions
  <1>3. ActiveNumbers \subseteq got.off
    BY <1>1, <1>2 DEF RollsBackTo
  <1>4. /\ Len(corpus) \in Nat /\ DOMAIN corpus = 1..Len(corpus)
    BY <1>2, OneActive
  <1>5. /\ w \in Seq(CorpusRow) /\ Len(w) = Len(corpus)
        /\ \A i \in DOMAIN corpus : w[i].active => corpus[i].active /\ i \notin got.off
    BY <1>2, WithoutTyped
  <1>6. snap \in CorpusRow /\ snap.active
    BY <1>2 DEF Snapshot, CorpusRow, SwitchRow, RowsTyped
  <1> HIDE DEF w, snap, got
  <1>7. /\ corpus' \in Seq(CorpusRow) /\ Len(corpus') = n /\ DOMAIN corpus' = 1..n
        /\ \A i \in 1..Len(corpus) : corpus'[i] = w[i]
        /\ corpus'[n] = snap
    BY <1>1, <1>5, <1>6, LogLengthens
  <1>8. \A i \in 1..Len(corpus) : ~ corpus'[i].active
    BY <1>3, <1>4, <1>5, <1>7 DEF ActiveNumbers
  <1>9. \A i \in 1..n : i = n \/ i \in 1..Len(corpus)
    BY <1>4
  <1>10. n \in Nat /\ n \in 1..n /\ 1..Len(corpus) \subseteq 1..n
    BY <1>4
  <1>11. ActiveNumbers' = {n}
    BY <1>6, <1>7, <1>8, <1>9, <1>10 DEF ActiveNumbers
  <1>12. /\ ledger' \in Seq(LedgerRow) /\ OncePerKey(ledger)' /\ LedgerNamesActive'
         /\ Logged(ledger)' \subseteq Logged(ledger) \cup {req[r].key}
    BY <1>1, <1>7, <1>10, <1>11, LedgerAppend
  <1>13. RowsTyped'
    BY <1>1, <1>2, <1>7, <1>12 DEF RowsTyped, documents
  <1>14. DOMAIN corpus \subseteq DOMAIN corpus'
    BY <1>4, <1>7, <1>10
  <1>15. QED
    BY <1>1, <1>12, <1>13, <1>14, CorpusStep

LEMMA RollbackStep ==
  ASSUME IInv, NEW r \in Requests, Rollback(r)
  PROVE  IInv'
  <1> DEFINE got == req[r].got
             w == Without(got.off)
             n == got.of
             row == [w[n] EXCEPT !.active = TRUE]
  <1>1. /\ req[r].phase = "written" /\ req[r].phase \in Holding /\ req[r].phase \in Switches
        /\ req[r].cmd.op = "ROLLBACK" /\ corpus' = [w EXCEPT ![n].active = TRUE]
        /\ InsertEvent(r, "ROLLED_BACK", n) /\ Commit(r)
        /\ UNCHANGED documents /\ begun' = begun /\ flagged' = flagged /\ runs' = runs
    BY DEF Rollback, Holding, Switches
  <1>2. RowsTyped /\ LedgerNamesActive /\ got \in SwitchRow /\ n \in DOMAIN corpus
        /\ ActiveNumbers \subseteq got.off \cup RollsBackTo(r)
    BY <1>1 DEF IInv, Serving, ReadsVersions
  <1>3. ActiveNumbers \subseteq got.off \cup {n}
    BY <1>1, <1>2 DEF RollsBackTo
  <1>4. /\ Len(corpus) \in Nat /\ DOMAIN corpus = 1..Len(corpus)
    BY <1>2, OneActive
  <1>5. /\ w \in Seq(CorpusRow) /\ Len(w) = Len(corpus)
        /\ \A i \in DOMAIN corpus : w[i].active => corpus[i].active /\ i \notin got.off
    BY <1>2, WithoutTyped
  <1> HIDE DEF w, got
  <1>6. DOMAIN w = 1..Len(corpus) /\ w = [i \in 1..Len(corpus) |-> w[i]] /\ w[n] \in CorpusRow
    BY <1>2, <1>4, <1>5, LenProperties
  <1>7. row \in CorpusRow /\ row.active
    BY <1>6 DEF CorpusRow
  <1>8. corpus' = [w EXCEPT ![n] = row]
    BY <1>1
  <1> HIDE DEF row
  <1>9. /\ corpus' \in Seq(CorpusRow) /\ Len(corpus') = Len(corpus)
        /\ \A i \in 1..Len(corpus) : corpus'[i] = IF i = n THEN row ELSE w[i]
    BY <1>2, <1>4, <1>5, <1>7, <1>8, ExceptSeq
  <1>10. DOMAIN corpus' = 1..Len(corpus) /\ n \in Nat
    BY <1>2, <1>4, <1>9, LenProperties
  <1>11. ActiveNumbers' = {n}
    BY <1>2, <1>3, <1>4, <1>5, <1>7, <1>9, <1>10 DEF ActiveNumbers
  <1>12. /\ ledger' \in Seq(LedgerRow) /\ OncePerKey(ledger)' /\ LedgerNamesActive'
         /\ Logged(ledger)' \subseteq Logged(ledger) \cup {req[r].key}
    BY <1>1, <1>10, <1>11, LedgerAppend
  <1>13. RowsTyped'
    BY <1>1, <1>2, <1>9, <1>12 DEF RowsTyped, documents
  <1>14. DOMAIN corpus \subseteq DOMAIN corpus'
    BY <1>4, <1>10
  <1>15. QED
    BY <1>1, <1>12, <1>13, <1>14, CorpusStep

-----------------------------------------------------------------------------
(* The workers, and steps that change nothing                              *)

LEMMA WorkerStep ==
  ASSUME IInv, version' \in [Docs -> [Numbers -> Versions]],
         UNCHANGED <<doc, current, trail, corpora, begun, claim, req>>
  PROVE  IInv'
  <1>1. /\ doc' = doc /\ current' = current /\ trail' = trail /\ flagged' = flagged
        /\ runs' = runs /\ corpus' = corpus /\ ledger' = ledger
        /\ begun' = begun /\ claim' = claim /\ req' = req
    BY DEF corpora
  <1>2. RowsTyped' /\ ReqTyped' /\ ClaimsFit' /\ KeysDone'
    BY <1>1 DEF IInv, RowsTyped, ReqTyped, IsReq, ClaimsFit, KeysDone
  <1>3. begun \in Nat /\ begun <= begun'
    BY <1>1 DEF IInv, RowsTyped
  <1>4. ASSUME NEW q \in Requests
        PROVE  Serving(q)'
    <2>1. IsReq(req[q]) /\ Serving(q) /\ RowsTyped
      BY DEF IInv, ReqTyped
    <2>2. QED
      BY <1>1, <1>3, <2>1, OthersServe
  <1>5. Alone'
    BY <1>1 DEF IInv, Alone
  <1>6. Trails' /\ OncePerKey(ledger)' /\ LedgerNamesActive'
    BY <1>1 DEF IInv, Trails, LedgerNamesActive, ActiveNumbers
  <1>7. QED
    BY <1>2, <1>4, <1>5, <1>6 DEF IInv

LEMMA WorkersStep ==
  ASSUME IInv, NEW d \in Docs,
         StoreVersion(d) \/ \E v \in Numbers : StartProcessing(d, v) \/ EndProcessing(d, v)
  PROVE  IInv'
  <1>1. UNCHANGED <<doc, current, trail, corpora, begun, claim, req>>
    BY DEF StoreVersion, StartProcessing, EndProcessing
  <1>2. version' \in [Docs -> [Numbers -> Versions]]
    <2>1. version \in [Docs -> [Numbers -> Versions]]
      BY DEF IInv, RowsTyped
    <2>2. CASE StoreVersion(d)
      BY <2>1, <2>2 DEF StoreVersion, Versions
    <2>3. ASSUME NEW v \in Numbers, StartProcessing(d, v) \/ EndProcessing(d, v)
          PROVE  version' \in [Docs -> [Numbers -> Versions]]
      BY <2>1, <2>3 DEF StartProcessing, EndProcessing, Versions
    <2>4. QED
      BY <2>2, <2>3
  <1>3. QED
    BY <1>1, <1>2, WorkerStep

LEMMA UnchangedStep ==
  ASSUME IInv, UNCHANGED vars
  PROVE  IInv'
  BY WorkerStep DEF vars, corpora, IInv, RowsTyped

-----------------------------------------------------------------------------
(* The invariant                                                           *)

LEMMA StepKeepsIInv ==
  ASSUME IInv, [Next]_vars
  PROVE  IInv'
  <1>1. ASSUME NEW r \in Requests,
               \/ \E c \in Askable : Ask(r, c)
               \/ \E q \in Requests : AskAgain(r, q)
        PROVE  IInv'
    BY <1>1, AskStep
  <1>2. ASSUME NEW r \in Requests, ClaimIdempotency(r) \/ Crash(r)
        PROVE  IInv'
    <2>1. CASE ClaimIdempotency(r)
      BY <2>1, ClaimStep
    <2>2. CASE Crash(r)
      <3>1. req[r].phase \in Phases \ {"new", "done", "failed"} /\ Undo(r)
        BY <2>2 DEF Crash, IInv, ReqTyped, IsReq
      <3>2. QED
        BY <3>1, UndoStep
    <2>3. QED
      BY <1>2, <2>1, <2>2
  <1>3. ASSUME NEW r \in Requests,
               LockDocument(r) \/ Decide(r) \/ PublishDocument(r) \/ Retire(r)
        PROVE  IInv'
    BY <1>3, LockDocumentStep, DecideStep, PublishDocumentStep, RetireStep
  <1>4. ASSUME NEW r \in Requests, FindNearDuplicates(r) \/ ApplySuppressionFlags(r)
        PROVE  IInv'
    BY <1>4, FindNearDuplicatesStep, ApplySuppressionFlagsStep
  <1>5. ASSUME NEW r \in Requests,
               \/ Readiness(r) \/ FindPrevious(r) \/ StartSwitch(r) \/ DeactivateActive(r)
               \/ WriteActive(r)
        PROVE  IInv'
    BY <1>5, ReadinessStep, FindPreviousStep, SwitchStep
  <1>6. ASSUME NEW r \in Requests, PublishCorpus(r) \/ Rollback(r)
        PROVE  IInv'
    BY <1>6, PublishCorpusStep, RollbackStep
  <1>7. ASSUME NEW d \in Docs,
               StoreVersion(d) \/ \E v \in Numbers : StartProcessing(d, v) \/ EndProcessing(d, v)
        PROVE  IInv'
    BY <1>7, WorkersStep
  <1>8. CASE UNCHANGED vars
    BY <1>8, UnchangedStep
  <1>9. QED
    BY <1>1, <1>2, <1>3, <1>4, <1>5, <1>6, <1>7, <1>8 DEF Next, Served

\* The history a document starts with says what the document is.
LEMMA HistorySays ==
  ASSUME NEW stage \in {"DRAFT", "APPROVED", "LIVE"}, NEW log, log = History(stage),
         NEW row, row.row = Len(log) + 1,
         row.approval = IF log = <<>> THEN "DRAFT" ELSE "APPROVED",
         NEW cur, cur = IF stage = "LIVE" THEN {1} ELSE {}
  PROVE  /\ log \in Seq(EventRow) /\ Len(log) \in Nat
         /\ Says(log, row, cur) /\ Sound(log) /\ OncePerKey(log) /\ Logged(log) = {}
  <1> DEFINE e == Event("APPROVED", 0, Steward, NoOne)
             f == Event("PUBLISHED", 1, Steward, NoOne)
             none == <<>>
             one == Append(none, e)
             two == Append(one, f)
             drafted == [approval |-> "DRAFT", row |-> 1]
             approved == [approval |-> "APPROVED", row |-> 2]
             live == [approval |-> "APPROVED", row |-> 3]
  <1>1. /\ e \in EventRow /\ e.what = "APPROVED" /\ e.by # Owner /\ e.key = NoOne
        /\ f \in EventRow /\ f.what = "PUBLISHED" /\ f.version = 1 /\ f.key = NoOne
        /\ NoOne \notin Requests
    BY KnowledgeAssumption DEF Event, EventRow
  <1>2. /\ drafted.row = 1 /\ drafted.approval = "DRAFT"
        /\ approved.row = drafted.row + 1 /\ approved.approval = "APPROVED" /\ approved.row = 2
        /\ live.row = approved.row + 1 /\ live.approval = "APPROVED" /\ live.row = 3
    OBVIOUS
  <1>3. /\ none \in Seq(EventRow) /\ Len(none) = 0
        /\ DecisionsIn(none, Len(none)) = {} /\ MovesIn(none) = {}
    BY EmptySeq DEF DecisionsIn, MovesIn
  <1>4. log = IF stage = "DRAFT" THEN none ELSE IF stage = "APPROVED" THEN one ELSE two
    <2>1. log = IF stage = "DRAFT" THEN <<>> ELSE IF stage = "APPROVED" THEN <<e>> ELSE <<e, f>>
      BY DEF History
    <2> HIDE DEF e, f, none, one, two
    <2>2. /\ one \in Seq(EventRow) /\ Len(one) = 1 /\ one[1] = e
      BY <1>1, <1>3, AppendProperties DEF one
    <2>3. /\ <<e>> \in Seq(EventRow) /\ Len(<<e>>) = 1 /\ <<e>>[1] = e
      BY <1>1
    <2>4. one = <<e>>
      <3>1. \A i \in 1..Len(one) : one[i] = <<e>>[i]
        BY <2>2, <2>3
      <3> DEFINE single == <<e>>
      <3> HIDE DEF single
      <3>2. single \in Seq(EventRow) /\ Len(one) = Len(single)
            /\ \A i \in 1..Len(one) : one[i] = single[i]
        BY <2>2, <2>3, <3>1 DEF single
      <3>3. one = single
        BY <2>2, <3>2, SeqEqual
      <3>4. QED
        BY <3>3 DEF single
    <2>5. /\ two \in Seq(EventRow) /\ Len(two) = 2 /\ two[1] = e /\ two[2] = f
      <3>1. two = Append(one, f)
        BY DEF two
      <3>2. f \in EventRow
        BY <1>1
      <3>3. /\ two \in Seq(EventRow) /\ Len(two) = Len(one) + 1 /\ two[Len(one) + 1] = f
            /\ \A i \in 1..Len(one) : two[i] = one[i]
        BY <2>2, <3>1, <3>2, LogLengthens
      <3>4. QED
        BY <2>2, <3>3
    <2>6. /\ <<e, f>> \in Seq(EventRow) /\ Len(<<e, f>>) = 2 /\ <<e, f>>[1] = e /\ <<e, f>>[2] = f
      BY <1>1
    <2>7. two = <<e, f>>
      BY <2>5, <2>6, SeqEqual
    <2>8. QED
      BY <2>1, <2>4, <2>7 DEF none
  <1> HIDE DEF e, f, none, drafted, approved, live
  <1>5. /\ Says(none, drafted, {}) /\ Sound(none) /\ OncePerKey(none) /\ Logged(none) = {}
    BY <1>2, <1>3, LenProperties DEF Says, Sound, OncePerKey, Logged
  <1>6. one = Append(none, e) /\ two = Append(one, f)
    OBVIOUS
  <1> HIDE DEF one, two
  <1>7. one \in Seq(EventRow) /\ Len(one) = 1 /\ one # <<>>
    BY <1>1, <1>3, <1>6, AppendProperties
  <1>8. two \in Seq(EventRow) /\ Len(two) = 2 /\ two # <<>>
    BY <1>1, <1>6, <1>7, AppendProperties
  <1>9. Says(one, approved, {})
    BY <1>1, <1>2, <1>3, <1>5, <1>6, SaysAfter
  <1>10. Sound(one)
    BY <1>1, <1>3, <1>5, <1>6, SoundAfter
  <1>11. Says(two, live, {1})
    BY <1>1, <1>2, <1>6, <1>7, <1>9, SaysAfter
  <1>12. Sound(two)
    <2>1. DecisionsIn(one, Len(one)) # {} /\ one[Max(DecisionsIn(one, Len(one)))].what = "APPROVED"
      BY <1>2, <1>7, <1>9, CurrentWasPublished
    <2>2. QED
      BY <1>1, <1>6, <1>7, <1>10, <2>1, SoundAfter
  <1>13. OncePerKey(one) /\ Logged(one) = {}
    <2>1. e.key \notin Logged(none) /\ Logged(one) \subseteq Requests
      BY <1>5 DEF Logged
    <2>2. OncePerKey(one) /\ Logged(one) \subseteq Logged(none) \cup {e.key}
      BY <1>1, <1>3, <1>5, <1>6, <2>1, EventsOnce
    <2>3. QED
      BY <1>1, <1>5, <2>1, <2>2
  <1>14. OncePerKey(two) /\ Logged(two) = {}
    <2>1. f.key \notin Logged(one) /\ Logged(two) \subseteq Requests
      BY <1>13 DEF Logged
    <2>2. OncePerKey(two) /\ Logged(two) \subseteq Logged(one) \cup {f.key}
      BY <1>1, <1>6, <1>7, <1>13, <2>1, EventsOnce
    <2>3. QED
      BY <1>1, <1>13, <2>1, <2>2
  <1>15. CASE stage = "DRAFT"
    <2>1. log = none /\ log = <<>> /\ cur = {} /\ Len(log) = 0
      BY <1>3, <1>4, <1>15 DEF none
    <2>2. row.row = drafted.row /\ row.approval = drafted.approval
      BY <1>2, <2>1
    <2>3. Says(log, row, cur)
      BY <1>5, <2>1, <2>2 DEF Says
    <2>4. QED
      BY <1>3, <1>5, <2>1, <2>3
  <1>16. CASE stage = "APPROVED"
    <2>1. log = one /\ log # <<>> /\ cur = {} /\ Len(log) = 1
      BY <1>4, <1>7, <1>16
    <2>2. row.row = approved.row /\ row.approval = approved.approval
      BY <1>2, <2>1
    <2>3. Says(log, row, cur)
      BY <1>9, <2>1, <2>2 DEF Says
    <2>4. QED
      BY <1>7, <1>10, <1>13, <2>1, <2>3
  <1>17. CASE stage = "LIVE"
    <2>1. log = two /\ log # <<>> /\ cur = {1} /\ Len(log) = 2
      BY <1>4, <1>8, <1>17
    <2>2. row.row = live.row /\ row.approval = live.approval
      BY <1>2, <2>1
    <2>3. Says(log, row, cur)
      BY <1>11, <2>1, <2>2 DEF Says
    <2>4. QED
      BY <1>8, <1>12, <1>14, <2>1, <2>3
  <1>18. QED
    BY <1>15, <1>16, <1>17

LEMMA OneIsNumber == 1 \in Numbers /\ Numbers \subseteq Nat
  <1>1. PICK d \in Docs : Bound[d] \in Nat \ {0}
    BY KnowledgeAssumption
  <1>2. 1 \in 1..Bound[d]
    BY <1>1
  <1>3. QED
    BY <1>1, <1>2, KnowledgeAssumption DEF Numbers

\* The corpus of a start: published twice, or not at all.
LEMMA CorpusStarts ==
  ASSUME Published \/ Unpublished
  PROVE  /\ flagged \subseteq Chunks /\ begun \in Nat
         /\ runs \subseteq ValidationRun /\ \A run \in runs : run.at <= begun
         /\ corpus \in Seq(CorpusRow) /\ ledger \in Seq(LedgerRow)
         /\ OncePerKey(ledger) /\ Logged(ledger) = {} /\ LedgerNamesActive
  <1>1. CASE Unpublished
    <2>1. /\ flagged = {} /\ begun = 0 /\ runs = {} /\ corpus = <<>> /\ ledger = <<>>
      BY <1>1 DEF Unpublished
    <2>2. DOMAIN <<>> = {}
      OBVIOUS
    <2>3. OncePerKey(ledger) /\ Logged(ledger) = {} /\ LedgerNamesActive
      BY <2>1, <2>2 DEF OncePerKey, Logged, LedgerNamesActive, ActiveNumbers
    <2>4. QED
      BY <2>1, <2>3, EmptySeq
  <1>2. CASE Published
    <2> DEFINE first == {<<Min(Docs), 1>>}
               copies == {<<d, 1>> : d \in Docs \ {Min(Docs)}}
               c1 == [active |-> FALSE, run |-> 1, suppressed |-> {}]
               c2 == [active |-> TRUE, run |-> 2, suppressed |-> copies]
               e1 == [what |-> "PUBLISHED", version |-> 1, key |-> NoOne]
               e2 == [what |-> "PUBLISHED", version |-> 2, key |-> NoOne]
               r1 == [at |-> 1, seen |-> first, truncated |-> FALSE]
               r2 == [at |-> 2, seen |-> first \cup copies, truncated |-> FALSE]
    <2>1. first \subseteq Chunks /\ copies \subseteq Chunks
      <3>1. Docs \in SUBSET Nat /\ Docs # {}
        BY KnowledgeAssumption
      <3>2. Min(Docs) \in Docs
        BY <3>1, Least
      <3>3. QED
        BY <3>2, OneIsNumber DEF Chunks
    <2>2. /\ flagged = copies /\ begun = 2 /\ runs = {r1, r2}
          /\ corpus = <<c1, c2>> /\ ledger = <<e1, e2>>
      BY <1>2 DEF Published
    <2>3. /\ c1 \in CorpusRow /\ c2 \in CorpusRow /\ ~ c1.active /\ c2.active
          /\ r1 \in ValidationRun /\ r2 \in ValidationRun /\ r1.at = 1 /\ r2.at = 2
          /\ e1 \in LedgerRow /\ e2 \in LedgerRow /\ e1.key = NoOne /\ e2.key = NoOne
          /\ e2.version = 2
      BY <2>1 DEF CorpusRow, ValidationRun, LedgerRow
    <2> HIDE DEF first, copies, c1, c2, e1, e2, r1, r2
    <2>4. /\ corpus \in Seq(CorpusRow) /\ ledger \in Seq(LedgerRow)
          /\ DOMAIN corpus = {1, 2} /\ DOMAIN ledger = {1, 2} /\ Len(ledger) = 2
          /\ corpus[1] = c1 /\ corpus[2] = c2 /\ ledger[1] = e1 /\ ledger[2] = e2
          /\ ledger # <<>>
      BY <2>2, <2>3
    <2>5. OncePerKey(ledger) /\ Logged(ledger) = {}
      BY <2>3, <2>4, KnowledgeAssumption DEF OncePerKey, Logged
    <2>6. LedgerNamesActive
      BY <2>3, <2>4 DEF LedgerNamesActive, ActiveNumbers
    <2>7. begun \in Nat /\ \A run \in runs : run.at <= begun
      BY <2>2, <2>3
    <2>8. QED
      BY <2>1, <2>2, <2>3, <2>4, <2>5, <2>6, <2>7
  <1>3. QED
    BY <1>1, <1>2

LEMMA InitIInv == Init => IInv
  <1> SUFFICES ASSUME Init PROVE IInv
    OBVIOUS
  <1>1. PICK start \in Starts :
          /\ trail = [d \in Docs |-> History(start.stage[d])]
          /\ current = [d \in Docs |-> IF start.stage[d] = "LIVE" THEN {1} ELSE {}]
          /\ Published \/ Unpublished
    BY DEF Init
  <1>2. \A d \in Docs : start.stage[d] \in {"DRAFT", "APPROVED", "LIVE"}
    BY KnowledgeAssumption
  <1>3. /\ doc = [d \in Docs |-> [approval |-> IF trail[d] = <<>> THEN "DRAFT" ELSE "APPROVED",
                                  active |-> TRUE, row |-> Len(trail[d]) + 1]]
        /\ version = [d \in Docs |-> [v \in Numbers |-> IF v = 1 THEN "valid" ELSE "none"]]
        /\ claim = [r \in Requests |-> "free"]
        /\ req = [r \in Requests |-> [phase |-> "new", key |-> r, cmd |-> NoCommand, got |-> <<>>]]
    BY DEF Init
  <1>4. ASSUME NEW d \in Docs
        PROVE  /\ trail[d] \in Seq(EventRow) /\ Len(trail[d]) \in Nat
               /\ Says(trail[d], doc[d], current[d]) /\ Sound(trail[d]) /\ OncePerKey(trail[d])
               /\ Logged(trail[d]) = {}
    <2> DEFINE stage == start.stage[d]
               log == trail[d]
               row == doc[d]
               cur == current[d]
    <2>1. /\ stage \in {"DRAFT", "APPROVED", "LIVE"} /\ log = History(stage)
          /\ row.row = Len(log) + 1
          /\ row.approval = IF log = <<>> THEN "DRAFT" ELSE "APPROVED"
          /\ cur = IF stage = "LIVE" THEN {1} ELSE {}
      BY <1>1, <1>2, <1>3
    <2> HIDE DEF stage, log, row, cur
    <2>2. /\ log \in Seq(EventRow) /\ Len(log) \in Nat
          /\ Says(log, row, cur) /\ Sound(log) /\ OncePerKey(log) /\ Logged(log) = {}
      BY <2>1, HistorySays
    <2>3. QED
      BY <2>2 DEF log, row, cur
  <1>5. RowsTyped
    <2>1. trail \in [Docs -> Seq(EventRow)]
      BY <1>1, <1>4
    <2>2. current \in [Docs -> SUBSET Numbers]
      BY <1>1, OneIsNumber
    <2>3. doc \in [Docs -> DocumentRow]
      BY <1>3, <1>4 DEF DocumentRow, Approvals
    <2>4. version \in [Docs -> [Numbers -> Versions]]
      BY <1>3 DEF Versions
    <2>5. QED
      BY <1>1, <2>1, <2>2, <2>3, <2>4, CorpusStarts DEF RowsTyped
  <1>6. \A r \in Requests : /\ req[r].phase = "new" /\ req[r].key = r
                           /\ IsReq(req[r])
    BY <1>3 DEF IsReq, Phases, Commands
  <1>7. ReqTyped /\ ClaimsFit
    BY <1>3, <1>6 DEF ReqTyped, ClaimsFit, Holding, Switches
  <1>8. (\A r \in Requests : Serving(r)) /\ Alone
    BY <1>6 DEF Serving, Alone, Switches
  <1>9. OncePerKey(ledger) /\ Logged(ledger) = {} /\ LedgerNamesActive
    BY <1>1, CorpusStarts
  <1>10. KeysDone
    BY <1>4, <1>9 DEF KeysDone
  <1>11. Trails
    BY <1>4 DEF Trails
  <1>12. QED
    BY <1>5, <1>7, <1>8, <1>9, <1>10, <1>11 DEF IInv

THEOREM Invariance == Spec => []IInv
  BY InitIInv, StepKeepsIInv, PTL DEF Spec

\* Rows, versions, corpus, claims and requests keep their types.
THEOREM TypeInvariant == Spec => []TypeOK
  <1>1. IInv => TypeOK
    BY DEF IInv, TypeOK, RowsTyped, ClaimsFit, ReqTyped, IsReq, Phases, Holding, Switches, Commands
  <1>2. QED
    BY <1>1, Invariance, PTL

\* A document is what its trail, replayed, says, and no command is in a log
\* twice (the FOR UPDATE of document_repository.get and claim_idempotency).
THEOREM TrailIsTheDocument == Spec => []TrailMatchesDocument
  <1>1. IInv => TrailMatchesDocument
    BY DEF IInv, TrailMatchesDocument, Trails, Replayed, Says, Decisions, Moves, DecisionsIn, MovesIn
  <1>2. QED
    BY <1>1, Invariance, PTL

\* Before each publication of a document the last decision was an approval by
\* somebody else than the owner, and retrieval returns only what was published
\* (decide and publish of document_service.py).
THEOREM PublishedWasApproved == Spec => []OnlyApprovedPublished
  <1>1. ASSUME IInv
        PROVE  OnlyApprovedPublished
    <2>1. ASSUME NEW d \in Docs, NEW i \in 1..Len(trail[d]), trail[d][i].what = "PUBLISHED"
          PROVE  /\ Decisions(d, i) # {}
                 /\ trail[d][Max(Decisions(d, i))].what = "APPROVED"
                 /\ trail[d][Max(Decisions(d, i))].by # Owner
      <3>1. Sound(trail[d])
        BY <1>1 DEF IInv, Trails
      <3>2. Earned(trail[d], i)
        BY <2>1, <3>1 DEF Sound
      <3>3. Decisions(d, i) = DecisionsIn(trail[d], i)
        BY DEF Decisions, DecisionsIn
      <3>4. QED
        BY <3>2, <3>3 DEF Earned
    <2>2. ASSUME NEW c \in Retrievable
          PROVE  \E i \in DOMAIN trail[c[1]] :
                   trail[c[1]][i].what = "PUBLISHED" /\ trail[c[1]][i].version = c[2]
      <3>1. c[1] \in Docs /\ c[2] \in current[c[1]]
        BY DEF Retrievable, Governed, Chunks
      <3>2. trail[c[1]] \in Seq(EventRow) /\ Says(trail[c[1]], doc[c[1]], current[c[1]])
        BY <1>1, <3>1 DEF IInv, RowsTyped, Trails
      <3>3. QED
        BY <3>1, <3>2, CurrentWasPublished
    <2>3. QED
      BY <2>1, <2>2 DEF OnlyApprovedPublished
  <1>2. QED
    BY <1>1, Invariance, PTL

\* At most one version of the corpus is active, and it is the one the ledger
\* names last (deactivate_active and corpus_version_single_active_ux).
THEOREM LedgerNamesTheActive == Spec => []LedgerNamesActive
  <1>1. IInv => LedgerNamesActive
    BY DEF IInv
  <1>2. QED
    BY <1>1, Invariance, PTL

-----------------------------------------------------------------------------
(* SlaEngine                                                               *)

\* A row whose deadline, while it runs, is not later than its remainder asks for.
RowSound(m, s) ==
    /\ s \in SlaRow
    /\ s.st \in {"RUNNING", "PAUSED"} => s.remaining = Monus(Target[m], s.elapsed)
    /\ s.st = "RUNNING" => s.remaining <= Between(s.last, s.target)
    /\ "breach" \in s.keys => s.st = "BREACHED"
    /\ s.done => s.st \in {"COMPLETED", "BREACHED"}

Clocks == sla = [m \in Metrics |-> sla[m]] /\ \A m \in Metrics : RowSound(m, sla[m])

\* The inputs have different numbers, START the first; a worker holds one that is not
\* deferred, and no other holds it.
Queue ==
    /\ inputs \subseteq Input /\ emitted \in 1 .. MaxInputs
    /\ \A i \in inputs : i.n <= emitted /\ (i.type = "START" <=> i.n = 1)
    /\ \A i, j \in inputs : i.n = j.n => i = j
Jobs ==
    /\ job = [w \in Workers |-> job[w]]
    /\ \A w \in Workers : job[w] # Idle =>
         /\ job[w] = [input |-> job[w].input, facts |-> job[w].facts]
         /\ job[w].input \in inputs /\ ~ job[w].input.deferred /\ job[w].facts \in Facts
    /\ \A v, w \in Workers : v # w /\ job[v] # Idle /\ job[w] # Idle => job[v].input # job[w].input

\* What there is of an answer was answered.
Answers ==
    /\ ticket.first # None => answered
    /\ \A i \in inputs : i.type = "RESPONSE" => answered
    /\ \A w \in Workers : job[w] # Idle /\ job[w].facts.first # None => ticket.first # None
    /\ sla["FIRST_RESPONSE"].done => answered

\* Inputs that will be processed: only a CONTINUATION fails more often than failures says.
Retried == \A i \in inputs : i.type # "CONTINUATION" => i.tries <= failures
Started == (\E i \in inputs : i.type = "START") \/ sla["FIRST_RESPONSE"].st # "ABSENT"
Stops(i) ==
    \/ i.type = "RESPONSE"
    \/ /\ i.type = "TRANSITION" /\ ticket.first # None
       /\ \A w \in Workers : job[w] # Idle /\ job[w].input = i => job[w].facts.first # None
Stopped == sla["FIRST_RESPONSE"].st \in {"COMPLETED", "BREACHED"}
Answered ==
    MaxFailures < MaxAttempts =>
      /\ Started
      /\ answered /\ ~ overtaken => Stopped \/ \E i \in inputs : Stops(i)

Scalars ==
    /\ now \in Times /\ ticket \in Facts /\ failures \in 0 .. MaxFailures
    /\ answered \in BOOLEAN /\ worked \in Nat /\ overtaken \in BOOLEAN
    /\ lateStart \in BOOLEAN /\ dead \in BOOLEAN

SlaIInv == Scalars /\ Clocks /\ Queue /\ Jobs /\ Answers /\ Retried /\ Answered

-----------------------------------------------------------------------------
(* The calendar.                                                           *)

\* Working time is a number: the interval holds finitely many ticks.
LEMMA BetweenType == ASSUME NEW a \in Nat, NEW b \in Nat PROVE Between(a, b) \in Nat
  <1>1. a \in Int /\ b - 1 \in Int
    OBVIOUS
  <1>2. IsFiniteSet(a .. b - 1)
    BY <1>1, FS_Interval
  <1>3. IsFiniteSet(OpenTicks \cap (a .. b - 1))
    BY <1>2, FS_Intersection
  <1>4. QED
    BY <1>3, FS_CardinalityType DEF Between

LEMMA BetweenEmpty ==
  ASSUME NEW a \in Nat, NEW b \in Nat, b <= a
  PROVE  Between(a, b) = 0
  <1>1. OpenTicks \cap (a .. b - 1) = {}
    OBVIOUS
  <1>2. QED
    BY <1>1, FS_EmptySet DEF Between

LEMMA BetweenAdds ==
  ASSUME NEW a \in Nat, NEW b \in Nat, NEW c \in Nat, a <= b, b <= c
  PROVE  Between(a, c) = Between(a, b) + Between(b, c)
  <1>0. a \in Int /\ b \in Int /\ b - 1 \in Int /\ c - 1 \in Int
    OBVIOUS
  <1>1. IsFiniteSet(a .. b - 1) /\ IsFiniteSet(b .. c - 1)
    BY <1>0, FS_Interval
  <1>2. PICK S, T : S = OpenTicks \cap (a .. b - 1) /\ T = OpenTicks \cap (b .. c - 1)
    OBVIOUS
  <1>3. IsFiniteSet(S) /\ IsFiniteSet(T)
    BY <1>1, <1>2, FS_Intersection
  <1>4. S \cap T = {} /\ S \cup T = OpenTicks \cap (a .. c - 1)
    BY <1>2
  <1>5. Cardinality(S \cup T) = Cardinality(S) + Cardinality(T) - Cardinality({})
    BY <1>3, <1>4, FS_Union
  <1>6. Cardinality(S) \in Nat /\ Cardinality(T) \in Nat /\ Cardinality({}) = 0
    BY <1>3, FS_CardinalityType, FS_EmptySet
  <1>7. Cardinality(S) = Between(a, b) /\ Cardinality(T) = Between(b, c)
    BY <1>2 DEF Between
  <1>8. Cardinality(S \cup T) = Between(a, c)
    BY <1>4 DEF Between
  <1>9. QED
    BY <1>5, <1>6, <1>7, <1>8

\* The first goal exists.
LEMMA GoalFits ==
  ASSUME NEW m \in Metrics
  PROVE  Target[m] \in Nat \ {0} /\ Goal[m].warning \in Nat
  <1>1. PICK g \in Candidates(m) : \A other \in Candidates(m) \ {g} : g.order < other.order
    BY TargetsAssumption
  <1>2. Goal[m] \in Candidates(m)
    BY <1>1 DEF Goal
  <1>3. Goal[m] \in Goals
    BY <1>2 DEF Candidates
  <1>4. QED
    BY <1>3, SlaAssumption DEF Target

\* add_business_seconds reaches the instant that business_seconds_between counts to.
LEMMA AddReaches ==
  ASSUME NEW m \in Metrics, NEW t \in Times, NEW n \in 0 .. Target[m]
  PROVE  Add(t, n) \in Nat /\ Between(t, Add(t, n)) = n
  <1>1. t \in Nat
    BY SlaAssumption DEF Times
  <1>2. CASE n = 0
    BY <1>1, <1>2, BetweenEmpty DEF Add
  <1>3. CASE n # 0
    <2>1. n \in 1 .. Target[m] /\ t \in 0 .. MaxTime
      BY <1>3, GoalFits DEF Times
    <2>2. \E u \in Instants : Open(u) /\ Between(t, u + 1) = n
      BY <2>1, TargetsAssumption
    <2>3. PICK u \in Instants : Between(t, u + 1) = n /\ Add(t, n) = 1 + u
      BY <1>3, <2>2 DEF Add
    <2>4. u \in Nat
      BY CalendarAssumption DEF Instants
    <2>5. Add(t, n) = u + 1
      BY <2>3, <2>4
    <2>6. QED
      BY <2>3, <2>4, <2>5
  <1>4. QED
    BY <1>2, <1>3

LEMMA MonusFits ==
  ASSUME NEW a \in Nat, NEW b \in Nat
  PROVE  Monus(a, b) \in 0 .. a
  BY DEF Monus

-----------------------------------------------------------------------------
(* The operations on a row.                                                *)

LEMMA Fields ==
  ASSUME NEW s \in SlaRow
  PROVE  /\ s.st \in {"ABSENT", "RUNNING", "PAUSED", "COMPLETED", "BREACHED"}
         /\ s.elapsed \in Nat /\ s.remaining \in Nat /\ s.last \in Times /\ s.last \in Nat
         /\ s.done \in BOOLEAN /\ s.keys \in SUBSET {"warning", "breach"}
         /\ s.target \in Nat /\ s.warn \in Nat
  BY SlaAssumption DEF SlaRow, Times

\* A reading moves elapsed, remaining and last_calculated_at, and of a deadline that has
\* passed nothing remains.
LEMMA CalculatedFits ==
  ASSUME NEW m \in Metrics, NEW s, RowSound(m, s), NEW at \in Times, NEW c, c = Calculated(m, s, at)
  PROVE  /\ RowSound(m, c)
         /\ c.st = s.st /\ c.done = s.done /\ c.keys = s.keys /\ c.target = s.target
         /\ s.st = "RUNNING" /\ s.target <= at => c.remaining = 0
  <1>0. /\ s \in SlaRow /\ at \in Nat /\ Target[m] \in Nat
        /\ s.elapsed \in Nat /\ s.remaining \in Nat /\ s.last \in Nat /\ s.target \in Nat
    BY Fields, GoalFits, SlaAssumption DEF RowSound, Times
  <1>1. CASE s.st # "RUNNING"
    BY <1>1 DEF Calculated
  <1>2. CASE s.st = "RUNNING" /\ at <= s.last
    <2>1. c = s
      BY <1>2 DEF Calculated
    <2>2. s.target <= at => Between(s.last, s.target) = 0
      BY <1>0, <1>2, BetweenEmpty
    <2>3. QED
      BY <1>0, <1>2, <2>1, <2>2 DEF RowSound
  <1>3. CASE s.st = "RUNNING" /\ ~ at <= s.last
    <2>1. PICK el \in Nat : el = s.elapsed + Between(s.last, at)
      <3>1. Between(s.last, at) \in Nat
        BY <1>0, BetweenType
      <3>2. QED
        BY <1>0, <3>1
    <2>2. PICK left \in Nat : left = Monus(Target[m], el)
      <3>1. Monus(Target[m], el) \in Nat
        BY <1>0 DEF Monus
      <3>2. QED
        BY <3>1
    <2>3. c = [s EXCEPT !.elapsed = el, !.remaining = left, !.last = at]
      BY <1>3, <2>1, <2>2 DEF Calculated
    <2>4. c = [st |-> s.st, elapsed |-> el, remaining |-> left, last |-> at, done |-> s.done,
               keys |-> s.keys, target |-> s.target, warn |-> s.warn]
      BY <1>0, <2>3 DEF SlaRow
    <2>5. c \in SlaRow
      BY <1>0, <2>4, Fields DEF SlaRow
    <2>6. s.remaining = Monus(Target[m], s.elapsed) /\ s.remaining <= Between(s.last, s.target)
      BY <1>3 DEF RowSound
    <2>7. left <= Between(at, s.target) /\ (s.target <= at => left = 0)
      <3>1. CASE at <= s.target
        <4>1. Between(s.last, s.target) = Between(s.last, at) + Between(at, s.target)
          BY <1>0, <1>3, <3>1, BetweenAdds
        <4>2. Between(s.last, at) \in Nat /\ Between(at, s.target) \in Nat
          BY <1>0, BetweenType
        <4>3. s.target <= at => Between(at, s.target) = 0
          BY <1>0, BetweenEmpty
        <4>4. left <= Between(at, s.target)
          BY <1>0, <2>1, <2>2, <2>6, <4>1, <4>2 DEF Monus
        <4>5. QED
          BY <4>2, <4>3, <4>4
      <3>2. CASE s.target < at /\ s.last <= s.target
        <4>1. Between(s.last, at) = Between(s.last, s.target) + Between(s.target, at)
          BY <1>0, <3>2, BetweenAdds
        <4>2. Between(s.last, s.target) \in Nat /\ Between(s.target, at) \in Nat
              /\ Between(at, s.target) \in Nat
          BY <1>0, BetweenType
        <4>3. left = 0
          BY <1>0, <2>1, <2>2, <2>6, <4>1, <4>2 DEF Monus
        <4>4. QED
          BY <4>2, <4>3
      <3>3. CASE s.target < s.last
        <4>1. Between(s.last, s.target) = 0
          BY <1>0, <3>3, BetweenEmpty
        <4>2. Between(s.last, at) \in Nat /\ Between(at, s.target) \in Nat
          BY <1>0, BetweenType
        <4>3. left = 0
          BY <1>0, <2>1, <2>2, <2>6, <4>1, <4>2 DEF Monus
        <4>4. QED
          BY <4>2, <4>3
      <3>4. QED
        BY <1>0, <1>3, <3>1, <3>2, <3>3
    <2>8. QED
      BY <1>3, <2>2, <2>4, <2>5, <2>7 DEF RowSound
  <1>4. QED
    BY <1>1, <1>2, <1>3

\* A row of which nothing remains, or which no breach has been recorded for, is breached.
LEMMA BreachFits ==
  ASSUME NEW m \in Metrics, NEW s, RowSound(m, s), NEW at \in Times, NEW b, b = Breach(s, at)
  PROVE  RowSound(m, b) /\ b.st = "BREACHED" /\ b.done = s.done
  <1>1. CASE s.st = "BREACHED" \/ "breach" \in s.keys
    BY <1>1 DEF RowSound, Breach
  <1>2. CASE ~ (s.st = "BREACHED" \/ "breach" \in s.keys)
    <2>1. s \in SlaRow
      BY DEF RowSound
    <2>2. b = [st |-> "BREACHED", elapsed |-> s.elapsed, remaining |-> 0, last |-> at,
               done |-> s.done, keys |-> s.keys \cup {"breach"}, target |-> s.target,
               warn |-> s.warn]
      BY <1>2, <2>1 DEF Breach, Recorded, SlaRow
    <2>3. b \in SlaRow
      BY <2>1, <2>2, Fields DEF SlaRow
    <2>4. QED
      BY <2>2, <2>3 DEF RowSound
  <1>3. QED
    BY <1>1, <1>2

LEMMA PauseFits ==
  ASSUME NEW m \in Metrics, NEW s, RowSound(m, s), NEW at \in Times, NEW b, b = Pause(m, s, at)
  PROVE  RowSound(m, b) /\ b.done = s.done /\ (s.st # "ABSENT" => b.st # "ABSENT")
  <1>1. CASE s.st # "RUNNING"
    BY <1>1 DEF Pause
  <1>2. CASE s.st = "RUNNING"
    <2>1. PICK c : c = Calculated(m, s, at)
      OBVIOUS
    <2>2. RowSound(m, c) /\ c.st = "RUNNING" /\ c.done = s.done
      BY <1>2, <2>1, CalculatedFits
    <2>3. b = [c EXCEPT !.st = "PAUSED"]
      BY <1>2, <2>1 DEF Pause
    <2>4. b = [st |-> "PAUSED", elapsed |-> c.elapsed, remaining |-> c.remaining,
               last |-> c.last, done |-> c.done, keys |-> c.keys, target |-> c.target,
               warn |-> c.warn]
      BY <2>2, <2>3 DEF SlaRow, RowSound
    <2>5. b \in SlaRow
      BY <2>2, <2>4, Fields DEF RowSound, SlaRow
    <2>6. QED
      BY <2>2, <2>4, <2>5 DEF RowSound
  <1>3. QED
    BY <1>1, <1>2

\* The deadline of a warning is an instant.
LEMMA WarningFits ==
  ASSUME NEW m \in Metrics, NEW s \in SlaRow, NEW at \in Times, NEW n \in 0 .. Target[m]
  PROVE  WarningAt(m, s, at, n) \in Nat
  <1>1. Monus(n, Goal[m].warning) \in 0 .. Target[m]
    BY GoalFits DEF Monus
  <1>2. Add(at, Monus(n, Goal[m].warning)) \in Nat
    BY <1>1, AddReaches
  <1>3. QED
    BY <1>2, Fields DEF WarningAt

\* A row that runs again with n left, from now on.
LEMMA RunsFits ==
  ASSUME NEW m \in Metrics, NEW s \in SlaRow, NEW at \in Times,
         NEW n, n = Monus(Target[m], s.elapsed), s.st # "BREACHED", RowSound(m, s),
         NEW b, b = [st |-> "RUNNING", elapsed |-> s.elapsed, remaining |-> n, last |-> at,
                     done |-> FALSE, keys |-> s.keys, target |-> Add(at, n),
                     warn |-> WarningAt(m, s, at, n)]
  PROVE  RowSound(m, b)
  <1>1. n \in 0 .. Target[m] /\ n \in Nat
    BY Fields, GoalFits, MonusFits
  <1>2. Add(at, n) \in Nat /\ Between(at, Add(at, n)) = n
    BY <1>1, AddReaches
  <1>3. WarningAt(m, s, at, n) \in Nat
    BY <1>1, WarningFits
  <1>4. b \in SlaRow
    BY <1>1, <1>2, <1>3, Fields DEF SlaRow
  <1>5. n <= n
    BY <1>1
  <1>6. QED
    BY <1>2, <1>4, <1>5 DEF RowSound

LEMMA ResumeFits ==
  ASSUME NEW m \in Metrics, NEW s, RowSound(m, s), NEW at \in Times, NEW b, b = Resume(m, s, at)
  PROVE  RowSound(m, b) /\ (s.st # "ABSENT" => b.st # "ABSENT")
  <1>0. s \in SlaRow
    BY DEF RowSound
  <1>1. CASE s.st # "PAUSED"
    BY <1>1 DEF Resume
  <1>2. CASE s.st = "PAUSED"
    <2>1. PICK n : n = s.remaining
      OBVIOUS
    <2>2. n = Monus(Target[m], s.elapsed) /\ ~ s.done
      BY <1>2, <2>1 DEF RowSound
    <2>3. b = [s EXCEPT !.st = "RUNNING", !.last = at,
                        !.target = Add(at, n), !.warn = WarningAt(m, s, at, n)]
      BY <1>2, <2>1 DEF Resume
    <2>4. s.done = FALSE
      BY <1>0, <2>2, Fields
    <2>5. b = [st |-> "RUNNING", elapsed |-> s.elapsed, remaining |-> n, last |-> at,
               done |-> FALSE, keys |-> s.keys, target |-> Add(at, n),
               warn |-> WarningAt(m, s, at, n)]
      BY <1>0, <2>1, <2>3, <2>4 DEF SlaRow
    <2>6. RowSound(m, b)
      BY <1>0, <1>2, <2>2, <2>5, RunsFits
    <2>7. QED
      BY <2>5, <2>6
  <1>3. QED
    BY <1>1, <1>2

\* A row that has begun ends.
LEMMA CompleteFits ==
  ASSUME NEW m \in Metrics, NEW s, RowSound(m, s), NEW at \in Times, NEW e, e = Complete(m, s, at)
  PROVE  RowSound(m, e) /\ (s.st # "ABSENT" => e.st \in {"COMPLETED", "BREACHED"})
  <1>1. CASE s.st = "ABSENT" \/ s.done
    BY <1>1 DEF Complete, RowSound
  <1>2. CASE ~ (s.st = "ABSENT" \/ s.done)
    <2>1. PICK c : c = Calculated(m, s, at)
      OBVIOUS
    <2>2. RowSound(m, c) /\ c.st = s.st
      BY <2>1, CalculatedFits
    <2>3. PICK b : b = IF c.st = "RUNNING" /\ c.remaining <= 0 THEN Breach(c, at) ELSE c
      OBVIOUS
    <2>4. RowSound(m, b)
      BY <2>2, <2>3, BreachFits
    <2>5. b \in SlaRow
      BY <2>4 DEF RowSound
    <2>6. e = [b EXCEPT !.st = IF b.st = "BREACHED" THEN "BREACHED" ELSE "COMPLETED",
                        !.done = TRUE, !.last = at]
      BY <1>2, <2>1, <2>3 DEF Complete
    <2>7. PICK st : st = IF b.st = "BREACHED" THEN "BREACHED" ELSE "COMPLETED"
      OBVIOUS
    <2>8. e = [st |-> st, elapsed |-> b.elapsed, remaining |-> b.remaining, last |-> at,
               done |-> TRUE, keys |-> b.keys, target |-> b.target, warn |-> b.warn]
      BY <2>5, <2>6, <2>7 DEF SlaRow
    <2>9. e \in SlaRow /\ st \in {"COMPLETED", "BREACHED"}
      BY <2>5, <2>7, <2>8, Fields DEF SlaRow
    <2>10. "breach" \in b.keys => st = "BREACHED"
      BY <2>4, <2>7 DEF RowSound
    <2>11. QED
      BY <2>8, <2>9, <2>10 DEF RowSound
  <1>3. QED
    BY <1>1, <1>2

LEMMA ReopenFits ==
  ASSUME NEW m \in Metrics, NEW s, RowSound(m, s), NEW at \in Times, NEW b, b = Reopen(m, s, at)
  PROVE  RowSound(m, b) /\ (s.st # "ABSENT" => b.st # "ABSENT")
  <1>0. s \in SlaRow
    BY DEF RowSound
  <1>1. CASE s.st # "COMPLETED"
    BY <1>1 DEF Reopen
  <1>2. CASE s.st = "COMPLETED"
    <2>1. PICK n : n = Monus(Target[m], s.elapsed)
      OBVIOUS
    <2>2. CASE n = 0
      <3>1. PICK d : d = [s EXCEPT !.done = FALSE]
        OBVIOUS
      <3>2. d = [st |-> s.st, elapsed |-> s.elapsed, remaining |-> s.remaining, last |-> s.last,
                 done |-> FALSE, keys |-> s.keys, target |-> s.target, warn |-> s.warn]
        BY <1>0, <3>1 DEF SlaRow
      <3>3. d \in SlaRow
        BY <1>0, <3>2, Fields DEF SlaRow
      <3>4. RowSound(m, d)
        BY <1>2, <3>2, <3>3 DEF RowSound
      <3>5. b = Breach(d, at)
        BY <1>2, <2>1, <2>2, <3>1 DEF Reopen
      <3>6. QED
        BY <3>4, <3>5, BreachFits
    <2>3. CASE n # 0
      <3>1. b = [s EXCEPT !.st = "RUNNING", !.done = FALSE, !.remaining = n, !.last = at,
                          !.target = Add(at, n), !.warn = WarningAt(m, s, at, n)]
        BY <1>2, <2>1, <2>3 DEF Reopen
      <3>2. b = [st |-> "RUNNING", elapsed |-> s.elapsed, remaining |-> n, last |-> at,
                 done |-> FALSE, keys |-> s.keys, target |-> Add(at, n),
                 warn |-> WarningAt(m, s, at, n)]
        BY <1>0, <3>1 DEF SlaRow
      <3>3. RowSound(m, b)
        BY <1>0, <1>2, <2>1, <3>2, RunsFits
      <3>4. QED
        BY <3>2, <3>3
    <2>4. QED
      BY <2>2, <2>3
  <1>3. QED
    BY <1>1, <1>2

LEMMA CreatedFits ==
  ASSUME NEW m \in Metrics
  PROVE  RowSound(m, Created(m)) /\ Created(m).st = "RUNNING" /\ ~ Created(m).done
  <1>1. PICK n : n = Target[m]
    OBVIOUS
  <1>2. n \in Nat /\ n \in 0 .. Target[m] /\ 0 \in Times
    BY <1>1, GoalFits, SlaAssumption DEF Times
  <1>3. Monus(n, Goal[m].warning) \in 0 .. Target[m]
    BY <1>1, <1>2, GoalFits DEF Monus
  <1>4. PICK u, w : u = Add(0, n) /\ w = Add(0, Monus(n, Goal[m].warning))
    OBVIOUS
  <1>5. u \in Nat /\ Between(0, u) = n
    BY <1>2, <1>4, AddReaches
  <1>6. w \in Nat
    BY <1>2, <1>3, <1>4, AddReaches
  <1>7. PICK s : s = Created(m)
    OBVIOUS
  <1>8. s = [st |-> "RUNNING", elapsed |-> 0, remaining |-> n, last |-> 0, done |-> FALSE,
             keys |-> {}, target |-> u, warn |-> w]
    BY <1>1, <1>4, <1>7 DEF Created
  <1>9. s \in SlaRow
    BY <1>2, <1>5, <1>6, <1>8 DEF SlaRow
  <1>10. n = Monus(Target[m], 0)
    BY <1>1, <1>2 DEF Monus
  <1>11. RowSound(m, s)
    BY <1>2, <1>5, <1>8, <1>9, <1>10 DEF RowSound
  <1>12. QED
    BY <1>7, <1>8, <1>11

LEMMA StartFits ==
  ASSUME NEW m \in Metrics, NEW s, RowSound(m, s), NEW facts \in Facts, NEW b, b = Start(m, s, facts)
  PROVE  /\ RowSound(m, b) /\ b.st # "ABSENT"
         /\ s.st # "ABSENT" => b = s
         /\ m = "FIRST_RESPONSE" /\ b.done => s.done \/ facts.first # None
  <1>1. CASE s.st # "ABSENT"
    BY <1>1 DEF Start
  <1>2. ASSUME s.st = "ABSENT", NEW at \in Times, b = Complete(m, Created(m), at)
        PROVE  RowSound(m, b) /\ b.st # "ABSENT"
    BY <1>2, CreatedFits, CompleteFits
  <1>3. CASE s.st = "ABSENT" /\ m = "FIRST_RESPONSE" /\ facts.first # None
    <2>1. facts.first \in Times
      BY <1>3 DEF Facts
    <2>2. b = Complete(m, Created(m), facts.first)
      BY <1>3 DEF Start
    <2>3. QED
      BY <1>2, <1>3, <2>1, <2>2
  <1>4. CASE s.st = "ABSENT" /\ m # "FIRST_RESPONSE" /\ facts.resolved # None
    <2>1. facts.resolved \in Times /\ m = "RESOLUTION"
      BY <1>4 DEF Facts, Metrics
    <2>2. b = Complete(m, Created(m), facts.resolved)
      BY <1>4, <2>1 DEF Start
    <2>3. QED
      BY <1>2, <1>4, <2>1, <2>2
  <1>5. CASE s.st = "ABSENT" /\ ~ (m = "FIRST_RESPONSE" /\ facts.first # None)
                             /\ ~ (m # "FIRST_RESPONSE" /\ facts.resolved # None)
    <2>1. b = Created(m) \/ b = Pause(m, Created(m), 0)
      BY <1>5 DEF Start, Metrics
    <2>2. 0 \in Times
      BY SlaAssumption DEF Times
    <2>3. RowSound(m, b) /\ b.st # "ABSENT" /\ ~ b.done
      <3>1. CASE b = Created(m)
        BY <3>1, CreatedFits
      <3>2. CASE b = Pause(m, Created(m), 0)
        <4>1. PICK c : c = Created(m)
          OBVIOUS
        <4>2. RowSound(m, c) /\ c.st = "RUNNING" /\ ~ c.done
          BY <4>1, CreatedFits
        <4>3. RowSound(m, b) /\ b.done = c.done /\ (c.st # "ABSENT" => b.st # "ABSENT")
          BY <2>2, <3>2, <4>1, <4>2, PauseFits
        <4>4. QED
          BY <4>2, <4>3
      <3>3. QED
        BY <2>1, <3>1, <3>2
    <2>4. QED
      BY <1>5, <2>3
  <1>6. QED
    BY <1>1, <1>3, <1>4, <1>5

\* What process makes of a row.  The first-response clock ends by an answer, and of an answer
\* that was given when the row had begun it ends.
LEMMA ProcessedFits ==
  ASSUME NEW m \in Metrics, NEW s, RowSound(m, s), NEW i \in Input, i.type # "CONTINUATION",
         NEW facts \in Facts, NEW b, b = Processed(m, s, i, facts)
  PROVE  /\ RowSound(m, b)
         /\ i.type = "START" \/ s.st # "ABSENT" => b.st # "ABSENT"
         /\ m = "FIRST_RESPONSE" =>
              /\ b.done => s.done \/ facts.first # None \/ i.type = "RESPONSE"
              /\ s.st \in {"COMPLETED", "BREACHED"} => b.st \in {"COMPLETED", "BREACHED"}
              /\ s.st # "ABSENT" /\ (i.type = "RESPONSE" \/ (i.type = "TRANSITION" /\ facts.first # None))
                   => b.st \in {"COMPLETED", "BREACHED"}
  <1>0. /\ i.type \in {"START", "RESPONSE", "TRANSITION"} /\ i.at \in Times
        /\ s.st \in {"ABSENT", "RUNNING", "PAUSED", "COMPLETED", "BREACHED"}
    BY Fields DEF Input, RowSound
  <1>1. CASE i.type = "START"
    <2>1. b = Start(m, s, facts)
      BY <1>1 DEF Processed
    <2>2. QED
      BY <1>1, <2>1, StartFits
  <1>2. CASE i.type = "RESPONSE"
    <2>1. b = Responded(m, s, i)
      BY <1>2 DEF Processed
    <2>2. CASE m = "FIRST_RESPONSE"
      <3>1. b = Complete(m, s, i.at)
        BY <2>1, <2>2 DEF Responded
      <3>2. RowSound(m, b) /\ (s.st # "ABSENT" => b.st \in {"COMPLETED", "BREACHED"})
        BY <1>0, <3>1, CompleteFits
      <3>3. QED
        BY <1>2, <3>2
    <2>3. CASE m # "FIRST_RESPONSE"
      BY <1>2, <2>1, <2>3 DEF Responded
    <2>4. QED
      BY <2>2, <2>3
  <1>3. CASE i.type = "TRANSITION" /\ m = "FIRST_RESPONSE"
    <2>1. b = Transitioned(m, s, i, facts)
      BY <1>3 DEF Processed
    <2>2. CASE facts.first # None /\ s.st \in {"RUNNING", "PAUSED"}
      <3>1. b = Complete(m, s, facts.first) /\ facts.first \in Times
        BY <1>3, <2>1, <2>2 DEF Transitioned, Facts
      <3>2. RowSound(m, b) /\ (s.st # "ABSENT" => b.st \in {"COMPLETED", "BREACHED"})
        BY <3>1, CompleteFits
      <3>3. QED
        BY <1>3, <2>2, <3>2
    <2>3. CASE ~ (facts.first # None /\ s.st \in {"RUNNING", "PAUSED"})
      <3>1. b = s
        BY <1>3, <2>1, <2>3 DEF Transitioned
      <3>2. QED
        BY <1>0, <1>3, <2>3, <3>1
    <2>4. QED
      BY <2>2, <2>3
  <1>4. CASE i.type = "TRANSITION" /\ m # "FIRST_RESPONSE"
    <2>1. b = Transitioned(m, s, i, facts)
      BY <1>4 DEF Processed
    <2>2. \/ b = Reopen(m, s, i.at) \/ b = Complete(m, s, i.at)
          \/ b = Pause(m, s, i.at) \/ b = Resume(m, s, i.at)
      BY <1>4, <2>1 DEF Transitioned
    <2>3. RowSound(m, b) /\ (s.st # "ABSENT" => b.st # "ABSENT")
      <3>1. CASE b = Reopen(m, s, i.at)
        BY <1>0, <3>1, ReopenFits
      <3>2. CASE b = Complete(m, s, i.at)
        <4>1. RowSound(m, b) /\ (s.st # "ABSENT" => b.st \in {"COMPLETED", "BREACHED"})
          BY <1>0, <3>2, CompleteFits
        <4>2. QED
          BY <4>1
      <3>3. CASE b = Pause(m, s, i.at)
        BY <1>0, <3>3, PauseFits
      <3>4. CASE b = Resume(m, s, i.at)
        BY <1>0, <3>4, ResumeFits
      <3>5. QED
        BY <2>2, <3>1, <3>2, <3>3, <3>4
    <2>4. QED
      BY <1>4, <2>3
  <1>5. QED
    BY <1>0, <1>1, <1>2, <1>3, <1>4

\* What a scan makes of a row that runs, and that it breaches one that is overdue.
LEMMA EvaluatedFits ==
  ASSUME NEW m \in Metrics, NEW s, RowSound(m, s), s.st = "RUNNING", now \in Times,
         NEW b, b = Evaluated(m, s)
  PROVE  /\ RowSound(m, b) /\ b.st # "ABSENT" /\ b.done = s.done
         /\ s.target <= now => b.st = "BREACHED"
  <1>1. PICK c : c = Calculated(m, s, now)
    OBVIOUS
  <1>2. RowSound(m, c) /\ c.st = "RUNNING" /\ c.done = s.done /\ (s.target <= now => c.remaining = 0)
    BY <1>1, CalculatedFits
  <1>3. PICK n : n = IF "warning" \notin c.keys /\ c.remaining <= Goal[m].warning
                     THEN Warned(c) ELSE c
    OBVIOUS
  <1>4. c \in SlaRow
    BY <1>2 DEF RowSound
  <1>5. RowSound(m, n) /\ n.st = "RUNNING" /\ n.done = c.done /\ n.remaining = c.remaining
    <2>1. CASE n = c
      BY <1>2, <2>1
    <2>2. CASE n = Warned(c)
      <3>1. n = [st |-> c.st, elapsed |-> c.elapsed, remaining |-> c.remaining, last |-> c.last,
                 done |-> c.done, keys |-> c.keys \cup {"warning"}, target |-> c.target,
                 warn |-> c.warn]
        BY <1>4, <2>2 DEF Warned, Recorded, SlaRow
      <3>2. n \in SlaRow
        BY <1>4, <3>1, Fields DEF SlaRow
      <3>3. QED
        BY <1>2, <3>1, <3>2 DEF RowSound
    <2>3. QED
      BY <1>3, <2>1, <2>2
  <1>6. b = IF n.remaining <= 0 /\ n.st = "RUNNING" THEN Breach(n, now) ELSE n
    BY <1>1, <1>3 DEF Evaluated
  <1>7. CASE n.remaining <= 0
    <2>1. b = Breach(n, now)
      BY <1>5, <1>6, <1>7
    <2>2. RowSound(m, b) /\ b.st = "BREACHED" /\ b.done = n.done
      BY <1>5, <2>1, BreachFits
    <2>3. QED
      BY <1>2, <1>5, <2>2
  <1>8. CASE ~ n.remaining <= 0
    <2>1. b = n
      BY <1>6, <1>8
    <2>2. QED
      BY <1>2, <1>5, <1>8, <2>1
  <1>9. QED
    BY <1>7, <1>8

-----------------------------------------------------------------------------
(* The inputs and their workers.                                           *)

LEMMA InputFields ==
  ASSUME NEW i \in Input
  PROVE  /\ i.n \in 1 .. MaxInputs /\ i.n \in Nat /\ i.type \in {"START", "RESPONSE", "TRANSITION", "CONTINUATION"}
         /\ i.tries \in Nat /\ i.tries <= MaxAttempts - 1 /\ i.deferred \in BOOLEAN
         /\ i = [n |-> i.n, type |-> i.type, at |-> i.at, from |-> i.from, to |-> i.to,
                 tries |-> i.tries, deferred |-> i.deferred]
  BY SlaAssumption DEF Input

\* A new input has a number of its own.
LEMMA Emitted ==
  ASSUME SlaIInv, NEW type \in {"RESPONSE", "TRANSITION", "CONTINUATION"},
         NEW from \in Statuses, NEW to \in Statuses, Emit(type, from, to),
         job' = job, failures' = failures
  PROVE  /\ Queue' /\ Jobs' /\ Retried'
         /\ \E i \in inputs' \ inputs : i.type = type /\ inputs' = inputs \cup {i}
  <1>1. PICK i : i = [n |-> emitted', type |-> type, at |-> now, from |-> from,
                      to |-> to, tries |-> 0, deferred |-> FALSE]
    OBVIOUS
  <1>2. inputs' = inputs \cup {i} /\ emitted' = emitted + 1 /\ emitted < MaxInputs
    BY <1>1 DEF Emit
  <1>3. emitted \in 1 .. MaxInputs /\ emitted \in Nat /\ now \in Times /\ failures \in Nat
    BY SlaAssumption DEF SlaIInv, Queue, Scalars
  <1>4. emitted' \in 1 .. MaxInputs /\ emitted' \in Nat /\ emitted' # 1
    BY <1>2, <1>3, SlaAssumption
  <1>5. 0 \in 0 .. MaxAttempts - 1
    BY SlaAssumption
  <1>6. i \in Input
    BY <1>1, <1>3, <1>4, <1>5 DEF Input
  <1>7. \A j \in inputs : j.n \in Nat /\ j.n <= emitted /\ (j.type = "START" <=> j.n = 1)
    BY InputFields DEF SlaIInv, Queue
  <1>8. i \notin inputs
    BY <1>1, <1>2, <1>3, <1>7
  <1>9. Queue'
    <2>1. inputs' \subseteq Input
      BY <1>2, <1>6 DEF SlaIInv, Queue
    <2>2. ASSUME NEW j \in inputs' PROVE j.n <= emitted' /\ (j.type = "START" <=> j.n = 1)
      BY <1>1, <1>2, <1>3, <1>4, <1>7
    <2>3. ASSUME NEW j \in inputs', NEW k \in inputs', j.n = k.n PROVE j = k
      <3>1. \A l \in inputs : l.n # i.n
        BY <1>1, <1>2, <1>3, <1>7
      <3>2. \A l, q \in inputs : l.n = q.n => l = q
        BY DEF SlaIInv, Queue
      <3>3. QED
        BY <1>2, <2>3, <3>1, <3>2
    <2>4. QED
      BY <1>4, <2>1, <2>2, <2>3 DEF Queue
  <1>10. Jobs'
    BY <1>2 DEF SlaIInv, Jobs
  <1>11. Retried'
    <2>1. ASSUME NEW j \in inputs', j.type # "CONTINUATION" PROVE j.tries <= failures'
      <3>1. CASE j = i
        BY <1>1, <1>3, <3>1
      <3>2. CASE j \in inputs
        BY <2>1, <3>2 DEF SlaIInv, Retried
      <3>3. QED
        BY <1>2, <3>1, <3>2
    <2>2. QED
      BY <2>1 DEF Retried
  <1>12. QED
    BY <1>1, <1>2, <1>8, <1>9, <1>10, <1>11

\* An input that is taken out, or put back with the number it had.
LEMMA QueueKept ==
  ASSUME SlaIInv, emitted' = emitted, NEW i \in inputs,
         \/ inputs' = inputs \ {i}
         \/ \E j \in Input : /\ j.n = i.n /\ j.type = i.type
                             /\ inputs' = (inputs \ {i}) \cup {j}
  PROVE  Queue'
  <1>1. CASE inputs' = inputs \ {i}
    BY <1>1 DEF SlaIInv, Queue
  <1>2. CASE inputs' # inputs \ {i}
    <2>1. PICK j \in Input : j.n = i.n /\ j.type = i.type /\ inputs' = (inputs \ {i}) \cup {j}
      BY <1>2
    <2>2. inputs' \subseteq Input /\ emitted' \in 1 .. MaxInputs
      BY <2>1 DEF SlaIInv, Queue
    <2>3. ASSUME NEW k \in inputs' PROVE k.n <= emitted' /\ (k.type = "START" <=> k.n = 1)
      BY <2>1 DEF SlaIInv, Queue
    <2>4. ASSUME NEW k \in inputs', NEW l \in inputs', k.n = l.n PROVE k = l
      BY <2>1, <2>4 DEF SlaIInv, Queue
    <2>5. QED
      BY <2>2, <2>3, <2>4 DEF Queue
  <1>3. QED
    BY <1>1, <1>2

-----------------------------------------------------------------------------
(* Steps                                                                   *)

\* What says nothing of rows, inputs and workers.
LEMMA TickStep == ASSUME SlaIInv, Tick PROVE SlaIInv'
  <1>1. now \in Nat /\ now + 1 \in Times /\ worked' \in Nat
    <2>1. now \in Nat /\ now <= MaxTime /\ worked \in Nat
      BY SlaAssumption DEF SlaIInv, Scalars, Times
    <2>2. now + 1 \in Times
      BY <2>1, SlaAssumption DEF Tick, Times
    <2>3. worked + 1 \in Nat
      BY <2>1
    <2>4. worked' = worked + 1 \/ worked' = worked
      BY DEF Tick
    <2>5. QED
      BY <2>1, <2>2, <2>3, <2>4
  <1>2. Scalars'
    BY <1>1 DEF SlaIInv, Scalars, Tick
  <1>3. UNCHANGED <<ticket, inputs, emitted, sla, job, failures, answered, overtaken, lateStart, dead>>
    BY DEF Tick, outbox
  <1>4. Clocks' /\ Queue' /\ Jobs' /\ Answers' /\ Retried'
    BY <1>3 DEF SlaIInv, Clocks, Queue, Jobs, Answers, Retried
  <1>5. Answered'
    BY <1>3 DEF SlaIInv, Answered, Started, Stopped, Stops
  <1>6. QED
    BY <1>2, <1>4, <1>5 DEF SlaIInv

\* A transition that starts progress is answered by itself.
LEMMA TransitionStep ==
  ASSUME SlaIInv, NEW to \in Statuses, TransitionTicket(to)
  PROVE  SlaIInv'
  <1>0. /\ UNCHANGED <<now, sla, job, failures, worked, overtaken, lateStart, dead>>
        /\ Emit("TRANSITION", ticket.status, to) /\ answered' = (answered \/ StartsProgress(to))
    BY DEF TransitionTicket
  <1>1. ticket.status \in Statuses /\ ticket \in Facts /\ now \in Times
    BY DEF SlaIInv, Scalars, Facts
  <1>2. /\ Queue' /\ Jobs' /\ Retried'
        /\ \E i \in inputs' \ inputs : i.type = "TRANSITION" /\ inputs' = inputs \cup {i}
    BY <1>0, <1>1, Emitted
  <1>3. PICK i \in inputs' \ inputs : i.type = "TRANSITION" /\ inputs' = inputs \cup {i}
    BY <1>2
  <1>4. PICK first, resolved : /\ first = IF StartsProgress(to) THEN now ELSE ticket.first
                               /\ resolved = CASE to = "RESOLVED" -> now
                                 [] ticket.status = "RESOLVED" /\ to = "IN_PROGRESS" -> None
                                 [] OTHER -> ticket.resolved
    OBVIOUS
  <1>5. first \in Times \cup {None} /\ resolved \in Times \cup {None}
    BY <1>1, <1>4 DEF Facts
  <1>6. ticket' = [status |-> to, first |-> first, resolved |-> resolved]
    BY <1>4 DEF TransitionTicket
  <1>7. ticket' \in Facts
    BY <1>5, <1>6 DEF Facts
  <1>8. now # None
    BY <1>1, SlaAssumption DEF Times, None
  <1>9. /\ ticket.first # None => ticket'.first # None
        /\ StartsProgress(to) => ticket'.first # None
        /\ ~ StartsProgress(to) => ticket'.first = ticket.first
    BY <1>4, <1>6, <1>8
  <1>10. answered' \in BOOLEAN
    BY <1>0 DEF SlaIInv, Scalars, StartsProgress
  <1>11. Scalars'
    BY <1>0, <1>7, <1>10 DEF SlaIInv, Scalars
  <1>12. Clocks'
    BY <1>0 DEF SlaIInv, Clocks
  <1>13. Answers'
    BY <1>0, <1>3, <1>9 DEF SlaIInv, Answers
  <1>14. \A w \in Workers : job[w] # Idle => job[w].input # i
    BY <1>3 DEF SlaIInv, Jobs
  <1>15. Answered'
    <2>1. SUFFICES ASSUME MaxFailures < MaxAttempts
                   PROVE  Started' /\ (answered' /\ ~ overtaken' =>
                                         Stopped' \/ \E j \in inputs' : (Stops(j))')
      BY DEF Answered
    <2>2. Started'
      BY <1>0, <1>3, <2>1 DEF SlaIInv, Answered, Started
    <2>3. ASSUME answered', ~ overtaken', ~ Stopped'
          PROVE  \E j \in inputs' : (Stops(j))'
      <3>1. CASE StartsProgress(to)
        <4>1. (Stops(i))'
          BY <1>0, <1>3, <1>9, <1>14, <3>1 DEF Stops
        <4>2. QED
          BY <4>1
      <3>2. CASE ~ StartsProgress(to)
        <4>1. PICK j \in inputs : Stops(j)
          BY <1>0, <2>1, <2>3, <3>2 DEF SlaIInv, Answered, Stopped
        <4>2. (Stops(j))'
          BY <1>0, <1>9, <3>2, <4>1 DEF Stops
        <4>3. QED
          BY <1>3, <4>2
      <3>3. QED
        BY <3>1, <3>2
    <2>4. QED
      BY <2>2, <2>3
  <1>16. QED
    BY <1>2, <1>11, <1>12, <1>13, <1>15 DEF SlaIInv

LEMMA ContinuesStep ==
  ASSUME SlaIInv, NEW to \in Statuses, ApprovalContinues(to)
  PROVE  SlaIInv'
  <1>0. /\ UNCHANGED <<now, sla, job, failures, answered, worked, overtaken, lateStart, dead>>
        /\ Emit("CONTINUATION", ticket.status, to) /\ ticket' = [ticket EXCEPT !.status = to]
    BY DEF ApprovalContinues, history
  <1>1. ticket.status \in Statuses /\ ticket \in Facts
    BY DEF SlaIInv, Scalars, Facts
  <1>2. /\ Queue' /\ Jobs' /\ Retried'
        /\ \E i \in inputs' \ inputs : i.type = "CONTINUATION" /\ inputs' = inputs \cup {i}
    BY <1>0, <1>1, Emitted
  <1>3. PICK i \in inputs' \ inputs : i.type = "CONTINUATION" /\ inputs' = inputs \cup {i}
    BY <1>2
  <1>4. ticket' \in Facts /\ ticket'.first = ticket.first
    BY <1>0, <1>1 DEF Facts
  <1>5. Scalars' /\ Clocks'
    BY <1>0, <1>4 DEF SlaIInv, Scalars, Clocks
  <1>6. Answers'
    BY <1>0, <1>3, <1>4 DEF SlaIInv, Answers
  <1>7. \A j \in inputs : Stops(j) => (Stops(j))'
    BY <1>0, <1>4 DEF Stops
  <1>8. Answered'
    BY <1>0, <1>3, <1>7 DEF SlaIInv, Answered, Started, Stopped
  <1>9. QED
    BY <1>2, <1>5, <1>6, <1>8 DEF SlaIInv

LEMMA RespondsStep == ASSUME SlaIInv, AgentResponds PROVE SlaIInv'
  <1>0. /\ UNCHANGED <<now, ticket, sla, job, failures, worked, overtaken, lateStart, dead>>
        /\ Emit("RESPONSE", ticket.status, ticket.status) /\ answered' = TRUE
    BY DEF AgentResponds
  <1>1. ticket.status \in Statuses
    BY DEF SlaIInv, Scalars, Facts
  <1>2. /\ Queue' /\ Jobs' /\ Retried'
        /\ \E i \in inputs' \ inputs : i.type = "RESPONSE" /\ inputs' = inputs \cup {i}
    BY <1>0, <1>1, Emitted
  <1>3. PICK i \in inputs' \ inputs : i.type = "RESPONSE" /\ inputs' = inputs \cup {i}
    BY <1>2
  <1>4. Scalars' /\ Clocks'
    BY <1>0 DEF SlaIInv, Scalars, Clocks
  <1>5. Answers'
    BY <1>0 DEF SlaIInv, Answers
  <1>6. (Stops(i))'
    BY <1>3 DEF Stops
  <1>7. Answered'
    BY <1>0, <1>3, <1>6 DEF SlaIInv, Answered, Started
  <1>8. QED
    BY <1>2, <1>4, <1>5, <1>7 DEF SlaIInv

LEMMA ClaimInputStep == ASSUME SlaIInv, NEW w \in Workers, ClaimInput(w) PROVE SlaIInv'
  <1>0. UNCHANGED <<now, ticket, inputs, emitted, sla, failures, answered, worked, overtaken, dead>>
    BY DEF ClaimInput, outbox
  <1>1. PICK i \in inputs : /\ ~ i.deferred /\ i \notin Locked
                            /\ job' = [job EXCEPT ![w] = [input |-> i, facts |-> ticket]]
                            /\ lateStart' = (lateStart \/ (i.type = "START" /\ emitted > 1))
    BY DEF ClaimInput
  <1>2. PICK new : new = [input |-> i, facts |-> ticket]
    OBVIOUS
  <1>3. /\ job' = [v \in Workers |-> job'[v]] /\ job'[w] = new
        /\ \A v \in Workers : v # w => job'[v] = job[v]
    BY <1>1, <1>2 DEF SlaIInv, Jobs
  <1>4. new.input = i /\ new.facts = ticket /\ new = [input |-> new.input, facts |-> new.facts]
    BY <1>2
  <1>5. \A v \in Workers : job[v] # Idle => job[v].input # i
    BY <1>1 DEF Locked
  <1>6. ticket \in Facts
    BY DEF SlaIInv, Scalars
  <1>7. Jobs'
    <2>1. ASSUME NEW v \in Workers, job'[v] # Idle
          PROVE  /\ job'[v] = [input |-> job'[v].input, facts |-> job'[v].facts]
                 /\ job'[v].input \in inputs' /\ ~ job'[v].input.deferred /\ job'[v].facts \in Facts
      <3>1. CASE v = w
        BY <1>0, <1>1, <1>3, <1>4, <1>6, <3>1
      <3>2. CASE v # w
        BY <1>0, <1>3, <2>1, <3>2 DEF SlaIInv, Jobs
      <3>3. QED
        BY <3>1, <3>2
    <2>2. ASSUME NEW u \in Workers, NEW v \in Workers, u # v, job'[u] # Idle, job'[v] # Idle
          PROVE  job'[u].input # job'[v].input
      <3>1. CASE u # w /\ v # w
        BY <1>3, <2>2, <3>1 DEF SlaIInv, Jobs
      <3>2. CASE u = w
        BY <1>3, <1>4, <1>5, <2>2, <3>2
      <3>3. CASE v = w
        BY <1>3, <1>4, <1>5, <2>2, <3>3
      <3>4. QED
        BY <3>1, <3>2, <3>3
    <2>3. QED
      BY <1>3, <2>1, <2>2 DEF Jobs
  <1>8. lateStart' \in BOOLEAN
    BY <1>1 DEF SlaIInv, Scalars
  <1>9. Scalars'
    BY <1>0, <1>8 DEF SlaIInv, Scalars
  <1>10. Clocks' /\ Queue' /\ Retried'
    BY <1>0 DEF SlaIInv, Clocks, Queue, Retried
  <1>11. Answers'
    <2>1. ASSUME NEW v \in Workers, job'[v] # Idle, job'[v].facts.first # None
          PROVE  ticket'.first # None
      <3>1. CASE v = w
        BY <1>0, <1>3, <1>4, <2>1, <3>1
      <3>2. CASE v # w
        BY <1>0, <1>3, <2>1, <3>2 DEF SlaIInv, Answers
      <3>3. QED
        BY <3>1, <3>2
    <2>2. QED
      BY <1>0, <2>1 DEF SlaIInv, Answers
  <1>12. ASSUME NEW j \in inputs, Stops(j) PROVE (Stops(j))'
    <2>1. CASE j.type = "RESPONSE"
      BY <2>1 DEF Stops
    <2>2. CASE j.type # "RESPONSE"
      <3>1. j.type = "TRANSITION" /\ ticket.first # None
        BY <1>12, <2>2 DEF Stops
      <3>2. ASSUME NEW v \in Workers, job'[v] # Idle, job'[v].input = j
            PROVE  job'[v].facts.first # None
        <4>1. CASE v = w
          BY <1>3, <1>4, <3>1, <4>1
        <4>2. CASE v # w
          BY <1>3, <1>12, <2>2, <3>2, <4>2 DEF Stops
        <4>3. QED
          BY <4>1, <4>2
      <3>3. QED
        BY <1>0, <3>1, <3>2 DEF Stops
    <2>3. QED
      BY <2>1, <2>2
  <1>13. Answered'
    BY <1>0, <1>12 DEF SlaIInv, Answered, Started, Stopped
  <1>14. QED
    BY <1>7, <1>9, <1>10, <1>11, <1>13 DEF SlaIInv

\* A worker that lets go of its input, which is taken out or put back.
LEMMA LetsGo ==
  ASSUME SlaIInv, NEW w \in Workers, job[w] # Idle, job' = [job EXCEPT ![w] = Idle],
         inputs \ {job[w].input} \subseteq inputs'
  PROVE  /\ Jobs'
         /\ \A v \in Workers : job'[v] # Idle => job'[v] = job[v] /\ v # w
  <1>1. /\ job' = [v \in Workers |-> job'[v]] /\ job'[w] = Idle
        /\ \A v \in Workers : v # w => job'[v] = job[v]
    BY DEF SlaIInv, Jobs
  <1>2. ASSUME NEW v \in Workers, job'[v] # Idle
        PROVE  job'[v] = job[v] /\ v # w /\ job[v] # Idle
    BY <1>1, <1>2
  <1>3. ASSUME NEW v \in Workers, job'[v] # Idle
        PROVE  /\ job'[v] = [input |-> job'[v].input, facts |-> job'[v].facts]
               /\ job'[v].input \in inputs' /\ ~ job'[v].input.deferred /\ job'[v].facts \in Facts
    <2>1. job[v].input # job[w].input
      BY <1>2, <1>3 DEF SlaIInv, Jobs
    <2>2. /\ job[v] = [input |-> job[v].input, facts |-> job[v].facts]
          /\ job[v].input \in inputs /\ ~ job[v].input.deferred /\ job[v].facts \in Facts
      BY <1>2, <1>3 DEF SlaIInv, Jobs
    <2>3. QED
      BY <1>2, <1>3, <2>1, <2>2
  <1>4. ASSUME NEW u \in Workers, NEW v \in Workers, u # v, job'[u] # Idle, job'[v] # Idle
        PROVE  job'[u].input # job'[v].input
    BY <1>2, <1>4 DEF SlaIInv, Jobs
  <1>5. QED
    BY <1>1, <1>2, <1>3, <1>4 DEF Jobs

LEMMA ApplyStep == ASSUME SlaIInv, NEW w \in Workers, ApplyInput(w) PROVE SlaIInv'
  <1>1. PICK i, facts : i = job[w].input /\ facts = job[w].facts
    OBVIOUS
  <1>2. /\ job[w] # Idle /\ i.type # "CONTINUATION"
        /\ ticket' = [ticket EXCEPT !.first =
                        IF i.type = "RESPONSE" /\ ticket.first = None THEN i.at ELSE ticket.first]
        /\ sla' = [m \in Metrics |-> Processed(m, sla[m], i, facts)]
        /\ inputs' = inputs \ {i} /\ overtaken' = (overtaken \/ \E j \in inputs : j.n < i.n)
        /\ job' = [job EXCEPT ![w] = Idle]
        /\ UNCHANGED <<now, emitted, failures, answered, worked, lateStart, dead>>
    BY <1>1 DEF ApplyInput, MarkFirstResponse, SaveSlas
  <1>3. i \in inputs /\ i \in Input /\ facts \in Facts /\ i.at \in Times
    BY <1>1, <1>2 DEF SlaIInv, Jobs, Queue, Input
  <1>4. ASSUME NEW m \in Metrics
        PROVE  RowSound(m, sla[m]) /\ sla'[m] = Processed(m, sla[m], i, facts)
    BY <1>2 DEF SlaIInv, Clocks
  <1>5. PICK first \in Times \cup {None} :
               first = IF i.type = "RESPONSE" /\ ticket.first = None THEN i.at ELSE ticket.first
    BY <1>3 DEF SlaIInv, Scalars, Facts
  <1>6. ticket \in Facts
    BY DEF SlaIInv, Scalars
  <1>7. ticket' = [status |-> ticket.status, first |-> first, resolved |-> ticket.resolved]
    BY <1>2, <1>5, <1>6 DEF Facts
  <1>8. ticket' \in Facts /\ ticket'.first = first
    BY <1>6, <1>7 DEF Facts
  <1>9. i.at # None
    BY <1>3, SlaAssumption DEF Times, None
  <1>10. /\ ticket.first # None => first # None
         /\ first # None => ticket.first # None \/ i.type = "RESPONSE"
    BY <1>5
  <1>11. overtaken' \in BOOLEAN
    BY <1>2 DEF SlaIInv, Scalars
  <1>12. Scalars'
    BY <1>2, <1>8, <1>11 DEF SlaIInv, Scalars
  <1>13. Clocks'
    <2>1. ASSUME NEW m \in Metrics PROVE RowSound(m, sla'[m])
      <3>1. PICK s, b : s = sla[m] /\ b = Processed(m, s, i, facts)
        OBVIOUS
      <3>2. RowSound(m, s)
        BY <1>4, <3>1
      <3>3. RowSound(m, b)
        BY <1>2, <1>3, <3>1, <3>2, ProcessedFits
      <3>4. QED
        BY <1>4, <3>1, <3>3
    <2>2. sla' = [m \in Metrics |-> sla'[m]]
      BY <1>2
    <2>3. QED
      BY <2>1, <2>2 DEF Clocks
  <1>14. Queue'
    BY <1>2, <1>3, QueueKept
  <1>15. inputs \ {job[w].input} \subseteq inputs'
    BY <1>1, <1>2
  <1>16. /\ Jobs'
         /\ \A v \in Workers : job'[v] # Idle => job'[v] = job[v] /\ v # w
    BY <1>2, <1>15, LetsGo
  <1>17. Retried'
    BY <1>2 DEF SlaIInv, Retried
  <1>18. PICK s, b : s = sla["FIRST_RESPONSE"] /\ b = Processed("FIRST_RESPONSE", s, i, facts)
    OBVIOUS
  <1>19. /\ i.type = "START" \/ s.st # "ABSENT" => b.st # "ABSENT"
         /\ b.done => s.done \/ facts.first # None \/ i.type = "RESPONSE"
         /\ s.st \in {"COMPLETED", "BREACHED"} => b.st \in {"COMPLETED", "BREACHED"}
         /\ s.st # "ABSENT" /\ (i.type = "RESPONSE" \/ (i.type = "TRANSITION" /\ facts.first # None))
               => b.st \in {"COMPLETED", "BREACHED"}
    <2>1. "FIRST_RESPONSE" \in Metrics
      BY DEF Metrics
    <2>2. RowSound("FIRST_RESPONSE", s)
      BY <1>4, <1>18, <2>1
    <2>3. QED
      BY <1>2, <1>3, <1>18, <2>1, <2>2, ProcessedFits
  <1>20. sla'["FIRST_RESPONSE"] = b
    BY <1>4, <1>18 DEF Metrics
  <1>21. facts.first # None => ticket.first # None
    BY <1>1, <1>2 DEF SlaIInv, Answers
  <1>22. Answers'
    <2>1. answered' = answered /\ (i.type = "RESPONSE" => answered)
      BY <1>2, <1>3 DEF SlaIInv, Answers
    <2>2. ticket'.first # None => answered'
      BY <1>8, <1>10, <2>1 DEF SlaIInv, Answers
    <2>3. \A j \in inputs' : j.type = "RESPONSE" => answered'
      BY <1>2, <2>1 DEF SlaIInv, Answers
    <2>4. ASSUME NEW v \in Workers, job'[v] # Idle, job'[v].facts.first # None
          PROVE  ticket'.first # None
      BY <1>8, <1>10, <1>16, <2>4 DEF SlaIInv, Answers
    <2>5. sla'["FIRST_RESPONSE"].done => answered'
      BY <1>18, <1>19, <1>20, <1>21, <2>1 DEF SlaIInv, Answers
    <2>6. QED
      BY <2>2, <2>3, <2>4, <2>5 DEF Answers
  <1>23. Answered'
    <2>1. SUFFICES ASSUME MaxFailures < MaxAttempts
                   PROVE  Started' /\ (answered' /\ ~ overtaken' =>
                                         Stopped' \/ \E j \in inputs' : (Stops(j))')
      BY DEF Answered
    <2>2. Started
      BY <2>1 DEF SlaIInv, Answered
    <2>3. Started'
      <3>1. CASE b.st # "ABSENT"
        BY <1>20, <3>1 DEF Started
      <3>2. CASE b.st = "ABSENT"
        <4>1. PICK j \in inputs : j.type = "START"
          BY <1>18, <1>19, <2>2, <3>2 DEF Started
        <4>2. j # i
          BY <1>19, <3>2, <4>1
        <4>3. QED
          BY <1>2, <4>1, <4>2 DEF Started
      <3>3. QED
        BY <3>1, <3>2
    <2>4. ASSUME answered', ~ overtaken', ~ Stopped'
          PROVE  \E j \in inputs' : (Stops(j))'
      <3>1. ~ (s.st \in {"COMPLETED", "BREACHED"}) /\ ~ (b.st \in {"COMPLETED", "BREACHED"})
        BY <1>19, <1>20, <2>4 DEF Stopped
      <3>2. answered /\ ~ overtaken /\ ~ \E j \in inputs : j.n < i.n
        BY <1>2, <2>4
      <3>3. PICK j \in inputs : Stops(j)
        BY <1>18, <2>1, <3>1, <3>2 DEF SlaIInv, Answered, Stopped
      <3>4. j # i
        <4>1. SUFFICES ASSUME j = i PROVE FALSE
          OBVIOUS
        <4>2. i.type = "RESPONSE" \/ (i.type = "TRANSITION" /\ facts.first # None)
          BY <1>1, <1>2, <3>3, <4>1 DEF Stops
        <4>3. s.st = "ABSENT"
          BY <1>19, <3>1, <4>2
        <4>4. PICK k \in inputs : k.type = "START"
          BY <1>18, <2>2, <4>3 DEF Started
        <4>5. k.n = 1 /\ i.n # 1 /\ i.n \in Nat /\ i.n \in 1 .. MaxInputs
          BY <1>3, <4>2, <4>4, InputFields DEF SlaIInv, Queue
        <4>6. k.n < i.n
          BY <4>5, SlaAssumption
        <4>7. QED
          BY <3>2, <4>6
      <3>5. j \in inputs'
        BY <1>2, <3>4
      <3>6. (Stops(j))'
        <4>1. CASE j.type = "RESPONSE"
          BY <4>1 DEF Stops
        <4>2. CASE j.type # "RESPONSE"
          <5>1. j.type = "TRANSITION" /\ ticket'.first # None
            BY <1>8, <1>10, <3>3, <4>2 DEF Stops
          <5>2. \A v \in Workers : job'[v] # Idle /\ job'[v].input = j => job'[v].facts.first # None
            BY <1>16, <3>3, <4>2 DEF Stops
          <5>3. QED
            BY <5>1, <5>2 DEF Stops
        <4>3. QED
          BY <4>1, <4>2
      <3>7. QED
        BY <3>5, <3>6
    <2>5. QED
      BY <2>3, <2>4
  <1>24. QED
    BY <1>12, <1>13, <1>14, <1>16, <1>17, <1>22, <1>23 DEF SlaIInv

\* Of an answer that was not applied yet, what is put back keeps the type.
LEMMA PutBack ==
  ASSUME SlaIInv, NEW i \in inputs, NEW j \in Input, j \notin inputs,
         j.type = i.type, inputs' = (inputs \ {i}) \cup {j},
         UNCHANGED <<ticket, sla, answered, overtaken>>,
         \A v \in Workers : job'[v] # Idle => job'[v] = job[v]
  PROVE  Answered'
  <1>1. SUFFICES ASSUME MaxFailures < MaxAttempts
                 PROVE  Started' /\ (answered' /\ ~ overtaken' =>
                                       Stopped' \/ \E k \in inputs' : (Stops(k))')
    BY DEF Answered
  <1>2. Started'
    BY <1>1 DEF SlaIInv, Answered, Started
  <1>3. ASSUME answered', ~ overtaken', ~ Stopped'
        PROVE  \E k \in inputs' : (Stops(k))'
    <2>1. PICK k \in inputs : Stops(k)
      BY <1>1, <1>3 DEF SlaIInv, Answered, Stopped
    <2>2. CASE k # i
      BY <2>1, <2>2 DEF Stops
    <2>3. CASE k = i
      <3>1. \A v \in Workers : job'[v] # Idle => job'[v].input # j
        BY DEF SlaIInv, Jobs
      <3>2. (Stops(j))'
        BY <2>1, <2>3, <3>1 DEF Stops
      <3>3. QED
        BY <3>2
    <2>4. QED
      BY <2>2, <2>3
  <1>4. QED
    BY <1>2, <1>3

LEMMA FailStep == ASSUME SlaIInv, NEW w \in Workers, FailInput(w) PROVE SlaIInv'
  <1>1. PICK i : i = job[w].input
    OBVIOUS
  <1>2. PICK again : again = [i EXCEPT !.tries = @ + 1, !.deferred = TRUE]
    OBVIOUS
  <1>3. /\ job[w] # Idle
        /\ IF i.type = "CONTINUATION" THEN UNCHANGED failures
           ELSE failures < MaxFailures /\ failures' = failures + 1
        /\ inputs' = (inputs \ {i}) \cup IF Exhausted(i) THEN {} ELSE {again}
        /\ dead' = (dead \/ Exhausted(i)) /\ job' = [job EXCEPT ![w] = Idle]
        /\ UNCHANGED <<now, ticket, emitted, sla, answered, worked, overtaken, lateStart>>
    BY <1>1, <1>2 DEF FailInput
  <1>4. i \in inputs /\ i \in Input /\ ~ i.deferred
    BY <1>1, <1>3 DEF SlaIInv, Jobs, Queue
  <1>5. failures \in Nat /\ failures \in 0 .. MaxFailures /\ failures' \in 0 .. MaxFailures
        /\ failures' \in Nat /\ failures <= failures'
    BY <1>3, SlaAssumption DEF SlaIInv, Scalars
  <1>6. dead' \in BOOLEAN
    BY <1>3 DEF SlaIInv, Scalars, Exhausted
  <1>7. Scalars'
    BY <1>3, <1>5, <1>6 DEF SlaIInv, Scalars
  <1>8. Clocks'
    BY <1>3 DEF SlaIInv, Clocks
  <1>9. /\ again = [n |-> i.n, type |-> i.type, at |-> i.at, from |-> i.from, to |-> i.to,
                    tries |-> i.tries + 1, deferred |-> TRUE]
        /\ i.tries \in Nat /\ i.tries <= MaxAttempts - 1
    BY <1>2, <1>4, InputFields DEF Input
  <1>10. again \notin inputs
    <2>1. again # i /\ again.n = i.n
      BY <1>4, <1>9
    <2>2. QED
      BY <1>4, <2>1 DEF SlaIInv, Queue
  <1>11. ~ Exhausted(i) => again \in Input
    <2>1. ASSUME ~ Exhausted(i) PROVE i.tries + 1 \in 0 .. MaxAttempts - 1
      BY <1>9, <2>1, SlaAssumption DEF Exhausted
    <2>2. QED
      BY <1>4, <1>9, <2>1 DEF Input
  <1>12. inputs \ {job[w].input} \subseteq inputs'
    BY <1>1, <1>3
  <1>13. /\ Jobs'
         /\ \A v \in Workers : job'[v] # Idle => job'[v] = job[v] /\ v # w
    BY <1>3, <1>12, LetsGo
  <1>14. Queue'
    <2>1. CASE Exhausted(i)
      <3>1. inputs' = inputs \ {i}
        BY <1>3, <2>1
      <3>2. QED
        BY <1>3, <1>4, <3>1, QueueKept
    <2>2. CASE ~ Exhausted(i)
      <3>1. again \in Input /\ again.n = i.n /\ again.type = i.type
            /\ inputs' = (inputs \ {i}) \cup {again}
        BY <1>3, <1>9, <1>11, <2>2
      <3>2. QED
        BY <1>3, <1>4, <3>1, QueueKept
    <2>3. QED
      BY <2>1, <2>2
  <1>15. Retried'
    <2>1. ASSUME NEW j \in inputs', j.type # "CONTINUATION" PROVE j.tries <= failures'
      <3>1. CASE j = again
        <4>1. i.type # "CONTINUATION" /\ i.tries <= failures /\ failures' = failures + 1
          BY <1>3, <1>4, <1>9, <2>1, <3>1 DEF SlaIInv, Retried
        <4>2. QED
          BY <1>5, <1>9, <3>1, <4>1
      <3>2. CASE j \in inputs
        <4>1. j.tries <= failures /\ j.tries \in Nat
          BY <2>1, <3>2, InputFields DEF SlaIInv, Retried, Queue
        <4>2. QED
          BY <1>5, <4>1
      <3>3. QED
        BY <1>3, <3>1, <3>2
    <2>2. QED
      BY <2>1 DEF Retried
  <1>16. Answers'
    <2>1. ASSUME NEW j \in inputs', j.type = "RESPONSE" PROVE answered'
      <3>1. \E k \in inputs : k.type = "RESPONSE"
        BY <1>3, <1>4, <1>9, <2>1
      <3>2. QED
        BY <1>3, <3>1 DEF SlaIInv, Answers
    <2>2. ASSUME NEW v \in Workers, job'[v] # Idle, job'[v].facts.first # None
          PROVE  ticket'.first # None
      BY <1>3, <1>13, <2>2 DEF SlaIInv, Answers
    <2>3. QED
      BY <1>3, <2>1, <2>2 DEF SlaIInv, Answers
  <1>17. Answered'
    <2>1. CASE ~ Exhausted(i)
      <3>1. again \in Input /\ again.type = i.type /\ inputs' = (inputs \ {i}) \cup {again}
        BY <1>3, <1>9, <1>11, <2>1
      <3>2. QED
        BY <1>3, <1>4, <1>10, <1>13, <3>1, PutBack
    <2>2. CASE Exhausted(i) /\ MaxFailures < MaxAttempts
      <3>1. i.type = "CONTINUATION"
        <4>1. SUFFICES ASSUME i.type # "CONTINUATION" PROVE FALSE
          OBVIOUS
        <4>2. i.tries <= failures /\ failures < MaxFailures
          BY <1>3, <1>4, <4>1 DEF SlaIInv, Retried
        <4>3. i.tries + 1 >= MaxAttempts
          BY <2>2 DEF Exhausted
        <4>4. QED
          BY <1>5, <1>9, <2>2, <4>2, <4>3, SlaAssumption
      <3>2. inputs' = inputs \ {i}
        BY <1>3, <2>2
      <3>3. Started'
        BY <1>3, <2>2, <3>1, <3>2 DEF SlaIInv, Answered, Started
      <3>4. ASSUME NEW j \in inputs, Stops(j) PROVE j \in inputs' /\ (Stops(j))'
        <4>1. j # i
          BY <3>1, <3>4 DEF Stops
        <4>2. (Stops(j))'
          BY <1>3, <1>13, <3>4 DEF Stops
        <4>3. QED
          BY <3>2, <4>1, <4>2
      <3>5. QED
        BY <1>3, <2>2, <3>3, <3>4 DEF SlaIInv, Answered, Stopped
    <2>3. CASE ~ MaxFailures < MaxAttempts
      BY <2>3 DEF Answered
    <2>4. QED
      BY <2>1, <2>2, <2>3
  <1>18. QED
    BY <1>7, <1>8, <1>13, <1>14, <1>15, <1>16, <1>17 DEF SlaIInv

LEMMA BackoffStep == ASSUME SlaIInv, NEW i \in inputs, BackoffEnds(i) PROVE SlaIInv'
  <1>1. PICK j : j = [i EXCEPT !.deferred = FALSE]
    OBVIOUS
  <1>2. /\ i.deferred /\ inputs' = (inputs \ {i}) \cup {j}
        /\ UNCHANGED <<now, ticket, emitted, sla, job, failures, answered, worked, overtaken,
                       lateStart, dead>>
    BY <1>1 DEF BackoffEnds, history
  <1>3. i \in Input
    BY DEF SlaIInv, Queue
  <1>4. /\ j = [n |-> i.n, type |-> i.type, at |-> i.at, from |-> i.from, to |-> i.to,
                tries |-> i.tries, deferred |-> FALSE]
        /\ j \in Input
    BY <1>1, <1>3 DEF Input
  <1>5. j \notin inputs
    <2>1. j # i /\ j.n = i.n
      BY <1>2, <1>4
    <2>2. QED
      BY <2>1 DEF SlaIInv, Queue
  <1>6. Scalars' /\ Clocks'
    BY <1>2 DEF SlaIInv, Scalars, Clocks
  <1>7. Queue'
    BY <1>2, <1>4, QueueKept
  <1>8. \A v \in Workers : job[v] # Idle => job[v].input # i
    BY <1>2 DEF SlaIInv, Jobs
  <1>9. Jobs'
    BY <1>2, <1>8 DEF SlaIInv, Jobs
  <1>10. Retried'
    BY <1>2, <1>4 DEF SlaIInv, Retried
  <1>11. Answers'
    BY <1>2, <1>4 DEF SlaIInv, Answers
  <1>12. Answered'
    BY <1>2, <1>4, <1>5, PutBack
  <1>13. QED
    BY <1>6, <1>7, <1>9, <1>10, <1>11, <1>12 DEF SlaIInv

LEMMA ScanStep == ASSUME SlaIInv, ScanDue PROVE SlaIInv'
  <1>1. /\ sla' = [m \in Metrics |-> IF Due(sla[m]) THEN Evaluated(m, sla[m]) ELSE sla[m]]
        /\ overtaken' = (overtaken \/ inputs # {})
        /\ UNCHANGED <<now, ticket, inputs, emitted, job, failures, answered, worked, lateStart, dead>>
    BY DEF ScanDue, outbox
  <1>2. now \in Times
    BY DEF SlaIInv, Scalars
  <1>3. ASSUME NEW m \in Metrics
        PROVE  /\ RowSound(m, sla'[m]) /\ sla'[m].done = sla[m].done
               /\ sla[m].st # "ABSENT" => sla'[m].st # "ABSENT"
               /\ sla[m].st # "RUNNING" => sla'[m] = sla[m]
    <2>1. PICK s : s = sla[m]
      OBVIOUS
    <2>2. RowSound(m, s)
      BY <2>1 DEF SlaIInv, Clocks
    <2>3. CASE Due(s)
      <3>1. PICK b : b = Evaluated(m, s)
        OBVIOUS
      <3>2. s.st = "RUNNING"
        BY <2>3 DEF Due
      <3>3. RowSound(m, b) /\ b.st # "ABSENT" /\ b.done = s.done
        BY <1>2, <2>2, <3>1, <3>2, EvaluatedFits
      <3>4. sla'[m] = b
        BY <1>1, <2>1, <2>3, <3>1
      <3>5. QED
        BY <2>1, <3>2, <3>3, <3>4
    <2>4. CASE ~ Due(s)
      <3>1. sla'[m] = s
        BY <1>1, <2>1, <2>4
      <3>2. QED
        BY <2>1, <2>2, <3>1
    <2>5. QED
      BY <2>3, <2>4
  <1>4. Clocks'
    <2>1. sla' = [m \in Metrics |-> sla'[m]]
      BY <1>1
    <2>2. QED
      BY <1>3, <2>1 DEF Clocks
  <1>5. overtaken' \in BOOLEAN /\ (overtaken => overtaken')
    BY <1>1 DEF SlaIInv, Scalars
  <1>6. Scalars' /\ Queue' /\ Jobs' /\ Retried'
    BY <1>1, <1>5 DEF SlaIInv, Scalars, Queue, Jobs, Retried
  <1>7. "FIRST_RESPONSE" \in Metrics
    BY DEF Metrics
  <1>8. Answers'
    BY <1>1, <1>3, <1>7 DEF SlaIInv, Answers
  <1>9. \A j \in inputs : Stops(j) => (Stops(j))'
    BY <1>1 DEF Stops
  <1>10. (Started => Started') /\ (Stopped => Stopped')
    BY <1>1, <1>3, <1>7 DEF Started, Stopped
  <1>11. Answered'
    BY <1>1, <1>5, <1>9, <1>10 DEF SlaIInv, Answered
  <1>12. QED
    BY <1>4, <1>6, <1>8, <1>11 DEF SlaIInv

LEMMA InitSlaIInv == SlaInit => SlaIInv
  <1> SUFFICES ASSUME SlaInit PROVE SlaIInv
    OBVIOUS
  <1>1. 0 \in Times /\ 0 \in 0 .. MaxAttempts - 1 /\ 0 \in 0 .. MaxFailures /\ 1 \in 1 .. MaxInputs
    BY SlaAssumption DEF Times
  <1>2. PICK i : i = [n |-> 1, type |-> "START", at |-> 0, from |-> "NEW", to |-> "NEW",
                      tries |-> 0, deferred |-> FALSE]
    OBVIOUS
  <1>3. i \in Input
    BY <1>1, <1>2 DEF Input, Statuses
  <1>4. /\ inputs = {i} /\ emitted = 1 /\ now = 0 /\ failures = 0 /\ worked = 0
        /\ ticket = [status |-> "NEW", first |-> None, resolved |-> None]
        /\ sla = [m \in Metrics |-> Absent] /\ job = [w \in Workers |-> Idle]
        /\ answered = FALSE /\ overtaken = FALSE /\ lateStart = FALSE /\ dead = FALSE
    BY <1>2 DEF SlaInit
  <1>5. Absent \in SlaRow /\ Absent.st = "ABSENT" /\ Absent.keys = {} /\ ~ Absent.done
    BY <1>1 DEF Absent, SlaRow
  <1>6. \A m \in Metrics : RowSound(m, Absent)
    BY <1>5 DEF RowSound
  <1>7. Clocks
    BY <1>4, <1>6 DEF Clocks
  <1>8. Scalars
    BY <1>1, <1>4 DEF Scalars, Facts, Statuses
  <1>9. Queue
    BY <1>1, <1>2, <1>3, <1>4 DEF Queue
  <1>10. Jobs
    BY <1>4 DEF Jobs
  <1>11. Answers
    BY <1>2, <1>4, <1>5 DEF Answers, Metrics
  <1>12. Retried
    BY <1>2, <1>4 DEF Retried
  <1>13. Answered
    BY <1>2, <1>4 DEF Answered, Started
  <1>14. QED
    BY <1>7, <1>8, <1>9, <1>10, <1>11, <1>12, <1>13 DEF SlaIInv

LEMMA NextSlaIInv == SlaIInv /\ [SlaNext]_slaVars => SlaIInv'
  <1> SUFFICES ASSUME SlaIInv, [SlaNext]_slaVars PROVE SlaIInv'
    OBVIOUS
  <1>1. CASE UNCHANGED slaVars
    BY <1>1 DEF slaVars, SlaIInv, Scalars, Clocks, Queue, Jobs, Answers, Retried, Answered,
                Started, Stopped, Stops
  <1>2. CASE Tick
    BY <1>2, TickStep
  <1>3. CASE \E to \in Statuses : TransitionTicket(to) \/ ApprovalContinues(to)
    BY <1>3, TransitionStep, ContinuesStep
  <1>4. CASE AgentResponds
    BY <1>4, RespondsStep
  <1>5. CASE \E w \in Workers : ClaimInput(w) \/ ApplyInput(w) \/ FailInput(w)
    BY <1>5, ClaimInputStep, ApplyStep, FailStep
  <1>6. CASE \E i \in inputs : BackoffEnds(i)
    BY <1>6, BackoffStep
  <1>7. CASE ScanDue
    BY <1>7, ScanStep
  <1>8. QED
    BY <1>1, <1>2, <1>3, <1>4, <1>5, <1>6, <1>7 DEF SlaNext

\* For any calendar, goals, workers and inputs, whatever order they are applied in.
THEOREM SlaInvariant == SlaSpec => []SlaIInv
  <1>1. QED
    BY InitSlaIInv, NextSlaIInv, PTL DEF SlaSpec

\* The rows, the inputs and what the workers have read keep their shape.
THEOREM SlaTypeCorrect == SlaSpec => []SlaTypeOK
  <1>1. SlaIInv => SlaTypeOK
    <2>1. ASSUME SlaIInv PROVE sla \in [Metrics -> SlaRow]
      BY <2>1 DEF SlaIInv, Clocks, RowSound
    <2>2. QED
      BY <2>1 DEF SlaIInv, Scalars, Queue, Jobs, SlaTypeOK
  <1>2. QED
    BY <1>1, SlaInvariant, PTL

\* A scan ends every clock whose persisted deadline has passed (evaluate_due).
THEOREM ScansBreach == SlaSpec => []OverdueBreaches
  <1>1. SlaIInv => OverdueBreaches
    <2>1. SUFFICES ASSUME SlaIInv, NEW m \in Metrics, sla[m].st = "RUNNING", sla[m].target <= now
                   PROVE  Evaluated(m, sla[m]).st = "BREACHED"
      BY DEF OverdueBreaches
    <2>2. PICK s, b : s = sla[m] /\ b = Evaluated(m, s)
      OBVIOUS
    <2>3. RowSound(m, s) /\ now \in Times
      BY <2>1, <2>2 DEF SlaIInv, Clocks, Scalars
    <2>4. s.target <= now => b.st = "BREACHED"
      BY <2>1, <2>2, <2>3, EvaluatedFits
    <2>5. QED
      BY <2>1, <2>2, <2>4
  <1>2. QED
    BY <1>1, SlaInvariant, PTL

\* As long as the attempts of an input suffice for the failures there are: once every input
\* is processed, in order, a response has stopped the first-response clock, and nothing else has.
THEOREM ResponsesStop == SlaSpec => [](MaxFailures < MaxAttempts => ResponseStopsClock)
  <1>1. SlaIInv => (MaxFailures < MaxAttempts => ResponseStopsClock)
    BY DEF SlaIInv, Answers, Answered, Stopped, Drained, ResponseStopsClock
  <1>2. QED
    BY <1>1, SlaInvariant, PTL

=============================================================================
