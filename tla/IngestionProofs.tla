--------------------------- MODULE IngestionProofs ---------------------------
(***************************************************************************)
(* The safety properties of Ingestion, for any pages, contents, workers,   *)
(* runs and budgets: what a page's versions, the verdict of a run and the  *)
(* refresh state of the source say of the items, and that a stale item is  *)
(* never acquired.                                                         *)
(***************************************************************************)
EXTENDS Ingestion, SequenceTheorems, TLAPS

\* Where an item is held: from its claim to the end of the attempt.
Acquiring  == {"load", "fetch", "begin", "commit"}
Processing == {"pload", "start", "persist", "replay", "pfail"}

Finishing == {"complete", "removed", "redirected", "blocked", "infected", "fatal", "retry"}

\* A worker under way has an item, and a verdict once it finishes it.
Fit(w) ==
    /\ pc[w] \in Acquiring \cup Processing =>
         job[w] \in Items /\ item[job[w]].status # "ABSENT"
    /\ pc[w] = "begin" => verdict[w] \in Finishing
    /\ pc[w] = "commit" => verdict[w] \in Finishing \cup {"duplicate"} /\ seen[w].run # "ABSENT"
    /\ pc[w] \in {"begin", "commit"} /\ verdict[w] \in {"complete", "duplicate"} =>
         seen[w].content \in Contents

WorkersFit == \A w \in Workers : Fit(w)

\* Runs are created in order, and their items with them.
RunsFit ==
    /\ \A r \in Runs : runStatus[r] = "ABSENT" => runType[r] = None
    /\ \A q, r \in Runs : q < r /\ runStatus[r] # "ABSENT" => runStatus[q] # "ABSENT"
    /\ \A i \in Items : item[i].status # "ABSENT" => runStatus[RunOf(i)] # "ABSENT"

\* An item is pinned to versions that exist.
Pinned ==
    \A i \in Items : item[i].source <= srcVersion /\ item[i].manifest <= manVersion[PageOf(i)]

\* w holds the advisory lock of page p.
HoldsPage(w, p) ==
    pc[w] = "commit" /\ verdict[w] \in {"complete", "duplicate"} /\ PageOf(job[w]) = p

PageLockExclusive ==
    \A p \in Pages : \A v, w \in Workers : HoldsPage(v, p) /\ HoldsPage(w, p) => v = w

\* What is about to be stored is not there yet.
New(w) ==
    pc[w] = "commit" /\ verdict[w] = "complete" =>
        seen[w].content \notin Range(versions[PageOf(job[w])])

Novel == \A w \in Workers : New(w)

\* A checksum of an item is one of its page's versions.
ContentStored ==
    \A i \in Items :
        /\ item[i].content # None => item[i].content \in Range(versions[PageOf(i)])
        /\ item[i].stage = "PROCESSING" => item[i].content # None

\* Nothing is left for the acquisition worker.
Done(x) == x.status = "ABSENT" \/ x.stage # "ACQUISITION" \/ x.final

\* While no reply is lost, an item under acquisition is its worker's alone.
Holds(w) ==
    /\ pc[w] \in Acquiring =>
         /\ item[job[w]].status = "ACQUIRING"
         /\ item[job[w]].stage = "ACQUISITION" /\ ~item[job[w]].final
    /\ pc[w] \in Processing => item[job[w]].stage = "PROCESSING"

SoleHolder ==
    /\ \A w \in Workers : Holds(w)
    /\ \A v, w \in Workers :
         pc[v] \in Acquiring /\ pc[w] \in Acquiring /\ job[v] = job[w] => v = w

\* What a row's status says of its stage, finality and classification.
RowShape(x) ==
    /\ x.status \in Skipped \cup {"ACQUIRED", "EXTRACTING", "EMBEDDED"} => x.stage # "ACQUISITION"
    /\ x.status = "BLOCKED_PERMISSION" => x.final

RowFit(i) ==
    /\ RowShape(item[i])
    /\ runType[RunOf(i)] = "REFRESH" =>
         /\ item[i].status \in Skipped \cup {"ACQUIRED"}
              => item[i].class \in Changes \cup {"UNCHANGED"}
         /\ PageOf(i) \in budget.pages => item[i].status # "ABSENT"

RowsFit == \A i \in Items : RowFit(i)

\* The totals a finishing worker has read stay true of the other items.
Stays(w) ==
    pc[w] = "commit" /\ seen[w].run \in Terminal =>
        /\ \A i \in Items : RunOf(i) = RunOf(job[w]) /\ i # job[w] => Done(item[i])
        /\ verdict[w] = "retry" => Exhausted(item[job[w]].tries)

TotalsStay == \A w \in Workers : Stays(w)

TerminalDone == \A i \in Items : runStatus[RunOf(i)] \in Terminal => Done(item[i])

\* A refresh that is over has no item under acquisition.
Drained ==
    \A i \in Items :
        runType[RunOf(i)] = "REFRESH" /\ (refresh # "REFRESHING" \/ ~NewestRefresh(RunOf(i)))
          => Done(item[i])

Faultless == SoleHolder /\ RowsFit /\ TotalsStay /\ TerminalDone /\ Drained

Sound ==
    /\ TypeOK
    /\ WorkersFit
    /\ RunsFit
    /\ Pinned
    /\ PageLockExclusive /\ Novel /\ ContentStored /\ OneItemPerVersion

\* The inductive invariant.
IInv == Sound /\ (lost = 0 => Faultless)

\* Worker w, if it is on item i, will not acquire it.
Waits(i, w) ==
    job[w] = i =>
        \/ pc[w] \in {"acq", "proc", "load"}
        \/ pc[w] \in {"begin", "commit"} /\ verdict[w] \in {"blocked", "retry"}

\* No worker will acquire i any more.
Doomed(i) ==
    /\ item[i].status # "ABSENT" /\ item[i].stage = "ACQUISITION"
    /\ ~Fresh(i)
    /\ \A w \in Workers : Waits(i, w)

-----------------------------------------------------------------------------
(* Lemmas on the operators of the model.                                   *)

\* An item is a run and a page of its manifest.
LEMMA ItemParts ==
  ASSUME NEW i \in Items
  PROVE  RunOf(i) \in Runs /\ PageOf(i) \in Pages /\ i = <<RunOf(i), PageOf(i)>>
  BY DEF Items, RunOf, PageOf

LEMMA PartsOfItem ==
  ASSUME NEW r \in Runs, NEW p \in Pages
  PROVE  <<r, p>> \in Items /\ RunOf(<<r, p>>) = r /\ PageOf(<<r, p>>) = p
  BY DEF Items, RunOf, PageOf

\* A version is appended once.
LEMMA AppendFresh ==
  ASSUME NEW s \in Seq(Contents), NEW c \in Contents
  PROVE  /\ Append(s, c) \in Seq(Contents)
         /\ Range(Append(s, c)) = Range(s) \cup {c}
         /\ IsInjective(s) /\ c \notin Range(s) => IsInjective(Append(s, c))
  <1> DEFINE t == Append(s, c)
  <1>1. /\ t \in Seq(Contents) /\ Len(t) = Len(s) + 1
        /\ \A k \in 1 .. Len(s) : t[k] = s[k]
        /\ t[Len(s) + 1] = c
    BY AppendProperties
  <1>2. Len(s) \in Nat /\ DOMAIN s = 1 .. Len(s) /\ DOMAIN t = 1 .. Len(s) + 1
    BY <1>1, LenProperties
  <1> HIDE DEF t
  <1>3. Range(t) = Range(s) \cup {c}
    <2>1. \A x : x \in Range(t) => x \in Range(s) \cup {c}
      BY <1>1, <1>2 DEF Range
    <2>2. \A x : x \in Range(s) \cup {c} => x \in Range(t)
      <3> SUFFICES ASSUME NEW x \in Range(s) \cup {c} PROVE \E k \in DOMAIN t : t[k] = x
        BY DEF Range
      <3>1. CASE x = c
        BY <1>1, <1>2, <3>1
      <3>2. CASE x \in Range(s)
        <4>1. PICK k \in DOMAIN s : s[k] = x
          BY <3>2 DEF Range
        <4>2. k \in DOMAIN t /\ t[k] = x
          BY <1>1, <1>2, <4>1
        <4>3. QED
          BY <4>2
      <3>3. QED
        BY <3>1, <3>2
    <2>3. QED
      BY <2>1, <2>2
  <1>4. ASSUME IsInjective(s), c \notin Range(s) PROVE IsInjective(t)
    <2>1. \A k \in DOMAIN s : s[k] # c
      BY <1>4 DEF Range
    <2> SUFFICES ASSUME NEW a \in DOMAIN t, NEW b \in DOMAIN t, t[a] = t[b] PROVE a = b
      BY DEF IsInjective
    <2>2. a \in DOMAIN s \/ a = Len(s) + 1
      BY <1>2
    <2>3. b \in DOMAIN s \/ b = Len(s) + 1
      BY <1>2
    <2>4. \A k \in DOMAIN s : t[k] = s[k]
      BY <1>1, <1>2
    <2>5. QED
      BY <1>1, <1>4, <2>1, <2>2, <2>3, <2>4 DEF IsInjective
  <1>5. QED
    BY <1>1, <1>3, <1>4 DEF t

-----------------------------------------------------------------------------
(* Steps that neither finish nor claim an acquisition, nor administer.     *)

\* A row keeps what acquisition gave it; only processing moves its status.
Tame(i) ==
    /\ item'[i].stage = item[i].stage /\ item'[i].content = item[i].content
    /\ item'[i].source = item[i].source /\ item'[i].manifest = item[i].manifest
    /\ item'[i].class = item[i].class /\ item'[i].tries = item[i].tries
    /\ item'[i].status = "ABSENT" <=> item[i].status = "ABSENT"
    /\ lost = 0 =>
         \/ item'[i].status = item[i].status /\ item'[i].final = item[i].final
         \/ /\ item[i].stage = "PROCESSING"
            /\ item'[i].status \in {"EXTRACTING", "EMBEDDED", "FAILED"}

SameLocal(w) ==
    pc'[w] = pc[w] /\ job'[w] = job[w] /\ verdict'[w] = verdict[w] /\ seen'[w] = seen[w]

\* Worker w takes a step of its own to a state that fits.
Moves(w) ==
    /\ Fit(w)'
    /\ New(w)'
    /\ \A v \in Workers, p \in Pages : v # w /\ HoldsPage(w, p)' => ~HoldsPage(v, p)
    /\ lost = 0 => Holds(w)' /\ Stays(w)'
    /\ pc'[w] \in Acquiring => pc[w] \in Acquiring /\ job'[w] = job[w]

\* A worker that goes back to the top of the loop holds nothing.
LEMMA IdleMoves ==
  ASSUME NEW w \in Workers, pc'[w] \in {"acq", "proc"}
  PROVE  Moves(w)
  BY DEF Moves, Fit, New, HoldsPage, Holds, Stays, Acquiring, Processing

\* Processing gives the acquisition worker nothing back, nor does it
\* reclassify what a refresh found.
LEMMA TameDone ==
  ASSUME NEW i \in Items, Tame(i), lost = 0, Done(item[i])
  PROVE  Done(item'[i])
  BY DEF Tame, Done

LEMMA TameRowFit ==
  ASSUME NEW i \in Items, Tame(i), lost = 0, RowFit(i), UNCHANGED <<runType, budget>>
  PROVE  RowFit(i)'
  BY DEF Tame, RowFit, RowShape, Skipped

\* A step that leaves acquisition, the runs and the source alone, and moves
\* one worker to a state that fits, keeps the invariant.
LEMMA TameStep ==
  ASSUME IInv, TypeOK', NEW w,
         UNCHANGED <<runType, runStatus, versions, refresh, srcVersion, manVersion, budget>>,
         \A i \in Items : Tame(i),
         \A v \in Workers \ {w} : SameLocal(v),
         w \in Workers => Moves(w),
         lost' = 0 => lost = 0
  PROVE  IInv'
  <1>1. ASSUME NEW v \in Workers, v # w PROVE Fit(v)' /\ New(v)' /\ (lost = 0 => Holds(v)' /\ Stays(v)')
    <2>1. SameLocal(v)
      BY <1>1
    <2>2. Fit(v)'
      BY <2>1 DEF IInv, Sound, WorkersFit, Fit, Tame, SameLocal
    <2>3. New(v)'
      BY <2>1 DEF IInv, Sound, Novel, New, SameLocal
    <2>4. ASSUME lost = 0 PROVE Holds(v)'
      <3>1. Holds(v) /\ Fit(v)
        BY <2>4 DEF IInv, Faultless, SoleHolder, Sound, WorkersFit
      <3>2. pc[v] \in Acquiring \cup Processing => Tame(job[v])
        BY <3>1 DEF Fit
      <3>3. QED
        BY <2>1, <2>4, <3>1, <3>2 DEF Holds, SameLocal, Tame
    <2>5. ASSUME lost = 0 PROVE Stays(v)'
      <3>1. Stays(v) /\ Fit(v)
        BY <2>5 DEF IInv, Faultless, TotalsStay, Sound, WorkersFit
      <3>2. pc[v] = "commit" => Tame(job[v])
        BY <3>1 DEF Fit, Acquiring
      <3>3. \A i \in Items : Done(item[i]) => Done(item'[i])
        BY <2>5, TameDone
      <3>4. QED
        BY <2>1, <3>1, <3>2, <3>3 DEF Stays, SameLocal, Tame, Exhausted
    <2>6. QED
      BY <2>2, <2>3, <2>4, <2>5
  <1>2. WorkersFit' /\ Novel'
    BY <1>1 DEF WorkersFit, Novel, Moves
  <1>3. RunsFit'
    BY DEF IInv, Sound, RunsFit, Tame
  <1>4. Pinned'
    BY DEF IInv, Sound, Pinned, Tame
  <1>5. PageLockExclusive'
    <2> SUFFICES ASSUME NEW p \in Pages, NEW u \in Workers, NEW v \in Workers,
                        HoldsPage(u, p)', HoldsPage(v, p)', u # v
                 PROVE  FALSE
      BY DEF PageLockExclusive
    <2>1. \A x \in Workers : x # w /\ HoldsPage(x, p)' => HoldsPage(x, p)
      BY DEF HoldsPage, SameLocal
    <2>2. CASE u # w /\ v # w
      BY <2>1, <2>2 DEF IInv, Sound, PageLockExclusive
    <2>3. CASE u = w
      BY <2>1, <2>3 DEF Moves
    <2>4. CASE v = w
      BY <2>1, <2>4 DEF Moves
    <2>5. QED
      BY <2>2, <2>3, <2>4
  <1>6. ContentStored' /\ OneItemPerVersion'
    BY DEF IInv, Sound, ContentStored, OneItemPerVersion, Tame
  <1>7. ASSUME lost = 0 PROVE Faultless'
    <2>1. SoleHolder'
      <3>1. \A v \in Workers : Holds(v)'
        BY <1>1, <1>7 DEF Moves
      <3>2. \A v \in Workers : pc'[v] \in Acquiring => pc[v] \in Acquiring /\ job'[v] = job[v]
        BY DEF Moves, SameLocal
      <3>3. QED
        BY <1>7, <3>1, <3>2 DEF SoleHolder, IInv, Faultless
    <2>2. RowsFit'
      BY <1>7, TameRowFit DEF RowsFit, IInv, Faultless
    <2>3. TotalsStay'
      BY <1>1, <1>7 DEF TotalsStay, Moves
    <2>4. TerminalDone' /\ Drained'
      <3>1. \A i \in Items : Done(item[i]) => Done(item'[i])
        BY <1>7, TameDone
      <3>2. QED
        BY <1>7, <3>1 DEF IInv, Faultless, TerminalDone, Drained, NewestRefresh
    <2>5. QED
      BY <2>1, <2>2, <2>3, <2>4 DEF Faultless
  <1>8. QED
    BY <1>2, <1>3, <1>4, <1>5, <1>6, <1>7 DEF IInv, Sound

LEMMA UntouchedTame ==
  ASSUME UNCHANGED item
  PROVE  \A i \in Items : Tame(i)
  BY DEF Tame

\* A worker's own step that commits nothing.
LEMMA QuietStep ==
  ASSUME IInv, NEW w \in Workers,
         UNCHANGED <<item, runType, runStatus, versions, refresh, srcVersion, authVersion,
                     manVersion, edits, budget>>,
         lost' \in Nat /\ (lost' = 0 => lost = 0), crashes' \in Nat,
         pc' \in [Workers -> Steps], job' \in [Workers -> Items \cup {None}],
         verdict' \in [Workers -> Verdicts],
         seen' \in [Workers -> [content : Contents \cup {None}, previous : Contents \cup {None},
                                run : RunStatuses]],
         \A v \in Workers \ {w} : SameLocal(v),
         Moves(w)
  PROVE  IInv'
  <1>1. TypeOK'
    BY DEF IInv, Sound, TypeOK
  <1>2. QED
    BY <1>1, UntouchedTame, TameStep

\* The attempt is over.
LEMMA OverLocal ==
  ASSUME IInv, NEW w \in Workers, Over(w)
  PROVE  /\ pc' \in [Workers -> Steps] /\ job' \in [Workers -> Items \cup {None}]
         /\ verdict' \in [Workers -> Verdicts]
         /\ seen' \in [Workers -> [content : Contents \cup {None}, previous : Contents \cup {None},
                                   run : RunStatuses]]
         /\ \A v \in Workers \ {w} : SameLocal(v)
         /\ pc'[w] = "acq" /\ job'[w] = None
  <1> USE DEF IInv, Sound, TypeOK, Over, Goto
  <1>1. pc' \in [Workers -> Steps] /\ pc'[w] = "acq"
    BY DEF Steps
  <1>2. job' \in [Workers -> Items \cup {None}] /\ job'[w] = None
    OBVIOUS
  <1>3. verdict' \in [Workers -> Verdicts]
    BY DEF Verdicts
  <1>4. Unread \in [content : Contents \cup {None}, previous : Contents \cup {None}, run : RunStatuses]
    BY DEF Unread, RunStatuses
  <1>5. seen' \in [Workers -> [content : Contents \cup {None}, previous : Contents \cup {None},
                               run : RunStatuses]]
    BY <1>4
  <1>6. \A v \in Workers \ {w} : SameLocal(v)
    BY DEF SameLocal
  <1>7. QED
    BY <1>1, <1>2, <1>3, <1>5, <1>6

\* A worker goes to a step with a verdict, and keeps its item and what it read.
LEMMA GotoLocal ==
  ASSUME IInv, NEW w \in Workers, NEW s \in Steps, NEW x \in Verdicts,
         Goto(w, s), verdict' = [verdict EXCEPT ![w] = x], UNCHANGED <<job, seen>>
  PROVE  /\ pc' \in [Workers -> Steps] /\ job' \in [Workers -> Items \cup {None}]
         /\ verdict' \in [Workers -> Verdicts]
         /\ seen' \in [Workers -> [content : Contents \cup {None}, previous : Contents \cup {None},
                                   run : RunStatuses]]
         /\ \A v \in Workers \ {w} : SameLocal(v)
         /\ pc'[w] = s /\ verdict'[w] = x /\ job'[w] = job[w] /\ seen'[w] = seen[w]
  BY DEF IInv, Sound, TypeOK, Goto, SameLocal

\* A process that dies drops its item where it is.
LEMMA CrashIInv == ASSUME IInv, NEW w \in Workers, Crash(w) PROVE IInv'
  <1>1. /\ UNCHANGED <<item, runType, runStatus, versions, refresh, srcVersion, authVersion,
                       manVersion, edits, budget, lost>>
        /\ crashes' \in Nat /\ lost \in Nat
    BY DEF Crash, admin, IInv, Sound, TypeOK
  <1>2. Over(w)
    BY DEF Crash
  <1>3. Moves(w)
    BY <1>2, OverLocal, IdleMoves
  <1>4. QED
    BY <1>1, <1>2, <1>3, OverLocal, QuietStep

\* Nothing to claim: on to the other worker of the loop.
LEMMA NothingIInv ==
  ASSUME IInv, NEW w \in Workers, NoAcquisition(w) \/ NoProcessing(w)
  PROVE  IInv'
  <1>1. /\ UNCHANGED <<item, runType, runStatus, versions, refresh, srcVersion, authVersion,
                       manVersion, edits, budget, lost, crashes, job, verdict, seen>>
        /\ \E s \in {"acq", "proc"} : pc' = [pc EXCEPT ![w] = s]
    BY DEF NoAcquisition, NoProcessing, Goto, admin, faults
  <1>2. PICK s \in {"acq", "proc"} : pc' = [pc EXCEPT ![w] = s]
    BY <1>1
  <1>3. /\ pc' \in [Workers -> Steps] /\ pc'[w] \in {"acq", "proc"}
        /\ \A v \in Workers \ {w} : SameLocal(v)
    BY <1>1, <1>2 DEF IInv, Sound, TypeOK, Steps, SameLocal
  <1>4. Moves(w)
    BY <1>3, IdleMoves
  <1>5. QED
    <2>1. /\ job' \in [Workers -> Items \cup {None}] /\ verdict' \in [Workers -> Verdicts]
          /\ seen' \in [Workers -> [content : Contents \cup {None}, previous : Contents \cup {None},
                                    run : RunStatuses]]
          /\ lost' \in Nat /\ crashes' \in Nat
      BY <1>1 DEF IInv, Sound, TypeOK
    <2>2. QED
      BY <1>1, <1>3, <1>4, <2>1, QuietStep

\* _load: snapshot of the latest checksum, and the permission gate.
LEMMA LoadIInv == ASSUME IInv, NEW w \in Workers, Load(w) PROVE IInv'
  <1>1. /\ UNCHANGED <<item, runType, runStatus, versions, refresh, srcVersion, authVersion,
                       manVersion, edits, budget, lost, crashes, job>>
        /\ pc[w] = "load"
    BY DEF Load, admin, faults
  <1>2. job[w] \in Items /\ Fit(w) /\ (lost = 0 => Holds(w))
    BY <1>1 DEF IInv, Sound, WorkersFit, Fit, Faultless, SoleHolder, Acquiring
  <1>3. Latest(PageOf(job[w])) \in Contents \cup {None}
    <2>1. versions[PageOf(job[w])] \in Seq(Contents)
      BY <1>2, ItemParts DEF IInv, Sound, TypeOK
    <2>2. QED
      BY <2>1, ElementOfSeq, EmptySeq DEF Latest
  <1>4. /\ pc' \in [Workers -> Steps] /\ pc'[w] \in {"fetch", "begin"}
        /\ verdict' \in [Workers -> Verdicts]
        /\ pc'[w] = "begin" => verdict'[w] = "blocked"
    <2>1. pc \in [Workers -> Steps] /\ verdict \in [Workers -> Verdicts]
      BY DEF IInv, Sound, TypeOK
    <2>2. \/ pc' = [pc EXCEPT ![w] = "fetch"] /\ verdict' = verdict
          \/ pc' = [pc EXCEPT ![w] = "begin"] /\ verdict' = [verdict EXCEPT ![w] = "blocked"]
      BY DEF Load, Goto
    <2>3. QED
      BY <2>1, <2>2 DEF Steps, Verdicts
  <1>5. seen' \in [Workers -> [content : Contents \cup {None}, previous : Contents \cup {None},
                               run : RunStatuses]]
    <2>1. \E q \in Contents \cup {None} : seen' = seen \/ seen' = [seen EXCEPT ![w].previous = q]
      BY <1>1, <1>3 DEF Load
    <2>2. PICK q \in Contents \cup {None} : seen' = seen \/ seen' = [seen EXCEPT ![w].previous = q]
      BY <2>1
    <2>3. seen \in [Workers -> [content : Contents \cup {None}, previous : Contents \cup {None},
                               run : RunStatuses]]
      BY DEF IInv, Sound, TypeOK
    <2>4. [seen[w] EXCEPT !.previous = q] \in [content : Contents \cup {None},
                                              previous : Contents \cup {None}, run : RunStatuses]
      BY <2>3
    <2>5. seen' = seen \/ seen' = [seen EXCEPT ![w] = [seen[w] EXCEPT !.previous = q]]
      BY <2>2, <2>3
    <2>6. QED
      BY <2>3, <2>4, <2>5
  <1>6. \A v \in Workers \ {w} : SameLocal(v)
    BY <1>1 DEF Load, Goto, SameLocal, IInv, Sound, TypeOK
  <1>7. Moves(w)
    BY <1>1, <1>2, <1>4 DEF Moves, Fit, New, HoldsPage, Holds, Stays, Acquiring, Processing, Finishing
  <1>8. QED
    <2>1. job' \in [Workers -> Items \cup {None}] /\ lost' \in Nat /\ crashes' \in Nat
      BY <1>1 DEF IInv, Sound, TypeOK
    <2>2. QED
      BY <1>1, <1>4, <1>5, <1>6, <1>7, <2>1, QuietStep

\* What the site and the scanner make of the attempt.
LEMMA FetchIInv ==
  ASSUME IInv, NEW w \in Workers, NEW x \in Verdicts, NEW c \in budget.contents \cup {None}, Fetch(w, x, c)
  PROVE  IInv'
  <1>1. /\ UNCHANGED <<item, runType, runStatus, versions, refresh, srcVersion, authVersion,
                       manVersion, edits, budget, lost, crashes, job>>
        /\ pc[w] = "fetch" /\ (x = "complete" <=> c # None)
        /\ x \in {"complete", "infected", "fatal", "retry", "removed", "redirected"}
        /\ pc' = [pc EXCEPT ![w] = "begin"] /\ verdict' = [verdict EXCEPT ![w] = x]
        /\ seen' = [seen EXCEPT ![w].content = c]
    BY DEF Fetch, Goto, Outcomes, admin, faults
  <1>2. job[w] \in Items /\ Fit(w) /\ (lost = 0 => Holds(w))
    BY <1>1 DEF IInv, Sound, WorkersFit, Fit, Faultless, SoleHolder, Acquiring
  <1>3. c \in Contents \cup {None}
    BY IngestionAssumption DEF IInv, Sound, TypeOK
  <1>4. /\ pc' \in [Workers -> Steps] /\ pc'[w] = "begin"
        /\ verdict' \in [Workers -> Verdicts] /\ verdict'[w] = x
    BY <1>1 DEF IInv, Sound, TypeOK, Steps
  <1>5. /\ seen' \in [Workers -> [content : Contents \cup {None}, previous : Contents \cup {None},
                                  run : RunStatuses]]
        /\ seen'[w].content = c
    BY <1>1, <1>3 DEF IInv, Sound, TypeOK
  <1>6. \A v \in Workers \ {w} : SameLocal(v)
    BY <1>1 DEF SameLocal, IInv, Sound, TypeOK
  <1>7. Moves(w)
    BY <1>1, <1>2, <1>3, <1>4, <1>5
       DEF Moves, Fit, New, HoldsPage, Holds, Stays, Acquiring, Processing, Finishing
  <1>8. QED
    <2>1. job' \in [Workers -> Items \cup {None}] /\ lost' \in Nat /\ crashes' \in Nat
      BY <1>1 DEF IInv, Sound, TypeOK
    <2>2. QED
      BY <1>1, <1>4, <1>5, <1>6, <1>7, <2>1, QuietStep

\* With nothing pending, a row that fits needs no acquisition.
LEMMA NotPendingDone ==
  ASSUME NEW x \in Rows, RowShape(x), ~Pending(x)
  PROVE  Done(x)
  BY DEF RowShape, Pending, Settled, Done, Rows, Skipped

\* The totals of _refresh_run.
LEMMA VerdictOfTotals ==
  ASSUME NEW table, NEW r
  PROVE  /\ RunVerdict(table, r) \in Terminal \cup {"RUNNING"}
         /\ RunVerdict(table, r) \in Terminal => \A p \in Pages : ~Pending(table[<<r, p>>])
  BY DEF RunVerdict, Among, Terminal

\* The finishing transaction updates its item and reads the totals.
LEMMA BeginIInv == ASSUME IInv, NEW w \in Workers, Begin(w) PROVE IInv'
  <1> DEFINE i == job[w]
             x == Resolved(w)
             table == [item EXCEPT ![i] = Finished(w, x)]
             t == RunVerdict(table, RunOf(i))
  <1>1. /\ UNCHANGED <<item, runType, runStatus, versions, refresh, srcVersion, authVersion,
                       manVersion, edits, budget, lost, crashes, job>>
        /\ pc[w] = "begin" /\ (verdict[w] = "complete" => ~PageLocked(PageOf(i)))
        /\ pc' = [pc EXCEPT ![w] = "commit"] /\ verdict' = [verdict EXCEPT ![w] = x]
        /\ seen' = [seen EXCEPT ![w].run = t]
    BY DEF Begin, Goto, admin, faults
  <1>2. i \in Items /\ Fit(w) /\ (lost = 0 => Holds(w))
    BY <1>1 DEF IInv, Sound, WorkersFit, Fit, Faultless, SoleHolder, Acquiring
  <1>3. /\ verdict[w] \in Finishing /\ x \in Finishing \cup {"duplicate"}
        /\ x \in {"complete", "duplicate"} => verdict[w] = "complete" /\ seen[w].content \in Contents
        /\ x = "complete" => seen[w].content \notin Range(versions[PageOf(i)])
    BY <1>1, <1>2 DEF Fit, Resolved, Finishing, Duplicate
  <1>4. t \in Terminal \cup {"RUNNING"} /\ (t \in Terminal => \A p \in Pages : ~Pending(table[<<RunOf(i), p>>]))
    BY VerdictOfTotals
  <1>5. ASSUME lost = 0, t \in Terminal
        PROVE  /\ \A j \in Items : RunOf(j) = RunOf(i) /\ j # i => Done(item[j])
               /\ x = "retry" => Exhausted(item[i].tries)
    <2>1. ASSUME NEW j \in Items, RunOf(j) = RunOf(i), j # i PROVE Done(item[j])
      <3>1. j = <<RunOf(i), PageOf(j)>> /\ PageOf(j) \in Pages
        BY <2>1, ItemParts
      <3>2. ~Pending(table[j])
        BY <1>4, <1>5, <3>1
      <3>3. table[j] = item[j]
        BY <2>1 DEF IInv, Sound, TypeOK
      <3>4. RowShape(item[j]) /\ item[j] \in Rows
        BY <1>5 DEF IInv, Sound, TypeOK, Faultless, RowsFit, RowFit
      <3>5. QED
        BY <3>2, <3>3, <3>4, NotPendingDone
    <2>2. ASSUME x = "retry" PROVE Exhausted(item[i].tries)
      <3>1. i = <<RunOf(i), PageOf(i)>> /\ PageOf(i) \in Pages
        BY <1>2, ItemParts
      <3>2. ~Pending(table[i])
        BY <1>4, <1>5, <3>1
      <3>3. table[i] = Finished(w, "retry")
        BY <1>2, <2>2 DEF IInv, Sound, TypeOK
      <3>4. item[i] \in Rows
        BY <1>2 DEF IInv, Sound, TypeOK
      <3>5. Finished(w, "retry").status = "FAILED" /\ Finished(w, "retry").final = Exhausted(item[i].tries)
        BY <3>4 DEF Finished, Rows
      <3>6. QED
        BY <3>2, <3>3, <3>5 DEF Pending
    <2>3. QED
      BY <2>1, <2>2
  <1> HIDE DEF t, table, x
  <1>6. /\ pc' \in [Workers -> Steps] /\ pc'[w] = "commit"
        /\ verdict' \in [Workers -> Verdicts] /\ verdict'[w] = x
    BY <1>1, <1>3 DEF IInv, Sound, TypeOK, Steps, Verdicts, Finishing
  <1>7. /\ seen' \in [Workers -> [content : Contents \cup {None}, previous : Contents \cup {None},
                                  run : RunStatuses]]
        /\ seen'[w].content = seen[w].content /\ seen'[w].run = t
    <2>1. t \in RunStatuses /\ t # "ABSENT"
      BY <1>4 DEF RunStatuses, Terminal
    <2>2. QED
      BY <1>1, <2>1 DEF IInv, Sound, TypeOK
  <1>8. \A v \in Workers \ {w} : SameLocal(v)
    BY <1>1 DEF SameLocal, IInv, Sound, TypeOK
  <1>9. Moves(w)
    <2>1. Fit(w)'
      BY <1>1, <1>2, <1>3, <1>4, <1>6, <1>7 DEF Fit, Acquiring, Processing, Finishing, Terminal
    <2>2. New(w)'
      BY <1>1, <1>3, <1>6, <1>7 DEF New
    <2>3. ASSUME NEW v \in Workers, NEW p \in Pages, v # w, HoldsPage(w, p)' PROVE ~HoldsPage(v, p)
      <3>1. p = PageOf(i) /\ x \in {"complete", "duplicate"}
        BY <1>1, <1>6, <2>3 DEF HoldsPage
      <3>2. ~PageLocked(p)
        BY <1>1, <1>3, <3>1
      <3>3. QED
        BY <3>2 DEF PageLocked, HoldsPage
    <2>4. ASSUME lost = 0 PROVE Holds(w)'
      BY <1>1, <1>2, <1>6, <2>4 DEF Holds, Acquiring, Processing
    <2>5. ASSUME lost = 0 PROVE Stays(w)'
      BY <1>1, <1>5, <1>6, <1>7, <2>5 DEF Stays, Exhausted
    <2>6. QED
      BY <1>1, <2>1, <2>2, <2>3, <2>4, <2>5 DEF Moves, Acquiring
  <1>10. QED
    <2>1. job' \in [Workers -> Items \cup {None}] /\ lost' \in Nat /\ crashes' \in Nat
      BY <1>1 DEF IInv, Sound, TypeOK
    <2>2. QED
      BY <1>1, <1>6, <1>7, <1>8, <1>9, <2>1, QuietStep

\* The finishing transaction rolls back, and the worker charges a failure.
LEMMA AbortIInv == ASSUME IInv, NEW w \in Workers, Abort(w) PROVE IInv'
  <1>1. /\ UNCHANGED <<item, runType, runStatus, versions, refresh, srcVersion, authVersion,
                       manVersion, edits, budget, lost, crashes>>
        /\ pc[w] = "commit"
        /\ Goto(w, "begin") /\ verdict' = [verdict EXCEPT ![w] = "retry"] /\ UNCHANGED <<job, seen>>
    BY DEF Abort, Caught, admin, faults
  <1>2. "begin" \in Steps /\ "retry" \in Verdicts
    BY DEF Steps, Verdicts
  <1>3. job[w] \in Items /\ Fit(w) /\ (lost = 0 => Holds(w))
    BY <1>1 DEF IInv, Sound, WorkersFit, Fit, Faultless, SoleHolder, Acquiring
  <1>4. pc'[w] = "begin" /\ verdict'[w] = "retry" /\ job'[w] = job[w]
    BY <1>1, <1>2, GotoLocal
  <1>5. Moves(w)
    BY <1>1, <1>3, <1>4 DEF Moves, Fit, New, HoldsPage, Holds, Stays, Acquiring, Processing, Finishing
  <1>6. QED
    <2>1. lost' \in Nat /\ crashes' \in Nat
      BY <1>1 DEF IInv, Sound, TypeOK
    <2>2. QED
      BY <1>1, <1>2, <1>5, <2>1, GotoLocal, QuietStep

-----------------------------------------------------------------------------
(* The processing worker.                                                  *)

\* What a processing transaction makes of row x: y.
Processed(x, y) ==
    /\ y.stage = x.stage /\ y.content = x.content /\ y.source = x.source
    /\ y.manifest = x.manifest /\ y.class = x.class /\ y.tries = x.tries
    /\ x.status # "ABSENT" /\ y.status # "ABSENT"
    /\ \/ y.status = x.status /\ y.final = x.final
       \/ y.status \in {"EXTRACTING", "EMBEDDED", "FAILED"} /\ (lost = 0 => x.stage = "PROCESSING")

\* What the transactions of the worker write to a row.
LEMMA PersistedFields ==
  ASSUME NEW x \in Rows, x.status # "ABSENT", lost = 0 => x.stage = "PROCESSING",
         NEW p \in Processings, NEW s \in {"EXTRACTING", "EMBEDDED", "FAILED"}, NEW f \in BOOLEAN,
         NEW y, y = [x EXCEPT !.chunked = TRUE, !.processing = p, !.status = s, !.final = f]
  PROVE  y \in Rows /\ Processed(x, y)
  <1> DEFINE u == [x EXCEPT !.chunked = TRUE, !.processing = p]
  <1>1. /\ u \in Rows /\ u.stage = x.stage /\ u.content = x.content /\ u.source = x.source
        /\ u.manifest = x.manifest /\ u.class = x.class /\ u.tries = x.tries
    BY DEF Rows
  <1>2. y = [u EXCEPT !.status = s, !.final = f]
    BY DEF Rows
  <1> HIDE DEF u
  <1>3. y \in Rows
    BY <1>1, <1>2 DEF Rows, Statuses
  <1>4. QED
    BY <1>1, <1>2, <1>3 DEF Rows, Processed

LEMMA FailedFields ==
  ASSUME NEW x \in Rows, x.status # "ABSENT", lost = 0 => x.stage = "PROCESSING",
         NEW p \in Processings, NEW f \in BOOLEAN,
         NEW y, y = [x EXCEPT !.status = "FAILED", !.due = FALSE, !.final = f, !.processing = p]
  PROVE  y \in Rows /\ Processed(x, y)
  <1> DEFINE u == [x EXCEPT !.status = "FAILED", !.due = FALSE]
  <1>1. /\ u \in Rows /\ u.stage = x.stage /\ u.content = x.content /\ u.source = x.source
        /\ u.manifest = x.manifest /\ u.class = x.class /\ u.tries = x.tries
        /\ u.status = "FAILED"
    BY DEF Rows, Statuses
  <1>2. y = [u EXCEPT !.final = f, !.processing = p]
    BY DEF Rows
  <1> HIDE DEF u
  <1>3. y \in Rows
    BY <1>1, <1>2 DEF Rows
  <1>4. QED
    BY <1>1, <1>2, <1>3 DEF Rows, Processed

\* A processing transaction commits.
LEMMA RowStep ==
  ASSUME IInv, NEW w \in Workers, NEW i \in Items, NEW y \in Rows,
         item' = [item EXCEPT ![i] = y], Processed(item[i], y),
         UNCHANGED <<runType, runStatus, versions, refresh, srcVersion, authVersion,
                     manVersion, edits, budget>>,
         lost' \in Nat /\ (lost' = 0 => lost = 0), crashes' \in Nat,
         pc' \in [Workers -> Steps], job' \in [Workers -> Items \cup {None}],
         verdict' \in [Workers -> Verdicts],
         seen' \in [Workers -> [content : Contents \cup {None}, previous : Contents \cup {None},
                                run : RunStatuses]],
         \A v \in Workers \ {w} : SameLocal(v),
         Moves(w) \/ SameLocal(w)
  PROVE  IInv'
  <1>1. item' \in [Items -> Rows] /\ \A j \in Items : item'[j] = IF j = i THEN y ELSE item[j]
    BY DEF IInv, Sound, TypeOK
  <1>2. TypeOK'
    BY <1>1 DEF IInv, Sound, TypeOK
  <1>3. ASSUME NEW j \in Items PROVE Tame(j)
    BY <1>1 DEF Tame, Processed
  <1>4. CASE Moves(w)
    BY <1>2, <1>3, <1>4, TameStep
  <1>5. CASE SameLocal(w)
    <2>1. PICK u : u \notin Workers
      BY NoSetContainsEverything
    <2>2. \A v \in Workers \ {u} : SameLocal(v)
      BY <1>5
    <2>3. QED
      BY <1>2, <1>3, <2>1, <2>2, TameStep
  <1>6. QED
    BY <1>4, <1>5

\* A processing worker on an item in stage PROCESSING fits.
LEMMA ProcessingMoves ==
  ASSUME NEW w \in Workers, pc'[w] \in Processing, job'[w] \in Items,
         item'[job'[w]].status # "ABSENT", lost = 0 => item'[job'[w]].stage = "PROCESSING"
  PROVE  Moves(w)
  BY DEF Moves, Fit, New, HoldsPage, Holds, Stays, Acquiring, Processing

\* What a worker knows of the row it processes.
LEMMA AtProcessing ==
  ASSUME IInv, NEW w \in Workers, pc[w] \in Processing
  PROVE  /\ job[w] \in Items /\ item[job[w]] \in Rows /\ item[job[w]].status # "ABSENT"
         /\ lost = 0 => item[job[w]].stage = "PROCESSING"
  BY DEF IInv, Sound, TypeOK, WorkersFit, Fit, Faultless, SoleHolder, Holds

\* claim, _load and _start_processing of the processing worker.
LEMMA ClaimProcessingIInv ==
  ASSUME IInv, NEW w \in Workers, NEW i \in Items, ClaimProcessing(w, i)
  PROVE  IInv'
  <1> DEFINE y == [item[i] EXCEPT !.status = "EXTRACTING", !.ptries = @ + 1]
  <1>1. /\ UNCHANGED <<runType, runStatus, versions, refresh, srcVersion, authVersion,
                       manVersion, edits, budget, lost, crashes, verdict, seen>>
        /\ item' = [item EXCEPT ![i].status = "EXTRACTING", ![i].ptries = @ + 1]
        /\ job' = [job EXCEPT ![w] = i] /\ pc' = [pc EXCEPT ![w] = "pload"]
        /\ item[i].stage = "PROCESSING" /\ item[i].status \in {"ACQUIRED", "FAILED"}
    BY DEF ClaimProcessing, Processable, Goto, admin, faults
  <1>2. item[i] \in Rows
    BY DEF IInv, Sound, TypeOK
  <1>3. item[i].ptries + 1 \in Nat
    BY <1>2 DEF Rows
  <1>4. item' = [item EXCEPT ![i] = y]
    BY <1>1 DEF IInv, Sound, TypeOK
  <1>5. y \in Rows /\ Processed(item[i], y)
    BY <1>1, <1>2, <1>3 DEF Rows, Statuses, Processed
  <1> HIDE DEF y
  <1>6. /\ pc' \in [Workers -> Steps] /\ job' \in [Workers -> Items \cup {None}]
        /\ pc'[w] = "pload" /\ job'[w] = i
        /\ \A v \in Workers \ {w} : SameLocal(v)
    BY <1>1 DEF IInv, Sound, TypeOK, Steps, SameLocal
  <1>7. item'[i] = y
    BY <1>4 DEF IInv, Sound, TypeOK
  <1>8. Moves(w)
    BY <1>1, <1>5, <1>6, <1>7, ProcessingMoves DEF Processed, Processing
  <1>9. /\ verdict' \in [Workers -> Verdicts] /\ lost' \in Nat /\ crashes' \in Nat
        /\ seen' \in [Workers -> [content : Contents \cup {None}, previous : Contents \cup {None},
                                  run : RunStatuses]]
    BY <1>1 DEF IInv, Sound, TypeOK
  <1>10. QED
    BY <1>1, <1>4, <1>5, <1>6, <1>8, <1>9, RowStep

LEMMA LoadProcessingIInv ==
  ASSUME IInv, NEW w \in Workers, LoadProcessing(w)
  PROVE  IInv'
  <1>1. /\ UNCHANGED <<item, runType, runStatus, versions, refresh, srcVersion, authVersion,
                       manVersion, edits, budget, lost, crashes>>
        /\ pc[w] \in Processing
    BY DEF LoadProcessing, admin, faults, Processing
  <1>2. lost' \in Nat /\ crashes' \in Nat
    BY <1>1 DEF IInv, Sound, TypeOK
  <1>3. CASE Over(w)
    BY <1>1, <1>2, <1>3, OverLocal, IdleMoves, QuietStep
  <1>4. CASE ~Over(w)
    <2>1. \E s \in {"start", "pfail"}, x \in {None, "blocked"} :
             Goto(w, s) /\ verdict' = [verdict EXCEPT ![w] = x] /\ UNCHANGED <<job, seen>>
      BY <1>4 DEF LoadProcessing
    <2>2. PICK s \in {"start", "pfail"}, x \in {None, "blocked"} :
             Goto(w, s) /\ verdict' = [verdict EXCEPT ![w] = x] /\ UNCHANGED <<job, seen>>
      BY <2>1
    <2>3. s \in Steps /\ s \in Processing /\ x \in Verdicts
      BY DEF Steps, Processing, Verdicts
    <2>4. pc'[w] = s /\ job'[w] = job[w]
      BY <2>2, <2>3, GotoLocal
    <2>5. Moves(w)
      BY <1>1, <2>3, <2>4, AtProcessing, ProcessingMoves
    <2>6. QED
      BY <1>1, <1>2, <2>2, <2>3, <2>5, GotoLocal, QuietStep
  <1>5. QED
    BY <1>3, <1>4

\* The processing version is started, and parsed, chunked and embedded.
LEMMA StartProcessingIInv ==
  ASSUME IInv, NEW w \in Workers, NEW x \in Verdicts, StartProcessing(w, x)
  PROVE  IInv'
  <1> DEFINE i == job[w]
             y == [item[i] EXCEPT !.processing = "RUNNING"]
  <1>1. /\ UNCHANGED <<runType, runStatus, versions, refresh, srcVersion, authVersion,
                       manVersion, edits, budget, lost, crashes, job, seen>>
        /\ pc[w] \in Processing
        /\ verdict' = [verdict EXCEPT ![w] = x]
        /\ item' = item \/ item' = [item EXCEPT ![i].processing = "RUNNING"]
    BY DEF StartProcessing, admin, faults, Processing
  <1>2. \E s \in {"replay", "persist", "pfail"} : Goto(w, s)
    BY DEF StartProcessing
  <1>3. PICK s \in {"replay", "persist", "pfail"} : Goto(w, s)
    BY <1>2
  <1>4. /\ i \in Items /\ item[i] \in Rows /\ item[i].status # "ABSENT"
        /\ lost = 0 => item[i].stage = "PROCESSING"
    BY <1>1, AtProcessing
  <1>5. s \in Steps /\ s \in Processing
    BY DEF Steps, Processing
  <1>6. pc'[w] = s /\ job'[w] = i
    BY <1>1, <1>3, <1>5, GotoLocal
  <1>7. lost' \in Nat /\ crashes' \in Nat
    BY <1>1 DEF IInv, Sound, TypeOK
  <1>8. CASE item' = item
    <2>1. Moves(w)
      BY <1>4, <1>5, <1>6, <1>8, ProcessingMoves
    <2>2. QED
      BY <1>1, <1>3, <1>5, <1>7, <1>8, <2>1, GotoLocal, QuietStep
  <1>9. CASE item' = [item EXCEPT ![i].processing = "RUNNING"]
    <2>1. item' = [item EXCEPT ![i] = y]
      BY <1>4, <1>9 DEF IInv, Sound, TypeOK
    <2>2. y \in Rows /\ Processed(item[i], y)
      BY <1>4 DEF Rows, Processings, Processed
    <2> HIDE DEF y
    <2>3. item'[i] = y
      BY <1>4, <2>1 DEF IInv, Sound, TypeOK
    <2>4. Moves(w)
      BY <1>4, <1>5, <1>6, <2>2, <2>3, ProcessingMoves DEF Processed
    <2>5. QED
      BY <1>1, <1>3, <1>4, <1>5, <1>7, <2>1, <2>2, <2>4, GotoLocal, RowStep
  <1>10. QED
    BY <1>1, <1>8, <1>9

\* Rows written by the three ends of processing.
LEMMA PersistedRow ==
  ASSUME IInv, NEW w \in Workers, Persisted(w)
  PROVE  \E y \in Rows : item' = [item EXCEPT ![job[w]] = y] /\ Processed(item[job[w]], y)
  <1> DEFINE i == job[w]
             y == [item[i] EXCEPT
                      !.chunked = TRUE,
                      !.processing = IF verdict[w] = "valid" THEN "COMPLETED" ELSE "FAILED",
                      !.status = IF verdict[w] = "valid" THEN "EMBEDDED" ELSE "FAILED",
                      !.final = verdict[w] = "invalid"]
  <1>1. pc[w] \in Processing
    BY DEF Persisted, Processing
  <1>2. /\ i \in Items /\ item[i] \in Rows /\ item[i].status # "ABSENT"
        /\ lost = 0 => item[i].stage = "PROCESSING"
    BY <1>1, AtProcessing
  <1>3. item' = [item EXCEPT ![i] = y]
    BY DEF Persisted
  <1>4. y \in Rows /\ Processed(item[i], y)
    <2> DEFINE v == verdict[w] = "valid"
               p == IF v THEN "COMPLETED" ELSE "FAILED"
               s == IF v THEN "EMBEDDED" ELSE "FAILED"
               f == verdict[w] = "invalid"
    <2>1. /\ p \in Processings /\ s \in Statuses /\ s \in {"EXTRACTING", "EMBEDDED", "FAILED"}
          /\ f \in BOOLEAN
      BY DEF Processings, Statuses
    <2>2. y = [item[i] EXCEPT !.chunked = TRUE, !.processing = p, !.status = s, !.final = f]
      OBVIOUS
    <2> HIDE DEF v, p, s, f, i, y
    <2>3. QED
      BY <1>2, <2>1, <2>2, PersistedFields
  <1>5. QED
    BY <1>3, <1>4

LEMMA ReplayedRow ==
  ASSUME IInv, NEW w \in Workers, Replayed(w)
  PROVE  \E y \in Rows : item' = [item EXCEPT ![job[w]] = y] /\ Processed(item[job[w]], y)
  <1> DEFINE i == job[w]
             y == [item[i] EXCEPT !.status = "EMBEDDED"]
  <1>1. pc[w] \in Processing
    BY DEF Replayed, Processing
  <1>2. /\ i \in Items /\ item[i] \in Rows /\ item[i].status # "ABSENT"
        /\ lost = 0 => item[i].stage = "PROCESSING"
    BY <1>1, AtProcessing
  <1>3. item' = [item EXCEPT ![i] = y]
    BY <1>2 DEF Replayed, IInv, Sound, TypeOK
  <1>4. y \in Rows /\ Processed(item[i], y)
    BY <1>2 DEF Rows, Statuses, Processed
  <1>5. QED
    BY <1>3, <1>4

LEMMA FailedRowWritten ==
  ASSUME IInv, NEW w \in Workers, FailProcessing(w)
  PROVE  \E y \in Rows : item' = [item EXCEPT ![job[w]] = y] /\ Processed(item[job[w]], y)
  <1> DEFINE i == job[w]
  <1>1. pc[w] \in Processing /\ item' = [item EXCEPT ![i] = FailedRow(w)]
    BY DEF FailProcessing, Processing
  <1>2. /\ i \in Items /\ item[i] \in Rows /\ item[i].status # "ABSENT"
        /\ lost = 0 => item[i].stage = "PROCESSING"
    BY <1>1, AtProcessing
  <1>3. (verdict[w] \in {"fatal", "blocked"} \/ Exhausted(item[i].ptries)) \in BOOLEAN
    BY DEF Exhausted
  <1>4. FailedRow(w) \in Rows /\ Processed(item[i], FailedRow(w))
    <2> DEFINE f == verdict[w] \in {"fatal", "blocked"} \/ Exhausted(item[i].ptries)
               p == IF verdict[w] = "blocked" THEN item[i].processing ELSE "FAILED"
    <2>1. p \in Processings
      BY <1>2 DEF Rows, Processings
    <2>2. FailedRow(w) = [item[i] EXCEPT !.status = "FAILED", !.due = FALSE, !.final = f,
                                         !.processing = p]
      BY <1>2 DEF FailedRow, Rows
    <2> HIDE DEF f, p, i
    <2>3. QED
      BY <1>2, <1>3, <2>1, <2>2, FailedFields DEF f
  <1>5. QED
    BY <1>1, <1>4

\* A processing transaction commits and the attempt is over.
LEMMA ProcessedIInv ==
  ASSUME IInv, NEW w \in Workers, Persist(w) \/ Replay(w) \/ FailProcessing(w)
  PROVE  IInv'
  <1>1. \E y \in Rows : item' = [item EXCEPT ![job[w]] = y] /\ Processed(item[job[w]], y)
    BY PersistedRow, ReplayedRow, FailedRowWritten DEF Persist, Replay
  <1>2. PICK y \in Rows : item' = [item EXCEPT ![job[w]] = y] /\ Processed(item[job[w]], y)
    BY <1>1
  <1>3. /\ UNCHANGED <<runType, runStatus, versions, refresh, srcVersion, authVersion,
                       manVersion, edits, budget, lost, crashes>>
        /\ Over(w) /\ pc[w] \in Processing
    BY DEF Persist, Replay, FailProcessing, Persisted, Replayed, admin, faults, Processing
  <1>4. lost' \in Nat /\ crashes' \in Nat /\ job[w] \in Items
    BY <1>3, AtProcessing DEF IInv, Sound, TypeOK
  <1>5. Moves(w)
    BY <1>3, OverLocal, IdleMoves
  <1>6. QED
    BY <1>2, <1>3, <1>4, <1>5, OverLocal, RowStep

\* It rolls back, or its reply is lost, and the worker charges a failure.
LEMMA CaughtProcessingMoves ==
  ASSUME IInv, NEW w \in Workers, CaughtProcessing(w), pc[w] \in Processing,
         item'[job[w]].status # "ABSENT", lost = 0 => item'[job[w]].stage = "PROCESSING"
  PROVE  Moves(w)
  <1>1. "pfail" \in Steps /\ "retry" \in Verdicts /\ "pfail" \in Processing
    BY DEF Steps, Verdicts, Processing
  <1>2. pc'[w] = "pfail" /\ job'[w] = job[w]
    BY <1>1, GotoLocal DEF CaughtProcessing
  <1>3. job[w] \in Items
    BY AtProcessing
  <1>4. QED
    BY <1>1, <1>2, <1>3, ProcessingMoves

\* The transaction rolls back.
LEMMA PersistAbortsIInv == ASSUME IInv, NEW w \in Workers, PersistAborts(w) PROVE IInv'
  <1>1. /\ UNCHANGED <<item, runType, runStatus, versions, refresh, srcVersion, authVersion,
                       manVersion, edits, budget, lost, crashes>>
        /\ CaughtProcessing(w) /\ pc[w] \in Processing
    BY DEF PersistAborts, admin, faults, Processing
  <1>2. lost' \in Nat /\ crashes' \in Nat
    BY <1>1 DEF IInv, Sound, TypeOK
  <1>3. Moves(w)
    BY <1>1, AtProcessing, CaughtProcessingMoves
  <1>4. "pfail" \in Steps /\ "retry" \in Verdicts
    BY DEF Steps, Verdicts
  <1>5. QED
    BY <1>1, <1>2, <1>3, <1>4, GotoLocal, QuietStep DEF CaughtProcessing

\* The transaction commits and its reply is lost.
LEMMA ProcessingReplyLostIInv ==
  ASSUME IInv, NEW w \in Workers, ProcessingReplyLost(w)
  PROVE  IInv'
  <1>1. /\ UNCHANGED <<runType, runStatus, versions, refresh, srcVersion, authVersion,
                       manVersion, edits, budget, crashes>>
        /\ CaughtProcessing(w) /\ pc[w] \in Processing
        /\ lost' = lost + 1
    BY DEF ProcessingReplyLost, Persisted, Replayed, LoseReply, admin, Processing
  <1>2. lost' \in Nat /\ lost' # 0 /\ crashes' \in Nat
    BY <1>1 DEF IInv, Sound, TypeOK
  <1>3. \E y \in Rows : item' = [item EXCEPT ![job[w]] = y] /\ Processed(item[job[w]], y)
    BY PersistedRow, ReplayedRow DEF ProcessingReplyLost
  <1>4. PICK y \in Rows : item' = [item EXCEPT ![job[w]] = y] /\ Processed(item[job[w]], y)
    BY <1>3
  <1>5. job[w] \in Items /\ (lost = 0 => item[job[w]].stage = "PROCESSING")
    BY <1>1, AtProcessing
  <1>6. item'[job[w]] = y
    BY <1>4, <1>5 DEF IInv, Sound, TypeOK
  <1>7. Moves(w)
    BY <1>1, <1>4, <1>5, <1>6, CaughtProcessingMoves DEF Processed
  <1>8. "pfail" \in Steps /\ "retry" \in Verdicts
    BY DEF Steps, Verdicts
  <1>9. QED
    BY <1>1, <1>2, <1>4, <1>5, <1>7, <1>8, GotoLocal, RowStep DEF CaughtProcessing

\* next_attempt_at passes.
LEMMA BackoffElapsesIInv ==
  ASSUME IInv, NEW i \in Items, BackoffElapses(i)
  PROVE  IInv'
  <1> DEFINE y == [item[i] EXCEPT !.due = TRUE]
  <1>1. /\ UNCHANGED <<runType, runStatus, versions, refresh, srcVersion, authVersion,
                       manVersion, edits, budget, lost, crashes, pc, job, verdict, seen>>
        /\ item[i].status = "FAILED" /\ item' = [item EXCEPT ![i].due = TRUE]
    BY DEF BackoffElapses, admin, local, faults
  <1>2. item[i] \in Rows
    BY DEF IInv, Sound, TypeOK
  <1>3. item' = [item EXCEPT ![i] = y]
    BY <1>1 DEF IInv, Sound, TypeOK
  <1>4. y \in Rows /\ Processed(item[i], y)
    BY <1>1, <1>2 DEF Rows, Processed
  <1> HIDE DEF y
  <1>5. item' \in [Items -> Rows] /\ \A j \in Items : item'[j] = IF j = i THEN y ELSE item[j]
    BY <1>3, <1>4 DEF IInv, Sound, TypeOK
  <1>6. TypeOK'
    BY <1>1, <1>5 DEF IInv, Sound, TypeOK
  <1>7. ASSUME NEW j \in Items PROVE Tame(j)
    BY <1>4, <1>5 DEF Tame, Processed
  <1>8. PICK u : u \notin Workers
    BY NoSetContainsEverything
  <1>9. \A v \in Workers \ {u} : SameLocal(v)
    BY <1>1 DEF SameLocal
  <1>10. QED
    BY <1>1, <1>6, <1>7, <1>8, <1>9, TameStep

-----------------------------------------------------------------------------
(* Administrators, and the claim of an acquisition.                        *)

\* Before the first run there is no item.
LEMMA InitIInv == Init => IInv
  <1> SUFFICES ASSUME Init PROVE IInv
    OBVIOUS
  <1> USE DEF Init
  <1>1. TypeOK
    <2>1. NoRow \in Rows
      BY DEF NoRow, Rows, Statuses, Stages, Processings
    <2>2. Unread \in [content : Contents \cup {None}, previous : Contents \cup {None}, run : RunStatuses]
      BY DEF Unread, RunStatuses
    <2>3. versions \in [Pages -> Seq(Contents)]
      BY EmptySeq
    <2>4. "acq" \in Steps /\ None \in Verdicts /\ "CURRENT" \in Refreshes /\ "ABSENT" \in RunStatuses
      BY DEF Steps, Verdicts, Refreshes, RunStatuses
    <2>5. QED
      BY <2>1, <2>2, <2>3, <2>4 DEF TypeOK
  <1>2. WorkersFit /\ PageLockExclusive /\ Novel
    BY DEF WorkersFit, Fit, PageLockExclusive, HoldsPage, Novel, New, Acquiring, Processing
  <1>3. RunsFit /\ Pinned
    BY ItemParts DEF RunsFit, Pinned, NoRow
  <1>4. ContentStored
    BY DEF ContentStored, NoRow
  <1>5. OneItemPerVersion
    <2>1. \A p \in Pages : IsInjective(versions[p])
      BY DEF IsInjective
    <2>2. QED
      BY <2>1 DEF OneItemPerVersion, NoRow
  <1>6. Faultless
    <2>1. \A i \in Items : RunOf(i) \in Runs /\ item[i] = NoRow
      BY ItemParts
    <2>2. SoleHolder /\ TotalsStay
      BY DEF SoleHolder, Holds, TotalsStay, Stays, Acquiring, Processing
    <2>3. RowsFit
      BY <2>1, IngestionAssumption DEF RowsFit, RowFit, RowShape, NoRow, Skipped
    <2>4. TerminalDone /\ Drained
      BY <2>1 DEF TerminalDone, Drained, Done, NoRow
    <2>5. QED
      BY <2>2, <2>3, <2>4 DEF Faultless
  <1>7. QED
    BY <1>1, <1>2, <1>3, <1>4, <1>5, <1>6 DEF IInv, Sound

\* An edit of the source or of an entry moves a row version, and leaves a
\* refresh that is under way alone.
LEMMA EditIInv ==
  ASSUME IInv,
         \/ \E target \in Refreshes : RefreshLifecycle(target)
         \/ \E approved \in BOOLEAN : AuthorizeAcquisition(approved)
         \/ \E p \in budget.pages : DecideManifest(p)
  PROVE  IInv'
  <1>1. /\ UNCHANGED <<item, runType, runStatus, versions, budget, pc, job, verdict, seen, crashes, lost>>
        /\ edits' \in Nat
        /\ refresh' \in Refreshes
        /\ refresh' = refresh \/ (refresh # "REFRESHING" /\ refresh' # "REFRESHING")
        /\ srcVersion' \in Nat /\ authVersion' \in Nat /\ srcVersion <= srcVersion'
        /\ manVersion' \in [Pages -> Nat] /\ \A p \in Pages : manVersion[p] <= manVersion'[p]
    <2>1. CASE \E target \in Refreshes : RefreshLifecycle(target)
      BY <2>1 DEF RefreshLifecycle, Edit, RefreshTransitions, local, faults, IInv, Sound, TypeOK
    <2>2. CASE \E approved \in BOOLEAN : AuthorizeAcquisition(approved)
      BY <2>2 DEF AuthorizeAcquisition, Edit, local, faults, IInv, Sound, TypeOK
    <2>3. CASE \E p \in budget.pages : DecideManifest(p)
      <3>1. PICK p \in budget.pages : DecideManifest(p)
        BY <2>3
      <3>2. p \in Pages
        BY IngestionAssumption DEF IInv, Sound, TypeOK
      <3>3. /\ manVersion' = [manVersion EXCEPT ![p] = manVersion[p] + 1]
            /\ manVersion[p] \in Nat /\ manVersion[p] + 1 \in Nat
            /\ manVersion[p] <= manVersion[p] + 1
            /\ \A q \in Pages : manVersion[q] \in Nat /\ manVersion[q] <= manVersion[q]
        BY <3>1, <3>2 DEF DecideManifest, IInv, Sound, TypeOK
      <3>4. manVersion' \in [Pages -> Nat] /\ \A q \in Pages : manVersion[q] <= manVersion'[q]
        BY <3>3 DEF IInv, Sound, TypeOK
      <3>5. QED
        BY <3>1, <3>4 DEF DecideManifest, Edit, local, faults, IInv, Sound, TypeOK
    <2>4. QED
      BY <2>1, <2>2, <2>3
  <1>2. TypeOK'
    BY <1>1 DEF IInv, Sound, TypeOK
  <1>3. WorkersFit' /\ RunsFit' /\ PageLockExclusive' /\ Novel' /\ ContentStored' /\ OneItemPerVersion'
    BY <1>1 DEF IInv, Sound, WorkersFit, Fit, RunsFit, PageLockExclusive, HoldsPage, Novel, New,
                ContentStored, OneItemPerVersion
  <1>4. Pinned'
    <2> SUFFICES ASSUME NEW i \in Items
                 PROVE  item[i].source <= srcVersion' /\ item[i].manifest <= manVersion'[PageOf(i)]
      BY <1>1 DEF Pinned
    <2>1. item[i].source \in Nat /\ item[i].manifest \in Nat /\ srcVersion \in Nat
          /\ PageOf(i) \in Pages /\ manVersion[PageOf(i)] \in Nat /\ manVersion'[PageOf(i)] \in Nat
      BY <1>1, ItemParts DEF IInv, Sound, TypeOK, Rows
    <2>2. item[i].source <= srcVersion /\ item[i].manifest <= manVersion[PageOf(i)]
      BY DEF IInv, Sound, Pinned
    <2>3. QED
      BY <1>1, <2>1, <2>2
  <1>5. ASSUME lost = 0 PROVE Faultless'
    <2>1. SoleHolder' /\ RowsFit' /\ TotalsStay' /\ TerminalDone'
      BY <1>1, <1>5 DEF IInv, Faultless, SoleHolder, Holds, RowsFit, RowFit, TotalsStay, Stays,
                        Exhausted, TerminalDone
    <2>2. Drained'
      BY <1>1, <1>5 DEF IInv, Faultless, Drained, NewestRefresh
    <2>3. QED
      BY <2>1, <2>2 DEF Faultless
  <1>6. QED
    BY <1>1, <1>2, <1>3, <1>4, <1>5 DEF IInv, Sound

\* The claim takes an item that nobody else is acquiring.
LEMMA ClaimAcquisitionIInv ==
  ASSUME IInv, NEW w \in Workers, NEW i \in Items, ClaimAcquisition(w, i)
  PROVE  IInv'
  <1> DEFINE y == [item[i] EXCEPT !.status = "ACQUIRING", !.tries = @ + 1]
  <1>1. /\ UNCHANGED <<runType, runStatus, versions, refresh, srcVersion, authVersion,
                       manVersion, edits, budget, lost, crashes, verdict, seen>>
        /\ item' = [item EXCEPT ![i].status = "ACQUIRING", ![i].tries = @ + 1]
        /\ job' = [job EXCEPT ![w] = i] /\ pc' = [pc EXCEPT ![w] = "load"]
        /\ item[i].stage = "ACQUISITION" /\ item[i].status \in {"QUEUED", "FAILED"} /\ ~item[i].final
        /\ pc[w] = "acq"
    BY DEF ClaimAcquisition, Acquirable, Goto, admin, faults
  <1>2. item[i] \in Rows
    BY DEF IInv, Sound, TypeOK
  <1>3. item[i].tries + 1 \in Nat
    BY <1>2 DEF Rows
  <1>4. item' = [item EXCEPT ![i] = y]
    BY <1>1 DEF IInv, Sound, TypeOK
  <1>5. /\ y \in Rows
        /\ y.status = "ACQUIRING" /\ y.stage = item[i].stage /\ y.content = item[i].content
        /\ y.source = item[i].source /\ y.manifest = item[i].manifest /\ y.final = item[i].final
    BY <1>2, <1>3 DEF Rows, Statuses
  <1> HIDE DEF y
  <1>6. item' \in [Items -> Rows] /\ \A j \in Items : item'[j] = IF j = i THEN y ELSE item[j]
    BY <1>4, <1>5 DEF IInv, Sound, TypeOK
  <1>7. /\ pc' \in [Workers -> Steps] /\ job' \in [Workers -> Items \cup {None}]
        /\ pc'[w] = "load" /\ job'[w] = i
        /\ \A v \in Workers : v # w => pc'[v] = pc[v] /\ job'[v] = job[v]
    BY <1>1 DEF IInv, Sound, TypeOK, Steps
  <1>8. TypeOK'
    BY <1>1, <1>6, <1>7 DEF IInv, Sound, TypeOK
  <1>9. WorkersFit'
    <2> SUFFICES ASSUME NEW v \in Workers PROVE Fit(v)'
      BY DEF WorkersFit
    <2>1. CASE v = w
      BY <1>5, <1>6, <1>7, <2>1 DEF Fit
    <2>2. CASE v # w
      BY <1>1, <1>5, <1>6, <1>7, <2>2 DEF Fit, IInv, Sound, WorkersFit
    <2>3. QED
      BY <2>1, <2>2
  <1>10. RunsFit' /\ Pinned'
    BY <1>1, <1>5, <1>6 DEF IInv, Sound, RunsFit, Pinned
  <1>11. PageLockExclusive' /\ Novel'
    BY <1>1, <1>7 DEF IInv, Sound, PageLockExclusive, HoldsPage, Novel, New
  <1>12. ContentStored' /\ OneItemPerVersion'
    BY <1>1, <1>5, <1>6 DEF IInv, Sound, ContentStored, OneItemPerVersion
  <1>13. ASSUME lost = 0 PROVE Faultless'
    <2>1. \A v \in Workers : pc[v] \in Acquiring \cup Processing => job[v] # i
      BY <1>1, <1>13 DEF IInv, Faultless, SoleHolder, Holds
    <2>2. ASSUME NEW v \in Workers PROVE Holds(v)' /\ Stays(v)'
      <3>1. CASE v = w
        BY <1>1, <1>5, <1>6, <1>7, <3>1 DEF Holds, Stays, Acquiring, Processing
      <3>2. CASE v # w
        <4>1. Holds(v) /\ Stays(v) /\ Fit(v)
          BY <1>13 DEF IInv, Sound, WorkersFit, Faultless, SoleHolder, TotalsStay
        <4>2. pc[v] \in Acquiring \cup Processing => item'[job[v]] = item[job[v]]
          BY <1>6, <2>1, <4>1 DEF Fit
        <4>3. Holds(v)'
          BY <1>7, <3>2, <4>1, <4>2 DEF Holds
        <4>4. \A j \in Items : Done(item[j]) => Done(item'[j])
          BY <1>1, <1>6 DEF Done
        <4>5. Stays(v)'
          BY <1>1, <1>7, <3>2, <4>1, <4>2, <4>4 DEF Stays, Exhausted, Acquiring
        <4>6. QED
          BY <4>3, <4>5
      <3>3. QED
        BY <3>1, <3>2
    <2>3. SoleHolder'
      BY <1>7, <1>13, <2>1, <2>2 DEF SoleHolder, IInv, Faultless
    <2>4. RowsFit'
      BY <1>1, <1>5, <1>6, <1>13 DEF IInv, Faultless, RowsFit, RowFit, RowShape, Skipped
    <2>5. TerminalDone' /\ Drained'
      <3>1. \A j \in Items : Done(item[j]) => Done(item'[j])
        BY <1>1, <1>6 DEF Done
      <3>2. QED
        BY <1>1, <1>13, <3>1 DEF IInv, Faultless, TerminalDone, Drained, NewestRefresh
    <2>6. QED
      BY <2>2, <2>3, <2>4, <2>5 DEF Faultless, TotalsStay
  <1>14. QED
    BY <1>1, <1>8, <1>9, <1>10, <1>11, <1>12, <1>13 DEF IInv, Sound

\* A run is created with its items, for which no worker works yet.
LEMMA InsertIInv ==
  ASSUME IInv, NEW r \in Runs, NEW P \in SUBSET Pages, NEW type \in RunTypes, Insert(r, P, type),
         \/ type = "ACQUISITION" /\ UNCHANGED refresh
         \/ /\ type = "REFRESH" /\ P = budget.pages
            /\ refresh # "REFRESHING" /\ refresh' = "REFRESHING"
  PROVE  IInv'
  <1> DEFINE Row(i) == [NoRow EXCEPT !.status = "QUEUED", !.due = TRUE, !.source = srcVersion,
                                     !.manifest = manVersion[PageOf(i)]]
  <1>1. /\ UNCHANGED <<versions, srcVersion, authVersion, manVersion, edits, budget,
                       lost, crashes, pc, job, verdict, seen>>
        /\ runStatus[r] = "ABSENT" /\ \A q \in 1 .. r - 1 : runStatus[q] # "ABSENT"
        /\ item' = [i \in Items |-> IF RunOf(i) = r /\ PageOf(i) \in P THEN Row(i) ELSE item[i]]
        /\ runType' = [runType EXCEPT ![r] = type]
        /\ runStatus' = [runStatus EXCEPT ![r] = "QUEUED"]
    BY DEF Insert, local, faults
  <1>2. ASSUME NEW i \in Items
        PROVE  /\ Row(i) \in Rows /\ Row(i).status = "QUEUED" /\ Row(i).stage = "ACQUISITION"
               /\ Row(i).content = None /\ Row(i).source = srcVersion
               /\ Row(i).manifest = manVersion[PageOf(i)] /\ ~Row(i).final
    <2>1. srcVersion \in Nat /\ manVersion[PageOf(i)] \in Nat
      BY ItemParts DEF IInv, Sound, TypeOK
    <2>2. QED
      BY <2>1 DEF NoRow, Rows, Statuses, Stages, Processings
  <1> HIDE DEF Row
  <1>3. ASSUME NEW i \in Items
        PROVE  \/ RunOf(i) = r /\ PageOf(i) \in P /\ item'[i] = Row(i)
               \/ ~(RunOf(i) = r /\ PageOf(i) \in P) /\ item'[i] = item[i]
    BY <1>1
  <1>4. \A i \in Items : RunOf(i) = r => item[i].status = "ABSENT"
    BY <1>1 DEF IInv, Sound, RunsFit
  <1>5. \A i \in Items : item[i].status # "ABSENT" => RunOf(i) # r /\ item'[i] = item[i]
    BY <1>1, <1>4
  <1>6. \A q \in Runs : q # r => runType'[q] = runType[q] /\ runStatus'[q] = runStatus[q]
    BY <1>1 DEF IInv, Sound, TypeOK
  <1>7. runType'[r] = type /\ runStatus'[r] = "QUEUED"
    BY <1>1 DEF IInv, Sound, TypeOK
  <1>8. TypeOK'
    <2>1. item' \in [Items -> Rows]
      BY <1>1, <1>2 DEF IInv, Sound, TypeOK
    <2>2. runType' \in [Runs -> RunTypes \cup {None}] /\ runStatus' \in [Runs -> RunStatuses]
      BY <1>1 DEF IInv, Sound, TypeOK, RunStatuses
    <2>3. refresh' \in Refreshes
      BY DEF Refreshes, IInv, Sound, TypeOK
    <2>4. QED
      BY <1>1, <2>1, <2>2, <2>3 DEF IInv, Sound, TypeOK
  <1>9. WorkersFit' /\ PageLockExclusive' /\ Novel'
    BY <1>1, <1>5 DEF IInv, Sound, WorkersFit, Fit, PageLockExclusive, HoldsPage, Novel, New
  <1>10. RunsFit'
    <2>1. \A q \in Runs : runStatus'[q] = "ABSENT" => runType'[q] = None
      BY <1>6, <1>7 DEF IInv, Sound, RunsFit
    <2>2. ASSUME NEW q \in Runs, NEW s \in Runs, q < s, runStatus'[s] # "ABSENT"
          PROVE  runStatus'[q] # "ABSENT"
      <3>1. CASE q = r
        BY <1>7, <3>1
      <3>2. CASE s = r /\ q # r
        <4>1. q \in 1 .. r - 1
          BY <2>2, <3>2 DEF Runs
        <4>2. QED
          BY <1>1, <1>6, <3>2, <4>1
      <3>3. CASE s # r /\ q # r
        BY <1>6, <2>2, <3>3 DEF IInv, Sound, RunsFit
      <3>4. QED
        BY <3>1, <3>2, <3>3
    <2>3. ASSUME NEW i \in Items, item'[i].status # "ABSENT" PROVE runStatus'[RunOf(i)] # "ABSENT"
      <3>1. RunOf(i) \in Runs
        BY ItemParts
      <3>2. CASE RunOf(i) = r
        BY <1>7, <3>2
      <3>3. CASE RunOf(i) # r
        BY <1>3, <1>6, <2>3, <3>1, <3>3 DEF IInv, Sound, RunsFit
      <3>4. QED
        BY <3>2, <3>3
    <2>4. QED
      BY <2>1, <2>2, <2>3 DEF RunsFit
  <1>11. Pinned'
    <2>1. srcVersion \in Nat /\ \A i \in Items : manVersion[PageOf(i)] \in Nat
      BY ItemParts DEF IInv, Sound, TypeOK
    <2> SUFFICES ASSUME NEW i \in Items
                 PROVE  item'[i].source <= srcVersion /\ item'[i].manifest <= manVersion[PageOf(i)]
      BY <1>1 DEF Pinned
    <2>2. CASE item'[i] = Row(i)
      BY <1>2, <2>1, <2>2
    <2>3. CASE item'[i] = item[i]
      BY <2>3 DEF IInv, Sound, Pinned
    <2>4. QED
      BY <1>3, <2>2, <2>3
  <1>12. ContentStored' /\ OneItemPerVersion'
    <2>1. \A i \in Items :
            \/ item'[i] = item[i]
            \/ item'[i].content = None /\ item'[i].stage = "ACQUISITION"
      BY <1>2, <1>3
    <2>2. ContentStored'
      BY <1>1, <2>1 DEF IInv, Sound, ContentStored
    <2>3. OneItemPerVersion'
      BY <1>1, <2>1 DEF IInv, Sound, OneItemPerVersion
    <2>4. QED
      BY <2>2, <2>3
  <1>13. ASSUME lost = 0 PROVE Faultless'
    <2>1. SoleHolder'
      BY <1>1, <1>5, <1>13 DEF IInv, Sound, WorkersFit, Fit, Faultless, SoleHolder, Holds
    <2>2. RowsFit'
      <3> SUFFICES ASSUME NEW i \in Items PROVE RowFit(i)'
        BY DEF RowsFit
      <3>1. RunOf(i) \in Runs
        BY ItemParts
      <3>2. CASE RunOf(i) = r /\ PageOf(i) \in P
        <4>1. item'[i].status = "QUEUED"
          BY <1>2, <1>3, <3>2
        <4>2. QED
          BY <4>1 DEF RowFit, RowShape, Skipped
      <3>3. CASE RunOf(i) = r /\ PageOf(i) \notin P
        <4>1. item'[i].status = "ABSENT"
          BY <1>3, <1>4, <3>3
        <4>2. type = "REFRESH" => PageOf(i) \notin budget.pages
          BY <3>3
        <4>3. QED
          BY <1>1, <1>7, <3>3, <4>1, <4>2 DEF RowFit, RowShape, Skipped
      <3>4. CASE RunOf(i) # r
        <4>1. item'[i] = item[i] /\ runType'[RunOf(i)] = runType[RunOf(i)]
          BY <1>3, <1>6, <3>1, <3>4
        <4>2. RowFit(i)
          BY <1>13 DEF IInv, Faultless, RowsFit
        <4>3. QED
          BY <1>1, <4>1, <4>2 DEF RowFit
      <3>5. QED
        BY <3>2, <3>3, <3>4
    <2>3. \A i \in Items : RunOf(i) # r => item'[i] = item[i]
      BY <1>3
    <2>4. TotalsStay'
      <3> SUFFICES ASSUME NEW w \in Workers, pc[w] = "commit", seen[w].run \in Terminal
                   PROVE  /\ \A i \in Items : RunOf(i) = RunOf(job[w]) /\ i # job[w] => Done(item'[i])
                          /\ verdict[w] = "retry" => Exhausted(item'[job[w]].tries)
        BY <1>1 DEF TotalsStay, Stays, Exhausted
      <3>1. job[w] \in Items /\ RunOf(job[w]) # r /\ item'[job[w]] = item[job[w]] /\ Stays(w)
        BY <1>5, <1>13 DEF IInv, Sound, WorkersFit, Fit, Acquiring, Faultless, TotalsStay
      <3>2. QED
        BY <2>3, <3>1 DEF Stays
    <2>5. TerminalDone'
      <3> SUFFICES ASSUME NEW i \in Items, runStatus'[RunOf(i)] \in Terminal PROVE Done(item'[i])
        BY DEF TerminalDone
      <3>1. RunOf(i) # r /\ RunOf(i) \in Runs
        BY <1>7, ItemParts DEF Terminal
      <3>2. QED
        BY <1>6, <1>13, <2>3, <3>1 DEF IInv, Faultless, TerminalDone
    <2>6. Drained'
      <3> SUFFICES ASSUME NEW i \in Items, runType'[RunOf(i)] = "REFRESH",
                          refresh' # "REFRESHING" \/ ~NewestRefresh(RunOf(i))'
                   PROVE  Done(item'[i])
        BY DEF Drained
      <3>1. RunOf(i) \in Runs
        BY ItemParts
      <3>2. CASE RunOf(i) # r
        <4>1. item'[i] = item[i] /\ runType[RunOf(i)] = "REFRESH"
          BY <1>6, <2>3, <3>1, <3>2
        <4>2. type = "ACQUISITION" => (NewestRefresh(RunOf(i)) => NewestRefresh(RunOf(i))')
          BY <1>6, <1>7, <4>1 DEF NewestRefresh
        <4>3. refresh # "REFRESHING" \/ ~NewestRefresh(RunOf(i))
          BY <4>2
        <4>4. QED
          BY <1>13, <4>1, <4>3 DEF IInv, Faultless, Drained
      <3>3. CASE RunOf(i) = r
        <4>1. type = "REFRESH" /\ refresh' = "REFRESHING"
          BY <1>7, <3>3
        <4>2. \A q \in Runs : q > r => runType'[q] # "REFRESH"
          <5> SUFFICES ASSUME NEW q \in Runs, q > r PROVE runType'[q] # "REFRESH"
            OBVIOUS
          <5>1. q # r /\ r < q
            BY DEF Runs
          <5>2. runStatus[q] = "ABSENT"
            BY <1>1, <5>1 DEF IInv, Sound, RunsFit
          <5>3. runType[q] = None
            BY <5>2 DEF IInv, Sound, RunsFit
          <5>4. QED
            BY <1>6, <5>1, <5>3, IngestionAssumption
        <4>3. NewestRefresh(RunOf(i))'
          BY <3>3, <4>2 DEF NewestRefresh
        <4>4. QED
          BY <4>1, <4>3
      <3>4. QED
        BY <3>2, <3>3
    <2>7. QED
      BY <2>1, <2>2, <2>4, <2>5, <2>6 DEF Faultless
  <1>14. QED
    BY <1>1, <1>8, <1>9, <1>10, <1>11, <1>12, <1>13 DEF IInv, Sound

\* Every request of an administrator: runs, refreshes, decisions and edits.
LEMMA AdministerIInv == ASSUME IInv, Administer PROVE IInv'
  <1>1. budget.pages \subseteq Pages
    BY IngestionAssumption DEF IInv, Sound, TypeOK
  <1>2. ASSUME NEW r \in Runs, NEW P \in SUBSET budget.pages, CreateRun(r, P) PROVE IInv'
    <2>1. P \in SUBSET Pages /\ "ACQUISITION" \in RunTypes
      BY <1>1 DEF RunTypes
    <2>2. QED
      BY <1>2, <2>1, InsertIInv DEF CreateRun
  <1>3. ASSUME NEW r \in Runs, CreateRefreshRun(r) PROVE IInv'
    <2>1. budget.pages \in SUBSET Pages /\ "REFRESH" \in RunTypes
      BY <1>1 DEF RunTypes
    <2>2. QED
      BY <1>3, <2>1, InsertIInv DEF CreateRefreshRun
  <1>4. QED
    BY <1>2, <1>3, EditIInv DEF Administer

-----------------------------------------------------------------------------
(* The finishing transaction commits.                                      *)

\* What the finishing handlers make of the row.
Concluded(w, y) ==
    /\ y.status # "ABSENT"
    /\ y.source = item[job[w]].source /\ y.manifest = item[job[w]].manifest
    /\ verdict[w] = "complete" => y.content = seen[w].content
    /\ verdict[w] # "complete" =>
         y.content = item[job[w]].content /\ y.stage \in {item[job[w]].stage, "COMPLETE"}
    /\ item[job[w]].stage = "ACQUISITION" =>
         /\ RowShape(y)
         /\ runType[RunOf(job[w])] = "REFRESH" /\ y.status \in Skipped \cup {"ACQUIRED"}
              => y.class \in Changes \cup {"UNCHANGED"}
         /\ Done(y) \/ (verdict[w] = "retry" /\ ~Exhausted(item[job[w]].tries))

\* _finish_item, _skipped_remote, _blocked and _failed leave a row whose
\* status, stage and classification agree; only a retry leaves it undone.
LEMMA FinishedRow ==
  ASSUME IInv, NEW w \in Workers, pc[w] = "commit"
  PROVE  /\ job[w] \in Items /\ Finished(w, verdict[w]) \in Rows
         /\ Concluded(w, Finished(w, verdict[w]))
  <1> DEFINE x == item[job[w]]
             y == Finished(w, verdict[w])
             k == Classification(w)
  <1>1. job[w] \in Items /\ verdict[w] \in Finishing \cup {"duplicate"} /\ Fit(w)
    BY DEF IInv, Sound, WorkersFit, Fit, Acquiring
  <1>2. x \in Rows /\ x.status # "ABSENT"
    BY <1>1 DEF IInv, Sound, TypeOK, Fit, Acquiring
  <1>3. /\ k \in Changes \cup {None, "UNCHANGED"}
        /\ runType[RunOf(job[w])] = "REFRESH" => k \in Changes \cup {"UNCHANGED"}
    BY DEF Classification, Changes
  <1> HIDE DEF k
  <1>4. CASE verdict[w] = "complete"
    <2>1. y = [x EXCEPT !.status = "ACQUIRED", !.final = FALSE, !.class = k,
                        !.content = seen[w].content, !.stage = "PROCESSING", !.due = TRUE]
      BY <1>4 DEF Finished, k
    <2>2. seen[w].content \in Contents
      BY <1>1, <1>4 DEF Fit
    <2> HIDE DEF y, x
    <2>3. y \in Rows /\ y.status = "ACQUIRED" /\ y.class = k /\ y.content = seen[w].content
          /\ y.stage = "PROCESSING" /\ y.source = x.source /\ y.manifest = x.manifest
      BY <1>2, <1>3, <2>1, <2>2 DEF Rows, Statuses, Stages
    <2>4. QED
      BY <1>1, <1>3, <1>4, <2>3 DEF Concluded, RowShape, Done, x, y
  <1>5. CASE verdict[w] \in {"duplicate", "removed", "redirected"}
    <2>1. \E s \in Skipped, c \in {k} \cup Changes :
             y = [x EXCEPT !.status = s, !.class = c, !.final = FALSE, !.stage = "COMPLETE"]
      <3>1. CASE verdict[w] = "duplicate"
        <4>1. y = [x EXCEPT !.status = "SKIPPED_UNCHANGED", !.class = k, !.final = FALSE,
                            !.stage = "COMPLETE"]
          BY <3>1 DEF Finished, k
        <4>2. QED
          BY <4>1 DEF Skipped
      <3>2. CASE verdict[w] = "removed"
        <4>1. y = [x EXCEPT !.status = "SKIPPED_REMOVED", !.class = "REMOVED", !.final = FALSE,
                            !.stage = "COMPLETE"]
          BY <3>2 DEF Finished
        <4>2. QED
          BY <4>1 DEF Skipped, Changes
      <3>3. CASE verdict[w] = "redirected"
        <4>1. y = [x EXCEPT !.status = "SKIPPED_REDIRECTED", !.class = "REDIRECTED", !.final = FALSE,
                            !.stage = "COMPLETE"]
          BY <3>3 DEF Finished
        <4>2. QED
          BY <4>1 DEF Skipped, Changes
      <3>4. QED
        BY <1>5, <3>1, <3>2, <3>3
    <2>2. PICK s \in Skipped, c \in {k} \cup Changes :
             y = [x EXCEPT !.status = s, !.class = c, !.final = FALSE, !.stage = "COMPLETE"]
      BY <2>1
    <2> HIDE DEF y, x
    <2>3. y \in Rows /\ y.status = s /\ y.class = c /\ y.content = x.content
          /\ y.stage = "COMPLETE" /\ y.source = x.source /\ y.manifest = x.manifest
      BY <1>2, <1>3, <2>2 DEF Rows, Statuses, Stages
    <2>4. s # "ABSENT" /\ s # "BLOCKED_PERMISSION"
      BY DEF Skipped
    <2>5. QED
      BY <1>1, <1>3, <1>5, <2>3, <2>4 DEF Concluded, RowShape, Done, x, y
  <1>6. CASE verdict[w] = "blocked"
    <2>1. y = [x EXCEPT !.status = "BLOCKED_PERMISSION", !.final = TRUE]
      BY <1>6 DEF Finished
    <2> HIDE DEF y, x
    <2>2. y \in Rows /\ y.status = "BLOCKED_PERMISSION" /\ y.final /\ y.content = x.content
          /\ y.stage = x.stage /\ y.source = x.source /\ y.manifest = x.manifest
      BY <1>2, <2>1 DEF Rows, Statuses
    <2>3. QED
      BY <1>1, <1>6, <2>2 DEF Concluded, RowShape, Done, Skipped, x, y
  <1>7. CASE verdict[w] \in {"infected", "fatal", "retry"}
    <2>1. \E f \in BOOLEAN, d \in BOOLEAN :
             /\ y = [x EXCEPT !.status = "FAILED", !.final = f, !.due = d]
             /\ verdict[w] = "retry" => f = Exhausted(x.tries)
             /\ verdict[w] # "retry" => f
      <3>1. CASE verdict[w] \in {"infected", "fatal"}
        <4>1. y = [x EXCEPT !.status = "FAILED", !.final = TRUE,
                            !.due = (x.due /\ x.stage # "ACQUISITION")]
          BY <3>1 DEF Finished
        <4>2. QED
          BY <3>1, <4>1
      <3>2. CASE verdict[w] = "retry"
        <4>1. y = [x EXCEPT !.status = "FAILED", !.final = Exhausted(x.tries),
                            !.due = (x.due /\ x.stage # "ACQUISITION")]
          BY <3>2 DEF Finished
        <4>2. Exhausted(x.tries) \in BOOLEAN
          BY DEF Exhausted
        <4>3. QED
          BY <3>2, <4>1, <4>2
      <3>3. QED
        BY <1>7, <3>1, <3>2
    <2>2. PICK f \in BOOLEAN, d \in BOOLEAN :
             /\ y = [x EXCEPT !.status = "FAILED", !.final = f, !.due = d]
             /\ verdict[w] = "retry" => f = Exhausted(x.tries)
             /\ verdict[w] # "retry" => f
      BY <2>1
    <2> HIDE DEF y, x
    <2>3. y \in Rows /\ y.status = "FAILED" /\ y.final = f /\ y.content = x.content
          /\ y.stage = x.stage /\ y.source = x.source /\ y.manifest = x.manifest
      BY <1>2, <2>2 DEF Rows, Statuses
    <2>4. QED
      BY <1>1, <1>7, <2>2, <2>3 DEF Concluded, RowShape, Done, Skipped, x, y
  <1>8. QED
    BY <1>1, <1>4, <1>5, <1>6, <1>7 DEF Finishing

\* The refresh state moves only when the refresh run has drained.
LEMMA RefreshMoves ==
  ASSUME NEW table, NEW r, RefreshVerdict(table, r) # refresh
  PROVE  /\ refresh = "REFRESHING" /\ runType[r] = "REFRESH"
         /\ RefreshVerdict(table, r) \in {"STALE", "CURRENT"}
         /\ \A p \in Pages : ~Pending(table[<<r, p>>])
         /\ RefreshVerdict(table, r) = "CURRENT" => \A p \in Pages : ~Stale(table[<<r, p>>])
  BY DEF RefreshVerdict, Among

\* What the commit of a finishing transaction writes.
LEMMA FinishWrites ==
  ASSUME IInv, NEW w \in Workers, Finish(w)
  PROVE  \E y \in Rows :
           /\ Concluded(w, y)
           /\ item' \in [Items -> Rows]
           /\ \A j \in Items : item'[j] = IF j = job[w] THEN y ELSE item[j]
  <1>1. pc[w] = "commit" /\ item' = [item EXCEPT ![job[w]] = Finished(w, verdict[w])]
    BY DEF Finish
  <1>2. PICK y \in Rows : y = Finished(w, verdict[w]) /\ Concluded(w, y) /\ job[w] \in Items
    BY <1>1, FinishedRow
  <1>3. item' \in [Items -> Rows] /\ \A j \in Items : item'[j] = IF j = job[w] THEN y ELSE item[j]
    BY <1>1, <1>2 DEF IInv, Sound, TypeOK
  <1>4. QED
    BY <1>2, <1>3

\* The row, the page's versions and the run status it writes keep what does
\* not depend on replies: the advisory lock makes the new version new.
LEMMA FinishSound ==
  ASSUME IInv, NEW w \in Workers, Finish(w),
         crashes' \in Nat, lost' \in Nat,
         pc' \in [Workers -> Steps], job' \in [Workers -> Items \cup {None}],
         verdict' \in [Workers -> Verdicts],
         seen' \in [Workers -> [content : Contents \cup {None}, previous : Contents \cup {None},
                                run : RunStatuses]],
         \A v \in Workers \ {w} : SameLocal(v),
         pc'[w] # "commit", Fit(w)'
  PROVE  Sound'
  <1> DEFINE i == job[w]
             p == PageOf(i)
             c == seen[w].content
             r == RunOf(i)
  <1>1. /\ UNCHANGED <<runType, srcVersion, authVersion, manVersion, edits, budget>>
        /\ pc[w] = "commit"
        /\ versions' = IF verdict[w] = "complete" THEN [versions EXCEPT ![p] = Append(versions[p], c)]
                       ELSE versions
        /\ runStatus' = [runStatus EXCEPT ![r] = seen[w].run]
        /\ refresh' = RefreshVerdict(item', r)
    BY DEF Finish, admin
  <1>2. /\ i \in Items /\ item[i].status # "ABSENT" /\ seen[w].run # "ABSENT"
        /\ verdict[w] = "complete" => c \in Contents /\ c \notin Range(versions[p])
    BY <1>1 DEF IInv, Sound, WorkersFit, Fit, Acquiring, Novel, New
  <1>3. r \in Runs /\ p \in Pages
    BY <1>2, ItemParts
  <1>4. PICK y \in Rows :
           /\ Concluded(w, y)
           /\ item' \in [Items -> Rows]
           /\ \A j \in Items : item'[j] = IF j = i THEN y ELSE item[j]
    BY FinishWrites
  <1>5. /\ y.status # "ABSENT" /\ y.source = item[i].source /\ y.manifest = item[i].manifest
        /\ verdict[w] = "complete" => y.content = c
        /\ verdict[w] # "complete" => y.content = item[i].content /\ y.stage \in {item[i].stage, "COMPLETE"}
    BY <1>4 DEF Concluded
  <1>6. /\ versions' \in [Pages -> Seq(Contents)]
        /\ \A q \in Pages : IsInjective(versions'[q])
        /\ \A q \in Pages : Range(versions'[q]) =
               IF verdict[w] = "complete" /\ q = p THEN Range(versions[q]) \cup {c} ELSE Range(versions[q])
    <2>1. versions \in [Pages -> Seq(Contents)] /\ \A q \in Pages : IsInjective(versions[q])
      BY DEF IInv, Sound, TypeOK, OneItemPerVersion
    <2>2. CASE verdict[w] = "complete"
      <3> DEFINE s == Append(versions[p], c)
      <3>1. versions[p] \in Seq(Contents) /\ c \in Contents /\ c \notin Range(versions[p])
            /\ IsInjective(versions[p])
        BY <1>2, <1>3, <2>1, <2>2
      <3>2. s \in Seq(Contents) /\ Range(s) = Range(versions[p]) \cup {c} /\ IsInjective(s)
        BY <3>1, AppendFresh
      <3>3. versions' = [versions EXCEPT ![p] = s]
        BY <1>1, <2>2
      <3> HIDE DEF s
      <3>4. versions'[p] = s /\ \A q \in Pages : q # p => versions'[q] = versions[q]
        BY <1>3, <2>1, <3>3
      <3>5. QED
        BY <2>1, <2>2, <3>2, <3>3, <3>4
    <2>3. CASE verdict[w] # "complete"
      BY <1>1, <2>1, <2>3
    <2>4. QED
      BY <2>2, <2>3
  <1>7. runStatus' \in [Runs -> RunStatuses] /\ \A q \in Runs : runStatus'[q] = "ABSENT" <=> runStatus[q] = "ABSENT"
    <2>1. seen[w].run \in RunStatuses /\ runStatus \in [Runs -> RunStatuses]
      BY DEF IInv, Sound, TypeOK
    <2>2. runStatus[r] # "ABSENT"
      BY <1>2 DEF IInv, Sound, RunsFit
    <2>3. QED
      BY <1>1, <1>2, <1>3, <2>1, <2>2
  <1>8. refresh' \in Refreshes
    <2>1. refresh \in Refreshes
      BY DEF IInv, Sound, TypeOK
    <2>2. QED
      BY <1>1, <2>1, RefreshMoves DEF Refreshes
  <1>9. TypeOK'
    BY <1>1, <1>4, <1>6, <1>7, <1>8 DEF IInv, Sound, TypeOK
  <1> HIDE DEF i, p, c, r
  <1>10. WorkersFit'
    <2> SUFFICES ASSUME NEW v \in Workers, v # w PROVE Fit(v)'
      BY DEF WorkersFit
    <2>1. SameLocal(v) /\ Fit(v)
      BY DEF IInv, Sound, WorkersFit
    <2>2. QED
      BY <1>4, <1>5, <2>1 DEF Fit, SameLocal
  <1>11. RunsFit'
    <2>1. \A q \in Runs : runStatus'[q] = "ABSENT" => runType'[q] = None
      BY <1>1, <1>7 DEF IInv, Sound, RunsFit
    <2>2. \A q, s \in Runs : q < s /\ runStatus'[s] # "ABSENT" => runStatus'[q] # "ABSENT"
      BY <1>7 DEF IInv, Sound, RunsFit
    <2>3. \A j \in Items : item'[j].status # "ABSENT" => runStatus'[RunOf(j)] # "ABSENT"
      BY <1>2, <1>4, <1>7, ItemParts DEF IInv, Sound, RunsFit
    <2>4. QED
      BY <2>1, <2>2, <2>3 DEF RunsFit
  <1>12. Pinned'
    BY <1>1, <1>2, <1>4, <1>5 DEF IInv, Sound, Pinned
  <1>13. PageLockExclusive'
    <2>1. \A v \in Workers, q \in Pages : HoldsPage(v, q)' => HoldsPage(v, q)
      BY DEF HoldsPage, SameLocal
    <2>2. QED
      BY <2>1 DEF IInv, Sound, PageLockExclusive
  <1>14. Novel'
    <2> SUFFICES ASSUME NEW v \in Workers, pc'[v] = "commit", verdict'[v] = "complete"
                 PROVE  seen'[v].content \notin Range(versions'[PageOf(job'[v])])
      BY DEF Novel, New
    <2>1. v # w /\ pc[v] = "commit" /\ verdict[v] = "complete" /\ job'[v] = job[v] /\ seen'[v] = seen[v]
      BY DEF SameLocal
    <2>2. job[v] \in Items /\ PageOf(job[v]) \in Pages
          /\ seen[v].content \notin Range(versions[PageOf(job[v])])
      BY <2>1, ItemParts DEF IInv, Sound, WorkersFit, Fit, Acquiring, Novel, New
    <2>3. verdict[w] = "complete" => PageOf(job[v]) # p
      BY <1>1, <1>3, <2>1, <2>2 DEF IInv, Sound, PageLockExclusive, HoldsPage, p, i
    <2>4. QED
      BY <1>6, <2>1, <2>2, <2>3
  <1>15. ContentStored'
    <2> SUFFICES ASSUME NEW j \in Items
                 PROVE  /\ item'[j].content # None => item'[j].content \in Range(versions'[PageOf(j)])
                        /\ item'[j].stage = "PROCESSING" => item'[j].content # None
      BY DEF ContentStored
    <2>1. PageOf(j) \in Pages
      BY ItemParts
    <2>2. /\ item[j].content # None => item[j].content \in Range(versions[PageOf(j)])
          /\ item[j].stage = "PROCESSING" => item[j].content # None
      BY DEF IInv, Sound, ContentStored
    <2>3. Range(versions[PageOf(j)]) \subseteq Range(versions'[PageOf(j)])
      BY <1>6, <2>1
    <2>4. CASE j # i
      BY <1>4, <2>2, <2>3, <2>4
    <2>5. CASE j = i /\ verdict[w] # "complete"
      BY <1>4, <1>5, <2>2, <2>3, <2>5
    <2>6. CASE j = i /\ verdict[w] = "complete"
      <3>1. item'[j].content = c /\ c \in Contents /\ c # None
        BY <1>2, <1>4, <1>5, <2>6, IngestionAssumption
      <3>2. c \in Range(versions'[PageOf(j)])
        BY <1>6, <2>1, <2>6 DEF p
      <3>3. QED
        BY <3>1, <3>2
    <2>7. QED
      BY <2>4, <2>5, <2>6
  <1>16. OneItemPerVersion'
    <2>1. ASSUME NEW j \in Items, NEW k \in Items, j # k, PageOf(j) = PageOf(k), item'[j].content # None
          PROVE  item'[j].content # item'[k].content
      <3>1. /\ item[j].content # None => item[j].content # item[k].content
            /\ item[k].content # None => item[k].content # item[j].content
        BY <2>1 DEF IInv, Sound, OneItemPerVersion
      <3>2. CASE verdict[w] # "complete"
        BY <1>4, <1>5, <2>1, <3>1, <3>2
      <3>3. CASE verdict[w] = "complete" /\ j = i
        <4>1. item'[j].content = c /\ item'[k] = item[k] /\ c # None
          BY <1>2, <1>4, <1>5, <2>1, <3>3, IngestionAssumption
        <4>2. item[k].content # None => item[k].content \in Range(versions[p])
          BY <2>1, <3>3 DEF IInv, Sound, ContentStored, p
        <4>3. QED
          BY <1>2, <3>3, <4>1, <4>2
      <3>4. CASE verdict[w] = "complete" /\ k = i
        <4>1. item'[k].content = c /\ item'[j] = item[j] /\ c # None
          BY <1>2, <1>4, <1>5, <2>1, <3>4, IngestionAssumption
        <4>2. item[j].content # None => item[j].content \in Range(versions[p])
          BY <2>1, <3>4 DEF IInv, Sound, ContentStored, p
        <4>3. QED
          BY <1>2, <2>1, <3>4, <4>1, <4>2
      <3>5. CASE j # i /\ k # i
        BY <1>4, <2>1, <3>1, <3>5
      <3>6. QED
        BY <3>2, <3>3, <3>4, <3>5
    <2>2. \A j \in Items : item'[j].stage = "PROCESSING" => item'[j].content \in Range(versions'[PageOf(j)])
      BY <1>15 DEF ContentStored
    <2>3. QED
      BY <1>6, <2>1, <2>2 DEF OneItemPerVersion
  <1>17. QED
    BY <1>9, <1>10, <1>11, <1>12, <1>13, <1>14, <1>15, <1>16 DEF Sound

\* When the commit is also known to the worker, nobody else is on the item,
\* the totals it read still hold, and a drained refresh is over.
LEMMA CommitIInv == ASSUME IInv, NEW w \in Workers, Commit(w) PROVE IInv'
  <1> DEFINE i == job[w]
             r == RunOf(i)
  <1>1. /\ Finish(w) /\ Over(w)
        /\ UNCHANGED <<runType, srcVersion, manVersion, budget, crashes, lost>>
        /\ pc[w] = "commit" /\ refresh' = RefreshVerdict(item', r)
        /\ runStatus' = [runStatus EXCEPT ![r] = seen[w].run]
    BY DEF Commit, Finish, admin, faults
  <1>2. crashes' \in Nat /\ lost' \in Nat
    BY <1>1 DEF IInv, Sound, TypeOK
  <1>3. pc'[w] = "acq" /\ \A v \in Workers : v # w => SameLocal(v)
    BY <1>1, OverLocal
  <1>4. Fit(w)'
    BY <1>3 DEF Fit, Acquiring, Processing
  <1>5. Sound'
    BY <1>1, <1>2, <1>3, <1>4, OverLocal, FinishSound
  <1>6. PICK y \in Rows :
           /\ Concluded(w, y)
           /\ item' \in [Items -> Rows]
           /\ \A j \in Items : item'[j] = IF j = i THEN y ELSE item[j]
    BY <1>1, FinishWrites
  <1>7. i \in Items /\ r \in Runs /\ PageOf(i) \in Pages /\ i = <<r, PageOf(i)>>
    BY <1>1, ItemParts DEF IInv, Sound, WorkersFit, Fit, Acquiring
  <1> HIDE DEF i, r
  <1>8. ASSUME lost = 0 PROVE Faultless'
    <2>1. item[i].status = "ACQUIRING" /\ item[i].stage = "ACQUISITION" /\ ~item[i].final
      BY <1>1, <1>8 DEF IInv, Faultless, SoleHolder, Holds, Acquiring, i
    <2>2. /\ RowShape(y)
          /\ runType[r] = "REFRESH" /\ y.status \in Skipped \cup {"ACQUIRED"}
               => y.class \in Changes \cup {"UNCHANGED"}
          /\ Done(y) \/ (verdict[w] = "retry" /\ ~Exhausted(item[i].tries))
          /\ y.status # "ABSENT"
      BY <1>6, <2>1 DEF Concluded, i, r
    <2>3. ~Done(item[i])
      BY <2>1 DEF Done
    <2>4. ASSUME NEW v \in Workers, v # w
          PROVE  /\ SameLocal(v) /\ Holds(v) /\ Stays(v)
                 /\ pc[v] \in Acquiring \cup Processing =>
                      job[v] # i /\ job[v] \in Items /\ item'[job[v]] = item[job[v]]
      <3>1. SameLocal(v) /\ Holds(v) /\ Stays(v) /\ Fit(v)
        BY <1>3, <1>8, <2>4 DEF IInv, Faultless, SoleHolder, TotalsStay, Sound, WorkersFit
      <3>2. pc[v] \in Acquiring => job[v] # i
        BY <1>1, <1>8, <2>4 DEF IInv, Faultless, SoleHolder, Acquiring, i
      <3>3. pc[v] \in Processing => job[v] # i
        BY <2>1, <3>1 DEF Holds
      <3>4. pc[v] \in Acquiring \cup Processing => job[v] \in Items
        BY <3>1 DEF Fit
      <3>5. QED
        BY <1>6, <3>1, <3>2, <3>3, <3>4
    <2>5. SoleHolder'
      <3>1. \A v \in Workers : pc'[v] \in Acquiring => v # w /\ pc[v] \in Acquiring /\ job'[v] = job[v]
        BY <1>3 DEF SameLocal, Acquiring
      <3>2. ASSUME NEW v \in Workers PROVE Holds(v)'
        <4>1. CASE v = w
          BY <1>3, <4>1 DEF Holds, Acquiring, Processing
        <4>2. CASE v # w
          BY <2>4, <4>2 DEF Holds, SameLocal
        <4>3. QED
          BY <4>1, <4>2
      <3>3. QED
        BY <1>8, <3>1, <3>2 DEF IInv, Faultless, SoleHolder
    <2>6. RowsFit'
      <3> SUFFICES ASSUME NEW j \in Items PROVE RowFit(j)'
        BY DEF RowsFit
      <3>1. CASE j = i
        <4>1. item'[j] = y
          BY <1>6, <3>1
        <4>2. QED
          BY <1>1, <2>2, <3>1, <4>1 DEF RowFit, r
      <3>2. CASE j # i
        <4>1. item'[j] = item[j] /\ RowFit(j)
          BY <1>6, <1>8, <3>2 DEF IInv, Faultless, RowsFit
        <4>2. QED
          BY <1>1, <4>1 DEF RowFit
      <3>3. QED
        BY <3>1, <3>2
    <2>7. TotalsStay'
      <3> SUFFICES ASSUME NEW v \in Workers, pc'[v] = "commit", seen'[v].run \in Terminal
                   PROVE  /\ \A j \in Items : RunOf(j) = RunOf(job'[v]) /\ j # job'[v] => Done(item'[j])
                          /\ verdict'[v] = "retry" => Exhausted(item'[job'[v]].tries)
        BY <1>1 DEF TotalsStay, Stays, Exhausted
      <3>1. v # w
        BY <1>3
      <3>2. /\ pc[v] = "commit" /\ seen[v].run \in Terminal /\ job'[v] = job[v]
            /\ verdict'[v] = verdict[v] /\ Stays(v)
            /\ job[v] # i /\ item'[job[v]] = item[job[v]]
        BY <2>4, <3>1 DEF SameLocal, Acquiring
      <3>3. RunOf(job[v]) # r
        BY <1>7, <2>3, <3>2 DEF Stays, r
      <3>4. \A j \in Items : RunOf(j) = RunOf(job[v]) => item'[j] = item[j]
        BY <1>6, <3>3 DEF r
      <3>5. QED
        BY <1>1, <3>2, <3>4 DEF Stays, Exhausted
    <2>8. TerminalDone'
      <3> SUFFICES ASSUME NEW j \in Items, runStatus'[RunOf(j)] \in Terminal PROVE Done(item'[j])
        BY DEF TerminalDone
      <3>1. RunOf(j) \in Runs
        BY ItemParts
      <3>2. CASE RunOf(j) = r
        <4>1. seen[w].run \in Terminal
          BY <1>1, <1>7, <3>2 DEF IInv, Sound, TypeOK
        <4>2. Stays(w)
          BY <1>8 DEF IInv, Faultless, TotalsStay
        <4>3. CASE j = i
          BY <1>1, <1>6, <2>2, <4>1, <4>2, <4>3 DEF Stays, i
        <4>4. CASE j # i
          BY <1>1, <1>6, <3>2, <4>1, <4>2, <4>4 DEF Stays, i, r
        <4>5. QED
          BY <4>3, <4>4
      <3>3. CASE RunOf(j) # r
        <4>1. runStatus[RunOf(j)] \in Terminal /\ item'[j] = item[j]
          BY <1>1, <1>6, <3>1, <3>3 DEF IInv, Sound, TypeOK, r
        <4>2. QED
          BY <1>8, <4>1 DEF IInv, Faultless, TerminalDone
      <3>4. QED
        BY <3>2, <3>3
    <2>9. Drained'
      <3> SUFFICES ASSUME NEW j \in Items, runType[RunOf(j)] = "REFRESH",
                          refresh' # "REFRESHING" \/ ~NewestRefresh(RunOf(j))
                   PROVE  Done(item'[j])
        BY <1>1 DEF Drained, NewestRefresh
      <3>1. RunOf(j) \in Runs /\ PageOf(j) \in Pages /\ j = <<RunOf(j), PageOf(j)>>
        BY ItemParts
      <3>2. CASE (refresh # "REFRESHING" \/ ~NewestRefresh(RunOf(j)))
        <4>1. Done(item[j])
          BY <1>8, <3>2 DEF IInv, Faultless, Drained
        <4>2. item'[j] = item[j]
          BY <1>6, <2>3, <4>1
        <4>3. QED
          BY <4>1, <4>2
      <3>3. CASE refresh = "REFRESHING" /\ NewestRefresh(RunOf(j))
        <4>1. RefreshVerdict(item', r) # refresh
          BY <1>1, <3>3
        <4>2. runType[r] = "REFRESH" /\ \A p \in Pages : ~Pending(item'[<<r, p>>])
          BY <4>1, RefreshMoves
        <4>3. NewestRefresh(r)
          BY <1>7, <1>8, <2>3, <4>2 DEF IInv, Faultless, Drained, r
        <4>4. RunOf(j) = r
          BY <1>7, <3>1, <3>3, <4>2, <4>3 DEF NewestRefresh, Runs
        <4>5. ~Pending(item'[j])
          BY <3>1, <4>2, <4>4
        <4>6. item'[j] \in Rows /\ RowShape(item'[j])
          BY <1>6, <2>6 DEF RowsFit, RowFit
        <4>7. QED
          BY <4>5, <4>6, NotPendingDone
      <3>4. QED
        BY <3>2, <3>3
    <2>10. QED
      BY <2>5, <2>6, <2>7, <2>8, <2>9 DEF Faultless
  <1>9. QED
    BY <1>1, <1>5, <1>8 DEF IInv

\* A commit whose reply is lost keeps the part that does not depend on it.
LEMMA ReplyLostIInv == ASSUME IInv, NEW w \in Workers, ReplyLost(w) PROVE IInv'
  <1>1. /\ Finish(w) /\ pc[w] = "commit" /\ lost' = lost + 1 /\ UNCHANGED crashes
        /\ Goto(w, "begin") /\ verdict' = [verdict EXCEPT ![w] = "retry"] /\ UNCHANGED <<job, seen>>
    BY DEF ReplyLost, Finish, Caught, LoseReply
  <1>2. lost' \in Nat /\ lost' # 0 /\ crashes' \in Nat
    BY <1>1 DEF IInv, Sound, TypeOK
  <1>3. "begin" \in Steps /\ "retry" \in Verdicts
    BY DEF Steps, Verdicts
  <1>4. pc'[w] = "begin" /\ verdict'[w] = "retry" /\ job'[w] = job[w]
    BY <1>1, <1>3, GotoLocal
  <1>5. Fit(w)'
    <2>1. PICK y \in Rows :
             Concluded(w, y) /\ \A j \in Items : item'[j] = IF j = job[w] THEN y ELSE item[j]
      BY <1>1, FinishWrites
    <2>2. job[w] \in Items
      BY <1>1 DEF IInv, Sound, WorkersFit, Fit, Acquiring
    <2>3. item'[job[w]].status # "ABSENT"
      BY <2>1, <2>2 DEF Concluded
    <2>4. QED
      BY <1>4, <2>2, <2>3 DEF Fit, Finishing
  <1>6. Sound'
    BY <1>1, <1>2, <1>3, <1>4, <1>5, GotoLocal, FinishSound
  <1>7. QED
    BY <1>2, <1>6 DEF IInv

-----------------------------------------------------------------------------
(* The theorems.                                                           *)

\* Every step of a worker keeps the invariant.
LEMMA WorkerIInv ==
  ASSUME IInv, NEW w \in Workers,
         Acquire(w) \/ Process(w) \/ ReplyLost(w) \/ ProcessingReplyLost(w) \/ Crash(w)
  PROVE  IInv'
  <1>1. CASE Acquire(w)
    BY <1>1, ClaimAcquisitionIInv, NothingIInv, LoadIInv, FetchIInv, BeginIInv, CommitIInv,
       AbortIInv DEF Acquire
  <1>2. CASE Process(w)
    BY <1>2, ClaimProcessingIInv, NothingIInv, LoadProcessingIInv, StartProcessingIInv,
       ProcessedIInv, PersistAbortsIInv DEF Process
  <1>3. QED
    BY <1>1, <1>2, ReplyLostIInv, ProcessingReplyLostIInv, CrashIInv

\* Every step keeps the invariant.
LEMMA NextIInv == IInv /\ [Next]_vars => IInv'
  <1> SUFFICES ASSUME IInv, [Next]_vars PROVE IInv'
    OBVIOUS
  <1>1. CASE Administer
    BY <1>1, AdministerIInv
  <1>2. CASE \E i \in Items : BackoffElapses(i)
    BY <1>2, BackoffElapsesIInv
  <1>3. CASE \E w \in Workers :
               Acquire(w) \/ Process(w) \/ ReplyLost(w) \/ ProcessingReplyLost(w) \/ Crash(w)
    BY <1>3, WorkerIInv
  <1>4. CASE UNCHANGED vars
    <2>1. UNCHANGED <<item, runType, runStatus, versions, refresh, srcVersion, authVersion,
                      manVersion, pc, job, verdict, seen, edits, crashes, lost, budget>>
      BY <1>4 DEF vars
    <2>2. Sound'
      BY <2>1 DEF IInv, Sound, TypeOK, WorkersFit, Fit, RunsFit, Pinned, PageLockExclusive, HoldsPage,
                  Novel, New, ContentStored, OneItemPerVersion
    <2>3. Faultless => Faultless'
      BY <2>1 DEF Faultless, SoleHolder, Holds, RowsFit, RowFit, TotalsStay, Stays, Exhausted,
                  TerminalDone, Drained, NewestRefresh
    <2>4. QED
      BY <2>1, <2>2, <2>3 DEF IInv
  <1>5. QED
    BY <1>1, <1>2, <1>3, <1>4 DEF Next

\* The strengthening the theorems rest on: who holds which item, the totals
\* an open finishing transaction has read, the page's advisory lock, and what
\* a row's status says of it.
THEOREM InductiveInvariant == Spec => []IInv
  BY InitIInv, NextIInv, PTL DEF Spec

\* Every variable has its type.
THEOREM TypeCorrect == Spec => []TypeOK
  <1>1. IInv => TypeOK
    BY DEF IInv, Sound
  <1>2. QED
    BY <1>1, InductiveInvariant, PTL

\* A page's document versions have distinct checksums, each the business of
\* one item: _complete holds the page's advisory lock from its duplicate check
\* to its commit, whatever the other workers do.
THEOREM VersionsOnce == Spec => []OneItemPerVersion
  <1>1. IInv => OneItemPerVersion
    BY DEF IInv, Sound
  <1>2. QED
    BY <1>1, InductiveInvariant, PTL

\* Unless a reply was lost, a run that _refresh_run has reported as finished
\* has nothing left to acquire: totals that were read before another worker's
\* commit are never wrong about it.
THEOREM VerdictsSound == Spec => []RunVerdictSound
  <1>1. IInv => RunVerdictSound
    BY DEF IInv, Faultless, TerminalDone, RunVerdictSound, Done
  <1>2. QED
    BY <1>1, InductiveInvariant, PTL

\* Only the commit of an acquisition takes the source out of a refresh.
LEMMA RefreshLeaves ==
  ASSUME IInv, [Next]_vars, refresh = "REFRESHING", refresh' = "CURRENT", lost' = 0
  PROVE  lost = 0 /\ \E w \in Workers : Commit(w)
  <1>1. lost \in Nat
    BY DEF IInv, Sound, TypeOK
  <1>2. ~Administer
    BY DEF Administer, CreateRun, CreateRefreshRun, RefreshLifecycle, RefreshTransitions,
           AuthorizeAcquisition, DecideManifest
  <1>3. \A i \in Items : ~BackoffElapses(i)
    BY DEF BackoffElapses
  <1>4. refresh' # refresh
    OBVIOUS
  <1>5. ASSUME NEW w \in Workers,
               Acquire(w) \/ Process(w) \/ ReplyLost(w) \/ ProcessingReplyLost(w) \/ Crash(w)
        PROVE  lost = 0 /\ Commit(w)
    <2>1. ~Process(w)
      BY <1>4 DEF Process, ClaimProcessing, NoProcessing, LoadProcessing, StartProcessing, Persist,
                  Persisted, Replay, Replayed, PersistAborts, FailProcessing
    <2>2. ~ReplyLost(w) /\ ~ProcessingReplyLost(w)
      BY <1>1 DEF ReplyLost, ProcessingReplyLost, LoseReply
    <2>3. ~Crash(w)
      BY <1>4 DEF Crash
    <2>4. Acquire(w) => Commit(w)
      BY <1>4 DEF Acquire, ClaimAcquisition, NoAcquisition, Load, Fetch, Begin, Abort
    <2>5. QED
      BY <1>5, <2>1, <2>2, <2>3, <2>4 DEF Commit, faults
  <1>6. QED
    BY <1>2, <1>3, <1>4, <1>5 DEF Next, vars

\* A row of a refresh that is neither pending nor stale is unchanged.
LEMMA UnchangedRow ==
  ASSUME NEW x \in Rows, RowShape(x), x.status # "ABSENT", ~Pending(x), ~Stale(x),
         x.status \in Skipped \cup {"ACQUIRED"} => x.class \in Changes \cup {"UNCHANGED"}
  PROVE  x.class = "UNCHANGED" /\ ~Failed(x)
  BY DEF RowShape, Pending, Stale, Failed, Settled

\* Unless a reply was lost, _complete_refresh_source returns the source to
\* CURRENT only when the newest refresh run found every page unchanged.
THEOREM RefreshesSound == Spec => RefreshVerdictSound
  <1>1. ASSUME IInv, [Next]_vars, lost' = 0, refresh = "REFRESHING", refresh' = "CURRENT"
        PROVE  \A j \in Items : PageOf(j) \in budget.pages /\ NewestRefresh(RunOf(j)) =>
                  item'[j].class = "UNCHANGED" /\ ~Failed(item'[j])
    <2> SUFFICES ASSUME NEW j \in Items, PageOf(j) \in budget.pages, NewestRefresh(RunOf(j))
                 PROVE  item'[j].class = "UNCHANGED" /\ ~Failed(item'[j])
      OBVIOUS
    <2>1. IInv'
      BY <1>1, NextIInv
    <2>2. PICK w \in Workers : Commit(w) /\ lost = 0
      BY <1>1, RefreshLeaves
    <2> DEFINE r == RunOf(job[w])
    <2>3. /\ pc[w] = "commit" /\ refresh' = RefreshVerdict(item', r)
          /\ UNCHANGED <<runType, budget>>
      BY <2>2 DEF Commit, Finish, admin
    <2>4. /\ runType[r] = "REFRESH"
          /\ \A p \in Pages : ~Pending(item'[<<r, p>>]) /\ ~Stale(item'[<<r, p>>])
      BY <1>1, <2>3, RefreshMoves
    <2>5. job[w] \in Items /\ ~Done(item[job[w]])
      BY <1>1, <2>2, <2>3 DEF IInv, Sound, WorkersFit, Fit, Faultless, SoleHolder, Holds, Acquiring, Done
    <2>6. NewestRefresh(r)
      BY <1>1, <2>2, <2>4, <2>5 DEF IInv, Faultless, Drained
    <2>7. r \in Runs /\ RunOf(j) \in Runs /\ PageOf(j) \in Pages /\ j = <<RunOf(j), PageOf(j)>>
      BY <2>5, ItemParts
    <2> HIDE DEF r
    <2>8. RunOf(j) = r
      BY <2>6, <2>7 DEF NewestRefresh, Runs
    <2>9. ~Pending(item'[j]) /\ ~Stale(item'[j])
      BY <2>4, <2>7, <2>8
    <2>10. /\ item'[j] \in Rows /\ RowShape(item'[j]) /\ item'[j].status # "ABSENT"
           /\ item'[j].status \in Skipped \cup {"ACQUIRED"} => item'[j].class \in Changes \cup {"UNCHANGED"}
      <3>1. item' \in [Items -> Rows] /\ RowFit(j)'
        BY <1>1, <2>1 DEF IInv, Sound, TypeOK, Faultless, RowsFit
      <3>2. QED
        BY <2>3, <2>4, <2>8, <3>1 DEF RowFit
    <2>11. QED
      BY <2>9, <2>10, UnchangedRow
  <1>2. IInv /\ [Next]_vars =>
          (lost' = 0 /\ refresh = "REFRESHING" /\ refresh' = "CURRENT" =>
             \A i \in Items : PageOf(i) \in budget.pages /\ NewestRefresh(RunOf(i)) =>
                item'[i].class = "UNCHANGED" /\ ~Failed(item'[i]))
    BY <1>1
  <1>3. QED
    BY <1>2, InductiveInvariant, PTL DEF Spec, RefreshVerdictSound

-----------------------------------------------------------------------------
(* A stale item stays out of reach.                                        *)

\* The row keeps its stage and the versions it is pinned to.
Kept(i) ==
    /\ item'[i].status # "ABSENT" /\ item'[i].stage = item[i].stage
    /\ item'[i].source = item[i].source /\ item'[i].manifest = item[i].manifest

\* Row versions only grow: an item that is out of date stays out of date.
LEMMA StaleStays ==
  ASSUME IInv, NEW i \in Items, Kept(i), ~Fresh(i),
         srcVersion' \in Nat, srcVersion <= srcVersion',
         manVersion'[PageOf(i)] \in Nat, manVersion[PageOf(i)] <= manVersion'[PageOf(i)]
  PROVE  ~Fresh(i)'
  <1>1. /\ item[i].source \in Nat /\ item[i].manifest \in Nat /\ srcVersion \in Nat
        /\ manVersion[PageOf(i)] \in Nat
        /\ item[i].source <= srcVersion /\ item[i].manifest <= manVersion[PageOf(i)]
    BY ItemParts DEF IInv, Sound, TypeOK, Pinned, Rows
  <1>2. item[i].source < srcVersion \/ item[i].manifest < manVersion[PageOf(i)]
    BY <1>1 DEF Fresh
  <1>3. item'[i].source < srcVersion' \/ item'[i].manifest < manVersion'[PageOf(i)]
    BY <1>1, <1>2 DEF Kept
  <1>4. item'[i].source \in Nat /\ item'[i].manifest \in Nat
    BY <1>1 DEF Kept
  <1>5. QED
    BY <1>3, <1>4 DEF Fresh

\* A worker that is on another item writes another row.
LEMMA OtherRow ==
  ASSUME IInv, NEW i \in Items, Doomed(i), NEW j \in Items, NEW y, j # i,
         item' = [item EXCEPT ![j] = y]
  PROVE  Kept(i)
  BY DEF IInv, Sound, TypeOK, Kept, Doomed

LEMMA SameRow ==
  ASSUME NEW i \in Items, Doomed(i), UNCHANGED item
  PROVE  Kept(i)
  BY DEF Kept, Doomed

\* What a worker's step makes of a doomed item, and where it leaves itself.
Harmless(i, w) ==
    /\ Kept(i) /\ UNCHANGED <<srcVersion, manVersion>>
    /\ Waits(i, w)'
    /\ \A v \in Workers \ {w} : SameLocal(v)

\* Ends of attempts, and the except branches, are harmless.
LEMMA OverHarmless ==
  ASSUME IInv, NEW i \in Items, NEW w \in Workers, Over(w)
  PROVE  Waits(i, w)' /\ \A v \in Workers \ {w} : SameLocal(v)
  BY OverLocal DEF Waits

LEMMA GotoHarmless ==
  ASSUME IInv, NEW i \in Items, NEW w \in Workers, NEW s \in Steps, NEW x \in Verdicts,
         Goto(w, s), verdict' = [verdict EXCEPT ![w] = x], UNCHANGED <<job, seen>>,
         job[w] # i \/ (s \in {"begin", "commit"} /\ x \in {"blocked", "retry"})
  PROVE  Waits(i, w)' /\ \A v \in Workers \ {w} : SameLocal(v)
  BY GotoLocal DEF Waits

\* A permission block or a failure leaves the item in stage ACQUISITION.
LEMMA FinishKeeps ==
  ASSUME IInv, NEW i \in Items, Doomed(i), NEW w \in Workers, Finish(w)
  PROVE  Kept(i) /\ UNCHANGED <<srcVersion, manVersion>>
  <1>1. pc[w] = "commit" /\ UNCHANGED <<srcVersion, manVersion>>
    BY DEF Finish, admin
  <1>2. PICK y \in Rows :
           Concluded(w, y) /\ \A j \in Items : item'[j] = IF j = job[w] THEN y ELSE item[j]
    BY FinishWrites
  <1>3. CASE job[w] # i
    BY <1>1, <1>2, <1>3 DEF Kept, Doomed
  <1>4. CASE job[w] = i
    <2>1. verdict[w] \in {"blocked", "retry"}
      BY <1>1, <1>4 DEF Doomed, Waits
    <2>2. Finished(w, verdict[w]).stage = item[i].stage /\ item' = [item EXCEPT ![i] = Finished(w, verdict[w])]
      <3>1. item[i] \in Rows
        BY DEF IInv, Sound, TypeOK
      <3>2. CASE verdict[w] = "blocked"
        BY <1>4, <3>1, <3>2 DEF Finished, Finish, Rows
      <3>3. CASE verdict[w] = "retry"
        BY <1>4, <3>1, <3>3 DEF Finished, Finish, Rows
      <3>4. QED
        BY <2>1, <3>2, <3>3
    <2>3. item'[i] = y /\ item'[i].stage = item[i].stage
      BY <1>2, <1>4, <2>2 DEF IInv, Sound, TypeOK
    <2>4. QED
      BY <1>1, <1>2, <1>4, <2>3 DEF Kept, Concluded
  <1>5. QED
    BY <1>3, <1>4

\* The gate after _load sends a stale item to _blocked.
LEMMA AcquireHarmless ==
  ASSUME IInv, NEW i \in Items, Doomed(i), NEW w \in Workers, Acquire(w)
  PROVE  Harmless(i, w)
  <1>1. Waits(i, w) /\ ~Permitted(i)
    BY DEF Doomed, Permitted
  <1>2. ASSUME NEW j \in Items, ClaimAcquisition(w, j) PROVE Harmless(i, w)
    <2>1. /\ item' = [item EXCEPT ![j].status = "ACQUIRING", ![j].tries = @ + 1]
          /\ UNCHANGED <<srcVersion, manVersion, verdict, seen>>
          /\ job' = [job EXCEPT ![w] = j] /\ pc' = [pc EXCEPT ![w] = "load"]
      BY <1>2 DEF ClaimAcquisition, Goto, admin
    <2>2. Kept(i)
      BY <2>1 DEF Kept, Doomed, IInv, Sound, TypeOK, Rows
    <2>3. Waits(i, w)' /\ \A v \in Workers \ {w} : SameLocal(v)
      BY <2>1 DEF Waits, SameLocal, IInv, Sound, TypeOK
    <2>4. QED
      BY <2>1, <2>2, <2>3 DEF Harmless
  <1>3. CASE NoAcquisition(w)
    <2>1. UNCHANGED <<item, srcVersion, manVersion, job, verdict, seen>> /\ pc' = [pc EXCEPT ![w] = "proc"]
      BY <1>3 DEF NoAcquisition, Goto, admin
    <2>2. Waits(i, w)' /\ \A v \in Workers \ {w} : SameLocal(v)
      BY <2>1 DEF Waits, SameLocal, IInv, Sound, TypeOK
    <2>3. QED
      BY <2>1, <2>2, SameRow DEF Harmless
  <1>4. CASE Load(w)
    <2>1. /\ UNCHANGED <<item, srcVersion, manVersion, job>>
          /\ \A v \in Workers \ {w} : SameLocal(v)
      BY <1>4 DEF Load, Goto, admin, SameLocal, IInv, Sound, TypeOK
    <2>2. job[w] = i => pc'[w] = "begin" /\ verdict'[w] = "blocked"
      BY <1>1, <1>4 DEF Load, Goto, IInv, Sound, TypeOK
    <2>3. QED
      BY <2>1, <2>2, SameRow DEF Harmless, Waits
  <1>5. ASSUME NEW x \in Verdicts, NEW c \in budget.contents \cup {None}, Fetch(w, x, c)
        PROVE  Harmless(i, w)
    <2>1. /\ UNCHANGED <<item, srcVersion, manVersion, job>> /\ pc[w] = "fetch"
          /\ \A v \in Workers \ {w} : SameLocal(v)
      BY <1>5 DEF Fetch, Goto, admin, SameLocal, IInv, Sound, TypeOK
    <2>2. job[w] # i
      BY <1>1, <2>1 DEF Waits
    <2>3. QED
      BY <2>1, <2>2, SameRow DEF Harmless, Waits
  <1>6. CASE Begin(w)
    <2>1. /\ UNCHANGED <<item, srcVersion, manVersion, job>> /\ pc[w] = "begin"
          /\ \A v \in Workers \ {w} : SameLocal(v)
      BY <1>6 DEF Begin, Goto, admin, SameLocal, IInv, Sound, TypeOK
    <2>2. pc'[w] = "commit" /\ verdict'[w] = Resolved(w)
      BY <1>6 DEF Begin, Goto, IInv, Sound, TypeOK
    <2>3. job[w] = i => Resolved(w) \in {"blocked", "retry"}
      BY <1>1, <2>1 DEF Waits, Resolved
    <2>4. QED
      BY <2>1, <2>2, <2>3, SameRow DEF Harmless, Waits
  <1>7. CASE Commit(w)
    BY <1>7, FinishKeeps, OverHarmless DEF Commit, Harmless
  <1>8. CASE Abort(w)
    <2>1. /\ UNCHANGED <<item, srcVersion, manVersion>>
          /\ Goto(w, "begin") /\ verdict' = [verdict EXCEPT ![w] = "retry"] /\ UNCHANGED <<job, seen>>
      BY <1>8 DEF Abort, Caught, admin
    <2>2. "begin" \in Steps /\ "retry" \in Verdicts
      BY DEF Steps, Verdicts
    <2>3. QED
      BY <2>1, <2>2, GotoHarmless, SameRow DEF Harmless
  <1>9. QED
    BY <1>2, <1>3, <1>4, <1>5, <1>6, <1>7, <1>8 DEF Acquire

\* The processing worker is never on an item in stage ACQUISITION.
LEMMA ProcessHarmless ==
  ASSUME IInv, NEW i \in Items, Doomed(i), NEW w \in Workers,
         Process(w) \/ ProcessingReplyLost(w)
  PROVE  Harmless(i, w)
  <1>1. pc[w] \in Processing => job[w] # i /\ job[w] \in Items
    BY AtProcessing DEF Doomed, Waits, Processing
  <1>2. ASSUME NEW j \in Items, ClaimProcessing(w, j) PROVE Harmless(i, w)
    <2>1. /\ item' = [item EXCEPT ![j].status = "EXTRACTING", ![j].ptries = @ + 1]
          /\ UNCHANGED <<srcVersion, manVersion, verdict, seen>>
          /\ job' = [job EXCEPT ![w] = j] /\ pc' = [pc EXCEPT ![w] = "pload"]
          /\ j # i
      BY <1>2 DEF ClaimProcessing, Processable, Goto, admin, Doomed
    <2>2. Kept(i)
      BY <2>1 DEF Kept, Doomed, IInv, Sound, TypeOK, Rows
    <2>3. Waits(i, w)' /\ \A v \in Workers \ {w} : SameLocal(v)
      BY <2>1 DEF Waits, SameLocal, IInv, Sound, TypeOK
    <2>4. QED
      BY <2>1, <2>2, <2>3 DEF Harmless
  <1>3. CASE NoProcessing(w)
    <2>1. UNCHANGED <<item, srcVersion, manVersion, job, verdict, seen>> /\ pc' = [pc EXCEPT ![w] = "acq"]
      BY <1>3 DEF NoProcessing, Goto, admin
    <2>2. Waits(i, w)' /\ \A v \in Workers \ {w} : SameLocal(v)
      BY <2>1 DEF Waits, SameLocal, IInv, Sound, TypeOK
    <2>3. QED
      BY <2>1, <2>2, SameRow DEF Harmless
  <1>4. CASE LoadProcessing(w)
    <2>1. UNCHANGED <<item, srcVersion, manVersion>> /\ pc[w] \in Processing
      BY <1>4 DEF LoadProcessing, admin, Processing
    <2>2. CASE Over(w)
      BY <2>1, <2>2, OverHarmless, SameRow DEF Harmless
    <2>3. CASE ~Over(w)
      <3>1. UNCHANGED job /\ \A v \in Workers \ {w} : SameLocal(v)
        BY <1>4, <2>3 DEF LoadProcessing, Goto, SameLocal, IInv, Sound, TypeOK
      <3>2. QED
        BY <1>1, <2>1, <3>1, SameRow DEF Harmless, Waits
    <2>4. QED
      BY <2>2, <2>3
  <1>5. ASSUME NEW x \in Verdicts, StartProcessing(w, x) PROVE Harmless(i, w)
    <2>1. /\ UNCHANGED <<srcVersion, manVersion, job>> /\ pc[w] \in Processing
          /\ \A v \in Workers \ {w} : SameLocal(v)
      BY <1>5 DEF StartProcessing, Goto, admin, SameLocal, IInv, Sound, TypeOK, Processing
    <2>2. UNCHANGED item \/ item' = [item EXCEPT ![job[w]].processing = "RUNNING"]
      BY <1>5 DEF StartProcessing
    <2>3. Kept(i)
      BY <1>1, <2>1, <2>2 DEF Kept, Doomed, IInv, Sound, TypeOK
    <2>4. QED
      BY <1>1, <2>1, <2>3 DEF Harmless, Waits
  <1>6. ASSUME Persisted(w) \/ Replayed(w) \/ FailProcessing(w)
        PROVE  Kept(i) /\ UNCHANGED <<srcVersion, manVersion>> /\ pc[w] \in Processing
    <2>1. UNCHANGED <<srcVersion, manVersion>> /\ pc[w] \in Processing
      BY <1>6 DEF Persisted, Replayed, FailProcessing, admin, Processing
    <2>2. PICK y : item' = [item EXCEPT ![job[w]] = y]
      <3>1. CASE FailProcessing(w)
        BY <3>1 DEF FailProcessing
      <3>2. CASE Persisted(w) \/ Replayed(w)
        BY <3>2, PersistedRow, ReplayedRow
      <3>3. QED
        BY <1>6, <3>1, <3>2
    <2>3. QED
      BY <1>1, <2>1, <2>2, OtherRow
  <1>7. CASE Persist(w) \/ Replay(w) \/ FailProcessing(w)
    BY <1>6, <1>7, OverHarmless DEF Persist, Replay, FailProcessing, Harmless
  <1>8. "pfail" \in Steps /\ "retry" \in Verdicts
    BY DEF Steps, Verdicts
  <1>9. CASE PersistAborts(w)
    <2>1. UNCHANGED <<item, srcVersion, manVersion>> /\ pc[w] \in Processing /\ CaughtProcessing(w)
      BY <1>9 DEF PersistAborts, admin, Processing
    <2>2. QED
      BY <1>1, <1>8, <2>1, GotoHarmless, SameRow DEF CaughtProcessing, Harmless
  <1>10. CASE ProcessingReplyLost(w)
    <2>1. Kept(i) /\ UNCHANGED <<srcVersion, manVersion>> /\ pc[w] \in Processing /\ CaughtProcessing(w)
      BY <1>6, <1>10 DEF ProcessingReplyLost
    <2>2. QED
      BY <1>1, <1>8, <2>1, GotoHarmless DEF CaughtProcessing, Harmless
  <1>11. CASE Process(w)
    BY <1>2, <1>3, <1>4, <1>5, <1>7, <1>9, <1>11 DEF Process
  <1>12. QED
    BY <1>10, <1>11

\* A doomed item stays doomed, whatever administrators and workers do.
LEMMA HarmlessDoomed ==
  ASSUME IInv, IInv', NEW i \in Items, Doomed(i), NEW w \in Workers, Harmless(i, w)
  PROVE  Doomed(i)'
  <1>1. /\ Kept(i) /\ UNCHANGED <<srcVersion, manVersion>>
        /\ Waits(i, w)' /\ \A v \in Workers \ {w} : SameLocal(v)
    BY DEF Harmless
  <1>2. srcVersion \in Nat /\ manVersion[PageOf(i)] \in Nat
    BY ItemParts DEF IInv, Sound, TypeOK
  <1>3. ~Fresh(i)'
    BY <1>1, <1>2, StaleStays DEF Doomed
  <1>4. \A v \in Workers : Waits(i, v)'
    BY <1>1 DEF Doomed, Waits, SameLocal
  <1>5. QED
    BY <1>1, <1>3, <1>4 DEF Doomed, Kept

LEMMA DoomedStays ==
  ASSUME NEW i \in Items, IInv, [Next]_vars, Doomed(i)
  PROVE  Doomed(i)'
  <1>1. IInv'
    BY NextIInv
  <1>2. srcVersion \in Nat /\ manVersion \in [Pages -> Nat] /\ PageOf(i) \in Pages
    BY ItemParts DEF IInv, Sound, TypeOK
  <1>3. srcVersion' \in Nat /\ manVersion'[PageOf(i)] \in Nat
    BY <1>1, ItemParts DEF IInv, Sound, TypeOK
  <1>4. CASE Administer
    <2>1. UNCHANGED <<pc, job, verdict>>
      BY <1>4 DEF Administer, CreateRun, CreateRefreshRun, Insert, RefreshLifecycle,
                  AuthorizeAcquisition, DecideManifest, Edit, local
    <2>2. ASSUME NEW r \in Runs, NEW P, NEW type, Insert(r, P, type)
          PROVE  item'[i] = item[i] /\ UNCHANGED <<srcVersion, manVersion>>
      <3>1. RunOf(i) # r
        BY <2>2 DEF Insert, Doomed, IInv, Sound, RunsFit
      <3>2. QED
        BY <2>2, <3>1 DEF Insert
    <2>3. ASSUME Edit PROVE item'[i] = item[i]
      BY <2>3 DEF Edit
    <2>4. /\ item'[i] = item[i] /\ srcVersion <= srcVersion'
          /\ manVersion[PageOf(i)] <= manVersion'[PageOf(i)]
      <3>1. CASE \E r \in Runs, P \in (SUBSET budget.pages) \ {{}} : CreateRun(r, P)
        BY <1>2, <2>2, <3>1 DEF CreateRun
      <3>2. CASE \E r \in Runs : CreateRefreshRun(r)
        BY <1>2, <2>2, <3>2 DEF CreateRefreshRun
      <3>3. CASE \E target \in Refreshes : RefreshLifecycle(target)
        BY <1>2, <2>3, <3>3 DEF RefreshLifecycle
      <3>4. CASE \E approved \in BOOLEAN : AuthorizeAcquisition(approved)
        BY <1>2, <2>3, <3>4 DEF AuthorizeAcquisition
      <3>5. CASE \E p \in budget.pages : DecideManifest(p)
        BY <1>2, <2>3, <3>5 DEF DecideManifest
      <3>6. QED
        BY <1>4, <3>1, <3>2, <3>3, <3>4, <3>5 DEF Administer
    <2>5. Kept(i)
      BY <2>4 DEF Kept, Doomed
    <2>6. ~Fresh(i)'
      BY <1>3, <2>4, <2>5, StaleStays DEF Doomed
    <2>7. QED
      BY <2>1, <2>5, <2>6 DEF Doomed, Kept, Waits
  <1>5. ASSUME UNCHANGED <<srcVersion, manVersion, pc, job, verdict>>, Kept(i) PROVE Doomed(i)'
    <2>1. ~Fresh(i)'
      BY <1>2, <1>3, <1>5, StaleStays DEF Doomed
    <2>2. QED
      BY <1>5, <2>1 DEF Doomed, Kept, Waits
  <1>6. ASSUME NEW j \in Items, BackoffElapses(j) PROVE Doomed(i)'
    <2>1. UNCHANGED <<srcVersion, manVersion, pc, job, verdict>> /\ item' = [item EXCEPT ![j].due = TRUE]
      BY <1>6 DEF BackoffElapses, admin, local
    <2>2. Kept(i)
      BY <2>1 DEF Kept, Doomed, IInv, Sound, TypeOK, Rows
    <2>3. QED
      BY <1>5, <2>1, <2>2
  <1>7. ASSUME NEW w \in Workers,
               Acquire(w) \/ Process(w) \/ ReplyLost(w) \/ ProcessingReplyLost(w) \/ Crash(w)
        PROVE  Doomed(i)'
    <2>1. Harmless(i, w)
      <3>1. CASE ReplyLost(w)
        <4>1. /\ Finish(w) /\ Goto(w, "begin") /\ verdict' = [verdict EXCEPT ![w] = "retry"]
              /\ UNCHANGED <<job, seen>>
          BY <3>1 DEF ReplyLost, Caught
        <4>2. "begin" \in Steps /\ "retry" \in Verdicts
          BY DEF Steps, Verdicts
        <4>3. QED
          BY <4>1, <4>2, FinishKeeps, GotoHarmless DEF Harmless
      <3>2. CASE Crash(w)
        <4>1. UNCHANGED <<item, srcVersion, manVersion>> /\ Over(w)
          BY <3>2 DEF Crash, admin
        <4>2. QED
          BY <4>1, OverHarmless, SameRow DEF Harmless
      <3>3. QED
        BY <1>7, <3>1, <3>2, AcquireHarmless, ProcessHarmless
    <2>2. QED
      BY <1>1, <2>1, HarmlessDoomed
  <1>8. CASE UNCHANGED vars
    BY <1>5, <1>8, SameRow DEF vars
  <1>9. QED
    BY <1>4, <1>6, <1>7, <1>8 DEF Next

\* An item whose source or manifest entry changed while no worker held it is
\* never acquired afterwards: process_one compares the row versions the item is
\* pinned to before it fetches anything, at every attempt.
THEOREM StaleItemsNeverAcquired == Spec => StaleNeverAcquired
  <1>1. ASSUME NEW i \in Items PROVE Spec => [](StaleIdle(i) => [](item[i].stage = "ACQUISITION"))
    <2>1. StaleIdle(i) => Doomed(i)
      BY DEF StaleIdle, Doomed, Waits
    <2>2. IInv /\ [Next]_vars /\ Doomed(i) => Doomed(i)'
      BY DoomedStays
    <2>3. Doomed(i) => item[i].stage = "ACQUISITION"
      BY DEF Doomed
    <2>4. QED
      BY <2>1, <2>2, <2>3, InductiveInvariant, PTL DEF Spec
  <1>2. QED
    BY <1>1 DEF StaleNeverAcquired
=============================================================================
