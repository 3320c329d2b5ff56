---------------------------- MODULE Automation_proofs ----------------------------
(* Proofs that the invariants of Automation hold for any payloads and prices. *)
EXTENDS AutomationInvariant, TLAPS

USE AutomationAssumption

-----------------------------------------------------------------------------
(* Windows, pages and tasks *)

LEMMA WindowIsSlug ==
    ASSUME NEW p \in Cycles, NEW t \in 0..MaxTime, NEW k \in 0..(p.lookahead - 1)
    PROVE  Window(p, t, k) \in Slugs
BY DEF Slugs

LEMMA SlugTyped ==
    ASSUME NEW s \in Slugs
    PROVE  s.start \in Nat /\ s.interval \in Nat /\ EndOf(s) \in Nat
<1>0. PICK p \in Cycles : s \in {Window(p, t, k) : t \in 0..MaxTime, k \in 0..(p.lookahead - 1)}
  BY DEF Slugs
<1>1. PICK t \in 0..MaxTime, k \in 0..(p.lookahead - 1) : s = Window(p, t, k)
  BY <1>0
<1>2. p.interval \in Nat \ {0} /\ p.lookahead \in Nat \ {0}
  OBVIOUS
<1>3. t - (t % p.interval) \in Nat
  BY <1>2
<1>4. k * p.interval \in Nat
  BY <1>2
<1>5. s.start = (t - (t % p.interval)) + k * p.interval /\ s.interval = p.interval
  BY <1>1 DEF Window, WindowSlug, FloorToInterval
<1> QED
  BY <1>2, <1>3, <1>4, <1>5 DEF EndOf

LEMMA TimeTyped ==
    ASSUME TypeOK
    PROVE  now \in 0..MaxTime /\ scenario.until \in 0..MaxTime /\ scenario \in Scenarios
BY DEF TypeOK

LEMMA PageFacts ==
    ASSUME TypeOK, CreatedInv
    PROVE  /\ Page \subseteq Slugs
           /\ \A s \in Page : market[s].status # "absent"
BY DEF TypeOK, CreatedInv, Page

LEMMA IdleFacts ==
    ASSUME TypeOK
    PROVE  Idle \in Task /\ TaskFacts(Idle)
BY TimeTyped DEF Idle, Task, TaskFacts, Phases, CyclePhases, RunPhases, Assertions, Undecided

\* A row that is created does not come before those of a request.
LEMMA ForemostStays ==
    ASSUME TypeOK, CreatedInv, NEW slugs \in SUBSET Slugs, \A s \in slugs : market[s].status # "absent",
           \/ created' = created
           \/ \E slug \in Slugs : market[slug].status = "absent" /\ created' = Append(created, slug),
           NEW s \in slugs, Foremost(s, slugs)'
    PROVE  Foremost(s, slugs)
<1>1. CASE created' = created
  BY <1>1 DEF Foremost
<1>2. CASE \E slug \in Slugs : market[slug].status = "absent" /\ created' = Append(created, slug)
  <2>1. PICK slug \in Slugs : market[slug].status = "absent" /\ created' = Append(created, slug)
    BY <1>2
  <2>2. created \in Seq(Slugs)
    BY DEF TypeOK
  <2>3. /\ DOMAIN created' = DOMAIN created \cup {Len(created) + 1}
        /\ created'[Len(created) + 1] = slug
        /\ \A i \in DOMAIN created : created'[i] = created[i]
    BY <2>1, <2>2
  <2> QED
    BY <2>1, <2>3 DEF Foremost
<1> QED
  BY <1>1, <1>2

\* What the facts of a task and of a call rest on: rows that stay, requests
\* that stay recorded, and time that goes on.
RowsStay ==
    \A s \in Slugs :
        /\ market[s].status # "absent" => market'[s].status # "absent"
        /\ market[s].requester # "none" => market'[s].requester = market[s].requester

LEMMA TaskFactsStay ==
    ASSUME TypeOK, CreatedInv, NEW t \in Task, TaskFacts(t), RowsStay,
           now' \in Nat, now' >= now, scenario' = scenario,
           \/ created' = created
           \/ \E slug \in Slugs : market[slug].status = "absent" /\ created' = Append(created, slug)
    PROVE  TaskFacts(t)'
<1>1. t.todo \in SUBSET Slugs
  BY DEF Task
<1>2. \A s \in t.todo : market[s].status # "absent" /\ market'[s].status # "absent"
  BY <1>1 DEF TaskFacts, RowsStay
<1>3. \A s \in t.todo : Foremost(s, t.todo)' => Foremost(s, t.todo)
  BY <1>1, <1>2, ForemostStays
<1>4. \A s \in t.todo : EndOf(s) <= now => EndOf(s) <= now'
  BY <1>1, SlugTyped, TimeTyped
<1>5. (~Live)' => ~Live
  BY DEF Live
<1>6. \A s \in t.todo : market[s].requester # "none" => market'[s].requester # "none"
  BY <1>1 DEF RowsStay
<1>7. t.phase = "opening" => market'[Window(t.job, t.at, t.offset - 1)].status # "absent"
  <2>1. SUFFICES ASSUME t.phase = "opening"
                 PROVE  market'[Window(t.job, t.at, t.offset - 1)].status # "absent"
    OBVIOUS
  <2>2. t.job \in Cycles /\ t.offset - 1 \in 0..(t.job.lookahead - 1) /\ t.at \in 0..MaxTime
    BY <2>1 DEF TaskFacts, CyclePhases, Task
  <2>3. Window(t.job, t.at, t.offset - 1) \in Slugs
    BY <2>2, WindowIsSlug
  <2> QED
    BY <2>1, <2>3 DEF TaskFacts, RowsStay
<1> QED
  BY <1>2, <1>3, <1>4, <1>5, <1>6, <1>7 DEF TaskFacts, IsRight

LEMMA CallFactsStay ==
    ASSUME NEW c \in Call, CallFacts(c), RowsStay, scenario' = scenario
    PROVE  CallFacts(c)'
<1>1. c.slug \in Slugs
  BY DEF Call
<1>2. (~Live)' => ~Live
  BY DEF Live
<1> QED
  BY <1>1, <1>2 DEF CallFacts, RowsStay

-----------------------------------------------------------------------------
(* What a step may do to the rows, and what to a task *)

TaskMoves ==
    \/ task' = task
    \/ \E w \in Workers, t \in Task : TaskFacts(t) /\ task' = [task EXCEPT ![w] = t]

RowMoves ==
    \A s \in Slugs :
        market'[s] # market[s] =>
            /\ RowFacts(market'[s], s)
            /\ market[s].status # "absent" /\ market'[s].status # "absent"
            /\ market[s].requester # "none" => market'[s].requester = market[s].requester

CallMoves == \A c \in handling' : c \in Call /\ (c \in handling \/ CallFacts(c))

\* A step that creates no row keeps the invariant.
LEMMA StepKeeps ==
    ASSUME IInv, TaskMoves, RowMoves, CallMoves, scenario' = scenario, created' = created,
           now' \in 0..scenario.until, now' >= now, sourced' \in BOOLEAN,
           crashes' \in 0..scenario.crashes, calls' \in 0..scenario.calls,
           market' \in [Slugs -> Row], chain' \in [Slugs -> Assertions]
    PROVE  IInv'
<1> USE DEF IInv
<1>1. task' \in [Workers -> Task]
  BY DEF TypeOK, TaskMoves
<1>2. TypeOK'
  BY <1>1 DEF TypeOK, CallMoves
<1>3. CreatedInv'
  BY DEF CreatedInv, RowMoves
<1>4. Live' = Live
  BY DEF Live
<1>5. now \in Nat /\ now' \in Nat
  BY TimeTyped
<1>6. RowsStay
  BY DEF RowMoves, RowsStay
<1>7. MarketInv'
  <2>1. ASSUME NEW s \in Slugs, NEW row, RowFacts(row, s)
        PROVE  RowFacts(row, s)'
    BY <2>1, <1>4, <1>5, SlugTyped DEF RowFacts, IsRight
  <2>2. \A s \in Slugs : RowFacts(market'[s], s)
    BY DEF MarketInv, RowMoves
  <2>3. \A s \in Slugs : RowFacts(market[s], s)'
    BY <2>1, <2>2
  <2> QED
    BY <2>3 DEF MarketInv
<1>8. TaskInv'
  <2>1. ASSUME NEW t \in Task, TaskFacts(t)
        PROVE  TaskFacts(t)'
    BY <2>1, <1>5, <1>6, TaskFactsStay
  <2>2. \A w \in Workers : task'[w] \in Task /\ TaskFacts(task'[w])
    BY <1>1 DEF TaskInv, TaskMoves, TypeOK
  <2> QED
    BY <2>1, <2>2 DEF TaskInv
<1>9. CallInv'
  <2>1. \A c \in handling' : c \in Call /\ CallFacts(c)
    BY DEF CallMoves, CallInv
  <2>2. \A c \in handling' : CallFacts(c)'
    BY <2>1, <1>6, CallFactsStay
  <2> QED
    BY <2>2 DEF CallInv
<1> QED
  BY <1>2, <1>3, <1>7, <1>8, <1>9

\* A task that goes on to the next market, or ends.
LEMMA NextDueMoves ==
    ASSUME IInv, NEW w \in Workers, NEW slug \in task[w].todo, NEW phase \in {"due", "inspect"},
           phase = "due" => task[w].phase \in CyclePhases,
           phase = "inspect" => task[w].phase \in RunPhases,
           NextDue(w, slug, phase)
    PROVE  TaskMoves
<1> USE DEF IInv
<1>1. CASE task[w].todo = {slug}
  BY <1>1, IdleFacts DEF NextDue, Stops, TaskMoves
<1>2. CASE task[w].todo # {slug}
  <2> DEFINE t == [task[w] EXCEPT !.phase = phase, !.todo = @ \ {slug}, !.seen = "none", !.winner = "none"]
  <2>1. task[w] \in Task /\ TaskFacts(task[w])
    BY DEF TypeOK, TaskInv
  <2>2. t \in Task
    BY <2>1 DEF Task, Phases, Assertions
  <2>3. TaskFacts(t)
    BY <2>1 DEF Task, TaskFacts, CyclePhases, RunPhases, Undecided
  <2> QED
    BY <1>2, <2>2, <2>3 DEF NextDue, Goes, TaskMoves
<1> QED
  BY <1>1, <1>2

LEMMA TaskStepKeeps ==
    ASSUME IInv, TaskMoves, UNCHANGED <<now, scenario, sourced, market, created, chain, crashes, calls, handling>>
    PROVE  IInv'
<1>1. RowMoves /\ CallMoves
  BY DEF RowMoves, CallMoves, IInv, TypeOK
<1>2. now' >= now
  BY TimeTyped DEF IInv
<1> QED
  BY <1>1, <1>2, StepKeeps DEF IInv, TypeOK

\* A step that only changes a row, and perhaps the task or the call that made it.
LEMMA RowStepKeeps ==
    ASSUME IInv, TaskMoves, RowMoves, market' \in [Slugs -> Row],
           UNCHANGED <<now, scenario, sourced, created, crashes, calls>>,
           chain' \in [Slugs -> Assertions], handling' \subseteq handling
    PROVE  IInv'
<1>1. now' >= now
  BY TimeTyped DEF IInv
<1>2. /\ now' \in 0..scenario.until /\ sourced' \in BOOLEAN /\ crashes' \in 0..scenario.crashes
      /\ calls' \in 0..scenario.calls
  BY DEF IInv, TypeOK
<1>3. CallMoves
  BY DEF CallMoves, IInv, TypeOK
<1> QED
  BY <1>1, <1>2, <1>3, StepKeeps

-----------------------------------------------------------------------------
(* The rolling cycle *)

LEMMA StartCycleKeeps ==
    ASSUME IInv, NEW w \in Workers, NEW p \in Cycles, StartCycle(w, p)
    PROVE  IInv'
<1> USE DEF IInv
<1> DEFINE t == [task[w] EXCEPT !.phase = "create", !.job = p, !.at = now, !.listed = Page,
                                !.todo = {s \in Page : p.request /\ IsDue(s, now)}]
<1>1. task[w] \in Task /\ TaskFacts(task[w])
  BY DEF TypeOK, TaskInv
<1>2. t \in Task
  BY <1>1, PageFacts, TimeTyped DEF Task, Phases
<1>3. TaskFacts(t)
  BY <1>1, PageFacts DEF Task, TaskFacts, CyclePhases, RunPhases, IsDue, Elapsed
<1> QED
  BY <1>2, <1>3, TaskStepKeeps DEF StartCycle, Goes, TaskMoves

LEMMA SkipExistingKeeps ==
    ASSUME IInv, NEW w \in Workers, SkipExisting(w)
    PROVE  IInv'
<1> USE DEF IInv
<1> DEFINE t == [task[w] EXCEPT !.offset = @ + 1]
<1>1. task[w] \in Task /\ TaskFacts(task[w]) /\ task[w].phase = "create"
  BY DEF TypeOK, TaskInv, SkipExisting
<1>2. t \in Task
  BY <1>1 DEF Task
<1>3. TaskFacts(t)
  BY <1>1 DEF Task, TaskFacts, CyclePhases, RunPhases
<1> QED
  BY <1>2, <1>3, TaskStepKeeps DEF SkipExisting, Goes, TaskMoves

LEMMA ReadSourceKeeps ==
    ASSUME IInv, NEW w \in Workers, ReadSource(w)
    PROVE  IInv'
<1> USE DEF IInv
<1> DEFINE t == [task[w] EXCEPT !.phase = IF sourced THEN "insert" ELSE "source"]
<1>1. /\ task[w] \in Task /\ TaskFacts(task[w]) /\ task[w].phase = "create"
      /\ task[w].offset < task[w].job.lookahead
  BY DEF TypeOK, TaskInv, ReadSource
<1>2. t \in Task
  BY <1>1 DEF Task, Phases
<1>3. TaskFacts(t)
  BY <1>1 DEF Task, TaskFacts, CyclePhases, RunPhases
<1> QED
  BY <1>2, <1>3, TaskStepKeeps DEF ReadSource, Goes, TaskMoves

LEMMA CreateSourceKeeps ==
    ASSUME IInv, NEW w \in Workers, CreateSource(w)
    PROVE  IInv'
<1> USE DEF IInv
<1> DEFINE t == [task[w] EXCEPT !.phase = "insert"]
<1>1. task[w] \in Task /\ TaskFacts(task[w]) /\ task[w].phase = "source"
  BY DEF TypeOK, TaskInv, CreateSource
<1>2. t \in Task
  BY <1>1 DEF Task, Phases
<1>3. TaskFacts(t)
  BY <1>1 DEF Task, TaskFacts, CyclePhases, RunPhases
<1>4. TaskMoves
  BY <1>2, <1>3, IdleFacts DEF CreateSource, Goes, Stops, TaskMoves
<1>5. RowMoves /\ CallMoves /\ now' >= now
  BY TimeTyped DEF CreateSource, RowMoves, CallMoves, TypeOK
<1> QED
  BY <1>4, <1>5, StepKeeps DEF CreateSource, TypeOK

\* The row of the window that the task wants.
LEMMA WantedIsSlug ==
    ASSUME IInv, NEW w \in Workers, task[w].phase = "insert"
    PROVE  Wanted(w) \in Slugs
<1>1. task[w] \in Task /\ task[w].job \in Cycles /\ task[w].offset < task[w].job.lookahead
  BY DEF IInv, TypeOK, TaskInv, TaskFacts, CyclePhases
<1>2. task[w].offset \in 0..(task[w].job.lookahead - 1)
  BY <1>1 DEF Task
<1> QED
  BY <1>1, <1>2, WindowIsSlug DEF Wanted, Task

LEMMA CreateDirectMarketKeeps ==
    ASSUME IInv, NEW w \in Workers, CreateDirectMarket(w)
    PROVE  IInv'
<1> USE DEF IInv
<1> DEFINE slug == Wanted(w)
           phase == IF task[w].job.autoOpen THEN "open" ELSE "create"
           t == [task[w] EXCEPT !.phase = phase, !.listed = @ \cup {slug}, !.offset = @ + 1]
           row == [Absent EXCEPT !.status = "pending_liquidity", !.due = EndOf(slug)]
<1>1. task[w].phase = "insert" /\ slug \in Slugs
  BY WantedIsSlug DEF CreateDirectMarket
<1>2. CASE Taken(slug)
  BY <1>2, IdleFacts, TaskStepKeeps DEF CreateDirectMarket, Stops, TaskMoves
<1>3. CASE ~Taken(slug)
  <2>1. /\ market' = [market EXCEPT ![slug] = row]
        /\ created' = Append(created, slug)
        /\ task' = [task EXCEPT ![w] = t]
        /\ UNCHANGED <<now, scenario, sourced, chain, crashes, calls, handling>>
    BY <1>3 DEF CreateDirectMarket, Goes
  <2>2. market[slug].status = "absent" /\ created \in Seq(Slugs)
    BY <1>3 DEF Taken, TypeOK
  <2>3. row \in Row
    BY <1>1 DEF Row, Absent, Assertions, TradingStatuses, NoReference, Winners
  <2>4. /\ market' \in [Slugs -> Row]
        /\ market'[slug] = row
        /\ \A s \in Slugs \ {slug} : market'[s] = market[s]
    BY <1>1, <2>1, <2>3 DEF TypeOK
  <2>5. task[w] \in Task /\ TaskFacts(task[w])
    BY DEF TypeOK, TaskInv
  <2>6. t \in Task
    <3>1. phase \in Phases
      BY DEF Phases
    <3>2. task[w].listed \cup {slug} \in SUBSET Slugs /\ task[w].offset + 1 \in Nat
      BY <1>1, <2>5 DEF Task
    <3> HIDE DEF slug, phase
    <3> QED
      BY <2>5, <3>1, <3>2 DEF Task
  <2>7. TaskFacts(t)
    BY <1>1, <2>5 DEF Task, TaskFacts, CyclePhases, RunPhases
  <2>8. TypeOK'
    BY <1>1, <2>1, <2>2, <2>4, <2>6 DEF TypeOK
  <2>9. CreatedInv'
    <3>1. /\ DOMAIN created' = DOMAIN created \cup {Len(created) + 1}
          /\ created'[Len(created) + 1] = slug
          /\ \A i \in DOMAIN created : created'[i] = created[i]
      BY <1>1, <2>1, <2>2
    <3>2. \A i \in DOMAIN created : created[i] # slug
      BY <1>1, <2>2 DEF CreatedInv
    <3>3. IsInjective(created')
      BY <3>1, <3>2 DEF CreatedInv, IsInjective
    <3>4. row.status # "absent"
      BY DEF Absent
    <3>5. ASSUME NEW s \in Slugs
          PROVE  market'[s].status # "absent" <=> \E i \in DOMAIN created' : created'[i] = s
      <4>1. CASE s = slug
        BY <2>4, <3>1, <3>4, <4>1
      <4>2. CASE s # slug
        BY <2>4, <3>1, <4>2 DEF CreatedInv
      <4> QED
        BY <4>1, <4>2
    <3> QED
      BY <3>3, <3>5 DEF CreatedInv
  <2>10. MarketInv'
    <3>1. Live' = Live /\ now' = now
      BY <2>1 DEF Live
    <3>2. ASSUME NEW s \in Slugs, NEW r, RowFacts(r, s)
          PROVE  RowFacts(r, s)'
      BY <3>1, <3>2 DEF RowFacts, IsRight
    <3>3. \A s \in Slugs : RowFacts(market'[s], s)
      <4>1. RowFacts(row, slug)
        BY DEF RowFacts, Absent, PendingStatuses, Undecided
      <4>2. \A s \in Slugs : RowFacts(market[s], s)
        BY DEF MarketInv
      <4> HIDE DEF slug, row
      <4> QED
        BY <2>4, <4>1, <4>2
    <3>4. \A s \in Slugs : RowFacts(market[s], s)'
      BY <3>2, <3>3
    <3> QED
      BY <3>4 DEF MarketInv
  <2>11. RowsStay
    <3>1. market[slug].requester = "none"
      BY <1>1, <2>2 DEF MarketInv, RowFacts
    <3> HIDE DEF slug, row
    <3> QED
      BY <2>2, <2>4, <3>1 DEF RowsStay
  <2>12. TaskInv'
    <3>1. now' \in Nat /\ now' >= now
      BY <2>1, TimeTyped
    <3>2. \A u \in Task : TaskFacts(u) => TaskFacts(u)'
      BY <1>1, <2>1, <2>2, <2>11, <3>1, TaskFactsStay
    <3>3. \A v \in Workers : task'[v] \in Task /\ TaskFacts(task'[v])
      BY <2>1, <2>6, <2>7 DEF TypeOK, TaskInv
    <3> QED
      BY <3>2, <3>3 DEF TaskInv
  <2>13. CallInv'
    BY <2>1, <2>11, CallFactsStay DEF CallInv, TypeOK
  <2> QED
    BY <2>8, <2>9, <2>10, <2>12, <2>13
<1> QED
  BY <1>2, <1>3

LEMMA EndCreationKeeps ==
    ASSUME IInv, NEW w \in Workers, EndCreation(w)
    PROVE  IInv'
<1> USE DEF IInv
<1> DEFINE t == [task[w] EXCEPT !.phase = "due", !.at = 0, !.listed = {}, !.offset = 0]
<1>1. task[w] \in Task /\ TaskFacts(task[w]) /\ task[w].phase = "create"
  BY DEF TypeOK, TaskInv, EndCreation
<1>2. t \in Task
  <2>1. 0 \in 0..MaxTime /\ 0 \in Nat /\ {} \in SUBSET Slugs /\ "due" \in Phases
    BY DEF Phases
  <2> QED
    BY <1>1, <2>1 DEF Task
<1>3. TaskFacts(t)
  BY <1>1 DEF Task, TaskFacts, CyclePhases, RunPhases
<1> QED
  BY <1>2, <1>3, IdleFacts, TaskStepKeeps DEF EndCreation, Goes, Stops, TaskMoves

\* One row changes, to one whose facts hold.
LEMMA RowMoved ==
    ASSUME IInv, NEW slug \in Slugs, NEW row \in Row, RowFacts(row, slug),
           market[slug].status # "absent", row.status # "absent",
           market[slug].requester # "none" => row.requester = market[slug].requester,
           market' = [market EXCEPT ![slug] = row]
    PROVE  RowMoves /\ market' \in [Slugs -> Row]
BY DEF RowMoves, IInv, TypeOK

LEMMA CreatedIsSlug ==
    ASSUME IInv, NEW w \in Workers, task[w].phase \in {"open", "opening"}
    PROVE  Created(w) \in Slugs
<1>1. task[w] \in Task /\ task[w].job \in Cycles /\ task[w].offset - 1 \in 0..(task[w].job.lookahead - 1)
  BY DEF IInv, TypeOK, TaskInv, TaskFacts, CyclePhases
<1> QED
  BY <1>1, WindowIsSlug DEF Task, Created

LEMMA OpenCreatedKeeps ==
    ASSUME IInv, NEW w \in Workers, OpenCreated(w)
    PROVE  IInv'
<1> USE DEF IInv
<1> DEFINE t == [task[w] EXCEPT !.phase = "opening"]
<1>1. task[w] \in Task /\ TaskFacts(task[w]) /\ task[w].phase = "open"
  BY DEF TypeOK, TaskInv, OpenCreated
<1>2. CASE "open" \in AllowedNextStatuses(market[Created(w)].status)
  <2>1. market[Created(w)].status # "absent"
    BY <1>2 DEF AllowedNextStatuses
  <2>2. t \in Task
    BY <1>1 DEF Task, Phases
  <2>3. TaskFacts(t)
    BY <1>1, <2>1 DEF Task, TaskFacts, CyclePhases, RunPhases, Created
  <2>4. task' = [task EXCEPT ![w] = t]
    BY <1>2 DEF OpenCreated, Goes
  <2> QED
    BY <2>2, <2>3, <2>4, TaskStepKeeps DEF OpenCreated, TaskMoves
<1>3. CASE "open" \notin AllowedNextStatuses(market[Created(w)].status)
  BY <1>3, IdleFacts, TaskStepKeeps DEF OpenCreated, Stops, TaskMoves
<1> QED
  BY <1>2, <1>3

\* A status is written, whatever the row has become since the check.
LEMMA StatusMoves ==
    ASSUME IInv, NEW slug \in Slugs, market[slug].status # "absent", NEW status \in Statuses,
           market' = [market EXCEPT ![slug].status = status]
    PROVE  RowMoves /\ market' \in [Slugs -> Row]
<1> USE DEF IInv
<1> DEFINE row == [market[slug] EXCEPT !.status = status]
<1>1. market[slug] \in Row /\ RowFacts(market[slug], slug)
  BY DEF TypeOK, MarketInv
<1>2. row \in Row
  BY <1>1 DEF Row, Statuses
<1>3. RowFacts(row, slug)
  BY <1>1 DEF RowFacts, Row, Statuses, TradingStatuses, PendingStatuses
<1>4. row.status # "absent" /\ market' = [market EXCEPT ![slug] = row] /\ row.requester = market[slug].requester
  BY <1>1 DEF Row, Statuses, TradingStatuses
<1> QED
  BY <1>2, <1>3, <1>4, RowMoved

LEMMA OpenedKeeps ==
    ASSUME IInv, NEW w \in Workers, Opened(w)
    PROVE  IInv'
<1> USE DEF IInv
<1> DEFINE t == [task[w] EXCEPT !.phase = "create"]
<1>1. task[w] \in Task /\ TaskFacts(task[w]) /\ task[w].phase = "opening"
  BY DEF TypeOK, TaskInv, Opened
<1>2. Created(w) \in Slugs /\ market[Created(w)].status # "absent"
  BY <1>1, CreatedIsSlug DEF TaskFacts, Created
<1>3. RowMoves /\ market' \in [Slugs -> Row]
  BY <1>2, StatusMoves DEF Opened, Statuses, TradingStatuses
<1>4. t \in Task
  BY <1>1 DEF Task, Phases
<1>5. TaskFacts(t)
  BY <1>1 DEF Task, TaskFacts, CyclePhases, RunPhases
<1>6. TaskMoves
  BY <1>4, <1>5 DEF Opened, Goes, TaskMoves
<1> QED
  BY <1>3, <1>6, RowStepKeeps DEF Opened, TypeOK

\* What a settlement that is requested leaves, the rows and the chain.
LEMMA RequestedMoves ==
    ASSUME IInv, NEW slug \in Slugs, market[slug].status # "absent", Unresolved(slug),
           NEW requester \in {"user", "cycle"}, requester = "cycle" => EndOf(slug) <= now,
           Requested(slug, requester)
    PROVE  /\ RowMoves /\ market' \in [Slugs -> Row]
           /\ chain' \in [Slugs -> Assertions]
<1> USE DEF IInv
<1> DEFINE row == [market[slug] EXCEPT !.status = "awaiting_resolution", !.due = now + Liveness,
                                       !.requester = requester, !.known = "submitted"]
<1>1. market[slug] \in Row /\ RowFacts(market[slug], slug) /\ market[slug].requester = "none"
  BY DEF TypeOK, MarketInv, Unresolved
<1>2. now + Liveness \in 0..(MaxTime + Liveness)
  BY TimeTyped
<1>3. row \in Row
  BY <1>1, <1>2 DEF Row, PendingStatuses, Assertions
<1>4. RowFacts(row, slug)
  BY <1>1 DEF RowFacts, Row, PendingStatuses, Undecided
<1>5. market' = [market EXCEPT ![slug] = row]
  BY <1>1 DEF Requested, TypeOK, Row
<1>6. row.status # "absent"
  BY <1>1 DEF Row
<1>7. RowMoves /\ market' \in [Slugs -> Row]
  BY <1>1, <1>3, <1>4, <1>5, <1>6, RowMoved
<1>8. chain' \in [Slugs -> Assertions]
  BY DEF Requested, TypeOK, Assertions
<1> QED
  BY <1>7, <1>8

LEMMA RequestDueKeeps ==
    ASSUME IInv, NEW w \in Workers, NEW slug \in task[w].todo, RequestDue(w, slug)
    PROVE  IInv'
<1> USE DEF IInv
<1> DEFINE t == [task[w] EXCEPT !.phase = "requesting"]
<1>1. task[w] \in Task /\ TaskFacts(task[w]) /\ task[w].phase = "due"
  BY DEF TypeOK, TaskInv, RequestDue, Handles
<1>2. t \in Task
  BY <1>1 DEF Task, Phases
<1>3. TaskFacts(t)
  BY <1>1 DEF Task, TaskFacts, CyclePhases, RunPhases
<1> QED
  BY <1>2, <1>3, TaskStepKeeps DEF RequestDue, Goes, TaskMoves

LEMMA RequestRecordedKeeps ==
    ASSUME IInv, NEW w \in Workers, NEW slug \in task[w].todo, RequestRecorded(w, slug)
    PROVE  IInv'
<1> USE DEF IInv
<1> DEFINE t == [task[w] EXCEPT !.phase = "price"]
<1>1. task[w] \in Task /\ TaskFacts(task[w]) /\ task[w].phase = "requesting"
  BY DEF TypeOK, TaskInv, RequestRecorded, Handles
<1>2. slug \in Slugs /\ EndOf(slug) <= now /\ market[slug].status # "absent"
  BY <1>1 DEF Task, TaskFacts, CyclePhases
<1>3. t \in Task
  BY <1>1 DEF Task, Phases
<1>4. TaskFacts(t)
  BY <1>1 DEF Task, TaskFacts, CyclePhases, RunPhases
<1>5. TaskMoves
  <2>1. CASE task[w].job.finalize
    BY <1>3, <1>4, <2>1 DEF RequestRecorded, Goes, TaskMoves
  <2>2. CASE ~task[w].job.finalize
    BY <1>1, <2>2, NextDueMoves DEF RequestRecorded, CyclePhases
  <2> QED
    BY <2>1, <2>2
<1>6. /\ RowMoves /\ market' \in [Slugs -> Row]
      /\ chain' \in [Slugs -> Assertions]
  BY <1>2, RequestedMoves DEF RequestRecorded
<1> QED
  BY <1>5, <1>6, RowStepKeeps DEF RequestRecorded, TypeOK

LEMMA RequestFailsKeeps ==
    ASSUME IInv, NEW w \in Workers, NEW slug \in task[w].todo, RequestFails(w, slug)
    PROVE  IInv'
<1>1. task[w].phase \in CyclePhases
  BY DEF RequestFails, Handles, CyclePhases
<1> QED
  BY <1>1, NextDueMoves, TaskStepKeeps DEF RequestFails

LEMMA PriceFailsKeeps ==
    ASSUME IInv, NEW w \in Workers, NEW slug \in task[w].todo, PriceFails(w, slug)
    PROVE  IInv'
<1>1. task[w].phase \in CyclePhases
  BY DEF PriceFails, Handles, CyclePhases
<1> QED
  BY <1>1, NextDueMoves, TaskStepKeeps DEF PriceFails

\* A request goes through its markets one at a time.
LEMMA ForemostIsOne ==
    ASSUME IInv, NEW slugs, NEW s \in slugs, NEW r \in slugs, Foremost(s, slugs), Foremost(r, slugs)
    PROVE  s = r
<1>1. DOMAIN created \subseteq Nat
  BY DEF IInv, TypeOK
<1>2. PICK i \in DOMAIN created : created[i] = s /\ \A k \in DOMAIN created : k > i => created[k] \notin slugs
  BY DEF Foremost
<1>3. PICK j \in DOMAIN created : created[j] = r /\ \A k \in DOMAIN created : k > j => created[k] \notin slugs
  BY DEF Foremost
<1>4. ~(i > j) /\ ~(j > i)
  BY <1>2, <1>3
<1>5. i = j
  BY <1>1, <1>4
<1> QED
  BY <1>2, <1>3, <1>5

\* The candle of a window that is over shows the prices at its ends.
LEMMA CandleIsRight ==
    ASSUME IInv, NEW p \in Cycles, NEW s \in Slugs, EndOf(s) <= now, IsOwn(Reference(p), s)
    PROVE  IsRight(WinnerCode(Candle(p, s)), s)
<1>1. p.symbol = s.symbol /\ p.interval = s.interval
  BY DEF IsOwn, Reference
<1>2. EndOf(s) \in Nat /\ now \in Nat
  BY SlugTyped, TimeTyped DEF IInv
<1>3. Min({EndOf(s), now}) = EndOf(s)
  BY <1>2 DEF Min
<1>4. Min({s.start + p.interval, now}) = EndOf(s)
  BY <1>1, <1>3 DEF EndOf
<1>5. /\ Candle(p, s).open = Prices[s.symbol][s.start]
      /\ Candle(p, s).close = Prices[s.symbol][EndOf(s)]
  BY <1>1, <1>4 DEF Candle
<1> QED
  BY <1>5 DEF WinnerCode, IsRight

LEMMA ComputeWinnerKeeps ==
    ASSUME IInv, NEW w \in Workers, NEW slug \in task[w].todo, ComputeWinner(w, slug)
    PROVE  IInv'
<1> USE DEF IInv
<1> DEFINE winner == WinnerCode(Candle(task[w].job, slug))
           t == [task[w] EXCEPT !.phase = "settle", !.winner = winner]
<1>1. task[w] \in Task /\ TaskFacts(task[w]) /\ task[w].phase = "price" /\ Foremost(slug, task[w].todo)
  BY DEF TypeOK, TaskInv, ComputeWinner, Handles
<1>2. winner \in Winners
  BY DEF WinnerCode, Winners
<1>3. task[w].job \in Cycles /\ \A s \in task[w].todo : s \in Slugs /\ EndOf(s) <= now
  BY <1>1 DEF Task, TaskFacts, CyclePhases
<1>4. \A s \in task[w].todo :
          Foremost(s, task[w].todo) /\ IsOwn(Reference(task[w].job), s) => IsRight(winner, s)
  BY <1>1, <1>3, ForemostIsOne, CandleIsRight
<1> HIDE DEF winner
<1>5. t \in Task
  BY <1>1, <1>2 DEF Task, Phases
<1>6. TaskFacts(t)
  BY <1>1, <1>2, <1>4 DEF Task, TaskFacts, CyclePhases, RunPhases
<1>7. TaskMoves
  BY <1>5, <1>6 DEF ComputeWinner, Goes, TaskMoves, winner
<1> QED
  BY <1>7, TaskStepKeeps DEF ComputeWinner

\* A row that is settled, with the winner its settler holds.
LEMMA SettledMoves ==
    ASSUME IInv, NEW slug \in Slugs, market[slug].status # "absent", market[slug].requester # "none",
           NEW winner \in Winners, NEW settler \in {"callback", "run", "cycle"},
           NEW reference \in {NoReference} \cup {Reference(p) : p \in Cycles},
           NEW seen \in Assertions, ~Live => seen \in Undecided,
           settler = "cycle" /\ IsOwn(reference, slug) => IsRight(winner, slug),
           settler = "run" => Live,
           Settled(slug, winner, settler, reference, seen)
    PROVE  RowMoves /\ market' \in [Slugs -> Row]
<1> USE DEF IInv
<1>1. market[slug] \in Row /\ RowFacts(market[slug], slug)
  BY DEF TypeOK, MarketInv
<1>2. PICK known \in Merged(slug, seen) :
          market' = [market EXCEPT ![slug].status = "settled", ![slug].winner = winner,
                                   ![slug].settler = settler, ![slug].reference = reference,
                                   ![slug].known = known]
  BY DEF Settled
<1>3. known \in Assertions /\ (~Live => known \in Undecided)
  BY <1>1 DEF Merged, Row, RowFacts
<1> DEFINE row == [market[slug] EXCEPT !.status = "settled", !.winner = winner, !.settler = settler,
                                       !.reference = reference, !.known = known]
<1>4. row \in Row
  BY <1>1, <1>3 DEF Row
<1>5. RowFacts(row, slug)
  BY <1>1, <1>3 DEF RowFacts, Row
<1>6. market' = [market EXCEPT ![slug] = row]
  BY <1>1, <1>2 DEF TypeOK, Row
<1>7. row.status # "absent" /\ row.requester = market[slug].requester
  BY <1>1 DEF Row
<1> QED
  BY <1>4, <1>5, <1>6, <1>7, RowMoved

\* A settlement that passed its check: what it saw will do for its write.
LEMMA SettleDueKeeps ==
    ASSUME IInv, NEW w \in Workers, NEW slug \in task[w].todo, SettleDue(w, slug)
    PROVE  IInv'
<1> USE DEF IInv
<1> DEFINE t == [task[w] EXCEPT !.phase = "settling", !.seen = market[slug].known]
<1>1. task[w] \in Task /\ TaskFacts(task[w]) /\ task[w].phase = "settle" /\ Foremost(slug, task[w].todo)
  BY DEF TypeOK, TaskInv, SettleDue, Handles
<1>2. slug \in Slugs
  BY <1>1 DEF Task
<1>3. CASE MaySettle(slug)
  <2>1. market[slug] \in Row /\ RowFacts(market[slug], slug) /\ market[slug].requester # "none"
    BY <1>2, <1>3 DEF MaySettle, TypeOK, MarketInv, RowFacts
  <2>2. \A s \in task[w].todo : Foremost(s, task[w].todo) => market[s].requester # "none"
    BY <1>1, <2>1, ForemostIsOne
  <2>3. t \in Task
    BY <1>1, <2>1 DEF Task, Phases, Row
  <2>4. TaskFacts(t)
    BY <1>1, <2>1, <2>2 DEF Task, TaskFacts, RowFacts, CyclePhases, RunPhases
  <2> QED
    BY <1>3, <2>3, <2>4, TaskStepKeeps DEF SettleDue, Goes, TaskMoves
<1>4. CASE ~MaySettle(slug)
  <2>1. NextDue(w, slug, "due")
    BY <1>4 DEF SettleDue
  <2> QED
    BY <1>1, <2>1, NextDueMoves, TaskStepKeeps DEF SettleDue, CyclePhases
<1> QED
  BY <1>3, <1>4

LEMMA SettledDueKeeps ==
    ASSUME IInv, NEW w \in Workers, NEW slug \in task[w].todo, SettledDue(w, slug)
    PROVE  IInv'
<1> USE DEF IInv
<1>1. task[w] \in Task /\ TaskFacts(task[w]) /\ task[w].phase = "settling" /\ Foremost(slug, task[w].todo)
  BY DEF TypeOK, TaskInv, SettledDue, Handles
<1>2. /\ task[w].job \in Cycles /\ slug \in Slugs /\ task[w].winner \in Winners
      /\ market[slug].status # "absent" /\ market[slug].requester # "none"
      /\ task[w].seen \in Assertions /\ (~Live => task[w].seen \in Undecided)
  BY <1>1 DEF Task, TaskFacts, CyclePhases
<1>3. IsOwn(Reference(task[w].job), slug) => IsRight(task[w].winner, slug)
  BY <1>1 DEF TaskFacts
<1>4. TaskMoves
  BY <1>1, NextDueMoves DEF SettledDue, CyclePhases
<1>5. RowMoves /\ market' \in [Slugs -> Row]
  BY <1>2, <1>3, SettledMoves DEF SettledDue
<1> QED
  BY <1>4, <1>5, RowStepKeeps DEF SettledDue, TypeOK

LEMMA SettlementFailsKeeps ==
    ASSUME IInv, NEW w \in Workers, NEW slug \in task[w].todo, SettlementFails(w, slug)
    PROVE  IInv'
<1>1. task[w].phase \in CyclePhases
  BY DEF SettlementFails, Handles, CyclePhases
<1> QED
  BY <1>1, NextDueMoves, TaskStepKeeps DEF SettlementFails

-----------------------------------------------------------------------------
(* The settlement run *)

LEMMA StartRunKeeps ==
    ASSUME IInv, NEW w \in Workers, NEW p \in Runs, StartRun(w, p)
    PROVE  IInv'
<1> USE DEF IInv
<1> DEFINE todo == {s \in SettlementQueue : Processed(p, s)}
           t == [task[w] EXCEPT !.phase = "inspect", !.job = p, !.todo = todo]
<1>1. task[w] \in Task /\ TaskFacts(task[w]) /\ task[w].phase = "idle"
  BY DEF TypeOK, TaskInv, StartRun
<1>2. todo \subseteq Slugs /\ \A s \in todo : market[s].status # "absent"
  BY PageFacts DEF SettlementQueue
<1>3. task' = [task EXCEPT ![w] = t]
  BY DEF StartRun, Goes
<1> HIDE DEF todo
<1>4. t \in Task
  BY <1>1, <1>2 DEF Task, Phases
<1>5. TaskFacts(t)
  BY <1>1, <1>2 DEF Task, TaskFacts, CyclePhases, RunPhases
<1> QED
  BY <1>3, <1>4, <1>5, TaskStepKeeps DEF StartRun, TaskMoves

LEMMA ReadAssertionKeeps ==
    ASSUME IInv, NEW w \in Workers, NEW slug \in task[w].todo, ReadAssertion(w, slug)
    PROVE  IInv'
<1> USE DEF IInv
<1> DEFINE seen == OnChain(slug)
           t == [task[w] EXCEPT !.phase = "record", !.seen = seen]
           u == [task[w] EXCEPT !.phase = "derive"]
<1>1. task[w] \in Task /\ TaskFacts(task[w]) /\ task[w].phase = "inspect"
  BY DEF TypeOK, TaskInv, ReadAssertion, Handles
<1>2. slug \in Slugs
  BY <1>1 DEF Task
<1>3. seen \in Assertions /\ (~Live => seen \in Undecided)
  BY <1>2 DEF OnChain, TypeOK, MarketInv, RowFacts, Row
<1>4. TaskMoves
  <2> HIDE DEF seen
  <2>1. t \in Task /\ u \in Task
    BY <1>1, <1>3 DEF Task, Phases
  <2>2. TaskFacts(t)
    BY <1>1, <1>3 DEF Task, TaskFacts, CyclePhases, RunPhases
  <2>3. TaskFacts(u)
    BY <1>1 DEF Task, TaskFacts, CyclePhases, RunPhases
  <2> QED
    BY <2>1, <2>2, <2>3 DEF ReadAssertion, Goes, TaskMoves, seen
<1> QED
  BY <1>4, TaskStepKeeps DEF ReadAssertion

\* Nothing is recorded or settled: the next market, or the end.
LEMMA RunGoesOnKeeps ==
    ASSUME IInv, NEW w \in Workers, NEW slug \in task[w].todo,
           ReconcileFails(w, slug) \/ RecordFails(w, slug) \/ FinalizeFails(w, slug)
    PROVE  IInv'
<1>1. task[w].phase \in RunPhases /\ NextDue(w, slug, "inspect")
  BY DEF ReconcileFails, RecordFails, FinalizeFails, Handles, RunPhases
<1>2. UNCHANGED <<now, scenario, sourced, market, created, chain, crashes, calls, handling>>
  BY DEF ReconcileFails, RecordFails, FinalizeFails
<1> QED
  BY <1>1, <1>2, NextDueMoves, TaskStepKeeps

\* What a payload says of the assertion is replaced.
LEMMA KnownMoves ==
    ASSUME IInv, NEW slug \in Slugs, market[slug].status # "absent",
           NEW seen \in Assertions, ~Live => seen \in Undecided,
           market' = [market EXCEPT ![slug].known = seen]
    PROVE  RowMoves /\ market' \in [Slugs -> Row]
<1> USE DEF IInv
<1> DEFINE row == [market[slug] EXCEPT !.known = seen]
<1>1. market[slug] \in Row /\ RowFacts(market[slug], slug)
  BY DEF TypeOK, MarketInv
<1>2. row \in Row
  BY <1>1 DEF Row
<1>3. RowFacts(row, slug)
  BY <1>1 DEF RowFacts, Row
<1>4. row.status # "absent" /\ market' = [market EXCEPT ![slug] = row] /\ row.requester = market[slug].requester
  BY <1>1 DEF Row
<1> QED
  BY <1>2, <1>3, <1>4, RowMoved

LEMMA RecordAssertionKeeps ==
    ASSUME IInv, NEW w \in Workers, NEW slug \in task[w].todo, RecordAssertion(w, slug)
    PROVE  IInv'
<1> USE DEF IInv
<1> DEFINE t == [task[w] EXCEPT !.phase = "derive"]
<1>1. task[w] \in Task /\ TaskFacts(task[w]) /\ task[w].phase = "record"
  BY DEF TypeOK, TaskInv, RecordAssertion, Handles
<1>2. /\ slug \in Slugs /\ market[slug].status # "absent"
      /\ task[w].seen \in Assertions /\ (~Live => task[w].seen \in Undecided)
  BY <1>1 DEF Task, TaskFacts
<1>3. RowMoves /\ market' \in [Slugs -> Row]
  BY <1>2, KnownMoves DEF RecordAssertion
<1>4. t \in Task
  BY <1>1 DEF Task, Phases
<1>5. TaskFacts(t)
  BY <1>1 DEF Task, TaskFacts, CyclePhases, RunPhases
<1>6. TaskMoves
  BY <1>4, <1>5 DEF RecordAssertion, Goes, TaskMoves
<1> QED
  BY <1>3, <1>6, RowStepKeeps DEF RecordAssertion, TypeOK

\* A winner is derived only when the oracle is live.
LEMMA DeriveWinnerKeeps ==
    ASSUME IInv, NEW w \in Workers, NEW slug \in task[w].todo, DeriveWinner(w, slug)
    PROVE  IInv'
<1> USE DEF IInv
<1> DEFINE winner == DeriveOracleWinnerCode(market[slug].known)
           t == [task[w] EXCEPT !.phase = "finalize", !.winner = winner]
           goes == task[w].job.finalize /\ ~task[w].job.dryRun /\ winner # "none"
<1>1. task[w] \in Task /\ TaskFacts(task[w]) /\ task[w].phase = "derive"
  BY DEF TypeOK, TaskInv, DeriveWinner, Handles
<1>2. slug \in Slugs
  BY <1>1 DEF Task
<1>3. winner # "none" => winner \in Winners /\ Live
  BY <1>2 DEF DeriveOracleWinnerCode, Winners, MarketInv, RowFacts, Undecided
<1>4. CASE goes
  <2>1. task' = [task EXCEPT ![w] = t]
    BY <1>4 DEF DeriveWinner, Goes
  <2>2. winner \in Winners /\ Live
    BY <1>3, <1>4
  <2> HIDE DEF winner
  <2>3. t \in Task
    BY <1>1, <2>2 DEF Task, Phases
  <2>4. TaskFacts(t)
    BY <1>1, <2>2 DEF Task, TaskFacts, CyclePhases, RunPhases
  <2> QED
    BY <2>1, <2>3, <2>4, TaskStepKeeps DEF DeriveWinner, TaskMoves
<1>5. CASE ~goes
  <2>1. NextDue(w, slug, "inspect")
    BY <1>5 DEF DeriveWinner
  <2> QED
    BY <1>1, <2>1, NextDueMoves, TaskStepKeeps DEF DeriveWinner, RunPhases
<1> QED
  BY <1>4, <1>5

LEMMA FinalizeDueKeeps ==
    ASSUME IInv, NEW w \in Workers, NEW slug \in task[w].todo, FinalizeDue(w, slug)
    PROVE  IInv'
<1> USE DEF IInv
<1> DEFINE t == [task[w] EXCEPT !.phase = "finalizing", !.seen = market[slug].known]
<1>1. task[w] \in Task /\ TaskFacts(task[w]) /\ task[w].phase = "finalize" /\ Foremost(slug, task[w].todo)
  BY DEF TypeOK, TaskInv, FinalizeDue, Handles
<1>2. slug \in Slugs
  BY <1>1 DEF Task
<1>3. CASE MaySettle(slug)
  <2>1. market[slug] \in Row /\ RowFacts(market[slug], slug) /\ market[slug].requester # "none"
    BY <1>2, <1>3 DEF MaySettle, TypeOK, MarketInv, RowFacts
  <2>2. \A s \in task[w].todo : Foremost(s, task[w].todo) => market[s].requester # "none"
    BY <1>1, <2>1, ForemostIsOne
  <2>3. t \in Task
    BY <1>1, <2>1 DEF Task, Phases, Row
  <2>4. TaskFacts(t)
    BY <1>1, <2>1, <2>2 DEF Task, TaskFacts, RowFacts, CyclePhases, RunPhases
  <2> QED
    BY <1>3, <2>3, <2>4, TaskStepKeeps DEF FinalizeDue, Goes, TaskMoves
<1>4. CASE ~MaySettle(slug)
  <2>1. NextDue(w, slug, "inspect")
    BY <1>4 DEF FinalizeDue
  <2> QED
    BY <1>1, <2>1, NextDueMoves, TaskStepKeeps DEF FinalizeDue, RunPhases
<1> QED
  BY <1>3, <1>4

LEMMA FinalizedDueKeeps ==
    ASSUME IInv, NEW w \in Workers, NEW slug \in task[w].todo, FinalizedDue(w, slug)
    PROVE  IInv'
<1> USE DEF IInv
<1>1. task[w] \in Task /\ TaskFacts(task[w]) /\ task[w].phase = "finalizing" /\ Foremost(slug, task[w].todo)
  BY DEF TypeOK, TaskInv, FinalizedDue, Handles
<1>2. /\ slug \in Slugs /\ Live /\ task[w].winner \in Winners /\ task[w].seen \in Assertions
      /\ market[slug].status # "absent" /\ market[slug].requester # "none"
  BY <1>1 DEF Task, TaskFacts
<1>3. TaskMoves
  BY <1>1, NextDueMoves DEF FinalizedDue, RunPhases
<1>4. RowMoves /\ market' \in [Slugs -> Row]
  BY <1>2, SettledMoves DEF FinalizedDue
<1> QED
  BY <1>3, <1>4, RowStepKeeps DEF FinalizedDue, TypeOK

-----------------------------------------------------------------------------
(* Users, the oracle's callback, the chain and the clock *)

\* A call passes its check, with what its write will need.
LEMMA CheckedKeeps ==
    ASSUME IInv, NEW slug \in Slugs, market[slug].status # "absent",
           NEW kind \in {"status", "request", "dispute", "review", "reconcile", "settle"},
           NEW argument \in {"none"} \cup Statuses \cup Decisions \cup Winners,
           NEW dispute \in Nat, NEW seen \in Assertions,
           kind = "status" => argument \in Statuses,
           kind = "settle" => argument \in Winners,
           kind \in {"dispute", "review", "settle"} => market[slug].requester # "none",
           ~Live => seen \in Undecided,
           Checked(kind, slug, argument, dispute, seen)
    PROVE  IInv'
<1> USE DEF IInv
<1> DEFINE c == [id |-> calls + 1, kind |-> kind, slug |-> slug, argument |-> argument,
                 dispute |-> dispute, seen |-> seen]
<1>1. scenario.calls \in Nat /\ calls \in 0..scenario.calls
  BY TimeTyped DEF TypeOK
<1>2. calls' \in 0..scenario.calls
  BY <1>1 DEF Checked
<1>3. c \in Call
  BY <1>1 DEF Call
<1>4. CallFacts(c)
  BY DEF CallFacts
<1>5. handling' = handling \cup {c}
  BY DEF Checked
<1> HIDE DEF c
<1>6. CallMoves
  BY <1>3, <1>4, <1>5 DEF CallMoves, TypeOK
<1>7. TaskMoves /\ RowMoves /\ now' >= now
  BY TimeTyped DEF Checked, TaskMoves, RowMoves
<1> QED
  BY <1>2, <1>6, <1>7, StepKeeps DEF Checked, TypeOK

LEMMA CallStartsKeeps ==
    ASSUME IInv, NEW slug \in Slugs, CallStarts(slug)
    PROVE  IInv'
<1>1. /\ market[slug] \in Row /\ RowFacts(market[slug], slug) /\ chain[slug] \in Assertions
      /\ calls \in 0..scenario.calls /\ scenario.calls \in Nat
  BY TimeTyped DEF IInv, TypeOK, MarketInv
<1>2. market[slug].known \in Assertions /\ (~Live => market[slug].known \in Undecided)
  BY <1>1 DEF Row, RowFacts
<1>3. "none" \in Assertions /\ "none" \in Undecided /\ 0 \in Nat /\ calls + 1 \in Nat
  BY <1>1 DEF Assertions, Undecided
<1>4. ASSUME NEW status \in Statuses, UpdateMarketStatus(slug, status)
      PROVE  IInv'
  <2>1. market[slug].status # "absent" /\ Checked("status", slug, status, 0, "none")
    BY <1>4 DEF UpdateMarketStatus, AllowedNextStatuses
  <2> QED
    BY <1>3, <2>1, CheckedKeeps
<1>5. CASE RequestSettlement(slug)
  <2>1. market[slug].status # "absent" /\ Checked("request", slug, "none", 0, "none")
    BY <1>5 DEF RequestSettlement, MayRequest, TradingStatuses
  <2> QED
    BY <1>3, <2>1, CheckedKeeps
<1>6. MaySettle(slug) => market[slug].status # "absent" /\ market[slug].requester # "none"
  BY <1>1 DEF MaySettle, PendingStatuses, RowFacts
<1>7. CASE CreateDispute(slug)
  BY <1>2, <1>3, <1>6, <1>7, CheckedKeeps DEF CreateDispute
<1>8. CASE ReconcileOracleResolution(slug)
  <2>1. market[slug].requester # "none" /\ Checked("reconcile", slug, "none", 0, OnChain(slug))
    BY <1>8 DEF ReconcileOracleResolution, Unresolved
  <2>2. market[slug].status # "absent"
    BY <1>1, <2>1 DEF RowFacts
  <2>3. OnChain(slug) \in Assertions /\ (~Live => OnChain(slug) \in Undecided)
    BY <1>1, <1>2 DEF OnChain
  <2> QED
    BY <1>3, <2>1, <2>2, <2>3, CheckedKeeps
<1>9. ASSUME NEW d \in market[slug].disputes, NEW decision \in Decisions, ReviewDispute(slug, d, decision)
      PROVE  IInv'
  <2>1. d \in Nat /\ market[slug].requester # "none" /\ market[slug].status # "absent"
    BY <1>1 DEF Row, RowFacts
  <2>2. Checked("review", slug, decision, d, market[slug].known)
    BY <1>9 DEF ReviewDispute
  <2> QED
    BY <1>2, <2>1, <2>2, CheckedKeeps
<1>10. ASSUME NEW winner \in Winners, FinalizeOracleSettlement(slug, winner)
       PROVE  IInv'
  <2>1. Checked("settle", slug, winner, 0, market[slug].known) /\ MaySettle(slug)
    BY <1>10 DEF FinalizeOracleSettlement
  <2> QED
    BY <1>2, <1>3, <1>6, <2>1, CheckedKeeps
<1> QED
  BY <1>4, <1>5, <1>7, <1>8, <1>9, <1>10 DEF CallStarts

\* A dispute is opened or reviewed, whatever the row has become since the check.
LEMMA DisputeMoves ==
    ASSUME IInv, NEW slug \in Slugs, market[slug].status # "absent", market[slug].requester # "none",
           NEW status \in PendingStatuses, NEW disputes \in SUBSET Nat,
           NEW seen \in Assertions, ~Live => seen \in Undecided, NEW known \in Merged(slug, seen),
           market' = [market EXCEPT ![slug].status = status, ![slug].disputes = disputes,
                                    ![slug].known = known]
    PROVE  RowMoves /\ market' \in [Slugs -> Row]
<1> USE DEF IInv
<1> DEFINE row == [market[slug] EXCEPT !.status = status, !.disputes = disputes, !.known = known]
<1>1. market[slug] \in Row /\ RowFacts(market[slug], slug)
  BY DEF TypeOK, MarketInv
<1>2. known \in Assertions /\ (~Live => known \in Undecided)
  BY <1>1 DEF Merged, Row, RowFacts
<1>3. row \in Row
  BY <1>1, <1>2 DEF Row
<1>4. RowFacts(row, slug)
  BY <1>1, <1>2 DEF RowFacts, Row, PendingStatuses
<1>5. row.status # "absent" /\ row.requester = market[slug].requester
  BY <1>1 DEF Row, PendingStatuses
<1>6. market' = [market EXCEPT ![slug] = row]
  BY <1>1 DEF TypeOK, Row
<1> HIDE DEF row
<1> QED
  BY <1>3, <1>4, <1>5, <1>6, RowMoved

LEMMA CallEndsKeeps ==
    ASSUME IInv, NEW c \in handling, CallEnds(c)
    PROVE  IInv'
<1> USE DEF IInv
<1>1. c \in Call /\ CallFacts(c)
  BY DEF TypeOK, CallInv
<1>2. /\ c.slug \in Slugs /\ c.seen \in Assertions /\ c.dispute \in Nat /\ market[c.slug].status # "absent"
      /\ ~Live => c.seen \in Undecided
  BY <1>1 DEF Call, CallFacts
<1>3. /\ UNCHANGED <<now, scenario, sourced, created, task, crashes, calls>>
      /\ handling' \subseteq handling
  BY DEF CallEnds, StatusUpdated, SettlementRequested, DisputeCreated, DisputeReviewed,
         AssertionRecorded, OracleSettlementFinalized, Answered
<1>4. RowMoves /\ market' \in [Slugs -> Row] /\ chain' \in [Slugs -> Assertions]
  <2>1. CASE StatusUpdated(c)
    <3>1. c.argument \in Statuses
      BY <1>1, <2>1 DEF StatusUpdated, CallFacts
    <3> QED
      BY <1>2, <2>1, <3>1, StatusMoves DEF StatusUpdated, TypeOK
  <2>2. CASE SettlementRequested(c)
    <3>1. CASE Unresolved(c.slug)
      BY <1>2, <2>2, <3>1, RequestedMoves DEF SettlementRequested
    <3>2. CASE ~Unresolved(c.slug)
      BY <2>2, <3>2 DEF SettlementRequested, RowMoves, TypeOK
    <3> QED
      BY <3>1, <3>2
  <2>3. CASE DisputeCreated(c)
    <3> DEFINE disputes == market[c.slug].disputes \cup {c.dispute}
    <3>1. market[c.slug].requester # "none" /\ market[c.slug] \in Row
      BY <1>1, <1>2, <2>3 DEF DisputeCreated, CallFacts, TypeOK
    <3>2. PICK known \in Merged(c.slug, c.seen) :
              market' = [market EXCEPT ![c.slug].status = "disputed", ![c.slug].known = known,
                                       ![c.slug].disputes = @ \cup {c.dispute}]
      BY <2>3 DEF DisputeCreated
    <3>3. market' = [market EXCEPT ![c.slug].status = "disputed", ![c.slug].disputes = disputes,
                                   ![c.slug].known = known]
      BY <1>2, <3>1, <3>2 DEF TypeOK, Row
    <3>4. disputes \in SUBSET Nat /\ "disputed" \in PendingStatuses
      BY <1>2, <3>1 DEF Row, PendingStatuses
    <3>5. RowMoves /\ market' \in [Slugs -> Row]
      <4> HIDE DEF disputes
      <4> QED
        BY <1>2, <3>1, <3>3, <3>4, DisputeMoves
    <3> QED
      BY <2>3, <3>5 DEF DisputeCreated, TypeOK
  <2>4. CASE DisputeReviewed(c)
    <3> DEFINE status == IF c.argument \in {"dismissed", "withdrawn"} THEN "awaiting_resolution"
                         ELSE "disputed"
               disputes == IF c.argument = "under_review" THEN market[c.slug].disputes \cup {c.dispute}
                           ELSE market[c.slug].disputes \ {c.dispute}
    <3>1. market[c.slug].requester # "none" /\ market[c.slug] \in Row
      BY <1>1, <1>2, <2>4 DEF DisputeReviewed, CallFacts, TypeOK
    <3>2. PICK known \in Merged(c.slug, c.seen) :
              market' = [market EXCEPT
                  ![c.slug].status = IF c.argument \in {"dismissed", "withdrawn"} THEN "awaiting_resolution"
                                     ELSE "disputed",
                  ![c.slug].disputes = IF c.argument = "under_review" THEN @ \cup {c.dispute}
                                       ELSE @ \ {c.dispute},
                  ![c.slug].known = known]
      BY <2>4 DEF DisputeReviewed
    <3>3. market' = [market EXCEPT ![c.slug].status = status, ![c.slug].disputes = disputes,
                                   ![c.slug].known = known]
      BY <1>2, <3>1, <3>2 DEF TypeOK, Row
    <3>4. disputes \in SUBSET Nat /\ status \in PendingStatuses
      BY <1>2, <3>1 DEF Row, PendingStatuses
    <3>5. RowMoves /\ market' \in [Slugs -> Row]
      <4> HIDE DEF disputes, status
      <4> QED
        BY <1>2, <3>1, <3>3, <3>4, DisputeMoves
    <3> QED
      BY <2>4, <3>5 DEF DisputeReviewed, TypeOK
  <2>5. CASE AssertionRecorded(c)
    BY <1>2, <2>5, KnownMoves DEF AssertionRecorded, TypeOK
  <2>6. CASE OracleSettlementFinalized(c)
    <3>1. c.argument \in Winners /\ market[c.slug].requester # "none"
      BY <1>1, <2>6 DEF OracleSettlementFinalized, CallFacts
    <3>2. Settled(c.slug, c.argument, "callback", NoReference, c.seen) /\ UNCHANGED chain
      BY <2>6 DEF OracleSettlementFinalized
    <3> QED
      BY <1>2, <3>1, <3>2, SettledMoves DEF TypeOK
  <2> QED
    BY <2>1, <2>2, <2>3, <2>4, <2>5, <2>6 DEF CallEnds
<1>5. TaskMoves
  BY <1>3 DEF TaskMoves
<1> QED
  BY <1>3, <1>4, <1>5, RowStepKeeps

LEMMA ChainStepKeeps ==
    ASSUME IInv, NEW slug \in Slugs, ChainStep(slug)
    PROVE  IInv'
<1>1. PICK state \in NextAssertion(chain[slug]) : chain' = [chain EXCEPT ![slug] = state]
  BY DEF ChainStep
<1>2. state \in Assertions
  BY DEF NextAssertion, Assertions
<1>3. chain' \in [Slugs -> Assertions]
  BY <1>1, <1>2 DEF IInv, TypeOK
<1>4. TaskMoves /\ RowMoves
  BY DEF ChainStep, TaskMoves, RowMoves
<1> QED
  BY <1>3, <1>4, RowStepKeeps DEF ChainStep, IInv, TypeOK

LEMMA TickKeeps ==
    ASSUME IInv, Tick
    PROVE  IInv'
<1>1. scenario.until \in Nat /\ now \in 0..scenario.until
  BY TimeTyped DEF IInv, TypeOK
<1>2. now' \in 0..scenario.until /\ now' >= now
  BY <1>1 DEF Tick
<1>3. TaskMoves /\ RowMoves /\ CallMoves
  BY DEF Tick, TaskMoves, RowMoves, CallMoves, IInv, TypeOK
<1> QED
  BY <1>2, <1>3, StepKeeps DEF Tick, IInv, TypeOK

\* A request that dies leaves its task idle.
LEMMA CrashKeeps ==
    ASSUME IInv, NEW w \in Workers, Crash(w)
    PROVE  IInv'
<1>1. scenario.crashes \in Nat /\ crashes \in 0..scenario.crashes
  BY TimeTyped DEF IInv, TypeOK
<1>2. crashes' \in 0..scenario.crashes
  BY <1>1 DEF Crash
<1>3. TaskMoves /\ RowMoves /\ CallMoves
  BY IdleFacts DEF Crash, Stops, TaskMoves, RowMoves, CallMoves, IInv, TypeOK
<1>4. now' \in 0..scenario.until /\ now' >= now
  BY TimeTyped DEF Crash, IInv, TypeOK
<1> QED
  BY <1>2, <1>3, <1>4, StepKeeps DEF Crash, IInv, TypeOK

-----------------------------------------------------------------------------
(* The invariant *)

LEMMA InitInv ==
    ASSUME Init
    PROVE  IInv
<1>1. scenario \in Scenarios /\ scenario.until \in Nat /\ scenario.crashes \in Nat /\ scenario.calls \in Nat
  BY DEF Init
<1>2. Absent \in Row
  BY DEF Absent, Row, Assertions
<1>3. Idle \in Task
  BY DEF Idle, Task, Phases, Assertions
<1>4. TypeOK
  <2>1. scenario \in Scenarios /\ sourced \in BOOLEAN
    BY DEF Init
  <2>2. now \in 0..scenario.until /\ crashes \in 0..scenario.crashes /\ calls \in 0..scenario.calls
    BY <1>1 DEF Init
  <2>3. market \in [Slugs -> Row] /\ task \in [Workers -> Task]
    BY <1>2, <1>3 DEF Init
  <2>4. created \in Seq(Slugs) /\ chain \in [Slugs -> Assertions] /\ handling \subseteq Call
    BY DEF Init, Assertions
  <2> QED
    BY <2>1, <2>2, <2>3, <2>4 DEF TypeOK
<1>5. CreatedInv
  BY DEF Init, CreatedInv, IsInjective, Absent
<1>6. MarketInv
  BY DEF Init, MarketInv, RowFacts, Absent, PendingStatuses, Undecided
<1>7. TaskInv
  BY <1>4, IdleFacts DEF Init, TaskInv
<1>8. CallInv
  BY DEF Init, CallInv
<1> QED
  BY <1>4, <1>5, <1>6, <1>7, <1>8 DEF IInv

LEMMA CycleStepKeeps ==
    ASSUME IInv, NEW w \in Workers, CycleStep(w)
    PROVE  IInv'
<1>1. CASE SkipExisting(w) \/ ReadSource(w) \/ CreateSource(w) \/ CreateDirectMarket(w)
  BY <1>1, SkipExistingKeeps, ReadSourceKeeps, CreateSourceKeeps, CreateDirectMarketKeeps
<1>2. CASE OpenCreated(w) \/ Opened(w) \/ EndCreation(w)
  BY <1>2, OpenCreatedKeeps, OpenedKeeps, EndCreationKeeps
<1>3. ASSUME NEW s \in task[w].todo, RequestDue(w, s) \/ RequestRecorded(w, s) \/ RequestFails(w, s)
      PROVE  IInv'
  BY <1>3, RequestDueKeeps, RequestRecordedKeeps, RequestFailsKeeps
<1>4. ASSUME NEW s \in task[w].todo, ComputeWinner(w, s) \/ PriceFails(w, s)
      PROVE  IInv'
  BY <1>4, ComputeWinnerKeeps, PriceFailsKeeps
<1>5. ASSUME NEW s \in task[w].todo, SettleDue(w, s) \/ SettledDue(w, s) \/ SettlementFails(w, s)
      PROVE  IInv'
  BY <1>5, SettleDueKeeps, SettledDueKeeps, SettlementFailsKeeps
<1> QED
  BY <1>1, <1>2, <1>3, <1>4, <1>5 DEF CycleStep

LEMMA RunStepKeeps ==
    ASSUME IInv, NEW w \in Workers, RunStep(w)
    PROVE  IInv'
<1>1. ASSUME NEW s \in task[w].todo, ReadAssertion(w, s) \/ RecordAssertion(w, s) \/ DeriveWinner(w, s)
      PROVE  IInv'
  BY <1>1, ReadAssertionKeeps, RecordAssertionKeeps, DeriveWinnerKeeps
<1>2. ASSUME NEW s \in task[w].todo, ReconcileFails(w, s) \/ RecordFails(w, s) \/ FinalizeFails(w, s)
      PROVE  IInv'
  BY <1>2, RunGoesOnKeeps
<1>3. ASSUME NEW s \in task[w].todo, FinalizeDue(w, s) \/ FinalizedDue(w, s)
      PROVE  IInv'
  BY <1>3, FinalizeDueKeeps, FinalizedDueKeeps
<1> QED
  BY <1>1, <1>2, <1>3 DEF RunStep

LEMMA StutterKeeps ==
    ASSUME IInv, UNCHANGED vars
    PROVE  IInv'
BY TaskStepKeeps DEF vars, TaskMoves

LEMMA NextKeeps ==
    ASSUME IInv, [Next]_vars
    PROVE  IInv'
<1>1. ASSUME NEW w \in Workers, NEW p \in Cycles, StartCycle(w, p)
      PROVE  IInv'
  BY <1>1, StartCycleKeeps
<1>2. ASSUME NEW w \in Workers, NEW p \in Runs, StartRun(w, p)
      PROVE  IInv'
  BY <1>2, StartRunKeeps
<1>3. ASSUME NEW w \in Workers, CycleStep(w) \/ RunStep(w) \/ Crash(w)
      PROVE  IInv'
  BY <1>3, CycleStepKeeps, RunStepKeeps, CrashKeeps
<1>4. CASE Environment
  BY <1>4, CallStartsKeeps, CallEndsKeeps, ChainStepKeeps, TickKeeps DEF Environment
<1>5. CASE UNCHANGED vars
  BY <1>5, StutterKeeps
<1> QED
  BY <1>1, <1>2, <1>3, <1>4, <1>5 DEF Next

\* With every check and every write a step of its own: what was asked for stays
\* asked for, whatever late writes make of the row, and a request that is about
\* to write still holds what it needs.
THEOREM InvariantHolds == Spec => []IInv
<1>1. Init => IInv
  BY InitInv
<1>2. IInv /\ [Next]_vars => IInv'
  BY NextKeeps
<1> QED
  BY <1>1, <1>2, PTL DEF Spec

-----------------------------------------------------------------------------
(* The properties *)

\* Rows, requests and counters are always what their tables and bounds say.
THEOREM TypeCorrect == Spec => []TypeOK
BY InvariantHolds, PTL DEF IInv

\* However many cycles overlap, over however many windows, the unique slug
\* leaves one market per window.
THEOREM WindowsHaveOneMarket == Spec => []OneMarketPerWindow
<1>1. IInv => OneMarketPerWindow
  BY DEF IInv, CreatedInv, OneMarketPerWindow
<1> QED
  BY <1>1, InvariantHolds, PTL

\* A cycle asks for a settlement only when the window is over, and what is
\* settled had been asked for, whoever settled it and however stale its check.
THEOREM CyclesWait == Spec => []CycleWaitsForWindow
<1>1. IInv => CycleWaitsForWindow
  BY DEF IInv, MarketInv, RowFacts, CycleWaitsForWindow
<1> QED
  BY <1>1, InvariantHolds, PTL

\* A market that its own cycle settled went the way its prices did, for any
\* prices and any delay between the candle that was read and the settlement.
THEOREM CyclesSettleByPrices == Spec => []SettledByItsPrices
<1>1. IInv => SettledByItsPrices
  BY DEF IInv, MarketInv, RowFacts, IsOwn, IsRight, SettledByItsPrices
<1> QED
  BY <1>1, InvariantHolds, PTL

\* No payload that a call writes back over another's lets the settlement run
\* settle a market of a simulated oracle.
THEOREM SimulatedRunIsSilent == Spec => []SimulatedRunSettlesNothing
<1>1. IInv => SimulatedRunSettlesNothing
  BY DEF IInv, MarketInv, RowFacts, SimulatedRunSettlesNothing
<1> QED
  BY <1>1, InvariantHolds, PTL

-----------------------------------------------------------------------------
(* Which cycle settles a market *)

SettlingPhases == {"price", "settle", "settling"}

\* The task of w changes, but does not begin to settle.
Leaves(w, t) ==
    /\ task' = [task EXCEPT ![w] = t]
    /\ t.phase \in SettlingPhases => task[w].phase \in SettlingPhases /\ t.todo = task[w].todo

TasksLeave == task' = task \/ \E w \in Workers, t \in Task : Leaves(w, t)

\* What a cycle that settles holds of its market.
RowsKeep ==
    \A s \in Slugs :
        market[s].requester = "cycle" =>
            market'[s].requester = "cycle" /\ (market'[s].settler = "cycle" => market[s].settler = "cycle")

LEMMA SettlingStays ==
    ASSUME IInv, TasksLeave, created' = created, NEW v \in Workers, NEW s \in Slugs, Settling(v, s)'
    PROVE  Settling(v, s)
BY DEF IInv, TypeOK, TasksLeave, Leaves, Settling, SettlingPhases, Foremost

LEMMA AloneStays ==
    ASSUME CyclesSettleOnce,
           \A v \in Workers, s \in Slugs : Settling(v, s)' => Settling(v, s),
           \A v \in Workers, s \in Slugs : Settling(v, s)' =>
               /\ market'[s].requester = market[s].requester
               /\ market'[s].settler = "cycle" => market[s].settler = "cycle"
    PROVE  CyclesSettleOnce'
BY DEF CyclesSettleOnce

LEMMA NobodySettles ==
    ASSUME IInv, CyclesSettleOnce, TasksLeave, RowsKeep, created' = created
    PROVE  CyclesSettleOnce'
<1>1. \A v \in Workers, s \in Slugs : Settling(v, s)' => Settling(v, s)
  BY SettlingStays
<1>2. \A v \in Workers, s \in Slugs : Settling(v, s) => market[s].requester = "cycle"
  BY DEF CyclesSettleOnce
<1> QED
  BY <1>1, <1>2, AloneStays DEF RowsKeep

LEMMA NextDueLeaves ==
    ASSUME IInv, NEW w \in Workers, NEW slug, NEW phase \in {"due", "inspect"}, NextDue(w, slug, phase)
    PROVE  \E t \in Task : Leaves(w, t) /\ t.phase \notin SettlingPhases
<1> USE DEF IInv
<1>1. CASE task[w].todo = {slug}
  BY <1>1, IdleFacts DEF NextDue, Stops, Leaves, SettlingPhases, Idle
<1>2. CASE task[w].todo # {slug}
  <2> DEFINE t == [task[w] EXCEPT !.phase = phase, !.todo = @ \ {slug}, !.seen = "none", !.winner = "none"]
  <2>1. t \in Task /\ t.phase = phase
    <3>1. task[w] \in Task /\ phase \in Phases
      BY DEF TypeOK, Phases
    <3> QED
      BY <3>1 DEF Task, Assertions
  <2>2. task' = [task EXCEPT ![w] = t]
    BY <1>2 DEF NextDue, Goes
  <2> HIDE DEF t
  <2> QED
    BY <2>1, <2>2 DEF Leaves, SettlingPhases
<1> QED
  BY <1>1, <1>2

\* The cycle whose request is recorded finds nobody at the settlement.
LEMMA RequesterSettlesAlone ==
    ASSUME IInv, CyclesSettleOnce, NEW w \in Workers, NEW slug \in task[w].todo, RequestRecorded(w, slug)
    PROVE  CyclesSettleOnce'
<1> USE DEF IInv
<1>1. /\ task[w] \in Task /\ task[w].phase = "requesting" /\ Foremost(slug, task[w].todo)
      /\ created' = created /\ market[slug].requester = "none" /\ slug \in Slugs
  BY DEF TypeOK, RequestRecorded, Handles, Unresolved, Task
<1>2. market[slug] \in Row /\ RowFacts(market[slug], slug)
  BY <1>1 DEF TypeOK, MarketInv
<1>3. /\ market'[slug].requester = "cycle" /\ market'[slug].settler = market[slug].settler
      /\ \A s \in Slugs \ {slug} : market'[s] = market[s]
  BY <1>1, <1>2 DEF RequestRecorded, Requested, TypeOK, Row
<1>4. market'[slug].settler # "cycle"
  BY <1>1, <1>2, <1>3 DEF RowFacts
<1>5. \A v \in Workers : ~Settling(v, slug)
  BY <1>1 DEF CyclesSettleOnce
<1>6. \A v \in Workers \ {w} : task'[v] = task[v]
  BY DEF RequestRecorded, Goes, NextDue, Stops, TypeOK
<1>7. \A v \in Workers \ {w}, s \in Slugs : Settling(v, s)' => Settling(v, s)
  BY <1>1, <1>6 DEF Settling, Foremost
<1>8. \A s \in Slugs : Settling(w, s)' => s = slug
  <2>1. CASE task[w].job.finalize
    <3>1. task'[w].todo = task[w].todo
      BY <1>1, <2>1 DEF RequestRecorded, Goes, TypeOK, Task
    <3>2. \A s \in Slugs : Settling(w, s)' => s \in task[w].todo /\ Foremost(s, task[w].todo)
      BY <1>1, <3>1 DEF Settling, Foremost
    <3> QED
      BY <1>1, <3>2, ForemostIsOne
  <2>2. CASE ~task[w].job.finalize
    <3>1. PICK t \in Task : Leaves(w, t) /\ t.phase \notin SettlingPhases
      BY <2>2, NextDueLeaves DEF RequestRecorded
    <3>2. task'[w].phase \notin SettlingPhases
      BY <3>1 DEF Leaves, TypeOK
    <3> QED
      BY <3>2 DEF Settling, SettlingPhases
  <2> QED
    BY <2>1, <2>2
<1>9. ASSUME NEW v \in Workers, NEW s \in Slugs, Settling(v, s)'
      PROVE  /\ market'[s].requester = "cycle" /\ market'[s].settler # "cycle"
             /\ \A u \in Workers \ {v} : ~Settling(u, s)'
  <2>1. CASE v = w
    BY <1>3, <1>4, <1>5, <1>7, <1>8, <1>9, <2>1
  <2>2. CASE v # w
    <3>1. Settling(v, s) /\ s # slug
      BY <1>5, <1>7, <1>9, <2>2
    <3>2. /\ market[s].requester = "cycle" /\ market[s].settler # "cycle"
          /\ \A u \in Workers \ {v} : ~Settling(u, s)
      BY <3>1 DEF CyclesSettleOnce
    <3> QED
      BY <1>3, <1>7, <1>8, <3>1, <3>2
  <2> QED
    BY <2>1, <2>2
<1> QED
  BY <1>9 DEF CyclesSettleOnce

\* The cycle that settles was alone with the market, and goes on to another.
LEMMA SettlerWasAlone ==
    ASSUME IInv, CyclesSettleOnce, NEW w \in Workers, NEW slug \in task[w].todo, SettledDue(w, slug)
    PROVE  CyclesSettleOnce'
<1> USE DEF IInv
<1>1. Settling(w, slug) /\ slug \in Slugs /\ created' = created
  BY DEF SettledDue, Handles, Settling, TypeOK, Task
<1>2. \A v \in Workers \ {w} : ~Settling(v, slug)
  BY <1>1 DEF CyclesSettleOnce
<1>3. PICK t \in Task : Leaves(w, t) /\ t.phase \notin SettlingPhases
  BY NextDueLeaves DEF SettledDue
<1>4. \A s \in Slugs : ~Settling(w, s)'
  BY <1>3 DEF Leaves, Settling, SettlingPhases, TypeOK
<1>5. \A v \in Workers, s \in Slugs : Settling(v, s)' => Settling(v, s) /\ s # slug
  BY <1>1, <1>2, <1>3, <1>4, SettlingStays DEF TasksLeave
<1>6. \A s \in Slugs \ {slug} : market'[s] = market[s]
  BY <1>1 DEF SettledDue, Settled, TypeOK
<1> QED
  BY <1>5, <1>6, AloneStays

LEMMA CreatorSettlesNothing ==
    ASSUME IInv, CyclesSettleOnce, NEW w \in Workers, CreateDirectMarket(w)
    PROVE  CyclesSettleOnce'
<1> USE DEF IInv
<1> DEFINE slug == Wanted(w)
<1>1. slug \in Slugs /\ task[w].phase = "insert"
  BY WantedIsSlug DEF CreateDirectMarket
<1>2. CASE Taken(slug)
  BY <1>2, IdleFacts, NobodySettles DEF CreateDirectMarket, Stops, TasksLeave, Leaves, SettlingPhases, Idle, RowsKeep
<1>3. CASE ~Taken(slug)
  <2>1. /\ created' = Append(created, slug) /\ market[slug].status = "absent"
        /\ \A s \in Slugs \ {slug} : market'[s] = market[s]
        /\ \A v \in Workers \ {w} : task'[v] = task[v]
        /\ task'[w].phase \notin SettlingPhases
    <3> DEFINE t == [task[w] EXCEPT !.phase = IF task[w].job.autoOpen THEN "open" ELSE "create",
                                    !.listed = @ \cup {slug}, !.offset = @ + 1]
               row == [Absent EXCEPT !.status = "pending_liquidity", !.due = EndOf(slug)]
    <3>1. /\ created' = Append(created, slug) /\ market[slug].status = "absent"
          /\ market' = [market EXCEPT ![slug] = row] /\ task' = [task EXCEPT ![w] = t]
      BY <1>3 DEF CreateDirectMarket, Taken, Goes
    <3>2. task[w] \in Task
      BY DEF TypeOK
    <3>3. t.phase \in {"open", "create"}
      BY <3>2 DEF Task
    <3> HIDE DEF t, row, slug
    <3> QED
      BY <1>1, <3>1, <3>3 DEF TypeOK, SettlingPhases
  <2>2. market[slug].requester = "none"
    BY <1>1, <2>1 DEF MarketInv, RowFacts
  <2> HIDE DEF slug
  <2>3. \A v \in Workers, s \in Slugs : Settling(v, s)' => Settling(v, s)
    <3>1. SUFFICES ASSUME NEW v \in Workers, NEW s \in Slugs, Settling(v, s)'
                   PROVE  Settling(v, s)
      OBVIOUS
    <3>2. v # w /\ task'[v] = task[v]
      BY <2>1, <3>1 DEF Settling, SettlingPhases
    <3>3. PICK todo \in SUBSET Slugs : todo = task[v].todo /\ todo = task'[v].todo
      BY <3>2 DEF TypeOK, Task
    <3>4. s \in todo /\ \A r \in todo : market[r].status # "absent"
      BY <3>1, <3>2, <3>3 DEF TaskInv, TaskFacts, Settling
    <3>5. Foremost(s, todo)'
      BY <3>1, <3>3 DEF Settling, Foremost
    <3>6. Foremost(s, todo)
      BY <1>1, <2>1, <3>4, <3>5, ForemostStays
    <3> QED
      BY <3>1, <3>2, <3>3, <3>4, <3>6 DEF Settling
  <2>4. \A v \in Workers : ~Settling(v, slug)
    BY <1>1, <2>2 DEF CyclesSettleOnce
  <2> QED
    BY <2>1, <2>3, <2>4, AloneStays
<1> QED
  BY <1>2, <1>3

\* Steps that write no row, and begin to settle no market.
LEMMA ReadersKeep ==
    ASSUME IInv, CyclesSettleOnce, TasksLeave, UNCHANGED <<market, created>>
    PROVE  CyclesSettleOnce'
BY NobodySettles DEF RowsKeep

LEMMA CycleSettlesOnce ==
    ASSUME IInv, CyclesSettleOnce, NEW w \in Workers, CycleStep(w)
    PROVE  CyclesSettleOnce'
<1> USE DEF IInv
<1>1. task[w] \in Task /\ TaskFacts(task[w]) /\ Idle \in Task /\ Idle.phase \notin SettlingPhases
  BY IdleFacts DEF TypeOK, TaskInv, SettlingPhases, Idle
<1>2. ASSUME NEW t \in Task, Goes(w, t),
             t.phase \in SettlingPhases => task[w].phase \in SettlingPhases /\ t.todo = task[w].todo
      PROVE  TasksLeave
  BY <1>2 DEF Goes, TasksLeave, Leaves
<1>3. ASSUME Stops(w)
      PROVE  TasksLeave
  BY <1>1, <1>3 DEF Stops, TasksLeave, Leaves
<1>4. ASSUME NEW slug, NextDue(w, slug, "due")
      PROVE  TasksLeave
  BY <1>4, NextDueLeaves DEF TasksLeave
<1>5. ASSUME NEW phase \in Phases \ SettlingPhases
      PROVE  [task[w] EXCEPT !.phase = phase] \in Task /\ [task[w] EXCEPT !.phase = phase].phase \notin SettlingPhases
  BY <1>1, <1>5 DEF Task
<1>6. CASE SkipExisting(w)
  <2>1. [task[w] EXCEPT !.offset = @ + 1] \in Task
    BY <1>1 DEF Task
  <2> QED
    BY <1>1, <1>2, <1>6, <2>1, ReadersKeep DEF SkipExisting, Task
<1>7. CASE ReadSource(w)
  BY <1>2, <1>5, <1>7, ReadersKeep DEF ReadSource, Phases, SettlingPhases
<1>8. CASE CreateSource(w)
  BY <1>2, <1>3, <1>5, <1>8, ReadersKeep DEF CreateSource, Phases, SettlingPhases
<1>9. CASE CreateDirectMarket(w)
  BY <1>9, CreatorSettlesNothing
<1>10. CASE OpenCreated(w)
  BY <1>2, <1>3, <1>5, <1>10, ReadersKeep DEF OpenCreated, Phases, SettlingPhases
<1>11. CASE Opened(w)
  <2>1. TasksLeave
    BY <1>2, <1>5, <1>11 DEF Opened, Phases, SettlingPhases
  <2>2. RowsKeep
    BY <1>11 DEF Opened, RowsKeep, TypeOK, Row
  <2> QED
    BY <1>11, <2>1, <2>2, NobodySettles DEF Opened
<1>12. CASE EndCreation(w)
  <2> DEFINE t == [task[w] EXCEPT !.phase = "due", !.at = 0, !.listed = {}, !.offset = 0]
  <2>1. 0 \in 0..MaxTime /\ 0 \in Nat /\ {} \in SUBSET Slugs /\ "due" \in Phases
    BY DEF Phases
  <2>2. t \in Task /\ t.phase \notin SettlingPhases
    BY <1>1, <2>1 DEF Task, SettlingPhases
  <2>3. Stops(w) \/ Goes(w, t)
    BY <1>12 DEF EndCreation
  <2> HIDE DEF t
  <2> QED
    BY <1>2, <1>3, <1>12, <2>2, <2>3, ReadersKeep DEF EndCreation
<1>13. ASSUME NEW slug \in task[w].todo, RequestDue(w, slug)
       PROVE  CyclesSettleOnce'
  BY <1>2, <1>5, <1>13, ReadersKeep DEF RequestDue, Phases, SettlingPhases
<1>14. ASSUME NEW slug \in task[w].todo, RequestFails(w, slug) \/ PriceFails(w, slug) \/ SettlementFails(w, slug)
       PROVE  CyclesSettleOnce'
  BY <1>4, <1>14, ReadersKeep DEF RequestFails, PriceFails, SettlementFails
<1>15. ASSUME NEW slug \in task[w].todo, ComputeWinner(w, slug)
       PROVE  CyclesSettleOnce'
  <2> DEFINE winner == WinnerCode(Candle(task[w].job, slug))
             t == [task[w] EXCEPT !.phase = "settle", !.winner = winner]
  <2>1. winner \in Winners
    BY DEF WinnerCode, Winners
  <2>2. Goes(w, t) /\ task[w].phase \in SettlingPhases
    BY <1>15 DEF ComputeWinner, Handles, SettlingPhases
  <2> HIDE DEF winner
  <2>3. t \in Task /\ t.todo = task[w].todo
    BY <1>1, <2>1 DEF Task, Phases
  <2> QED
    BY <1>2, <1>15, <2>2, <2>3, ReadersKeep DEF ComputeWinner
<1>16. ASSUME NEW slug \in task[w].todo, SettleDue(w, slug)
       PROVE  CyclesSettleOnce'
  <2> DEFINE t == [task[w] EXCEPT !.phase = "settling", !.seen = market[slug].known]
  <2>1. task[w].phase \in SettlingPhases /\ slug \in Slugs /\ (Goes(w, t) \/ NextDue(w, slug, "due"))
    BY <1>1, <1>16 DEF SettleDue, Handles, SettlingPhases, Task
  <2>2. t \in Task /\ t.todo = task[w].todo
    BY <1>1, <2>1 DEF Task, Phases, TypeOK, Row
  <2> HIDE DEF t
  <2> QED
    BY <1>2, <1>4, <1>16, <2>1, <2>2, ReadersKeep DEF SettleDue
<1>17. ASSUME NEW slug \in task[w].todo, RequestRecorded(w, slug) \/ SettledDue(w, slug)
       PROVE  CyclesSettleOnce'
  BY <1>17, RequesterSettlesAlone, SettlerWasAlone
<1> QED
  BY <1>6, <1>7, <1>8, <1>9, <1>10, <1>11, <1>12, <1>13, <1>14, <1>15, <1>16, <1>17 DEF CycleStep

LEMMA RunSettlesOnce ==
    ASSUME IInv, CyclesSettleOnce, NEW w \in Workers, RunStep(w)
    PROVE  CyclesSettleOnce'
<1> USE DEF IInv
<1>1. task[w] \in Task /\ TaskFacts(task[w]) /\ task' \in [Workers -> Task]
  BY RunStepKeeps DEF TypeOK, TaskInv
<1>2. ASSUME NEW slug \in task[w].todo,
             ReconcileFails(w, slug) \/ RecordFails(w, slug) \/ FinalizeFails(w, slug)
      PROVE  CyclesSettleOnce'
  BY <1>2, NextDueLeaves, ReadersKeep DEF ReconcileFails, RecordFails, FinalizeFails, TasksLeave
<1>3. ASSUME NEW slug \in task[w].todo, RecordAssertion(w, slug)
      PROVE  CyclesSettleOnce'
  <2>1. task' = [task EXCEPT ![w] = task'[w]] /\ task'[w].phase = "derive"
    BY <1>1, <1>3 DEF RecordAssertion, Goes, TypeOK, Task
  <2>2. TasksLeave
    BY <1>1, <2>1 DEF TasksLeave, Leaves, SettlingPhases
  <2>3. RowsKeep
    BY <1>3 DEF RecordAssertion, RowsKeep, TypeOK, Row
  <2> QED
    BY <1>3, <2>2, <2>3, NobodySettles DEF RecordAssertion
<1>4. ASSUME NEW slug \in task[w].todo,
             ReadAssertion(w, slug) \/ DeriveWinner(w, slug) \/ FinalizeDue(w, slug)
      PROVE  CyclesSettleOnce'
  <2>1. NextDue(w, slug, "inspect") => TasksLeave
    BY NextDueLeaves DEF TasksLeave
  <2>2. ASSUME NEW t, Goes(w, t), t.phase \notin SettlingPhases
        PROVE  TasksLeave
    <3>1. task'[w] = t
      BY <2>2 DEF Goes, TypeOK
    <3> QED
      BY <1>1, <2>2, <3>1 DEF Goes, TasksLeave, Leaves
  <2>3. TasksLeave
    <3>1. CASE ReadAssertion(w, slug)
      <4> DEFINE t == [task[w] EXCEPT !.phase = "record", !.seen = OnChain(slug)]
                 u == [task[w] EXCEPT !.phase = "derive"]
      <4>1. t.phase \notin SettlingPhases /\ u.phase \notin SettlingPhases
        BY <1>1 DEF Task, SettlingPhases
      <4>2. Goes(w, t) \/ Goes(w, u)
        BY <3>1 DEF ReadAssertion
      <4> HIDE DEF t, u
      <4> QED
        BY <2>2, <4>1, <4>2
    <3>2. CASE DeriveWinner(w, slug)
      <4> DEFINE t == [task[w] EXCEPT !.phase = "finalize", !.winner = DeriveOracleWinnerCode(market[slug].known)]
      <4>1. t.phase \notin SettlingPhases
        BY <1>1 DEF Task, SettlingPhases
      <4>2. Goes(w, t) \/ NextDue(w, slug, "inspect")
        BY <3>2 DEF DeriveWinner
      <4> HIDE DEF t
      <4> QED
        BY <2>1, <2>2, <4>1, <4>2
    <3>3. CASE FinalizeDue(w, slug)
      <4> DEFINE t == [task[w] EXCEPT !.phase = "finalizing", !.seen = market[slug].known]
      <4>1. t.phase \notin SettlingPhases
        BY <1>1 DEF Task, SettlingPhases
      <4>2. Goes(w, t) \/ NextDue(w, slug, "inspect")
        BY <3>3 DEF FinalizeDue
      <4> HIDE DEF t
      <4> QED
        BY <2>1, <2>2, <4>1, <4>2
    <3> QED
      BY <1>4, <3>1, <3>2, <3>3
  <2> QED
    BY <1>4, <2>3, ReadersKeep DEF ReadAssertion, DeriveWinner, FinalizeDue
<1>5. ASSUME NEW slug \in task[w].todo, FinalizedDue(w, slug)
      PROVE  CyclesSettleOnce'
  <2>1. TasksLeave
    BY <1>5, NextDueLeaves DEF FinalizedDue, TasksLeave
  <2>2. RowsKeep
    BY <1>5 DEF FinalizedDue, Settled, RowsKeep, TypeOK, Row
  <2> QED
    BY <1>5, <2>1, <2>2, NobodySettles DEF FinalizedDue
<1> QED
  BY <1>2, <1>3, <1>4, <1>5 DEF RunStep

\* Nobody else writes "cycle", and a request that is recorded stays recorded.
LEMMA CallsSettleOnce ==
    ASSUME IInv, CyclesSettleOnce, NEW c \in handling, CallEnds(c)
    PROVE  CyclesSettleOnce'
<1> USE DEF IInv
<1>1. TasksLeave /\ created' = created
  BY DEF CallEnds, StatusUpdated, SettlementRequested, DisputeCreated, DisputeReviewed,
         AssertionRecorded, OracleSettlementFinalized, Answered, TasksLeave
<1>2. RowsKeep
  <2>1. CASE StatusUpdated(c)
    BY <2>1 DEF StatusUpdated, RowsKeep, TypeOK, Row
  <2>2. CASE SettlementRequested(c)
    <3>1. CASE Unresolved(c.slug)
      <4>1. \A s \in Slugs \ {c.slug} : market'[s] = market[s]
        BY <2>2, <3>1 DEF SettlementRequested, Requested, TypeOK
      <4>2. market[c.slug].requester = "none"
        BY <3>1 DEF Unresolved
      <4> QED
        BY <4>1, <4>2 DEF RowsKeep
    <3>2. CASE ~Unresolved(c.slug)
      BY <2>2, <3>2 DEF SettlementRequested, RowsKeep
    <3> QED
      BY <3>1, <3>2
  <2>3. CASE DisputeCreated(c)
    BY <2>3 DEF DisputeCreated, RowsKeep, TypeOK, Row
  <2>4. CASE DisputeReviewed(c)
    BY <2>4 DEF DisputeReviewed, RowsKeep, TypeOK, Row
  <2>5. CASE AssertionRecorded(c)
    BY <2>5 DEF AssertionRecorded, RowsKeep, TypeOK, Row
  <2>6. CASE OracleSettlementFinalized(c)
    BY <2>6 DEF OracleSettlementFinalized, Settled, RowsKeep, TypeOK, Row
  <2> QED
    BY <2>1, <2>2, <2>3, <2>4, <2>5, <2>6 DEF CallEnds
<1> QED
  BY <1>1, <1>2, NobodySettles

LEMMA NextSettlesOnce ==
    ASSUME IInv, CyclesSettleOnce, [Next]_vars
    PROVE  CyclesSettleOnce'
<1> USE DEF IInv
<1>1. task' \in [Workers -> Task]
  BY NextKeeps DEF TypeOK
<1>2. ASSUME NEW w \in Workers, NEW p, StartCycle(w, p) \/ StartRun(w, p) \/ Crash(w)
      PROVE  CyclesSettleOnce'
  <2> DEFINE t == [task[w] EXCEPT !.phase = "create", !.job = p, !.at = now, !.listed = Page,
                                  !.todo = {s \in Page : p.request /\ IsDue(s, now)}]
             todo == {s \in SettlementQueue : Processed(p, s)}
             u == [task[w] EXCEPT !.phase = "inspect", !.job = p, !.todo = todo]
  <2>1. \A v \in {t, u, Idle} : v.phase \notin SettlingPhases
    <3>1. task[w] \in Task
      BY DEF TypeOK
    <3>2. t.phase = "create" /\ u.phase = "inspect" /\ Idle.phase = "idle"
      BY <3>1 DEF Task, Idle
    <3> HIDE DEF t, u
    <3> QED
      BY <3>2 DEF SettlingPhases
  <2>2. PICK v \in {t, u, Idle} : task' = [task EXCEPT ![w] = v]
    BY <1>2 DEF StartCycle, StartRun, Crash, Stops, Goes
  <2> HIDE DEF t, u
  <2>3. task'[w] = v /\ v \in Task
    BY <1>1, <2>2 DEF TypeOK
  <2>4. TasksLeave
    BY <2>1, <2>2, <2>3 DEF TasksLeave, Leaves
  <2> QED
    BY <1>2, <2>4, ReadersKeep DEF StartCycle, StartRun, Crash
<1>3. ASSUME NEW w \in Workers, CycleStep(w) \/ RunStep(w)
      PROVE  CyclesSettleOnce'
  BY <1>3, CycleSettlesOnce, RunSettlesOnce
<1>4. ASSUME NEW s \in Slugs, CallStarts(s) \/ ChainStep(s)
      PROVE  CyclesSettleOnce'
  <2>1. UNCHANGED <<task, market, created>>
    BY <1>4 DEF CallStarts, ChainStep, Checked, UpdateMarketStatus, RequestSettlement, CreateDispute,
                ReconcileOracleResolution, ReviewDispute, FinalizeOracleSettlement
  <2> QED
    BY <2>1, ReadersKeep DEF TasksLeave
<1>5. ASSUME NEW c \in handling, CallEnds(c)
      PROVE  CyclesSettleOnce'
  BY <1>5, CallsSettleOnce
<1>6. CASE Tick \/ UNCHANGED vars
  BY <1>6, ReadersKeep DEF Tick, vars, TasksLeave
<1> QED
  BY <1>2, <1>3, <1>4, <1>5, <1>6 DEF Next, Environment

\* Two cycles that both found a market due, on whatever they had read, never
\* both go on to settle it: for any number of overlapping cycles, runs, calls
\* and crashes, the one whose request was recorded is alone with the market.
THEOREM CyclesSettleAlone == Spec => []CyclesSettleOnce
<1>1. Init => CyclesSettleOnce
  BY DEF Init, CyclesSettleOnce, Settling, Idle
<1>2. IInv /\ CyclesSettleOnce /\ [Next]_vars => CyclesSettleOnce'
  BY NextSettlesOnce
<1> QED
  BY <1>1, <1>2, InvariantHolds, PTL DEF Spec

=============================================================================
