----------------------------- MODULE Engine_proofs -----------------------------
(* Theorems about the engine worker and its database, for any tasks, captures, *)
(* drafts, requests and limits.                                                *)
EXTENDS Engine, FiniteSetTheorems, SequenceTheorems, TLAPS

(***************************************************************************)
(* The inductive invariant, stated of a worker (mem, ord) and a database d *)
(* so that it can be followed through the steps of one request: the task   *)
(* is brought into memory, the request is worked on, the database is       *)
(* written, and the answer gets its anchor.                                *)
(***************************************************************************)

AllDrafts == UNION {ToSet(drafts) : drafts \in Drafts}

Wordings == {draft.title : draft \in AllDrafts}

Findings ==
  [id : Nat \ {0}, title : Wordings, summary : Wordings,
   basis : {draft.basis : draft \in AllDrafts} \cup {"hypothesis"},
   evidence : {draft.evidence : draft \in AllDrafts}, status : {"accepted", "downgraded"}]

\* A store has all its fields, and findings of the right type.
StoreOK(s) ==
  /\ s = [source |-> s.source, content |-> s.content, alerts |-> s.alerts, findings |-> s.findings,
          ledger |-> s.ledger, meta |-> s.meta, restored |-> s.restored, ledgerRead |-> s.ledgerRead]
  /\ s.findings \in Seq(Findings)
  /\ s.restored \in Nat /\ s.ledgerRead \in BOOLEAN

\* The cache holds the tasks of its order, each once, and knows where they come from.
WorkerInv(mem, ord, known) ==
  /\ ord \in Seq(Tasks) /\ Len(ord) <= MaxTasks /\ DOMAIN mem = ToSet(ord)
  /\ \A i, j \in 1 .. Len(ord) : ord[i] = ord[j] => i = j
  /\ DOMAIN mem \subseteq known
  /\ \A t \in DOMAIN mem : StoreOK(mem[t])

\* A row's foreign key names a row.
DatabaseInv(d, known) ==
  /\ d = [tasks |-> d.tasks, alerts |-> d.alerts, findings |-> d.findings,
          runs |-> d.runs, calls |-> d.calls]
  /\ DOMAIN d.tasks \subseteq known
  /\ \A r \in DOMAIN d.runs : d.runs[r] \in DOMAIN d.tasks
  /\ \A a \in DOMAIN d.calls : d.calls[a].run \in DOMAIN d.runs

\* The ledger of task t: its anchors were minted, its entries are t's, the calls
\* recorded under its anchors have the facts of its entries and were made on t or are
\* listed for it, and, as far as a recovery reads, it has all calls made on t that
\* are listed for it.
LedgerInv(s, t, d, minting) ==
  /\ \A a \in DOMAIN s.ledger : a \in 1 .. minting /\ s.ledger[a].task = t
  /\ \A a \in DOMAIN s.ledger : a \in DOMAIN d.calls =>
       /\ Facts(d.calls[a].entry) = Facts(s.ledger[a])
       /\ t \in {d.calls[a].entry.task, d.runs[d.calls[a].run]}
  /\ s.ledgerRead /\ Cardinality(CallsOf(d, t)) <= CallLimit =>
       \A a \in CallsOf(d, t) : d.calls[a].entry.task = t =>
         a \in DOMAIN s.ledger /\ Facts(s.ledger[a]) = Facts(d.calls[a].entry)

\* Two ledgers share an anchor only if its call was recorded: one of them got it back
\* from a run that both tasks were reported under.
CallsInv(mem, d, minting) ==
  /\ minting \in Nat
  /\ \A a \in DOMAIN d.calls : a \in 1 .. minting
  /\ \A t \in DOMAIN mem : LedgerInv(mem[t], t, d, minting)
  /\ \A t, u \in DOMAIN mem : t # u =>
       \A a \in DOMAIN mem[t].ledger : a \in DOMAIN mem[u].ledger => a \in DOMAIN d.calls

\* No finding of t was lost for a reason the property excepts.
Undisturbed(t, d, sav, bl) ==
  /\ t \notin bl
  /\ \A u \in Tasks \ {t} : sav[u] = {}
  /\ Cardinality(FindingsOf(d, t)) <= FindingLimit

\* The findings in memory are numbered by position and start with those stored.
ListedInv(s, d) ==
  /\ \A i \in 1 .. Len(s.findings) : s.findings[i].id = i
  /\ \A id \in DOMAIN d.findings :
       id \in 1 .. Len(s.findings) /\ s.findings[id] = d.findings[id].finding

\* The stored findings are numbered without gaps and are all that were accepted.
RowsInv(t, d, sav) ==
  /\ DOMAIN d.findings = 1 .. Cardinality(DOMAIN d.findings)
  /\ \A f \in sav[t] : f.id \in DOMAIN d.findings /\ d.findings[f.id].finding = f

FindingsInv(mem, d, sav, bl) ==
  /\ sav \in [Tasks -> SUBSET Findings]
  /\ IsFiniteSet(DOMAIN d.findings)
  /\ \A id \in DOMAIN d.findings :
       /\ id \in Nat \ {0} /\ d.findings[id].finding \in Findings /\ d.findings[id].finding.id = id
       /\ d.findings[id].task \in Tasks /\ sav[d.findings[id].task] # {}
  /\ \A t \in Tasks : Undisturbed(t, d, sav, bl) => RowsInv(t, d, sav)
  /\ \A t \in DOMAIN mem : Undisturbed(t, d, sav, bl) => ListedInv(mem[t], d)

\* What a finding of this worker names, its citations have shown.
GroundedFinding(f, s, t) ==
  CitesEvidence(f) /\ CitesIssued(f, s.ledger, t) /\ CitesReachable(f, s.ledger)

GroundedInv(mem) ==
  \A t \in DOMAIN mem : \A i \in mem[t].restored + 1 .. Len(mem[t].findings) :
    GroundedFinding(mem[t].findings[i], mem[t], t)

Inv(mem, ord, d, minting, known, sav, bl) ==
  /\ WorkerInv(mem, ord, known) /\ DatabaseInv(d, known) /\ CallsInv(mem, d, minting)
  /\ FindingsInv(mem, d, sav, bl) /\ GroundedInv(mem)
  /\ known \subseteq Tasks /\ \A t \in Tasks : sav[t] # {} => t \in known

EngineInv == Inv(memory, order, db, anchors, minted, saved, blind)

-----------------------------------------------------------------------------
(* ORDER BY and LIMIT                                                       *)

\* The rank of a key counts the keys before it, and grows with the key.
LEMMA RankType ==
  ASSUME NEW keys \in SUBSET Int, IsFiniteSet(keys), NEW k \in keys
  PROVE  /\ Rank(keys, k) \in 0 .. Cardinality(keys) - 1
         /\ \A j \in keys : j < k => Rank(keys, j) < Rank(keys, k)
  <1> DEFINE Before(x) == {j \in keys : j < x}
  <1>1. \A x \in keys : IsFiniteSet(Before(x)) /\ Cardinality(Before(x)) \in Nat
    <2> TAKE x \in keys
    <2>1. Before(x) \in SUBSET keys
      OBVIOUS
    <2> HIDE DEF Before
    <2> QED BY <2>1, FS_Subset, FS_CardinalityType
  <1>2. Cardinality(Before(k)) < Cardinality(keys)
    <2>1. Before(k) \in SUBSET keys /\ k \notin Before(k)
      OBVIOUS
    <2>2. Cardinality(keys) \in Nat
      BY FS_CardinalityType
    <2> HIDE DEF Before
    <2>3. Cardinality(Before(k)) <= Cardinality(keys) /\ Cardinality(Before(k)) # Cardinality(keys)
      BY <2>1, FS_Subset
    <2> QED BY <2>2, <2>3, <1>1
  <1>3. \A j \in keys : j < k => Cardinality(Before(j)) < Cardinality(Before(k))
    <2> SUFFICES ASSUME NEW j \in keys, j < k
                 PROVE  Cardinality(Before(j)) < Cardinality(Before(k))
      OBVIOUS
    <2>0. j \in Int /\ k \in Int /\ \A x \in keys : x \in Int
      OBVIOUS
    <2>1. Before(j) \subseteq Before(k)
      <3> SUFFICES ASSUME NEW x \in Before(j) PROVE x \in Before(k)
        OBVIOUS
      <3>1. x \in keys /\ x \in Int /\ x < j
        BY <2>0
      <3>2. x < k
        BY <2>0, <3>1
      <3> QED BY <3>1, <3>2
    <2>2. j \in Before(k) /\ j \notin Before(j)
      BY <2>0
    <2> HIDE DEF Before
    <2>3. Cardinality(Before(j)) <= Cardinality(Before(k)) /\ Cardinality(Before(j)) # Cardinality(Before(k))
      BY <2>1, <2>2, <1>1, FS_Subset
    <2> QED BY <2>3, <1>1
  <1>4. Cardinality(keys) \in Nat
    BY FS_CardinalityType
  <1>5. \A x \in keys : Rank(keys, x) = Cardinality(Before(x))
    BY DEF Rank
  <1> HIDE DEF Before
  <1>6. Rank(keys, k) \in 0 .. Cardinality(keys) - 1
    BY <1>1, <1>2, <1>4, <1>5
  <1> QED BY <1>3, <1>5, <1>6

\* Every rank is some key's.
LEMMA RankOnto ==
  ASSUME NEW keys \in SUBSET Int, IsFiniteSet(keys), NEW i \in 0 .. Cardinality(keys) - 1
  PROVE  \E k \in keys : Rank(keys, k) = i
  <1> DEFINE n == Cardinality(keys)
             Ranks == 0 .. n - 1
             rank == [k \in keys |-> Rank(keys, k)]
  <1>1. n \in Nat
    BY FS_CardinalityType
  <1>2. IsFiniteSet(Ranks) /\ Cardinality(Ranks) = n
    BY <1>1, FS_Interval
  <1>3. rank \in [keys -> Ranks]
    BY RankType
  <1>4. \A j, k \in keys : rank[j] = rank[k] => j = k
    <2> TAKE j, k \in keys
    <2>1. j < k => Rank(keys, j) < Rank(keys, k)
      BY RankType
    <2>2. k < j => Rank(keys, k) < Rank(keys, j)
      BY RankType
    <2>3. Rank(keys, j) \in Int /\ Rank(keys, k) \in Int
      BY RankType, <1>1
    <2> QED BY <2>1, <2>2, <2>3
  <1>5. i \in Ranks
    OBVIOUS
  <1> HIDE DEF rank, Ranks, n
  <1>6. rank \in Injection(keys, Ranks)
    BY <1>3, <1>4 DEF Injection, IsInjective
  <1>7. rank \in Surjection(keys, Ranks)
    BY <1>2, <1>6, FS_Injection DEF n
  <1>8. PICK k \in keys : rank[k] = i
    BY <1>5, <1>7 DEF Surjection
  <1> QED BY <1>8 DEF rank

\* A nonempty set of positions of a list has a first and a last one.
LEMMA PositionsBounded ==
  ASSUME NEW n \in Nat, NEW S \in SUBSET (1 .. n), S # {}
  PROVE  Min(S) \in S /\ Max(S) \in S
  <1>1. S \in SUBSET Int /\ IsFiniteSet(S)
    <2>1. IsFiniteSet(1 .. n)
      BY FS_Interval
    <2>2. IsFiniteSet(S)
      BY <2>1, FS_Subset
    <2> QED BY <2>2
  <1>2. Cardinality(S) \in Nat \ {0}
    BY <1>1, FS_CardinalityType, FS_EmptySet
  <1>3. PICK x \in S : Rank(S, x) = 0
    BY <1>1, <1>2, RankOnto
  <1>4. PICK y \in S : Rank(S, y) = Cardinality(S) - 1
    BY <1>1, <1>2, RankOnto
  <1>5. \A k \in S : Rank(S, k) >= 0 /\ Rank(S, k) <= Cardinality(S) - 1 /\ Rank(S, k) \in Int
    BY <1>1, <1>2, RankType
  <1>6. \A k \in S : x <= k /\ y >= k
    <2> TAKE k \in S
    <2>1. k < x => Rank(S, k) < Rank(S, x)
      BY <1>1, RankType
    <2>2. y < k => Rank(S, y) < Rank(S, k)
      BY <1>1, RankType
    <2> QED BY <2>1, <2>2, <1>2, <1>3, <1>4, <1>5
  <1>7. Min(S) \in S
    BY <1>6 DEF Min
  <1>8. Max(S) \in S
    BY <1>6 DEF Max
  <1> QED BY <1>7, <1>8

\* A list in order goes through the keys.
LEMMA InOrderType ==
  ASSUME NEW keys \in SUBSET Int, IsFiniteSet(keys)
  PROVE  /\ Cardinality(keys) \in Nat
         /\ InOrder(keys) \in Seq(keys)
         /\ Len(InOrder(keys)) = Cardinality(keys)
  <1>1. Cardinality(keys) \in Nat
    BY FS_CardinalityType
  <1>2. \A i \in 1 .. Cardinality(keys) : InOrder(keys)[i] \in keys
    <2> TAKE i \in 1 .. Cardinality(keys)
    <2>1. \E k \in keys : Rank(keys, k) = i - 1
      BY <1>1, RankOnto
    <2> QED BY <2>1 DEF InOrder
  <1>3. InOrder(keys) \in [1 .. Cardinality(keys) -> keys]
    BY <1>2 DEF InOrder
  <1> QED BY <1>1, <1>3

\* The keys 1 .. n are listed as they are.
LEMMA InOrderOfInterval ==
  ASSUME NEW n \in Nat
  PROVE  InOrder(1 .. n) = [i \in 1 .. n |-> i]
  <1>1. Cardinality(1 .. n) = n
    BY FS_Interval
  <1>2. \A k \in 1 .. n : Rank(1 .. n, k) = k - 1
    <2> TAKE k \in 1 .. n
    <2>1. {j \in 1 .. n : j < k} = 1 .. k - 1
      OBVIOUS
    <2>2. Cardinality(1 .. k - 1) = k - 1
      BY FS_Interval
    <2> QED BY <2>1, <2>2 DEF Rank
  <1>3. \A i \in 1 .. n : (CHOOSE k \in 1 .. n : Rank(1 .. n, k) = i - 1) = i
    BY <1>2
  <1> QED BY <1>1, <1>3 DEF InOrder

\* A limit no smaller than the number of keys leaves out none.
LEMMA LimitedAll ==
  ASSUME NEW keys \in SUBSET Int, IsFiniteSet(keys), NEW limit \in Nat, Cardinality(keys) <= limit
  PROVE  Limited(keys, limit) = keys
  <1>1. Cardinality(keys) \in Nat
    BY FS_CardinalityType
  <1>2. \A k \in keys : Rank(keys, k) < limit
    BY <1>1, RankType
  <1> QED BY <1>2 DEF Limited

-----------------------------------------------------------------------------
(* The cache                                                                *)

\* The tasks that stay in the cache when another comes are some of those in it,
\* each once, and leave a place.
LEMMA KeptType ==
  ASSUME NEW known, WorkerInv(memory, order, known)
  PROVE  /\ Kept \in Seq(Tasks) /\ Len(Kept) < MaxTasks
         /\ ToSet(Kept) \subseteq DOMAIN memory
         /\ \A i, j \in 1 .. Len(Kept) : Kept[i] = Kept[j] => i = j
  <1>1. order \in Seq(Tasks) /\ Len(order) <= MaxTasks /\ MaxTasks \in Nat \ {0} /\ Len(order) \in Nat
        /\ DOMAIN memory = ToSet(order)
    BY EngineAssumption DEF WorkerInv
  <1>2. ToSet(order) = {order[i] : i \in 1 .. Len(order)}
    BY <1>1 DEF ToSet
  <1>3. CASE Len(order) < MaxTasks
    BY <1>1, <1>3 DEF Kept, WorkerInv
  <1>4. CASE Len(order) = MaxTasks
    <2>1. Kept = SubSeq(order, 2, Len(order))
      BY <1>1, <1>4 DEF Kept
    <2>2. /\ Kept \in Seq(Tasks) /\ Len(Kept) = Len(order) - 1
          /\ \A i \in 1 .. Len(order) - 1 : Kept[i] = order[i + 1]
      <3>1. \A i \in 2 .. Len(order) : order[i] \in Tasks
        BY <1>1
      <3>2. 2 \in Int /\ Len(order) \in Int /\ Len(order) >= 1
        BY <1>1, <1>4
      <3>3. /\ SubSeq(order, 2, Len(order)) \in Seq(Tasks)
            /\ Len(SubSeq(order, 2, Len(order))) = IF 2 <= Len(order) THEN Len(order) - 2 + 1 ELSE 0
            /\ \A i \in 1 .. Len(order) - 2 + 1 : SubSeq(order, 2, Len(order))[i] = order[2 + i - 1]
        BY <3>1, <3>2, SubSeqProperties
      <3>4. \A i \in 1 .. Len(order) - 1 : i \in 1 .. Len(order) - 2 + 1 /\ 2 + i - 1 = i + 1
        BY <3>2
      <3>5. Kept \in Seq(Tasks) /\ Len(Kept) = Len(order) - 1
        <4>1. Kept \in Seq(Tasks)
          BY <2>1, <3>3
        <4>2. CASE Len(order) >= 2
          <5>1. Len(Kept) = Len(order) - 2 + 1
            BY <2>1, <3>2, <3>3, <4>2
          <5> QED BY <3>2, <4>1, <5>1
        <4>3. CASE Len(order) = 1
          <5>1. Len(Kept) = 0
            BY <2>1, <3>3, <4>3
          <5> QED BY <4>1, <4>3, <5>1
        <4>4. Len(order) >= 2 \/ Len(order) = 1
          BY <1>1, <1>4
        <4> QED BY <4>2, <4>3, <4>4
      <3>6. \A i \in 1 .. Len(order) - 1 : Kept[i] = order[i + 1]
        <4> TAKE i \in 1 .. Len(order) - 1
        <4>1. SubSeq(order, 2, Len(order))[i] = order[2 + i - 1] /\ 2 + i - 1 = i + 1
          BY <3>3, <3>4
        <4> QED BY <2>1, <4>1
      <3> QED BY <3>5, <3>6
    <2>3. \A i \in 1 .. Len(Kept) : i + 1 \in 1 .. Len(order) /\ Kept[i] = order[i + 1]
      BY <1>1, <2>2
    <2>4. ToSet(Kept) \subseteq ToSet(order)
      <3>1. ToSet(Kept) = {Kept[i] : i \in 1 .. Len(Kept)}
        BY <2>2 DEF ToSet
      <3> QED BY <1>2, <2>3, <3>1
    <2>5. \A i, j \in 1 .. Len(Kept) : Kept[i] = Kept[j] => i = j
      <3> SUFFICES ASSUME NEW i \in 1 .. Len(Kept), NEW j \in 1 .. Len(Kept), Kept[i] = Kept[j]
                   PROVE  i = j
        OBVIOUS
      <3>1. order[i + 1] = order[j + 1]
        BY <2>3
      <3>2. i + 1 = j + 1
        BY <2>3, <3>1 DEF WorkerInv
      <3> QED BY <3>2
    <2> QED BY <1>1, <1>4, <2>2, <2>4, <2>5
  <1> QED BY <1>1, <1>3, <1>4

\* A task that was not in memory comes in, at the end of the order.
LEMMA InsertWorker ==
  ASSUME NEW known, WorkerInv(memory, order, known), NEW t \in Tasks, t \in known,
         t \notin DOMAIN memory, NEW s, StoreOK(s)
  PROVE  /\ WorkerInv(Inserted(t, s).memory, Inserted(t, s).order, known)
         /\ t \in DOMAIN Inserted(t, s).memory /\ Inserted(t, s).memory[t] = s
         /\ \A u \in DOMAIN Inserted(t, s).memory \ {t} :
              u \in DOMAIN memory /\ Inserted(t, s).memory[u] = memory[u]
  <1> DEFINE mem == Inserted(t, s).memory
             ord == Inserted(t, s).order
  <1>1. mem = [u \in ToSet(Kept) \cup {t} |-> IF u = t THEN s ELSE memory[u]] /\ ord = Append(Kept, t)
    BY DEF Inserted, WithStore
  <1>2. /\ Kept \in Seq(Tasks) /\ Len(Kept) < MaxTasks /\ ToSet(Kept) \subseteq DOMAIN memory
        /\ \A i, j \in 1 .. Len(Kept) : Kept[i] = Kept[j] => i = j
    BY KeptType
  <1>3. ToSet(Kept) = {Kept[i] : i \in 1 .. Len(Kept)}
    BY <1>2 DEF ToSet
  <1> HIDE DEF mem, ord
  <1>4. /\ ord \in Seq(Tasks) /\ Len(ord) = Len(Kept) + 1 /\ ord[Len(ord)] = t
        /\ \A i \in 1 .. Len(Kept) : ord[i] = Kept[i]
    BY <1>1, <1>2
  <1>5. Len(ord) <= MaxTasks
    BY <1>2, <1>4, EngineAssumption
  <1>6. DOMAIN mem = ToSet(ord)
    <2>1. ToSet(ord) = {ord[i] : i \in 1 .. Len(ord)}
      BY <1>4 DEF ToSet
    <2>2. \A i \in 1 .. Len(ord) : i \in 1 .. Len(Kept) \/ i = Len(ord)
      BY <1>2, <1>4
    <2>3. 1 .. Len(Kept) \subseteq 1 .. Len(ord) /\ Len(ord) \in 1 .. Len(ord)
      BY <1>2, <1>4
    <2> QED BY <1>1, <1>3, <1>4, <2>1, <2>2, <2>3
  <1>7. \A i, j \in 1 .. Len(ord) : ord[i] = ord[j] => i = j
    <2> SUFFICES ASSUME NEW i \in 1 .. Len(ord), NEW j \in 1 .. Len(ord), ord[i] = ord[j]
                 PROVE  i = j
      OBVIOUS
    <2>1. \A k \in 1 .. Len(Kept) : ord[k] # t
      BY <1>2, <1>3, <1>4
    <2>2. \A k \in 1 .. Len(ord) : k \in 1 .. Len(Kept) \/ k = Len(ord)
      BY <1>2, <1>4
    <2> QED BY <1>2, <1>4, <2>1, <2>2
  <1>8. /\ t \in DOMAIN mem /\ mem[t] = s
        /\ \A u \in DOMAIN mem \ {t} : u \in DOMAIN memory /\ mem[u] = memory[u]
    BY <1>1, <1>2
  <1>9. DOMAIN mem \subseteq known /\ \A u \in DOMAIN mem : StoreOK(mem[u])
    BY <1>8 DEF WorkerInv
  <1>10. WorkerInv(mem, ord, known)
    BY <1>4, <1>5, <1>6, <1>7, <1>9 DEF WorkerInv
  <1> QED BY <1>8, <1>10 DEF mem, ord

-----------------------------------------------------------------------------
(* The database: what each write changes                                    *)

\* The rows of findings, and of runs and calls, are the same in d and e.
KeepsFindings(d, e) ==
  /\ DOMAIN e.findings = DOMAIN d.findings
  /\ \A id \in DOMAIN d.findings : e.findings[id] = d.findings[id]

KeepsCalls(d, e) == e.runs = d.runs /\ e.calls = d.calls

\* e is d with the findings fs of task t.
AddsFindings(d, e, t, fs) ==
  LET ids == {fs[i].id : i \in DOMAIN fs}
  IN  /\ DOMAIN e.findings = DOMAIN d.findings \cup ids
      /\ \A id \in DOMAIN e.findings : e.findings[id] =
           IF id \in ids THEN UpsertedFinding(d.findings, t, fs, id) ELSE d.findings[id]

\* e is d with a run, of task t unless it was known, and some calls of t's ledger.
AddsCalls(d, e, t, run, ledger) ==
  /\ t \in DOMAIN d.tasks \/ run \in DOMAIN d.runs
  /\ DOMAIN e.runs = DOMAIN d.runs \cup {run}
  /\ \A r \in DOMAIN e.runs : e.runs[r] = IF r \in DOMAIN d.runs THEN d.runs[r] ELSE t
  /\ DOMAIN d.calls \subseteq DOMAIN e.calls /\ DOMAIN e.calls \subseteq DOMAIN d.calls \cup DOMAIN ledger
  /\ \A a \in DOMAIN e.calls : e.calls[a] =
       IF a \in DOMAIN d.calls THEN d.calls[a] ELSE [run |-> run, entry |-> ledger[a]]

IsDatabase(d) ==
  d = [tasks |-> d.tasks, alerts |-> d.alerts, findings |-> d.findings, runs |-> d.runs, calls |-> d.calls]

\* e has the fields of a database, and the rows of tasks of d and that of t.
AddsTask(d, e, t) == IsDatabase(e) /\ DOMAIN e.tasks = DOMAIN d.tasks \cup {t}

\* Storing a task and its alerts touches no other table.
LEMMA StoredTask ==
  ASSUME NEW d, IsDatabase(d), NEW t, NEW s, NEW e \in Interrupted(d, t, s)
  PROVE  AddsTask(d, e, t) /\ e.findings = d.findings /\ KeepsCalls(d, e)
  <1> DEFINE task == TaskStored(d, t, s)
             alerts == AlertsStored(d, t, s)
  <1>1. AddsTask(d, task, t) /\ task.findings = d.findings /\ KeepsCalls(d, task)
    <2> DEFINE tasks == InsertOrIgnore(d.tasks, [u \in {t} |-> [source |-> s.source, sha |-> s.content]])
    <2>1. DOMAIN tasks = DOMAIN d.tasks \cup {t}
      BY DEF InsertOrIgnore
    <2>2. task = [d EXCEPT !.tasks = tasks]
      BY DEF IsDatabase, TaskStored, UpsertTask
    <2> HIDE DEF tasks, task
    <2>3. task = [tasks |-> tasks, alerts |-> d.alerts, findings |-> d.findings, runs |-> d.runs, calls |-> d.calls]
      BY <2>2 DEF IsDatabase
    <2> QED BY <2>1, <2>3 DEF AddsTask, IsDatabase, KeepsCalls
  <1> HIDE DEF task
  <1>2. /\ IsDatabase(alerts) /\ alerts.tasks = task.tasks /\ alerts.findings = task.findings
        /\ KeepsCalls(task, alerts)
    <2>1. PICK rows : alerts = [task EXCEPT !.alerts = rows]
      BY DEF AlertsStored, UpsertAlerts, task
    <2> HIDE DEF alerts
    <2>2. alerts = [tasks |-> task.tasks, alerts |-> rows, findings |-> task.findings,
                    runs |-> task.runs, calls |-> task.calls]
      BY <1>1, <2>1 DEF AddsTask, IsDatabase
    <2> QED BY <2>2 DEF IsDatabase, KeepsCalls
  <1>3. e \in {task, alerts}
    BY DEF Interrupted, task
  <1> HIDE DEF alerts
  <1> QED BY <1>1, <1>2, <1>3 DEF AddsTask, KeepsCalls

\* Recording a run touches no other table than those of runs and calls.
LEMMA RecordedRun ==
  ASSUME NEW d, IsDatabase(d), NEW t, NEW s, NEW run, s.meta = run,
         NEW e \in Recorded(d, t, s)
  PROVE  /\ IsDatabase(e) /\ e.tasks = d.tasks /\ e.findings = d.findings
         /\ KeepsCalls(d, e) \/ AddsCalls(d, e, t, run, s.ledger)
  <1>1. CASE e = d
    BY <1>1 DEF KeepsCalls
  <1>2. CASE e # d
    <2>1. PICK n : /\ t \in DOMAIN d.tasks \/ run \in DOMAIN d.runs
                   /\ e = InsertToolCalls(UpsertRun(d, s.meta, t), s.meta, s.ledger, Limited(DOMAIN s.ledger, n))
      BY <1>2 DEF Recorded
    <2> DEFINE picked == Limited(DOMAIN s.ledger, n)
               runs == InsertOrIgnore(d.runs, [r \in {run} |-> t])
               calls == InsertOrIgnore(d.calls, [a \in picked |-> [run |-> run, entry |-> s.ledger[a]]])
    <2>2. picked \subseteq DOMAIN s.ledger
      BY DEF Limited
    <2>3. UpsertRun(d, run, t) = [d EXCEPT !.runs = runs]
      BY DEF UpsertRun, IsDatabase
    <2>4. [d EXCEPT !.runs = runs] = [tasks |-> d.tasks, alerts |-> d.alerts, findings |-> d.findings,
                                      runs |-> runs, calls |-> d.calls]
      <3> HIDE DEF runs
      <3> QED BY DEF IsDatabase
    <2>5. e = [tasks |-> d.tasks, alerts |-> d.alerts, findings |-> d.findings, runs |-> runs, calls |-> calls]
      <3>1. e = [[d EXCEPT !.runs = runs] EXCEPT !.calls = calls]
        <4> HIDE DEF runs, picked
        <4>1. [d EXCEPT !.runs = runs].calls = d.calls
          BY <2>4
        <4> QED BY <2>1, <2>3, <2>4, <4>1 DEF InsertToolCalls, picked
      <3> HIDE DEF runs, calls
      <3> QED BY <2>4, <3>1
    <2>6. DOMAIN runs = DOMAIN d.runs \cup {run}
          /\ \A r \in DOMAIN runs : runs[r] = IF r \in DOMAIN d.runs THEN d.runs[r] ELSE t
      BY DEF InsertOrIgnore
    <2>7. DOMAIN calls = DOMAIN d.calls \cup picked
          /\ \A a \in DOMAIN calls : calls[a] =
               IF a \in DOMAIN d.calls THEN d.calls[a] ELSE [run |-> run, entry |-> s.ledger[a]]
      <3> HIDE DEF picked
      <3> QED BY DEF InsertOrIgnore
    <2> HIDE DEF runs, calls, picked
    <2>8. e.runs = runs /\ e.calls = calls /\ e.tasks = d.tasks /\ e.findings = d.findings /\ IsDatabase(e)
      BY <2>5 DEF IsDatabase
    <2> QED BY <2>1, <2>2, <2>6, <2>7, <2>8 DEF AddsCalls
  <1> QED BY <1>1, <1>2

\* Storing a task to the end of its findings, and perhaps its run.
LEMMA StoredAll ==
  ASSUME NEW d, IsDatabase(d), NEW t, NEW s, NEW e \in Persisted(d, t, s)
  PROVE  /\ AddsTask(d, e, t) /\ AddsFindings(d, e, t, s.findings)
         /\ KeepsCalls(d, e) \/ \E m : /\ IsDatabase(m) /\ DOMAIN m.tasks = DOMAIN d.tasks \cup {t}
                                       /\ KeepsCalls(d, m) /\ AddsCalls(m, e, t, s.meta, s.ledger)
         /\ s.meta = None => KeepsCalls(d, e)
  <1> DEFINE alerts == AlertsStored(d, t, s)
             ids == {s.findings[i].id : i \in DOMAIN s.findings}
             rows == [id \in DOMAIN alerts.findings \cup ids |->
                        IF id \in ids THEN UpsertedFinding(alerts.findings, t, s.findings, id)
                                      ELSE alerts.findings[id]]
             stored == UpsertFindings(alerts, t, s.findings)
  <1>1. AddsTask(d, alerts, t) /\ alerts.findings = d.findings /\ KeepsCalls(d, alerts)
    BY StoredTask DEF Interrupted
  <1> HIDE DEF alerts
  <1>2. stored = [alerts EXCEPT !.findings = rows]
    BY <1>1 DEF UpsertFindings, AddsTask, IsDatabase
  <1>3. DOMAIN rows = DOMAIN d.findings \cup ids
        /\ \A id \in DOMAIN rows : rows[id] =
             IF id \in ids THEN UpsertedFinding(d.findings, t, s.findings, id) ELSE d.findings[id]
    BY <1>1
  <1> HIDE DEF rows, stored
  <1>4. stored = [tasks |-> alerts.tasks, alerts |-> alerts.alerts, findings |-> rows,
                  runs |-> alerts.runs, calls |-> alerts.calls]
    BY <1>1, <1>2 DEF AddsTask, IsDatabase
  <1>5. /\ IsDatabase(stored) /\ stored.findings = rows /\ stored.tasks = alerts.tasks
        /\ KeepsCalls(d, stored)
    BY <1>1, <1>4 DEF IsDatabase, KeepsCalls
  <1>6. AddsTask(d, stored, t) /\ AddsFindings(d, stored, t, s.findings)
    BY <1>1, <1>3, <1>5 DEF AddsTask, AddsFindings
  <1>7. CASE s.meta = None
    <2>1. e = stored
      BY <1>7 DEF Persisted, stored, alerts
    <2> QED BY <1>5, <1>6, <2>1
  <1>8. CASE s.meta # None
    <2>1. e \in Recorded(stored, t, s)
      BY <1>8 DEF Persisted, stored, alerts
    <2>2. /\ IsDatabase(e) /\ e.tasks = stored.tasks /\ e.findings = stored.findings
          /\ KeepsCalls(stored, e) \/ AddsCalls(stored, e, t, s.meta, s.ledger)
      BY <1>5, <2>1, RecordedRun
    <2>3. AddsTask(d, e, t) /\ AddsFindings(d, e, t, s.findings)
      BY <1>6, <2>2 DEF AddsTask, AddsFindings
    <2>4. KeepsCalls(stored, e) => KeepsCalls(d, e)
      BY <1>5 DEF KeepsCalls
    <2> QED BY <1>5, <1>6, <1>8, <2>2, <2>3, <2>4 DEF AddsTask
  <1> QED BY <1>7, <1>8

-----------------------------------------------------------------------------
(* The ledgers and the recorded calls                                       *)

\* The runs and calls of e, where d had one and where it had not.
LEMMA CallsAfter ==
  ASSUME NEW d, NEW e, NEW known, NEW t, NEW run, NEW ledger,
         DatabaseInv(d, known), AddsCalls(d, e, t, run, ledger)
  PROVE  /\ run \in DOMAIN e.runs /\ (run \notin DOMAIN d.runs => t \in DOMAIN d.tasks /\ e.runs[run] = t)
         /\ \A r \in DOMAIN d.runs : r \in DOMAIN e.runs /\ e.runs[r] = d.runs[r]
         /\ \A a \in DOMAIN d.calls : /\ a \in DOMAIN e.calls /\ e.calls[a] = d.calls[a]
                                      /\ e.runs[e.calls[a].run] = d.runs[d.calls[a].run]
         /\ \A a \in DOMAIN e.calls \ DOMAIN d.calls :
              /\ a \in DOMAIN ledger /\ e.calls[a].run = run /\ e.calls[a].entry = ledger[a]
  <1>1. \A r \in DOMAIN d.runs : r \in DOMAIN e.runs /\ e.runs[r] = d.runs[r]
    BY DEF AddsCalls
  <1>2. run \in DOMAIN e.runs /\ (run \notin DOMAIN d.runs => t \in DOMAIN d.tasks /\ e.runs[run] = t)
    BY DEF AddsCalls
  <1>3. \A a \in DOMAIN d.calls : /\ a \in DOMAIN e.calls /\ e.calls[a] = d.calls[a]
                                  /\ e.runs[e.calls[a].run] = d.runs[d.calls[a].run]
    <2> TAKE a \in DOMAIN d.calls
    <2>1. a \in DOMAIN e.calls /\ e.calls[a] = d.calls[a]
      BY DEF AddsCalls
    <2>2. d.calls[a].run \in DOMAIN d.runs
      BY DEF DatabaseInv
    <2> QED BY <1>1, <2>1, <2>2
  <1>4. \A a \in DOMAIN e.calls \ DOMAIN d.calls :
          a \in DOMAIN ledger /\ e.calls[a].run = run /\ e.calls[a].entry = ledger[a]
    <2> TAKE a \in DOMAIN e.calls \ DOMAIN d.calls
    <2>1. a \in DOMAIN ledger /\ e.calls[a] = [run |-> run, entry |-> ledger[a]]
      BY DEF AddsCalls
    <2> QED BY <2>1
  <1> QED BY <1>1, <1>2, <1>3, <1>4

\* The foreign keys survive the recording of a run.
LEMMA DatabaseKept ==
  ASSUME NEW d, NEW e, NEW known, NEW more, known \subseteq more, NEW t \in more, DatabaseInv(d, known),
         IsDatabase(e), DOMAIN d.tasks \subseteq DOMAIN e.tasks, DOMAIN e.tasks \subseteq DOMAIN d.tasks \cup {t},
         NEW run, NEW ledger, KeepsCalls(d, e) \/ AddsCalls(d, e, t, run, ledger)
  PROVE  DatabaseInv(e, more)
  <1>1. DOMAIN e.tasks \subseteq more
    BY DEF DatabaseInv
  <1>2. CASE KeepsCalls(d, e)
    BY <1>1, <1>2 DEF KeepsCalls, DatabaseInv, IsDatabase
  <1>3. CASE AddsCalls(d, e, t, run, ledger)
    <2>1. \A r \in DOMAIN e.runs : r \in DOMAIN d.runs \/ r = run
      BY <1>3 DEF AddsCalls
    <2>2. \A r \in DOMAIN e.runs : e.runs[r] \in DOMAIN e.tasks
      <3> TAKE r \in DOMAIN e.runs
      <3>1. CASE r \in DOMAIN d.runs
        <4>1. e.runs[r] = d.runs[r]
          BY <1>3, <3>1, CallsAfter
        <4> QED BY <3>1, <4>1 DEF DatabaseInv
      <3>2. CASE r = run /\ r \notin DOMAIN d.runs
        <4>1. e.runs[r] = t /\ t \in DOMAIN d.tasks
          BY <1>3, <3>2, CallsAfter
        <4> QED BY <4>1
      <3> QED BY <2>1, <3>1, <3>2
    <2>3. \A a \in DOMAIN e.calls : e.calls[a].run \in DOMAIN e.runs
      <3> TAKE a \in DOMAIN e.calls
      <3>1. CASE a \in DOMAIN d.calls
        <4>1. e.calls[a] = d.calls[a]
          BY <1>3, <3>1, CallsAfter
        <4>2. d.calls[a].run \in DOMAIN d.runs
          BY <3>1 DEF DatabaseInv
        <4> QED BY <1>3, <4>1, <4>2, CallsAfter
      <3>2. CASE a \notin DOMAIN d.calls
        BY <1>3, <3>2, CallsAfter
      <3> QED BY <3>1, <3>2
    <2> QED BY <1>1, <2>2, <2>3 DEF DatabaseInv, IsDatabase
  <1> QED BY <1>2, <1>3

\* The recorded calls of a task are finitely many.
LEMMA CallsFinite ==
  ASSUME NEW d, NEW minting \in Nat, \A a \in DOMAIN d.calls : a \in 1 .. minting, NEW t
  PROVE  CallsOf(d, t) \in SUBSET Int /\ IsFiniteSet(CallsOf(d, t)) /\ Cardinality(CallsOf(d, t)) \in Nat
  <1>1. CallsOf(d, t) \in SUBSET (1 .. minting)
    BY DEF CallsOf
  <1>2. IsFiniteSet(1 .. minting)
    BY FS_Interval
  <1>3. IsFiniteSet(CallsOf(d, t))
    BY <1>1, <1>2, FS_Subset
  <1>4. Cardinality(CallsOf(d, t)) \in Nat
    BY <1>3, FS_CardinalityType
  <1> QED BY <1>1, <1>3, <1>4

\* Recording the ledger of a task that is in memory.
LEMMA CallsRecorded ==
  ASSUME NEW mem, NEW d, NEW e, NEW known, NEW minting, NEW t \in DOMAIN mem, NEW run,
         DatabaseInv(d, known), CallsInv(mem, d, minting), AddsCalls(d, e, t, run, mem[t].ledger)
  PROVE  CallsInv(mem, e, minting)
  <1> DEFINE ledger == mem[t].ledger
  <1>1. /\ \A a \in DOMAIN d.calls : /\ a \in DOMAIN e.calls /\ e.calls[a] = d.calls[a]
                                     /\ e.runs[e.calls[a].run] = d.runs[d.calls[a].run]
        /\ \A a \in DOMAIN e.calls \ DOMAIN d.calls :
             a \in DOMAIN ledger /\ e.calls[a].run = run /\ e.calls[a].entry = ledger[a]
    BY CallsAfter
  <1>2. minting \in Nat /\ \A a \in DOMAIN ledger : a \in 1 .. minting /\ ledger[a].task = t
    BY DEF CallsInv, LedgerInv
  <1> HIDE DEF ledger
  <1>3. \A a \in DOMAIN e.calls : a \in 1 .. minting
    <2> TAKE a \in DOMAIN e.calls
    <2>1. CASE a \in DOMAIN d.calls
      BY <2>1 DEF CallsInv
    <2>2. CASE a \notin DOMAIN d.calls
      BY <1>1, <1>2, <2>2
    <2> QED BY <2>1, <2>2
  <1>4. ASSUME NEW u \in DOMAIN mem, NEW a \in DOMAIN mem[u].ledger, a \in DOMAIN e.calls, a \notin DOMAIN d.calls
        PROVE  u = t
    <2>1. a \in DOMAIN ledger
      BY <1>1, <1>4
    <2> QED BY <1>4, <2>1 DEF CallsInv, ledger
  <1>5. \A u \in DOMAIN mem : LedgerInv(mem[u], u, e, minting)
    <2> SUFFICES ASSUME NEW u \in DOMAIN mem PROVE LedgerInv(mem[u], u, e, minting)
      OBVIOUS
    <2>1. LedgerInv(mem[u], u, d, minting)
      BY DEF CallsInv
    <2>2. \A a \in DOMAIN mem[u].ledger : a \in DOMAIN e.calls =>
            /\ Facts(e.calls[a].entry) = Facts(mem[u].ledger[a])
            /\ u \in {e.calls[a].entry.task, e.runs[e.calls[a].run]}
      <3> SUFFICES ASSUME NEW a \in DOMAIN mem[u].ledger, a \in DOMAIN e.calls
                   PROVE  /\ Facts(e.calls[a].entry) = Facts(mem[u].ledger[a])
                          /\ u \in {e.calls[a].entry.task, e.runs[e.calls[a].run]}
        OBVIOUS
      <3>1. CASE a \in DOMAIN d.calls
        BY <1>1, <2>1, <3>1 DEF LedgerInv
      <3>2. CASE a \notin DOMAIN d.calls
        <4>1. u = t
          BY <1>4, <3>2
        <4>2. e.calls[a].entry = mem[u].ledger[a] /\ mem[u].ledger[a].task = u
          BY <1>1, <1>2, <3>2, <4>1 DEF ledger
        <4> QED BY <4>2
      <3> QED BY <3>1, <3>2
    <2>3. ASSUME mem[u].ledgerRead, Cardinality(CallsOf(e, u)) <= CallLimit, NEW a \in CallsOf(e, u),
                 e.calls[a].entry.task = u
          PROVE  a \in DOMAIN mem[u].ledger /\ Facts(mem[u].ledger[a]) = Facts(e.calls[a].entry)
      <3>1. CallsOf(d, u) \in SUBSET CallsOf(e, u)
        BY <1>1 DEF CallsOf
      <3>2. Cardinality(CallsOf(d, u)) <= CallLimit
        <4>1. IsFiniteSet(CallsOf(e, u)) /\ Cardinality(CallsOf(e, u)) \in Nat
          BY <1>2, <1>3, CallsFinite
        <4>2. Cardinality(CallsOf(d, u)) \in Nat
          BY <1>2, CallsFinite DEF CallsInv
        <4>3. Cardinality(CallsOf(d, u)) <= Cardinality(CallsOf(e, u))
          BY <3>1, <4>1, FS_Subset
        <4> QED BY <2>3, <4>1, <4>2, <4>3, StorageAssumption
      <3>3. a \in DOMAIN e.calls /\ e.runs[e.calls[a].run] = u
        BY DEF CallsOf
      <3>4. CASE a \in DOMAIN d.calls
        <4>1. a \in CallsOf(d, u) /\ d.calls[a].entry.task = u
          BY <1>1, <2>3, <3>3, <3>4 DEF CallsOf
        <4>2. a \in DOMAIN mem[u].ledger /\ Facts(mem[u].ledger[a]) = Facts(d.calls[a].entry)
          BY <2>1, <2>3, <3>2, <4>1 DEF LedgerInv
        <4> QED BY <1>1, <3>4, <4>2
      <3>5. CASE a \notin DOMAIN d.calls
        <4>1. a \in DOMAIN ledger /\ e.calls[a].entry = ledger[a] /\ ledger[a].task = t
          BY <1>1, <1>2, <3>3, <3>5
        <4>2. u = t
          BY <2>3, <4>1
        <4> QED BY <4>1, <4>2 DEF ledger
      <3> QED BY <3>4, <3>5
    <2> QED BY <2>1, <2>2, <2>3 DEF LedgerInv
  <1>6. ASSUME NEW u \in DOMAIN mem, NEW v \in DOMAIN mem, u # v,
               NEW a \in DOMAIN mem[u].ledger, a \in DOMAIN mem[v].ledger
        PROVE  a \in DOMAIN e.calls
    <2>1. a \in DOMAIN d.calls
      BY <1>6 DEF CallsInv
    <2> QED BY <1>1, <2>1
  <1> QED BY <1>2, <1>3, <1>5, <1>6 DEF CallsInv

\* Another database with the same runs and calls.
LEMMA CallsKept ==
  ASSUME NEW mem, NEW d, NEW e, NEW minting, CallsInv(mem, d, minting), KeepsCalls(d, e)
  PROVE  CallsInv(mem, e, minting)
  <1>1. \A u : CallsOf(e, u) = CallsOf(d, u)
    BY DEF KeepsCalls, CallsOf
  <1>2. \A u \in DOMAIN mem : LedgerInv(mem[u], u, e, minting)
    BY <1>1 DEF CallsInv, LedgerInv, KeepsCalls
  <1> QED BY <1>2 DEF CallsInv, KeepsCalls

\* A store comes into memory, others may go.
LEMMA CallsInserted ==
  ASSUME NEW mem, NEW more, NEW d, NEW minting, CallsInv(mem, d, minting), NEW t \in DOMAIN more,
         LedgerInv(more[t], t, d, minting), \A a \in DOMAIN more[t].ledger : a \in DOMAIN d.calls,
         \A u \in DOMAIN more \ {t} : u \in DOMAIN mem /\ more[u] = mem[u]
  PROVE  CallsInv(more, d, minting)
  <1>1. \A u \in DOMAIN more : LedgerInv(more[u], u, d, minting)
    BY DEF CallsInv
  <1>2. ASSUME NEW u \in DOMAIN more, NEW v \in DOMAIN more, u # v,
               NEW a \in DOMAIN more[u].ledger, a \in DOMAIN more[v].ledger
        PROVE  a \in DOMAIN d.calls
    <2>1. CASE u # t /\ v # t
      BY <1>2, <2>1 DEF CallsInv
    <2>2. CASE u = t \/ v = t
      BY <1>2, <2>2
    <2> QED BY <2>1, <2>2
  <1> QED BY <1>1, <1>2 DEF CallsInv

\* A result gets the next anchor, in the ledger of one task.
LEMMA CallsMinted ==
  ASSUME NEW mem, NEW d, NEW minting, CallsInv(mem, d, minting), NEW t \in DOMAIN mem, NEW more,
         DOMAIN more = DOMAIN mem, \A u \in DOMAIN mem \ {t} : more[u] = mem[u],
         NEW entry, entry.task = t, more[t].ledger = Issue(mem[t].ledger, minting + 1, entry),
         more[t].ledgerRead = mem[t].ledgerRead
  PROVE  CallsInv(more, d, minting + 1)
  <1>1. minting \in Nat /\ 1 .. minting \subseteq 1 .. minting + 1 /\ minting + 1 \in 1 .. minting + 1
        /\ minting + 1 \notin 1 .. minting
    BY DEF CallsInv
  <1>2. /\ DOMAIN more[t].ledger = DOMAIN mem[t].ledger \cup {minting + 1}
        /\ more[t].ledger[minting + 1] = entry
        /\ \A a \in DOMAIN mem[t].ledger : a \in 1 .. minting /\ more[t].ledger[a] = mem[t].ledger[a]
    BY <1>1 DEF Issue, CallsInv, LedgerInv
  <1>3. minting + 1 \notin DOMAIN d.calls
    BY <1>1 DEF CallsInv
  <1>4. \A u \in DOMAIN more : LedgerInv(more[u], u, d, minting + 1)
    <2> TAKE u \in DOMAIN more
    <2>1. CASE u = t
      <3>1. LedgerInv(mem[t], t, d, minting)
        BY DEF CallsInv
      <3> QED BY <1>1, <1>2, <1>3, <2>1, <3>1 DEF LedgerInv
    <2>2. CASE u # t
      <3>1. LedgerInv(mem[u], u, d, minting) /\ more[u] = mem[u]
        BY <2>2 DEF CallsInv
      <3> QED BY <1>1, <3>1 DEF LedgerInv
    <2> QED BY <2>1, <2>2
  <1>5. \A u \in DOMAIN mem : minting + 1 \notin DOMAIN mem[u].ledger
    BY <1>1 DEF CallsInv, LedgerInv
  <1>6. ASSUME NEW u \in DOMAIN more, NEW v \in DOMAIN more, u # v,
               NEW a \in DOMAIN more[u].ledger, a \in DOMAIN more[v].ledger
        PROVE  a \in DOMAIN d.calls
    <2>1. a \in DOMAIN mem[u].ledger \/ (u = t /\ a = minting + 1)
      BY <1>2
    <2>2. a \in DOMAIN mem[v].ledger \/ (v = t /\ a = minting + 1)
      BY <1>2, <1>6
    <2>3. a \in DOMAIN mem[u].ledger /\ a \in DOMAIN mem[v].ledger
      BY <1>5, <1>6, <2>1, <2>2
    <2> QED BY <1>6, <2>3 DEF CallsInv
  <1>7. \A a \in DOMAIN d.calls : a \in 1 .. minting + 1
    BY <1>1 DEF CallsInv
  <1> QED BY <1>1, <1>4, <1>6, <1>7 DEF CallsInv

-----------------------------------------------------------------------------
(* The findings in memory and in the database                               *)

\* What a recovery reads: findings of the right type, and, of an undisturbed task,
\* all there are, each under its number.
LEMMA ListedFindings ==
  ASSUME NEW mem, NEW d, NEW sav, NEW bl, FindingsInv(mem, d, sav, bl), NEW t \in Tasks
  PROVE  /\ ListFindings(d, t) \in Seq(Findings)
         /\ Undisturbed(t, d, sav, bl) => \A s : s.findings = ListFindings(d, t) => ListedInv(s, d)
  <1> DEFINE keys == Limited(FindingsOf(d, t), FindingLimit)
  <1>1. FindingsOf(d, t) \in SUBSET Int /\ FindingsOf(d, t) \in SUBSET DOMAIN d.findings
        /\ IsFiniteSet(FindingsOf(d, t))
    <2>1. FindingsOf(d, t) \in SUBSET DOMAIN d.findings /\ FindingsOf(d, t) \in SUBSET Int
      BY DEF FindingsOf, FindingsInv
    <2>2. IsFiniteSet(FindingsOf(d, t))
      BY <2>1, FS_Subset DEF FindingsInv
    <2> QED BY <2>1, <2>2
  <1>2. keys \in SUBSET FindingsOf(d, t)
    BY DEF Limited
  <1>3. keys \in SUBSET Int /\ IsFiniteSet(keys) /\ keys \subseteq DOMAIN d.findings
    <2> HIDE DEF keys
    <2>1. IsFiniteSet(keys)
      BY <1>1, <1>2, FS_Subset
    <2> QED BY <1>1, <1>2, <2>1
  <1>4. ListFindings(d, t) = [i \in DOMAIN InOrder(keys) |-> d.findings[InOrder(keys)[i]].finding]
    BY DEF ListFindings
  <1> HIDE DEF keys
  <1>5. ListFindings(d, t) \in Seq(Findings)
    <2>1. InOrder(keys) \in Seq(keys) /\ Len(InOrder(keys)) \in Nat
      BY <1>3, InOrderType
    <2>2. \A i \in 1 .. Len(InOrder(keys)) : d.findings[InOrder(keys)[i]].finding \in Findings
      <3> TAKE i \in 1 .. Len(InOrder(keys))
      <3>1. InOrder(keys)[i] \in keys
        BY <2>1
      <3>2. InOrder(keys)[i] \in DOMAIN d.findings
        BY <1>3, <3>1
      <3> QED BY <3>2 DEF FindingsInv
    <2>3. ListFindings(d, t) \in [1 .. Len(InOrder(keys)) -> Findings]
      BY <1>4, <2>1, <2>2
    <2> QED BY <2>1, <2>3
  <1>6. ASSUME Undisturbed(t, d, sav, bl), NEW s, s.findings = ListFindings(d, t) PROVE ListedInv(s, d)
    <2> DEFINE n == Cardinality(DOMAIN d.findings)
    <2>1. FindingsOf(d, t) = DOMAIN d.findings
      BY <1>6 DEF FindingsOf, FindingsInv, Undisturbed
    <2>2. n \in Nat /\ DOMAIN d.findings = 1 .. n
      BY <1>6, FS_CardinalityType DEF FindingsInv, RowsInv
    <2>3. keys = 1 .. n
      <3>1. Limited(FindingsOf(d, t), FindingLimit) = FindingsOf(d, t)
        BY <1>1, <1>6, LimitedAll, StorageAssumption DEF Undisturbed
      <3> QED BY <2>1, <2>2, <3>1 DEF keys
    <2> HIDE DEF n
    <2>4. InOrder(keys) = [i \in 1 .. n |-> i]
      BY <2>2, <2>3, InOrderOfInterval
    <2>5. s.findings = [i \in 1 .. n |-> d.findings[i].finding]
      BY <1>4, <1>6, <2>4
    <2>6. Len(s.findings) = n
      BY <2>2, <2>5
    <2>7. \A i \in 1 .. n : d.findings[i].finding.id = i
      BY <2>2 DEF FindingsInv
    <2> QED BY <2>2, <2>5, <2>6, <2>7 DEF ListedInv
  <1> QED BY <1>5, <1>6

\* A store comes into memory, others may go; its findings are those stored unless
\* they could not be read.
LEMMA FindingsInserted ==
  ASSUME NEW mem, NEW more, NEW d, NEW sav, NEW bl, NEW lost, FindingsInv(mem, d, sav, bl), bl \subseteq lost,
         NEW t \in DOMAIN more, Undisturbed(t, d, sav, lost) => ListedInv(more[t], d),
         \A u \in DOMAIN more \ {t} : u \in DOMAIN mem /\ more[u] = mem[u]
  PROVE  FindingsInv(more, d, sav, lost)
  <1>1. \A u : Undisturbed(u, d, sav, lost) => Undisturbed(u, d, sav, bl)
    BY DEF Undisturbed
  <1>2. \A u \in DOMAIN more : Undisturbed(u, d, sav, lost) => ListedInv(more[u], d)
    BY <1>1 DEF FindingsInv
  <1> QED BY <1>1, <1>2 DEF FindingsInv

\* New findings are numbered after those a store has.
LEMMA FindingsAppended ==
  ASSUME NEW mem, NEW more, NEW d, NEW sav, NEW bl, FindingsInv(mem, d, sav, bl), NEW t \in DOMAIN mem,
         DOMAIN more = DOMAIN mem, \A u \in DOMAIN mem \ {t} : more[u] = mem[u],
         mem[t].findings \in Seq(Findings), NEW new \in Seq(Findings),
         \A n \in 1 .. Len(new) : new[n].id = Len(mem[t].findings) + n,
         more[t].findings = mem[t].findings \o new
  PROVE  FindingsInv(more, d, sav, bl)
  <1> DEFINE old == mem[t].findings
             all == more[t].findings
  <1>1. /\ Len(old) \in Nat /\ Len(new) \in Nat /\ Len(all) = Len(old) + Len(new)
        /\ \A i \in 1 .. Len(old) : all[i] = old[i]
        /\ \A i \in 1 .. Len(all) : i \notin 1 .. Len(old) =>
             i - Len(old) \in 1 .. Len(new) /\ all[i] = new[i - Len(old)]
    OBVIOUS
  <1> HIDE DEF old, all
  <1>2. ASSUME ListedInv(mem[t], d) PROVE ListedInv(more[t], d)
    <2>1. \A i \in 1 .. Len(all) : all[i].id = i
      <3> TAKE i \in 1 .. Len(all)
      <3>1. CASE i \in 1 .. Len(old)
        BY <1>1, <1>2, <3>1 DEF ListedInv, old
      <3>2. CASE i \notin 1 .. Len(old)
        <4>1. i - Len(old) \in 1 .. Len(new) /\ all[i] = new[i - Len(old)]
          BY <1>1, <3>2
        <4>2. new[i - Len(old)].id = Len(old) + (i - Len(old))
          BY <4>1 DEF old
        <4> QED BY <1>1, <4>1, <4>2
      <3> QED BY <3>1, <3>2
    <2>2. \A id \in DOMAIN d.findings : id \in 1 .. Len(all) /\ all[id] = d.findings[id].finding
      <3> TAKE id \in DOMAIN d.findings
      <3>1. id \in 1 .. Len(old) /\ old[id] = d.findings[id].finding
        BY <1>2 DEF ListedInv, old
      <3>2. id \in 1 .. Len(all)
        BY <1>1, <3>1
      <3> QED BY <1>1, <3>1, <3>2
    <2> QED BY <2>1, <2>2 DEF ListedInv, all
  <1>3. \A u \in DOMAIN more : Undisturbed(u, d, sav, bl) => ListedInv(more[u], d)
    BY <1>2 DEF FindingsInv
  <1> QED BY <1>3 DEF FindingsInv

\* Another database with the same rows of findings.
LEMMA FindingsKept ==
  ASSUME NEW mem, NEW d, NEW e, NEW sav, NEW bl, FindingsInv(mem, d, sav, bl), KeepsFindings(d, e)
  PROVE  FindingsInv(mem, e, sav, bl)
  <1>1. \A u : FindingsOf(e, u) = FindingsOf(d, u)
    BY DEF KeepsFindings, FindingsOf
  <1>2. \A u : Undisturbed(u, e, sav, bl) => Undisturbed(u, d, sav, bl)
    BY <1>1 DEF Undisturbed
  <1>3. \A id \in DOMAIN e.findings : id \in DOMAIN d.findings /\ e.findings[id] = d.findings[id]
    BY DEF KeepsFindings
  <1>4. DOMAIN e.findings = DOMAIN d.findings
    BY DEF KeepsFindings
  <1>5. \A u \in Tasks : Undisturbed(u, e, sav, bl) => RowsInv(u, e, sav)
    <2> SUFFICES ASSUME NEW u \in Tasks, Undisturbed(u, e, sav, bl) PROVE RowsInv(u, e, sav)
      OBVIOUS
    <2>1. RowsInv(u, d, sav)
      BY <1>2 DEF FindingsInv
    <2> QED BY <1>3, <1>4, <2>1 DEF RowsInv
  <1>6. \A u \in DOMAIN mem : Undisturbed(u, e, sav, bl) => ListedInv(mem[u], e)
    <2> SUFFICES ASSUME NEW u \in DOMAIN mem, Undisturbed(u, e, sav, bl) PROVE ListedInv(mem[u], e)
      OBVIOUS
    <2>1. ListedInv(mem[u], d)
      BY <1>2 DEF FindingsInv
    <2> QED BY <1>3, <2>1 DEF ListedInv
  <1> QED BY <1>3, <1>4, <1>5, <1>6 DEF FindingsInv

\* The row a finding leaves behind: it has the id, and a type.
LEMMA UpsertedType ==
  ASSUME NEW mem, NEW d, NEW sav, NEW bl, FindingsInv(mem, d, sav, bl), NEW t \in Tasks,
         NEW fs \in Seq(Findings), NEW k \in 1 .. Len(fs)
  PROVE  LET row == UpsertedFinding(d.findings, t, fs, fs[k].id)
         IN  /\ row.finding \in Findings /\ row.finding.id = fs[k].id
             /\ row.task = IF fs[k].id \in DOMAIN d.findings THEN d.findings[fs[k].id].task ELSE t
  <1> DEFINE id == fs[k].id
             same == {i \in DOMAIN fs : fs[i].id = id}
             title == IF id \in DOMAIN d.findings THEN d.findings[id].finding.title ELSE fs[Min(same)].title
             row == UpsertedFinding(d.findings, t, fs, id)
  <1>1. Min(same) \in same /\ Max(same) \in same
    <2>1. same \in SUBSET (1 .. Len(fs)) /\ same # {} /\ Len(fs) \in Nat
      OBVIOUS
    <2> HIDE DEF same
    <2> QED BY <2>1, PositionsBounded
  <1>2. \A i \in same : fs[i] \in Findings /\ fs[i].id = id /\ fs[i].title \in Wordings
    <2> TAKE i \in same
    <2>1. i \in 1 .. Len(fs) /\ fs[i].id = id
      OBVIOUS
    <2>2. fs[i] \in Findings
      BY <2>1
    <2> QED BY <2>1, <2>2 DEF Findings
  <1>3. title \in Wordings
    <2>1. id \in DOMAIN d.findings => d.findings[id].finding.title \in Wordings
      BY DEF FindingsInv, Findings
    <2> HIDE DEF same, id
    <2> QED BY <1>1, <1>2, <2>1
  <1>4. /\ row.finding = [fs[Max(same)] EXCEPT !.title = title]
        /\ row.task = IF id \in DOMAIN d.findings THEN d.findings[id].task ELSE t
    BY DEF UpsertedFinding
  <1> HIDE DEF same, title, row, id
  <1>5. row.finding \in Findings /\ row.finding.id = id
    BY <1>1, <1>2, <1>3, <1>4 DEF Findings
  <1> QED BY <1>4, <1>5 DEF row, id

\* The findings of a task in memory are stored.
LEMMA FindingsStored ==
  ASSUME NEW mem, NEW d, NEW e, NEW sav, NEW bl, FindingsInv(mem, d, sav, bl),
         NEW t \in Tasks, NEW fs \in Seq(Findings), AddsFindings(d, e, t, fs),
         t \in DOMAIN mem, mem[t].findings = fs
  PROVE  FindingsInv(mem, e, [sav EXCEPT ![t] = @ \cup ToSet(fs)], bl)
  <1> DEFINE ids == {fs[i].id : i \in DOMAIN fs}
             now == [sav EXCEPT ![t] = @ \cup ToSet(fs)]
             n == Len(fs)
  <1>1. n \in Nat /\ DOMAIN fs = 1 .. n /\ ToSet(fs) = {fs[i] : i \in 1 .. n}
        /\ \A i \in 1 .. n : fs[i] \in Findings /\ fs[i].id \in Nat \ {0}
    <2>1. n \in Nat /\ DOMAIN fs = 1 .. n /\ \A i \in 1 .. n : fs[i] \in Findings
      OBVIOUS
    <2>2. \A f \in Findings : f.id \in Nat \ {0}
      BY DEF Findings
    <2> HIDE DEF n
    <2> QED BY <2>1, <2>2 DEF ToSet
  <1>2. /\ now \in [Tasks -> SUBSET Findings] /\ now[t] = sav[t] \cup ToSet(fs)
        /\ \A u \in Tasks \ {t} : now[u] = sav[u]
    BY <1>1 DEF FindingsInv
  <1>3. DOMAIN e.findings = DOMAIN d.findings \cup ids
        /\ \A id \in DOMAIN e.findings : e.findings[id] =
             IF id \in ids THEN UpsertedFinding(d.findings, t, fs, id) ELSE d.findings[id]
    BY DEF AddsFindings
  <1>4. IsFiniteSet(DOMAIN e.findings)
    <2> DEFINE idOf == [i \in 1 .. n |-> fs[i].id]
    <2>1. idOf \in Surjection(1 .. n, ids)
      BY <1>1 DEF Surjection
    <2>2. IsFiniteSet(1 .. n)
      <3>1. 1 \in Int /\ n \in Int
        BY <1>1
      <3> HIDE DEF idOf, ids, n
      <3> QED BY <3>1, FS_Interval
    <2> HIDE DEF idOf, ids, n
    <2>3. IsFiniteSet(ids)
      BY <2>1, <2>2, FS_Surjection
    <2>4. IsFiniteSet(DOMAIN d.findings)
      BY DEF FindingsInv
    <2>5. IsFiniteSet(DOMAIN d.findings \cup ids)
      BY <2>3, <2>4, FS_Union
    <2> QED BY <1>3, <2>5
  <1>5. \A id \in ids :
          /\ id \in Nat \ {0} /\ e.findings[id].finding \in Findings /\ e.findings[id].finding.id = id
          /\ e.findings[id].task = IF id \in DOMAIN d.findings THEN d.findings[id].task ELSE t
    <2> TAKE id \in ids
    <2>1. PICK k \in 1 .. n : id = fs[k].id
      BY <1>1
    <2>2. e.findings[id] = UpsertedFinding(d.findings, t, fs, id)
      BY <1>3
    <2> QED BY <1>1, <2>1, <2>2, UpsertedType
  <1>6. ids # {} => now[t] # {}
    BY <1>1, <1>2
  <1> HIDE DEF now, ids
  <1>7. \A id \in DOMAIN e.findings :
          /\ id \in Nat \ {0} /\ e.findings[id].finding \in Findings /\ e.findings[id].finding.id = id
          /\ e.findings[id].task \in Tasks /\ now[e.findings[id].task] # {}
    <2> TAKE id \in DOMAIN e.findings
    <2>1. ASSUME id \in DOMAIN d.findings
          PROVE  /\ id \in Nat \ {0} /\ d.findings[id].finding \in Findings /\ d.findings[id].finding.id = id
                 /\ d.findings[id].task \in Tasks /\ now[d.findings[id].task] # {}
      <3>1. /\ id \in Nat \ {0} /\ d.findings[id].finding \in Findings /\ d.findings[id].finding.id = id
            /\ d.findings[id].task \in Tasks /\ sav[d.findings[id].task] # {}
        BY <2>1 DEF FindingsInv
      <3> QED BY <1>2, <3>1
    <2>2. CASE id \in ids
      BY <1>5, <1>6, <2>1, <2>2
    <2>3. CASE id \notin ids
      BY <1>3, <2>1, <2>3
    <2> QED BY <2>2, <2>3
  <1>8. ASSUME NEW u, Undisturbed(u, e, now, bl) PROVE Undisturbed(u, d, sav, bl)
    <2>1. FindingsOf(d, u) \in SUBSET FindingsOf(e, u)
      BY <1>3, <1>5 DEF FindingsOf
    <2>2. IsFiniteSet(FindingsOf(e, u))
      BY <1>4, FS_Subset DEF FindingsOf
    <2>3. Cardinality(FindingsOf(d, u)) <= Cardinality(FindingsOf(e, u))
          /\ Cardinality(FindingsOf(e, u)) \in Nat /\ Cardinality(FindingsOf(d, u)) \in Nat
      BY <2>1, <2>2, FS_Subset, FS_CardinalityType
    <2>4. \A v \in Tasks : sav[v] \subseteq now[v]
      BY <1>2
    <2> QED BY <1>8, <2>3, <2>4, StorageAssumption DEF Undisturbed
  <1>9. ASSUME NEW u \in Tasks, u # t, Undisturbed(u, e, now, bl) PROVE ids = {}
    BY <1>6, <1>9 DEF Undisturbed
  <1>10. ASSUME Undisturbed(t, d, sav, bl)
         PROVE  /\ DOMAIN e.findings = 1 .. n /\ \A i \in 1 .. n : fs[i].id = i
                /\ \A id \in 1 .. n : e.findings[id].finding = fs[id]
    <2>1. /\ \A i \in 1 .. n : fs[i].id = i
          /\ \A id \in DOMAIN d.findings : id \in 1 .. n /\ fs[id] = d.findings[id].finding
      BY <1>10 DEF FindingsInv, ListedInv
    <2>2. ids = 1 .. n
      BY <1>1, <2>1 DEF ids
    <2>3. DOMAIN e.findings = 1 .. n
      BY <1>3, <2>1, <2>2
    <2>4. ASSUME NEW id \in 1 .. n PROVE e.findings[id].finding = fs[id]
      <3> DEFINE same == {i \in DOMAIN fs : fs[i].id = id}
      <3>1. same = {id}
        BY <1>1, <2>1
      <3>2. Max(same) = id /\ Min(same) = id
        BY <1>1, <3>1 DEF Max, Min
      <3>3. e.findings[id].finding =
              [fs[Max(same)] EXCEPT !.title = IF id \in DOMAIN d.findings THEN d.findings[id].finding.title
                                              ELSE fs[Min(same)].title]
        <4>1. e.findings[id] = UpsertedFinding(d.findings, t, fs, id)
          BY <1>3, <2>2, <2>3
        <4> HIDE DEF n
        <4> QED BY <4>1 DEF UpsertedFinding
      <3> HIDE DEF same
      <3>4. e.findings[id].finding = [fs[id] EXCEPT !.title = fs[id].title]
        BY <2>1, <3>2, <3>3
      <3>5. fs[id] \in Findings
        BY <1>1
      <3> QED BY <3>4, <3>5 DEF Findings
    <2> QED BY <2>1, <2>3, <2>4
  <1> HIDE DEF n
  <1>11. ASSUME NEW u \in Tasks, Undisturbed(u, e, now, bl) PROVE RowsInv(u, e, now)
    <2>1. RowsInv(u, d, sav)
      BY <1>8, <1>11 DEF FindingsInv
    <2>2. CASE u # t
      <3>1. DOMAIN e.findings = DOMAIN d.findings /\ \A id \in DOMAIN d.findings : e.findings[id] = d.findings[id]
        BY <1>3, <1>9, <1>11, <2>2
      <3> QED BY <1>2, <2>1, <2>2, <3>1 DEF RowsInv
    <2>3. CASE u = t
      <3>1. /\ DOMAIN e.findings = 1 .. n /\ \A i \in 1 .. n : fs[i].id = i
            /\ \A id \in 1 .. n : e.findings[id].finding = fs[id]
        BY <1>8, <1>10, <1>11, <2>3
      <3>2. Cardinality(DOMAIN e.findings) = n
        BY <1>1, <3>1, FS_Interval
      <3>3. ASSUME NEW f \in now[t] PROVE f.id \in DOMAIN e.findings /\ e.findings[f.id].finding = f
        <4>1. CASE f \in sav[t]
          <5>1. f.id \in DOMAIN d.findings /\ d.findings[f.id].finding = f
            BY <2>1, <2>3, <4>1 DEF RowsInv
          <5>2. f.id \in 1 .. n /\ fs[f.id] = d.findings[f.id].finding
            BY <1>8, <1>11, <2>3, <5>1 DEF FindingsInv, ListedInv, n
          <5> QED BY <3>1, <5>1, <5>2
        <4>2. CASE f \in ToSet(fs)
          BY <1>1, <3>1, <4>2
        <4> QED BY <1>2, <4>1, <4>2
      <3> QED BY <2>3, <3>1, <3>2, <3>3 DEF RowsInv
    <2> QED BY <2>2, <2>3
  <1>12. ASSUME NEW u \in DOMAIN mem, Undisturbed(u, e, now, bl) PROVE ListedInv(mem[u], e)
    <2>1. ListedInv(mem[u], d)
      BY <1>8, <1>12 DEF FindingsInv
    <2>2. CASE u # t
      <3>1. ids = {}
        BY <1>6, <1>12, <2>2 DEF Undisturbed
      <3>2. DOMAIN e.findings = DOMAIN d.findings /\ \A id \in DOMAIN d.findings : e.findings[id] = d.findings[id]
        BY <1>3, <3>1
      <3> QED BY <2>1, <3>2 DEF ListedInv
    <2>3. CASE u = t
      <3>1. /\ DOMAIN e.findings = 1 .. n /\ \A i \in 1 .. n : fs[i].id = i
            /\ \A id \in 1 .. n : e.findings[id].finding = fs[id]
        BY <1>8, <1>10, <1>12, <2>3
      <3> QED BY <2>3, <3>1 DEF ListedInv, n
    <2> QED BY <2>2, <2>3
  <1>13. FindingsInv(mem, e, now, bl)
    BY <1>2, <1>4, <1>7, <1>11, <1>12 DEF FindingsInv
  <1> QED BY <1>13 DEF now

-----------------------------------------------------------------------------
(* The findings of a submission                                             *)

\* What the validator lets through meets V1 to V3; V4 decides its status and basis.
LEMMA ValidateGrounds ==
  ASSUME NEW draft, NEW ledger, NEW t, Validate(draft, ledger, t).status # "rejected"
  PROVE  /\ CitesEvidence(draft) /\ CitesIssued(draft, ledger, t) /\ CitesReachable(draft, ledger)
         /\ Validate(draft, ledger, t).status \in {"accepted", "downgraded"}
         /\ Validate(draft, ledger, t).basis \in {draft.basis, "hypothesis"}
  BY DEF Validate

\* The new findings have a type, their numbers continue those of the store, and
\* they name what their citations have shown.
LEMMA NewFindingsType ==
  ASSUME NEW t, NEW s, s.findings \in Seq(Findings), NEW drafts \in Drafts
  PROVE  LET new == NewFindings(t, s, drafts)
         IN  /\ new \in Seq(Findings)
             /\ \A n \in 1 .. Len(new) : /\ new[n].id = Len(s.findings) + n
                                         /\ GroundedFinding(new[n], s, t)
  <1> DEFINE accepted == Accepted(t, s, drafts)
             listed == InOrder(accepted)
             new == NewFindings(t, s, drafts)
             Outcome(i) == Validate(drafts[i], s.ledger, t)
  <1>1. drafts \in Seq(ToSet(drafts)) /\ ToSet(drafts) \subseteq AllDrafts
    BY EngineAssumption DEF AllDrafts
  <1>2. accepted \in SUBSET (1 .. Len(drafts)) /\ Len(drafts) \in Nat
    BY <1>1 DEF Accepted
  <1>3. accepted \in SUBSET Int /\ IsFiniteSet(accepted)
    <2> HIDE DEF accepted
    <2>1. IsFiniteSet(1 .. Len(drafts))
      BY <1>2, FS_Interval
    <2>2. IsFiniteSet(accepted)
      BY <1>2, <2>1, FS_Subset
    <2> QED BY <1>2, <2>2
  <1>4. \A i \in accepted :
          /\ drafts[i] \in AllDrafts /\ CitesEvidence(drafts[i]) /\ CitesIssued(drafts[i], s.ledger, t)
          /\ CitesReachable(drafts[i], s.ledger)
          /\ Outcome(i).status \in {"accepted", "downgraded"} /\ Outcome(i).basis \in {drafts[i].basis, "hypothesis"}
    <2> TAKE i \in accepted
    <2>1. Outcome(i).status # "rejected"
      BY DEF Accepted
    <2>2. i \in 1 .. Len(drafts)
      BY <1>2
    <2>3. drafts[i] \in AllDrafts
      BY <1>1, <2>2
    <2> QED BY <2>1, <2>3, ValidateGrounds
  <1>5. new = [n \in DOMAIN listed |-> StoredFinding(Len(s.findings) + n, drafts[listed[n]], Outcome(listed[n]))]
    BY DEF NewFindings
  <1> HIDE DEF accepted, listed, Outcome, new
  <1>6. listed \in Seq(accepted) /\ Len(listed) \in Nat
    BY <1>3, InOrderType DEF listed
  <1>7. \A n \in 1 .. Len(listed) : listed[n] \in accepted
    BY <1>6
  <1>8. Len(s.findings) \in Nat
    OBVIOUS
  <1>9. \A n \in 1 .. Len(listed) :
          /\ new[n] = StoredFinding(Len(s.findings) + n, drafts[listed[n]], Outcome(listed[n]))
          /\ new[n] \in Findings /\ new[n].id = Len(s.findings) + n
          /\ new[n].evidence = drafts[listed[n]].evidence
    <2> TAKE n \in 1 .. Len(listed)
    <2>1. new[n] = StoredFinding(Len(s.findings) + n, drafts[listed[n]], Outcome(listed[n]))
      BY <1>5, <1>6
    <2>2. listed[n] \in accepted
      BY <1>7
    <2>3. Len(s.findings) + n \in Nat \ {0}
      BY <1>6, <1>8
    <2> DEFINE draft == drafts[listed[n]]
               outcome == Outcome(listed[n])
    <2>4. /\ draft.title \in Wordings /\ outcome.status \in {"accepted", "downgraded"}
          /\ outcome.basis \in {d.basis : d \in AllDrafts} \cup {"hypothesis"}
          /\ draft.evidence \in {d.evidence : d \in AllDrafts}
      BY <1>4, <2>2 DEF Wordings
    <2> HIDE DEF draft, outcome
    <2>5. StoredFinding(Len(s.findings) + n, draft, outcome) \in Findings
      BY <2>3, <2>4 DEF StoredFinding, Findings
    <2>6. /\ StoredFinding(Len(s.findings) + n, draft, outcome).id = Len(s.findings) + n
          /\ StoredFinding(Len(s.findings) + n, draft, outcome).evidence = draft.evidence
      BY DEF StoredFinding
    <2> QED BY <2>1, <2>5, <2>6 DEF draft, outcome
  <1>10. new \in Seq(Findings) /\ Len(new) = Len(listed)
    <2>1. DOMAIN listed = 1 .. Len(listed)
      BY <1>6
    <2>2. new \in [1 .. Len(listed) -> Findings]
      BY <1>5, <1>9, <2>1
    <2> QED BY <1>6, <2>2
  <1>11. \A n \in 1 .. Len(listed) : GroundedFinding(new[n], s, t)
    <2> TAKE n \in 1 .. Len(listed)
    <2>1. /\ CitesEvidence(drafts[listed[n]]) /\ CitesIssued(drafts[listed[n]], s.ledger, t)
          /\ CitesReachable(drafts[listed[n]], s.ledger)
      BY <1>4, <1>7
    <2>2. new[n].evidence = drafts[listed[n]].evidence
      BY <1>9
    <2> QED BY <2>1, <2>2 DEF GroundedFinding, CitesEvidence, CitesIssued, CitesReachable
  <1> QED BY <1>9, <1>10, <1>11 DEF new

\* A new anchor takes nothing from what a finding rests on.
LEMMA GroundedByMore ==
  ASSUME NEW f, NEW s, NEW r, NEW t, GroundedFinding(f, s, t), NEW a, a \notin DOMAIN s.ledger, NEW entry,
         r.ledger = Issue(s.ledger, a, entry)
  PROVE  GroundedFinding(f, r, t)
  <1>1. \A b \in DOMAIN s.ledger : b \in DOMAIN r.ledger /\ r.ledger[b] = s.ledger[b]
    BY DEF Issue
  <1>2. CitesEvidence(f) /\ CitesIssued(f, r.ledger, t)
    BY <1>1 DEF GroundedFinding, CitesIssued, IsIssued
  <1>3. CitesReachable(f, r.ledger)
    BY <1>1 DEF GroundedFinding, CitesIssued, CitesReachable, IsIssued
  <1> QED BY <1>2, <1>3 DEF GroundedFinding

-----------------------------------------------------------------------------
(* The steps of a request                                                   *)

\* More tasks may be known.
LEMMA MoreKnown ==
  ASSUME NEW mem, NEW ord, NEW d, NEW n, NEW known, NEW more, NEW sav, NEW bl,
         Inv(mem, ord, d, n, known, sav, bl), known \subseteq more, more \subseteq Tasks
  PROVE  Inv(mem, ord, d, n, more, sav, bl)
  <1>1. WorkerInv(mem, ord, more)
    BY DEF Inv, WorkerInv
  <1>2. DatabaseInv(d, more)
    BY DEF Inv, DatabaseInv
  <1> QED BY <1>1, <1>2 DEF Inv

\* A task comes into memory.
LEMMA Brought ==
  ASSUME NEW known, NEW lost, NEW d, NEW n, NEW sav, NEW bl,
         Inv(memory, order, d, n, known, sav, bl), bl \subseteq lost,
         NEW t \in known, t \notin DOMAIN memory, NEW s, StoreOK(s), s.restored = Len(s.findings),
         LedgerInv(s, t, d, n), \A a \in DOMAIN s.ledger : a \in DOMAIN d.calls,
         Undisturbed(t, d, sav, lost) => ListedInv(s, d)
  PROVE  Inv(Inserted(t, s).memory, Inserted(t, s).order, d, n, known, sav, lost)
  <1> DEFINE mem == Inserted(t, s).memory
             ord == Inserted(t, s).order
  <1>1. /\ WorkerInv(memory, order, known) /\ DatabaseInv(d, known) /\ CallsInv(memory, d, n)
        /\ FindingsInv(memory, d, sav, bl) /\ GroundedInv(memory) /\ t \in Tasks
        /\ known \subseteq Tasks /\ \A u \in Tasks : sav[u] # {} => u \in known
    BY DEF Inv
  <1>2. /\ WorkerInv(mem, ord, known) /\ t \in DOMAIN mem /\ mem[t] = s
        /\ \A u \in DOMAIN mem \ {t} : u \in DOMAIN memory /\ mem[u] = memory[u]
    BY <1>1, InsertWorker
  <1> HIDE DEF mem, ord
  <1>3. CallsInv(mem, d, n)
    BY <1>1, <1>2, CallsInserted
  <1>4. FindingsInv(mem, d, sav, lost)
    BY <1>1, <1>2, FindingsInserted
  <1>5. GroundedInv(mem)
    <2> SUFFICES ASSUME NEW u \in DOMAIN mem, NEW i \in mem[u].restored + 1 .. Len(mem[u].findings)
                 PROVE  GroundedFinding(mem[u].findings[i], mem[u], u)
      BY DEF GroundedInv
    <2>1. CASE u # t
      BY <1>1, <1>2, <2>1 DEF GroundedInv
    <2>2. CASE u = t
      <3>1. Len(s.findings) \in Nat
        BY DEF StoreOK
      <3> QED BY <1>2, <2>2, <3>1
    <2> QED BY <2>1, <2>2
  <1>6. Inv(mem, ord, d, n, known, sav, lost)
    BY <1>1, <1>2, <1>3, <1>4, <1>5 DEF Inv
  <1> QED BY <1>6 DEF mem, ord

\* A result gets its anchor.
LEMMA Answered ==
  ASSUME NEW mem, NEW ord, NEW d, NEW known, NEW sav, NEW bl,
         Inv(mem, ord, d, anchors, known, sav, bl), NEW t \in DOMAIN mem, NEW m, NEW answer
  PROVE  Inv([mem EXCEPT ![t] = ToolResult(t, mem[t], m, answer)], ord, d, anchors + 1, known, sav, bl)
  <1> DEFINE s == mem[t]
             r == ToolResult(t, s, m, answer)
             more == [mem EXCEPT ![t] = r]
             entry == [task |-> t, method |-> m, refs |-> answer.refs, numbers |-> answer.numbers]
             ledger == Issue(s.ledger, anchors + 1, entry)
  <1>1. /\ WorkerInv(mem, ord, known) /\ DatabaseInv(d, known) /\ CallsInv(mem, d, anchors)
        /\ FindingsInv(mem, d, sav, bl) /\ GroundedInv(mem) /\ StoreOK(s)
    BY DEF Inv, WorkerInv
  <1>2. entry.task = t
    OBVIOUS
  <1>3. r = [s EXCEPT !.ledger = ledger]
    <2>1. "ledger" \in DOMAIN s
      BY <1>1 DEF StoreOK
    <2> QED BY <2>1 DEF ToolResult
  <1> HIDE DEF s, r, entry, ledger
  <1>4. r = [source |-> s.source, content |-> s.content, alerts |-> s.alerts, findings |-> s.findings,
             ledger |-> ledger, meta |-> s.meta, restored |-> s.restored, ledgerRead |-> s.ledgerRead]
    BY <1>1, <1>3 DEF StoreOK
  <1>5. /\ StoreOK(r) /\ r.ledger = Issue(s.ledger, anchors + 1, entry) /\ r.ledgerRead = s.ledgerRead
        /\ r.findings = s.findings /\ r.restored = s.restored
    BY <1>1, <1>4 DEF StoreOK, ledger
  <1>6. DOMAIN more = DOMAIN mem /\ more[t] = r /\ \A u \in DOMAIN mem \ {t} : more[u] = mem[u]
    OBVIOUS
  <1> HIDE DEF more
  <1>7. WorkerInv(more, ord, known)
    BY <1>1, <1>5, <1>6 DEF WorkerInv
  <1>8. CallsInv(more, d, anchors + 1)
    BY <1>1, <1>2, <1>5, <1>6, CallsMinted DEF s
  <1>9. FindingsInv(more, d, sav, bl)
    <2>1. \A u \in DOMAIN more : more[u].findings = mem[u].findings
      BY <1>5, <1>6 DEF s
    <2> QED BY <1>1, <1>6, <2>1 DEF FindingsInv, ListedInv
  <1>10. GroundedInv(more)
    <2> SUFFICES ASSUME NEW u \in DOMAIN more, NEW i \in more[u].restored + 1 .. Len(more[u].findings)
                 PROVE  GroundedFinding(more[u].findings[i], more[u], u)
      BY DEF GroundedInv
    <2>1. CASE u # t
      BY <1>1, <1>6, <2>1 DEF GroundedInv
    <2>2. CASE u = t
      <3>1. GroundedFinding(s.findings[i], s, t)
        BY <1>1, <1>5, <1>6, <2>2 DEF GroundedInv, s
      <3>2. anchors + 1 \notin DOMAIN s.ledger
        BY <1>1 DEF CallsInv, LedgerInv, s
      <3>3. GroundedFinding(s.findings[i], r, t)
        BY <1>5, <3>1, <3>2, GroundedByMore
      <3> QED BY <1>5, <1>6, <2>2, <3>3
    <2> QED BY <2>1, <2>2
  <1>11. Inv(more, ord, d, anchors + 1, known, sav, bl)
    BY <1>7, <1>8, <1>9, <1>10 DEF Inv
  <1> QED BY <1>11 DEF more, r, s

\* The store of one task changes in what its ledger does not see.
LEMMA LedgersSame ==
  ASSUME NEW mem, NEW more, NEW d, NEW n, CallsInv(mem, d, n), DOMAIN more = DOMAIN mem,
         \A u \in DOMAIN mem : more[u].ledger = mem[u].ledger /\ more[u].ledgerRead = mem[u].ledgerRead
  PROVE  CallsInv(more, d, n)
  <1>1. \A u \in DOMAIN more : LedgerInv(more[u], u, d, n)
    BY DEF CallsInv, LedgerInv
  <1> QED BY <1>1 DEF CallsInv

\* The accepted drafts become findings in memory.
LEMMA Submitted ==
  ASSUME NEW mem, NEW ord, NEW d, NEW n, NEW known, NEW sav, NEW bl,
         Inv(mem, ord, d, n, known, sav, bl), NEW t \in DOMAIN mem, NEW drafts \in Drafts
  PROVE  LET store == [mem[t] EXCEPT !.findings = @ \o NewFindings(t, mem[t], drafts)]
         IN  Inv([mem EXCEPT ![t] = store], ord, d, n, known, sav, bl)
  <1> DEFINE s == mem[t]
             new == NewFindings(t, s, drafts)
             all == s.findings \o new
             r == [s EXCEPT !.findings = all]
             more == [mem EXCEPT ![t] = r]
  <1>1. /\ WorkerInv(mem, ord, known) /\ DatabaseInv(d, known) /\ CallsInv(mem, d, n)
        /\ FindingsInv(mem, d, sav, bl) /\ GroundedInv(mem) /\ StoreOK(s)
    BY DEF Inv, WorkerInv
  <1>2. "findings" \in DOMAIN s /\ s.findings \in Seq(Findings) /\ s.restored \in Nat
    BY <1>1 DEF StoreOK
  <1>3. /\ new \in Seq(Findings)
        /\ \A k \in 1 .. Len(new) : new[k].id = Len(s.findings) + k /\ GroundedFinding(new[k], s, t)
    BY <1>2, NewFindingsType
  <1> HIDE DEF s, new
  <1>4. /\ all \in Seq(Findings) /\ Len(s.findings) \in Nat /\ Len(new) \in Nat
        /\ Len(all) = Len(s.findings) + Len(new)
        /\ \A i \in 1 .. Len(s.findings) : all[i] = s.findings[i]
        /\ \A i \in 1 .. Len(all) : i \notin 1 .. Len(s.findings) =>
             i - Len(s.findings) \in 1 .. Len(new) /\ all[i] = new[i - Len(s.findings)]
    BY <1>2, <1>3
  <1> HIDE DEF all
  <1>5. r = [source |-> s.source, content |-> s.content, alerts |-> s.alerts, findings |-> all,
             ledger |-> s.ledger, meta |-> s.meta, restored |-> s.restored, ledgerRead |-> s.ledgerRead]
    BY <1>1 DEF StoreOK
  <1> HIDE DEF r
  <1>6. /\ StoreOK(r) /\ r.findings = all /\ r.ledger = s.ledger /\ r.ledgerRead = s.ledgerRead
        /\ r.restored = s.restored
    BY <1>1, <1>4, <1>5 DEF StoreOK
  <1>7. DOMAIN more = DOMAIN mem /\ more[t] = r /\ \A u \in DOMAIN mem \ {t} : more[u] = mem[u]
    OBVIOUS
  <1> HIDE DEF more
  <1>8. WorkerInv(more, ord, known)
    BY <1>1, <1>6, <1>7 DEF WorkerInv
  <1>9. CallsInv(more, d, n)
    BY <1>1, <1>6, <1>7, LedgersSame DEF s
  <1>10. FindingsInv(more, d, sav, bl)
    BY <1>1, <1>2, <1>3, <1>6, <1>7, FindingsAppended DEF s, all
  <1>11. GroundedInv(more)
    <2> SUFFICES ASSUME NEW u \in DOMAIN more, NEW i \in more[u].restored + 1 .. Len(more[u].findings)
                 PROVE  GroundedFinding(more[u].findings[i], more[u], u)
      BY DEF GroundedInv
    <2>1. CASE u # t
      BY <1>1, <1>7, <2>1 DEF GroundedInv
    <2>2. CASE u = t
      <3>1. i \in s.restored + 1 .. Len(all) /\ i \in 1 .. Len(all)
        BY <1>2, <1>4, <1>6, <1>7, <2>2
      <3>2. GroundedFinding(all[i], s, t)
        <4>1. CASE i \in 1 .. Len(s.findings)
          <5>1. i \in s.restored + 1 .. Len(s.findings)
            BY <1>2, <1>4, <3>1, <4>1
          <5> QED BY <1>1, <1>4, <4>1, <5>1 DEF GroundedInv, s
        <4>2. CASE i \notin 1 .. Len(s.findings)
          BY <1>3, <1>4, <3>1, <4>2
        <4> QED BY <4>1, <4>2
      <3>3. GroundedFinding(all[i], r, t)
        BY <1>6, <3>2 DEF GroundedFinding
      <3> QED BY <1>6, <1>7, <2>2, <3>3
    <2> QED BY <2>1, <2>2
  <1>12. Inv(more, ord, d, n, known, sav, bl)
    BY <1>8, <1>9, <1>10, <1>11 DEF Inv
  <1> QED BY <1>12 DEF more, r, all, new, s

\* A task is reported under a run.
LEMMA Reported ==
  ASSUME NEW mem, NEW ord, NEW d, NEW n, NEW known, NEW sav, NEW bl,
         Inv(mem, ord, d, n, known, sav, bl), NEW t \in DOMAIN mem, NEW run
  PROVE  Inv([mem EXCEPT ![t] = [mem[t] EXCEPT !.meta = run]], ord, d, n, known, sav, bl)
  <1> DEFINE s == mem[t]
             r == [s EXCEPT !.meta = run]
             more == [mem EXCEPT ![t] = r]
  <1>1. /\ WorkerInv(mem, ord, known) /\ DatabaseInv(d, known) /\ CallsInv(mem, d, n)
        /\ FindingsInv(mem, d, sav, bl) /\ GroundedInv(mem) /\ StoreOK(s)
    BY DEF Inv, WorkerInv
  <1> HIDE DEF s
  <1>2. r = [source |-> s.source, content |-> s.content, alerts |-> s.alerts, findings |-> s.findings,
             ledger |-> s.ledger, meta |-> run, restored |-> s.restored, ledgerRead |-> s.ledgerRead]
    BY <1>1 DEF StoreOK
  <1> HIDE DEF r
  <1>3. /\ StoreOK(r) /\ r.findings = s.findings /\ r.ledger = s.ledger /\ r.ledgerRead = s.ledgerRead
        /\ r.restored = s.restored
    BY <1>1, <1>2 DEF StoreOK
  <1>4. DOMAIN more = DOMAIN mem /\ more[t] = r /\ \A u \in DOMAIN mem \ {t} : more[u] = mem[u]
    OBVIOUS
  <1> HIDE DEF more
  <1>5. \A u \in DOMAIN mem : /\ more[u].ledger = mem[u].ledger /\ more[u].ledgerRead = mem[u].ledgerRead
                              /\ more[u].findings = mem[u].findings /\ more[u].restored = mem[u].restored
    BY <1>3, <1>4 DEF s
  <1>6. WorkerInv(more, ord, known)
    BY <1>1, <1>3, <1>4 DEF WorkerInv
  <1>7. CallsInv(more, d, n)
    BY <1>1, <1>4, <1>5, LedgersSame
  <1>8. FindingsInv(more, d, sav, bl)
    BY <1>1, <1>4, <1>5 DEF FindingsInv, ListedInv
  <1>9. GroundedInv(more)
    BY <1>1, <1>4, <1>5 DEF GroundedInv, GroundedFinding
  <1>10. Inv(more, ord, d, n, known, sav, bl)
    BY <1>6, <1>7, <1>8, <1>9 DEF Inv
  <1> QED BY <1>10 DEF more, r, s

\* A task is stored up to its alerts.
LEMMA WrittenInPart ==
  ASSUME NEW mem, NEW ord, NEW d, NEW n, NEW known, NEW sav, NEW bl, Inv(mem, ord, d, n, known, sav, bl),
         NEW t \in known, NEW s, NEW e \in {d} \cup Interrupted(d, t, s)
  PROVE  Inv(mem, ord, e, n, known, sav, bl)
  <1>1. /\ DatabaseInv(d, known) /\ CallsInv(mem, d, n) /\ FindingsInv(mem, d, sav, bl) /\ IsDatabase(d)
    BY DEF Inv, DatabaseInv, IsDatabase
  <1>2. CASE e \in Interrupted(d, t, s)
    <2>1. AddsTask(d, e, t) /\ e.findings = d.findings /\ KeepsCalls(d, e)
      BY <1>1, <1>2, StoredTask
    <2>2. DatabaseInv(e, known)
      BY <1>1, <2>1, DatabaseKept DEF AddsTask
    <2>3. CallsInv(mem, e, n)
      BY <1>1, <2>1, CallsKept
    <2>4. FindingsInv(mem, e, sav, bl)
      BY <1>1, <2>1, FindingsKept DEF KeepsFindings
    <2> QED BY <2>2, <2>3, <2>4 DEF Inv
  <1> QED BY <1>2

\* A task without findings and run is stored.
LEMMA AnalysisWritten ==
  ASSUME NEW mem, NEW ord, NEW d, NEW n, NEW known, NEW sav, NEW bl, Inv(mem, ord, d, n, known, sav, bl),
         NEW t \in known, NEW s, s.findings = <<>>, s.meta = None, NEW e \in Persisted(d, t, s)
  PROVE  Inv(mem, ord, e, n, known, sav, bl)
  <1>1. /\ DatabaseInv(d, known) /\ CallsInv(mem, d, n) /\ FindingsInv(mem, d, sav, bl) /\ IsDatabase(d)
    BY DEF Inv, DatabaseInv, IsDatabase
  <1>2. AddsTask(d, e, t) /\ AddsFindings(d, e, t, s.findings) /\ KeepsCalls(d, e)
    BY <1>1, StoredAll
  <1>3. KeepsFindings(d, e)
    <2>1. {s.findings[i].id : i \in DOMAIN s.findings} = {}
      OBVIOUS
    <2> QED BY <1>2, <2>1 DEF AddsFindings, KeepsFindings
  <1>4. DatabaseInv(e, known)
    BY <1>1, <1>2, DatabaseKept DEF AddsTask
  <1>5. CallsInv(mem, e, n)
    BY <1>1, <1>2, CallsKept
  <1>6. FindingsInv(mem, e, sav, bl)
    BY <1>1, <1>3, FindingsKept
  <1> QED BY <1>4, <1>5, <1>6 DEF Inv

\* A task in memory is stored with its findings, and perhaps its run.
LEMMA Written ==
  ASSUME NEW mem, NEW ord, NEW d, NEW n, NEW known, NEW sav, NEW bl, Inv(mem, ord, d, n, known, sav, bl),
         NEW t \in DOMAIN mem, NEW e \in Persisted(d, t, mem[t])
  PROVE  Inv(mem, ord, e, n, known, [sav EXCEPT ![t] = @ \cup ToSet(mem[t].findings)], bl)
  <1> DEFINE s == mem[t]
             now == [sav EXCEPT ![t] = @ \cup ToSet(s.findings)]
  <1>1. /\ WorkerInv(mem, ord, known) /\ DatabaseInv(d, known) /\ CallsInv(mem, d, n)
        /\ FindingsInv(mem, d, sav, bl) /\ GroundedInv(mem) /\ StoreOK(s) /\ IsDatabase(d)
        /\ t \in known /\ t \in Tasks /\ known \subseteq Tasks
    BY DEF Inv, WorkerInv, DatabaseInv, IsDatabase
  <1>2. s.findings \in Seq(Findings)
    BY <1>1 DEF StoreOK
  <1>3. /\ AddsTask(d, e, t) /\ AddsFindings(d, e, t, s.findings)
        /\ KeepsCalls(d, e) \/ \E m : /\ IsDatabase(m) /\ DOMAIN m.tasks = DOMAIN d.tasks \cup {t}
                                      /\ KeepsCalls(d, m) /\ AddsCalls(m, e, t, s.meta, s.ledger)
    BY <1>1, <1>2, StoredAll
  <1>4. DatabaseInv(e, known) /\ CallsInv(mem, e, n)
    <2>1. CASE KeepsCalls(d, e)
      BY <1>1, <1>3, <2>1, DatabaseKept, CallsKept DEF AddsTask
    <2>2. CASE ~ KeepsCalls(d, e)
      <3>1. PICK m : /\ IsDatabase(m) /\ DOMAIN m.tasks = DOMAIN d.tasks \cup {t}
                     /\ KeepsCalls(d, m) /\ AddsCalls(m, e, t, s.meta, s.ledger)
        BY <1>3, <2>2
      <3>2. DatabaseInv(m, known)
        BY <1>1, <3>1, DatabaseKept
      <3>3. CallsInv(mem, m, n)
        BY <1>1, <3>1, CallsKept
      <3>4. DatabaseInv(e, known)
        BY <1>1, <1>3, <3>1, <3>2, DatabaseKept DEF AddsTask
      <3>5. CallsInv(mem, e, n)
        BY <3>1, <3>2, <3>3, CallsRecorded
      <3> QED BY <3>4, <3>5
    <2> QED BY <2>1, <2>2
  <1>5. FindingsInv(mem, e, now, bl)
    BY <1>1, <1>2, <1>3, FindingsStored
  <1>6. \A u \in Tasks : now[u] # {} => u \in known
    BY <1>1 DEF Inv, FindingsInv
  <1> QED BY <1>1, <1>4, <1>5, <1>6 DEF Inv

\* The run and the ledger of a task in memory are recorded.
LEMMA RunWritten ==
  ASSUME NEW mem, NEW ord, NEW d, NEW n, NEW known, NEW sav, NEW bl, Inv(mem, ord, d, n, known, sav, bl),
         NEW t \in DOMAIN mem, NEW e \in Recorded(d, t, mem[t])
  PROVE  Inv(mem, ord, e, n, known, sav, bl)
  <1>1. /\ WorkerInv(mem, ord, known) /\ DatabaseInv(d, known) /\ CallsInv(mem, d, n)
        /\ FindingsInv(mem, d, sav, bl) /\ IsDatabase(d) /\ t \in known
    BY DEF Inv, WorkerInv, DatabaseInv, IsDatabase
  <1>2. /\ IsDatabase(e) /\ e.tasks = d.tasks /\ e.findings = d.findings
        /\ KeepsCalls(d, e) \/ AddsCalls(d, e, t, mem[t].meta, mem[t].ledger)
    BY <1>1, RecordedRun
  <1>3. DatabaseInv(e, known)
    BY <1>1, <1>2, DatabaseKept
  <1>4. CallsInv(mem, e, n)
    BY <1>1, <1>2, CallsKept, CallsRecorded
  <1>5. FindingsInv(mem, e, sav, bl)
    BY <1>1, <1>2, FindingsKept DEF KeepsFindings
  <1> QED BY <1>3, <1>4, <1>5 DEF Inv

\* What an analysis leaves in memory.
LEMMA NewStoreType ==
  ASSUME NEW path, NEW run
  PROVE  LET s == NewStore(path, run)
         IN  /\ StoreOK(s) /\ s.findings = <<>> /\ s.ledger = <<>> /\ s.restored = 0 /\ s.meta = None
             /\ s.ledgerRead
  <1> DEFINE s == NewStore(path, run)
  <1>1. PICK content, alerts :
          s = [source |-> path, content |-> content, alerts |-> alerts, findings |-> <<>>,
               ledger |-> <<>>, meta |-> None, restored |-> 0, ledgerRead |-> TRUE]
    BY DEF NewStore, EmptyLedger
  <1> HIDE DEF s
  <1>2. <<>> \in Seq(Findings)
    OBVIOUS
  <1> QED BY <1>1, <1>2 DEF StoreOK, s

\* What a recovery leaves in memory.
LEMMA AttachedType ==
  ASSUME EngineInv, NEW t \in Tasks, NEW path, NEW run, NEW f \in BOOLEAN, NEW l \in BOOLEAN
  PROVE  LET s == Attached(NewStore(path, run), t, f, l)
         IN  /\ StoreOK(s) /\ s.restored = Len(s.findings) /\ LedgerInv(s, t, db, anchors)
             /\ \A a \in DOMAIN s.ledger : a \in DOMAIN db.calls
             /\ f /\ Undisturbed(t, db, saved, blind) => ListedInv(s, db)
  <1> DEFINE new == NewStore(path, run)
             rows == IF f THEN ListFindings(db, t) ELSE <<>>
             ledger == IF l THEN ListToolCalls(db, t) ELSE <<>>
             s == Attached(new, t, f, l)
  <1>1. /\ DatabaseInv(db, minted) /\ CallsInv(memory, db, anchors) /\ FindingsInv(memory, db, saved, blind)
    BY DEF EngineInv, Inv
  <1>2. StoreOK(new) /\ new.ledger = <<>>
    BY NewStoreType
  <1>3. rows \in Seq(Findings) /\ Len(rows) \in Nat
    BY <1>1, ListedFindings
  <1> HIDE DEF rows, new
  <1>4. s = [source |-> new.source, content |-> new.content, alerts |-> new.alerts, findings |-> rows,
             ledger |-> ledger, meta |-> new.meta, restored |-> Len(rows), ledgerRead |-> l]
    <2>1. s = [new EXCEPT !.findings = rows, !.restored = Len(rows), !.ledgerRead = l, !.ledger = ledger]
      <3>1. s = [new EXCEPT !.findings = rows, !.restored = Len(rows), !.ledgerRead = l,
                            !.ledger = IF l THEN ListToolCalls(db, t) ELSE new.ledger]
        BY DEF Attached, rows
      <3> QED BY <1>2, <3>1
    <2>2. new = [source |-> new.source, content |-> new.content, alerts |-> new.alerts,
                 findings |-> new.findings, ledger |-> <<>>, meta |-> new.meta,
                 restored |-> new.restored, ledgerRead |-> new.ledgerRead]
      BY <1>2 DEF StoreOK
    <2> HIDE DEF s, ledger
    <2> QED BY <2>1, <2>2
  <1> HIDE DEF s, ledger
  <1>5. /\ StoreOK(s) /\ s.findings = rows /\ s.ledger = ledger /\ s.restored = Len(rows) /\ s.ledgerRead = l
    BY <1>2, <1>3, <1>4 DEF StoreOK
  <1>6. CallsOf(db, t) \in SUBSET Int /\ IsFiniteSet(CallsOf(db, t))
    BY <1>1, CallsFinite DEF CallsInv
  <1>7. l => /\ DOMAIN ledger = Limited(CallsOf(db, t), CallLimit)
             /\ \A a \in DOMAIN ledger : /\ ledger[a].task = t
                                         /\ Facts(ledger[a]) = Facts(db.calls[a].entry)
    BY DEF ledger, ListToolCalls, Facts
  <1>8. ~ l => DOMAIN ledger = {}
    BY DEF ledger
  <1>9. DOMAIN ledger \subseteq CallsOf(db, t)
    BY <1>7, <1>8 DEF Limited
  <1>10. \A a \in CallsOf(db, t) :
           a \in DOMAIN db.calls /\ a \in 1 .. anchors /\ db.runs[db.calls[a].run] = t
    BY <1>1 DEF CallsOf, CallsInv
  <1>11. l /\ Cardinality(CallsOf(db, t)) <= CallLimit => DOMAIN ledger = CallsOf(db, t)
    BY <1>6, <1>7, LimitedAll, StorageAssumption
  <1>12. LedgerInv(s, t, db, anchors)
    <2>1. \A a \in DOMAIN ledger : l /\ ledger[a].task = t /\ Facts(ledger[a]) = Facts(db.calls[a].entry)
      BY <1>7, <1>8
    <2> QED BY <1>5, <1>9, <1>10, <1>11, <2>1 DEF LedgerInv
  <1>13. f /\ Undisturbed(t, db, saved, blind) => ListedInv(s, db)
    BY <1>1, <1>5, ListedFindings DEF rows
  <1> QED BY <1>5, <1>9, <1>10, <1>12, <1>13 DEF s, new

\* Priming: the invariant holds of what the worker may hold when it comes to a call.
LEMMA PrimedInv ==
  ASSUME EngineInv, NEW t \in Tasks, NEW p \in Primed(t)
  PROVE  Inv(p.memory, p.order, db, anchors, minted, saved, p.blind)
  <1>1. CASE ~ Recoverable(t)
    BY <1>1 DEF Primed, EngineInv
  <1>2. CASE Recoverable(t)
    <2>1. PICK f \in BOOLEAN, l \in BOOLEAN : p = Rebuilt(t, f, l)
      BY <1>2 DEF Primed
    <2> DEFINE s == Attached(NewStore(db.tasks[t].source, analyses + 1), t, f, l)
               lost == IF f THEN blind ELSE blind \cup {t}
    <2>2. p.memory = Inserted(t, s).memory /\ p.order = Inserted(t, s).order /\ p.blind = lost
      BY <2>1 DEF Rebuilt
    <2>3. /\ StoreOK(s) /\ s.restored = Len(s.findings) /\ LedgerInv(s, t, db, anchors)
          /\ \A a \in DOMAIN s.ledger : a \in DOMAIN db.calls
          /\ f /\ Undisturbed(t, db, saved, blind) => ListedInv(s, db)
      BY AttachedType
    <2> HIDE DEF s
    <2>4. t \notin DOMAIN memory /\ t \in minted
      BY <1>2 DEF Recoverable, EngineInv, Inv, DatabaseInv
    <2>5. Undisturbed(t, db, saved, lost) => f /\ Undisturbed(t, db, saved, blind)
      BY DEF Undisturbed
    <2>6. blind \subseteq lost
      OBVIOUS
    <2> HIDE DEF lost
    <2>7. Inv(Inserted(t, s).memory, Inserted(t, s).order, db, anchors, minted, saved, lost)
      BY <2>3, <2>4, <2>5, <2>6, Brought DEF EngineInv
    <2> QED BY <2>2, <2>7
  <1> QED BY <1>1, <1>2

-----------------------------------------------------------------------------
(* The invariant is inductive                                               *)

\* It holds of a worker that was just started on an empty database.
LEMMA InitInv == Init => EngineInv
  <1> SUFFICES ASSUME Init PROVE EngineInv
    OBVIOUS
  <1>1. DOMAIN memory = {} /\ order = <<>> /\ anchors = 0 /\ minted = {} /\ saved = [t \in Tasks |-> {}]
        /\ db = [tasks |-> <<>>, alerts |-> <<>>, findings |-> <<>>, runs |-> <<>>, calls |-> <<>>]
    BY DEF Init, EmptyDatabase
  <1>2. /\ DOMAIN db.tasks = {} /\ DOMAIN db.findings = {} /\ DOMAIN db.runs = {} /\ DOMAIN db.calls = {}
    BY <1>1
  <1>3. WorkerInv(memory, order, minted)
    <2>1. order \in Seq(Tasks) /\ Len(order) = 0 /\ ToSet(order) = {}
      BY <1>1 DEF ToSet
    <2> QED BY <1>1, <2>1, EngineAssumption DEF WorkerInv
  <1>4. DatabaseInv(db, minted)
    BY <1>1, <1>2 DEF DatabaseInv
  <1>5. CallsInv(memory, db, anchors)
    BY <1>1, <1>2 DEF CallsInv
  <1>6. FindingsInv(memory, db, saved, blind)
    <2>1. IsFiniteSet({}) /\ Cardinality({}) = 0
      BY FS_EmptySet
    <2>2. \A t \in Tasks : RowsInv(t, db, saved)
      BY <1>1, <1>2, <2>1 DEF RowsInv
    <2> QED BY <1>1, <1>2, <2>1, <2>2 DEF FindingsInv
  <1> QED BY <1>1, <1>3, <1>4, <1>5, <1>6 DEF EngineInv, Inv, GroundedInv

\* A query leaves the database as it is.
LEMMA QueryStep ==
  ASSUME EngineInv, NEW t \in Tasks, NEW m \in DOMAIN Requests, Query(t, m)
  PROVE  EngineInv'
  <1>1. PICK p \in Primed(t), q \in Requests[m] :
          /\ t \in DOMAIN p.memory /\ Adopt(p)
          /\ \/ memory' = p.memory /\ UNCHANGED anchors
             \/ /\ memory' = [p.memory EXCEPT ![t] = ToolResult(t, @, m, ResultOf(m, p.memory[t], q))]
                /\ anchors' = anchors + 1
    BY DEF Query
  <1>2. UNCHANGED <<db, minted, saved>> /\ order' = p.order /\ blind' = p.blind
    BY <1>1 DEF Query, Adopt
  <1>3. Inv(p.memory, p.order, db, anchors, minted, saved, p.blind)
    BY PrimedInv
  <1>4. CASE memory' = p.memory /\ UNCHANGED anchors
    BY <1>2, <1>3, <1>4 DEF EngineInv
  <1>5. CASE /\ memory' = [p.memory EXCEPT ![t] = ToolResult(t, @, m, ResultOf(m, p.memory[t], q))]
             /\ anchors' = anchors + 1
    <2>1. Inv([p.memory EXCEPT ![t] = ToolResult(t, p.memory[t], m, ResultOf(m, p.memory[t], q))],
              p.order, db, anchors + 1, minted, saved, p.blind)
      BY <1>1, <1>3, Answered
    <2> QED BY <1>2, <1>5, <2>1 DEF EngineInv
  <1> QED BY <1>1, <1>4, <1>5

\* A task that is new to everyone has no findings, calls or ledger anywhere.
LEMMA AnalyzeFileStep ==
  ASSUME EngineInv, NEW t \in Tasks, NEW path \in Paths, AnalyzeFile(t, path)
  PROVE  EngineInv'
  <1> DEFINE s == NewStore(path, analyses + 1)
             known == minted \cup {t}
  <1>1. /\ t \notin minted /\ memory' = Inserted(t, s).memory /\ order' = Inserted(t, s).order
        /\ db' \in {db} \cup Interrupted(db, t, s) \cup Persisted(db, t, s)
        /\ minted' = known /\ UNCHANGED <<anchors, saved, blind>>
    BY DEF AnalyzeFile
  <1>2. /\ StoreOK(s) /\ s.findings = <<>> /\ s.ledger = <<>> /\ s.restored = 0 /\ s.meta = None
    BY NewStoreType
  <1> HIDE DEF s
  <1>3. Inv(memory, order, db, anchors, minted, saved, blind) /\ minted \subseteq Tasks
    BY DEF EngineInv, Inv
  <1>4. Inv(memory, order, db, anchors, known, saved, blind) /\ t \in known
    BY <1>3, MoreKnown
  <1>5. t \notin DOMAIN memory /\ t \notin DOMAIN db.tasks /\ saved[t] = {}
    BY <1>1, <1>3 DEF Inv, WorkerInv, DatabaseInv
  <1> HIDE DEF known
  <1>6. LedgerInv(s, t, db, anchors) /\ \A a \in DOMAIN s.ledger : a \in DOMAIN db.calls
    <2>1. DOMAIN s.ledger = {}
      BY <1>2
    <2>2. CallsOf(db, t) = {}
      BY <1>3, <1>5 DEF CallsOf, Inv, DatabaseInv
    <2> QED BY <2>1, <2>2 DEF LedgerInv
  <1>7. s.restored = Len(s.findings)
    BY <1>2
  <1>8. Undisturbed(t, db, saved, blind) => ListedInv(s, db)
    <2> SUFFICES ASSUME Undisturbed(t, db, saved, blind) PROVE ListedInv(s, db)
      OBVIOUS
    <2>1. DOMAIN db.findings = {}
      BY <1>3, <1>5 DEF Undisturbed, Inv, FindingsInv
    <2>2. Len(s.findings) = 0
      BY <1>2
    <2> QED BY <2>1, <2>2 DEF ListedInv
  <1>9. Inv(Inserted(t, s).memory, Inserted(t, s).order, db, anchors, known, saved, blind)
    BY <1>2, <1>4, <1>5, <1>6, <1>7, <1>8, Brought
  <1>10. Inv(Inserted(t, s).memory, Inserted(t, s).order, db', anchors, known, saved, blind)
    <2>1. CASE db' \in {db} \cup Interrupted(db, t, s)
      BY <1>4, <1>9, <2>1, WrittenInPart
    <2>2. CASE db' \in Persisted(db, t, s)
      BY <1>2, <1>4, <1>9, <2>2, AnalysisWritten
    <2> QED BY <1>1, <2>1, <2>2
  <1> QED BY <1>1, <1>10 DEF EngineInv

\* Another process stores a task without findings.
LEMMA CliAnalyzeStep ==
  ASSUME EngineInv, NEW t \in Tasks, NEW path \in Paths, CliAnalyze(t, path)
  PROVE  EngineInv'
  <1> DEFINE s == NewStore(path, analyses + 1)
             known == minted \cup {t}
  <1>1. /\ db' \in Interrupted(db, t, s) \cup Persisted(db, t, s)
        /\ minted' = known /\ UNCHANGED <<memory, order, anchors, saved, blind>>
    BY DEF CliAnalyze
  <1>2. s.findings = <<>> /\ s.meta = None
    BY NewStoreType
  <1> HIDE DEF s
  <1>3. Inv(memory, order, db, anchors, known, saved, blind) /\ t \in known
    <2>1. Inv(memory, order, db, anchors, minted, saved, blind) /\ minted \subseteq Tasks
      BY DEF EngineInv, Inv
    <2> QED BY <2>1, MoreKnown
  <1> HIDE DEF known
  <1>4. Inv(memory, order, db', anchors, known, saved, blind)
    <2>1. CASE db' \in Interrupted(db, t, s)
      BY <1>3, <2>1, WrittenInPart
    <2>2. CASE db' \in Persisted(db, t, s)
      BY <1>2, <1>3, <2>2, AnalysisWritten
    <2> QED BY <1>1, <2>1, <2>2
  <1> QED BY <1>1, <1>4 DEF EngineInv

\* A submission: the task is brought, the findings are added, stored or not, and
\* the answer gets its anchor.
LEMMA SubmitFindingStep ==
  ASSUME EngineInv, NEW t \in Tasks, SubmitFinding(t)
  PROVE  EngineInv'
  <1>1. PICK p \in Primed(t), drafts \in Drafts :
          /\ t \in DOMAIN p.memory /\ Adopt(p)
          /\ LET old   == p.memory[t]
                 new   == NewFindings(t, old, drafts)
                 store == [old EXCEPT !.findings = @ \o new]
             IN  /\ \/ /\ db' \in {db} \cup Interrupted(db, t, store)
                       /\ UNCHANGED saved
                    \/ /\ db' \in Persisted(db, t, store)
                       /\ saved' = [saved EXCEPT ![t] = @ \cup ToSet(store.findings)]
                 /\ memory' = [p.memory EXCEPT ![t] =
                      ToolResult(t, store, "submit_finding", SubmissionAnswer(ToSet(new), old.ledger, drafts))]
    BY DEF SubmitFinding
  <1> DEFINE old == p.memory[t]
             new == NewFindings(t, old, drafts)
             store == [old EXCEPT !.findings = @ \o new]
             answer == SubmissionAnswer(ToSet(new), old.ledger, drafts)
             mem == [p.memory EXCEPT ![t] = store]
  <1>2. /\ \/ /\ db' \in {db} \cup Interrupted(db, t, store)
              /\ saved' = saved
           \/ /\ db' \in Persisted(db, t, store)
              /\ saved' = [saved EXCEPT ![t] = @ \cup ToSet(store.findings)]
        /\ memory' = [p.memory EXCEPT ![t] = ToolResult(t, store, "submit_finding", answer)]
    BY <1>1
  <1>3. minted' = minted /\ order' = p.order /\ blind' = p.blind /\ anchors' = anchors + 1
    BY <1>1 DEF SubmitFinding, Adopt
  <1>4. Inv(p.memory, p.order, db, anchors, minted, saved, p.blind)
    BY PrimedInv
  <1>5. Inv(mem, p.order, db, anchors, minted, saved, p.blind)
    BY <1>1, <1>4, Submitted
  <1> HIDE DEF store, answer
  <1>6. t \in DOMAIN mem /\ mem[t] = store
    BY <1>1
  <1>7. [mem EXCEPT ![t] = ToolResult(t, mem[t], "submit_finding", answer)] = memory'
    BY <1>2, <1>6
  <1> HIDE DEF mem
  <1>8. t \in minted
    BY <1>5, <1>6 DEF Inv, WorkerInv
  <1>9. Inv(mem, p.order, db', anchors, minted, saved', p.blind)
    <2>1. CASE db' \in {db} \cup Interrupted(db, t, store) /\ saved' = saved
      BY <1>5, <1>8, <2>1, WrittenInPart
    <2>2. CASE db' \in Persisted(db, t, store) /\ saved' = [saved EXCEPT ![t] = @ \cup ToSet(store.findings)]
      BY <1>5, <1>6, <2>2, Written
    <2> QED BY <1>2, <2>1, <2>2
  <1>10. Inv([mem EXCEPT ![t] = ToolResult(t, mem[t], "submit_finding", answer)],
             p.order, db', anchors + 1, minted, saved', p.blind)
    BY <1>6, <1>9, Answered
  <1> QED BY <1>3, <1>7, <1>10 DEF EngineInv

\* A report: the task is brought, its run and ledger are recorded or not, and the
\* answer gets its anchor.
LEMMA SubmitReportMetaStep ==
  ASSUME EngineInv, NEW t \in Tasks, SubmitReportMeta(t)
  PROVE  EngineInv'
  <1>1. PICK p \in Primed(t), run \in Runs :
          /\ t \in DOMAIN p.memory /\ Adopt(p)
          /\ LET store == [p.memory[t] EXCEPT !.meta = run]
             IN  /\ db' \in Recorded(db, t, store)
                 /\ memory' = [p.memory EXCEPT ![t] =
                                 ToolResult(t, store, "submit_report_meta", Answer({}, <<>>))]
    BY DEF SubmitReportMeta
  <1> DEFINE store == [p.memory[t] EXCEPT !.meta = run]
             mem == [p.memory EXCEPT ![t] = store]
  <1>2. /\ db' \in Recorded(db, t, store)
        /\ memory' = [p.memory EXCEPT ![t] = ToolResult(t, store, "submit_report_meta", Answer({}, <<>>))]
    BY <1>1
  <1>3. minted' = minted /\ saved' = saved /\ order' = p.order /\ blind' = p.blind /\ anchors' = anchors + 1
    BY <1>1 DEF SubmitReportMeta, Adopt
  <1>4. Inv(p.memory, p.order, db, anchors, minted, saved, p.blind)
    BY PrimedInv
  <1>5. Inv(mem, p.order, db, anchors, minted, saved, p.blind)
    BY <1>1, <1>4, Reported
  <1> HIDE DEF store
  <1>6. t \in DOMAIN mem /\ mem[t] = store
    BY <1>1
  <1>7. [mem EXCEPT ![t] = ToolResult(t, mem[t], "submit_report_meta", Answer({}, <<>>))] = memory'
    BY <1>2, <1>6
  <1> HIDE DEF mem
  <1>8. Inv(mem, p.order, db', anchors, minted, saved, p.blind)
    BY <1>2, <1>5, <1>6, RunWritten
  <1>9. Inv([mem EXCEPT ![t] = ToolResult(t, mem[t], "submit_report_meta", Answer({}, <<>>))],
             p.order, db', anchors + 1, minted, saved, p.blind)
    BY <1>6, <1>8, Answered
  <1> QED BY <1>3, <1>7, <1>9 DEF EngineInv

\* The worker starts again with nothing in memory.
LEMMA RestartStep ==
  ASSUME EngineInv, Restart
  PROVE  EngineInv'
  <1>1. DOMAIN memory' = {} /\ order' = <<>> /\ UNCHANGED <<db, anchors, minted, saved, blind>>
    BY DEF Restart
  <1>2. WorkerInv(memory', order', minted')
    <2>1. order' \in Seq(Tasks) /\ Len(order') = 0 /\ ToSet(order') = {}
      BY <1>1 DEF ToSet
    <2> QED BY <1>1, <2>1, EngineAssumption DEF WorkerInv
  <1>3. CallsInv(memory', db', anchors') /\ FindingsInv(memory', db', saved', blind') /\ GroundedInv(memory')
    BY <1>1 DEF EngineInv, Inv, CallsInv, FindingsInv, GroundedInv
  <1> QED BY <1>1, <1>2, <1>3 DEF EngineInv, Inv

\* Every step keeps the invariant.
LEMMA NextInv == EngineInv /\ [Next]_vars => EngineInv'
  <1> SUFFICES ASSUME EngineInv, [Next]_vars PROVE EngineInv'
    OBVIOUS
  <1>1. CASE UNCHANGED vars
    BY <1>1 DEF vars, EngineInv
  <1>2. ASSUME NEW t \in Tasks, NEW m \in DOMAIN Requests, Query(t, m) PROVE EngineInv'
    BY <1>2, QueryStep
  <1>3. ASSUME NEW t \in Tasks, NEW path \in Paths, AnalyzeFile(t, path) \/ CliAnalyze(t, path) PROVE EngineInv'
    BY <1>3, AnalyzeFileStep, CliAnalyzeStep
  <1>4. ASSUME NEW t \in Tasks, SubmitFinding(t) \/ SubmitReportMeta(t) PROVE EngineInv'
    BY <1>4, SubmitFindingStep, SubmitReportMetaStep
  <1>5. CASE Restart
    BY <1>5, RestartStep
  <1>6. ASSUME NEW path \in Paths, RemoveCapture(path) \/ ReplaceCapture(path) PROVE EngineInv'
    <2>1. UNCHANGED <<memory, order, db, anchors, minted, saved, blind>>
      BY <1>6 DEF RemoveCapture, ReplaceCapture
    <2> QED BY <2>1 DEF EngineInv
  <1> QED BY <1>1, <1>2, <1>3, <1>4, <1>5, <1>6 DEF Next

\* The invariant holds in every reachable state.
THEOREM EngineInvariant == Spec => []EngineInv
  <1> QED BY InitInv, NextInv, PTL DEF Spec

-----------------------------------------------------------------------------
(* The properties                                                           *)

\* Every reachable state has the types of TypeOK: the cache holds the tasks of its
\* order, each once and no more than MaxTasks, and foreign keys name rows.
THEOREM EngineTypeCorrect == Spec => []TypeOK
  <1>1. EngineInv => TypeOK
    <2> SUFFICES ASSUME EngineInv PROVE TypeOK
      OBVIOUS
    <2>1. /\ WorkerInv(memory, order, minted) /\ DatabaseInv(db, minted) /\ CallsInv(memory, db, anchors)
      BY DEF EngineInv, Inv
    <2>2. order \in Seq(Tasks) /\ ToSet(order) = DOMAIN memory /\ Len(order) \in Nat
      BY <2>1 DEF WorkerInv
    <2>3. Cardinality(DOMAIN memory) = Len(order)
      <3> DEFINE n == Len(order)
      <3>1. IsFiniteSet(1 .. n) /\ Cardinality(1 .. n) = n
        <4> HIDE DEF n
        <4>1. n \in Nat
          BY <2>2 DEF n
        <4> QED BY <4>1, FS_Interval
      <3>2. order \in [1 .. n -> ToSet(order)] /\ \A u \in ToSet(order) : \E i \in 1 .. n : order[i] = u
        BY <2>2 DEF ToSet
      <3>3. order \in Surjection(1 .. n, ToSet(order))
        BY <3>2 DEF Surjection
      <3>4. order \in Injection(1 .. n, ToSet(order))
        BY <2>1, <3>2 DEF Injection, IsInjective, WorkerInv
      <3> HIDE DEF n
      <3>5. Cardinality(ToSet(order)) = Cardinality(1 .. n)
        BY <3>1, <3>3, <3>4, FS_Surjection
      <3> QED BY <2>2, <3>1, <3>5 DEF n
    <2>4. \A t \in DOMAIN memory : DOMAIN memory[t].ledger \subseteq 1 .. anchors
      BY <2>1 DEF CallsInv, LedgerInv
    <2> QED BY <2>1, <2>2, <2>3, <2>4 DEF TypeOK, WorkerInv, DatabaseInv
  <1> QED BY <1>1, EngineInvariant, PTL

\* A finding the worker accepted names only what its citations have shown.
THEOREM FindingsGrounded == Spec => []AcceptedGrounded
  <1>1. EngineInv => AcceptedGrounded
    BY DEF EngineInv, Inv, GroundedInv, GroundedFinding, AcceptedGrounded
  <1> QED BY <1>1, EngineInvariant, PTL

\* An anchor is in one ledger unless its call was recorded under a run of another task,
\* and the call recorded under it has the facts of every ledger's entry.
THEOREM AnchorsMeanOneThing == Spec => []AnchorsUnambiguous
  <1>1. EngineInv => AnchorsUnambiguous
    <2> SUFFICES ASSUME EngineInv, NEW t \in DOMAIN memory, NEW a \in DOMAIN memory[t].ledger
                 PROVE  /\ \A u \in DOMAIN memory \ {t} : a \in DOMAIN memory[u].ledger => a \in Misfiled(db)
                        /\ a \in DOMAIN db.calls =>
                             /\ Facts(db.calls[a].entry) = Facts(memory[t].ledger[a])
                             /\ t \in {db.calls[a].entry.task, db.runs[db.calls[a].run]}
      BY DEF AnchorsUnambiguous
    <2>1. CallsInv(memory, db, anchors)
      BY DEF EngineInv, Inv
    <2>2. \A u \in DOMAIN memory : a \in DOMAIN memory[u].ledger /\ a \in DOMAIN db.calls =>
            /\ Facts(db.calls[a].entry) = Facts(memory[u].ledger[a])
            /\ u \in {db.calls[a].entry.task, db.runs[db.calls[a].run]}
      BY <2>1 DEF CallsInv, LedgerInv
    <2>3. ASSUME NEW u \in DOMAIN memory, u # t, a \in DOMAIN memory[u].ledger PROVE a \in Misfiled(db)
      <3>1. a \in DOMAIN db.calls
        BY <2>1, <2>3 DEF CallsInv
      <3>2. db.runs[db.calls[a].run] # db.calls[a].entry.task
        BY <2>2, <2>3, <3>1
      <3> QED BY <3>1, <3>2 DEF Misfiled
    <2> QED BY <2>2, <2>3
  <1> QED BY <1>1, EngineInvariant, PTL

\* The calls made on a task and recorded with its runs can be cited again after any
\* recovery that could read them, up to the number it asks for.
THEOREM RecordedCallsCitable == Spec => []LedgerCoversDatabase
  <1>1. EngineInv => LedgerCoversDatabase
    <2> SUFFICES ASSUME EngineInv, NEW t \in DOMAIN memory, memory[t].ledgerRead,
                        Cardinality(CallsOf(db, t)) <= CallLimit, NEW a \in CallsOf(db, t) \ Misfiled(db)
                 PROVE  a \in DOMAIN memory[t].ledger /\ Facts(memory[t].ledger[a]) = Facts(db.calls[a].entry)
      BY DEF LedgerCoversDatabase
    <2>1. LedgerInv(memory[t], t, db, anchors)
      BY DEF EngineInv, Inv, CallsInv
    <2>2. db.calls[a].entry.task = t
      BY DEF CallsOf, Misfiled
    <2> QED BY <2>1, <2>2 DEF LedgerInv
  <1> QED BY <1>1, EngineInvariant, PTL

\* A finding that reached the database is in memory whenever its task is, except
\* for the three reasons the property names.
THEOREM FindingsKeptAcrossRestarts == Spec => []LostOnlyByCollision
  <1>1. EngineInv => LostOnlyByCollision
    <2> SUFFICES ASSUME EngineInv, NEW t \in DOMAIN memory, Undisturbed(t, db, saved, blind), NEW f \in saved[t]
                 PROVE  Holds(t, f)
      BY DEF LostOnlyByCollision, Undisturbed
    <2>1. /\ WorkerInv(memory, order, minted) /\ FindingsInv(memory, db, saved, blind)
          /\ t \in Tasks /\ StoreOK(memory[t])
      BY DEF EngineInv, Inv, WorkerInv
    <2>2. RowsInv(t, db, saved) /\ ListedInv(memory[t], db)
      BY <2>1 DEF FindingsInv
    <2>3. f.id \in DOMAIN db.findings /\ db.findings[f.id].finding = f
      BY <2>2 DEF RowsInv
    <2>4. f.id \in 1 .. Len(memory[t].findings) /\ memory[t].findings[f.id] = f
      BY <2>2, <2>3 DEF ListedInv
    <2>5. DOMAIN memory[t].findings = 1 .. Len(memory[t].findings)
      BY <2>1 DEF StoreOK
    <2> QED BY <2>4, <2>5 DEF Holds
  <1> QED BY <1>1, EngineInvariant, PTL
==============================================================================
