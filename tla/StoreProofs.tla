---------------------------- MODULE StoreProofs -----------------------------
(* Proofs about starts on one database file, for any processes, releases and bounds. *)
EXTENDS Store, FiniteSetTheorems, TLAPS

-----------------------------------------------------------------------------
(* The transaction as a pure account: how far a release's files are applied to a record. *)

TxType == [at : Nat, done : Nat, ledger : SUBSET File, schema : SUBSET StatementsOf(File)]

\* What the first statements of the migration at hand have done.
Partial(F, t) == {<<F[t.at], k>> : k \in 1..t.done}

\* t has brought the record `files` up to, and a little into, the migration F[t.at].
Underway(F, files, t) ==
  /\ t.at \in 1..(Len(F) + 1)
  /\ t.ledger = files \cup {F[k] : k \in 1..(t.at - 1)}
  /\ t.schema = StatementsOf(t.ledger) \cup Partial(F, t)
  /\ t.done > 0 => t.at <= Len(F) /\ F[t.at].version \notin Versions(files)
  /\ \A k \in 1..(t.at - 1) : F[k].version \in Versions(files) => F[k] \in files

\* The primary key of schema_migrations.
Keyed(files) == \A f, g \in files : f.version = g.version => f = g

LEMMA UnderwayBegin ==
  ASSUME NEW F \in Seq(File), NEW files \in SUBSET File
  PROVE  Underway(F, files, Tx(1, 0, files, StatementsOf(files)))
BY DEF Underway, Partial, Tx

LEMMA UnderwaySkip ==
  ASSUME NEW F \in Seq(File), NEW files \in SUBSET File, NEW t \in TxType,
         Underway(F, files, t), t.at <= Len(F), F[t.at] \in files
  PROVE  Underway(F, files, [t EXCEPT !.at = @ + 1])
<1> DEFINE u == [t EXCEPT !.at = @ + 1]
<1>1. t.done = 0
  BY DEF Underway, Versions, TxType
<1>2. u.at = t.at + 1 /\ u.done = 0 /\ u.ledger = t.ledger /\ u.schema = t.schema
  BY <1>1 DEF TxType
<1>3. t.at \in Nat /\ t.at >= 1 /\ 1..(u.at - 1) = 1..(t.at - 1) \cup {t.at}
  BY <1>2 DEF Underway, TxType
<1>4. {F[k] : k \in 1..(u.at - 1)} = {F[k] : k \in 1..(t.at - 1)} \cup {F[t.at]}
  BY <1>3
<1>5. Partial(F, u) = {} /\ Partial(F, t) = {}
  BY <1>1, <1>2 DEF Partial
<1>6. u.ledger = files \cup {F[k] : k \in 1..(u.at - 1)}
  BY <1>2, <1>4 DEF Underway
<1>7. u.schema = StatementsOf(u.ledger) \cup Partial(F, u)
  BY <1>2, <1>5 DEF Underway
<1>8. \A k \in 1..(u.at - 1) : F[k].version \in Versions(files) => F[k] \in files
  BY <1>3 DEF Underway
<1>9. u.at \in 1..(Len(F) + 1)
  BY <1>2, <1>3
<1> HIDE DEF u
<1>10. u.done > 0 => u.at <= Len(F) /\ F[u.at].version \notin Versions(files)
  BY <1>2
<1>11. Underway(F, files, u)
  BY <1>6, <1>7, <1>8, <1>9, <1>10 DEF Underway
<1> QED
  BY <1>11 DEF u

LEMMA UnderwayExecute ==
  ASSUME NEW F \in Seq(File), NEW files \in SUBSET File, NEW t \in TxType,
         Underway(F, files, t), t.at <= Len(F), F[t.at].version \notin Versions(files)
  PROVE  Underway(F, files, [t EXCEPT !.done = @ + 1,
                                      !.schema = @ \cup {<<F[t.at], t.done + 1>>}])
<1> DEFINE u == [t EXCEPT !.done = @ + 1, !.schema = @ \cup {<<F[t.at], t.done + 1>>}]
<1>1. /\ u.at = t.at /\ u.done = t.done + 1 /\ u.ledger = t.ledger
      /\ u.schema = t.schema \cup {<<F[t.at], t.done + 1>>}
  BY DEF TxType
<1>2. 1..u.done = 1..t.done \cup {t.done + 1}
  BY <1>1 DEF TxType
<1>3. Partial(F, u) = Partial(F, t) \cup {<<F[t.at], t.done + 1>>}
  BY <1>1, <1>2 DEF Partial
<1>4. u.schema = StatementsOf(u.ledger) \cup Partial(F, u)
  BY <1>1, <1>3 DEF Underway
<1> HIDE DEF u
<1>5. Underway(F, files, u)
  BY <1>1, <1>4 DEF Underway
<1> QED
  BY <1>5 DEF u

LEMMA UnderwayRecord ==
  ASSUME NEW F \in Seq(File), NEW files \in SUBSET File, NEW t \in TxType,
         Underway(F, files, t), t.at <= Len(F), F[t.at].version \notin Versions(files),
         t.done = Statements[F[t.at]]
  PROVE  Underway(F, files, Tx(t.at + 1, 0, t.ledger \cup {F[t.at]}, t.schema))
<1> DEFINE u == Tx(t.at + 1, 0, t.ledger \cup {F[t.at]}, t.schema)
<1>1. /\ u.at = t.at + 1 /\ u.done = 0 /\ u.ledger = t.ledger \cup {F[t.at]}
      /\ u.schema = t.schema
  BY DEF Tx
<1>2. t.at \in Nat /\ t.at >= 1 /\ 1..(u.at - 1) = 1..(t.at - 1) \cup {t.at}
  <2>1. t.at \in 1..(Len(F) + 1) /\ Len(F) \in Nat
    BY DEF Underway
  <2> QED
    BY <1>1, <2>1
<1>3. {F[k] : k \in 1..(u.at - 1)} = {F[k] : k \in 1..(t.at - 1)} \cup {F[t.at]}
  BY <1>2
<1>4. u.ledger = files \cup {F[k] : k \in 1..(u.at - 1)}
  BY <1>1, <1>3 DEF Underway
<1>5. Partial(F, u) = {} /\ Partial(F, t) = StatementsOf({F[t.at]})
  BY <1>1 DEF Partial, StatementsOf
<1>6. StatementsOf(t.ledger \cup {F[t.at]}) = StatementsOf(t.ledger) \cup StatementsOf({F[t.at]})
  BY DEF StatementsOf
<1>7. u.schema = StatementsOf(u.ledger) \cup Partial(F, u)
  BY <1>1, <1>5, <1>6 DEF Underway
<1>8. \A k \in 1..(u.at - 1) : F[k].version \in Versions(files) => F[k] \in files
  BY <1>2 DEF Underway
<1> HIDE DEF u
<1>9. u.at \in 1..(Len(F) + 1)
  BY <1>1, <1>2
<1>10. u.done > 0 => u.at <= Len(F) /\ F[u.at].version \notin Versions(files)
  BY <1>1
<1>11. Underway(F, files, u)
  BY <1>4, <1>7, <1>8, <1>9, <1>10 DEF Underway
<1> QED
  BY <1>11 DEF u

LEMMA UnderwayEnd ==
  ASSUME NEW F \in Seq(File), NEW files \in SUBSET File, NEW t \in TxType,
         Underway(F, files, t), t.at > Len(F), Keyed(files),
         Versions(files) \subseteq Versions({F[k] : k \in DOMAIN F})
  PROVE  /\ files \subseteq {F[k] : k \in DOMAIN F}
         /\ t.ledger = {F[k] : k \in DOMAIN F}
         /\ t.schema = StatementsOf({F[k] : k \in DOMAIN F})
<1> DEFINE all == {F[k] : k \in DOMAIN F}
<1>1. Len(F) \in Nat /\ DOMAIN F = 1..Len(F) /\ t.at = Len(F) + 1 /\ t.done = 0
  <2>1. Len(F) \in Nat /\ DOMAIN F = 1..Len(F) /\ t.at \in 1..(Len(F) + 1)
    BY DEF Underway
  <2>2. ~(t.at <= Len(F)) /\ t.done \in Nat
    BY <2>1 DEF TxType
  <2> QED
    BY <2>1, <2>2 DEF Underway
<1>2. DOMAIN F = 1..(t.at - 1)
  BY <1>1
<1>3. \A f \in files : f \in all
  <2> SUFFICES ASSUME NEW f \in files
               PROVE  f \in all
    OBVIOUS
  <2>1. PICK k \in DOMAIN F : f.version = F[k].version
    BY DEF Versions
  <2>2. F[k] \in files
    BY <1>2, <2>1 DEF Underway, Versions
  <2>3. f = F[k]
    BY <2>1, <2>2 DEF Keyed
  <2> QED
    BY <2>3
<1>4. t.ledger = all
  BY <1>2, <1>3 DEF Underway
<1>5. Partial(F, t) = {}
  BY <1>1 DEF Partial
<1>6. t.schema = StatementsOf(all)
  BY <1>4, <1>5 DEF Underway
<1> QED
  BY <1>3, <1>4, <1>6

-----------------------------------------------------------------------------
(* Types. *)

\* A process that runs is of some release, past its negotiation the file is in WAL mode, and
\* a transaction is at some migration or past the last.
Running ==
  \A p \in Process :
    /\ phase[p] # "down" => release[p] \in Release
    /\ phase[p] \in {"connected", "waiting", "migrating"} => mode = "wal"
    /\ writer = p => tx.at >= 1

TypeInv == StoreTypeOK /\ Running

LEMMA ReleaseFiles ==
  ASSUME NEW rel \in Release
  PROVE  /\ Files[rel] \in Seq(File) /\ FilesOf(rel) \subseteq File
         /\ Keyed(FilesOf(rel))
         /\ Len(Files[rel]) \in Nat /\ DOMAIN Files[rel] = 1..Len(Files[rel])
<1>1. Files[rel] \in Seq(File)
  BY StoreAssumption
<1>2. Keyed(FilesOf(rel))
  BY StoreAssumption DEF Keyed, FilesOf
<1> QED
  BY <1>1, <1>2 DEF FilesOf

LEMMA TypeInit == Init => TypeInv
<1> SUFFICES ASSUME Init
             PROVE  TypeInv
  OBVIOUS
<1>1. \A p \in Process : Within(p) <=> writer = p
  BY StoreAssumption DEF Init, Within
<1>2. tx \in TxType
  BY DEF Init, NoTx, Tx, TxType
<1>3. Running
  BY StoreAssumption DEF Init, Running
<1> QED
  BY <1>1, <1>2, <1>3 DEF Init, TypeInv, StoreTypeOK, TxType, Idle

\* A process that unwinds leaves everything well typed.
LEMMA UnwindType ==
  ASSUME TypeInv, NEW p \in Process, NEW to \in {"down", "failed"}, Unwind(p, to),
         phase[p] # "down", faults' \in Nat
  PROVE  TypeInv'
<1>1. release[p] \in Release
  BY DEF TypeInv, Running
<1>2. NoTx \in TxType
  BY DEF NoTx, Tx, TxType
<1>3. /\ phase' = [phase EXCEPT ![p] = to] /\ release' \in [Process -> Release \cup {None}]
      /\ phase' \in [Process -> Idle \cup {"connecting", "connected", "waiting", "migrating"}]
      /\ left' \in [Process -> Nat]
  BY DEF TypeInv, StoreTypeOK, Unwind, Settle, Goto, Idle
<1>4. /\ writer' \in Process \cup {None} /\ tx' \in TxType
      /\ UNCHANGED <<mode, ledger, schema, lapse, starts>>
  BY <1>2 DEF TypeInv, StoreTypeOK, Unwind, TxType
<1>5. \A q \in Process : phase'[q] = "migrating" <=> writer' = q
  BY <1>3, StoreAssumption DEF TypeInv, StoreTypeOK, Unwind, Within
<1>6. writer' # None => mode' = "wal"
  BY DEF TypeInv, StoreTypeOK, Unwind
<1>7. \A q \in Process : /\ phase'[q] # "down" => release'[q] \in Release
                         /\ phase'[q] \in {"connected", "waiting", "migrating"} => mode' = "wal"
  BY <1>1, <1>3, <1>4 DEF TypeInv, StoreTypeOK, Running, Unwind, Settle, Goto
<1>8. \A q \in Process : writer' = q => tx'.at >= 1
  BY StoreAssumption DEF TypeInv, StoreTypeOK, Running, Unwind
<1>9. Running'
  BY <1>7, <1>8 DEF Running
<1> QED
  BY <1>3, <1>4, <1>5, <1>6, <1>9 DEF TypeInv, StoreTypeOK, Within, TxType
LEMMA TypeNext == TypeInv /\ [Next]_vars => TypeInv'
<1> SUFFICES ASSUME TypeInv, [Next]_vars
             PROVE  TypeInv'
  OBVIOUS
<1> USE DEF TypeInv, StoreTypeOK, Running, Within
<1>1. CASE UNCHANGED vars
  BY <1>1 DEF vars, fileVars, processVars
<1>2. ASSUME NEW p \in Process, NEW rel \in Release, Start(p, rel)
      PROVE  TypeInv'
  BY <1>2, StoreAssumption DEF Start, Goto, fileVars
<1>3. ASSUME NEW p \in Process, Negotiate(p)
      PROVE  TypeInv'
  BY <1>3 DEF Negotiate, Goto
<1>4. ASSUME NEW p \in Process, Contend(p)
      PROVE  TypeInv'
  BY <1>4 DEF Contend, Goto, fileVars, Idle
<1>5. ASSUME NEW p \in Process, Peek(p)
      PROVE  TypeInv'
  <2>1. \E timeout \in Nat : phase[p] = "connected" /\ Wait(p, timeout)
    BY <1>5, StoreAssumption DEF Peek
  <2> QED
    BY <2>1 DEF Wait, Goto, fileVars
<1>6. ASSUME NEW p \in Process, Reserve(p)
      PROVE  TypeInv'
  <2>1. tx' \in TxType /\ tx'.at = 1
    BY <1>6 DEF Reserve, Tx, TxType
  <2>2. \A q \in Process : Within(q)' <=> writer' = q
    BY <1>6, StoreAssumption DEF Reserve, Goto
  <2>3. Running'
    BY <1>6, <2>1 DEF Reserve, Goto
  <2> QED
    BY <1>6, <2>1, <2>2, <2>3 DEF Reserve, Goto, TxType
<1>7. ASSUME NEW p \in Process, Exhaust(p)
      PROVE  TypeInv'
  BY <1>7 DEF Exhaust, Goto, fileVars, Idle
<1>8. ASSUME NEW p \in Process, Refuse(p)
      PROVE  TypeInv'
  BY <1>8, UnwindType DEF Refuse, More
<1>9. ASSUME NEW p \in Process, Skip(p) \/ Execute(p) \/ Record(p)
      PROVE  TypeInv'
  <2>1. phase[p] = "migrating" /\ release[p] \in Release /\ tx.at <= Len(Files[release[p]])
    BY <1>9 DEF Skip, Execute, Record, More
  <2>2. /\ UNCHANGED <<mode, ledger, schema, writer, phase, release, left, starts, faults>>
        /\ lapse' \in BOOLEAN
    BY <1>9 DEF Skip, Execute, Record, processVars
  <2>4. Here(p) \in File /\ tx.at + 1 \in Nat /\ tx.at + 1 >= 1
    <3>1. /\ Files[release[p]] \in Seq(File) /\ Len(Files[release[p]]) \in Nat
          /\ tx.at \in Nat /\ tx.at >= 1
      BY <2>1, ReleaseFiles
    <3>2. tx.at \in 1..Len(Files[release[p]])
      BY <2>1, <3>1
    <3> QED
      BY <3>1, <3>2 DEF Here
  <2>5. tx' \in TxType /\ tx'.at >= 1
    <3>1. tx \in TxType /\ tx.at >= 1
      BY <2>1 DEF TxType
    <3>2. CASE Skip(p)
      BY <2>4, <3>1, <3>2 DEF Skip, TxType
    <3>3. CASE Execute(p)
      <4>1. tx.done \in Nat /\ tx.done + 1 \in Nat /\ Statements[Here(p)] \in Nat
        BY <2>4, <3>1, StoreAssumption DEF TxType
      <4>2. tx.done + 1 \in 1..Statements[Here(p)]
        BY <3>3, <4>1 DEF Execute
      <4>3. <<Here(p), tx.done + 1>> \in StatementsOf(File)
        BY <2>4, <4>2 DEF StatementsOf
      <4> QED
        BY <3>1, <3>3, <4>1, <4>3 DEF Execute, TxType
    <3>4. CASE Record(p)
      BY <2>4, <3>1, <3>4 DEF Record, Tx, TxType
    <3> QED
      BY <1>9, <3>2, <3>3, <3>4
  <2> QED
    BY <2>2, <2>5 DEF TxType
<1>10. ASSUME NEW p \in Process, Commit(p)
       PROVE  TypeInv'
  <2>1. NoTx \in TxType
    BY DEF NoTx, Tx, TxType
  <2>2. \A q \in Process : ~Within(q)' /\ writer' # q
    BY <1>10, StoreAssumption DEF Commit, Goto
  <2>3. Running'
    BY <1>10, <2>2 DEF Commit, Goto
  <2>4. ledger' \subseteq File /\ schema' \subseteq StatementsOf(File)
    BY <1>10 DEF Commit
  <2> QED
    BY <1>10, <2>1, <2>2, <2>3, <2>4 DEF Commit, Goto, TxType, Idle
<1>11. ASSUME NEW p \in Process, Break(p) \/ Die(p) \/ Leave(p)
       PROVE  TypeInv'
  <2>1. phase[p] # "down" /\ faults' \in Nat
    BY <1>11 DEF Break, Die, Leave, Fault, Idle
  <2>2. Unwind(p, "down") \/ Unwind(p, "failed")
    BY <1>11 DEF Break, Die, Leave
  <2> QED
    BY <2>1, <2>2, UnwindType
<1>12. CASE Tick
  <2>1. left' \in [Process -> Nat]
    BY <1>12 DEF Tick
  <2>2. lapse' = FALSE /\ UNCHANGED <<fileVars, phase, release, starts, faults>>
    BY <1>12 DEF Tick
  <2> QED
    BY <2>1, <2>2 DEF fileVars
<1> QED
  BY <1>1, <1>2, <1>3, <1>4, <1>5, <1>6, <1>7, <1>8, <1>9, <1>10, <1>11, <1>12
  DEF Next, Step
\* A database file and the processes starting on it have their types, and only the process
\* inside the migration transaction holds the reservation: connection(), transaction().
THEOREM StoreTypes == Spec => []StoreTypeOK
<1>1. TypeInv => StoreTypeOK
  BY DEF TypeInv
<1> QED
  BY <1>1, TypeInit, TypeNext, PTL DEF Spec

-----------------------------------------------------------------------------
(* The committed file is whole, and the open transaction is under way. *)

WorkInv ==
  /\ schema = StatementsOf(ledger)
  /\ Keyed(ledger)
  /\ \A p \in Process : writer = p => Underway(Files[release[p]], ledger, tx)
  /\ StartedIsMigrated

LEMMA WorkInit == Init => WorkInv
BY StoreAssumption DEF Init, WorkInv, StatementsOf, Keyed, StartedIsMigrated

\* A step that commits nothing and at most gives up a transaction.
LEMMA QuietWork ==
  ASSUME WorkInv, UNCHANGED <<ledger, schema>>,
         \A q \in Process : writer' = q =>
           writer = q /\ tx' = tx /\ release'[q] = release[q],
         \A q \in Process : phase'[q] = "ready" =>
           phase[q] = "ready" /\ release'[q] = release[q]
  PROVE  WorkInv'
BY DEF WorkInv, StartedIsMigrated

LEMMA UnwindWork ==
  ASSUME TypeInv, WorkInv, NEW p \in Process, NEW to \in {"down", "failed"}, Unwind(p, to)
  PROVE  WorkInv'
<1>1. \A q \in Process : q # p => release'[q] = release[q] /\ phase'[q] = phase[q]
  BY DEF TypeInv, StoreTypeOK, Unwind, Settle, Goto
<1>2. phase'[p] = to /\ writer' # p
  BY StoreAssumption DEF TypeInv, StoreTypeOK, Unwind, Settle, Goto
<1>3. \A q \in Process : writer' = q => writer = q /\ tx' = tx
  BY StoreAssumption DEF Unwind
<1> QED
  BY <1>1, <1>2, <1>3, QuietWork DEF Unwind

\* A commit makes the record and the schema those of the release, and loses nothing.
LEMMA CommitMigrates ==
  ASSUME TypeInv, WorkInv, NEW p \in Process, Commit(p)
  PROVE  /\ release[p] \in Release /\ ledger \subseteq FilesOf(release[p])
         /\ ledger' = FilesOf(release[p]) /\ schema' = StatementsOf(FilesOf(release[p]))
<1>1. /\ release[p] \in Release /\ writer = p /\ ledger \in SUBSET File
      /\ tx \in TxType
  BY DEF TypeInv, StoreTypeOK, Running, Commit, Within, TxType
<1>2. Files[release[p]] \in Seq(File)
  BY <1>1, ReleaseFiles
<1>3. /\ Underway(Files[release[p]], ledger, tx) /\ Keyed(ledger)
      /\ tx.at > Len(Files[release[p]])
  <2>1. tx.at \in Nat /\ Len(Files[release[p]]) \in Nat
    BY <1>1, ReleaseFiles DEF TxType
  <2> QED
    BY <1>1, <2>1 DEF WorkInv, Commit
<1>4. Versions(ledger) \subseteq Versions(FilesOf(release[p]))
  BY DEF Commit, Known
<1>5. FilesOf(release[p]) = {Files[release[p]][k] : k \in DOMAIN Files[release[p]]}
  BY DEF FilesOf
<1>6. /\ ledger \subseteq FilesOf(release[p]) /\ tx.ledger = FilesOf(release[p])
      /\ tx.schema = StatementsOf(FilesOf(release[p]))
  BY <1>1, <1>2, <1>3, <1>4, <1>5, UnderwayEnd
<1> QED
  BY <1>1, <1>6 DEF Commit

LEMMA WorkNext == TypeInv /\ WorkInv /\ [Next]_vars => WorkInv'
<1> SUFFICES ASSUME TypeInv, WorkInv, [Next]_vars
             PROVE  WorkInv'
  OBVIOUS
<1> USE DEF TypeInv, StoreTypeOK
<1>1. CASE UNCHANGED vars
  BY <1>1, QuietWork DEF vars, fileVars, processVars
<1>2. ASSUME NEW p \in Process, NEW rel \in Release, Start(p, rel)
      PROVE  WorkInv'
  <2>1. writer # p
    BY <1>2 DEF Start, Within
  <2> QED
    BY <1>2, <2>1, QuietWork DEF Start, Goto, fileVars
<1>3. ASSUME NEW p \in Process, Negotiate(p) \/ Contend(p) \/ Peek(p) \/ Exhaust(p)
      PROVE  WorkInv'
  BY <1>3, QuietWork DEF Negotiate, Contend, Peek, Exhaust, Wait, Goto, fileVars
<1>4. ASSUME NEW p \in Process, Reserve(p)
      PROVE  WorkInv'
  <2>1. /\ release[p] \in Release /\ ledger \in SUBSET File
    BY <1>4 DEF Reserve, Running
  <2>2. Files[release[p]] \in Seq(File)
    BY <2>1, ReleaseFiles
  <2>3. /\ UNCHANGED <<ledger, schema, release>> /\ writer' = p
        /\ tx' = Tx(1, 0, ledger, StatementsOf(ledger))
    BY <1>4 DEF Reserve, WorkInv
  <2>4. Underway(Files[release'[p]], ledger', tx')
    BY <2>1, <2>2, <2>3, UnderwayBegin
  <2>5. StartedIsMigrated'
    BY <1>4, <2>3 DEF Reserve, Goto, WorkInv, StartedIsMigrated
  <2> QED
    BY <2>3, <2>4, <2>5 DEF WorkInv
<1>5. ASSUME NEW p \in Process, Skip(p) \/ Execute(p) \/ Record(p)
      PROVE  WorkInv'
  <2> DEFINE F == Files[release[p]]
  <2>1. /\ release[p] \in Release /\ writer = p /\ ledger \in SUBSET File
        /\ tx \in TxType /\ tx.at <= Len(F) /\ Here(p) = F[tx.at]
    BY <1>5 DEF Skip, Execute, Record, More, Within, Running, TxType, Here
  <2>2. F \in Seq(File) /\ Underway(F, ledger, tx)
    BY <2>1, ReleaseFiles DEF WorkInv
  <2>3. UNCHANGED <<ledger, schema, writer, release, phase>>
    BY <1>5 DEF Skip, Execute, Record, processVars
  <2> HIDE DEF F
  <2>4. Underway(F, ledger, tx')
    <3>1. CASE Skip(p)
      BY <2>1, <2>2, <3>1, UnderwaySkip DEF Skip
    <3>2. CASE Execute(p)
      BY <2>1, <2>2, <3>2, UnderwayExecute DEF Execute, Applied
    <3>3. CASE Record(p)
      BY <2>1, <2>2, <3>3, UnderwayRecord DEF Record, Applied
    <3> QED
      BY <1>5, <3>1, <3>2, <3>3
  <2>5. \A q \in Process : writer' = q => Underway(Files[release'[q]], ledger', tx')
    BY <2>1, <2>3, <2>4 DEF F
  <2> QED
    BY <2>3, <2>5 DEF WorkInv, StartedIsMigrated
<1>6. ASSUME NEW p \in Process, Commit(p)
      PROVE  WorkInv'
  <2>1. /\ release[p] \in Release /\ ledger \subseteq FilesOf(release[p])
        /\ ledger' = FilesOf(release[p]) /\ schema' = StatementsOf(FilesOf(release[p]))
    BY <1>6, CommitMigrates
  <2>2. Keyed(ledger')
    BY <2>1, ReleaseFiles
  <2>3. \A q \in Process : writer' # q
    BY <1>6, StoreAssumption DEF Commit
  <2>4. StartedIsMigrated'
    BY <1>6, <2>1 DEF Commit, Goto, WorkInv, StartedIsMigrated
  <2> QED
    BY <2>1, <2>2, <2>3, <2>4 DEF WorkInv
<1>7. ASSUME NEW p \in Process, Refuse(p) \/ Break(p) \/ Die(p) \/ Leave(p)
      PROVE  WorkInv'
  <2>1. Unwind(p, "down") \/ Unwind(p, "failed")
    BY <1>7 DEF Refuse, Break, Die, Leave
  <2> QED
    BY <2>1, UnwindWork
<1>8. CASE Tick
  BY <1>8, QuietWork DEF Tick, fileVars
<1> QED
  BY <1>1, <1>2, <1>3, <1>4, <1>5, <1>6, <1>7, <1>8 DEF Next, Step

\* Whatever releases start on a file, wait, fail and die there, a process that came up has
\* every migration of its release under it with the text it carries: migrate().
THEOREM StartedMigrated == Spec => []StartedIsMigrated
<1>1. WorkInv => StartedIsMigrated
  BY DEF WorkInv
<1> QED
  BY <1>1, TypeInit, TypeNext, WorkInit, WorkNext, PTL DEF Spec
-----------------------------------------------------------------------------
(* Starts implement the promise of migrate(). *)

LEMMA PromiseInit == Init => Promise!Init
BY DEF Init, Promise!Init

LEMMA PromiseStep ==
  TypeInv /\ WorkInv /\ [Next]_vars => [Promise!Next]_(Promise!promiseVars)
<1> SUFFICES ASSUME TypeInv, WorkInv, [Next]_vars
             PROVE  [Promise!Next]_(Promise!promiseVars)
  OBVIOUS
<1>1. ASSUME NEW p \in Process, Commit(p)
      PROVE  Promise!Next
  <2>1. /\ release[p] \in Release /\ ledger \subseteq FilesOf(release[p])
        /\ ledger' = FilesOf(release[p]) /\ schema' = StatementsOf(FilesOf(release[p]))
    BY <1>1, CommitMigrates
  <2>2. Promise!Migrate(release[p])
    BY <2>1 DEF Promise!Migrate, Promise!FilesOf, Promise!StatementsOf, FilesOf, StatementsOf
  <2> QED
    BY <2>1, <2>2 DEF Promise!Next
<1>2. ASSUME NEW p \in Process, Refuse(p) \/ Break(p) \/ Die(p) \/ Leave(p)
      PROVE  UNCHANGED <<ledger, schema>>
  BY <1>2 DEF Refuse, Break, Die, Leave, Unwind
<1>3. ASSUME NEW p \in Process, Negotiate(p) \/ Contend(p) \/ Peek(p) \/ Reserve(p) \/ Exhaust(p)
      PROVE  UNCHANGED <<ledger, schema>>
  BY <1>3 DEF Negotiate, Contend, Peek, Wait, Reserve, Exhaust, fileVars
<1>4. ASSUME NEW p \in Process, Skip(p) \/ Execute(p) \/ Record(p)
      PROVE  UNCHANGED <<ledger, schema>>
  BY <1>4 DEF Skip, Execute, Record
<1>5. ASSUME NEW p \in Process, NEW rel \in Release, Start(p, rel)
      PROVE  UNCHANGED <<ledger, schema>>
  BY <1>5 DEF Start, fileVars
<1>6. ASSUME Tick \/ UNCHANGED vars
      PROVE  UNCHANGED <<ledger, schema>>
  BY <1>6 DEF Tick, vars, fileVars
<1>7. Promise!Next \/ UNCHANGED <<ledger, schema>>
  BY <1>1, <1>2, <1>3, <1>4, <1>5, <1>6 DEF Next, Step
<1> QED
  BY <1>7 DEF Promise!promiseVars

\* Whoever reads the file sees migrations of whole releases, each statement together with its
\* record, never taken back, at any crash, failure or race of starts: the single transaction
\* of migrate().
THEOREM MigratesWhole == Spec => PromiseKept
BY TypeInit, TypeNext, WorkInit, WorkNext, PromiseInit, PromiseStep, PTL
DEF Spec, PromiseKept, Promise!Spec
-----------------------------------------------------------------------------
(* Nobody waits in vain.  While a process waits, time passes at most once for each reservation *)
(* another one takes and once for each statement it executes; no statement is executed twice.  *)

\* Migrations are numbered upwards: a release that adds some adds them after all those that
\* another release has already.
Appended ==
  \A rel, other \in Release : \A i, k \in DOMAIN Files[rel] :
    i < k /\ Files[rel][i].version \notin Versions(FilesOf(other)) =>
      Files[rel][k].version \notin Versions(FilesOf(other))

\* The startup budget outlasts all the statements of any release and the starts there are.
Ample ==
  \A rel \in Release : Cardinality(StatementsOf(FilesOf(rel))) + MaxStarts <= Startup

\* Those that may still take the reservation.
Early == {p \in Process : phase[p] \in {"connecting", "connected", "waiting"}}

\* The statements that are executed, committed or not.
Worked == IF writer = None THEN schema ELSE tx.schema

\* How much of what a waiter can be made to wait for has been taken up: a start that no longer
\* is early has had its reservation, a statement its execution, and the last of them may have
\* its time still to pass.
Due == IF writer # None /\ lapse THEN 1 ELSE 0
Held == starts - Cardinality(Early) + Cardinality(Worked) - Due

Counted ==
  /\ IsFiniteSet(Early) /\ starts <= MaxStarts
  /\ Cardinality(Early) + (IF writer = None THEN 0 ELSE 1) <= starts

Whole == ledger = {} \/ \E rel \in Release : ledger = FilesOf(rel)

OfOneRelease(S) == S = {} \/ \E rel \in Release : S \subseteq StatementsOf(FilesOf(rel))

\* A transaction of a release that does not know the whole record has executed nothing.
Carried ==
  /\ OfOneRelease(Worked)
  /\ \A p \in Process : writer = p /\ ~Known(p) => tx.schema = schema

Patient ==
  faults = 0 =>
    \A p \in Process :
      /\ phase[p] = "waiting" /\ Pending(p) => Startup - left[p] <= Held
      /\ phase[p] = "exhausted" => ~Pending(p)

PatienceInv == Counted /\ Whole /\ Carried /\ Patient

LEMMA StatementsFinite ==
  ASSUME NEW rel \in Release
  PROVE  IsFiniteSet(StatementsOf(FilesOf(rel)))
<1> DEFINE of(f) == {<<f, k>> : k \in 1..Statements[f]}
           parts == {of(f) : f \in FilesOf(rel)}
           g == [i \in DOMAIN Files[rel] |-> of(Files[rel][i])]
<1>1. ASSUME NEW f \in File
      PROVE  IsFiniteSet(of(f))
  <2> DEFINE n == Statements[f]
             h == [k \in 1..n |-> <<f, k>>]
  <2>1. n \in Nat /\ IsFiniteSet(1..n)
    BY StoreAssumption, FS_Interval
  <2>2. h \in Surjection(1..n, of(f))
    BY DEF Surjection
  <2> QED
    BY <2>1, <2>2, FS_Surjection
<1>2. IsFiniteSet(DOMAIN Files[rel])
  BY ReleaseFiles, FS_Interval
<1>3. g \in Surjection(DOMAIN Files[rel], parts)
  <2> HIDE DEF of
  <2>1. \A S \in parts : \E i \in DOMAIN Files[rel] : S = g[i]
    BY DEF FilesOf
  <2>2. g \in [DOMAIN Files[rel] -> parts]
    BY DEF FilesOf
  <2> HIDE DEF g, parts
  <2> QED
    BY <2>1, <2>2 DEF Surjection
<1>4. IsFiniteSet(parts)
  BY <1>2, <1>3, FS_Surjection
<1>5. \A S \in parts : IsFiniteSet(S)
  BY <1>1, ReleaseFiles
<1>6. IsFiniteSet(UNION parts)
  BY <1>4, <1>5, FS_UNION
<1> QED
  BY <1>6 DEF StatementsOf

LEMMA WorkedFinite ==
  ASSUME NEW S, OfOneRelease(S)
  PROVE  /\ IsFiniteSet(S) /\ Cardinality(S) \in Nat
         /\ Ample => \A rel \in Release : Cardinality(S) + MaxStarts <= Startup
<1>1. CASE S = {}
  <2>1. \A rel \in Release : Cardinality(StatementsOf(FilesOf(rel))) \in Nat
    BY StatementsFinite, FS_CardinalityType
  <2>2. IsFiniteSet(S) /\ Cardinality(S) = 0
    BY <1>1, FS_EmptySet, Zenon
  <2> QED
    BY <2>1, <2>2, StoreAssumption DEF Ample
<1>2. ASSUME NEW rel \in Release, S \subseteq StatementsOf(FilesOf(rel))
      PROVE  /\ IsFiniteSet(S)
             /\ Ample => Cardinality(S) + MaxStarts <= Startup
  <2>1. IsFiniteSet(StatementsOf(FilesOf(rel)))
    BY StatementsFinite
  <2>2. IsFiniteSet(S) /\ Cardinality(S) <= Cardinality(StatementsOf(FilesOf(rel)))
    BY <1>2, <2>1, FS_Subset
  <2>3. Cardinality(S) \in Nat /\ Cardinality(StatementsOf(FilesOf(rel))) \in Nat
    BY <2>1, <2>2, FS_CardinalityType
  <2> QED
    BY <2>2, <2>3, StoreAssumption DEF Ample
<1>3. CASE S # {}
  <2>1. PICK rel \in Release : S \subseteq StatementsOf(FilesOf(rel))
    BY <1>3 DEF OfOneRelease
  <2>2. IsFiniteSet(S) /\ (Ample => Cardinality(S) + MaxStarts <= Startup)
    BY <1>2, <2>1
  <2> QED
    BY <2>2, FS_CardinalityType
<1> QED
  BY <1>1, <1>3

\* At a statement, what is recorded is all of the release that executes it.
LEMMA ExecutesOwn ==
  ASSUME TypeInv, WorkInv, Appended, Whole,
         NEW p \in Process, More(p), ~Applied(p)
  PROVE  ledger \subseteq FilesOf(release[p])
<1> DEFINE F == Files[release[p]]
<1>1. /\ release[p] \in Release /\ writer = p /\ tx.at \in 1..Len(F)
  <2>1. /\ release[p] \in Release /\ writer = p
    BY DEF TypeInv, StoreTypeOK, Running, More, Within
  <2>2. tx.at \in Nat /\ Len(F) \in Nat /\ tx.at >= 1
    BY <2>1, ReleaseFiles DEF TypeInv, StoreTypeOK, Running
  <2> QED
    BY <2>1, <2>2 DEF More
<1>2. Underway(F, ledger, tx) /\ Keyed(ledger) /\ DOMAIN F = 1..Len(F) /\ Len(F) \in Nat
  BY <1>1, ReleaseFiles DEF WorkInv
<1>3. F[tx.at].version \notin Versions(ledger)
  BY DEF Applied, Here
<1>4. ASSUME NEW g \in ledger
      PROVE  g \in FilesOf(release[p])
  <2>1. g.version \in Versions(ledger)
    BY DEF Versions
  <2>2. PICK k \in DOMAIN F : F[k].version = g.version
    BY <2>1 DEF More, Known, Versions, FilesOf
  <2>3. PICK other \in Release : ledger = FilesOf(other)
    BY <1>4 DEF Whole
  <2>4. ~ (tx.at < k)
    BY <1>1, <1>2, <1>3, <2>1, <2>2, <2>3 DEF Appended
  <2>5. k # tx.at
    BY <1>3, <2>1, <2>2
  <2>6. k \in 1..(tx.at - 1)
    BY <1>1, <1>2, <2>4, <2>5
  <2>7. F[k] \in ledger
    BY <1>2, <2>1, <2>2, <2>6 DEF Underway
  <2>8. F[k] = g
    BY <1>2, <2>2, <2>7 DEF Keyed
  <2> QED
    BY <2>8 DEF FilesOf
<1> QED
  BY <1>4

\* What a statement does was not done before, and is of the release.
LEMMA ExecutesOnce ==
  ASSUME TypeInv, WorkInv, Appended, Whole, NEW p \in Process, Execute(p)
  PROVE  /\ <<Here(p), tx.done + 1>> \notin tx.schema
         /\ tx'.schema \subseteq StatementsOf(FilesOf(release[p]))
<1> DEFINE F == Files[release[p]]
           s == <<Here(p), tx.done + 1>>
<1>1. /\ release[p] \in Release /\ writer = p /\ tx \in TxType /\ tx.at \in 1..Len(F)
  <2>1. /\ release[p] \in Release /\ writer = p /\ tx \in TxType
    BY DEF TypeInv, StoreTypeOK, Running, Execute, More, Within, TxType
  <2>2. tx.at \in Nat /\ Len(F) \in Nat /\ tx.at >= 1
    BY <2>1, ReleaseFiles DEF TypeInv, StoreTypeOK, Running
  <2> QED
    BY <2>1, <2>2 DEF More, Execute
<1>2. Underway(F, ledger, tx) /\ DOMAIN F = 1..Len(F) /\ Len(F) \in Nat
  BY <1>1, ReleaseFiles DEF WorkInv
<1>3. ledger \subseteq FilesOf(release[p])
  BY ExecutesOwn DEF Execute
<1>4. Here(p) = F[tx.at] /\ Here(p) \in FilesOf(release[p]) /\ Here(p) \in File
  BY <1>1, <1>2, ReleaseFiles DEF Here, FilesOf
<1>5. tx.ledger \subseteq FilesOf(release[p])
  <2>1. \A k \in 1..(tx.at - 1) : F[k] \in FilesOf(release[p])
    BY <1>1, <1>2 DEF FilesOf
  <2> QED
    BY <1>2, <1>3, <2>1 DEF Underway
<1>6. Here(p) \notin tx.ledger
  <2>1. Here(p) \notin ledger
    BY DEF Execute, Applied, Versions
  <2>2. ASSUME NEW k \in 1..(tx.at - 1), F[k] = Here(p)
        PROVE  FALSE
    <3>1. k \in DOMAIN F /\ tx.at \in DOMAIN F /\ k # tx.at
      BY <1>1, <1>2
    <3> QED
      BY <1>1, <1>4, <2>2, <3>1, StoreAssumption
  <2> QED
    BY <1>2, <2>1, <2>2 DEF Underway
<1>7. tx.done \in Nat /\ tx.done + 1 \in 1..Statements[Here(p)]
  BY <1>1, <1>4, StoreAssumption DEF Execute, TxType
<1> HIDE DEF F
<1>8. s \notin tx.schema
  <2>1. s \notin StatementsOf(tx.ledger)
    BY <1>6 DEF StatementsOf
  <2>2. s \notin Partial(F, tx)
    BY <1>7 DEF Partial
  <2> QED
    BY <1>2, <2>1, <2>2 DEF Underway
<1>9. s \in StatementsOf(FilesOf(release[p]))
  BY <1>4, <1>7 DEF StatementsOf
<1>10. StatementsOf(tx.ledger) \subseteq StatementsOf(FilesOf(release[p]))
  BY <1>5 DEF StatementsOf
<1>11. Partial(F, tx) \subseteq StatementsOf(FilesOf(release[p]))
  <2>1. ASSUME NEW k \in 1..tx.done
        PROVE  <<F[tx.at], k>> \in StatementsOf(FilesOf(release[p]))
    <3>1. k \in 1..Statements[Here(p)]
      <4>1. Statements[Here(p)] \in Nat /\ tx.done <= Statements[Here(p)]
        BY <1>4, <1>7, StoreAssumption
      <4> QED
        BY <1>7, <4>1
    <3> QED
      BY <1>4, <3>1 DEF StatementsOf
  <2> QED
    BY <2>1 DEF Partial
<1>12. tx'.schema = tx.schema \cup {s}
  BY <1>1 DEF Execute, TxType
<1> QED
  BY <1>2, <1>8, <1>9, <1>10, <1>11, <1>12 DEF Underway

\* A transaction that is refused has executed nothing.
LEMMA RefusesUntouched ==
  ASSUME TypeInv, WorkInv, Appended, Whole, Carried, NEW p \in Process, Refuse(p)
  PROVE  writer = p /\ tx.schema = schema
<1> DEFINE F == Files[release[p]]
<1>1. /\ release[p] \in Release /\ writer = p /\ tx \in TxType
  BY DEF TypeInv, StoreTypeOK, Running, Refuse, More, Within, TxType
<1>2. CASE ~Known(p)
  BY <1>1, <1>2 DEF Carried
<1>3. CASE More(p) /\ Applied(p) /\ Here(p) \notin ledger
  <2>1. tx.at \in 1..Len(F) /\ DOMAIN F = 1..Len(F) /\ Len(F) \in Nat
    <3>1. tx.at \in Nat /\ Len(F) \in Nat /\ tx.at >= 1
      BY <1>1, ReleaseFiles DEF TypeInv, StoreTypeOK, Running
    <3> QED
      BY <1>1, <1>3, <3>1, ReleaseFiles DEF More
  <2>2. Underway(F, ledger, tx) /\ F[tx.at].version \in Versions(ledger)
    BY <1>1, <1>3 DEF WorkInv, Applied, Here
  <2>3. PICK other \in Release : ledger = FilesOf(other)
    BY <2>2 DEF Whole, Versions
  <2>4. ASSUME NEW k \in 1..(tx.at - 1)
        PROVE  F[k] \in ledger
    <3>1. k \in DOMAIN F /\ tx.at \in DOMAIN F /\ k < tx.at
      BY <2>1
    <3>2. F[k].version \in Versions(ledger)
      BY <1>1, <2>2, <2>3, <3>1 DEF Appended
    <3> QED
      BY <2>2, <3>2 DEF Underway
  <2>5. tx.ledger = ledger
    BY <2>2, <2>4 DEF Underway
  <2>6. tx.done = 0
    BY <1>1, <2>2 DEF Underway, TxType
  <2>7. Partial(F, tx) = {}
    BY <2>6 DEF Partial
  <2> QED
    BY <1>1, <2>2, <2>5, <2>7 DEF Underway, WorkInv
<1> QED
  BY <1>2, <1>3 DEF Refuse

LEMMA PatienceInit == Init => PatienceInv
<1> SUFFICES ASSUME Init
             PROVE  PatienceInv
  OBVIOUS
<1>1. Early = {}
  BY DEF Init, Early
<1>2. IsFiniteSet(Early) /\ Cardinality(Early) = 0
  BY <1>1, FS_EmptySet, Zenon
<1>3. Counted
  BY <1>2, StoreAssumption DEF Init, Counted
<1>4. Whole /\ Carried
  BY StoreAssumption DEF Init, Whole, Carried, Worked, OfOneRelease
<1>5. Patient
  <2>1. \A p \in Process : phase[p] # "waiting" /\ phase[p] # "exhausted"
    BY Zenon DEF Init
  <2> QED
    BY <2>1, Zenon DEF Patient
<1> QED
  BY <1>3, <1>4, <1>5 DEF PatienceInv

\* The record only grows, so what a process need not wait for stays so.
LEMMA RecordGrows ==
  ASSUME TypeInv, WorkInv, [Next]_vars
  PROVE  ledger \subseteq ledger'
<1>1. ASSUME NEW p \in Process, Commit(p)
      PROVE  ledger \subseteq ledger'
  BY <1>1, CommitMigrates
<1>2. ASSUME NEW p \in Process, Refuse(p) \/ Break(p) \/ Die(p) \/ Leave(p)
      PROVE  ledger' = ledger
  BY <1>2 DEF Refuse, Break, Die, Leave, Unwind
<1>3. ASSUME NEW p \in Process, Negotiate(p) \/ Contend(p) \/ Peek(p) \/ Reserve(p) \/ Exhaust(p)
      PROVE  ledger' = ledger
  BY <1>3 DEF Negotiate, Contend, Peek, Wait, Reserve, Exhaust, fileVars
<1>4. ASSUME NEW p \in Process, Skip(p) \/ Execute(p) \/ Record(p)
      PROVE  ledger' = ledger
  BY <1>4 DEF Skip, Execute, Record
<1>5. ASSUME NEW p \in Process, NEW rel \in Release, Start(p, rel)
      PROVE  ledger' = ledger
  BY <1>5 DEF Start, fileVars
<1>6. ASSUME Tick \/ UNCHANGED vars
      PROVE  ledger' = ledger
  BY <1>6 DEF Tick, vars, fileVars
<1> QED
  BY <1>1, <1>2, <1>3, <1>4, <1>5, <1>6 DEF Next, Step

LEMMA SchemaOfOne ==
  ASSUME WorkInv, Whole
  PROVE  OfOneRelease(schema)
<1>1. CASE ledger = {}
  BY <1>1 DEF WorkInv, StatementsOf, OfOneRelease
<1>2. CASE ledger # {}
  BY <1>2 DEF WorkInv, Whole, OfOneRelease
<1> QED
  BY <1>1, <1>2

\* A step takes nobody new to wait or to give up, and takes up something or nothing.
LEMMA StillPatient ==
  ASSUME Patient, ledger \subseteq ledger', faults' = 0 => faults = 0 /\ Held' >= Held,
         Held \in Int, Held' \in Int, left \in [Process -> Nat],
         \A q \in Process :
           /\ phase'[q] = "waiting" =>
                phase[q] = "waiting" /\ release'[q] = release[q] /\ left'[q] = left[q]
           /\ phase'[q] = "exhausted" => phase[q] = "exhausted" /\ release'[q] = release[q]
  PROVE  Patient'
<1> SUFFICES ASSUME faults' = 0, NEW q \in Process
             PROVE  /\ phase'[q] = "waiting" /\ Pending(q)' => Startup - left'[q] <= Held'
                    /\ phase'[q] = "exhausted" => ~Pending(q)'
  BY DEF Patient
<1>1. release'[q] = release[q] /\ Pending(q)' => Pending(q)
  BY DEF Pending, Versions
<1>2. CASE phase'[q] = "waiting"
  <2>1. phase[q] = "waiting" /\ left'[q] = left[q] /\ left[q] \in Nat
    BY <1>2
  <2>2. Pending(q)' => Startup - left[q] <= Held
    BY <1>1, <1>2, <2>1 DEF Patient
  <2> QED
    BY <1>2, <2>1, <2>2, StoreAssumption
<1>3. CASE phase'[q] = "exhausted"
  BY <1>1, <1>3 DEF Patient
<1> QED
  BY <1>2, <1>3

LEMMA EarlyFinite ==
  ASSUME Counted, Carried, TypeInv
  PROVE  Cardinality(Early) \in Nat /\ Held \in Int /\ Due \in {0, 1}
<1>1. Cardinality(Early) \in Nat
  BY FS_CardinalityType DEF Counted
<1>2. Cardinality(Worked) \in Nat /\ starts \in Nat /\ Due \in {0, 1}
  BY WorkedFinite DEF Carried, TypeInv, StoreTypeOK, Due
<1> QED
  BY <1>1, <1>2 DEF Held

\* p stops or is refused: what it had not committed had not been executed, or it failed.
LEMMA UnwindPatience ==
  ASSUME TypeInv, WorkInv, PatienceInv, [Next]_vars,
         NEW p \in Process, NEW to \in {"down", "failed"}, Unwind(p, to),
         faults' = 0 => faults = 0 /\ (writer = p => tx.schema = schema)
  PROVE  PatienceInv'
<1> USE DEF PatienceInv
<1>1. /\ phase' = [phase EXCEPT ![p] = to] /\ UNCHANGED <<ledger, schema, lapse, starts>>
      /\ \A q \in Process : q # p => release'[q] = release[q] /\ left'[q] = left[q]
      /\ phase \in [Process -> Idle \cup {"connecting", "connected", "waiting", "migrating"}]
      /\ left \in [Process -> Nat]
  BY DEF TypeInv, StoreTypeOK, Unwind, Settle, Goto
<1>2. Early' = Early \ {p}
  BY <1>1 DEF Early
<1>3. /\ IsFiniteSet(Early') /\ Cardinality(Early') \in Nat
      /\ Cardinality(Early') <= Cardinality(Early)
  <2>1. IsFiniteSet(Early) /\ Cardinality(Early) \in Nat
    BY EarlyFinite DEF Counted
  <2>2. /\ IsFiniteSet(Early \ {p})
        /\ Cardinality(Early \ {p}) =
             IF p \in Early THEN Cardinality(Early) - 1 ELSE Cardinality(Early)
    BY <2>1, FS_RemoveElement
  <2>3. Cardinality(Early \ {p}) \in Nat
    BY <2>2, FS_CardinalityType
  <2> QED
    BY <1>2, <2>1, <2>2, <2>3
<1>4. (writer # p /\ writer' = writer /\ tx' = tx) \/ (writer = p /\ writer' = None)
  BY DEF Unwind
<1>5. Counted'
  <2>1. starts \in Nat /\ MaxStarts \in Nat /\ starts' = starts
    BY <1>1, StoreAssumption DEF TypeInv, StoreTypeOK
  <2>2. Cardinality(Early) \in Nat
    BY EarlyFinite
  <2>3. Cardinality(Early') + (IF writer' = None THEN 0 ELSE 1) <= starts
    BY <1>3, <1>4, <2>1, <2>2, StoreAssumption DEF Counted
  <2> QED
    BY <1>3, <2>1, <2>3 DEF Counted
<1>6. Whole'
  BY <1>1 DEF Whole
<1>7. OfOneRelease(schema)
  BY SchemaOfOne
<1>8. Worked' = Worked \/ Worked' = schema
  BY <1>1, <1>4 DEF Worked
<1>9. Carried'
  <2>1. \A q \in Process :
          writer' = q => q # p /\ writer = q /\ tx' = tx /\ (Known(q)' <=> Known(q))
    BY <1>1, <1>4, StoreAssumption DEF Known
  <2>2. OfOneRelease(Worked')
    BY <1>7, <1>8 DEF Carried
  <2> QED
    BY <1>1, <2>1, <2>2 DEF Carried
<1>10. Cardinality(Worked') \in Nat /\ Due' \in {0, 1} /\ starts' = starts /\ starts \in Nat
  BY <1>1, <1>9, WorkedFinite DEF Carried, Due, TypeInv, StoreTypeOK
<1>11. Held \in Int /\ Held' \in Int
  BY EarlyFinite, <1>3, <1>10 DEF Held
<1>12. ASSUME faults' = 0
       PROVE  Held' >= Held
  <2>1. Worked' = Worked
    BY <1>1, <1>4, <1>12 DEF Worked
  <2>2. Due' <= Due
    BY <1>1, <1>4 DEF Due
  <2>3. Cardinality(Worked') = Cardinality(Worked)
    BY <2>1
  <2> QED
    BY <1>3, <1>10, <2>2, <2>3, EarlyFinite DEF Held
<1>13. Patient'
  <2>1. ledger \subseteq ledger'
    BY <1>1
  <2>2. \A q \in Process :
          /\ phase'[q] = "waiting" =>
               phase[q] = "waiting" /\ release'[q] = release[q] /\ left'[q] = left[q]
          /\ phase'[q] = "exhausted" => phase[q] = "exhausted" /\ release'[q] = release[q]
    BY <1>1
  <2> QED
    BY <1>1, <1>11, <1>12, <2>1, <2>2, StillPatient
<1> QED
  BY <1>5, <1>6, <1>9, <1>13

\* One start less that may still take the reservation.
LEMMA EarlyLess ==
  ASSUME IsFiniteSet(Early), NEW p, Early' = Early \ {p}
  PROVE  /\ IsFiniteSet(Early')
         /\ Cardinality(Early') = IF p \in Early THEN Cardinality(Early) - 1 ELSE Cardinality(Early)
<1>1. /\ IsFiniteSet(Early \ {p})
      /\ Cardinality(Early \ {p}) =
           IF p \in Early THEN Cardinality(Early) - 1 ELSE Cardinality(Early)
  BY FS_RemoveElement
<1> QED
  BY <1>1

LEMMA PatienceNext ==
  ASSUME TypeInv, WorkInv, PatienceInv, Appended, Ample, [Next]_vars
  PROVE  PatienceInv'
<1> USE DEF PatienceInv
<1>0. /\ ledger \subseteq ledger' /\ Cardinality(Early) \in Nat /\ Held \in Int /\ Due \in {0, 1}
      /\ IsFiniteSet(Worked) /\ Cardinality(Worked) \in Nat /\ starts \in Nat
      /\ left \in [Process -> Nat] /\ faults \in Nat /\ lapse \in BOOLEAN
      /\ phase \in [Process -> Idle \cup {"connecting", "connected", "waiting", "migrating"}]
      /\ release \in [Process -> Release \cup {None}] /\ OfOneRelease(schema)
      /\ writer \in Process \cup {None} /\ \A q \in Process : phase[q] = "migrating" <=> writer = q
  BY RecordGrows, EarlyFinite, WorkedFinite, SchemaOfOne
  DEF Carried, TypeInv, StoreTypeOK, Within
<1>1. CASE UNCHANGED vars
  <2>1. /\ UNCHANGED <<ledger, schema, writer, tx, phase, release, left, lapse, starts, faults>>
    BY <1>1 DEF vars, fileVars, processVars
  <2>2. Early' = Early /\ Worked' = Worked /\ Due' = Due
    BY <2>1 DEF Early, Worked, Due
  <2>3. Held' = Held
    BY <2>1, <2>2 DEF Held
  <2>4. Counted' /\ Whole' /\ Carried'
    BY <2>1, <2>2 DEF Counted, Whole, Carried, Known
  <2>5. Patient'
    BY <1>0, <2>1, <2>3, StillPatient
  <2> QED
    BY <2>4, <2>5
<1>2. ASSUME NEW p \in Process, NEW rel \in Release, Start(p, rel)
      PROVE  PatienceInv'
  <2>1. /\ UNCHANGED <<ledger, schema, writer, tx, lapse, faults>> /\ phase[p] = "down"
        /\ starts' = starts + 1 /\ starts < MaxStarts
        /\ phase' = [phase EXCEPT ![p] = "connecting"]
        /\ \A q \in Process : q # p => release'[q] = release[q] /\ left'[q] = left[q]
    BY <1>0, <1>2 DEF Start, Goto, fileVars
  <2>2. writer # p /\ p \notin Early /\ Early' = Early \cup {p}
    BY <1>0, <2>1 DEF Early
  <2>3. Worked' = Worked /\ Due' = Due
    BY <2>1 DEF Worked, Due
  <2>4. IsFiniteSet(Early') /\ Cardinality(Early') = Cardinality(Early) + 1
    <3>1. IsFiniteSet(Early \cup {p}) /\ Cardinality(Early \cup {p}) = Cardinality(Early) + 1
      BY <2>2, FS_AddElement DEF Counted
    <3> QED
      BY <2>2, <3>1
  <2>5. Held' = Held
    <3>1. Cardinality(Worked') = Cardinality(Worked)
      BY <2>3
    <3> QED
      BY <1>0, <2>1, <2>3, <2>4, <3>1 DEF Held
  <2>6. Counted'
    <3>1. writer' = writer /\ starts' <= MaxStarts
      BY <1>0, <2>1, StoreAssumption
    <3> QED
      BY <1>0, <2>1, <2>4, <3>1 DEF Counted
  <2>7. Whole'
    BY <2>1 DEF Whole
  <2>8. Carried'
    <3>1. \A q \in Process : writer' = q => q # p /\ (Known(q)' <=> Known(q))
      BY <2>1, <2>2 DEF Known
    <3> QED
      BY <2>1, <2>3, <3>1 DEF Carried
  <2>9. Patient'
    BY <1>0, <2>1, <2>5, StillPatient
  <2> QED
    BY <2>6, <2>7, <2>8, <2>9
<1>3. ASSUME NEW p \in Process, Negotiate(p) \/ Contend(p) \/ Exhaust(p)
      PROVE  PatienceInv'
  <2>1. /\ UNCHANGED <<ledger, schema, writer, tx, release, lapse, starts, faults>>
        /\ phase[p] \in {"connecting", "waiting"}
        /\ \E to \in {phase[p], "connected", "failed", "exhausted"} :
             /\ phase' = [phase EXCEPT ![p] = to]
             /\ to = "waiting" => phase[p] = "waiting" /\ left' = left
             /\ to = "exhausted" =>
                  phase[p] = "waiting" /\ left[p] = 0 /\ left' = left /\ writer # None
        /\ \A q \in Process : q # p => left'[q] = left[q]
    <3>1. CASE Negotiate(p)
      BY <1>0, <3>1 DEF Negotiate, Goto
    <3>2. CASE Contend(p)
      BY <1>0, <3>2 DEF Contend, Goto, fileVars
    <3>3. CASE Exhaust(p)
      BY <1>0, <3>3 DEF Exhaust, Goto, fileVars
    <3> QED
      BY <1>3, <3>1, <3>2, <3>3
  <2>2. PICK to \in {phase[p], "connected", "failed", "exhausted"} :
          /\ phase' = [phase EXCEPT ![p] = to]
          /\ to = "waiting" => phase[p] = "waiting" /\ left' = left
          /\ to = "exhausted" =>
               phase[p] = "waiting" /\ left[p] = 0 /\ left' = left /\ writer # None
    BY <2>1
  <2>3. Worked' = Worked /\ Due' = Due
    BY <2>1 DEF Worked, Due
  <2>4. p \in Early /\ (Early' = Early \/ Early' = Early \ {p})
    BY <1>0, <2>1, <2>2 DEF Early
  <2>5. /\ IsFiniteSet(Early') /\ Cardinality(Early') \in Nat
        /\ Cardinality(Early') <= Cardinality(Early)
    BY <1>0, <2>4, EarlyLess, FS_CardinalityType DEF Counted
  <2>6. Held' >= Held /\ Held' \in Int
    <3>1. Cardinality(Worked') = Cardinality(Worked)
      BY <2>3
    <3> QED
      BY <1>0, <2>1, <2>3, <2>5, <3>1 DEF Held
  <2>7. Counted'
    <3>1. writer' = writer /\ starts' = starts
      BY <2>1
    <3> QED
      BY <1>0, <2>5, <3>1 DEF Counted
  <2>8. Whole'
    BY <2>1 DEF Whole
  <2>9. Carried'
    BY <2>1, <2>3 DEF Carried, Known
  <2>10. CASE to # "exhausted"
    <3>1. \A q \in Process :
            /\ phase'[q] = "waiting" => phase[q] = "waiting" /\ left'[q] = left[q]
            /\ phase'[q] = "exhausted" => phase[q] = "exhausted"
      BY <1>0, <2>1, <2>2, <2>10
    <3> QED
      BY <1>0, <2>1, <2>6, <2>7, <2>8, <2>9, <3>1, StillPatient
  <2>11. CASE to = "exhausted"
    <3>1. ASSUME faults = 0
          PROVE  ~Pending(p)
      <4>1. SUFFICES ASSUME Pending(p)
                     PROVE  FALSE
        OBVIOUS
      <4>2. Startup - 0 <= Held
        BY <2>2, <2>11, <3>1, <4>1 DEF Patient
      <4>3. Cardinality(Early) >= 1
        BY <1>0, <2>4, FS_EmptySet DEF Counted
      <4>4. release[p] \in Release
        BY <1>0, <2>1, <2>2, <2>11 DEF TypeInv, Running
      <4>5. Cardinality(Worked) + MaxStarts <= Startup
        BY <4>4, WorkedFinite DEF Carried
      <4> QED
        BY <1>0, <4>2, <4>3, <4>5, StoreAssumption DEF Held, Counted
    <3>2. Patient'
      <4>1. SUFFICES ASSUME faults = 0, NEW q \in Process
                     PROVE  /\ phase'[q] = "waiting" /\ Pending(q)' => Startup - left'[q] <= Held'
                            /\ phase'[q] = "exhausted" => ~Pending(q)'
        BY <2>1 DEF Patient
      <4>2. Pending(q)' <=> Pending(q)
        BY <2>1 DEF Pending
      <4>3. left' = left /\ left[q] \in Nat /\ phase'[q] = IF q = p THEN "exhausted" ELSE phase[q]
        BY <1>0, <2>2, <2>11
      <4>4. CASE q = p
        BY <3>1, <4>1, <4>2, <4>3, <4>4
      <4>5. CASE q # p
        <5>1. phase[q] = "waiting" /\ Pending(q) => Startup - left[q] <= Held
          BY <4>1 DEF Patient
        <5>2. phase[q] = "exhausted" => ~Pending(q)
          BY <4>1 DEF Patient
        <5> QED
          BY <1>0, <2>6, <4>2, <4>3, <4>5, <5>1, <5>2, StoreAssumption
      <4> QED
        BY <4>4, <4>5
    <3> QED
      BY <2>7, <2>8, <2>9, <3>2
  <2> QED
    BY <2>10, <2>11
<1>4. ASSUME NEW p \in Process, Peek(p)
      PROVE  PatienceInv'
  <2>1. /\ UNCHANGED <<ledger, schema, writer, tx, release, lapse, starts, faults>>
        /\ phase[p] = "connected" /\ phase' = [phase EXCEPT ![p] = "waiting"]
        /\ \A q \in Process : q # p => left'[q] = left[q]
        /\ left'[p] = Startup \/ ~Pending(p)
    BY <1>0, <1>4 DEF Peek, Wait, Goto, fileVars
  <2>2. Early' = Early /\ Worked' = Worked /\ Due' = Due
    BY <1>0, <2>1 DEF Early, Worked, Due
  <2>3. Held' = Held
    BY <2>1, <2>2 DEF Held
  <2>4. Counted' /\ Whole' /\ Carried'
    BY <2>1, <2>2 DEF Counted, Whole, Carried, Known
  <2>5. Held >= 0
    BY <1>0 DEF Held, Counted, Due
  <2>6. Patient'
    <3>1. SUFFICES ASSUME faults = 0, NEW q \in Process
                   PROVE  /\ phase'[q] = "waiting" /\ Pending(q)' => Startup - left'[q] <= Held'
                          /\ phase'[q] = "exhausted" => ~Pending(q)'
      BY <2>1 DEF Patient
    <3>2. Pending(q)' <=> Pending(q)
      BY <2>1 DEF Pending
    <3>3. CASE q = p
      <4>1. phase'[q] = "waiting"
        BY <1>0, <2>1, <3>3
      <4>2. left'[p] = Startup => Startup - left'[q] <= Held'
        BY <1>0, <2>3, <2>5, <3>3, StoreAssumption
      <4> QED
        BY <2>1, <3>2, <3>3, <4>1, <4>2
    <3>4. CASE q # p
      <4>1. phase'[q] = phase[q] /\ left'[q] = left[q]
        BY <1>0, <2>1, <3>4
      <4>2. /\ phase[q] = "waiting" /\ Pending(q) => Startup - left[q] <= Held
            /\ phase[q] = "exhausted" => ~Pending(q)
        BY <3>1 DEF Patient
      <4> QED
        BY <2>3, <3>2, <4>1, <4>2
    <3> QED
      BY <3>3, <3>4
  <2> QED
    BY <2>4, <2>6
<1>5. ASSUME NEW p \in Process, Reserve(p)
      PROVE  PatienceInv'
  <2>1. /\ UNCHANGED <<ledger, schema, release, starts, faults>> /\ phase[p] = "waiting"
        /\ writer = None /\ writer' = p /\ tx'.schema = schema /\ lapse' = TRUE
        /\ phase' = [phase EXCEPT ![p] = "migrating"]
        /\ \A q \in Process : q # p => left'[q] = left[q]
    BY <1>0, <1>5 DEF Reserve, Goto, Tx
  <2>2. p # None /\ p \in Early /\ Early' = Early \ {p}
    BY <1>0, <2>1, StoreAssumption DEF Early
  <2>3. Worked' = Worked /\ Due = 0 /\ Due' = 1
    BY <2>1, <2>2 DEF Worked, Due
  <2>4. /\ IsFiniteSet(Early') /\ Cardinality(Early') = Cardinality(Early) - 1
    BY <2>2, EarlyLess DEF Counted
  <2>5. Held' = Held
    <3>1. Cardinality(Worked') = Cardinality(Worked)
      BY <2>3
    <3> QED
      BY <1>0, <2>1, <2>3, <2>4, <3>1 DEF Held
  <2>6. Counted'
    BY <1>0, <2>1, <2>2, <2>4 DEF Counted
  <2>7. Whole'
    BY <2>1 DEF Whole
  <2>8. Carried'
    BY <2>1, <2>3 DEF Carried
  <2>9. Patient'
    BY <1>0, <2>1, <2>5, StillPatient
  <2> QED
    BY <2>6, <2>7, <2>8, <2>9
<1>6. ASSUME NEW p \in Process, Skip(p) \/ Execute(p) \/ Record(p)
      PROVE  PatienceInv'
  <2>1. /\ UNCHANGED <<ledger, schema, writer, phase, release, left, starts, faults>>
        /\ writer = p /\ release[p] \in Release /\ p # None /\ Known(p)
        /\ tx \in TxType
    BY <1>0, <1>6, StoreAssumption
    DEF Skip, Execute, Record, More, processVars, TypeInv, StoreTypeOK, Running, Within, TxType
  <2>2. Early' = Early
    BY <2>1 DEF Early
  <2>3. Counted' /\ Whole'
    BY <2>1, <2>2 DEF Counted, Whole
  <2>4. OfOneRelease(Worked') /\ Held' >= Held /\ Held' \in Int
    <3>1. CASE Skip(p) \/ Record(p)
      <4>1. lapse' = lapse /\ tx'.schema = tx.schema
        BY <2>1, <3>1 DEF Skip, Record, Tx, TxType
      <4>2. Worked' = Worked /\ Due' = Due
        BY <2>1, <4>1 DEF Worked, Due
      <4>3. Held' = Held
        BY <2>1, <2>2, <4>2 DEF Held
      <4> QED
        BY <1>0, <4>2, <4>3 DEF Carried
    <3>2. CASE Execute(p)
      <4> DEFINE s == <<Here(p), tx.done + 1>>
      <4>1. s \notin tx.schema /\ tx'.schema \subseteq StatementsOf(FilesOf(release[p]))
        BY <3>2, ExecutesOnce
      <4>2. tx'.schema = tx.schema \cup {s}
        BY <2>1, <3>2 DEF Execute, TxType
      <4> HIDE DEF s
      <4>3. Worked = tx.schema /\ Worked' = Worked \cup {s} /\ s \notin Worked
        BY <2>1, <4>1, <4>2 DEF Worked
      <4>4. OfOneRelease(Worked')
        BY <2>1, <4>1, <4>2, <4>3 DEF OfOneRelease
      <4>5. Cardinality(Worked') = Cardinality(Worked) + 1
        <5>1. Cardinality(Worked \cup {s}) = Cardinality(Worked) + 1
          BY <1>0, <4>3, FS_AddElement
        <5> QED
          BY <4>3, <5>1
      <4>6. Due' \in {0, 1}
        BY DEF Due
      <4>7. Cardinality(Early') = Cardinality(Early)
        BY <2>2
      <4>8. Held' >= Held /\ Held' \in Int
        BY <1>0, <2>1, <4>5, <4>6, <4>7 DEF Held
      <4> QED
        BY <4>4, <4>8
    <3> QED
      BY <1>6, <3>1, <3>2
  <2>5. Carried'
    BY <2>1, <2>4 DEF Carried, Known
  <2>6. Patient'
    BY <1>0, <2>1, <2>4, StillPatient
  <2> QED
    BY <2>3, <2>5, <2>6
<1>7. ASSUME NEW p \in Process, Commit(p)
      PROVE  PatienceInv'
  <2>1. /\ UNCHANGED <<release, left, starts, faults>> /\ writer = p /\ p # None /\ writer' = None
        /\ schema' = tx.schema /\ phase[p] = "migrating"
        /\ phase' = [phase EXCEPT ![p] = "ready"]
    BY <1>0, <1>7, StoreAssumption DEF Commit, Goto, Within
  <2>2. Early' = Early
    BY <1>0, <2>1 DEF Early
  <2>3. Worked' = Worked /\ Due' = 0
    BY <2>1 DEF Worked, Due
  <2>4. Counted'
    <3>1. Cardinality(Early') = Cardinality(Early)
      BY <2>2
    <3> QED
      BY <1>0, <2>1, <2>2, <3>1 DEF Counted
  <2>5. Whole'
    BY <1>7, CommitMigrates DEF Whole
  <2>6. Carried'
    BY <2>1, <2>3, StoreAssumption DEF Carried
  <2>7. Held' >= Held /\ Held' \in Int
    <3>1. Cardinality(Early') = Cardinality(Early) /\ Cardinality(Worked') = Cardinality(Worked)
      BY <2>2, <2>3
    <3> QED
      BY <1>0, <2>1, <2>3, <3>1 DEF Held
  <2>8. Patient'
    <3>1. \A q \in Process :
            /\ phase'[q] = "waiting" => phase[q] = "waiting"
            /\ phase'[q] = "exhausted" => phase[q] = "exhausted"
      BY <1>0, <2>1
    <3> QED
      BY <1>0, <2>1, <2>7, <3>1, StillPatient
  <2> QED
    BY <2>4, <2>5, <2>6, <2>8
<1>8. ASSUME NEW p \in Process, Refuse(p)
      PROVE  PatienceInv'
  <2>1. Unwind(p, "failed") /\ faults' = faults
    BY <1>8 DEF Refuse
  <2>2. tx.schema = schema
    BY <1>8, RefusesUntouched
  <2> QED
    BY <2>1, <2>2, UnwindPatience
<1>9. ASSUME NEW p \in Process, Break(p) \/ Die(p)
      PROVE  PatienceInv'
  <2>1. Unwind(p, "failed") \/ Unwind(p, "down")
    BY <1>9 DEF Break, Die
  <2>2. faults' # 0
    BY <1>0, <1>9 DEF Break, Die, Fault
  <2> QED
    BY <2>1, <2>2, UnwindPatience
<1>10. ASSUME NEW p \in Process, Leave(p)
      PROVE  PatienceInv'
  <2>1. Unwind(p, "down") /\ faults' = faults /\ phase[p] \in Idle
    BY <1>10 DEF Leave
  <2>2. writer # p
    BY <1>0, <2>1 DEF Idle
  <2> QED
    BY <2>1, <2>2, UnwindPatience
<1>11. CASE Tick
  <2>1. /\ UNCHANGED <<ledger, schema, writer, tx, phase, release, starts, faults>>
        /\ writer # None /\ lapse /\ lapse' = FALSE
        /\ \A q \in Process : left'[q] \in Nat /\ left'[q] >= left[q] - 1
    <3>1. \A q \in Process : left'[q] = IF phase[q] = "waiting" /\ left[q] > 0
                                           THEN left[q] - 1 ELSE left[q]
      BY <1>11 DEF Tick
    <3>2. \A q \in Process : left[q] \in Nat
      BY <1>0
    <3>3. \A q \in Process : left'[q] \in Nat /\ left'[q] >= left[q] - 1
      BY <3>1, <3>2
    <3> QED
      BY <1>11, <3>3 DEF Tick, fileVars
  <2>2. Early' = Early /\ Worked' = Worked /\ Due = 1 /\ Due' = 0
    BY <2>1 DEF Early, Worked, Due
  <2>3. Held' = Held + 1
    <3>1. Cardinality(Early') = Cardinality(Early) /\ Cardinality(Worked') = Cardinality(Worked)
      BY <2>2
    <3> QED
      BY <1>0, <2>1, <2>2, <3>1 DEF Held
  <2>4. Counted' /\ Whole' /\ Carried'
    BY <2>1, <2>2 DEF Counted, Whole, Carried, Known
  <2>5. Patient'
    <3>1. SUFFICES ASSUME faults = 0, NEW q \in Process
                   PROVE  /\ phase[q] = "waiting" /\ Pending(q) => Startup - left'[q] <= Held'
                          /\ phase[q] = "exhausted" => ~Pending(q)
      BY <2>1 DEF Patient, Pending
    <3>2. /\ phase[q] = "waiting" /\ Pending(q) => Startup - left[q] <= Held
          /\ phase[q] = "exhausted" => ~Pending(q)
      BY <3>1 DEF Patient
    <3>3. left[q] \in Nat /\ left'[q] \in Nat /\ left'[q] >= left[q] - 1
      BY <1>0, <2>1
    <3>4. Startup - left[q] <= Held => Startup - left'[q] <= Held'
      BY <1>0, <2>3, <3>3, StoreAssumption
    <3> QED
      BY <3>2, <3>4
  <2> QED
    BY <2>4, <2>5
<1> QED
  BY <1>1, <1>2, <1>3, <1>4, <1>5, <1>6, <1>7, <1>8, <1>9, <1>10, <1>11 DEF Next, Step

\* As long as releases append their migrations and the startup budget outlasts the statements
\* of a release and a unit for each start, nobody gives up on a file that still lacks migrations
\* it carries, however starts of old and new releases crowd each other: migrate(),
\* STARTUP_TIMEOUT.
THEOREM StartsArePatient ==
  ASSUME Appended, Ample
  PROVE  Spec => []PatientStart
<1>1. PatienceInv => PatientStart
  BY DEF PatienceInv, Patient, PatientStart
<1>2. TypeInv /\ WorkInv /\ PatienceInv /\ [Next]_vars => PatienceInv'
  BY PatienceNext
<1> QED
  BY <1>1, <1>2, PatienceInit, TypeInit, TypeNext, WorkInit, WorkNext, PTL DEF Spec
=============================================================================
