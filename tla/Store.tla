------------------------------- MODULE Store --------------------------------
(***************************************************************************)
(* The start of a process on a database file: data/store.py connection(),  *)
(* transaction() and migrate().  Processes of several releases start on one*)
(* file at the same time, wait for each other within their budgets, fail   *)
(* and die.  A migration is its name and digest; SQLite is what its calls  *)
(* do: one write reservation, a transaction that is visible to nobody else *)
(* before COMMIT, and a rollback when its process dies.                    *)
(***************************************************************************)
EXTENDS Integers, Sequences

CONSTANTS
  Process,
  Version,     \* names of migration files
  Digest,      \* digests of their text
  Release,     \* installed packages; a process is of one
  Files,       \* release -> migration_files(), sorted by name
  Statements,  \* migration -> number of its statements
  Startup,     \* STARTUP_TIMEOUT, in units of the longest statement
  Write,       \* WRITE_TIMEOUT
  MaxStarts,   \* bound: starts in the whole behavior
  MaxFaults,   \* bound: statements that fail and processes that die
  None

File == [version : Version, digest : Digest]

ASSUME StoreAssumption ==
  /\ Files \in [Release -> Seq(File)]
  /\ \A rel \in Release : \A i, k \in DOMAIN Files[rel] :
       Files[rel][i].version = Files[rel][k].version => i = k
  /\ Statements \in [File -> Nat]
  /\ Startup \in Nat /\ Write \in Nat /\ MaxStarts \in Nat /\ MaxFaults \in Nat
  /\ None \notin Process \cup Release

FilesOf(rel) == {Files[rel][k] : k \in DOMAIN Files[rel]}

StatementsOf(files) == UNION {{<<f, k>> : k \in 1..Statements[f]} : f \in files}

Versions(files) == {f.version : f \in files}

VARIABLES
  mode,     \* journal mode, in the header of the file
  ledger,   \* schema_migrations, committed
  schema,   \* statements whose effects are committed
  writer,   \* the process that holds the write reservation
  tx,       \* its transaction: what it sees, and how far it is
  phase,    \* process -> where it is
  release,  \* process -> what it runs, or None
  left,     \* process -> what is left of the timeout it waits under
  lapse,    \* time may pass before the transaction goes on
  starts, faults

fileVars == <<mode, ledger, schema, writer, tx>>
processVars == <<phase, release, left>>
vars == <<fileVars, processVars, lapse, starts, faults>>

Idle == {"down", "ready", "failed", "exhausted"}

Tx(at, done, files, statements) ==
  [at |-> at, done |-> done, ledger |-> files, schema |-> statements]

NoTx == Tx(0, 0, {}, {})

Goto(p, to) == phase' = [phase EXCEPT ![p] = to]

-----------------------------------------------------------------------------
(* connection(): journal mode. *)

Start(p, rel) ==
  /\ phase[p] = "down" /\ starts < MaxStarts
  /\ Goto(p, "connecting")
  /\ release' = [release EXCEPT ![p] = rel]
  /\ left' = [left EXCEPT ![p] = Startup]
  /\ starts' = starts + 1
  /\ UNCHANGED <<fileVars, lapse, faults>>

\* The mode is set, or was already; either way it reads back as "wal".
Negotiate(p) ==
  /\ phase[p] = "connecting"
  /\ mode' = "wal"
  /\ Goto(p, "connected")
  /\ left' = [left EXCEPT ![p] = 0]
  /\ UNCHANGED <<ledger, schema, writer, tx, release, lapse, starts, faults>>

\* Another initializer had the file: tried again until the deadline, and once past it.
Contend(p) ==
  /\ phase[p] = "connecting"
  /\ IF left[p] > 0 THEN UNCHANGED phase ELSE Goto(p, "failed")
  /\ left' = [left EXCEPT ![p] = 0]
  /\ UNCHANGED <<fileVars, release, lapse, starts, faults>>

-----------------------------------------------------------------------------
(* migrate() up to its reservation. *)

Wait(p, timeout) ==
  /\ Goto(p, "waiting")
  /\ left' = [left EXCEPT ![p] = timeout]
  /\ UNCHANGED <<fileVars, release, lapse, starts, faults>>

Pending(p) == ~(Versions(FilesOf(release[p])) \subseteq Versions(ledger))

\* Mutant: every start waits like an ordinary write.
PeekHurried(p) == phase[p] = "connected" /\ Wait(p, Write)

\* The committed record, read outside any reservation; a read that fails counts as pending.
Peek(p) ==
  /\ phase[p] = "connected"
  /\ \/ Wait(p, Startup)
     \/ ~Pending(p) /\ Wait(p, Write)

\* BEGIN IMMEDIATE.
Reserve(p) ==
  /\ phase[p] = "waiting" /\ writer = None
  /\ writer' = p
  /\ tx' = Tx(1, 0, ledger, schema)
  /\ Goto(p, "migrating")
  /\ left' = [left EXCEPT ![p] = 0]
  /\ lapse' = TRUE
  /\ UNCHANGED <<mode, ledger, schema, release, starts, faults>>

\* "Write reservation exhausted".
Exhaust(p) ==
  /\ phase[p] = "waiting" /\ left[p] = 0 /\ writer # None
  /\ Goto(p, "exhausted")
  /\ UNCHANGED <<fileVars, release, left, lapse, starts, faults>>

-----------------------------------------------------------------------------
(* The migration transaction. *)

Within(p) == phase[p] = "migrating"

\* Nothing is recorded that this release does not know.
Known(p) == Versions(ledger) \subseteq Versions(FilesOf(release[p]))

More(p) == Within(p) /\ Known(p) /\ tx.at <= Len(Files[release[p]])

\* The migration the loop is at.
Here(p) == Files[release[p]][tx.at]

Applied(p) == Here(p).version \in Versions(ledger)

\* p stops, with what it waits under forgotten; one that is down runs no release.
Settle(p, to) ==
  /\ Goto(p, to)
  /\ release' = IF to = "down" THEN [release EXCEPT ![p] = None] ELSE release
  /\ left' = [left EXCEPT ![p] = 0]

\* Mutant: a transaction that raises keeps what it did.
UnwindCommits(p, to) ==
  /\ Settle(p, to)
  /\ IF writer = p
       THEN writer' = None /\ tx' = NoTx /\ ledger' = tx.ledger /\ schema' = tx.schema
       ELSE UNCHANGED <<writer, tx, ledger, schema>>
  /\ UNCHANGED <<mode, lapse, starts>>

\* Mutant: a transaction that raises keeps its reservation.
UnwindHolds(p, to) ==
  /\ Settle(p, to)
  /\ UNCHANGED <<fileVars, lapse, starts>>

\* Whatever raises rolls back and closes the connection.
Unwind(p, to) ==
  /\ Settle(p, to)
  /\ IF writer = p THEN writer' = None /\ tx' = NoTx ELSE UNCHANGED <<writer, tx>>
  /\ UNCHANGED <<mode, ledger, schema, lapse, starts>>

\* "Database has unknown migrations", or "Applied migration was modified".
Refuse(p) ==
  /\ \/ Within(p) /\ ~Known(p)
     \/ More(p) /\ Applied(p) /\ Here(p) \notin ledger
  /\ Unwind(p, "failed")
  /\ UNCHANGED faults

\* Mutant: an applied migration is known by its name alone.
SkipByName(p) ==
  /\ More(p) /\ Applied(p)
  /\ tx' = [tx EXCEPT !.at = @ + 1]
  /\ UNCHANGED <<mode, ledger, schema, writer, processVars, lapse, starts, faults>>

Skip(p) ==
  /\ More(p) /\ Here(p) \in ledger
  /\ tx' = [tx EXCEPT !.at = @ + 1]
  /\ UNCHANGED <<mode, ledger, schema, writer, processVars, lapse, starts, faults>>

Execute(p) ==
  /\ More(p) /\ ~Applied(p) /\ tx.done < Statements[Here(p)]
  /\ tx' = [tx EXCEPT !.done = @ + 1, !.schema = @ \cup {<<Here(p), tx.done + 1>>}]
  /\ lapse' = TRUE
  /\ UNCHANGED <<mode, ledger, schema, writer, processVars, starts, faults>>

\* INSERT INTO schema_migrations, after the last statement.
Record(p) ==
  /\ More(p) /\ ~Applied(p) /\ tx.done = Statements[Here(p)]
  /\ tx' = Tx(tx.at + 1, 0, tx.ledger \cup {Here(p)}, tx.schema)
  /\ UNCHANGED <<mode, ledger, schema, writer, processVars, lapse, starts, faults>>

Commit(p) ==
  /\ Within(p) /\ Known(p) /\ tx.at > Len(Files[release[p]])
  /\ ledger' = tx.ledger /\ schema' = tx.schema
  /\ writer' = None /\ tx' = NoTx
  /\ Goto(p, "ready")
  /\ UNCHANGED <<mode, release, left, lapse, starts, faults>>

-----------------------------------------------------------------------------
(* What goes wrong, and time. *)

Fault == faults < MaxFaults /\ faults' = faults + 1

\* A pragma, BEGIN, a statement, the insert or the commit raises what is not contention.
Break(p) == phase[p] \notin Idle \cup {"connected"} /\ Fault /\ Unwind(p, "failed")

\* The process dies; SQLite rolls back for it.
Die(p) == phase[p] \notin Idle /\ Fault /\ Unwind(p, "down")

\* The process ends, and may be started again as any release.
Leave(p) ==
  /\ phase[p] \in Idle \ {"down"}
  /\ Unwind(p, "down")
  /\ UNCHANGED faults

\* While one process holds the reservation, the others wait: one unit of time at most for
\* taking it and for each statement.
Tick ==
  /\ writer # None /\ lapse
  /\ left' = [p \in Process |-> IF phase[p] = "waiting" /\ left[p] > 0
                                  THEN left[p] - 1 ELSE left[p]]
  /\ lapse' = FALSE
  /\ UNCHANGED <<fileVars, phase, release, starts, faults>>

Init ==
  /\ mode = "delete" /\ ledger = {} /\ schema = {} /\ writer = None /\ tx = NoTx
  /\ phase = [p \in Process |-> "down"]
  /\ release = [p \in Process |-> None]
  /\ left = [p \in Process |-> 0]
  /\ lapse = FALSE /\ starts = 0 /\ faults = 0

Step(p) ==
  \/ Negotiate(p) \/ Contend(p) \/ Peek(p) \/ Reserve(p) \/ Exhaust(p)
  \/ Refuse(p) \/ Skip(p) \/ Execute(p) \/ Record(p) \/ Commit(p)

Next ==
  \/ \E p \in Process : Step(p) \/ Break(p) \/ Die(p) \/ Leave(p)
  \/ \E p \in Process, rel \in Release : Start(p, rel)
  \/ Tick

Spec == Init /\ [][Next]_vars

\* A running process goes on; nobody has to be started, to fail or to be slow.
FairSpec == Spec /\ \A p \in Process : WF_vars(Step(p))

-----------------------------------------------------------------------------
\* The file and the processes have their types, and the one process inside the migration
\* transaction is the one that holds the reservation, on a file in WAL mode.
StoreTypeOK ==
  /\ mode \in {"delete", "wal"}
  /\ ledger \subseteq File /\ schema \subseteq StatementsOf(File)
  /\ writer \in Process \cup {None}
  /\ tx \in [at : Nat, done : Nat, ledger : SUBSET File, schema : SUBSET StatementsOf(File)]
  /\ phase \in [Process -> Idle \cup {"connecting", "connected", "waiting", "migrating"}]
  /\ release \in [Process -> Release \cup {None}]
  /\ left \in [Process -> Nat]
  /\ lapse \in BOOLEAN /\ starts \in Nat /\ faults \in Nat
  /\ \A p \in Process : Within(p) <=> writer = p
  /\ writer # None => mode = "wal"

\* A process that came up has every migration of its release under it, with the text it
\* carries, whatever releases were started before, meanwhile and since.
StartedIsMigrated ==
  \A p \in Process : phase[p] = "ready" => FilesOf(release[p]) \subseteq ledger

\* No process gives up waiting while the file still lacks migrations it carries: whoever
\* held the reservation was doing that work, and the startup budget outlasts it.  Only
\* failures, after which the work is done again, can use the budget up.
PatientStart ==
  \A p \in Process : phase[p] = "exhausted" /\ faults = 0 => ~Pending(p)

Promise == INSTANCE SchemaPromise

\* To anyone who reads the file, migrations are applied whole releases at a time, each
\* statement with its record, and never taken back.
PromiseKept == Promise!Spec

\* Every start that does not die comes up or reports a failure.
StartSettles == \A p \in Process : phase[p] \notin Idle ~> phase[p] \in Idle
=============================================================================
