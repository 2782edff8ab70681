--------------------------- MODULE SchemaPromise ----------------------------
(***************************************************************************)
(* What migrate() promises of a database file, however many processes of   *)
(* whatever releases start on it, fail and die: its schema is nothing, or  *)
(* exactly that of some release, and it only ever moves to a release that  *)
(* contains everything recorded before.                                    *)
(***************************************************************************)
EXTENDS Naturals, Sequences

CONSTANTS
  Release,    \* the releases that may be started on the file
  Files,      \* release -> the migrations it carries, in order
  Statements  \* migration -> how many statements it has

FilesOf(rel) == {Files[rel][k] : k \in DOMAIN Files[rel]}

\* The k-th statement of a migration.
StatementsOf(files) == UNION {{<<f, k>> : k \in 1..Statements[f]} : f \in files}

VARIABLES
  ledger,  \* schema_migrations
  schema   \* the statements whose effects the file has

promiseVars == <<ledger, schema>>

Init == ledger = {} /\ schema = {}

Migrate(rel) ==
  /\ ledger \subseteq FilesOf(rel)
  /\ ledger' = FilesOf(rel)
  /\ schema' = StatementsOf(FilesOf(rel))

Next == \E rel \in Release : Migrate(rel)

Spec == Init /\ [][Next]_promiseVars
=============================================================================
