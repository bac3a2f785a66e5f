# office360, specified in TLA+

office360 is a Go HTTP API over PostgreSQL (chi, pgx, sqlc), a SvelteKit page, a
migration command and a schema. Only a slice of the planned product exists: two
resources (departments, employees), a transaction manager, the response layer and a
50-table schema that prepares the rest. What is delicate in that slice is *sharing*:
many organisations in one set of tables, many requests on one pool, transactions that
end while their caller has already gone, a process that ends while requests are still
inside it. The specifications here are about that.

Contents: [inventory](#1-inventory), [plan](#2-plan), [modules](#3-modules),
[what is checked](#4-what-tlc-checks), [what is proved](#5-what-is-proved),
[where the code and its documents differ](#6-where-the-code-and-its-documents-differ),
[limits](#7-limits).

## 1. Inventory

| Part | State it keeps | Operations | Talks to |
| --- | --- | --- | --- |
| **Handlers** `internal/httpapi/employees.go`, `departments.go`, `tenant.go` | none of its own: each request is a goroutine with its decoded request, the rows it has read and its answer | list/create/delete department; list/get/create/update/delete employee; `currentOrganization` | query layer (`s.q`, one statement each) or `s.txn.RunReadOnly` (listing) |
| **Query layer** `internal/db/*.sql.go`, `query/*.sql` | none | one SQL statement per method, all scoped by `organization_id` | pool or transaction |
| **Tables** `internal/db/migrations` | rows; constraints: composite foreign keys, unique indexes on `lower(...)`, CHECKs | INSERT/UPDATE/DELETE with `ON DELETE SET NULL` / `CASCADE` | |
| **Transaction manager** `internal/db/tx.go` | per call: the pooled connection, the transaction, the named `err` | `Run`, `RunReadOnly`, deferred `rollback` | pgxpool, PostgreSQL |
| **Response layer** `internal/httpx` | none | `Write`, `Fail`, `Decode`, error kinds to statuses | handlers, client |
| **Pipeline** `internal/httpapi/server.go`, `httpx/middleware.go` | request context with a 30 s deadline | RequestID, RealIP, logger, Recoverer, Timeout, CORS, routes | handlers |
| **Health** `internal/httpapi/health.go` | none | `Ping` of the pool within 2 s | pool |
| **Server process** `cmd/server/main.go` | pool, listener, signal context | start, ping, serve, Shutdown (15 s), pool.Close | all of the above |
| **Migration command** `cmd/migrate/main.go` | `schema_migrations` (version, dirty) | up, down n, version, force v | PostgreSQL through golang-migrate |
| **Organisation queries** `internal/db/organizations.sql.go` | none | list, get by id, get by slug, create, update status | tables, through `TxManager.Run` |
| **Configuration** `internal/config` | none | `Load` | environment, `.env` files |
| **Seed** `internal/db/seed/dev.sql` | two organisations with rows | idempotent INSERTs | tables |
| **Web page** `web/src` | result of one `load` | two concurrent API requests | API |

How they interact. A request runs through the pipeline in its own goroutine; the handler
resolves the organisation from a header, decodes and checks the request, and runs one
statement directly on the pool (its own implicit transaction) or, for the employee
listing, two statements in one `RunReadOnly`. Statements of different requests meet only
in PostgreSQL: in the rows, in the constraints and in row locks. Transactions meet in the
pool, which has fewer connections than the server has requests. The context of a request
can end at any moment (client gone, 30 s over), in the middle of a statement or of a
COMMIT.

What is hard, and what must hold:

* **Handlers and tables**: interleaved creates, patches and deletes across tenants. No
  reference may dangle or cross tenants, keys stay unique, departments stay a forest
  though no constraint says so, no tenant sees or changes another's rows; to a tenant
  the service must look like a private store with atomic operations.
* **Transaction manager**: commit, cancellation and connection loss race. A nil error
  must mean committed, a failed callback must leave nothing, connections must return to
  the pool on every way out including a panic, a cancelled caller must not leave locks.
  Calls that lock rows in opposite order do wait for each other, and PostgreSQL ends that;
  no circle of waiting calls may run through the pool, which it does not see.
* **Pool and server**: calls wait for connections; every call must return.
* **Migrations**: half-applied versions, two operators at once, `force`.
* **Response layer and pipeline**: status, envelope and log line of a request agree, also
  after a panic or a timeout, and an internal error shows no cause.
* **Server process**: nothing is served before the gates (configuration, ping) are passed;
  after a signal the process ends whatever its requests do, no handler is cut off inside
  a transaction, and exit code 0 means that every request was answered.
* **Organisations**: concurrent creates under two unique indexes wait for one another,
  may deadlock, and must leave each slug and GSTIN to one organisation.

Each place where one of these bites is in `PROJECT.json` under `hazards`, at its line,
with the properties that cover it or the reason none does yet.

## 2. Plan

In the order of what matters most to the system. All of it is done.

1. `Paging`, `TenantTables`, `TenantApi`: handlers over the tables. `TenantStore` is the
   abstract specification, `TenantRefinement` the mapping, `TenantApiProofs` and
   `TenantRefinementProofs` the proofs.
2. `TxManager`: transactions over a pool, `UnitOfWork` its abstract specification,
   `TxManagerProofs` the proofs, refinement included.
3. `Migrate`: the migration command over dirty versions, crashes between the three writes
   of one migration, operators and the advisory lock; `SchemaClaim` its abstract
   specification, `MigrateProofs` the proofs, refinement included.
4. `BusinessTables`, `ForeignKeys`, `Schema`: all business tables as a catalogue of foreign
   keys with their ON DELETE actions, under arbitrary statements; `ForeignKeysProofs` the
   proofs, for any catalogue in which keys are composite. `TenantSchema` puts the tables of
   the handlers into that catalogue, and `TenantSchemaProofs` shows that the handlers'
   statements are statements of the schema.
5. `Configuration`, `Responses`, `Server`: the process from its start to its exit with the
   requests it serves on its pool. `Service` is the abstract specification, `ServerProofs`
   the proofs, refinement included.
6. `Organizations`: the tenant root under concurrent transactions; `OrganizationsProofs`.

## 3. Modules

| Module | Models |
| --- | --- |
| `Paging` | `intParam` and what `ORDER BY full_name LIMIT n OFFSET m` may return (ties are a choice) |
| `TenantTables` | rows of `departments` and `employees`, their constraints as SQLSTATEs, and the generated queries; no state machine |
| `TenantApi` | the handlers: workers that receive a request, run its statements and answer |
| `TenantStore` | abstract: what one organisation is promised, with no organisation in it |
| `TenantRefinement` | the mapping from `TenantApi` to `TenantStore` for one observing organisation |
| `MCTenantApi` | TLC instance: values, requests, symmetry |
| `TenantApiProofs` | type correctness and six invariants, tenant isolation |
| `TenantRefinementProofs` | that `TenantApi` implements `TenantStore` for whichever organisation looks |
| `TxManager` | `run`: acquire, BEGIN, callback, COMMIT/ROLLBACK, cancellation, connection loss |
| `UnitOfWork` | abstract: all writes of a call at one moment or never, and what it is told |
| `MCTxManager` | TLC instance of `TxManager` |
| `TxManagerProofs` | invariants of `TxManager`, and that it implements `UnitOfWork` |
| `Migrate` | `cmd/migrate`: up, down, version and force of concurrent operators |
| `SchemaClaim` | abstract: what the version number says of the schema, and when it says nothing |
| `MCMigrate` | TLC instance: the first four migrations of the repository |
| `MigrateProofs` | invariants of `Migrate`, and that it implements `SchemaClaim` |
| `BusinessTables` | the catalogue of migrations 000003 to 000010: 45 tables, 75 keys besides `organization_id`, and which tables cascade from `organizations` |
| `ForeignKeys` | SQL statements on tables under a catalogue of foreign keys: cascades, cleared columns, refusals |
| `Schema` | the two together, and which records a deletion elsewhere must not take |
| `MCSchema` | TLC instance of `Schema` |
| `ForeignKeysProofs` | references, deletion of an organisation and isolation for every catalogue; records for this one |
| `TenantSchema` | the rows of `TenantApi` as rows of the 45 tables, and its writes as statements on them |
| `TenantSchemaProofs` | that `TenantApi` implements `ForeignKeys` under the keys of the migrations |
| `Configuration` | `config.Load`: precedence of environment and `.env` files, defaults, the gate |
| `Responses` | `httpx`: kinds, statuses and envelopes, and what Timeout, Recoverer and the logger add |
| `Server` | `cmd/server` and the routes: start, listener, requests on the pool, signal, Shutdown, exit |
| `Service` | abstract: what a client, and whoever runs the process, is promised |
| `MCServer` | TLC instance: four environments, five calls |
| `ServerProofs` | invariants of `Server`, and that it implements `Service` |
| `Organizations` | the queries on `organizations` in concurrent transactions: unique indexes, waits, deadlocks |
| `MCOrganizations` | TLC instance |
| `OrganizationsProofs` | lookups and keys for any number of transactions |

### TenantApi and TenantTables

State: `departments`, `employees` are sets of rows; `issued` the ids ever given
(`uuid_generate_v7()` does not repeat, and a client cannot guess the next one); per
worker `pc`, `req`, `page` (the rows of a listing between its two statements) and `resp`.

One action per SQL statement, named after the handler. `Receive` makes every check the
handler makes before it touches the database, in the code's order (`EarlyAnswer`: tenant,
path id or query parameters, body, fields), and either answers or goes on. A statement is
atomic, because each runs as one statement in PostgreSQL at READ COMMITTED; the listing is
two actions, `ListEmployees` and `CountEmployees`, because `RunReadOnly` sets only the
access mode and each statement takes its own snapshot. `Return` lets the outcome reach the
handler or be lost after the effect (connection gone between commit and answer); `Fault`
is a statement that fails without effect. `Respond` frees the worker.

A statement's constraint failure is an SQLSTATE (`DepartmentState`, `EmployeeState`) in
the order PostgreSQL reports them (unique indexes while the row is written, foreign keys
at the end), and the handler maps it as the code does: `createDepartment` knows only
23505, `employeeConstraintError` maps 23505 and 23503. No CHECK of these tables can fail,
as handlers write neither `aadhaar_last4` nor `exited_on`. A PATCH is
`coalesce(argument, column)`: null leaves a column as it is, and, unlike a create, it
neither trims nor rejects blanks. Deletes include what the foreign keys then do
(`WithoutDepartment` clears `parent_id`, `DetachedFrom` clears `department_id`).

Left out: columns no property tells apart (phone, dates, department code, statutory
identifiers), message texts, tables no handler reads or writes.

### TenantStore and the refinement

`TenantStore` has two tables without organisation, and per worker a call, what a listing
has seen, and an outcome. Every call takes effect at one moment between its request and
its answer, or fails and may still have; only a listing has two moments, which is what the
code does. `TenantRefinement` maps the shared tables to it for one organisation: its rows
with the column dropped, calls made in its name, answers reduced to what a caller can act
on. Whatever other organisations do must be a stutter. TLC checks the mapping for an
organisation with rows; the theorem `Implements` covers the one that does not exist as
well.

### TxManager and UnitOfWork

State: per call of `Run`/`RunReadOnly` its label in `run` (`pc`), access mode, context,
held connection and whether that is still usable, the statement in flight (`stmt`: the row
it writes, or a read), the named return `err`, and the server's side: the transaction's
state `tx`, the rows it has written and those of them that are committed; per connection
the session's transaction. Labels follow the source: `acquire` and `begin` are
`pool.BeginTx`, `fn`/`exec` the callback and a statement in flight, `commit`/`ack` are
`tx.Commit` before and after it is sent, `rollback` is the deferred function.

The callback is arbitrary: it reads, writes, swallows errors, returns nil or an error, or
panics. A write names one of the rows the calls contend for and waits while another
transaction has that row locked (`WaitsForRow`). So two calls that write two rows in
opposite order wait for each other, and stay so until PostgreSQL refuses one of the
statements (`Refused`) or a deadline ends it (`Interrupted`). pgx, the pool and
PostgreSQL are external and are modelled as `tx.go` relies on them: nothing is sent on a
context that is done; an interrupted statement, or a failed BEGIN, COMMIT or ROLLBACK,
costs the connection; the server executes what it was sent even if nobody waits
(`Commits` after `AckLost`), or notices and aborts (`Reap`); COMMIT of a failed
transaction rolls back and is reported as an error; after `Commit` a `Rollback` finds the
transaction closed.

`PoolOutsideCircles` is what the rule that "fn must use only the *Queries it is handed"
buys: circles of waiting calls exist, but every one of them is made of row locks alone. A
second connection taken inside a callback would close circles through the pool, which
PostgreSQL's deadlock detection cannot see.

`UnitOfWork` forgets all of that: a call's writes take effect all together or never; nil
means they have, an error of BEGIN or of the callback or a panic means they never will,
and only `commit_error` leaves doubt, in which case they may take effect after the call
has returned. This is worth knowing for callers: "commit transaction: ..." is not "rolled
back", and a retry must be prepared to meet its own rows.

### Migrate and SchemaClaim

State: the row of `schema_migrations` (`version`, `dirty`), `applied`, the migrations
whose objects the database has, the advisory lock, and per operator the command in `op`.
`lied` is a history variable: whether the last `force` named a version that was not there.

The command only parses its arguments and calls golang-migrate, which is external: a
migration is three writes (`MarksDirty`, `Runs`, `MarksClean`), each of them atomic (a file
is one multi-statement query, hence one implicit transaction), between `Locks` and
`Unlocks`. The lock belongs to the session. `Fails` and `Dies` may come between any two
writes; a statement the server still executes after its client was killed is a later
`Dies`. `migrate.New` also takes the lock, briefly, to create its table (`Opens`).
What the arguments do is the command's own: `down n` is `Steps(-n)`, a negative `force`
is refused, `report` takes `ErrNoChange` for success and returns, reads the version without
the lock after any other success (`ReadsVersion`), and `version` takes `ErrNilVersion` for an empty database.

Whether a file can run depends on the schema it meets: `Requires[v]` are the migrations
whose objects it uses, an up file fails on its own result unless it replaces
(`Replayable`), a down file fails on nothing unless it drops `IF EXISTS` (`Tolerant`).
`MCMigrate` gives them the values read off the first four migrations: `000001` is
replayable, and `000004.down` is not tolerant, because it alters `teams` first.

`SchemaClaim` forgets row, lock and operators: nothing is claimed of a schema while it
changes, it changes by one migration at a time, and what is claimed afterwards is true,
unless the last `Assert` (force) was not.

### ForeignKeys, BusinessTables and Schema

State: the ids in `organizations`, and `rows` of all business tables: table, id,
`organization_id` and the referencing columns, nothing else. The steps are the statements
any session may run: INSERT of a row, UPDATE of any columns of a row at once (id,
`organization_id`, references), DELETE of any set of rows, or of an organisation. An INSERT
or UPDATE of several rows is not a step of its own. The states it can leave are reached row
by row all the same: as no circle of keys is NOT NULL, any rows that satisfy their keys can
be inserted one after the other with the optional references null, which are set
afterwards; so what holds in every state holds after such a statement too. No service code stands before
them, because the migrations claim that a row cannot reference another tenant's "even if
the service layer forgets to check". A statement PostgreSQL refuses is not enabled.
Statements are atomic: a foreign key check locks the row it relies on, so a DELETE and an
INSERT that would meet are ordered.

A DELETE removes the least set of rows closed under ON DELETE CASCADE (`Gone`), clears the
named column where the key says SET NULL (column) (`Cleared`), and is refused if a
survivor references what went through a key without ON DELETE (`Refuses`). PostgreSQL
checks those after the cascades of the same level; as every table cascades from
`organizations` directly, deleting an organisation removes the referencing rows first.
That it does is data, not part of the rules: `Tenanted` are the tables whose
`organization_id` says ON DELETE CASCADE, read off the migrations table by table
(`OwnedTables`), and `DeleteOrganization` takes the rows of those (`Owned`) with all that
cascades from them, and is refused while any other row has the organisation.
`Closed` and `Gone` are stated as a least fixed point rather than by recursion so that
they can be proved about. `Candidates` are the values a column is tried with: null, the row
itself and the rows of the tables its keys point to; any other value is refused.

`BusinessTables` is the catalogue, one record field per table, grouped as the migrations
are, and the list of the tables that cascade from `organizations`, one set per migration.
Columns that are no keys, CHECKs and unique indexes are left out (no CHECK reads a
referencing column, and no unique index holds one that ON DELETE clears, so none of them
can make a cascade fail).

### TenantSchema

`TenantTables` says what the constraints of departments, designations and employees refuse
and what a DELETE there clears; `BusinessTables` has the keys of those tables among all
others, and `ForeignKeys` says what any statement does under them. The three were read off
the migrations separately. `TenantSchema` maps the rows of the one to rows of the other
(`Rows`; the columns no handler writes are null) and asks of every step of a handler that
it be one INSERT, one UPDATE or one DELETE of the schema, with the rest of the change being
exactly what ON DELETE does (`TableStep`). `Rows` holds no row of another table:
handlers create none, so what a DELETE cascades to there (`payslips`, `attendance`) is
covered by `Schema`, not here.

### Server, Responses, Configuration and Service

State: `at`, where `main` is (`load`, `connect`, `ping`, `serve`, `drain`, `close`,
`exited`), and `code`, the error it will return; the goroutine that runs
`ListenAndServe` (`listener`); whether a signal has come and PostgreSQL answers; what
`pool.Ping` has said (`ping`, a history variable: the database may go away later); `held`,
the requests that have a connection of the pool; and per request its goroutine: label,
handler, context, what it has written, whether it panics, and its line in the log.

`main` goes through its gates in the order of the code. `validate` looks at what
`Getenv` makes of the environment and three files, where the first source that sets a
variable wins even if it sets it to the empty string. `pgxpool.New` only parses;
`pool.Ping` is the gate. The listener is a goroutine of its own, so a signal can come
before it listens, and it can fail while requests run: `ServeFails` returns without
`Shutdown`, and only the deferred `pool.Close` (`close`) waits, for connections, not for
requests. `Shutdown` ends `Drained` or after 15 s (`DrainEnds`). `Ends` cuts off
every goroutine that is left. A signal during `config.Load` kills; the later ones are
swallowed by `NotifyContext`.

A request is routed by `RouteTable`. What a handler does with rows is `TenantApi`'s
business; here it is the time it takes and what it holds: it waits for its body
(`decode`), for a connection (`acquire`), is inside a statement (`query`) or waits for a
ROLLBACK (`rollback`), and returns with one of its `Answers`, its `Failure` or a panic.
`Routes` then takes what was written back through the deferred functions of the
middleware, innermost first; the first status written is the one that is sent. Durations
are an order of events: every deadline may fire at any moment while it runs. A response
is sent in one piece when the call has returned.

`Service` forgets gates, goroutines, pool and timers: requests are asked and answered,
what is asked and not answered at the end is lost, and an end called a success lost
nothing.

### Organizations

State: the committed rows, and per session its transaction: `at`, the rows it has
written and the row a waiting statement is about to write. The actions are the five
queries run inside `TxManager.Run`, and PostgreSQL: a statement sees the committed rows
overlaid with its own; a key another open transaction writes makes it wait, one that is
taken fails it, and an error aborts the transaction, with its locks, before the ROLLBACK
comes. Two unique indexes are looked at one after the other, so where one key is taken
and the other is being written both outcomes are possible. Rows have the columns that
carry a key or a rule: id, slug, GSTIN, status.

## 4. What TLC checks

| Run | Question | Bounds | Distinct states |
| --- | --- | --- | --- |
| `tenant_tables` | types, references, keys, answers and isolation under every interleaving; can departments form a cycle; do pages tile the list? | 2 workers, 2 organisations + 1 that does not exist, 6 ids (2 new), 28 requests and 11 that create departments below departments being deleted | 1 121 000 |
| `tenant_view` | does one organisation see a private atomic store, and is every change of its tables a statement of the schema? | 2 workers (symmetric), 14 requests of 3 organisations | 249 000 |
| `tx_manager` | unit of work, what an error means, connections, abandoned transactions, circles of waits | 2 calls, 2 connections, 2 rows, symmetric | 70 000 |
| `tx_liveness` | do calls return, do transactions end? | 2 calls, 1 connection, 1 row | 59 000 |
| `migrate` | do version, dirty flag, schema and success agree? | 2 operators, one a migration behind, 4 migrations, 10 command lines | 1 105 000 |
| `migrate_repair` | can every mess be repaired with the command? | 1 operator, 4 migrations, all 18 states commands leave behind | 459 |
| `schema` | references, deletion and records under arbitrary statements on any table | 2 organisations, 3 rows in any of 45 tables, symmetric | 31 000 |
| `server` | gates, answers and log, the end of the process and of requests, `Service` | 4 environments, 2 requests, 5 calls, 1 connection | 250 000 |
| `organizations` | does a slug find one organisation, do waits end? | 2 transactions of 2 writes, 3 ids, 3 slugs of which 2 differ in case, 1 GSTIN | 85 000 |
| `find_*` | the three disagreements of section 6 | those of `tenant_tables` and `migrate` | a counterexample each |

Why these bounds are enough to be interesting. Every conflict in the tables is between two
statements, so two workers suffice; the requests were chosen so that each names what
another creates, deletes or already holds: the same code in other case and spacing, a
department being deleted, an id of the other tenant, an id not yet issued (`n1`, `n2`), an
organisation without a row. Two new ids allow a chain of three departments. The first four
migrations have every kind of file (one that depends on nothing, on some, on all before
it; replayable or not, tolerant or not), and a second checkout that ends at 3 meets a
version it has no file for. Three rows reach every table of the schema (the longest chain
of required references has three) and every cascade of two steps. The four environments of
`server` are one that starts, a secret that is too short, an empty variable that hides the
secret of a `.env`, and a first file whose value wins over a second; the five calls reach
a static answer, a preflight, a wrong verb, the health check, a body and a transaction.
One connection for two requests makes one of them wait for the other, or for `pool.Close`.
Two transactions with two writes give the deadlock of two slugs in opposite order. Two
calls with two connections and two rows give every interleaving of two transactions,
lock waits and the circle of two rows locked in opposite order included; one connection
makes one of them wait for the pool. Beyond the bounds, the safety
properties are proved (section 5).

`Limit` and `Offset` are scaled (`MaxLimit` 2, `MaxInt32` 7) so that defaults, clamping and
out-of-range values all occur among the requests.

Only `server` and `organizations` turn the deadlock check off: the process ends, and ids
run out. Elsewhere a worker can always receive or respond, and a call can always be made,
advanced or finished.

Each property has a mutant, a version of one definition as a plausible bug would leave
it, which TLC finds to violate it: a foreign key on the id alone, a missing
`ON DELETE SET NULL` or a CASCADE in its place, a missing unique index, a query without its
organisation or without its ORDER BY, a PATCH that overwrites with null, no `recover`, a
rollback on the cancelled context, `ErrTxCommitRollback` taken for success, a write outside
the transaction, a statement of the callback sent to the pool, a wait for
the pool that ignores the context, an error that is wrapped; a migration without the lock,
without the dirty mark or over a dirty version, a lock that outlives its process, a short
`down` reported as success, a DROP without IF EXISTS; a key on the id alone, a table
without its cascade from `organizations` (`receipts`), invoices that go with their client; a
pool without a bound, an error of `Ping` that is ignored, a message with its cause, the logger inside
the Recoverer, an exit that skips `pool.Close`, a panic that keeps its connection, no
request deadline, an ignored error of Shutdown; a slug compared with its case, no index on
GSTIN, a deadlock left alone, a failed statement still waiting.

Fairness (`FairSpec` in `TxManager`), used for `tx_liveness` only:

* `WF(Cancel)`: every request context ends, because of `middleware.Timeout(30s)`.
* `WF(Advances)`: code that can go on does; a message to the server is answered or its
  connection breaks. A statement waiting for a lock is exempt while its context is live.
* `SF(FnEnds)`: callbacks run finitely many statements.
* `WF(Server)`: the server executes what it received and notices closed connections.

The second of these is an assumption about the network that the code does not enforce in one
place: `rollback` drops the deadline together with the cancellation, so a ROLLBACK to a
silent server waits as long as TCP does.

Fairness of `Server` (`FairSpec`): `main` and the listener are scheduled and their timers
fire (`WF(Main)`, `WF(Listens)`), each request's deadline fires (`WF(Expires)`), what waits
on a context that is done returns (`WF` of `AcquireFails` and `WorkFails` then), and a
handler that has returned is finished (`WF(Finishes)`). No client is assumed to send its
body and no statement to succeed; nothing is assumed of `RollsBack`. `SignalEnds` and
`RequestsEnd` therefore name what the code cannot end: a ROLLBACK nobody answers and, for
a request, a body that never comes.

Fairness of `Organizations`: a transaction commits or rolls back (its context has a
deadline), a waiter that is woken again and again gets its turn (`SF(Resumes)`), and
PostgreSQL looks for deadlocks (`WF(DeadlockDetected)`).

`migrate_repair` has a specification of its own, `RepairSpec`: it starts in every state
that commands without a false `force` can leave, and one operator, who looks at the schema
as the usage text asks, types the command that helps (`Procedure`: `force` the last
migration the schema has; after a failed first migration `force 1`, then `down`, since
`force` cannot say "none"; otherwise `up`). Its weak fairness is that person's patience,
and `Repaired` assumes that failures and kills stop at some time (`FaultsCease`). With two
operators who repair without knowing of each other it does not hold: a `force` typed
against what the schema was a moment ago can undo the other's repair for ever, as `force`
does not look at the row it overwrites.

## 5. What is proved

Proofs are checked by TLAPS for every value of the constants, under the modules' named
assumptions: `PagingAssumption` (limits are positive, the largest offset is an int32, an absent or
malformed parameter is no number), `TenancyAssumption` (the tables the
handlers only read are what their constraints allow: designations belong to organisations
and their ids are unique), `ApiAssumption` (requests are
well-typed and none is `Null`, `Trim` is a function on texts), `SeedAssumption` (the seed
is finite, satisfies the constraints, belongs to organisations that exist, and no id is
used in two of its tables, as ids are UUIDs), `TxAssumption`, `MigrateAssumption`,
`CatalogueAssumption`, `ServerAssumption` (the pool has a connection),
`OrganizationsAssumption`.

**`TenantApiProofs`.** `TypeCorrect`, `HandlersServed`, `Isolated`, `ReferencesSound`,
`KeysSound`, `HierarchySound`, `AnswersSound`, `PagesSound`. None of the invariants is
inductive by itself. The induction carries `Sound`: types, `Served` (a worker past its
checks holds a request that passed them, and every row's id was issued, hence a new id is
nobody's), the references, the keys and the forest together. They need each other: that a
new department cannot be an ancestor of itself follows because nothing can name an id that
was not issued, which follows from the references; that deleting a department clears
exactly the references to it needs ids to be unique. Each write handler is first reduced
to its effect on the tables (`InsertsDepartment`, `DeletesDepartment`, `InsertsEmployee`,
`PatchesEmployee`, `DeletesEmployees`); the invariants are proved of the effects, so no
handler is opened twice. The forest is stated as "every non-empty set of departments has
one whose parent is outside it", which is acyclicity without recursion or induction over
paths.

`PagesSound` needs the types only, but a fact about sorting that no library states: the
rows of an untied list have positions (how many sort before a row), the positions are
exactly `0..n-1` (`Positions`, `PositionsDiffer`), and the page at `offset` is the rows
with positions from `offset` to `offset + limit - 1` (`PageIsRange`: the operator `Pages`
leaves the set of rows before the page open, and without ties there is only one). Pages
therefore exist (`PageExists`), and a row is on page `position \div limit` and on no other
(`PageNumbers`). The walk asks for its pages by `offset`, as a client does; the handler
clamps none of the offsets below the total (`Offset`), as long as the list is no longer
than the largest offset it takes, which is a hypothesis of `PagesTile`. That every position is taken is counted, as induction over data is out of
the prover's reach: positions are an injection of `n` rows into `0..n-1`, hence onto it
(`RangesFull`).

**`TenantRefinementProofs`.** `Implements` (`Spec => ImplementsStore`), for any observed
organisation, with a row in `organizations` or without, any requests and any number of
workers. It needs `Sound` (deleting a department that is not there is a stutter on the
rows only because nobody can name it) and one small invariant of its own, that a worker
that replies has an answer (`Replied`). What drops the organisation of a row is injective
within one organisation (`Distinguished`), so counts and pages of the view are those of
the rows (`ViewCardinality`, `PagesViewed`). Each handler then has a lemma that its step
for the observer is the store's operation of that call, and each step for anyone else is a
stutter: its tables by `WritesIsolated`, its calls by `OtherCallsHidden`.

**`TxManagerProofs`.** `TypeCorrect`, `ErrorsTrue`, `ConnectionsSound`,
`NothingAbandoned`, `PoolClosesNoCircle` and `Refinement` (`Spec => ImplementsUnitOfWork`).
The inductive invariant `IInv` says at each label what the call knows of its connection
and transaction (`At`), that durable writes are those of committed transactions
(`Ledger`), and that connections and sessions belong to one call (`Pool`). A step of one
call leaves what `At` says of the others alone (`OthersKeep`), so each action is opened
for its own call only. The refinement maps Write to `AddWrite`, the server's COMMIT to
`Apply`, whatever ends `run` to `End`, and all else to a stutter; that `Apply` may follow
`End` only after `commit_error` is the part that needs `IInv`. `PoolClosesNoCircle`: in a
circle each call is waited for, but nobody waits for a call that waits for the pool, as it
has no connection and no transaction, hence no lock (`NobodyWaitsForAPoolWaiter`). The
theorem does not say that circles of locks end; that is PostgreSQL's doing, and is checked
as `WaitsEnd` (for the queries on `organizations`) and `RunsReturn` (by the deadline).

**`MigrateProofs`.** `TypeCorrect`, `CleanIsTrue`, `DoubtBounded`, `SuccessIsGoal` and
`Refinement` (`Spec => ImplementsSchemaClaim`), under `MigrateAssumption`: for any
operators, checkouts, migrations with any dependencies, and command lines. The inductive
invariant says what the holder of the lock knows at each stage (`At`): the row it read is
still there (`Known`), the schema is where its file expects it or where it left it, and
how many migrations it has come (`Under`). Everyone else knows nothing of the database
(`OthersKeep`), which is what the lock is for. That a file always meets the schema it was
written for is part of it, so `Runs` needs no luck unless `force` lied.

**`ForeignKeysProofs`.** `TypeCorrect`, `ReferencesSound` and `DeletesIsolated`, for every
catalogue that follows `CatalogueAssumption` (keys point to tables, one key per column,
what is cleared may be null), any `Tenanted`, organisations and rows. `NothingDangles` is
inductive together with the types. What makes DELETE work are two facts of `Gone`: it is
closed under cascades, so a survivor's row went only if its key clears or refuses; and it
lies within every closed set, the rows of a tenant, and the rows of all others, being such
sets. `OffboardingSound` and `RecordsKept` are about this catalogue (`Catalogue = Office`
and, for the first, `Tenanted = OwnedTables` are hypotheses). The first rests on
`AllTablesOwned`, which compares the 45 tables of the catalogue with the tables that
cascade from `organizations`; the second on `RecordsUncascaded`, that no table of records
has a key that cascades, so that the rows deleted and all rows that are no records are
closed. Both look at the tables part by part.

**`TenantSchemaProofs`.** `SchemaFollowed` (`Spec => FollowsSchema`), `SchemaHolds` and
`SchemaImplemented` (`Spec => [][Database!Next]_(Database!vars)`): each step of the
handlers is a step of `ForeignKeys` under the keys of the migrations, and their rows are
at every moment rows that schema allows. The initial state is the seed and not the empty
database of `ForeignKeys`, so the theorems speak of steps and of states, not of
`Database!Spec`. The argument: all keys of the three tables are ON DELETE SET NULL, hence
`Gone({x}) = {x}` and nothing refuses, and it remains to see, row by row, that what the
schema clears is what `WithoutDepartment` and `DetachedFrom` clear (`...Cleared`) and that
what the handlers' SQLSTATEs let through satisfies every key (`...Satisfied`). It needs
`Sound` of `TenantApiProofs` and one invariant more, `Placed`: rows belong to
organisations that exist, and no row of one table has the id of a row of another. The
second is what makes a new id new to the whole schema and not only to its own table.

**`ServerProofs`.** `TypeAlways`, `GatesHold`, `AnswersAlwaysAgree`, `AlwaysLogged`,
`NeverCutInside` and `Implements` (`Spec => ImplementsService`), for any requests, calls,
environments and pool size. The inductive invariant has three parts: `RequestOK`, what a
request has and owes at each label (nothing written while its handler works, no panic
before a label that panics, an answer that agrees once it has returned); `Gates`, that
whoever is past a gate passed it, a `ping` that was answered included; and `Ending`, that `close` with no error was reached with
no request left. Types are part of it because `held` must be the requests inside a
statement. The pure part comes first: `RoutesAgree` shows of the middleware, for every
context, response and panic, what the properties need, so the proof of `Finishes` never
opens a layer. Request steps go through one lemma (`RequestStep`), which asks what the
new record is and whether it takes a connection.

**`OrganizationsProofs`.** `TypeAlways`, `SlugFindsAlways` and `GstinOnceAlways`, for any
transactions, ids, slugs and `Lower`. Inductive are: committed rows agree, what one
transaction wrote agrees with itself and, as new versions, with the committed rows, what
two transactions wrote is `Apart`, and a waiting statement has the keys of the row it
replaces (`Drafts`). The last is why a status update that waited cannot bring back a key.

**Only model-checked:** liveness under fairness (`RunsReturn`, `TransactionsEnd`,
`Repaired`, `SignalEnds`, `RequestsEnd`, `WaitsEnd`), which is out of the prover's reach.
Every invariant, action property and refinement that a passing run checks is also a theorem.

## 6. Where the code and its documents differ

Three runs show the program doing other than its documents or comments say.

* `find_page`: `RunReadOnly` promises several reads "one consistent snapshot" and
  `listEmployees` that "the page and its total agree". The transaction is READ ONLY but
  READ COMMITTED, so a row committed between the two statements makes them disagree.
  REPEATABLE READ would keep the promise.
* `find_unknown`: "a request naming an organisation that does not exist is not an error"
  holds for reads and deletes; creates answer 500 or 400.
* `find_version`: `version` prints "no migrations applied yet" also for the dirty row that
  an unfinished or failed `down` of the first migration leaves, without its dirty flag;
  `up` then refuses, and `force` cannot name that version.

Noted while modelling, without a run:

* `down -2` is `Steps(2)` and applies two migrations ("down [n] roll back n migrations").
* README's "every response is enveloped" does not hold of what the middleware writes by
  itself: 500 after a panic and 504 have no body, a preflight has none either.
* A request whose deadline ends in the database is answered 500 `internal`: the handler
  writes first, and the 504 of `middleware.Timeout` comes too late to be sent.
* Shutdown waits 15 s for requests that may run 30 s; it then returns an error, the process
  exits 1, and a handler whose connection `pool.Close` waited for is cut off before it can
  answer, although its transaction may have committed.
* A second SIGTERM has no effect while `pool.Close` waits.
* A body may take longer than 30 s: the deadline ends the context, not the read.
* `/healthz` says "down" when all connections are busy for 2 s. The page's `health()` throws
  on that 503, whose body is a success envelope.
* An empty environment variable hides the value of a `.env` and then counts as missing.
* A suspended organisation is served like any other: `currentOrganization` reads no row.

Noted while reading: any foreign key violation is reported under
`department_id`, even when the request has none and its designation or organisation is at
fault; a `parent_id` that does not exist, was just deleted or is another tenant's is
answered 500 `internal`; README says "`migrate down` reverses all ten", the
command takes back one; README's example code `employee.email_taken` is not
one the API sends (`employee.duplicate`); its "Default Organisation seeded by migration
000002" does not exist; "rolls back on any error" does not hold of an error of COMMIT
itself; a payroll run is "immutable" once locked (`000004_people.up.sql:265`), but
`DELETE /employees/{id}` cascades to its payslips and leaves its totals.

## 7. Limits

### Not modelled

* The web page: `load` shows two answers of two requests; it keeps no state, and nothing
  promises that the two agree. Markup and style.
* The developer script, which starts the other commands.
* Generated code for tables nothing uses (most of `models.go`: enums and rows of tables
  that no query reads) and `plans`.
* Log lines other than the one per request, request ids, client addresses, CORS headers.
* Packages that exist only as a README (login, authorisation, modules).
* `WriteTimeout` (60 s): a response after it is lost on its way, which a client cannot
  tell from a lost connection. HTTP keep-alive: a connection carries one request.

Abstractions that could matter: statements are atomic (true of single statements at READ
COMMITTED, whose foreign key checks lock the rows they rely on); `lower()` and
`strings.TrimSpace` are arbitrary functions on texts; the pool's slots are refilled at
once; a statement of a callback writes one row, and `Refused` is a choice that is always
open to PostgreSQL, so in `TxManager` ending a circle of locks is one of its outcomes and
not an obligation (in `Organizations` it is one, under fairness); in `Server` a handler
holds one connection for one statement or transaction, as every handler does. chi's
Recoverer sends no 500 after a panic to a request that asks for a connection upgrade; no
route has one, and `Responses` leaves that header out. Mutants of what the
repository relies on (golang-migrate's lock and dirty mark, the pool's bound, PostgreSQL's
deadlock detector) show what a property depends on outside the repository's own code.
