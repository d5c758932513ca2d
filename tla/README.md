# A verification of Gargantua

Gargantua is a C web framework: a code generator reads annotated C sources and
writes routes, SQL and a `main`; a runtime library serves HTTP with a fixed pool
of threads, one SQLite connection, migrations, scheduled tasks and an HTTP
client. This directory models the parts of the runtime whose correctness depends
on orderings, failures and limits, checks them with TLC and proves the central
results with TLAPS.

Paths below are relative to the repository (`src/server/server.c` is the file
`src/src/server/server.c` of this working tree).

## 1. Inventory

| component | state it keeps | operations | talks to | hard behaviour |
|---|---|---|---|---|
| connection pool (`server/server.c`, `server_worker.c`) | `g_queue` (ring of descriptors, `stopping`), `g_stop`, `g_drain_over`, `w->socket` | accept, push, pop, serve, close, stop | client limits, request serving, kernel | shutdown racing with a worker between pop and publish; condition variable; reuse of descriptors |
| client limits (`client_limit` in `server.c`) | table of 256 slots | connection +1, -1, request | pool, worker | slots given away and taken again; the clock is read before the lock, so a window may start with a time that is past |
| request serving (`server_serve.c`, `server_http.c`) | thread-local response state, request buffer | read, route, dispatch, send, reset | router, runtime, static files | state of one request leaking into the next; pipelined bytes; deadlines |
| transactions (`db/db_sqlite.c`, `runtime_api.c`) | `g_db`, `g_db_lock`, `t_depth`, `t_failed_level` | begin, statement, commit, rollback, abort, jump | SQLite, generated code | `siglongjmp` over open scopes; failing control statements; SQLite's own rollback |
| migrations (`db/migrate.c`) | the directory, the table of applied scripts | read, check, apply, commit | SQLite, main | crash in between, two processes, edited files |
| scheduler and main (`runtime/scheduler.c`, `generator_emit_main.c`) | `scheduler_stopping`, threads, arenas | prepare, startup, start, wait, stop | database, migrations, dispatch | stop racing with a body, partial start, another process migrating |
| store (`db/store.c`) | rows under a mutex | add, put, get, list, clear | runtime | a row is copied in pieces; capacity, list limit |
| database access (`db/search.c`, `collection_db.c`, `schema.c`, `optional_args.c`) | none of its own | search, page, read and write rows | SQLite | pages over rows that sort alike; offsets at the width of an int |
| request runtime (`runtime.c`, `runtime_error.c`, `runtime_body.c`, `auth.c`) | failure, field errors, auth and bind state of the thread | fail, raise, bind, gate | serving, generated code | first failure wins; gate before body |
| HTTP framing (`http/http.c`, `response.c`, `dynbuf.c`) | request buffer | parse, consume, send | serving | boundaries of head and body, limits |
| routing (`http/route.c`, `generator_route.c`, `generator_validate.c`) | route table | declare, find, allow, parameters | serving, generator | literal before parameter; agreement of 400, 404, 405 and `Allow` |
| JSON (`http/json.c`) | tokens, frames | parse, get, path | body | depth and token limits; keys in two spellings |
| arena (`core/arena.c`) | chunks, the spare chunk | alloc, reset, free | everything per request | sizes at their limits; memory that passes to another request |
| HTTP client (`runtime/fetch*.c`) | connection, deadline, reply | connect, handshake, send, read, parse | handlers | one deadline over all steps; cut, chunked and contradictory replies |
| generator (`src/generator`) | `ParseState`; tables of types, routes, services, tasks | read, validate, emit | build | annotations pending over lines; returns out of a transaction; order of types |
| templates, static files, configuration, DDL text, banner, packaging | little or none | formatting, lookup | serving, main | - |

### What makes each component correct

* **Pool.** A descriptor has one owner at every moment; counters are exact on
  every path; nothing is leaked; after shutdown began every worker ends.
* **Client limits.** One slot per address, counting exactly its open connections;
  bounded requests in any span of one window, however stale a time is used.
* **Transactions.** The lock, the depth and SQLite agree; a scope is kept whole or
  not at all; success means committed; nothing leaks into the next request.
* **Migrations, scheduler and main.** Scripts once, in order, a directory as a
  whole; no start on a history the files do not show; no task body without its
  arena, before the migrations or after the database is closed; stop returns.
* **Serving and framing.** A response depends on its own request only; request
  boundaries are kept over pipelining; limits are exact.
* **Routing.** The answer does not depend on the order of the table, and a
  refusal agrees with what would be served.
* **JSON.** Exactly the texts of the grammar within the limits are accepted, and a
  lookup finds the member a reader of the text would find.
* **Store, arena, paging.** Readers see whole rows; blocks do not overlap and hold
  nothing of another request; pages partition the table.
* **HTTP client.** A reply handed over is the reply that was sent; failures have a
  cause; the socket is closed; the call ends.
* **Generator.** What is accepted binds every annotation to the declaration it
  stands above, leaves no scope by a return and declares types before their use.

## 2. Modules

A module's comments name the functions it stands for; `PROJECT.json` maps each
definition to its lines. Operators introduced by "Variant:" are deliberate
mistakes; no action uses them. They are substituted for a definition to see
that a property notices.

`Startup` composes `Migrations` and `Scheduler`, `Transactions` refines
`AtomicCommit`, `MCLibrary` and `MCGenerator` put parts that share no state side
by side. The other modules stand alone. A module `XProofs` holds the theorems about
`X`, `LibraryProofs` those about the parts of `MCLibrary` and `GeneratorProofs` those
about the parts of `MCGenerator`; section 6 describes them.

### ServerPool (`server.c`, `server_worker.c`, parts of `server_serve.c`, `server_http.c`)

State: the two flags, the queue, the workers blocked in `pthread_cond_wait`, the
kernel's view of each descriptor, the counters, the program counters of the main
thread and of every worker. One action per section under `g_queue.lock` or
`g_limit_lock`, or per access to an atomic. `queue` is a sequence: head, tail and
count of the ring buffer are abstracted. `AcceptOne`, `AdmitClient`,
`PushClient`, `UnlimitClient`, `RejectBusy` are `accept_one` and what it calls;
`ClearQueue`, `DrainPoll`, `DrainEnds`, `ShutdownSockets`, `JoinWorkers` are
`stop_workers`; the others are `queue_pop`, `worker_main` and the keep-alive loop
of `handle_connection`. Descriptors are reused as the kernel does, so a double
close would close a stranger. A worker may be woken for no reason. `conns` is the
contract of `client_limit`, which `ClientLimits` models with its table.

### ClientLimits (`client_limit`)

A call is two steps: `Enter` reads the clock, and the part under `g_limit_lock`
(`ConnectKnown`, `ConnectNew`, `TableFull`, `Request`, `Release`) uses the time that
was read, by then as old as the scheduler made it. Every worker may have one call
under way and the thread of `accept_one` another, and only the latter asks for
connections. The clock (`Tick`) is external. `granted` remembers of each granted
request when it was asked, when it was granted and in which window it was counted.
That `CLOCK_MONOTONIC` cannot be read is not modelled.

### Transactions and AtomicCommit (`db_sqlite.c`, `runtime_api.c`)

Each action is one call of `db_*`, of `transaction_*`, or the jump of
`request_raise`. SQLite is a value `cur` and a stack `saved` of snapshots. The
variable `faults` never changes: it is the set of failures that may happen in a
behaviour, one of `FaultSets`, so that one run can state what holds with every
failure and what holds without some of them (`ScopesKeepTheirPromise`).
`AtomicCommit` is the promise: whole transactions, one writer, none of a failed
request; `Transactions` is shown to refine it with `committed`, `pending` and
`broken` computed from its state. `dispatch_task` behaves as `dispatch_route` does
and is not a separate action. A call that `db_execute` and its like refuse for its
arguments returns -1 before it takes the lock and changes nothing, not even the
failure level: it is no step of the model, and `SuccessIsComplete` speaks of the
statements that came as far as the lock.

### Migrations, Scheduler and Startup (`migrate.c`, `scheduler.c`, the generated `main`)

`Migrations` has processes with their own read of the directory, a crash between
any two steps (`End`), people editing files (`ChangeFiles`), one writer by BEGIN
IMMEDIATE. Reading the directory is one step. `Scheduler` is the order of main
from `scheduler_prepare` to `db_close` on every success and failure path, and one
thread per `$repeat` task; the 100 ms pieces of `scheduler_wait` are not counted.
`Startup` joins them as `emit_main` writes it: main of the process `Self` goes on
when its `migrate_run` has returned 0, a crash takes its tasks with it, and other
processes migrate the same database meanwhile.

### HttpFraming (`read_request`, `http_parse_request`, `dynbuf.c`, `consume_message`)

A byte is the place it was sent from (connection, message, offset), so the model
can say which bytes a served request is made of. The client puts up to
`MaxStream` messages on the wire; `Receive(n)` delivers any prefix that fits.
`Parsed` is `http_parse_request` over what a parser can see: where heads end and
which headers a head holds; the grammar of a head is one verdict (`syntax`).
`Grown` is the doubling of `dynbuf_reserve`, cut at its limit. The end of the
stream, the deadline, a failing `recv` and a lack of memory are one action, which
clears `calm`.

The model shows something the limits do not say by themselves. The buffer's limit
is the same number as the limit of a body, and `read_request` always asks for one
chunk and one byte more than it holds. A body of the largest permitted size can
therefore never be received; and a request whose length lies within one chunk
below the buffer's limit is accepted or answered 413 depending on how its bytes
arrive. `RefusedForCause` states the bound that does hold.

### Serving (`handle_connection`, `serve_request`, and what they keep per thread)

One worker and the requests it serves one after the other. The thread-local
variables of `server.c`, `response.c`, `auth.c`, `runtime_error.c`,
`runtime_body.c` and `runtime_api.c` are the fields of the record `t`, and each
function that changes them is an operator from a record to a record
(`ResetResponseState`, `AuthBind`, `Fail`, `FieldErrorAdd`, ...). A request is a
record of the facts the code asks about it; its handler is a sequence of calls
into the runtime, executed one at a time, so that a throw can come between any
two. `Expected` is the specification: the answer as a table of rules over the
request alone, written without the thread-local state. Names and values of headers
are abstracted to whether they are there, and the limit of 16 response headers is
left out. A route needs nothing, any user or the users of one role; `auth_gate`
compares roles as they are, so that an admin is refused where the role user is asked
for. Transactions (in `Transactions`), the bytes (in `HttpFraming`) and the log line
are not part of this module.

### Fetch (`fetch_api.c`, `fetch.c`, `fetch_reply.c`)

One call of `$fetch` or `$send`: the checks of the target, the addresses one after
another, TLS, sending, reading, and `parse_reply` step by step over the buffer
that `decode_chunked` rewrites in place. The peer is a reply cut into any pieces,
with silence, an early end or a broken connection anywhere; time passes (`Tick`)
between any two steps. `Intact` compares what is handed over with what the peer
encoded. Of a header the parser's verdict counts (`HeaderKinds`): `header_int` reads
the digits at the start of a length and nothing after them, so `2, 3` is a 2. A head
that is too long for its buffer is not an action: a content type
has at most 128 bytes, and the buffer of `build_request` always suffices.

### Routing (`generator_route.c`, `generator_validate.c`, `route.c`, `resolve_route`)

The table is built route by route as the generator accepts it, or refused; then
requests are looked up in it. `RouteFindExact` is the scan of the code; the
properties compare it with definitions over the set of routes. A path that is too
long for a placeholder makes the scan report 400 unless another route matches.

### Arena (`arena.c`)

Chunks, the list, the spare chunk and the sum `used`. Each block is remembered with
its place so that overlap and leftover data can be stated. Whoever gets a block
writes the whole of it. `Doublings` and `Enough` say which capacity the doubling loop
of `arena_alloc` ends with.

### Store and Paging (`store.c`, `search.c`, `collection_db.c`)

`Store` copies a row field by field in both directions, into memory that was there
before (the slot of the table, the rows allocated for the reader), with the mutex as
the code takes it, next to `ideal`, the table in which each write is one step. What a
read returns is a value of its own, so the point of `ReadsAreSnapshots` is the lock.
`Paging` is `db_search` and a caller, which is external: it asks for the next page
while `has_more` says so, or for any page. The table does not change between two pages
of a walk: they are separate statements, and a row written or deleted in between may
well move another over the border of a page. `db_query_page` sorts by the key alone
and is not modelled. SQLite may return rows that sort alike in another order for each statement, unless the
primary key ends the ORDER BY. An int has the width `IntMax`, and a product past
it wraps.

### Json (`json.c`)

`json_parse` as a scanner over lexemes with its stack of frames and flat array of
tokens. The reference is a recursive grammar (so the module is outside the
prover's reach). A string is its spelling; `Decode` is what `json_copy_str` makes
of it for `strcmp` and `strlen`. Both stop at a NUL, so `{"a":1,"a\u0000":2}` is
refused for a duplicate key, a spelling like any other that means `a`. The numbers of
tokens and members a text may have are the variable `limits`, so that one run meets
several. `ParsesExactly` says three things: what is accepted is a text of the grammar
within the limits, what ends too early is none, and what is refused could not have
become one, whatever had followed.

### Annotations and Models (`src/generator`)

`Annotations` reads a file line by line with the `ParseState` of the code: what
is pending, the braces, the open type, the signature that is joined over several
lines. Each annotation, declaration and field line is an operator from a parser
state to a parser state. Reading stops at the first error, because then nothing
is generated. `Models` takes the types of all files through `resolve_picks`,
`validate_type_fields`, `validate_nesting_depth` and the passes of
`emit_model_includes`.

Some things the code does that a reader may not expect, and that the model keeps:
an authentication annotation above a task or a store stays pending and applies to
the next route; of two `$role` lines the last counts; a task may be declared by a
prototype or on one line. Three things are left out: a malformed `$nullable(`,
which drops its field without an error, `$transaction` before a single
statement without braces, which the guard does not look into, and the checks of a
field's flags and C type in the validators, which only refuse more.

## 3. Runs

`PROJECT.json` lists for each run its configuration, its properties and, for each
property of a passing run, a variant under which TLC finds it violated.

| run | question | answer |
|---|---|---|
| `pool_safety` | Does every descriptor have one owner, is every count exact, does the shutdown reach every worker and leave nothing behind? | yes |
| `pool_live` | Does a stop complete, and does every accepted connection end? | yes, under the fairness of section 5 |
| `pool_ready` | Is `/health/ready` 503 whenever the server is shutting down, as README.md:317 says? | no: when `accept` fails, `g_stop` stays 0 while `g_drain_over` is set, and a drained connection gets 200 |
| `tx` | Do lock, depth and SQLite agree under every modelled failure, and does success mean that all of it was committed? Without SQLite's own rollback, a failing ROLLBACK and `break`, is each scope atomic and does a request without an error succeed? Is this an implementation of `AtomicCommit`? | yes |
| `tx_nested` | Is a scope atomic when SQLite rolls back inside an inner one? | no: the outer body goes on without a transaction, and what it writes then is kept although the scope fails |
| `tx_stale` | Can a transaction in which nothing went wrong be refused? | yes: `t_failed_level` of an earlier request is still set |
| `startup` | Two processes, crashes, edits, tasks: scripts once, in order, as a whole? No start on an unknown history? Do task bodies run only in their world, and does stopping end? | yes |
| `framing` | Are requests cut exactly where the client cut them, inside the buffer, and refused only for a reason? Does every read end? | yes |
| `serving` | Does an answer depend on its own request only, is nothing of it left behind, is `Connection` true? | yes |
| `fetch` | Is a reply that is handed over the reply that was sent? Does a call fail only for a reason, close its socket and end? | yes |
| `generator` | Does every accepted annotation bind to its declaration, does no return leave a transaction, is every type declared before it is used? | yes |
| `library` | For each of the limits table, routes, arena, store, pages and JSON: are its promises of section 1 kept at every limit? | yes; of the requests made in the time of one window an address gets at most two windows' worth, and one more for each worker that had read the clock before |

The three answers "no" are recorded as findings in `PROJECT.json`, with the line of
the code and the line of the documentation it disagrees with.

`library` and `generator` explore one part per behaviour while the others rest: the
run has the behaviours of each part, not their product. Their parts share no
variable.

## 4. Bounds

* **Pool.** Two workers, a queue of two and five descriptors: one connection
  being admitted, two queued, two held, so the queue is full while both workers
  are busy, and a sixth descriptor could have no owner. Two addresses with a limit
  of two. Two requests per connection reach the last one of the keep-alive loop.
  Descriptors, workers and addresses are interchangeable, so symmetry is used; the
  pool's liveness runs are smaller and use none.
* **Client limits.** Three addresses for two slots: a slot must be given away, and
  the table can be full. One worker and the acceptor, each of which may hold a time
  that is past. A window is two ticks. Three ticks of time are enough to give a slot
  away and take it again; a fourth, in which only the watched address has been active
  (`Alone` in `MCLibrary`), is what two windows that meet and a stale request need: the
  bound is reached, and without the one more for each worker it is violated. One
  connection and one request per window are the smallest limits that refuse; the
  theorems are for any. The addresses are interchangeable, so symmetry is used.
* **Transactions.** Two threads compete for the lock; depth two is a nested
  scope; three rows distinguish what is written before, in and after it. The
  two violation runs need one thread and two rows.
* **Startup.** Two processes and three candidate files (version 1, and version 2
  with two contents) of which a directory holds at most two: insertion before,
  edit and deletion of an applied file. Two repeating tasks, so the second may
  fail to start; one startup task.
* **Framing.** Two connections of two messages; heads of 1 to 4 bytes and bodies
  of 0 to 9 lie on both sides of the limits (head 3, body 8, buffer 8, chunk 2),
  and the buffer doubles twice before it meets its limit. The rounds of a read
  are bounded as in the code (`SERVER_READ_STEPS`), by 6.
* **Serving.** Three requests of 38 kinds over two connections of at most two:
  any request after any two others, on the same connection or the next. Two
  field errors stand for sixteen; one request has three.
* **Fetch.** Sixteen replies on both sides of the limits (body 3, wire 12, three
  lines, three chunks) with every combination of lengths and encodings the parser
  tells apart; six requests; hosts of no, one and three addresses, the first
  forbidden, of which two are tried; a budget of two ticks.
* **Generator.** Four shapes of files, six to eight lines long, each line free
  among those that interact: routes, tasks, bodies, types. Four types in two files,
  nesting at most two deep: a chain of three and cycles exist.
* **Routing.** Tables of up to three routes over literal, placeholder and mixed
  patterns of at most two segments, two methods, five methods to ask with, a value
  that is too long.
* **Arena.** A limit of 18, chunks of at least 4, of which those up to 8 are kept,
  requests up to 11: a chunk of its own, a doubled one, one cut at the limit.
* **Store.** Two threads, rows of two fields, capacities of one and two: the
  generator admits no store larger than a list may be (`PAGE_MAX`, here 2), although
  the runtime alone would (`STORE_MAX_ROWS`, here 3).
* **Paging.** Up to five rows with two sort values in both directions, pages of
  two, an int of at most 5, so that the product wraps on a page that can be asked.
* **Json.** Texts of up to ten lexemes and depth two, under three pairs of limits:
  four tokens and two members, five and one, five and two. An array or object with five
  tokens and two keys has nine lexemes, so a text that has one token, key or level too
  many is whole within ten and would be accepted if the limit were off by one. Two spellings of one
  key, another key, a string too long for a key; paths of two segments.

## 5. Fairness

* **Pool.** Weak fairness for the main thread (without a need to receive a signal
  or a connection, or for `accept` to fail) and for each worker: threads that can
  run are scheduled, and reading, serving and sending end because each has a
  deadline of five seconds and handlers are assumed to return. There is no strong
  fairness: which waiter a signal wakes is left open.
* **Startup.** Weak fairness for main and each task of `Self`: bodies return,
  intervals pass. `server_run` need not return, nobody has to edit files, and a
  process may crash at any time.
* **Framing.** Weak fairness for the worker: `recv` returns at the deadline at the
  latest. Nothing is assumed of the client or about what `recv` returns, so it may
  be interrupted every time.
* **Fetch.** Weak fairness for the calling thread and for the clock. Nothing is
  assumed of the peer. `getaddrinfo`, which the deadline does not cover, is assumed
  to return.

## 6. Proofs

Eight modules hold proofs; each extends the module it is about, and `PROJECT.json`
lists the theorems. They hold for every value of the constants that the named
assumption of the module admits, which TLC evaluates on the instances of the runs.
All of them have the same form: an invariant that is inductive (it holds at first,
and every action keeps it: one lemma per action or group of actions), from which
the property follows. Where a property of section 3 needed more than itself, this
is what was added and why.

| module | proves | for any | assuming |
|---|---|---|---|
| `ServerPoolProofs` | `TypeOK`, `UniqueOwner`, `ShutdownReachesAll`, `CountsExact`, `CleanExit`, `NoDescriptorLeak` | workers, descriptors, addresses, limits | `PoolAssumption`: numbers are naturals, all but the drain polls positive; finitely many workers; `None` is nothing else |
| `TransactionsProofs` | `TypeOK`, `OneTransaction`, `SuccessIsComplete`, `ScopesKeepTheirPromise`, the refinement of `AtomicCommit` | threads, rows, depth, sets of faults | `TxAssumption`: a positive depth |
| `StartupProofs` | the types, `InOrderOnce`, `StartedIsCurrent`, `WholeDirectory`, `TasksRunInTheirWorld` | processes, files, tasks | versions are positive; `Self` is a process |
| `ServingProofs` | `TypeOK`, `NothingDangles`, `Authorised`, `KeepsItsWord`, `Isolated`, and that every request begins in the state the thread began in | requests, handlers, limits | `ServingAssumption`: positive limits of requests and of field errors |
| `HttpFramingProofs` | `TypeOK`, `Framed`, `ZeroFits`, `RefusedForCause` | messages, connections, cuts, limits | `FramingAssumption`: a buffer larger than a chunk, and messages whose body is as long as one of the lengths their head gives, or that say chunked |
| `FetchProofs` | `TypeOK`, `Intact`, `RefusedForCause`, `ChannelClosed` | replies, requests, hosts, limits | `FetchAssumption`: the peer's chunks lie one behind the other |
| `LibraryProofs` | `TypeOK`, `CountsLive`, `RateBound` of the client limits | slots, addresses, workers, window, limits | `LimitsAssumption`: the numbers are positive; finitely many workers, of which the acceptor is none |
| | `ArenaSound`, `ReadsAreSnapshots` | limits, sizes, alignments; threads, fields, capacities | `ArenaAssumption`: a limit of at least the smallest chunk; `StoreAssumption`: the fields are numbered from 1 and there is one |
| | `MostSpecific`, `StatusExplains` | tables, patterns, methods, paths | `RoutingAssumption`: patterns are sequences of segments, paths of values, the methods of routes the five of the generator |
| | `PagesPartition` | tables, sizes, directions, widths of an int | `PagingAssumption`: the numbers are naturals |
| `GeneratorProofs` | `DeclaredBeforeUse` | types, files, levels, declarations | `ModelsAssumption`: the numbers are naturals; only a `$json` has a `$pick` |
| | `NoReturnEscapes`, `AnnotationsBind` | files, lines, limits | `AnnotationsAssumption`: the limits are naturals, and the files are made of `Lines` |

**ServerPool.** That a descriptor which `accept` returns is nobody's needs
`OwnersOpen` (what is owned is not free); that closing does not hurt another owner
needs `OwnersDistinct`; and both need `PublishedIsHeld`, because `ShutdownSockets`
acts on what is published. `OwnerInv` is their conjunction, and `NoDescriptorLeak`
a part of it. `ShutdownReachesAll` rests on the order of the shutdown: a worker that
publishes after the scan must see `g_drain_over`, hence `ShutdownOrder` says that the
flag is set before the queue is cleared unless no connection was ever accepted, and
that the cleared queue stays empty. `PoolInv` is all of this and does not mention
the counters. `CountsExact` is proved on top of it: each action moves a connection
between the sets whose cardinalities the counter sums up (admitted, queued, held).

**ClientLimits.** `CountsLive` is inductive with the types and with what the calls
under way are (`CallsInv`: no more of an address than it has connections): a call writes
one slot, which was its caller's or was given away without connections. `RateBound` is
not, as it speaks of the last seconds and the code of windows, which may begin with a
time that is past. `GrantsInv` says what survives that: a request is counted in a window
that was not over at the time it was asked; two windows of an address begin at least
`Window` apart, whatever times they begin with (a window is renewed, and a slot given
away, only by a time that is that much later); none has more requests than the limit.
So the requests asked in the last `Window` seconds are of two windows (`PromptWindows`).
Those that were granted in that time but asked before are one for each worker at most
(`StaleIsOneEach`), since a worker asks for the next when it has its answer. A slot
that is given away and taken again keeps the distance because one thread hands out all
the slots: the time it has read is not before the end of the last window
(`AcceptorTime`).

**Transactions.** `OneTransaction` says which levels exist, and the promises speak of
rows. `Nested` and `Levels` say that snapshots grow and where the rows of an open scope
are; `AllComplete` and `AllCalm` say of every thread, wherever it is, what has
become of the rows it wrote. The refinement is proved step by step from the same
invariant: each action maps to a step of `AtomicCommit` or leaves `committed`,
`pending` and `broken` alone. `AtomicCommit` has no fairness, so this is the whole of
the refinement.

**Migrations, Scheduler, Startup.** The list a process read is sorted, which makes
"the applied scripts begin it" the same as "none was edited, inserted before
or deleted". `StartedIsCurrent` says so of the step by which a process starts: what the
database had recorded begins its files, by the count and by the comparison, and
becomes all of them. `Progress` says how far each process is, and `OneWriter` that only the
process in a write transaction is between check and commit. For the tasks,
`SchedulerInv` says in which phases of main threads and arenas exist. That
`ByVersion` really sorts is proved from the number of smaller versions, the
place of each file.

**Serving.** `Bound` lists, for each place of the worker, what the thread-local
record may hold; it is what makes `EveryRequestStartsAfresh` inductive.
`Credentials` does this for the identity, and `Counted` relates the number of requests
served to the promise of `Connection`. `Isolated` compares the answer with one computed
from the request alone, so its invariant, `Isolation`, says at every place how that
answer can be read off the thread-local variables: before the handler they are `Clean`;
while it runs, those of the calls that are done (`Running`, `Progress`), with the
rest of the script still to come (`Script`); when it has ended, the first of the
`Rules` that holds is the one that decides, and the response `Landing` on the wire is
the one that rule gives.

**HttpFraming.** `InStep` says that buffer and wire together are the rest of the
client's messages, byte by byte, wherever the reader is. For that, what a parser sees
is proved to be the head and the body of the first message: the end of the head is
the least place at which one ends. `Interim` is needed because the 100 that was sent
must belong to the head in the buffer.

**Fetch.** `Reading` says at each step of `parse_reply` how far the headers or
chunks were taken, that the decoded bytes are those of the chunks so far and that the
bytes from the current position on are `Untouched`: `decode_chunked` writes into the
buffer it reads from, and never overtakes itself. `Ended` says why the reading
ended and `Channel` which socket is open.

**Arena.** `ArenaInv` adds to `ArenaSound` that data lies only in bytes that were
cut (so that wiping what was cut wipes everything), that a block lies in what was
cut of its chunk, and the partial sums of `used` as a witness.

**Store.** `StoreInv` says that only the holder of the lock is at work; that a
writer's earlier fields are written and its row is the only one that differs
from `ideal`; and that a reader's earlier cells are those of the snapshot and the
row it is at is the one that belongs there.

**Routing.** A table that a server serves has no clash: of two routes of a method
that match one path, one is more specific. `ScanSound` says what the scan of
`route_find_exact` knows after each route, the best match so far and no tie, so that
at the end it has the one best route; what the answer without a route says follows from
the same facts about the methods of the table.

**Paging.** `PagingInv` says that the table is `Sorted` by the rank of its rows, which is
one order because the key breaks ties, and that the pages the walk has met are the
first of the partition, each as large as it should be. A page
that is asked for by itself has the rows of its place, also where page times size
would leave an int.

**Models.** `Depths` says that every depth that is known is one more than the largest
below it, and `Includes` that the files included so far come after those that they use.
The passes need a measure: `ModelsInv` says that after n of them either n types (files)
are settled or a pass changes nothing (`Stuck`, `Blocked`), so that after as many as
there are types (files) nothing is left that could be settled. What is left then has
a chain of any length, or no order: of the files that are left the first in any
order would have been included.

**Annotations.** The properties are about the text, the code about a `ParseState` that
forgets it; so each kind of line is first given its effect on the state (`TopEffect`,
`StructEffect`, `LineEffect`), and the invariants say what the state still knows of the
text. For `NoReturnEscapes` that is `Guarded`, by way of `Watch` over the stream of tokens:
every open block of a transaction is on the stack `txDepths` with the depth its brace was
opened at, as the braces since then count it, and a `$transaction` without its brace so far
is remembered. The brace that ends a type is the exception, as the guard never sees it. For
`AnnotationsBind` it is `BindInv`: what is pending is what the lines since the last
declaration say (`RouteNoted`, `Pending`), and the annotations so far are as many as the
declarations plus the one awaited, each with only lines that are passed over between it
and its own (`Bound`, `Scope`). While a signature is joined over several lines (`Waiting`,
`Before`), it stands for the line of its head.

The models were written for both tools: a loop whose result the provers must know is
given by what it computes (`Parsed`, `Doubled`, `ByVersion`, the ends of the chunks).
`Doubled` was compared with the loop of `arena_alloc` by TLC, for smallest chunks of 1
to 5 and limits up to 25.

## 7. Only model-checked

* Liveness (`StopCompletes`, `ConnectionsEnd`, `StopReturns`, `ReadEnds`,
  `FetchEnds`), because the prover does not handle fairness.
* `ParsesExactly` and `LookupExact`: the reference grammar is a RECURSIVE operator,
  which the prover does not support.
* The three violations, which are counterexamples.

## 8. Not modelled

* Text: SQL and DDL generation, the emitted wrappers and OpenAPI document,
  templates, banner, log lines, the grammar of heads, URLs, numbers and UTF-8. They
  have no state, and their conditions appear as verdicts where a model needs them.
* The conversion of rows and of body fields (`runtime_body.c`, `patch_apply`,
  `schema.c`): field by field and driven by tables, without state between fields.
* The arena's canaries, which catch damage done by other code.
* The `fetch_json_*` helpers, which only read the last reply.
* Configuration: read once before any thread exists.
* Static files beyond the answers they give, and the packaging tools: scripts
  around the build.
* Kernel, SQLite, OpenSSL and libc are external: modelled from the way the code
  uses them, including their failures.

## 9. Plan

What is left: the ring buffer of the queue as a module of its own, shown to implement
the sequence of `ServerPool`.
