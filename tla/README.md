# Verification of the live results gateway

`lr-gateway` receives tables of results from a data server over TCP, keeps
them, and sends HTTP requests to publish them. Everything runs in one thread:
an event loop (libevent) calls the gateway when bytes arrive, a timer runs out,
a connection fails or an operator types a command. There are no locks and no
data races. What is hard is the order in which callbacks become active and run
in one pass of the loop, state that outlives a connection, and code that is
entered while a structure is half-way through a change.

The modules here are translated from `src/src/*.c`; paths below are relative to
`src/src/`. `PROJECT.json` names, for every definition that models code, the
lines it stands for.

## 1. The system

| component | state it keeps | operations | who calls it |
|---|---|---|---|
| client connection (`oris_socket_connection.c`) | bufferevent, `reconnect_timeout_event` | connect, failure event, reconnect timer, write | loop; data protocol writes |
| data protocol (`oris_protocol_data.c`) | `state`, `outstanding_requests`, `last_req_tbl_name`, `idle_event`, `buffer`, `buf_size` | read callback, write, `idle_event_cb`, `table_complete_cb` | loop, automation, operator |
| tables (`oris_table.c`) | rows, fields, `state`, `current_row`, `temporary` | create, clear, add, copy, update, dump, load | data protocol, automation, operator |
| automation (`oris_automation.c`) | events with actions, timers | trigger, `iterate`, `foreach`, `update`, `copy`, `request`, HTTP | data protocol, timers, new connections |
| HTTP targets (`oris_http.c`) | URI, connection, `enabled`; `paused` | perform on all targets, compress, done callback | automation, operator |
| control connections (server part of `oris_socket_connection.c`, `oris_protocol_ctrl.c`) | sessions, input, output | accept, read callback, commands | loop |
| storage file (`oris_table.c`, `oris_gateway.c`) | the file | dump after every complete table, load at start | data protocol, operator, `main` |
| protocol framework (`oris_protocol.c`, `oris_connection.c`) | lists of connections and protocols | send to all, parse a URI | automation, operator, configuration |
| configuration (`oris_configuration.c`, `grammars/`) | trees of requests, templates, events | parse files, look up | `main`, automation |
| start-up (`oris_gateway.c`) | arguments, list of configuration files, the function to run | read the arguments, load, run the loop, end | operating system |
| expressions (`grammars/oris_interpret_tools.c`) | memory pool of values | operators, casts, built-in functions | automation, configuration |
| logging, utilities, vendored code | - | - | - |

How they interact: bytes become lines (framing), a line becomes a row of a
table, the last line of a table announces it. The announcement triggers the
automation, which may ask for more tables (requests back to the data
protocol), copy and update tables, and send HTTP requests. Only then does the
data protocol look whether the table answers the query it waits for. Operators
reach into the same tables, targets and requests at any time.

What makes each part correct, and what is hard about it:

* **client connection** - a failed link is always tried again; timers of an
  old failure neither multiply, dangle, nor tear down a new link. Hard: one
  bufferevent can fail twice, and each failure stores a timer over the other.
* **data protocol** - a wait for a reply always ends, a timer belongs to the
  query that armed it, requests are not forgotten in the queue. Hard: the reply,
  the timer and writers of one pass run one after the other.
* **the connection as a whole** - the server is asked one thing at a time, and what
  is queued for a link that broke does not keep the next one from being used. Hard:
  the state, the queue and the timer of the protocol outlive the link; what was
  written into its buffer does not.
* **framing** - every line once, whole and in order, wherever TCP cuts the
  stream. Hard: four pointers and counters that move together, a buffer that
  outlives its connection.
* **tables** - what is announced is one transmission, whole. Hard: lost lines,
  broken connections, and three kinds of writers who do not look at `state`.
* **automation** - a loop visits each row once and gives the cursor back. Hard:
  the cursor belongs to the table, not to the loop; bodies may change the table.
* **HTTP targets** - a request reaches each enabled target once, in order, with
  its body. Hard: one body buffer for all targets, failures, toggling targets.
* **control connections** - a command takes effect and its effect is not lost.
  Hard: several lines in one read, replies written after the session changed.
* **expressions** - the value of an expression depends on the configuration and
  the tables only, and its memory comes back. Hard: values are cells of a pool
  that are not cleared, taken and given back by hand, with operands cast in place.
* **configuration** - several files are as good as one; no block leads into
  memory that is not there. Hard: all files are parsed into the same variables, names
  are looked up when a block runs and not when it is read, a lookup that fails gives
  NULL, and a timer's block is run by other code than any other block.
* **storage** - what is stored is loaded. Hard: nothing is quoted, the file is
  truncated before it is written, tables share one file.

## 2. Modules

| module | models | of |
|---|---|---|
| `DataProtocol` | the request/response discipline, in steps of one callback | `oris_protocol_data.c` write, `process_line`, `idle_event_cb`; `oris_protocol.c` send to all |
| `SocketConnection` | failures and reconnect timers | `oris_socket_connection.c`, client part |
| `Gateway` | `DataProtocol` over a link that comes and goes, with a server | client part of `oris_socket_connection.c` as `oris_protocol_data.c` sees it |
| `DataLink` | abstract: one link at a time, replaced only after its failure | - |
| `LineChannel` | abstract: lines, each at most once, in order | - |
| `LineReader` | the loop over the bytes read | `oris_protocol_data_read_cb` |
| `TableSpec` | abstract: what an "on table" event promises | - |
| `TableFeed` | rows and states of tables, line by line, with all who change them | `process_line`, `oris_table.c`, clear/add/copy |
| `Automation` | actions, nested loops, cursors, the array of tables | `oris_automation.c`, cursors of `oris_table.c` |
| `HttpTargets` | one request to all targets, evhttp's queues, compression | `oris_http.c`, `target`/`http`/`pause` commands |
| `ControlSession` | sessions, lines of a read, deferred replies | `oris_protocol_ctrl.c`, server part of `oris_socket_connection.c` |
| `Storage` | dump, crash, load | `oris_table.c` from `oris_tables_dump_to_file` on, `oris_tables_load_from_file` |
| `Expressions` | operators, casts and built-in functions over the cells of the pool | `grammars/oris_interpret_tools.c`, `expr` of `configTree.g` |
| `Configuration` | arguments, files, what an event runs and with which definitions | `oris_gateway.c`, `oris_configuration.c`, events and lookups of `oris_automation.c` |
| `MC*` | small instances for TLC | - |
| `*Proofs` | theorems | - |

`Gateway` EXTENDS `DataProtocol`: each of its steps is one of the protocol, of the
link or of the server. `DataLink`, `LineChannel` and `TableSpec` are abstract
specifications that `SocketConnection`, `LineReader` and `TableFeed` implement;
`DataLink` is also what `Gateway` assumes of a connection. The other modules meet at names: what
`Configuration` runs is what `Automation` performs, what that requests is what
`DataProtocol` sends, what `LineReader` hands on is what `TableFeed` stores.

A definition whose comment begins with "Faulty:" is not part of any
specification. It is the definition that follows it with a plausible mistake,
and is used to show that a property notices the mistake.

### State and actions, and the code they stand for

**DataProtocol.** `state`, `outstanding_requests`, `last_req_tbl_name` are the
fields of `oris_data_protocol_data_t`. `timer` and `res` are what libevent knows
of `idle_event`: whether its timer runs or has expired, and the flags it is
active with. A pass of the loop is `Poll`, which activates callbacks, then one
callback after the other: `RunRead` (bytes arrived), `RunIssue` (a connection
was made, a configured interval elapsed, an operator typed `request`), and
`IdleIgnored`/`IdleNothingQueued`/`IdleSendsNext` (`idle_event_cb`). A read
callback is split into a step per line, `ProcessLine`, a step per request its
automation writes, `WriteNext`, and `FinishLine`, the comparison with
`last_req_tbl_name`, because each reads what the step before has changed; no
other callback runs in between (`Quiet`). Libevent's part is external: an event
made active twice keeps both flags, `event_add` withdraws an activation by an
older timeout, and before a callback the event and its timer are deleted. Those
three rules are what `idle_event_cb`'s test of its type depends on.

**Gateway.** `link` is the life of a bufferevent as the protocol notices it: its
two reconnect timers, which are the subject of `SocketConnection`, are one wait
that ends, in `Reconnect`. `output` is the bufferevent's output buffer: `Send`
and `Idle`, the two places that call `connection->write`, put a request there
whatever the link is doing, `Flush` drains it, and only a new bufferevent starts
with an empty one - so a request written while the link is connecting is sent,
and one written after it broke is not. `asked` are the queries the server
has got, `wire` the lines on their way back. `Receive`, `Store` and `Finish` are
the steps of a read callback, `Connected` is the callback that triggers
"connection established", `Command` an interval or an operator. `Answer` and
`Push` are the server's. `excuse` and `fresh` are histories: why a query may join
another one in flight, and which tables have come since the link is up.

**SocketConnection.** A timer is a number, `reconnect_timeout_event` the one
the connection knows. `open` are the directions in which the bufferevent can
still fail: libevent disables the one that failed, so there are at most two
failures of one bufferevent. Two timers created in one pass have the same
(cached) time: `tied`, and the heap may return them in either order: `reversed`.
`WriteKills` is SIGPIPE, which the gateway neither handles nor ignores. It ends the
program, and the properties are about a gateway that runs: `ReconnectAttempted` does
not count that end against it.

**LineReader.** The pointers `p_start`, `p_end`, `bufstart` and `buf_size`
become `buffer`, the bytes still to process, and `before`, the byte in front of
them, which the `memmove` of the last part reads. One action per turn of the
loop: `ScanLine`, `ScanPartial`, `ScanDangling` (the chunk ended with STX),
`ScanNothing`, then `Move`. `Break` is a new connection: the buffer stays. `Sent`
is what the server sends up to the end of a line, `Memchr` the place of a delimiter
in the bytes not looked at yet. A byte of a line is the number of the line, so a line
tells where its bytes come from; `DelimiterAssumption` says that lines hold no
delimiter, as the protocol has it, and that the byte in front of the buffer, a part
of the allocator's own size field, is none either.

**TableFeed.** A row is the number of the transmission and of the line it came
in, so a mixture can be told. `ReceiveLine` is the whole of `process_line`:
clear if the table is a response or was complete, add, set the state, announce
when it was the last line. `LoseLine`, `Reconnect`, `ClearTable`, `AddRow`,
`CopyTable` are the faults and the other writers.

**Automation.** `stack` holds the running loops; a frame has the cursor to put
back (`saved`) and what is left of its body. `current_row` is the field of the
table. Expressions are data but for their effect on the cursor: `Read` makes
`current_row` 0 if it was -1. `replaced` are the tables that were copied over while a
loop ran over them. `MovedFrames` is `realloc` of the array of tables:
frames keep pointers into the old one. `undefined` stops the model where C
leaves the behaviour undefined.

**HttpTargets.** `queue` and `connected` are evhttp's, per target. `Left` is what
is left of the one body buffer for a target when the ones before it have been
served, `RequestFor` what is then queued. The module names its initial states, steps and
specification `TargetsInit`, `TargetsNext` and `TargetsSpec`, as it is proved about
together with `SocketConnection`.

**ControlSession.** A step per line of a read; `close` is the variable of
`oris_protocol_ctrl_read_cb` that each line sets; `output` is what bufferevent
has not written yet and `seen` what a client has got. Its names begin with `session` where `LineReader` has one of
the same name: `MCReading` checks the two in one run, each while the other is at rest,
as they share no variable and no callback interrupts another.

**Configuration.** `phase` goes from "arguments" over "loading" to "running" and
ends in "exited" or "crashed". `AddConfigFile`, `LoadDataFile` and `ChooseMain`
are the options, `CallMain` the call through `info->main`, `LoadConfigFile` one
turn of the loop in `oris_load_configuration`: it adds the connections, appends
the blocks (`Collect`) and replaces the requests and templates (`Define`).
`Trigger` and `Tick` start a search through `automation_events`, in which each
block is passed, matched or misread: `Pass`, `Match`, `Misread`. The operations
of a block that matters here are `LookUp`, for those that need a definition,
`Copy`, which makes a table known, and `Other`; `Skip` is a condition that does
not hold or a loop without rows. An "every 0" leaves its event uninitialised:
`Leftover` is what the stack may hold. `ran`, `used` and `culprit` are histories
of the blocks that ran, of the lookups, and of the file that crashed the gateway.

**Storage.** A line of the file is its texts between semicolons. `Dumped` is
`oris_tables_dump_to_file`, `Load` is `oris_tables_load_from_file` with
`oris_find_table_in_file`, both line by line: `Restored` is one turn of the loop over
the definitions, `ReadSection` what it finds behind a header, `RowsAdded` that as rows
of the table. `TornFiles` are the files a gateway may leave that dies while it
writes: its lines up to some place, the last perhaps cut within a text. `IsDefinition`
is what a line of the first section may be, in a file however it was cut.

**Expressions.** `expression` is the sequence of the nodes in the order in which
the tree walker leaves them, `done` how many it has left, `stack` holds the results
not used yet; an action per operator and function takes its operands from there.
`WellFormed` is what the grammar accepts. `Facts` is what is known of each result
before anything is evaluated, and `Sound` an expression of which enough is known. `pool` is the memory
pool: a cell that is given back keeps its type and its (freed) string until it is
taken and set again, which is what `oris_alloc_*` and `oris_expr_eval_binary_op`
do or forget. `lost` are the cells nobody
will give back, `leftover` counts the strings that are in no cell any more, which is what
`TOKEN` leaves of the text it cuts out, and `tokens` the `TOKEN`s so far. `meaning` is a history: what the same expression gives by
`Result`, `TokenOf`, `Looked` and the others alone, without a pool. `Use`,
`UseInTemplate`, `UseInConfiguration` (targets and connections, which do not give the
cell back) and `Abandon` are the callers; `pool.broken` says how C left its
defined behaviour, or its loop, where the model stops. The ints are
`-Half..(Half - 1)`, a text is a sequence of characters with letters of one case.
The module names its initial states, steps and specification `InterpreterInit`,
`Interpret` and `Interpreter`, as it is proved about together with `LineReader`.

## 3. Runs

| run | question | bounds | shows |
|---|---|---|---|
| `DataProtocol_safety` | does every wait end, and why does the queue stall | 2 tables and their responses, queue of 2 before a callback starts | a wait always has a wake-up; timers are never stale; two causes of a stall, no third |
| `Gateway_safety` | is the server asked one thing at a time, and does a new link recover | 2 tables, queue of 2, 2 lines in transit | it is, but for a timeout, an early `idle_event_cb` or an unasked table; what the new link asks for arrives |
| `SocketConnection_safety` | are failed links always and only then reconnected | 7 timers | they are, but for equal deadlines run in reverse, and SIGPIPE; implements `DataLink` |
| `SocketConnection_crash` (violation) | do timers only reconnect | 7 timers | `event_free(NULL)` after a double failure |
| `Reading_safety` | is the reader right for all cuts; do `exit` and `terminate` do what they say | 4 lines of 3 to 5 bytes, chunks to 6 bytes, 2 breaks; 2 operators, 3 lines, 2 to a read | lines are lost only when STX ends a chunk; a break spoils one line; refines `LineChannel`; an `exit` that ends its read is obeyed, `terminate` is silent |
| `TableFeed_safety` | what does an announcement contain | a table of 2 lines, a response; 3 transmissions | a fault spoils two announcements at most; refines `TableSpec` |
| `Automation_safety` | do loops and cursors survive what their bodies do | 7 programs over 3 tables, 5 events | every row once; cursors come back; four reasons why memory is left |
| `HttpTargets_safety` | do requests arrive, where and how | 2 targets, 2 requests | once, in order; compressed bodies are lost |
| `ControlSession_exit` (violation) | is who was told "Bye!" disconnected | 2 operators, 3 lines, 2 to a read | not if a line follows in the same read |
| `Expressions_safety` | is a value what its expression means, which expressions are safe, and does their memory come back | 8 bits, 8 cells, some 110 expressions, two in a row | it is, but for arithmetic without numbers; `Sound` expressions are safe; cells leak by lookups in unknown tables, skipped actions, targets and connections, a string by each `TOKEN` at most |
| `Configuration_safety` | are several files as good as one, and which of them crashes the gateway | 44 command lines of up to 3 files, 4 events | but for definitions outside of the last file; a file that is complete in itself never does |
| `Storage_safety` | is what is stored loaded | 2 tables, 4 kinds of rows, 4 lines or starts | plain tables are; a torn file loses rows at its end only |

The type invariants of `DataProtocol`, `Gateway`, `SocketConnection`, `TableFeed`,
`Automation`, `HttpTargets`, `ControlSession` and `Configuration` are theorems and not
evaluated by the runs.

Why the bounds are enough:

* `DataProtocol`: a query compares its table with one other; two names, their
  `!` forms and a plain request give all outcomes of `Matches`. A queue of two
  has a head, something behind it, and room for a batch of three to be
  appended; `Transfer` and `IdleSendsNext` look at the head only.
* `Gateway`: `OneAtATime` is about a second query in flight, so two lines of the
  server on its own and a queue of two suffice; links may break any number of
  times. The replies are one of two lines and one that is empty, the
  first triggers a further query.
* `SocketConnection`: at most two timers wait (proved), so seven timers are three
  rounds of double failures and reconnects. At the bound no further failure is
  modelled, which ends behaviours.
* `LineReader`: chunks of 6 bytes hold a whole line and parts of two others;
  lines of one byte, two and three put every delimiter at every place of a
  chunk. A second break may hit the line that the first spoiled.
* `TableFeed`: two lines to a transmission have a first, a last, and one that
  is neither complete nor announced; a third transmission follows the two a fault
  can spoil.
* `Automation`: the programs nest two loops over the same and over different
  tables and copy over, from and behind a loop; tables have 0, 1 and 2 rows, wide
  and short. A second pass over the same program starts with the cursors the first
  has left, five events allow tables to change between two triggers and behind them.
* `HttpTargets`: two targets make one first and one behind it, which is all that
  `Left` tells apart; two requests can be repeated and overtaken.
* `ControlSession`: an `exit` and a line behind it, or a `terminate`, of one
  operator while the other is connected.
* `Expressions`: all pairs of a zero, a number, an empty text, a numeral and a word
  under `+`, `-` and `<`, the other operators and the functions once and nested,
  with too few, wrong and NULL arguments. 8 bits are wrapped, exceeded by a
  numeral and compared; the second expression finds the cells of any first one. None
  of them ever finds fewer than the two free cells a node may take.
* `Configuration`: a crash or a lookup is decided by two files, the one of the block
  and the last one; the third is between them. The files are one that defines what
  it needs, one that defines nothing, one that defines only, one with wrong timers,
  one with a syntax error, and one whose requests have the names of templates.
  Four events are enough for timers of one and of two seconds to be met together
  and apart, with a change of the table between.
* `Storage`: one line can fill each of the two tables, restart and dump again;
  the rows are one that comes back (with an empty text in it), one empty, one blank,
  and one with a semicolon that looks like the header of the other table.
  The file is cut in, before and behind every text.

Where a cfg says `CHECK_DEADLOCK FALSE`, the bounded program stops: the stream is
read, the transmissions, timers or lines are used up, or the gateway has ended.
`DataProtocol` never stops and is checked for deadlock.

### Fairness

* The loop runs what is active, and time passes: `DataProtocol` has weak
  fairness of time, and of polling an expired timer and running callbacks.
  Nothing makes the server answer or an operator type, so the liveness
  properties hold with a server that is dead.
* `Gateway` adds to it that an output buffer drains (weak) and that data which
  keeps arriving is read (strong: it cannot be
  read while other callbacks run, and they may run again and again). The server is
  fair only as a premise of `Recovers`; connecting, breaking, commands and `Push`
  are never fair.
* `SocketConnection`: weak fairness of due timers and of running them. No
  fairness of connecting.
* `Automation`: a function that was called goes on. No fairness of events.
* `HttpTargets`: each connection makes progress, with an answer, an error or
  evhttp's timeout. `Closed` and all that operators do is not fair.
* `LineReader`, `TableFeed`, `ControlSession`, `Expressions`, `Storage` and
  `Configuration` state no liveness and need none.

## 4. What the code does otherwise

Two runs are expected to find a violation (the findings of `PROJECT.json`).
`SocketConnection_crash`, `oris_socket_connection.c:99`: two failures of one pass, timers run in reverse
order: `event_free(NULL)`, and what line 144 calls the timer for reconnect
attempts ends the gateway. `ControlSession_exit`, `oris_protocol_ctrl.c:105`: the help
says of `exit` "terminate connection" (`:64`), but `close` is set anew by each line of a
read and looked at behind the last. An operator whose `exit` has a line behind it, be it
an empty one, reads "Bye!" (`:115`) and is still connected. What does hold is that an
`exit` which is the last line of its read is obeyed (`LastExitTerminates`).

Other behaviours a reader may not expect hold as properties, so that a change
of the code shows: a table that was `RECEIVING` when the connection broke keeps its
rows, and is announced with those of the next transmission, README.md:28
notwithstanding (`FaultsAreForgotten`); the queue stalls behind a plain request or when a reply meets
its own timeout (`StallExplained`); a query sent between the reply and
`idle_event_cb` is given up at once, and the next one sent before it is answered
(`oris_protocol_data.c:313`, the "early" excuse of `OneAtATime`); a line whose STX is the
last byte of a chunk is lost (`:88`, `LostOnlyWhenDangling`); a body compressed with `-z` does not arrive
(`BodyLostOnlyWhenCompressed`); nobody sees
the reply to `terminate` (`TerminatesSilently`); a `copy` to the table of a loop
starts the loop over, an `update` of an empty or short row writes outside of it
(`UndefinedExplained`); rows that are empty or begin with a blank end their
section of the storage file, semicolons in a text make two of it, a row like
`[NAME]` is taken for the header of a later table (`PlainRow`, `Plain`).
Arithmetic on a text that is no number gives a cell as it was left by another
value, a function without its value gives NULL and its operator follows it
(`SoundIsSafe`); division by zero, an expression as the
argument of `QUOTE` and `LPAD` with an empty fill end in `pool.broken` (`SoundIsSafe` again); a lookup
in an unknown table or field, the value of an action whose condition does not
hold and that of a target or a connection of the configuration leak a cell, and each
successful `TOKEN` a string, for the call that would destroy it is commented out
(`oris_interpret_tools.c:500`, `CellsComeBack`). An empty text is the number 0, and an empty first
`TOKEN` is given as the delimiter with the token behind it (`TokenOf`).

Of several `-c` files, the connections and blocks add up but the requests and
templates are those of the last (`AsOneFile`). A `foreach` over a request that is
not there, an HTTP action with a template that is not there, a timer with an empty
block and an "every 0" end in undefined behaviour (`CrashExplained`); a `request`
that is not there is not sent, and nothing said. A timer runs only the
first operation of its block, and no `iterate` (`Match`). "connection closed"
triggers nothing (`Trigger`).

## 5. Proofs

TLC checks the instances above; these hold for every value of the constants
that meets the modules' assumptions. Each proof is an inductive invariant
`IInv`, the lemmas that the initial states satisfy it and that each action keeps
it, and a theorem per property.

**GatewayProofs**, of one data connection - `TypeCorrect`, `WaitAlwaysWakes`, `TimersAreFresh`,
`StallCauses`: for every set of tables, every automation, every segmentation of
the replies, any batch of requests, any queue. Assumed:
`SentinelAssumption`, `EnvironmentAssumption`. `WaitHasWakeUp` is not
inductive: a step with both flags in `res` and the state waiting would lose the
wake-up. The strengthening is `MixedOnlyIdle`: both flags are there only while
IDLE, for it takes a reply to set `EV_READ`, and a query sent after it
withdraws the timeout.

**GatewayProofs**, of the composed system - `SystemIsProtocol`: every step of the composed system is a step
of the protocol or leaves it alone, so what is proved of `DataProtocol` holds over
any number of broken links (`SystemWaitWakes`). `SystemUsesDataLink`: what the system
takes for granted of its link is `DataLink`, which is proved of `SocketConnection`.
`LinkTypeCorrect` and
`ServerAskedOneAtATime`: for every server whose reply to a query ends one table at
most (`LinkAssumption`), every automation and schedule. `OneAtATime` is not
inductive: `Discipline` adds that an IDLE connection without an excuse has nothing in
flight at all. `InFlight` counts complete tables over five places, so the proof
rests on lemmas about that count (`EndsConcat`, `EndsTail`, `EndsSplit`).

**ConnectionProofs**, of the client side of a data connection - `TypeCorrect`, `FailureIsNoticed`,
`NoDanglingTimer`, `TimersAreFew`, `LiveLinksLast`, `CrashCause`,
`ConnectionImplementsDataLink`: for any number of timers. `IInv` describes the four phases between which the connection moves:
no failure yet (`Fresh`), failed with one or two timers of which the known one is
the newest (`Failed`), timers running in order (`RunsForward`) and in reverse,
before and after the younger one ran (`RunsBackward`). The bound of two timers
needs the open directions in the invariant: a second timer exists only if no
direction is open.

**TextProofs**, of the framing of lines - `TypeCorrect`, `LosesOnlyDangling`, `KeepsOneLine`,
`SpoilsOneLinePerBreak`, `ReaderIsChannel`: for every list of lines, every way to cut
their bytes into chunks, any number of broken connections. Assumed:
`BodiesAssumption` (a line is not empty) and `DelimiterAssumption`. None of the
properties is inductive, for they relate lines to a stream of which the buffer is
but a piece. `IInv` says which piece: after `i` lines were dealt with (`DealtWith(i, n)`)
the buffer is `n` other bytes and then the stream from the end of line `i` to what
was read (`Framed`); the `n` bytes hold no STX (`Clean`), or are the beginning of a
line a broken connection cut off, to which the next line will be glued (`Glued`) and
for which the break that caused it has still to pay: `Spoiled` lines are fewer than
breaks by one. A line is found where it was sent because the first STX behind those
bytes is its own (`LineHandedOn`, `OneLine`, `BreakAtLine`). Where lines lie in the
stream is an induction over them; it is had without the induction theorems, as
`Induction`, from the pigeonhole principle of `FiniteSetTheorems`: a set of numbers
that holds 0 and every successor, but not `n`, would map `0..n` into fewer. The
refinement maps `got` to the first bytes of the lines handed on, so each `ScanLine` is
a `Deliver` of `LineChannel` and the rest stutters.

**TextProofs**, of the interpreter of expressions - `InterpreterTypeCorrect`,
`ResultsAreMeant`, `NoOtherCellIsLost`, `SoundExpressionsAreSafe`: for every
configuration the grammar accepts (`ExpressionsAssumption`), all tables and their
texts, any width of an int and any size of the pool. `InterpreterIInv` is about the
cells: each is free, lost, or that of one result (`Parted`), each live string is that
of one cell in use (`PoolOK`), a result that means something is in its cell
(`MeaningHolds`). That sound expressions are safe needs what is known before the
evaluation to be true of the cells while it runs (`FactsHold`): as long as one
expression was not sound nothing can be said of the cells it left, and yet the next
one must not depend on them. A node is a `Reduction`: it works on cells it takes and on
those of its operands (`Keeps`), spoils none that could be read (`Lives`), and what it
hands on is as `Known` says; `ReducePreserves` then gives its operands back, once for
all operators and functions. What is computed stays within the ints because of lemmas
about C's arithmetic: `QuotientType` (division fails for the least int by -1 only),
`WrappedType`, `ParsedType`, `FillingType`, `TokenType`. Recursive functions (numerals,
the list given back, the facts of an expression) are shown to exist by `Induction`.
`Leftovers`, of the strings outside the cells, is an invariant on top of it: what was
left and the `TOKEN`s still to come are no more than all `TOKEN`s so far.

**TableFeedProofs** - `TypeCorrect`, `FaultsForgotten`, `ResponsesWhole`,
`FeedImplementsTableSpec`: for any tables, any length of a transmission, any
number of transmissions and faults. What is announced depends on rows received
before, so `IInv` says of a table under way that, if no fault hit it or the
transmission before, it holds exactly the lines sent so far (`Grows`), and of a
transmission about to begin that it finds a complete table unless the one before
was hit (`Begins`). The refinement maps `credit` to 2, 1 or 0 by which of the
last two transmissions was hit; each action of `TableFeed` is then a `Fault`,
`CutOff`, `Announce` or a stutter of `TableSpec`.

**AutomationProofs** - `TypeCorrect`, `EveryRowOnce`, `CursorsReturn`, `FourReasons`:
for any tables, any programs, any depth of loops. All loops over a table share its
cursor; the invariant says whose it is. `CursorOwned`: the cursor stands where
the innermost loop over the table is, and without a loop on the first row or nowhere;
`SavedOuter`: what a loop will put back is where the next loop around it over the
same table stands; `OnRows`: as long as the table was not replaced, loops stand on
rows it has. Without `SavedOuter` the end of an inner loop could leave the outer
one anywhere. `FourReasons` is of a step and says what it did when it left the memory of
the program; a loop can go on through an old array only after a copy to a table that no
data file has defined, as the tables of the files are known from the start (`Frames`).

**ConnectionProofs**, of the HTTP targets - `TargetsTypeCorrect`, `TargetsInOrder`,
`LossIsCompression`: for any number of targets and requests. `Ordered` relates what has arrived at a target to what
waits for it, `AllKnown` every request on its way to what the gateway issued.

**ControlSessionProofs** - `TypeCorrect`, `LastExitIsObeyed`, `NobodyHears`: for any number
of operators and any commands. A reply and the end of what it announces are steps
apart: `ByeCloses` says that "Bye!" is last in an output only while its callback has
the session still to close, `Greeted` that who is connected has got a reply or is going
to, so that there is a last one, `Silent` that "terminating" is there only when nothing is
written any more.

**ConfigurationProofs** - `TypeCorrect`, `CrashCause`, `FilesAddUp`,
`NothingIsLeftOut`: for any files and command lines. `Origin` ties each block to its
place in its file, `LastDefines` the definitions to the last file; from both follow
`Cause` and `Source`. That every block of an event runs needs `Everything` (no
block of a file was dropped), `Sorted` (in the order of the files) and `RanSoFar`
(those before `at` have run if they are for the event).

**StorageProofs** - `TypeCorrect`, `PlainTablesComeBack`, `TornFileLosesItsEnd`,
`StoringIsStable`: for any tables and any rows, any number of lines, copies, crashes and
restarts, and a crash at any place of the file. Assumed of names (`NamesAssumption`):
no table's name begins with a white space or is that of the section of definitions,
nor does it look like a header; different names have different headers. Of texts
(`StorageAssumption`) little is: a row has one at least, split at its semicolons a text
gives one at least, and NULL is none. They may be empty, blank, hold semicolons or look
like headers, and a line that is cut may end in any part of one. The invariant itself is small: the file is what the
tables of the last dump give, cut or not (`FileOK`, `Cut`), and tables and definitions
are of their types. All the work is in what a file means, which is two inductions over
data side by side, one over what was written and one over what is read:

* where things are written: `Layout` gives each table the line at which its section
  begins, and `DumpedIs` shows that `Dumped`, a concatenation of sections of different
  lengths, has it (`Joined`, `JoinedAt`). Sections do not overlap (`Ascends`), and any
  line of the file is in the definitions or in one section (`PartOfTable`, `EarlyLine`);
* what is read: `ReadIs` gives what `ReadSection` finds between a header and the next
  line that stops it. For the definitions that is always their section
  (`DefinitionsRead`); for a plain table it is the table's own (`PlainRead`), for the
  first line that looks like its header cannot be in a section before;
* what becomes of it: `Load` is a recursion over definitions in which each turn makes,
  or changes, one table (`LoadDefined`, `RestoredNew`, `RestoredBare`). After turn `n` the
  list is that of the first `n` tables with the rows each was read (`LoadWhole`); in a
  file that is cut in its definitions no turn finds rows (`LoadShort`). Recursive
  functions are shown to exist (`Iterated`) by `Induction`, which is had from the
  pigeonhole principle as in `TextProofs`;
* and again: the definition of a loaded table is the line it came from
  (`DefinedAgain`), for a number stands for the field at its own place only
  (`IsTable`), and the rows are as wide as the fields; so the next dump writes the
  same lines (`DumpedAgain`).

`StoringIsStable` needs that no row is wider than the fields of its table, which is
why that is a part of `TypeOK`: were it not so, loading would widen the table and the
next definition would have a number more.

Only model-checked: the liveness properties (`WaitEnds`, `QueueServed`, `Recovers`,
`ReconnectAttempted`, `TriggerEnds`, `RequestsEnd`), as liveness under fairness is
outside what is proved. Every invariant and every action or refinement property of a
passing run is a theorem.

## 6. Not modelled

* The configuration parser is generated by ANTLR: a file is its connections, blocks
  and definitions, or an error. Signed factors are parsed but never evaluated.
  `get_subtree_by_type` (`oris_configuration.c:197-203`) searches below the children
  of a tree with the number of the child for a type. Only `requests` may be missing
  in a file; what is then found in its place, if there are many blocks or
  connections, has no names of requests where they are looked for, and counts as
  nothing.
* The options that only set a name or a level of logging (`-v`, `-l`, `-L`, `-z`,
  ports and certificates), but for what they decide elsewhere.
* TLS, name resolution and HTTP itself are libraries; the models have their
  outcomes.
* Memory: leaks at exit and per request, the size of buffers (8192 bytes, grown
  on demand), allocation failures.
* Connections are URIs of the configuration that either become a connection or not;
  looking up a protocol by its scheme is a constant table.
* The destructors run once, at exit, after the loop.
* Logging, usage texts, the formats of replies. An overlong control line is
  discarded up to what has been read and the rest taken for a command; the model
  has this, without a property.
* Write errors of the storage file; and that a table which is being received is
  stored in part when another is complete: the model has the latter, without a
  property.
* Names of tables that begin with a white space, hold a `=` or a semicolon, look like
  `[...]` or are `Definition`, and that tables are found without regard to case: the
  model compares names exactly. A text "like `[NAME]`" is one that begins so; what
  follows is kept with it.
* SIGPIPE on the connection to an HTTP target that has closed it. It would end the
  gateway as it does on a data connection (`WriteKills`).
* Where a loop goes on through an array of tables that was moved, the model stops:
  `LoopDangles` shows that it happens and `UndefinedExplained` what caused it, not what
  the loop then does. A loop that copies into its own table in every turn does not end;
  `TriggerEnds` allows for it.
* What is stored of a table that is received and was copied to once: it is temporary
  for ever and the feed's rows for it are not stored. The model has this, without a
  property, and the properties of `Storage` are about tables that are not temporary.
* The slabs of the vendored memory pool, getopt, the simulator.

## 7. Plan

Done, in this order: `DataProtocol` and its proofs; `SocketConnection` and its
proofs; `LineReader` with `LineChannel`; `TableFeed` with `TableSpec` and proofs;
`Automation`; `HttpTargets`; `ControlSession`; `Storage`; `Expressions`;
`Configuration` and its proofs; `Gateway` and its proofs; the proofs of
`ControlSession`, `HttpTargets`, `Automation`, `LineReader`, `Expressions` and
`Storage`.

Next: `TableFeed` behind `Gateway`, so that an announcement can be related to the
query it answers and to the link it came over; and a `Storage` in which two tables'
names may differ in case only.
