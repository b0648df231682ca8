# Formal models of mcp-native-guard

`mcp-native-guard` sits between an MCP client and a tool server that talk
newline-delimited JSON-RPC over stdio. It starts the server, relays both
directions, refuses `tools/call` for tools a policy denies, hides denied tools
from the answers to `tools/list`, and writes an audit trail. Beside `run` it has
`inspect` (ask a server once for its tools), `policy create` (turn an inventory
into a policy file) and `doctor`.

This directory holds TLA+ models of it, the configurations TLC checks them with,
and theorems checked by TLAPS. `PROJECT.json` is the index: components, runs,
mutants, the map from every definition to the lines it models, findings,
hazards and theorems.

## 1. Inventory

| Component | State it keeps | Operations | Hard part |
|---|---|---|---|
| Tool-call filter (`tool_call_filter.cpp`, behind `ClientMessageHandler`) | correlation table `pending_[]`, `pending_size_`, `pending_id_bytes_` | `inspect`, `inspect_server`, `add_pending`, `remove_pending`, `message_too_large`, `connection_closed` | which answers to rewrite depends on a long history of requests, repeated requests, full tables, and whatever the server sends |
| Proxy core (`proxy_core.cpp`) | counters | `authorize_tool_call`, `authorize_tool_visibility` | counters and audit must agree |
| Stdio relay (`linux_stdio_relay.cpp`) | two bounded queues, the child, pipe ends, signal flag, `RunResult` | one `poll` loop, `~ChildReaper`, the report to the observer | interleaving with client, server, descendants, signals, clock |
| Line framer (`line_framer.hpp/.cpp`) | bytes of an unfinished line, sticky failure | `feed`, `finish`, `reset` | lines across chunks; the limit |
| Inspect (`inspect.cpp`) | receive buffer, deadlines, process group | launch, two requests, receive loop, termination, publication | deadlines and exits at any moment; cut of the byte stream |
| Atomic file writer (`atomic_file_writer.cpp`) | a temporary file | `write_file_atomic` | failures, kills and power loss between two calls; several writers |
| Policy table, loader, generator (`policy*.cpp`) | rules in order | `parse`, `load_file`, `apply_deny_overrides`, `build`, `find`, `generate_policy_from_inventory` | flaws at the end of a file; order; two parsers that must agree |
| Audit sink (`audit_sink.cpp`) | sticky failure, one complaint, the buffer of the stream below | `record`, `record_session_start`, `record_session_end`, `report_failure` | a record that cannot be written, and what the stream then holds |
| JSON scanner, envelope classifier, tool-call extractor, tool inventory | none between calls | pure functions on one message | members in any order, repeated, escaped; values too deep; texts that end early |
| Doctor (`doctor.cpp`) | a `run` process of its own, a line being read, a deadline | launch, initialize, list, stop, verdict | deadlines; a guard that ends between two messages; a stderr pipe nobody reads |
| CLI (`main.cpp`, `strace_command.cpp`), relay harness | options | dispatch | order of policy, audit and launch |

Interactions. `main` builds the policy (loader, `--deny-tool`, table) and opens
the audit file, then calls `run_stdio_child` with a message handler (the
filter) and an observer (session events). The relay reads a chunk from a peer,
the framer cuts it into messages and calls the filter once for each, inside the
read; the filter answers forward, drop or respond, and the relay appends to one
of its two queues. The filter asks the proxy core, which asks the policy table
and hands events to the audit sink. Everything in the guard runs on one
thread; concurrency comes from the other processes, from signals, and from what
the kernel does with pipes and files. `inspect` talks to the server itself and
publishes by `write_file_atomic`, as does `policy create`, whose output is an
input of `run`. `doctor` starts `run` on three pipes and talks to the server through
it; it never reads the stderr that guard and server share.

What makes each component correct, in a sentence:

* filter: the table follows the `tools/list` requests the server has not answered, as
  long as the server uses each id once and shows it; then nothing hidden is shown. Nothing
  denied is ever called, every refusal is audited, and answered unless the envelope
  was rejected;
* relay: nothing lost, repeated or reordered; no deadlock of full pipes; the
  exit status and the report are the server's; signals and the end of input end it;
* inspect: the published inventory is the server's answer, the server is collected, and it
  ends unless a deadline passed just before a `poll` and the server is silent from then on;
* atomic writer: the destination is whole at any moment, a failure leaves nothing;
* policy: a file is used only if all of it is well formed, and the table answers
  what the file and the command line say;
* framer: the lines are the stream cut at its newlines, however it arrives, and no
  more than one line is held;
* audit sink: the trail is the beginning of what happened, and what cannot be
  recorded changes nothing else;
* classifier, extractor, rewriting: nobody who reads a relayed call, or an answer whose id is
  spelled as the request's, taking either of two members of one name and undoing escapes
  or not, sees a tool the policy hides or a call it denies. An answer whose id is spelled
  otherwise (2.0 for 2) is to the filter no answer, and goes out with every tool
  (`tool_call_filter.cpp:412`, `:489`-`:493`);
* inventory: it says of each tool what the server said, in one order only;
* doctor: its verdict is deserved, it ends under the same reservation as `inspect`, and it
  leaves no server behind but that of a guard it had to kill (section 5).

The hazards of the code, each at its line, are in `PROJECT.json`.

## 2. Modules

| Module | Models | Used by |
|---|---|---|
| `ListCorrelation` | abstract: the set of outstanding `tools/list` ids | refined by `ToolCallFilter` |
| `ToolCallFilter` | filter, its counters and audit events, with a client and a server | `MCToolCallFilter`, `ToolCallFilterProofs` |
| `Filtering` | the elements of a sequence that are in a set: what a loop that keeps some of what it visits collects | `StdioRelay`, `Doctor`, `FilteringProofs` |
| `StdioRelay` | `run_stdio_child` with client, server, descendants, signals, clock | `MCStdioRelay`, `StdioRelayProofs` |
| `Inspect` | `run_inspect` with the server's process group and both deadlines | `MCInspect`, `InspectProofs` |
| `Sorting` | `std::sort` by keys that are numbers | `Policy`, `ToolInventory` |
| `Policy` | `policy create` and the policy path of `run` | `Discovery`, `PolicyProofs` |
| `Messages` | classifier, extractor and rewriting as passes over members | `ToolInventory` |
| `ToolInventory` | the answers `inspect` validates, the inventory it publishes | `Discovery` |
| `Discovery` | composes the three: answer, inventory, policy, table, call and list | `MCPolicy`, `MCMalformed.cfg`, `DiscoveryProofs` |
| `LineFramer` | the framer, on chunks of any size | `Doctor`, `DoctorProofs` |
| `AuditSink` | the sink, its ofstream and the file over several sessions | `Doctor`, `DoctorProofs` |
| `Doctor` | composes doctor, the guard with framer and sink, the server, three pipes | `MCDoctor`, `DoctorProofs` |
| `AtomicFile` | `write_file_atomic` by several processes, power loss | `MCAtomicFile`, `AtomicFileProofs` |

Some modules hold, next to a definition and before it, a faulty variant of it
(`RemoveLast`, `SyncSkipped`, ...). No specification uses these; `PROJECT.json`
pairs each with the property it must break. They keep the properties honest.

### ToolCallFilter

State: `pending` is the used part of the array `pending_`, in order;
`pendingIdBytes` the counter beside it; `forwarded` and `blocked` the counters of
the proxy core; `audit` counts the audit events by kind, reason and tool; `open`
is false after `connection_closed`. The rest is what the two peers know: `executed`, the calls
that reached the server; `unanswered`, the requests it still has; `waiting`, the ids the client
waits for; `silenced`, those of requests the classifier rejected and nobody answered; `lost`,
those whose answer was dropped, and `unread` those of them that were `tools/list` and whose id the
filter did not get to see; `strayed`, the ids the server used in a message that answers
nothing; and `listed`, each tool shown with the id of the response that showed it.

`inspect(m)` is one client message; its disjuncts `inspect_*` are the branches of
`ToolCallFilter::inspect` in their order. `inspect_server` is one server message.
A message is the class the envelope classifier and the extractor put it in, with
its id and tool, so every verdict of those parsers is an input. `add_pending`
keeps its three limits and `remove_pending` its swap with the last entry.
The rewriting of an answer is modelled by the tools it names: `CountVisibility`
counts each name scanned even if the scan then meets a defect; `RecordHidden` and
`Deliver` happen only when it ends well.

The server sends what it likes (`docs/threat-model.md:13` names a malicious or inconsistent
server): answers to requests it has, second answers, answers nobody asked for, requests of its
own under any id, and defective messages with or without an id that was scanned. A
rejected message frees the slot of the id it shows, whatever it was meant as (line 408), and without
an id frees none. So the filter promises less than "the table is the set of outstanding
requests": an id the server has used once more than it should may be gone from
the table (`strayed`), and the slot of an answer dropped before its id stays
(`unread`). `HeldIsOutstanding` and `ListAnswersFiltered` say that nothing else goes wrong.

The client keeps one rule: it does not reuse the id of a request in flight, except to repeat a
`tools/list` (`FreshId`). What a rejected envelope was meant to ask for (`wants`) is
known to the client only; line 304 drops it, and unless it is a `tools/call` with a scanned id
the client hears nothing.

### StdioRelay

`pc` is the place in the loop: `launch`, `top` (head of the loop up to `poll`),
`poll`, `events` (one step per reported descriptor, in the code's order, kept in
`polled`), then the three fields of the report. Every system call is a step, so
every other process moves between any two. A message stands for its line and
carries the filter's verdict on it (`forward`, `error` = answered by the guard,
`drop`, `oversized`); queues and pipes count messages. Partial writes take any
non-empty part of a queue. `Return` is the way out of the function: the
destructors in reverse order of construction, `ChildReaper` (SIGKILL and wait) before
the observer. The error returns leave `runResult` at its initial values, as in the code.

`sent`, `produced`, `forwarded`, `served`, `queued` and `received` are histories; no
guard of the relay reads them.

### Inspect

`pc` names the function: `write`, `receive`/`remaining`/`poll` (`receive_expected_response`),
`shutdown` (`wait_for_clean_shutdown`), `stop`/`stopping`/`reap`
(`terminate_process_group`), `publish`. The server's output is a stream of bytes
tagged with the kind of their line, because a read may end inside a line or span
several and the limit is applied to the unread buffer. The leader of the group is
`running`, `hung` (answers nothing and need not obey SIGTERM), `zombie` or `reaped`; its
descendants are `members` and may hold the pipes. `killed` is the default action of
SIGPIPE, which `inspect`, unlike `run`, does not ignore.

`remaining` is a place of its own because the clock is read twice: for the check of the deadline
and again for the timeout of `poll`, which has no lower bound. When the deadline passes
between the two by a millisecond or more the timeout is negative, and `poll_forever` waits until the server
writes or closes its output. `destination` is `buffer` when the inventory went to stdout, success
was reported, and the flush at the exit of the process then fails: `run_inspect` tests the stream
without flushing it.

### Policy

A document is the sequence of its top-level members plus at most one defect of
the whole (`too_large`, `too_deep`, `unreadable`, `cut`); a member has a key, a value and
whether the parser takes that value. `Parse` is the loop of `PolicyLoader::parse` with
its duplicate and missing-member checks; `ParseInventory` and `Emit` are the generator;
`Build` and `LowerBound` are the table. `Loop` is every loop over a sequence, `SortByName` is
`std::sort`, by the place each rule gets (`Sorting`), and `Halve` is one round of `std::lower_bound`. `IsDocument` says
what a document is before it is parsed: a member the parser takes has a value of the kind its
key calls for. Names are numbers in byte order. The
loader's size limits are not weighed against what the generator emits; as read from
the code, the largest policy it can emit (256 names of 256 bytes) is
within the loader's 256 KiB.

### Messages, ToolInventory, Discovery

A message is the sequence of its top-level members and how its text ends (`defect`: `none`,
`cut`, `open` for a text that ends behind a comma, `too_large`). A member has the `key` as
it is spelled, what that `means` with escapes undone, and a value: a tree whose leaves have a
kind (`string`, `escaped`, `long`, `number`, `null`, `bad`). `Taken` is the loop every one of
these parsers has: it stops at the first member that is ambiguous or whose value is
refused. `classify`, `extract`, `rewrite_tools_list_response`,
`validate_initialize_response` and `parses_tools_list_response` are that loop
with their own tests; `Canonical` is `canonicalize_value`. Bytes are counted as nodes of a
value: what matters is which limit is met first.

Inside a value there are places, each the way to it from above (`At`), and `PlacesAt(value, n)` are those `n`
deep. `skip_value` refuses a value with a place that is too deep, `Nodes` counts the places, `Nesting` the depths
with a bracket, and `Canonical` is a recursive function on the values found there (`Within`).

`InventoryListsTheTools` speaks of what a server said (`Says`), which knows no order of members.
The limits of `inspect` are options; those of `policy create` are fixed and follow none of them: the
constants `GeneratorBytes`, `GeneratorNesting`, `MaxTools` and `LongNames` are its own, and an inventory may be beyond
any of them. `WithinGenerator` is all four; an inventory within them is taken and any other refused. `FitsGenerator`
counts the newline that `inspect` writes behind the document and does not count itself.

`Discovery` adds to `Policy`'s `pc` the reading of answers (`Initialize`, `Collect`), whose result is
the inventory `policy create` parses, and the reading of calls and lists against a table
(`ReadCall`, `ReadAnswer`), with the message that is sent on for it in `relayed`.

### LineFramer

`chunk` is what `feed` has been given and not yet scanned, `buffer` is `buffer_`. A chunk is
handled segment by segment (`Emit`, `Reject`, `Keep`), because the sink acts between two
segments. `stream`, `lines` and `delimited` are histories. `FramerSpec` is the framer alone.

### AuditSink

`failed` is `failed_`. The file is a sequence of pieces: what one attempt has left, the record
with its newline (`whole`) or a beginning of it. `held` is the record the `ofstream` still has
in its buffer after a write that failed. It is not part of the sources, and was
established by running that code: `flush` fails, the stream is not `good` any more, and the
destructor of the `filebuf` writes the buffer once more. So a torn
record may be followed by a whole copy of itself on the same line. `README.md:102` calls the
sink disabled by then; the sink is, the stream below is not. `NextSession` is another process that
appends to the same file.

### Doctor

`dpc` is the place in `run_doctor` (with `terminate`, `grace` for `terminate_and_reap`), `gpc` the
place in `run_child` and `run_stdio_child`. The relay of `StdioRelay` is abstracted to
one queue in each direction, here, to make room for bytes, for the audit
and for stderr. `Settled` says that `report_failure` comes at once after a failed record. A write to stderr
waits for `Room`; `err` counts the writes in that pipe, which only grows. `client` is `doctor` or
`other`, a client that sends any bytes and has stderr on a terminal; it exercises the framer and
the audit file over two sessions.

`Matches` is `receive_response`: the first whole line that is a response to the id. What doctor
looks for in the answer is text (`Passes`): `spaced` stands for an answer that separates its
tokens by spaces, `naming` for a tool whose schema or annotations name a denied tool. Doctor calls both
unhealthy. `DoctorSends` to a guard that is gone ends doctor by SIGPIPE. `asleep` is the `poll`
without limit that `inspect` may also end in: the deadline passed between its check and the
computation of the timeout, and only the guard's output, or its end, wakes doctor.

"PASS audit destination writable" is printed once `initialize` is answered, when the guard has
opened the file and has tried one record; whether that was written is not known to
doctor, and `VerdictIsDeserved` does not claim it.

### AtomicFile

Each writer goes through `lstat`/`stat`, `mkstemp`, `write` in parts, `fsync`, `close`,
`rename`; each call may fail, each writer may be killed between two of them. The file
system keeps data in its cache until `fsync` and a rename for any time, so a
loss of power may bring back any name since the last flush of the directory. The code ignores
what `unlink` returns (lines 70, 89, 93), and the model lets it succeed: were it to fail as
well, the temporary would stay, and `FailureLeavesNothing` is about all other cases.

## 3. Runs

| Run | Question | Bounds | States |
|---|---|---|---|
| `filter` | the correlation table, hiding, calls, answers, audit; refinement of `ListCorrelation` | 4 messages of either peer, 2 slots, ids of 1, 1, 2, 3 and 4 bytes with limits 3 (one id) and 4 (all ids), 3 tools, 2 tools per answer | 2,699,618 |
| `relay` | nothing lost, reordered or misreported | 2 client messages, 1 unasked server message, pipes, reads and queues of 2, every fault | 3,916,890 |
| `relay_live` | progress and termination | 3 client messages, pipes of one message | 141,382 |
| `relay_descendant` | violation, see 5 | | |
| `inspect` | inventory, processes collected, forced or clean; its end; a good server is inventoried | 3 lines, 1 descendant, limit 3 bytes, reads of 4 | 1,296,860 |
| `inspect_group`, `inspect_unsolicited` | violations, see 5 | 2 descendants | |
| `policy` | answers to inventory to policy to table to calls and lists | documents of up to 3 members and messages of up to 4, every defect, values up to 7 deep, 4 names, 3 tools, 2 denials, tables of up to 4 rules; `policy create` with 2 tools, 5 brackets and one name too long | 980,407 |
| `malformed` | violation, see 5 | | |
| `doctor` | framer, audit trail, verdict, server, termination | lines of up to 2 bytes, 4 bytes from the other client, 2 sessions, stderr of 2 writes, 2 items to doctor, 1 notification, 5 kinds of answers | 1,738,282 |
| `doctor_server` | violation, see 5 | | |
| `atomic_file` | whole or untouched | 3 writers, 2 pieces each | 4,238 |

Why the bounds are enough.

* `filter`: each of the three limits binds alone. Two 1-byte ids fill the count with
  bytes to spare; a 3-byte and a 2-byte id exceed the total while a slot is free; the
  4-byte id is over the limit of one id. Removing the first of two entries
  exercises the swap, and four messages allow a request, a message of the server that frees its slot
  out of turn, the answer that then passes, and a request in the freed slot.
* `relay`: a queue to the client of 2 is overfull exactly when replies to a
  chunk of the client meet a chunk of the server in one round, which is the only way it
  overflows in the code; parts of a queue of 2 give partial writes.
* `relay_live`: with pipes of one message, three messages put one in the server's
  hands, one in its stdin and one in the queue, which is the smallest scene of the
  three-buffer deadlock that the reading discipline prevents.
* `inspect`: the garbage line is longer than the limit and longer than one read; lists
  are exactly at the limit; two short lines fit one read.
* `policy`: three members are the fewest that can hold a repetition beside a
  required one; four rules take the binary search through both halves twice. Messages are
  the two required members with every pair of a set that holds each known member well
  formed, ill formed, repeated and escaped, and values one deeper than each limit; ids are the
  request's, spelled plainly, with an escape, or as another number. Published inventories meet
  each of the four limits of `policy create` and stay within all of them.
* `doctor`: with lines of at most 2 bytes, 4 bytes make a line that exactly fits, one that is too long
  in one chunk or over two, a line before the one that fails, and a truncated end. Two
  sessions are the fewest that append to what an earlier one has torn. With 2 writes in the stderr
  pipe, the audit on stderr blocks in every place at which it is written.
* `atomic_file`: one writer can interrupt another between two parts and a third between
  their renames. Writers are symmetric; no liveness is checked there.

`CHECK_DEADLOCK FALSE` everywhere: each of these programs ends, and the bounded
environments stop too. That the relay and inspect do not stop early is what
`relay_live`, `InspectEnds` and `DoctorEnds` check instead.

### Fairness

* The guard itself is scheduled (`WF(Relay)`; inspect's steps likewise), its clock runs,
  and a process that was sent SIGKILL dies. The kernel gives these. The `poll` of the relay has a timeout
  whenever one is needed; those of inspect and doctor may have none, which is why
  `InspectEnds` and `DoctorEnds` except `Stranded`: a `poll` without limit that nothing will wake.
* `relay_live` further assumes peers worth serving (`GoodPeers`): a client that reads
  until it leaves, a server that reads, answers what it owes and exits at the end of
  its input. They appear only because the properties are of the form "with such
  peers, the relay does not get in the way". Nothing is asked of a server that
  was sent SIGTERM: it may ignore it, and SIGKILL must do.
* `inspect` needs no help for `InspectEnds`: the deadlines are the code's, and a `poll`
  that has no limit is in the formula, not in the fairness. Only `GoodServerInventoried` speaks of a server that answers.
* `doctor`: doctor and the guard are scheduled, and doctor's deadline passes at some time
  (perhaps too late to be seen, see `asleep`);
  nothing is asked of the server. The two seconds `terminate_and_reap` gives
  exceed the one second the guard gives its server, so they run out only for a guard that waits for something
  that will not come (`GuardIsStuck`). This is the one assumption on the
  ratio of two times; a guard starved for two seconds would be killed as well.
* No strong fairness is used.

## 4. What is checked

Filter: `IdBytesExact` (the byte counter never drifts or wraps under
swap-removal), `HeldIsOutstanding` (nothing but the server's own use of an id parts the table
from the outstanding requests), `ListAnswersFiltered`, `CallsMatchAudit`,
`NoRequestForgotten` (the two silent drops are a rejected envelope and the repetition of a request that
can still be answered), `CountersMatchAudit`, and `CorrelationSpec`, the refinement. The
counters may exceed the audit by the visibility checks of an answer that was
dropped half way; `CountersMatchAudit` says exactly that.

Relay: `QueuesBounded`, `StreamsIntact`, `ServerOutputRelayed`,
`StatusIsTheServers`, `ReportCoherent` (a signal between two reads of the flag cannot
produce a report that contradicts itself), and the four liveness properties.

Inspect: `InventoryIsTheAnswer`, `ServerCollected`, `CleanIsUnforced`, `InspectEnds`,
`GoodServerInventoried`.

Policy and messages: `WellFormedOrNothing`, `RunObeysFile`, `CreatedPolicyIsExact`,
`InventoryListsTheTools` (from the answer of the server to the names `policy create` finds, and the
same bytes for every order of what has no order), and `EveryReaderAgrees`, which
does not trust the guard's own reading of a message: it looks at every
reading another parser may have of a call, and of a response that any reader may take for the answer.

Doctor: `LinesAreTheStream` (the framer against the split of the whole stream),
`AuditTellsTheSession` (the events are those of the lines received, the file is
their beginning, and the decisions do not depend on it), `VerdictIsDeserved`,
`LeavesNoServer` and `DoctorEnds`.

Atomic file: `DestinationWhole`, `FailureLeavesNothing`, `Replaced`.

## 5. Where code and documentation disagree

Five runs expect a violation of a sentence of the documentation.

* `relay_descendant`: `docs/design.md` promises an end within 3 seconds of SIGTERM. The
  signals go to the server alone, and the loop then waits for the end of its stdout,
  which a descendant can hold open for ever.
* `inspect_group`: `docs/inspect.md` promises that on early exit the process group is
  terminated. `terminate_process_group` returns as soon as it has no child left, before
  any signal.
* `inspect_unsolicited`: the same page lists unsolicited notifications among the
  failures. One that arrives in the same read as the awaited answer is discarded
  with the buffer.
* `doctor_server`: `docs/managed-local-deployment.md:45`-`:47` says that doctor terminates the child on
  failure. `terminate_and_reap` signals the guard alone, and only the guard ends the server. Under
  `--audit-stderr` a guard may wait for room in the stderr pipe, which doctor never reads; it does
  not act on SIGTERM, is killed after two seconds, and its server runs on behind the
  verdict unhealthy.
* `malformed`: `docs/design.md:124` says that malformed inputs are always rejected. The loops over
  members leave when the text is over, and do not miss what should follow a comma:
  `{"jsonrpc":"2.0","method":"ping",` is relayed as a notification. The extractor and the
  validation of inventories have the same loop; the rewriting of lists has not.

Some more sentences hold less widely than they read. The models have the behaviour, and no run is
spent on it.

* `README.md:133` and the next say that the proxy correlates outstanding `tools/list` requests and removes denied
  tool definitions. That holds for ids the server has not used otherwise: `remove_pending` forgets an id with
  the first message that carries it, so after a defective request of the server's own, or on a
  second answer, the list is relayed as it is. `strayed` in `ListAnswersFiltered` is this case.
* `docs/inspect.md:102` calls `--timeout` the overall discovery deadline, and
  `docs/managed-local-deployment.md:46` speaks of doctor's strict timeout. Both loops compute the
  timeout of `poll` after the deadline was checked and do not keep it from being negative.
* `docs/managed-local-deployment.md:17`-`:19` promises that `session_end` holds the exit statuses. The
  error returns of `run_stdio_child` leave `RunResult` at its initial values, so that after a framing error
  the report says `proxy_exit_status` 4, child status -1 and `startup_failure` of a session that started,
  and the guard exits with 3.

## 6. What is proved

All proofs are for any values of the constants under the assumptions named
in the modules: `FilterAssumption` (ids have a size, limits are natural numbers),
`AtomicFileAssumption` (the old file is not a writer's; contents have at least one piece),
`RelayAssumption` (queues and pipes have a size, a read fits the queue to the client; statuses are
0 to 255), `InspectAssumption` (lines have a length and a kind known to `IdOf`),
`FramerAssumption` (the newline is a byte, the limit is positive), `PolicyAssumption` (names are not
empty, which the parsers refuse, and of bounded length, so finitely many), `DocumentsAssumption` (`IsDocument`
of every file), `MessagesAssumption` (`IsMessage` of every message: what is inside a value is in sequences, a scalar
has nothing inside, a name that is not too long is one of the names or empty, keys inside a schema are
compared by their bytes), `TablesAssumption` (a table is sorted and names no tool twice, which `PolicyTable::build`
sees to), `DiscoveryAssumption` (the limits of `policy create` are numbers, and its nesting limit is at least the
three brackets of an inventory without tools; nothing is assumed of those of `inspect` against them),
`SinkAssumption` and
`DoctorAssumption` (the messages of doctor are bytes, none of them the newline; what the guard
records are events).

`ToolCallFilterProofs`. `IInv` is inductive. Its parts:

* `TableSound`: distinct slots, the three limits, and `pendingIdBytes` as the
  cardinality of a set of pairs (id, byte), so that the sum over a table of any size
  needs no recursion. `AddPending`, `RemovePending` and `ClearTable` are the lemmas
  on the three ways the table changes, resting on `AppendAbsent` and `SwapRemoveOne`
  on sequences and `BytesOfAdd` on the sum;
* `PeersOK`: the types of the rest;
* `Conversation`: the four properties of the table, the lists, the calls and the waiting; an id has
  one outstanding request (`OneRequestPerId`, by the client's rule, nothing is asked of the
  server), and the answers dropped before their id are among the lost ones (`UnreadIsLost`). The first is
  why `HeldIsOutstanding` alone is not inductive: with two requests of one id,
  an answer to the first would free the slot of the second. The other is what `NoRequestForgotten`
  needs of a repeated request whose slot was left over: it is dropped though nobody will answer.

One lemma per handler (`InspectStep`, `InspectServerStep`, `CloseStep`) shows that a step
keeps it. From it follow `TypeCorrect`, `IdBytesAreExact`, `TableIsOutstanding`,
`HiddenToolsStayHidden`, `OnlyAuditedCalls`, `NobodyForgotten`, and the refinement
`FilterImplementsCorrelation`: each step maps to a `Request`, an `Answer`, a `Close` or a
stutter of `ListCorrelation`.

`CountersAgree` is the theorem on the counters. `Cells` is the area under a function from
tools to numbers, one cell per tool and report, so that the sum of the audit over all tools is a
cardinality; `CellsOfSum` says that the cells of a sum of two functions are as many as those of
both, by a bijection of the new cells with the upper ones. `CellsOfList` builds a list of tools
entry by entry, repeated names included, and finds as many cells as hidden entries.
`Counted` is the invariant beside `IInv`: `blocked` covers the cells of both kinds of refusal, exactly until
an answer is dropped, and no tool is reported more often than the messages handled
allow, which keeps the cells below the bound `Audited` counts to. Nothing is assumed of the number of tools.

`FilteringProofs`. Induction over the naturals and over sequences, stated with a set where the
library's theorems take an operator: `Least` from the well-foundedness of the order, then
`NatsByInduction` and `SeqsByInduction`, whose hypothesis is that a set is closed under the
step. With them `Select`, a recursive function, is found to exist (`ChoosesSomething`), to be
unique, and to follow `Append` and `\o` (`SelectAppend`, `SelectConcat`): what is kept of two chunks is
what is kept of the first and then of the second.

`AtomicFileProofs`. `IInv` adds to the types how far a writer's progress has taken its
file (`Progress`: past `fsync`, all of it is flushed), that only a writer that is done ever
had the name (`NamedIsDone`) and that a writer that has ended without being killed has no
temporary (`TemporaryIsOpen`). `DestinationWhole` is not inductive alone: a loss of power brings back
any earlier name, so all of them must be flushed whole. It yields `TypeCorrect`,
`DestinationIsWhole`, `FailuresLeaveNothing` and the action property `ReplacedAsAWhole`.

`DoctorProofs` begins with the framer and the sink, each alone. `FramerInv` is the types and `LinesAreTheStream`, which is inductive as it
stands: a step moves bytes from `chunk` to `buffer` or from both to `delimited`, and
concatenation is associative. `SplitAt` cuts a chunk at its newline. `FramesAnyStream` holds for
any stream in chunks of any size.

In the sink `TrailIsAPrefix` is not inductive: the record the stream holds is written
later, so `HeldComesNext` says that it stands next in the trail, behind a
beginning of itself or where nothing of it was written, and `Untouched` that a
session without events has left nothing. `PieceFits` is the one fact on sequences.
`TrailStaysAPrefix` holds for any number of sessions and any outcome of every write.

Framer and sink keep their invariants inside the guard, because each
step of the composition is one of theirs or leaves them alone (`GuardParts`, `OtherParts`); and
`Supervised` relates the places of doctor and guard to the server. From `DoctorInv` follow
`GuardFramesItsInput`, `GuardKeepsTheTrail` and `NoServerIsLeft`. Three invariants stand on it:

* `Typed`: the types and the bounds of the pipes (`DoctorIsWellTyped`).
* `Tale`: how much of the session is told at each place of the guard. The property speaks of
  the lines received so far, so `Tale` adds when `session_start` and `session_end` are on
  record, when the failure of the framer is, and when a failed write has been
  complained about. A new line appends to `Selected` what it appends to the trail (`SelectAppend`).
  It gives `SessionIsAudited`.
* `Deserving`, for a session with doctor, has three parts. `OnScript`: what the guard has handled, holds,
  and has in its pipe is a beginning of the six bytes doctor sends, as long as the place
  in `run_doctor` says. `Heard`: the server owes and answers nothing but what was forwarded,
  and the pipes back hold those answers and notices only. `Progress`: what each place of doctor and
  guard says of the verdict, the server's status and `Cause`, the reasons outside
  doctor a session may fail for. `VerdictIsDeserved` alone says nothing before the end; each part is
  what the next place needs of the one before. It gives `DoctorJudgesRightly`.

`StdioRelayProofs`. `ReportInv` has two parts. `Collected`: a process that has ended has the
status it chose unless a signal was sent to it, and past the loop it is collected. `Filled`: what
each field of the report says of the status and of a signal that may have arrived since;
`ReportCoherent` alone is not inductive, because a signal between two fields makes `proxy` and `reason`
disagree with `child` in ways that only the order of the three reads of `termination_signal`
reconciles. `FailKeepsReport` and `RoundKeepsReport` cover every way a round of the loop can go.
From it follow `StatusIsCollected` and `ReportsAreCoherent`.

`RelayInv` adds the messages. `Typed` and `Control`: types, and which descriptors are open where.
`Bounded`: the client is read only while the queue to the server is empty and no
termination was sent, which `QueuesBounded` does not say and which a chunk of the client needs to fit in.
`Flow`: what was forwarded is what the server has read, then the pipe, then some rest,
which is the queue as long as the server can be written to; likewise back to the client. `Drained` and
`Relayed`: the end of the server's output is seen when nothing can follow, and what was queued
for the client with what is left to read is what the server wrote for it, by `SelectConcat` at each
chunk. From it follow `RelayIsTyped`, `QueuesStayBounded`, `StreamsStayIntact` and
`ServerOutputIsRelayed`, for any capacities, chunks, partial writes and ways to end.

`InspectProofs`. `IInv` has four parts. `Ordered`: which answers were taken at each place and that
nothing is published before the end. `Collected` and `Unforced`: which pipe ends are
closed, that nothing was sent to the group before its termination and that a collected server keeps
its status. `Stream`: what inspect has read and what is in the pipe together begin with the first line
the server wrote, as long as no answer was taken. It is what makes `InventoryIsTheAnswer` inductive:
a read may end anywhere in a line, so neither part of the stream alone says which line comes
first. `Cut`, `FirstOfConcat` and `FirstStays` are its facts on sequences; `Least` picks
the first newline. From it follow `InspectIsTyped`, `InventoryIsGenuine`, `ServerIsCollected` and `CleanMeansUnforced`,
for any line lengths, limits and reads.

`PolicyProofs`. The specification is `Policy`'s own `Spec`, from any inventory, file and options;
`DiscoveryProofs` puts the reading of answers before it. The argument follows a file through the code.

* Loops: `LoopExists` and `LoopStates` give every `Loop` its states before and after each step, and
  `UpTo` carries a fact from one to the next.
* Parsing: `ParseObjectMeans` says an object is accepted if and only if each known key is there once with
  a good value, and what is then read of it. `ParseToolsMeans`, `ParseMemberMeans`, and `ParseAccepts` lift this to entries,
  members and the document: `Parse` ends without error exactly on `WellFormed` documents, and `AcceptedSays`
  is what the definition then has. The code takes members one at a time and stops at the first
  error; `WellFormed` counts positions in the whole document, and knows nothing of an order.
* Table: `SortMeans` says the sorted rules are a permutation in order, and that two neighbours are equal only if a name is
  there twice; it rests on `InjectiveOnto`, that a one-to-one map of 1..n to itself is onto. `LowerBoundMeans`
  keeps the range left to search (`Ranges`) over the rounds of `Halve`. `AccessOfMeans` joins them.
* Denials: `DenyMeans` says what one more denial changes in the answers of a definition, listed or not.
* Creation: `EmitMeans` parses what `Emit` writes, and `OneSorting` and `EmitInAnyOrder` show
  that lists of the same tools give the same document.

`PolicyInv` adds to the types that nothing is decided before the file is read (`FileInv`),
that the definition already gives every name the answer due after the denials so far, not only the table at
the end (`SaysInv`), and that the file on disk is the old one or the one emitted for the options
(`CreateInv`). `RunObeysFile` alone is not inductive, because it says nothing before `ready`. From it follow
`PolicyTypes`, `UsedIfWellFormed`, `RunObeys` and `CreatedIsExact`.

`DiscoveryProofs`. The steps of `inspect` and the reading of messages leave the policy alone, so `PolicyInv` holds
on the whole way (`DiscoveryKeepsPolicy`), and with it the four properties of the policy.

`ReadersAgree` is about messages. `AllTakenMeans`: a loop that has taken all members has met no key
spelled with an escape and no known key twice (`Plain`). `OneReading` concludes that there is one
reading of each known key, the one the code took. `CallAgrees` applies it to the envelope, its `params` and
their `name`; `RewriteMeans` to `result`, `tools` and each tool, and then to the message sent instead, whose
members `Substitute` leaves where they are. `OtherMeans` is the response the filter does not
correlate: no reading of its id is spelled as the request's. `ReaderInv` adds which message is read at which place.

`InventoryIsTheTools` is about the inventory, and its larger part about values:

* The recursive functions on values are found to exist. There is no induction over trees, so
  the argument goes over depths: `Layers` says that the values inside a value lie in layers, that the kids of
  a layer are in the next (`KidsMean`, `OneDeeper`), and that below the last there is nothing (`Ends`, which
  `SkipEnds` gets from `skip_value`). `CanonicalExists` and `SaysExists` build the function from the last layer upwards.
* `CanonicalStep` is one value whose kids are in canonical form; `CanonicalMeans` lifts it to all of them:
  the canonical form says the same, has its members in order, and is no deeper.
* `InventoryEntryMeans` and `EntrySays` say what is kept of a tool, `ListMeans` what an accepted answer lists,
  `InventoriedMeans` that the inventory is a permutation of it in the order of names (`SortPermutes`).
* `PublishedRead` follows the loops of `policy create` over what is published, by the states of `Loop`. Its two
  outcomes are `ParseNamesMeans`, which finds every name, and `ParseNamesRefuses`, which needs only the
  first tool that is too many or too long; `PublishedMeans` and `LongToolMeans` put them together.

`InventoryInv` says that what was published was made of an accepted answer; it is inductive, and
`AnswerMeans` does the rest.

Only model-checked: every liveness property (the four of `relay_live`, `InspectEnds`, `GoodServerInventoried` and
`DoctorEnds`), since reasoning under fairness needs ENABLED, which the prover does not handle.

## 7. What is not modelled

* Characters: UTF-8, numbers, escapes beyond their presence, formatting of audit records and
  error answers. Their verdicts are inputs of the models.
* In doctor: option parsing, failures of `pipe`, `fork` and of its own reads.
  `strace_command.cpp` only prefixes the argument vector.
* `LineFramer::reset` and the trimming of a carriage return, which `run_stdio_child` does not use.
* `mcp-native-guard relay`, a benchmark loop with blocking streams; scripts, profiles, schemas,
  example and test servers.
* Option parsing, `getrandom`-like environment failures outside the functions above, and the
  FNV-1a fingerprint, a function of the table.
* Descriptor inheritance and `posix_spawn` attributes: a launch succeeds or fails.

## 8. Plan

Done: `ListCorrelation`, `ToolCallFilter`, `StdioRelay`, `Inspect` and `AtomicFile`; `Policy`, `Messages`,
`ToolInventory` and their composition `Discovery`; `LineFramer`, `AuditSink` and their
composition `Doctor`. Every safety invariant of these that a run checks is a theorem, and
so are the refinement and the action property of `AtomicFile`.

What is left:

1. The bytes of what `Emit` writes against the limits of the loader, which section 2 only reads from the code.
2. An abstract specification of the relay as two channels, which `StreamsIntact` states with histories instead.
3. `Discovery` with more than one message in a row, which would put the correlation of `ToolCallFilter` and the
   reading of messages in one model.

## 9. Running

    tlc -workers 2 -config MCToolCallFilter.cfg MCToolCallFilter.tla
    tlc -workers 2 -config MCStdioRelay.cfg MCStdioRelay.tla
    tlapm FilteringProofs.tla
    tlapm ToolCallFilterProofs.tla
    tlapm AtomicFileProofs.tla
    tlapm DoctorProofs.tla
    tlapm StdioRelayProofs.tla
    tlapm InspectProofs.tla
    tlapm PolicyProofs.tla
    tlapm DiscoveryProofs.tla

The proofs of `StdioRelayProofs`, `DoctorProofs`, `PolicyProofs` and `DiscoveryProofs` take about two minutes each from nothing.
The largest runs (`filter`, `inspect`, `doctor`, `relay`) take one to two minutes with two workers, the others less.
`MCStdioRelayDescendant.cfg`, `MCDoctorServer.cfg`, `MCInspectGroup.cfg`, `MCInspectUnsolicited.cfg` and `MCMalformed.cfg` are the runs that end with a
counterexample.
