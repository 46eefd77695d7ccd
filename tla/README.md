# Verification of ConsoleApplication1

`src/ConsoleApplication1` is one Visual Studio console project that collects
independent components: a directory watcher, a lock-free queue, an HTTP and
WebSocket server, two multipart parsers, serializers and utilities. `main` only
runs a small demonstration; there are no tests and no design documents. What a
component promises is therefore taken from its comments, its signatures and the
way its parts use one another.

This directory holds TLA+ models of the components whose state is worth checking,
TLC configurations that model-check them on small instances, and TLAPS proofs for
every value of the constants. `PROJECT.json` is the index: components, runs,
faulty variants that show each property can fail, the source lines each definition
translates, findings, hazards and theorems.

Contents

1. Inventory
2. The directory watcher
3. The lock-free queue
4. The HTTP server
5. The multipart parsers
6. The configuration and its JSON
7. The address database
8. Findings
9. What is proved, what is only model-checked
10. Plan
11. Not modelled

## 1. Inventory

Paths are relative to `src/ConsoleApplication1`. The components call each other
little: the server's own files form one chain of calls, the class
`multipart_parser` carries the automaton of `multipartparser` over into C++,
`configure` stands on the JSON of `serialize.hpp`, which writes into a
`string_stream`, and everything else stands alone.

### Concurrent or asynchronous

| component | state | operations | interactions | hard behaviour | what makes it correct |
|---|---|---|---|---|---|
| `rdc_fs_watcher.h/.cpp` | `watch_infos_` (map of entries by the address of their OVERLAPPED), the I/O completion port, `stopped_`, `loop_thread_` | `add_directory`, `remove_directory`, destructor; `event_loop`, `process_event`; `listen`, `stop` of an entry | client threads, the loop thread and the kernel share the map and the port; callbacks to the subscriber run under the mutex | packets name entries by an address only; `stopped_` is read without the lock; the drain waits without a timeout; a call can fail | an entry outlives its call; one call per OVERLAPPED; a subscriber is watched or told; shutdown terminates |
| `lock_free_queue.hpp` | the chain of nodes from `tail_` to `head_` | `enqueue` (two overloads), `dequeue`, `empty`, destructor | many producers, one consumer, atomics only | the gap between `exchange` and `store`; nodes deleted while producers hold pointers; addresses reused | no use after free, FIFO, nothing lost or duplicated, no leak |
| `listener`, `detect_session` | the acceptor; one stream and deadline per connection | accept loop; detection of TLS | `listener` hands each socket to a `detect_session`, which hands it to a plain or an SSL `http_session` | accept errors; deadlines | every connection gets a deadline; the accept loop goes on |
| `http_session.hpp`, `plain_http_session`, `ssl_http_session` | the client's stream, the stream to the upstream server `csstream_`, the slots `client_send_msg_` and `msg_` | read a request, connect, handshake, write upstream, read the answer, write the response; shutdown | each handler starts the next operation; a request that is an upgrade hands the stream to a `websocket_session` | errors and timeouts at every operation; slots reused over requests; a null upstream stream | requests forwarded once and in order, one response each, no request in the clear, no client holds a session |
| `websocket_session.h`, `plain_…`, `ssl_…` | `buffer_`, the kind of message | accept, read, echo | started by `http_session` | the buffer accumulates | each message is echoed once, alone, as its kind |

### Sequential with state

| component | state | operations | hard behaviour | what makes it correct |
|---|---|---|---|---|
| `multipartparser.h/.cpp` (C), `multipart_parser.h/.cpp` (class) | automaton state, index into the boundary; in the class the parts and the header being read | `multipartparser_execute`/`parser_data` on pieces of a message; `get_multipart_data` | a piece may end anywhere; characters are looked at again; boundaries break off | the same parts however the message is cut; errors where they are; it returns |
| `string_stream.hpp` | a growing buffer, read and write position | `write`, `put`, `write_str`, `read`, `clear`, `str` | growth while pointers exist; reads past what was written | bytes come out as they went in |
| `serialize.hpp` | the reader's text, offset and token; the process-wide flag `g_has_error` | `to_json`; `from_json`, `from_json_container`; the tokenizer under them | strings are unescaped in the text they are read from; errors set a flag and reading goes on; the flag outlives the call | what was written is read back; every text is read to an end |
| `configure.hpp` | the value `result_`, the file | `persist_conf`, `parse_conf` | the file is emptied, then written, and neither result is looked at | a value persisted is a value read back; a cut file yields nothing made up |
| `ipdb.hpp`, `manage_ipdb.hpp` | the file's bytes, the number of nodes, where the IPv4 addresses begin; the reader in use | the constructors, `find`, `find_map`, the info classes; `init_ipdb`, `get_ipdb_info` | a damaged file still makes a reader; a size made of the wrong bytes; IPv4 inside IPv6 | an answer is the record of the address; lookups stay inside the file |
| `stream_format.hpp`, `msg.h` | a packet buffer | `write_header`, `write_body`, `get_send_data` | a moved-from buffer, a body size cut to its field | header and body at their offsets |
| `BufferPtr.h` | pointer, size, capacity | `Malloc`, `Realloc`, `Copy`, `Cat`, moves | shrinking, size 0, a source that is the buffer itself | size within capacity, contents kept |
| `fields_alloc.hpp` | a pool with two counters | share, destroy, allocate, deallocate | copies of allocators; reset when all blocks are gone | no block handed out twice, the pool freed with its last owner |

### Pure algorithms

| component | what it computes |
|---|---|
| `b64_encrypt.h/.cpp` | Base64 of a byte string, and back |
| `serialize.h` | length-prefixed encoding of containers |

### The rest

Compile-time metaprogramming (`reflection.hpp`, `traits.hpp`, `unit.hpp`), text
formatting (`format.h`), operating-system calls (`CSystemStatus`, `pe_manger`,
`udp_client`), declarations without bodies (`ProxyEngine`, `super_box.h`,
`MultiPart`), the program itself (`ConsoleApplication1.cpp`, `s.cpp`, `common.h`)
and third-party code (`binproto.hpp`, `shine_serial.hpp`, `nlohmann_json.hpp`,
`doctest.hpp`, `WinReg.hpp`). Section 11 says why they have no model.

### Modules

| module | models | checked by | proofs |
|---|---|---|---|
| `FsWatcher` | `rdc_fs_watcher` with the kernel | `MCFsWatcher` | `FsWatcherProofs` |
| `LockFreeQueue` | `lock_free_queue` | `MCLockFreeQueue` | `LockFreeQueueProofs` |
| `MpscQueue` | what the queue promises (abstract) | as the property `Refines` | `LockFreeQueueProofs` |
| `HttpServer` | `listener`, `detect_session`, `http_session`, `websocket_session` | `MCHttpServer` | `HttpServerProofs` |
| `MultipartAutomaton` | the switch of `multipartparser_execute` and of `parser_data` | `MCMultipartParser` | `MultipartProofs` |
| `MultipartParser` | the class `multipart_parser` on top of it | `MCMultipartParser` | `MultipartProofs` |
| `MultipartReading` | what the class promises: a function of the message, read character by character | `MCMultipartParser` | `MultipartProofs` |
| `StringStream` | `basic_string_stream` | within `Configure` | `StringStreamProofs` |
| `JsonReader` | `reader_t`, the tokenizer of `serialize.hpp` | within `Configure` | `JsonReaderProofs` |
| `JsonFields` | `read_json`, `do_read`, `do_read0`, `from_json`, `from_json_container`, extends `JsonReader` | within `Configure` | |
| `JsonWriter` | `to_json` and `write_str`, extends `JsonFields` | within `Configure` | |
| `Configure` | `configure` and the composition of the four above, with crashes and edited files | `MCConfigure` | `ConfigureProofs` |
| `Persisted` | what a file that was persisted, or cut short, may be read as | `MCConfigure` | |
| `Ipdb` | the reader of `ipdb.hpp` and `manage_ipdb` | `MCIpdb` | `IpdbProofs` |
| `IpdbFormat` | what a packed database is: the tree, the records and their numbers | `MCIpdb` | `IpdbProofs` |

In each module the operators under "Faulty variants" are not part of the model:
each is a plausible bug in one definition, and `PROJECT.json` names the property
that detects it.

## 2. The directory watcher (`FsWatcher`)

**State.** `watch_infos_` maps an address to the entry under it, or `NoWatch`; an
entry has its `state_`, whether `directory_` is open, and a history field `alerted`
(`error_event_` was called for it). `io` counts the outstanding
`ReadDirectoryChangesW` calls of an address, `iocp` is the completion port's queue,
`cur` the packet the loop thread took. `loop` and `dtor` are the places of the loop
thread and the destructor, `adding` the clients inside `add_directory` between the
unlocked and the locked look at `stopped_`.

**Actions.** A critical section of `watch_info_mutex_` is one action, because no
other thread sees its inside; those in which the loop thread calls a subscriber or
waits for the port are split, with `LoopHoldsLock` keeping the clients out.

| code | actions |
|---|---|
| `add_directory` | `AddBegin`, then `AddListen` or `AddFail` (any of its error exits) |
| `remove_directory` | `Remove` |
| `~rdc_fs_watcher`, `stop_event_loop` | `DtorStopAll`, `DtorPost`, `DtorDestroy` |
| `event_loop` | `TakePacket`, `PortFails`, `LoopLeft`, `DrainPacket`, `DrainDone`, `AlertAll` |
| `process_event` | `ProcessClosing`, `ProcessOverflow`, `ProcessChanges`, `Relisten`, `RelistenFails`, `ErrorReturns` |
| the kernel (external) | `Complete` |

Addresses are reused: `Ovs` is the set of addresses the allocator may return, so an
entry may get the address of one freed earlier, which is what a late packet could be
confused by.

**Abstracted.** Ids only select the entry `remove_directory` finds; as clients choose
them freely and the map has no order, any entry may be the one. File names and the
walk over the notification buffer are data of the callback. Callbacks only return: a
callback that calls back into the watcher locks a non-recursive mutex twice, a hazard
that is listed and not modelled. The result of `PostQueuedCompletionStatus` is not looked at
(rdc_fs_watcher.cpp:151): the post is taken to succeed. Both callbacks are set before the first
`add_directory`.

**Runs.** `fs_watcher`: two clients, three addresses, 384,311 states. Two clients are
enough to have one in `add_directory` while another adds or removes; three addresses
give a packet in hand, a queued one and an outstanding call of different entries at
once. No symmetry is used, because liveness is checked.

- `NoDangling`, `OneCallPerEntry`: the memory contract with the kernel.
- `WaitsOnlyForCalls`: every entry the drain may wait for has a call that will answer.
- `WatchedOrAlerted`: an added entry is watched, being handled, or its subscriber was
  told. It is what the second look at `stopped_` is for: without it
  (`AddListenUnchecked`) an entry is added after the loop has died.
- `NoEventAfterRemove`, `ErasedOnlyIfStoppedOrAlerted`: what a subscriber sees.
- `ShutdownTerminates`: the destructor returns, whatever was outstanding when it began.
- `StoppedIsErased`: an entry that is stopped before its subscriber was told of an error is
  erased by its closing packet. An entry that is stopped after an overflow is exempt: it
  has no call any more, keeps its state (rdc_fs_watcher.cpp:98), and stays in the map
  until the watcher is destroyed.

`fs_watcher_one_failure` is a violation, see section 8; one client and two directories
suffice for it. After such a failure nothing is drained, and a failed call during the drain
ends it, so the destructor may free an entry whose call is outstanding, although
"we're waiting for the "closing" notification on IOCP" (rdc_fs_watcher.h:18);
`NoDangling` speaks of the time until then.

**Fairness.** `WF_vars(Loop)`: the loop thread is scheduled, and subscribers' callbacks
return. `WF_vars(DtorPost \/ DtorDestroy)`: a destructor that has begun continues; both
are disabled only while it joins. Completion of the calls of a closed handle: Windows
completes pending calls when `CloseHandle` closes the last handle of the directory.
Nothing is assumed of clients, directory changes, or the port.

## 3. The lock-free queue (`LockFreeQueue`, `MpscQueue`)

**State.** `heap` (allocated nodes), `next_`, `data`, `head_`, `tail_` as in the code; the
local variables of a producer (`node`, `prevhead`) and of the consumer (`tail`, `next`)
with program counters. Two histories: `output`, the items returned, and `chain`, the
nodes from `tail_` to `head_` in order, whether or not they are linked yet.

**Actions.** One per access to shared memory: `NewNode`, `Exchange`, `Link` are
`enqueue`; `DequeueCall`, `LoadNext`, `MoveData`, `StoreTail`, `DeleteTail` are `dequeue`;
`EmptyCall`, `EmptyReturn` are `empty`; `Destroy` and `DeleteHead`, with calls of
`dequeue` in between, are the destructor.

**Memory model.** The model is sequentially consistent. The code passes a node to
another thread only through `head_.exchange(acq_rel)` or a release store of `next_` that
is read by an acquire load, so what its constructor wrote is visible wherever the node
is; `tail_` is only touched by the consumer.

**Usage assumed.** One consumer ("from a single thread", lock_free_queue.hpp:47), `empty`
called by it, no call in progress when the destructor begins.

**Refinement.** `MpscQueue` has a queue of reserved items, the set of those still
pending, and what was taken: `Reserve` at the exchange, `Publish` at the store of `next_`,
`Take` when the item is moved out. The mapping reads the queue off `chain` and the
pending items off the producers at `link`. So items come out in the order of the
exchanges, and one that is not linked yet holds back those behind it.

**Runs.** `queue`: two producers with two items each, four addresses for the five nodes
the run needs, so that an address is allocated again: 177,076 states. Two producers make
every race of `enqueue` (the exchanges are totally ordered, and a gap lies between two
neighbours); the second item of each is what shows an order. `NoUseAfterFree`,
`DataIsThere`, `NoLostLink`, `NothingLeaks`, `FalseOnlyIfUnlinked`, `Refines`,
and the liveness property `EveryItemArrives`. `queue_false_while_not_empty` is a violation,
see section 8.

**Fairness.** A thread inside `enqueue` or `dequeue` is scheduled (weak fairness on the
steps behind the first one). `SF_vars(DequeueCall)`: the consumer polls; strong, because
calls of `empty` in between disable it again and again. No producer needs to begin a
call, and `NewNode` is not fair (memory may run out).

## 4. The HTTP server (`HttpServer`)

**State.** Per connection, `state` is the asynchronous operation whose handler is
awaited; a session lives exactly as long as there is one. `deadline` and `upDeadline` are
the deadlines of the client's stream and of `csstream_`, `never`, `set` or `passed`;
`csstream_` is `null`, `open`, `connected` or `closed`, and `secure` once its TLS handshake
is done. `client_send_msg_`, `msg_`, `buffer_`, `text_` are the code's members. Requests are
numbered in the order they are read, answers likewise; 0 is the empty response `msg_`
was constructed with. `forwarded`, `answered`, `replies`, `received`, `echoed` are histories.

**Actions.** One per handler and outcome:

| code | actions |
|---|---|
| `listener::on_accept` | `OnAccept`, `OnAcceptFails` |
| `detect_session::on_detect` | `OnDetectSsl`, `OnDetectPlain` |
| `ssl_http_session` | `OnHandshake`, `OnReadEof`, `OnShutdown` |
| `http_session::on_read` | `OnRead`, `OnReadUpgrade`, `OnReadEof` |
| `client_on_connect` and its handlers | `OnConnect`, `OnUpHandshake`, `OnUpWritten`, `OnUpRead` |
| `server_send_msg` | its handler is `OnReplied` |
| `websocket_session` | `OnWsAccept`, `OnWsRead`, `OnWsWritten` |
| error exits | `ClientFails`, `UpFails`, `WsFails` |
| `expires_after` of Beast (external) | `DeadlinePasses`, `UpDeadlinePasses` |

The handlers of a connection run on its strand, so each is one step; those of different
connections interleave. An operation that is in progress when its deadline passes fails,
but only if it is waiting: `OnUpHandshake` of a stream that is already secure may
still run, and an operation whose result is already there may succeed.

**Abstracted.** Contents of requests and answers, headers, the resolver's result,
certificates. `handle_request`, `write` and `on_write` (http_session.hpp:107-156) are
reached from nowhere and left out.

**Runs.** `http`: two connections of any kind, three requests or two WebSocket messages
each, 57,118 states. Connections share nothing but the process, so two show what one
does to another (ending it); the third request is the second one over a reused upstream
stream, where a slot or a flag of an earlier one would show. `http_reply_lost` and
`http_plain_crash` are violations.

- `RequestOnlyOverTls`: `client_on_connect` does not look at its error and every further
  request connects the connected stream again, and yet nothing is sent before a
  handshake has succeeded.
- `ForwardedInOrder`, `RepliesFollowAnswers`: one slot per direction suffices.
- `Deadlines`, `EndsOrAwaitsUpstream`: no silent client holds a session, and connecting
  to and the handshake with the upstream server have a deadline. The write to the
  upstream server and the read of its answer have none: a session that waits for them
  may wait for ever, and `EndsOrAwaitsUpstream` exempts it.
- `EchoesWhatItRead`.

**Fairness.** The clock runs, and the handler of an operation whose deadline has passed
runs, which is what Beast's timer and the `io_context` threads do; so does the handler of a
handshake that has nothing to wait for. Nothing is assumed of clients, the network or
the upstream server.

## 5. The multipart parsers (`MultipartAutomaton`, `MultipartParser`, `MultipartReading`)

The C function `multipartparser_execute` and the class's `parser_data` have the same switch,
which `MultipartAutomaton` models, one action per case. Its state is the code's
(`state`, `index`) with the message, the number of characters handed over (`last`) and
consumed (`p`), whether a call failed, and the callbacks of the step (`called`). `Call`
hands over any further piece, so that all divisions of a message are explored. A pass
that goes to `reexecute` consumes nothing (`Reexecute`); the inner loops over runs of
characters consume up to the end of the piece (`RunEnds`). `MultipartParser` adds the
class's callbacks to every pass, and `get_multipart_data` as a function of `parts_`.

`MultipartReading` is the specification the parser is held to: `After` says what one more
character does to what is known of a message (the state, the boundary's index, whether it
is faulty, the header being read, the parts), with no pieces, no runs of characters and no
second look, and `Reading(bytes)` is what is known after each character. `View` is the same
record made of the parser's variables.

**Abstracted.** Characters are members of a small set: those the switch compares with, two
letters, one that stands for the name `Content-Disposition`, one for the words before a
field's name, one that is no token, a quote. SP and HT are one character, and letters have
no case: both files say of `g_header_field_chars` "Also lowercases them"
(multipart_parser.h:23, multipartparser.cpp:45), but the table maps capitals to themselves
and is only compared with 0, so names arrive as they came, and `get_multipart_data` relies
on it when it looks for `Content-Disposition`. Callbacks return 0. The boundary is kept
whole, and taken to have at most 69 characters: the C parser copies it with `strncpy` into
`boundary[70]` (multipartparser.h:20, multipartparser.cpp:96-97), which cuts a longer one and
leaves no terminating zero for `strlen`.

**Messages.** A message of `MCMultipartParser` is made from what its sender means: parts
with headers, values and pieces of body, the fields of the form, and the position of the
first character that no message may have there. The definitions that make the bytes are
a reference independent of the parser. Sixteen messages: two fields with preamble
and epilogue; near-boundaries; boundaries that break off; a repeated name and a part
without headers; a file with more headers; a header without value; a preamble with two
hyphens; nine bad ones, one for each state that can fail. `MeaningAssumption` says of each
message that read character by character it means what its sender meant (`Means`): the
parts are the sender's, the fields are the first body under each name (`AreFields`), the
first error is where it was put. Of a message with a header without a value it does not say
that the parts are the sender's, for the class runs that header's name into the next one
(multipart_parser.h:118), and `MessageArrives` exempts it: nothing in the repository says
what should happen. TLC evaluates it for the sixteen; the theorems are about all
messages it holds of.

**Runs.** `multipart`: all messages in all divisions, 9,347 states.

- `DivisionIrrelevant`: wherever a piece ends, the parser is where it would be had it read
  the message character by character, and it rejects the same character.
- `MessageArrives`: the parts, and the fields `get_multipart_data` returns, are those that were
  sent. Where a boundary breaks off the parser gives back only what matched, and
  the CR LF and hyphens before it are lost: `Broken` records that, as no text says what
  should happen.
- `RejectedWhereBad`: an error is reported at the bad character and nowhere else.
- `PartIsOpen`: `parts_.back()` is never used on an empty list.
- `EpilogueIgnored`: "Must be ignored according to rfc 1341" (multipartparser.cpp:319).
- `CallReturns`: looking at a character again never goes on for ever; fairness is that
  a call runs until it returns.

`multipart_preamble` is a violation. Deadlock is not checked: a
message that was read or rejected is the end.

## 6. The configuration and its JSON (`StringStream`, `JsonReader`, `JsonFields`, `JsonWriter`, `Configure`)

`persist_conf` renders a value with `to_json` into a `string_stream` and writes the
stream to a file; `parse_conf` reads the file and hands its text to `from_json`. The model
follows that chain: `JsonFields` extends the tokenizer, `JsonWriter` extends `JsonFields`
(they share the types), and `Configure` instantiates `StringStream` and adds the program
around: the file, the process that can die, and the program's other reader,
`from_json_container`, which shares `g_has_error` with the first. `Persisted` states what
comes out of a file for what went into it.

**State.** `StringStream`: the buffer, its length, `read_ptr_` and `write_ptr_` as offsets; a
byte nobody wrote is `Unset`; `log` is the history of what was written since the last
`clear`. `JsonReader`: the text `ptr_` (it is changed in place), the offset, the token
(type, offset, length and, for a number, `num / 10^scale`), and `lex`, the loop `next()` is
in; `pending` counts the calls of `next()` its client has made and that are not finished.
`original` and `decoded` are histories: the text as it came, and what the string being
read stands for. `JsonFields`: `stack`, a frame per call in progress with the type, the
value it fills, and where it goes on. C++ selects a reader by type when it is compiled; in the
model a type is a record such as `Struct(<<[name |-> ..., type |-> INT], ...>>)`, whose field `new` is a
value-initialized object of it. `JsonWriter`: `to_json` recurs over a value and its parts, and
`Typed` is the set of all of them, with their types, on which it is a function. `Configure`:
`result_`, `file`, what the program is doing (`task`), and histories saying how the
text being read came about (`source`) and what was there before (`before`, `failed`).

**Actions.**

| code | actions |
|---|---|
| `reader_t::next` | `SkipBlank`, `EndToken`, `CtrlToken`, `CommentBegins`, `NotAComment`, `InLineComment`, `InBlockComment`, `BlockCommentEnds`, `BlockCommentCut`, `QuoteToken`, `NumberToken`, `PlainToken` |
| `parser_quote_string` | `QuotedChar`, `QuotedEnds`, `QuotedFails`, `QuotedLetter`, `QuotedSame`, `QuotedUnicode`, `QuotedUnknown` |
| `parser_string` | `PlainChar`, `PlainEnds`, `PlainFails`, `PlainLetter`, `PlainUnicode`, `PlainUnknown` |
| `parser_number` | `NumberDigit`, `NumberDot`, `NumberEnds` |
| `read_json` of vectors, maps, structs | `OpenContainer`, `OpenStruct`, `NextElement`, `NextKey`, `KeyColon`, `MoreElements` |
| `read_json` of a scalar | `ReadValue`: one switch on the token, a single step |
| `do_read`, `do_read0` | `NextField`, `FieldName`; `FieldLoop`, `FieldKey` |
| `from_json`, `from_json_container` | `FromJson`; `FromJsonContainer`, `NextItem`, `ItemAssigned`; `Returned` |
| `string_stream` | `Write` (with `growpup`), `ReadBytes`, `Clear`, `Construct` |
| `persist_conf` | `Persist`, `ToStream`, `OpenFile`, `OpenFails`, `CloseFile` |
| `parse_conf` | `Parse`, `ParseRefused`, `ReaderStep`, `ParseReturns` |
| the rest of the program (external) | `ReadItems`, `ItemsReturn`, `Crash` |

One action is one pass of a loop. An error is what the code makes of it: it sets
`g_has_error` and goes on.

**Abstracted.** Types other than integers, `bool`, strings, vectors, maps with string keys and
structs (floating-point, enum, fixed array and tuple have readers of their own in the same style).
Texts are 7-bit, as `char_to_hex` indexes its table with a `char`. Line and
column, which only error messages use. An uninitialized integer read for an
element or key that failed is any member of `Garbage`. The separate small writes of the
writer are one `Write`: `StringStreamProofs` covers any sequence of them.

The constructor of `reader_t` leaves the token uninitialized; it stays so if the text begins with
a block comment that is not closed. `Uninitialized` holds what it may be then; its pointer may be
taken to be the text's, because nothing follows it before it is set. A string that fails keeps the length of
the token before it, or an uninitialized one: `do_read0` and `read_json` copy that many bytes, which are the rest
of the text, the zero behind it, and then any members of `Behind` (`TokenTexts`). A length so large that copying it
ends the process is a `Crash` at that step. `take()` looks at the byte it arrives at, and `expect()` at the
first byte of a `t_end` token: at the end of the text that is the zero behind it, which a `std::string` has
(`Read`, `LooksAtText`). A `\u` escape that the end of the text cuts off is stored too far ahead, at the
beginning of a text even before it: that store is not in the model (`Fill`), nor in `UnescapedInPlace`, which
says nothing once the end is reached.

**Runs.** `configure`: a struct with a field of every kind; four values of it (two that are
read back, one with a backslash and control characters, and one with a key that begins with a
brace); two texts with the fields in another order; 32 edited files, which between them reach every line of the tokenizer
and the readers; two vectors for `from_json_container`; a crash at every step and a file
cut at every byte; three uninitialized tokens. 117,687 states, two to three minutes. Bounds: `IntBits = 9`, so that -12, 200
and 300 are a value, a value of the unsigned type only, and an overflow;
`INIT_BUFF_SIZE = 16`, so that a text grows the buffer; `MaxCalls = 2`, which makes "persist,
then read", "read over what was read", "fail, then read a vector".

- `TypeOK`: types, the stream's pointers within its buffer, and the reader's cursor and token within its
  text or at the zero behind it (`LooksAtText`).
- `UnescapedInPlace`: escapes of two and six characters become one to three bytes in the text they are
  read from. The bytes at the token are what the string stands for, however the
  escapes follow one another.
- `RoundTrip`: what was persisted, or rendered with its fields in another order, is read back,
  over whatever was there: fields are replaced, vectors appended to, maps merged. It
  speaks of values writer and reader agree on (`Plain`); `json_backslash` shows what
  becomes of the others. They are strings with a backslash or with a control character that has no
  letter (`PlainString`), and keys of a map that begin with a closing brace, as well as strings in
  a vector that begin with a closing bracket (`Begins`): the readers compare the first character of
  a token only, whatever its type (serialize.hpp:1069, 1099), so that the container ends
  there, the rest is skipped as an unknown field, and no error is reported.
- `CutFileInventsNothing`: after a crash or on a full disk the file is a prefix. `do_read0` takes
  the end of the text for the end of an object, so that `parse_conf` often returns true;
  then each field has its old or its persisted value, or a number that lost digits, and
  nothing else.
- `OnlyAStaleErrorRejects`: `from_json_container` of a vector does not clear `g_has_error`. It rejects
  what the program rendered itself exactly if the call before it failed, or the vector is
  empty (its closing bracket is taken for an element).
- `CallReturns`: no text keeps the reader in one of its loops, although `take()` does not
  advance at the end. One of the files is a block comment that is not closed, before any token.

**Fairness.** `WF_vars(Running)`: a call that was made runs until it returns or the process
dies. It is one thread without locks. Deadlock is not checked: after `MaxCalls` calls the
program stops.

## 7. The address database (`Ipdb`)

**State.** `ipdb_` is the reader in use, a record of its members; `out` the strings `get_ipdb_info` fills,
`shown` what an info object prints, `ret` what the last call returned. `outside` is a
history: the last call read outside of `data_`; what such a read yields is any member of
`Garbage`. `file` and `asked` say which file was opened last and what was looked up.

**Actions.** The code is sequential, and a call is one step: `init_ipdb` and `init_fails`,
`get_ipdb_info`, and `find_info`, which stands for the `find_info` of `city`, `base_station`,
`district` and `idc`. Within a call the definitions follow the code: `Readers` is the
constructor with its early returns, `search` the walk down the tree, `resolve` the record, `split`
and `find_map` its fields, `is_valid_utf8` the check that decides about a conversion.

**What the code does, and the model with it.** `resolve` puts the size of a record together from the first
byte of the length and the first byte of the text, both signed, and then takes the text up
to the next NUL, not of that size; the packed databases have no NUL in a record and records of less than 256
bytes, so that no property sees a record cut there. `idc()` of `idc_info` returns the field of `isp_domain()`. A field the
database does not have leaves its output string as it was. A file of the wrong size leaves a
reader with languages and without data, and `init_ipdb` has returned true. The comment
"it only supports IPv4" (ipdb.hpp:5) is older than `find_str`, which looks IPv6 up too.

**Abstracted.** The description of a file, which is JSON, is its parsed form. Conversion to
GBK is whether it is made. Widths: 3 and 5 bits for 32 and 128, one zero and two mapped bits for 80
and 96: constants of the module, none of its definitions depends on their values.

**Runs.** `ipdb`: eleven files, seven packed from tables of records in four shapes (one record for all
addresses, halves and quarters, one address of its own, the IPv4 addresses apart) and for the
four info classes, one of them with a gap, and four damaged or restricted ones; all addresses
of three bits, three IPv6 ones and one that is neither; two languages; three calls, so that a file
can replace another between two lookups: 3,426 states. `MCIpdb` packs the tables independently of the
definitions that read them, and says under which number each prefix of an address is
reached (`number`). `IpdbFormat` states what makes such a file packed: each bit `Leads` from a
number to the next (`TreeIsPacked`), and behind each last number lies a record with its length,
its fields between tabs and no NUL or tab in them (`RecordIsPacked`). TLC evaluates that for the
packed files as an assumption, so that the format is not an empty one; the definitions of the
reader are not used in it.

- `AnswerIsOfTheAddress`: a lookup that answers, answers with the record of its address, field by
  field, and converts exactly the fields that are well-formed UTF-8 (`WellFormedUtf8` states that
  by the byte ranges of the standard, `is_valid_utf8` by decoding as the code does). A first byte
  that announces more bytes than there are is ill-formed, and so is one followed by a byte that
  continues nothing.
- `FoundFarFromTheEnd`: how far from the end of a file a record must lie to be found for certain, in
  spite of the size put together from the wrong bytes.
- `ReadsInside`: no sound file makes a lookup read outside of it. That a damaged one does is
  why the property has a premise.

Deadlock is not checked: the run makes `MaxCalls` calls.

## 8. Findings

| run | what the code does | what is said |
|---|---|---|
| `fs_watcher_one_failure` | one directory's failed call ends the loop for all directories | "There is something wrong with the IOCP" (rdc_fs_watcher.cpp:287) |
| `queue_false_while_not_empty` | `dequeue` returns false at a gap with complete items behind it | "@return false if the queue is empty." (lock_free_queue.hpp:46) |
| `http_reply_lost` | `server_send_msg` writes `msg_`, which nobody assigned | "Send the response" (http_session.hpp:103) |
| `http_plain_crash` | a plain session's first request dereferences the null `csstream_` | "the same code works with both SSL streams and regular sockets" (http_session.hpp:7) |
| `multipart_preamble` | two hyphens in the preamble begin the first boundary | "else ignore everything before first boundary" (multipart_parser.cpp:24) |
| `json_backslash` | a backslash is written as two, which the reader rejects as an unknown escape; a control character without a letter takes the next character into its escape; a key that begins with a closing brace ends its map | `to_json` into a stream, `str()`, and `from_json` of what came out (s.cpp:36) |

## 9. What is proved, what is only model-checked

TLAPS proves the following for every value of the constants: any clients and addresses,
any producers, nodes and items, any connections and bounds, any boundary and messages,
any type and values of a configuration and any file, any packed database with addresses of any
width. The assumptions are the named ASSUMEs of the modules: the null values are not among the
addresses, items or nodes, bounds are natural numbers, boundary and messages are
sequences over `Char` and mean what they say (`MeaningAssumption`), databases are packed as
`IpdbFormat` has it, texts are of 7-bit characters (`ConfigureParameters`). The two theorems of `StringStreamProofs` assume `StreamAssumption` (the
initial size is positive, chunks are byte strings), which is an operator because
`Configure` instantiates the module with chunks of its own.

**`FsWatcherProofs`**: `TypeCorrect`, `MemorySafe` (`NoDangling`), `OneCall`, `DrainIsSound`,
`NoSilentLoss`, `RemoveIsFinal`, `NoSilentErase`. The four safety invariants support each
other: an address is not reused because the entry is alive, which is so because an
outstanding call belongs to a listening or closing entry, of which there is one per
address. The inductive invariant adds what they leave open: `EntryInv` (the state of an
entry determines its handle, and an initialized one has no call), `PacketInv` (only
the magic packet has the null address), `LoopInv` (the entry a callback runs for is
initialized, and while `change_event_` runs its handle is open; `stopped_` is set exactly
when the loop was left), `ShutdownInv` (the magic packet is posted once all entries were
stopped and no client is in a call). One lemma per action; `QueuePut` and `QueueTake` say
what a packet added or taken does to the queue.

**`LockFreeQueueProofs`**: `TypeCorrect`, `MemorySafe` (`NoUseAfterFree`), `DataPresent`,
`LinksAreKept` (`NoLostLink`), `LeakFree`, `NoSpuriousFalse`, and `Refinement`:
`Spec => Abstract!Spec`. The inductive invariant speaks of the history `chain`: `ChainInv`
(it has no node twice, runs from `tail_` to `head_`, and each node's `next_` is the
following one unless its producer has yet to link it), `ProducerInv` (which two neighbours
of the chain a producer at `link` holds), `ConsumerInv` (the consumer's `tail` is the
first node, or has left the chain), `HeapInv` (every allocated node is in the chain, private to
a producer, or about to be deleted), `DataInv` (items are behind the first node, each
once). Four lemmas map a step to `Reserve`, `Publish`, `Take` or a stutter.

**`HttpServerProofs`**: `TypeCorrect`, `NothingInTheClear` (`RequestOnlyOverTls`), `Forwarded`,
`Replied`, `Timed` (`Deadlines`), `Echoed`. The invariant is one per connection:
`CountInv` fixes, for each awaited operation, how far the counts of read, forwarded,
answered and replied requests are apart; `OrderInv`, `SecureInv`, `DeadlineInv`, `EchoInv`.
`SameView` shows that a step of one connection leaves the others' invariants alone.

Induction over data is done with sets: `Least`, from the library's theorems that the
naturals are well-founded, gives a set of naturals its least member, and `SetInduction` puts
every number from a to b into a set that has a and the successor of each member. What a
recursive function computes is first proved to satisfy its equation (`ReadingDef`, `SplitDef`,
`EndsDef`, `ReachedDef`, `ValidDef`), by building it up to each number.

**`MultipartProofs`**: `TypeCorrect` (with the bound on `index`, so that `boundary_` is only
read within its length), `PartOpened`, `EpilogueInert`; `DivisionDoesNotMatter`
(`DivisionIrrelevant`), `MessageDoesArrive` and `BadIsRejected` (`RejectedWhereBad`). The invariant adds `AtEnd` (once
`body_end` was called the parser is in the epilogue and has not failed). `PassFacts` is what a
pass through the switch guarantees to the callbacks, proved by groups of cases;
`CallbacksPass` uses it for the class. The second half of the module adds `Tracks`: between two
passes, what is known after the characters consumed is `View`, or becomes it when the
character at `p` is looked at again (a boundary that broke off is filed as data first, a header is
filed late). `RunReading` is the induction that takes a run of characters, which the code
reports in one callback, through `After` one at a time; `UpdateFields` and `UpdateTwice` let the updates
of the two records be compared. With `Tracks` the three theorems are about `Reading` only, and the
assumption on the messages closes them.

**`StringStreamProofs`**: `PointersStayInside` and `StrIsWhatWasWritten` (`ContentsKept`): whatever is
written, `growpup` finds a multiple of `INIT_BUFF_SIZE` that holds it (`GrownIsEnough`, which
rests on `MultipleBelow`), and the bytes before `write_ptr_` move with it.

**`JsonReaderProofs`**: `TypeCorrect`, `LooksInside` (`LooksAtText`: every look of `take()` and `expect()` is at
the text or at the zero behind it), `UnreadKept`, `Unescaped` (`UnescapedInPlace`). The theorems are about
`ReaderSpec`, in which the client calls `next()` whenever it likes and nothing is known
of the text, so they hold under every client; the run checks the property under
`configure`. The inductive invariant is `TextInv` (`ReaderTypeOK /\ UnreadIsKept /\ UnescapedInPlace`) and `LooksAtText`: bytes are
stored at `start + Len(decoded)`; a \u escape yields at most three bytes for the six characters it consumes, a
letter escape one for two, so the place to store at never passes the place to read at,
and what is unread stays as it was; an escape that is cut off ends the text. `BytesStored`
is that argument as a lemma, used by every action that stores.

**`ConfigureProofs`**: `TypesHold` (`TypeOK`), `UnescapedInFiles` (`UnescapedInPlace`), `FileIsOfTheValue` and
`StaleErrorRejects`. It uses the lemmas of the two modules above for the reader and the stream
inside of `configure`: a call of `from_json` makes a reader that satisfies `ReaderInv` of any 7-bit
text (`ReaderBegins`), a step of the readers above it only calls `next()` and sets the flag
(`FieldStepMoves`), and `StringStreamProofs` is instantiated with the stream of `persist_conf`.
`FileIsOfTheValue` is what `RoundTrip` and `CutFileInventsNothing` start from: after crashes at any step,
full disks and any number of calls, a file that `source` calls whole is the text of the value
`persist_conf` was called with, whatever buffers of the stream it went through, and one it calls
cut is a proper prefix of that text. The invariant adds `TextIsOfValue` (what is in the stream before the file is
written) and `FlagIsLeft` (between calls the error flag is what the last one that read left, and
`from_json_container` called with the flag set is still in front of its first element), from which
`StaleErrorRejects` follows: with the flag set it returns false and nothing, whatever its text is.

**`IpdbProofs`**: `AnswersAreOfTheirAddress`, `RecordsAreFound` (`FoundFarFromTheEnd`),
`LookupsReadInside` (`ReadsInside`), `Utf8IsWellFormed`. The state is small (`IInv`: the reader is one made of
`file`, and holds its data if the size was right); the work is in the operators. `NumberIsFollowed`
and `PrefixIsWalked` show by induction over the bits that the walk from the root passes the numbers
the packer gave, `V4OffsetIs` and `SearchIs` that an IPv4 address, which is looked up from a node in
the middle of the tree, ends at the record of the IPv6 address it is mapped to. `ResolveIs` and
`CStringIs` follow the record up to its NUL, although the size that is compared is not its own;
`SplitTabbed` shows that splitting at tabs undoes the packer's joining, for any number of
fields. `CharacterIsShaped` compares the code's decoding of a character with the table of the
standard, first byte by first byte, and `ValidIsChained` chains the characters.

Only model-checked: every liveness property (`ShutdownTerminates`, `StoppedIsErased`,
`EveryItemArrives`, `EndsOrAwaitsUpstream`, `CallReturns` of the multipart parser and of `Configure`), which
is out of the prover's reach; `RoundTrip` and `CutFileInventsNothing`, whose statements (`Merged`,
`Plain`, `PartlyRead` in `Persisted`) are RECURSIVE operators over types and values; and the other half of
`OnlyAStaleErrorRejects`, that a vector the program rendered itself is read back if the flag is clear:
it needs the tokens of a rendered text, as `RoundTrip` does.

## 10. Plan

The order put the components with the most control first: the watcher, the queue, the
server, the multipart parsers, then `string_stream` with the JSON reader and `configure`, then
the address database. What is left of the code's own logic is small and sequential:

1. `FieldsAlloc` (`fields_alloc.hpp`): allocators copied and destroyed, blocks taken and
   returned. Properties: blocks handed out since the last reset are disjoint and within
   the pool; the pool is not used after it was freed; it is freed with its last owner,
   which the code does not do (`refs_--` is compared before it is decremented).
2. `BufferPtr` (`BufferPtr.h`): `Malloc`, `Realloc`, `Copy`, `Cat`, moves, failing allocation,
   on two buffers. Properties: size within capacity, contents kept by `Realloc` and `Cat`,
   no block owned twice or lost.
3. `Codecs` (`b64_encrypt`, `serialize.h`, `stream_format.hpp`): pure functions; decoding
   inverts encoding over bounded inputs; the sign of `char` in the Base64 encoder.

Worth proving next: that the tokens `reader_t` makes of a rendered text are those of the writer (a number, a
string without backslash, a bracket, each from its first character to the one behind it), and that
each reader leaves exactly one token to its caller: the core of `RoundTrip` and of
`OnlyAStaleErrorRejects`, with `FileIsOfTheValue` below it; the values' depth as the induction's
number in place of the RECURSIVE operators of `Persisted`; an abstract server
for `HttpServer` (each connection a queue of requests and answers) with the refinement
from `CountInv`.

## 11. Not modelled

- `reflection.hpp`, `traits.hpp`, `unit.hpp`: templates, no state at run time.
- `format.h`: formatting of text.
- `binproto.hpp`, `shine_serial.hpp`, `nlohmann_json.hpp`, `doctest.hpp`, `WinReg.hpp`:
  third-party code taken over.
- `CSystemStatus`, `pe_manger`: queries and calls of the Windows API.
- `udp_client`: blocking socket calls of one thread.
- `ProxyEngine`, `super_box.h`, `MultiPart`: declared operations without definitions here.
- `ConsoleApplication1.cpp`, `s.cpp`, `common.h`: a demonstration, most of it commented out.
- `fields_alloc.hpp`, `BufferPtr.h`, `b64_encrypt`, `serialize.h`, `stream_format.hpp`: see section 10.
- Within modelled components: `set_change_event` and `set_error_event` of the watcher
  (assignments of a `std::function` without the lock), `handle_request`, `write` and
  `on_write` of `http_session` (no caller), weaker memory orders than sequential
  consistency in the queue; in `serialize.hpp` floating-point, enum, fixed-array and tuple
  types, maps with other keys, and the tuple form of `from_json`.

The map covers a small share of the repository's lines because nine tenths of them are
not the program's logic: `nlohmann_json.hpp`, `doctest.hpp`, `WinReg.hpp` and `binproto.hpp` are
third-party, and `ConsoleApplication1.cpp` is commented out but for a few lines.
