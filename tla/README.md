# A TLA+ model of vinezombie

vinezombie is an IRCv3 client framework. This directory models its stateful
parts in TLA+, checks them with TLC on small instances, and proves the most
important properties with TLAPS for every value of the constants. Paths are
relative to `src/src/`. `PROJECT.json` maps every definition to the lines it
translates and lists the hazards each property is aimed at.

## The system's parts

A user makes a `Client` (`client.rs`) around a connection (`client/conn.rs`),
adds handlers and calls `run` or `run_tokio`.

* **Run loop** (`client/conn/sync.rs`, `tokio.rs`, `time.rs`). One turn flushes
  the queue as far as the rate limit allows, reads one message with a timeout
  that is the smaller of the read limit and the queue's wait, and hands the
  message to the handler table. It returns when a handler sent a value or
  finished.
* **Handler table** (`client/handler.rs`). Handlers see every message; one that
  finishes is taken out with `swap_remove` and its id is given out again.
* **Queue** (`client/queue.rs`). Handlers and users push messages through edit
  guards; `pop` enforces delay and burst.
* **Channels** (`client/handler/channel*`). A handler answers through a channel
  to another thread: tokio's, or the crate's own oneshot and parker.
* **Registration** (`client/register*`, `client/auth*`, `client/cap.rs`,
  `client/nick*`). The handler that negotiates capabilities, authenticates with
  SASL and finds a nick, until the server welcomes the client.
* **Messages** (`ircmsg*`) and **strings** (`string*`). Lines are framed by the
  codec, split with `Splitter`, and become tags, source, command and arguments.
* **State** (`state/mode.rs`, `names*`, `util/flatmap.rs`). Mode types and maps
  keyed by names.
* **Bundled handlers**, **TLS**, **secrets**, **ThinArc**: not modelled; see below.

## Modules

| Module | Models | State and actions |
|---|---|---|
| `Handlers` | `client/handler.rs` | The vectors of `Handlers` and the loop of `handle`, one step per handler called; `Add`, `CancelOne`, `Cancel`, `HandleBegin` .. `HandleEnd`, `TakeResults` |
| `Queue`, `QueueRate` | `client/queue.rs` | The queue, `timepoint`, `delay`, `sub`, labeler, adjuster and the nested guards; `QueueRate` adds the history of what left the queue |
| `Client` | `client.rs`, `client/logic.rs`, `client/conn/*` | Composes `Handlers` and `Queue` with buffers, socket timeouts and the position in `run`; both flavours, a future dropped at an await (in a write: after any number of bytes), `reset_with_conn` |
| `Oneshot`, `OneshotAbs` | `channel/oneshot.rs` | `Inner`'s atomics and where each thread is, one step per atomic access; `OneshotAbs` is what a oneshot channel promises |
| `Parker` | `channel/parker.rs` | The shared pointer, strong counts and the token of `std::thread::park` |
| `SyncChannel` | `channel.rs`, `Receiver::recv` | Composes `Parker` with `OneshotAbs`, which `Oneshot` implements |
| `Sasl` | `client/auth/handler.rs` | The authentication handler as a function of a message |
| `Register` | `client/register*`, with `Sasl` | The registration handler as a record, one step per message of the server; the presets of its options |
| `Registration` | the same and a server (external) | `Register` with messages in flight and a server that keeps to the protocol, or with one that says anything |
| `FlatMap`, `FlatMapAbs` | `util/flatmap.rs` | The vector, the length its guard leaves in it, and whether a guard was used carelessly (see below); `FlatMapAbs` is a map |
| `Splitter`, `Builder` | `string/splitter.rs`, `builder.rs` | Ranges with what is known of their encoding, saved indices; a string under construction |
| `Message` | `ircmsg/args.rs`, `tags.rs`, `source.rs`, `ctcp.rs`, `codec.rs` (`parse`, `write_to`) | Parsing, writing and editing a message |
| `Lines` | `ircmsg/codec.rs` (`read_msg`, `scroll_buf`, `decode`) | A stream that arrives in pieces, the reader's buffer, the tokio decoder's buffer and what `Line::from_bytes` made of its frames |
| `Nicks` | `client/nick.rs`, `nick/suffix.rs` | A generator as a nested value, with the texts its suffixes append; `Yield`, `Reject` |
| `Modes` | `state/mode.rs` | Mode types and status modes parsed from ISUPPORT, edits, the two-ended iterator |
| `Chunks` | `string/base64.rs`, `client/cap.rs` (`req`) | Base64 chunks from encoder to decoder; capabilities spread over requests, with the server's source known or not |

`X` is instantiated for TLC by `MCX`; `MCText` puts the last six rows side by
side, and `MCUtil` does the same with `SyncChannel` and `FlatMap`, since they
share no state. `*Proofs` hold the theorems.

Options are sequences of length 0 or 1 and vectors are 1-based. A mutated
variant of a definition, used to see that a property can fail, stands before it
and is marked `\* mutated`.

## What the runs show

| Run | Question |
|---|---|
| `handlers` | Three handlers, added, cancelled and run in any order. Ids in use and free ids partition an initial segment (`IdsPartition`) and an id never changes its meaning (`IdsAreStable`); each handler present runs once per message in spite of `swap_remove` (`EachRunsOnce`); the results name exactly who yielded or finished (`ResultsExact`); a handler that needs an owned message gets one (`OwningCovered`, in `TableSound`) |
| `queue` | All operations of the queue with a clock that ends. `RateLimited`: k+1 messages take at least delay*k - sub. `BurstGranted`, `FifoOrder`, `GuardKeepsOlder`, `PanicOnlyAtTheEnd`; and `QueueSound`: `Pessimistic` (no burst after `set_rate_limit`), `GuardsNested`, `LabelsDistinct` |
| `client` | `run` and `run_tokio` with timeouts, failures, a second connection and dropped futures. `MessagesInOrder`, `ReadTimeoutHonest`; `SentAsPushed`: `NothingLost` (blocking) and `NothingForgotten` (dropped futures: every message is on the wire, in `buf_o` or queued, though it may be sent again, and a line that was cut short spoils the next copy); `LoopSound`: `WakesForQueue`, `QueueTurnIsReady`, `WriteLimitSynced` |
| `client_live` | `QueueDrains`: a held-back message is sent although the server is silent. `LimitedReadEnds`: a read with a limit ends although the server sends for ever without ending a line |
| `oneshot` | Three senders and a receiver, every interleaving, with a delayed store. `ValueSound`: `OneValue`, `TakesWhatIsThere`, `ReceiverCleansUp`; `FreedInTheEnd`, `NobodyStuck`, and `AbsSpec`: it implements `OneshotAbs` |
| `oneshot_free` | Expected violation of `ReferencesEnded` (see Findings) |
| `util` | One thread receives from two channels in turn. `RecvEnds`; `ParkerSound`: `NoLostWakeup`, `PointerAlive`, `PointerCleared`, `ParkHonest`; the last, and `RecvHonest`, say when a park, or `recv`, may end early. And a `FlatMap` with guards that do anything: `PrefixSorted` (also when a guard is forgotten); until a guard is careless `MapSound`: `KeysUnique`, `NeverPanics`, and `AbsSpec`: it is a map |
| `flatmap_remove` | Expected violation of `NeverPanics` (see Findings) |
| `registration` | With the presets of options, and with custom ones. Against a server that says anything (only with the custom options, which require a login and all capabilities, with and without mechanisms): `EndsOnce`; `NegotiationSound`: `EndOnlyAcked`, `AuthOnlyAcked`, `StsNotRequested`. Against one that keeps to the protocol also `RegistrationEnds`, `Agreement` on nick, account and capabilities, `FailsForAReason` |
| `registration_login` | Expected violation of `LoginRequired` (see Findings) |
| `text` | All short inputs. `StringsHonest`: `RangeInString`, `EncodingHonest`, `BuilderHonest`. `MessagesSurvive`: `ArgsWellFormed`, `RoundTrip`, `BytesLeftPessimistic`, `CtcpRoundTrip`. `StreamAsSent`: `LinesAsSent`, `FailsOnlyIfBad`, `FramesAsSent`. `NicksAsMade`: `YieldsAll`, `ChainKeepsB`, `SeqNeverRepeats`. `ModesUnambiguous`: `OneTypePerMode`, `TokenAccountedFor`, `PrefixesInverse`, `IterationOrdered`. `NothingCutShort`: `ChunksRoundTrip`, `LenIsExact`, `RequestsFit` |
| `decoder` | Expected violation of `DecodesLines` (see Findings) |

A name before a colon is the conjunction of the names after it, and of the
module's type invariant where it has one; each is stated and explained by
itself in its module.

### Bounds

* `handlers`: three handlers, so that the one moved by `swap_remove` is neither
  the first nor the one removed. There is no other bound.
* `queue`: four messages and delays up to half the clock's range, so that a
  burst, a pause and an overflow all occur; two nested guards; six labels before
  the labeler wraps, more than there are messages.
* `client`: one handler (more are in `handlers`), which never wants owned
  messages (`handlers` has those), two messages, two connections, two server
  messages on the first and one on the second, in two fragments each and any
  number of pieces between them, three instants. A read limit is longer than the
  queue's delay, or overflows the clock; in `client_live` it is shorter or longer. A dropped future is
  repeated until the wire holds `MaxWire` lines. `client_live` has more time,
  one connection and no cancellation; time runs only while something waits for
  it, as otherwise the bound on it would end the behaviour first.
* `oneshot`: three senders, so that two may be inside `send` while a third is
  dropped. `util`: two channels and three unparkers, so that a token of the
  first channel can reach a park for the second; three keys and vectors of up
  to three elements, so that a key is below, among or above the sorted part.
* `registration`: three capabilities (`sasl`, `sts` and one that is wanted),
  three mechanisms, of which the server offers more than it supports and the
  client knows two, and three nicks of which the server refuses two. The server
  withdraws one or two capabilities, once.
* `text`: all strings, lines, streams and tokens up to the lengths in
  `MCText.cfg`, over alphabets with one byte of each kind the code
  distinguishes. Widths are scaled down: a line limit of 3, a `u8` that ends at
  7, chunks of 8. Each is long enough that a limit is met exactly, missed by one
  and exceeded. Suffixes are up to three of: an empty `Choice`, a `Char` that
  is taken or refused, digits, a `Choice` of texts of different lengths and one
  of equal texts.

Deadlock is checked where the component never stops (`handlers`).
Elsewhere the bounds, or the end of the channel, the registration or the text,
leave nothing to do.

### Careless guards

`util/flatmap.rs` keeps what a guard adds behind the sorted part, if it is not
above it, and `get_impl` looks there only for keys above the sorted part;
`remove` works on the sorted part only and moves what follows behind it. A guard
is *careless* when, with elements behind, it looks for a key that it has added
itself, or removes a key that is there. A `Tags::from_iter` or a 005 with a
repeated token (`ircmsg/tags.rs:159`, `register/handler.rs:305`) looks for such
a key and may add it twice; a CAP DEL of two capabilities
(`register/handler.rs:489`) removes with elements behind and panics. `FlatMap`
lets guards do all of this. Its history variables `added` and `careless` only
record it, and `MapSound` and `AbsSpec` say that nothing else goes wrong.

### Fairness

* `Client!FairSpec`: the thread that runs the loop is scheduled, a write that
  can complete does, and the clock advances. Nothing is assumed of the server.
  `ReadTimesOut` is strongly fair: with Tokio a timeout competes with bytes that
  keep arriving, and wins in the end as a task that never waits exhausts its
  budget, after which the timer is looked at. A blocking connection does without,
  as `update_timeout` looks at the clock before each read.
* `Oneshot!FairSpec`: each thread that is inside a call of the library goes on,
  and a buffered store becomes visible. Nobody has to start a call.
* `SyncChannel!Scheduled`: the receiving thread goes on; a sender that has begun
  to unpark finishes. That a value is sent is not assumed: `RecvEnds` is about
  receivers whose senders have sent or gone.
* `Registration!RFairSpec`: the client handles what arrives, and the server
  answers.

All the rest is weak fairness, which a preemptive scheduler or a tokio runtime
gives.

## What is proved

`HandlersProofs`, for any set of handlers: `TypeCorrect`, `IdsNeverCollide`,
`IdsStayPut`, `EveryHandlerRunsOnce`, `ResultsAreExact`. `IdsPartition` together
with the types is inductive. `EachRunsOnce` is not: the invariant `LoopInv` adds
what is true in the middle of the loop, where everything before the index was
called and kept, everything from it on was there at the start and has not been
called, and each call is in the table or among the finished. The step that
removes a handler is the one that needs it.

`QueueProofs`, for all delays, bursts and clocks, and however many messages:
`TypeCorrect`, `GuardLenNeverUnderflows`, `GuardsKeepOlder`, `RateIsLimited`,
`BurstIsGranted`, `PanicsOnlyAtTheEnd`, `QueueIsFifo`. The rate limit follows
from two invariants on `timepoint`: it is at least as far ahead as the messages
sent say (`Ahead`), and in a fresh period no further (`NotFurther`). FIFO order
follows from the numbers in the queue increasing and being larger than the last
one sent.

`OneshotProofs`, for any set of senders, with or without the delayed store:
`OnlyOneValue`, `ValueIsInitialised`, `NothingLeftBehind`, and
`ImplementsOneshot`, the refinement of `OneshotAbs`. The inductive invariant
says what each state of the `Once` means for the value, and that the sender
inside the closure is the only one.

`FlatMapProofs`, for all keys and values: `SortedIfForgotten` and
`CarefulIsSound` (`MapSound`). Neither assumes anything of how guards are used.
The invariant of the second says that, until a guard is careless, keys are
unique, and an element behind the sorted part is above all of it or was added
by the guard: a search misses only what the guard has added, and what `remove`
finds without being careless is in the sorted part.

Assumptions are on constants only: sets of numbers are numbers, there is at
least one label, and `DedupAssumption`, that `from_vec` sorts and deduplicates
its inputs. The last is a fact about a fold, which needs induction over a
sequence; TLC evaluates it for the inputs of `util`.

Only model-checked: everything about liveness; `Parker`, `SyncChannel`,
`Client`, `Register` and `Registration`; `FreedInTheEnd`; that `FlatMap` is a
map; and the modules of `text`, whose operators are recursive.

## Findings

1. **Inner of a oneshot channel is freed twice or too early** (`oneshot_free`).
   `Sender::drop` decrements `sender_count` and then reads `recver`
   (`channel/oneshot.rs:84`), the receiver stores `recver` and then reads
   `sender_count`. When both run at once each finds the other gone.
2. **A required login is not required** (`registration_login`).
   `client/register.rs:112` has `needs_auth &= auths.is_empty()`, which drops the
   requirement exactly when there are authenticators.
3. **A second `remove` under one guard panics** (`flatmap_remove`).
   `util/flatmap.rs:271` calls `swap_remove` on the sorted part with an index
   that may be behind it. A CAP DEL of two capabilities does that
   (`client/register/handler.rs:489`); `names/types.rs:247` promises to remove a
   pair "if any".
4. **The tokio decoder decodes no line** (`decoder`). A frame keeps its newline,
   which `Line::from_bytes` refuses (`ircmsg/codec.rs:485`, `:499`). Only a
   frame cut at the length limit is free of one.

### Other deviations met

The models do what the code does here; properties except these cases.

* `queue.rs:96`: `set_rate_limit` falls back to `now` on overflow, and so allows
  a burst that it otherwise would not.
* `conn/time.rs:156`: without a read limit the timeout of an earlier read stays
  on the socket. `:147`: a write timeout reaches the socket when `run` first
  reads. `:218-233`: the tokio write timeout makes a new sleep at each poll.
* `channel/oneshot.rs:65`: store, then load: both sides may miss each other and
  `Inner` is never freed. `parker.rs:95`, `oneshot.rs:149`: a spurious or stale
  wake-up makes `recv` report that nothing was sent.
* `register/handler.rs:418`: a SASL numeric after authentication has ended is
  treated as an error. `auth/handler.rs:226`: the comma-separated list of a 908
  is compared as a whole. Together: after a 908 that leaves no mechanism to try,
  CAP END is sent and the 904 that follows the 908 ends registration with
  `ServerError`, although no login may be required
  (`register/handler.rs:264-265`, `defaults.rs:36`); `FailsForAReason` counts it
  as a reason (`UnsupportedAtLast`).
* `conn/tokio.rs:229`: a future dropped inside `write_all` leaves `buf_o` as it
  is, and part of it on the wire: the next flush appends all of it to a line
  that was cut short. `NothingForgotten` says what is left.
* `flatmap.rs:141`: a key in the unsorted part is not found if a larger one is
  in the sorted part. `:231`: the reference that `push` returns is to the place
  after the new element.
* `cap.rs:24`: without the server's source, `req` counts on more room than the
  reply has, by the length of the source.
* `splitter.rs:71-81`: a guard that restores one end keeps an encoding found
  for less.
* `codec.rs:50`: a stream that ends within a line is reported as a line too
  long.
* `tf/escape.rs:65`: `unescape` leaves the first escape as it is. `tags.rs:88`:
  `Tags::parse` makes no progress on a key that starts with a colon. An argument
  that starts with a tab loses it.
* `mode.rs:332`: `from_sets` does not compare A with C and D.
* `nick.rs:78`: a single nick is kept when it is the invalid one. `suffix.rs`:
  when all suffixes are empty the limit is 0 and wraps; a `Choice` with equal
  texts or texts of different lengths, and a `Char` that a nick may not have,
  make `Seq` yield a nick twice; `Rng` may always.

## Not modelled, and the plan

The plan was: the core that all else runs on (`Handlers`, `Queue`, then
`Client`), the concurrent channels, registration, the data structures beneath
it, and the text code. These stand. What is left, in this order:

1. `util/thinarc.rs`: the reference count as atomic steps, with a proof.
2. `client/handlers/*`, `client/state.rs`: Ping's matching of answers,
   `TrackClient`'s source length, which outlives `reset`; composed with `Client`.
3. The tokio write path with its timeout (`conn/time.rs:218`).
4. `client/cap.rs` `ServerMsgArgs::parse` and `combine`, joined to `Register`,
   which takes a CAP LS of several lines as one set.
5. Proofs: that `FlatMap` implements `FlatMapAbs` until a guard is careless; the
   inductive invariants of `Parker` and `Register` (`EndOnlyAcked`); the buffers
   of `Client` (`NothingLost`).

Left out for good: TLS configuration and secrets (I/O and memory hygiene), the
tables of names and numerics, serde, hashing and memory layout in `util`, which
have no states to explore.
