# Telnet++ in TLA+

Models of [Telnet++](../src/README.md), a C++ library for the Telnet protocol,
for TLC and TLAPS. Paths below are relative to the repository; `option.hpp` is
`include/telnetpp/option.hpp`.

## The system

A program gives a `telnetpp::session` a channel to write bytes to and read
bytes from, installs the options it knows, and reads and writes through the
session. The library is single-threaded and has no clock: everything happens
inside a call of the program or inside the channel's read callback. What is
concurrent is the program at the other end of the connection, and what makes
the code hard is that the two ends may act at the same time, that chunks end
anywhere, and that signals run the program's handlers in the middle of a call.

| Component | State | Operations | Talks to |
|---|---|---|---|
| option (`option.hpp`, `client_option`, `server_option`) | `state_`: inactive, activating, active, deactivating | `activate`, `deactivate`, `negotiate`, `subnegotiate`, `write_*` | session (writes), the program (`on_state_changed`) |
| session (`src/session.cpp`), routers, registration | routes by negotiation, subnegotiation and command; the parser | `install`, `async_read`, `write` | channel, options |
| generator (`generator.hpp`) | none | `generate` | channel |
| parser (`parser.hpp`) | state, pending text, pending subnegotiation | `operator()` on a chunk | session |
| MCCP (`options/mccp`) | `compression_active_`, `codec::engaged_`, the zlib streams | `start_compression`, `finish_compression`, the codec on a chunk | option, the program's text |
| NAWS | the window size | `set_window_size`, a report on activation | option |
| NEW-ENVIRON | variables and user variables | set, delete, request; two byte parsers | option |
| MSDP | none between messages | encode, decode | option |
| CHARSET, TERMINAL-TYPE | none | requests and answers | option |
| ECHO, SUPPRESS-GA, BINARY | none | none of their own | option |
| commands, value types | none | route, compare, hash, print | session |
| rot13 server (`examples/rot13server`) | connections, who waits for the terminal type, the read under way | accept, read, echo, remove | session, ECHO, SUPPRESS-GA, NAWS and TERMINAL-TYPE |

### What is hard, and what makes it correct

* **Negotiation.** Either end may ask first, both may ask at once, one may
  change its mind before the other has read its answer. A request is told from
  an answer by nothing but the state it arrives in. Correct means: the ends
  agree when nothing is under way, every request is answered, the exchange
  dies down, and a subnegotiation is never read by an end that has not agreed
  yet.
* **Signals.** `on_state_changed` is emitted inside `activate`, `deactivate`
  and `negotiate`, once even between a change of state and its answer
  (`option.hpp:172-174`). Correct means: the other end cannot tell.
* **Routes.** Options are installed when the program likes, negotiations
  arrive for options nobody has, several options share a connection. Correct
  means: what is meant for an option reaches it, and each option negotiates as
  if it were alone.
* **Bytes.** A chunk may end inside a sequence, and IAC may occur anywhere.
  Correct means: what comes out is what went in, in order and at once.
* **Compression.** Four things switch the two codecs: calls, subnegotiations,
  signals and the compressed stream. Correct means: text is read in the mode
  it was written in.

* **Contents.** NEW-ENVIRON escapes bytes, CHARSET separates with a byte of the
  sender's choice, MSDP nests. Correct means: what comes out of the parser is
  what the program at the other end gave to the option.
* **Copies.** NAWS and NEW-ENVIRON keep at one end a copy of what the other
  end has, and report changes only while the option is active. Correct means:
  a copy is as new as the last thing that could be reported.
* **A program of its own.** What the rot13 server makes of all this: an
  echo in order, a terminal whose size and type become known, connections
  that are removed when they die.

There are no timeouts, retries or persistence in the library, and a channel is
taken to be a stream, as TCP is: nothing on it is lost, duplicated or
reordered. A connection that breaks is the program's affair; `Connection` has
the one program of the repository that deals with it.

## Modules

| Module | Models | Corresponds to |
|---|---|---|
| `OptionPair` | the two ends of one option, each handler one step | `option.hpp` without handlers; `wire[e]` is what has been written to `e` and not read |
| `OptionPairInvariant` | the phases of a negotiation: the inductive invariants | |
| `OptionPairProofs` | theorems and proofs | |
| `Wires`, `WiresProofs` | what a wire holds for one reader: projections of sequences as recursive functions, which can be reasoned about where `SelectSeq` cannot; and the lemmas on sequences that the proofs share | |
| `OptionCallbacks` | the same with `on_state_changed` opened up: `depth` counts handlers running inside one another, `owed` is the `write_negotiation` behind the signal, `told` what the handler last saw | `option.hpp:77-195` |
| `Session` | two sessions, several options, routes, installation, the default refusal | `src/session.cpp`, `detail/registration.*`, `detail/router.hpp` |
| `Stream` | one direction in bytes: generator, channel, parser | `generator.hpp`, `parser.hpp` |
| `Mccp` | the compression option, its handlers and both codecs | `src/options/mccp/*` |
| `NewEnvironCodec`, `CharsetCodec`, `MsdpCodec` | writers and parsers of contents, as functions; a parser is a record, and one step of it takes one byte. `MaxDepth` is how deep MSDP tables may be nested in one another | `new_environ/detail/*`, `charset/server.cpp`, `msdp/detail/*` |
| `Payloads` | one message of one of these options: encoded, and parsed byte by byte. `PayloadsSpec` is the specification, so named because the proofs speak of `NewEnviron` too | the loops around those parsers |
| `NewEnviron` | both ends of NEW-ENVIRON: the variables, the messages (in bytes), the copy that the client's program keeps | `new_environ/server.cpp`, `client.cpp` |
| `Connection` | the rot13 server with one connection, and the terminal at the other end: four options, the size, the type, the echo, the death of the socket | `examples/rot13server/src/*`, `naws/*`, `terminal_type/client.cpp` |
| `OptionCallbacksInvariant`, `SessionInvariant`, `StreamInvariant`, `MccpInvariant`, `ConnectionInvariant`, `NewEnvironInvariant` | the inductive invariant of each, called `Inductive`, which its run checks | |
| `OptionCallbacksProofs`, `SessionProofs`, `StreamProofs`, `MccpProofs`, `ConnectionProofs`, `NewEnvironProofs` | theorems and proofs; those about `Payloads` are in the second half of `NewEnvironProofs`, which needs its lemmas on the codec | |
| `MC*` | what TLC needs: which options there are, which elements are written | |

They build on one another. `OptionPair` is the abstract specification:
`OptionCallbacks` (for handlers that do not activate), each installed pair of
a `Session`, and `Mccp` are checked to implement it by refinement mappings
(`ImplementsOptionPair`, `ImplementsPairs`). `NewEnviron` is built on it: its
actions are those of an instance of `OptionPair`, with contents. `Stream` is
why the wires of the others may be sequences of elements, and `Payloads` why
those of `Connection` may carry contents that are not spelled out in bytes.

How the code is read in the models:

* A handler is one action. `activate()` while a request is under way, and any
  other call that writes and changes nothing, is a stuttering step and is not
  written down. Actions bear the names of the functions; alternatives inside
  them are the cases of the code's `switch`.
* Both ends are telnetpp. In `Stream` the writer may also be another program,
  which sends any bytes.
* Which options test `active()` before they write a subnegotiation is a
  constant (`Unchecked` names the ends that do not).
* `async_read` handles one element per step. The code handles a whole chunk
  without letting anything else run at that end; that is one of the orders the
  models allow.
* In `Stream` a byte is its name: IAC, SB, SE and WILL, and one byte that is
  nothing special. All verbs are treated alike by the parser. "out" is what
  the parser passed to its continuation in one call. Text is compared byte by
  byte, since how it is cut is not promised.
* In `Mccp` a piece of text is what zlib can tell of it: not compressed, the
  beginning, a further part or the end of a stream, or a stream that ends where
  it begins. The codecs sit between the program and the session, as
  `test/mccp_server_test.cpp` connects them, so negotiations are not
  compressed. `server::finish_compression` and the handlers write through
  `session::write`; a codec below the session would be given the end of its own
  stream while it is still engaged (`codec.cpp:19-20`), and is not modelled.
* `OptionCallbacks` gives every behaviour its own program: `handlers_call` is
  chosen at the beginning from the subsets of `HandlerCalls` and stays.
* In the codecs and in `NewEnviron` a byte is its number, and an optional value
  a sequence of at most one. `MsdpCodec` holds the open variables themselves
  where the code holds pointers to them; "undefined" marks a `pop_back()` or
  a `back()` of an empty container.
* In `NewEnviron` the client's program keeps what `on_variable_changed` tells
  it. Three histories say what may be expected of it: "behind" is the set of
  the variables of which the last change was not reported, or reported and
  dropped; "awaited" counts the requests that a client wrote since it last
  agreed, or asked, to be active.
* In `Connection` the handler that a program connects to a signal is part of
  the action that emits it (`on_state_changed`), since none of these handlers calls
  the option again in a way that changes its state. A chunk is a number of
  elements. The terminal's own programs are external: a TERMINAL-TYPE server
  that answers SEND with IS, and one that reads all that comes.

## What is checked

Passing runs. Each of `callbacks`, `session`, `stream`, `mccp`, `connection` and
`new_environ` also checks the `Inductive` that the proofs are built on:

* `option_pair`. All calls at any time, the client not checking `active()`,
  the server checking. `Agreement`, `RequestsAnswered` and `LoopFree` are what
  the negotiation is for; `ConformingPeer` shows that the cases in which
  `negotiate` confirms what already is, refuses what is not there, or is
  "lenient" with a cancelled deactivation are not met between two ends that
  have the option; `NoStraySubnegotiation` and `Covered` are about
  subnegotiations; `Phases` is the inductive invariant. `MaxWire` bounds how
  long a wire may be for a subnegotiation to be added; negotiations are never
  refused for lack of room, so the bound cuts off only more of the same
  subnegotiations. Two negotiations, and subnegotiations before, between and
  behind them, fit with room to spare.
* `callbacks`. Handlers that call whatever the program of the behaviour
  calls, up to two inside one another. For every program the ends agree in
  the end, all requests are answered, and a second request under way is
  written only by a handler that activates again what was just turned off
  (`OneAtATimeUnlessReactivated`). Unless handlers activate, nothing of them
  is visible to the peer (`ImplementsOptionPair`, liveness included), and
  `active()` as last seen by a handler stays true until the next signal.
* `session`. Two codes, three negotiations on one connection. Machine a serves
  both codes, machine b is client of both and has a server of the first besides,
  for which a has no client; the pair of the first code is installed from the
  start, the rest at any moment, also while negotiations for it are on their
  way. Programs activate what they have installed.
* `stream`. Five bytes, and elements that have IAC, SE and SB in every place
  they can occur. A wire of eight bytes holds several elements, and every way
  to cut it is tried. For another program's bytes, a parser that reads each
  byte alone says what they mean; the one under test reads chunks.
* `mccp`. All calls, text at any moment. While its option is active the client
  understands all that it reads; the decompressor never meets a corrupt
  stream, not even while the option is being withdrawn; when all is read the
  codecs are in the same mode.
* `connection`. A terminal that turns NAWS and TERMINAL-TYPE on and off,
  before and after the server asks, sets two sizes (of which all bytes
  differ, and one is IAC), types `Z` and `a`, and a connection that dies at any
  moment. A type that was withdrawn before it was sent is asked for again
  (`TypeAnnounced`); a size set while the option was off or on its way out is
  the one announced (`SizeFollows`); the echo is complete and in order whatever is
  negotiated in between; the connection is removed, and as long as it is not
  there is exactly one read. Three elements may be on their way before the
  terminal calls anything; what the server and the two sessions write is not
  bounded.
* `new_environ`. One name of each type, two values, requests for one and for
  all; name and value are bytes with a meaning. Three messages under way let a
  request cross a change and a negotiation at once. `UpToDate` is exact in
  what it leaves out: changes that were not reported, or were dropped, count
  as behind until a later report or answer is read.
* `payloads`. All lists of two requests and of two variables over names and
  values made of the special bytes and none; lists of three charsets,
  with empty ones; MSDP variables with tables in tables. Two in a row show
  what one leaves behind in the parser for the next. `ArraysAtTheEndArrive`
  excludes what the violation below is about, and the empty table; tables in
  tables are two levels (`MaxDepth = 2`), so that a table stands last, first and
  around another one, and one level is all that `payloads_table` needs. In these
  runs the lists are finite; in the theorems they are any.

Violations, each of a sentence of the repository:

* `callbacks_rule1`. An option that is turned off by its peer emits the signal
  first and answers afterwards. A handler that activates it again sends WILL
  (or DO) before the WONT (or DONT) that answers the peer, and the peer takes
  that for a refusal. `test/q_method_test.cpp:15-17`.
* `session_loop`. The default route answers WONT with DONT and DONT with WONT.
  An option that is activated without having been installed, towards a session
  that has not installed it either, starts an exchange that never ends.
  `test/q_method_test.cpp:7-9`.
* `session_both_roles`. Subnegotiations are routed by code alone. `README.md:109`
  allows both ends to be client and server of one option.
* `payloads_table`. An array inside an MSDP table ends the table: the bracket
  behind the array's own is taken for the table's. What follows in the table
  arrives as a separate variable, and two arrays pop an empty stack.
  `msdp/detail/decoder.hpp:10`, `encoder.hpp:8`.

Also seen while modelling, without a run of their own: `README.md` says
`on_state_changed` is also called when an option is "being activated" or
"being deactivated", and the code emits it only at the end (`option.hpp:210-222`
agrees with the code). `mccp/server.hpp:25-27` and `32-36` describe a start of
compression that waits for the activation, and its cancellation; the code does
nothing unless the option is active. A server that deactivates while it
compresses goes on until the client's DONT arrives, while the client stops at
the server's WONT: in `Mccp` the text in between reaches a client whose option is
inactive, which is why `ActiveClientUnderstands` speaks of active clients. The
same happens when a client's `deactivate()` crosses the start of compression:
the subnegotiation is dropped (`option.hpp:204`), and text is passed on
compressed until the server has read the DONT. A NEW-ENVIRON variable that is
deleted while the option is off stays with the client for ever, as answers
leave out what does not exist (`test/new_environ_server_test.cpp:375`). A name
that is empty is lost at the end of a NEW-ENVIRON message (`RequestsArrive` and
`ResponsesArrive` say so), and an empty MSDP table arrives as an empty string.

### Fairness

Weak fairness of reading (`OptionPair`, `Session`): the program asks for
another read after each, which is what the empty callback of
`session.hpp:169-179` is for, and the channel is a stream. `OptionCallbacks`
needs strong fairness of the same action, because a handler that is running
disables it: the event loop gets back to the read however often the program
makes calls that run handlers. Handlers return: they are program code that makes finitely many
calls. `Connection`: weak fairness of `server_runs` (`io_context::run` goes on, and
a socket that has died ends the read, `connection.cpp:106-126`) and of the terminal
reading. No fairness is assumed of the program's own calls, in any module, nor
that a connection dies.

## What is proved

For all values of the constants, under the assumption that the component's
module names, and nothing else:

| Theorem of | Assumed | Proved |
|---|---|---|
| `OptionPairProofs` | `PairAssumption`: `Unchecked` is a set of ends, `MaxWire` a number | `TypeOK`, `Phases`, `Agreement`, `ConformingPeer`, `FewInFlight`, `Covered`, `NoStraySubnegotiation` |
| `OptionCallbacksProofs` | `CallbacksAssumption`: handlers call operations there are, and may be nested at least once | `Inductive`, `ToldTheTruth`, `Agreement`, `OneAtATimeUnlessReactivated`, and that each step is one of `OptionPair` or invisible to the peer unless handlers activate |
| `SessionProofs` | `SessionAssumption`: options are of the machines, roles and codes there are | `TypeOK`, `Inductive`, `Agreement`, `SubnegotiationsReachOnlyOption`, `ImplementsPairs` |
| `StreamProofs` | `StreamAssumption`: what is written are elements | `TypeOK`, `Inductive`, `InOrder`, `Prompt` |
| `MccpProofs` | `MaxWire` is a number | `Inductive`, `ActiveClientUnderstands`, `NeverCorrupted`, `CodecsAgree`, `ImplementsOptionPair` |
| `ConnectionProofs` | `ConnectionAssumption`: keys are bytes, and sizes pairs of numbers of two bytes | `TypeOK`, `Inductive`, `SizeFollows`, `EchoInOrder` |
| `NewEnvironProofs` | `NewEnvironAssumption`: names and values are bytes, no name is empty, requests are lists of such names | `TypeOK`, `Inductive`, `UpToDate`, `EveryRequestAnswered`, that messages are read as they were written (`ResponsesRead`), and `OptionPair` implemented |
| `NewEnvironProofs`, of `Payloads` | `PayloadsAssumption`: what programs give to the options consists of bytes, an advertised charset does not contain its separator, an MSDP variable has a name and no more than `MaxDepth` levels of tables, whatever that number is | `RequestsArrive`, `ResponsesArrive`, `CharsetsArrive`, `ArraysAtTheEndArrive`, the inductive invariant `Ahead`, and what the parsers make of whole messages (`RequestsRead`, `VariablesRead`) |

None of these properties is inductive: that two ends agree when nothing is under
way says nothing of what happens when something is. The inductive invariants
say what can be under way.

* **`OptionPair`.** `Phases` lists what can be on the way in each combination
  of states: nothing (both ends inactive or
  both active), an offer, its acceptance, two offers that cross, the same for
  withdrawals, and the two phases in which an end has sent its next request
  before the other has read the answer to its own; all with any number of
  subnegotiations anywhere. The patterns (`Quiet`, `One`, `Two`) describe a wire by
  where the negotiations stand on it; `AppendPattern` and `TailPattern` say how
  writing and reading change the pattern, and each action then moves from phase
  to phase (`ActivatePhase`, ..., `NegotiateNegativePhase`), with `PhaseSymmetric`
  sparing the other end's half. `Agreement`, `ConformingPeer` and `FewInFlight`
  follow from `Phases`. `Covered` needs its own induction on top of `Phases`: what
  stands in front of each subnegotiation on a wire; `NoStraySubnegotiation` is
  its first position.
* **`OptionCallbacks`.** A handler that runs between a change of state and the
  answer to it leaves that answer owed. `ToBeRead` counts what is owed as on its
  way, behind what is on the wire, and with it the phases of `OptionPair` come
  back; six more (`Reactivation`) are those that a handler opens by activating
  what has just been turned off, so that its offer overtakes the answer. An end
  that owes an answer has stopped, and goes on only through such a handler (`Owing`).
  From the sixteen phases the ends agree when nothing is on the way whatever
  the handlers do, and `OneAtATimeUnlessReactivated` holds of every step. That handlers
  are invisible to the peer (`StepsOfOptionPair`) is shown under the refinement
  mapping of the run, `Sent(e)`: each step that writes an owed answer maps to a
  stutter, as the answer counts as sent since the signal. The hypotheses are
  those of the run, that no handler activates, and one more where subnegotiations are
  written without a test of `active()`: that no handler writes one, since it could be written
  before an answer that counts as sent.
* **`Session`.** `ImplementsPairs` is proved for each pair that both machines have
  installed from the start: what the routes lead to it is what an `OptionPair` would read, and
  all else leaves its projection of the wires alone. `Agreement` cannot come from
  there, for it speaks of options that only one machine has, too. `Inductive` has
  the phases of every place an option could have, with two for an offer that was
  refused by a machine without the option, which may meanwhile have installed
  it and asked for it; that the refusal is answered by nothing needs `Routes` (the
  routes of an option are registered together) and `OnlyInstalled`. The phases hold
  if no program activates what it has not installed; without that,
  `session_loop` is a counterexample.
* **`Stream`.** `Ahead`: a parser that is fed the rest of the channel at once would show
  exactly what is expected, and be idle. Writing feeds it one more encoded
  element, which it shows and nothing else (`Generated`, by induction over the
  bytes of the content); reading moves bytes from the channel into the parser, and
  `FedConcat` says that how the bytes are divided makes no difference. Another
  program may write bytes that mean nothing; then the parser under test and the one
  that reads each byte alone agree on all but the text that waits.
* **`Mccp`.** `CodecsFollow` gives each position of the wire to the client the mode
  that the compressor had there (`Leads`): the decompressor of an active client is in
  the mode of the first position, the compressor in that of the last. Reading
  drops the first position, writing adds one (`LeadsOn`, `LeadsFrom`). `Follows` also says what
  happens to a client that is turning the option off: its decompressor may be
  idle already while compressed text is still arriving. That the subnegotiation reaches a client in these
  states uses the phases of `OptionPair`, through `ImplementsOptionPair`.
* **`Connection`.** Ten phases of NAWS (`NawsPhase`) say where on the wire the last size stands
  that the listener is to know: its report is the last element of NAWS on the
  way to the server, or has been read. The elements of the other three
  options do not count (`Only`), however they lie between; before a connection is
  accepted the server has asked for nothing (`Unaccepted`). `EchoInOrder` is
  inductive with the types: what has been typed and not yet come back is what
  lies on the two wires, one of them still to be encoded.
* **`NewEnviron`.** First the codec: a parser that is fed an escaped byte has that byte
  at the end of its name or value (`NameByte`, `ValueByte`); by induction the same
  holds of whole names and values, and then of all the variables of a message (`ResponsesRead`). Then the
  copy: `Copied` says that a client told of all that is on its way would be
  right in every variable that it is not behind in. Of each variable only the last
  report counts (`ToldTrue`), so an answer, which repeats what the server holds now, and a report of
  a change keep that true behind whatever else is on its way; `UpToDate` is the
  case in which nothing is. A client whose option is off drops a message and is
  then behind in what that mentions, unless a later message mentions it again
  (`MentionedLater`). That an answer to "everything" can be written at all needs
  `FinitelyMany`: there may be any number of names, but only so many variables. The requests:
  `Awaiting` counts them, those that the client awaits being the answers on one
  wire and the requests behind the last negotiation on the other, unless a refusal
  is on its way; `InOrder` keeps what was written to an earlier activation of the
  option apart from what belongs to this one. Which of these
  cases can occur depends on the phase of the negotiation, which comes from
  `OptionPairProofs`: without their contents the negotiations are an `OptionPair`
  (`ImplementsOptionPair`, with the subnegotiations left out of the wires).

* **`Payloads`.** The property speaks of the moment when a message has been read;
  `Ahead` of every moment before: what the parser, as it stands, will make of the
  rest of the content is what was sent. A byte that is read moves from the one to
  the other (`AskedOn`, `ToldOn`, `ReadOnward`), and at the end nothing is left to make.
  The work is in the beginning, that a new parser makes the message of the whole
  content. For lists of requests and of variables that is an induction over the list, and within it
  over the bytes of a name (`RequestsRead`, `ResponsesFed`); for charsets, that a
  separator ends what has been collected and an empty charset leaves no trace (`CharsetsRead`).
  MSDP is an induction over the levels of nesting (`EachIsRead`). `Leads(p, s, q)` says that the
  bytes s take the decoder from p to q, whatever has been passed on before. A variable without an
  array, read behind any stack of open ones, leaves the decoder inside itself, so that
  the bracket behind it closes it (`Reads`, `PlainReads`); one that ends with an
  array has been closed by that array, and so has every table around it in which
  it is last: the brackets behind it close one variable too early each, which is
  right because there is nothing else to come (`Closes`, `LastCloses`). Hence the two
  halves of the property's hypothesis, and the place where the violation
  `payloads_table` gets in: an entry that follows such a bracket is not one of this table.

How the proofs are made: the library's theorems of induction take an operator
as a parameter and cannot be used, so induction over numbers and sequences goes
through sets (`NaturalsReached`, `SequencesReached`: a set that holds the first and with
each also the next holds all). What a wire holds for one reader, and the parser
fed with many bytes, are recursive functions, for which such an induction is
possible. Where a proof attempt failed for a reason, the model was made precise:
cases of `Connection` and `MsdpCodec` that overlapped, which TLC tries in order
and TLA+ leaves open, exclude each other now.

Every safety invariant that a passing run checks is a theorem. Only model-checked:
all liveness and fairness (`RequestsAnswered`, `LoopFree`, `TypeAnnounced`,
`DeadConnectionsRemoved`, and the fairness that the refinement mappings carry over),
which is beyond the prover. The encoder and decoder of `MsdpCodec` recur by recursive functions over the
level of nesting and over the stack, where the code calls itself; `MaxDepth` is what makes such
a function possible, and the theorems hold for every value of it.

## Plan

In this order; all are done.

1. `OptionPair`, its invariants and proofs.
2. `OptionCallbacks`: refinement of 1 by 2.
3. `Session`: refinement of 1 for each pair.
4. `Stream`.
5. `Mccp`.
6. `NewEnvironCodec`, `CharsetCodec`, `MsdpCodec`, and `Payloads` over them.
7. `NewEnviron`, over 1 and 6.
8. `Connection`: NAWS, TERMINAL-TYPE, ECHO and SUPPRESS-GA in a program.
9. A choice of programs in `OptionCallbacks`.
10. Proofs about 2, 3, 4, 5 and 8.
11. Proofs about 7.
12. Proofs about 6: requests, responses, charsets and MSDP variables arrive as they were
    sent.

## Not modelled, and why

* Commands: a route by command value, without protocol.
* Value types, hashing, printing: no state.
* Failures of the channel other than its end: the program's to handle.
* CHARSET's `request_charsets` and `select_charset`: each writes a given content,
  whatever the state, and the other end is not in the library.
* Several connections of the rot13 server: they share no state.
* Sizes: zlib's output against the 1024 byte buffers, allocation.
* A handler that calls the very operation that emitted its signal recurses
  without end (`option.hpp:89-91`, `117-119`); the model stops at `MaxDepth`.
* BINARY, and the instances of MSDP and CHARSET as options: they add nothing
  to `OptionPair`.
* Names that are empty in `NewEnviron` (they are in `Payloads`).
