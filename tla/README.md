# gWhisper in TLA+

gWhisper is a command line client for gRPC. One process runs per invocation: it
parses its arguments with a grammar that is completed on the way by what the
called server says about itself (gRPC reflection), and then either calls a
method or prints suggestions for the tab completion of a shell. All processes of
a user share one file, `~/.cache/gwhisper/DescriptorCache.bin`.

The modules here describe the parts of the program in which state, order,
failure or a search decide what happens. TLC checks them on small instances;
TLAPS proves the most important properties for every value of the constants.

    tlc -workers 2 -config DescCacheSeq.cfg MCDescCache.tla     # a run
    tlapm DescCacheProofs.tla                                   # the proofs of a module

## 1. Inventory

| component | state | operations | interacts with |
|---|---|---|---|
| Descriptor cache, `libLocalDescriptorCache/DescDbProxy.cpp` | the cache file (host entries with time stamp, descriptors and services; one version), `m_serviceList`, `m_descNames`, `m_localDB`, `m_reflectionDescDb` | constructor, `getDescriptors`, `isValidHostEntry`, `deleteDuplicateHostEntries`, `repopulateLocalDb`, `convertHostEntryToSimpleDescDb`, `writeProtoMsgToDisk`, `closeDescDbStream` | every other process of the user through the file; the server through the reflection session |
| Reflection session, `fetchDescNamesFromReflection`, `getDependencies`, `third_party/gRPC_utils/proto_reflection_descriptor_database` | stream, its ClientContext, `cached_db_`, `known_files_`, `missing_symbols_`, the DescriptorPool, work lists | `GetServices`, `FindFileContainingSymbol`, `FindFileByName`, `DoOneRequest`, `closeDescDbStream` | the server; the cache |
| RPC call, `libCli/Call.cpp`, `third_party/gRPC_utils/cli_call.cc` | deadline, the stream, completion queue, exit code | `cli::call`; `CliCall`: constructor, `Write`, `WritesDone`, `Read`, `Finish` | the server; message parsers and formatters; the reflection session, which it closes |
| Argument parser, `libArgParse` | parse tree, candidates; injected grammars | `parse` of nine kinds of grammar elements | grammar construction (injectors) |
| Grammar construction, `libCli/GrammarConstruction.cpp` | the grammar | `constructGrammar`, `getGrammar` of three injectors | connection manager |
| Completion, `libCli/Completion.cpp` | none | `printBashCompletions`, `printFishCompletions`, `getNextFishSuggestion` | candidates of the parser; the shell |
| Connection manager, `libCli/ConnectionManager.cpp` | channel, proxy and pool for each address | `getChannel`, `getDescDb`, `getDescPool`, `closeDescDbStream` | cache proxy; used by injectors and call |
| Main program, `gwhisper/gwhisper.cpp` | none | the choice between dot export, completion, version, help, call and error report | all |
| Message parsers, `libCli/MessageParserCli.cpp`, `MessageParserJson.cpp` | the message being built | `parseMessages`, `parseMessage`, `parseFieldMessage`, `parseFieldValue` | parse tree; RPC call |
| Message formatters, `MessageFormatterOptimizedForHumans.cpp`, `MessageFormatterCustom.cpp`, `MessageFormatterJson.cpp` | none | `messageToString`, `customMessageFormat`, conversions of scalars | RPC call |
| Utilities, `libCli/cliUtils.cpp` | none | `waitForChannelConnected`, folder creation | RPC call, cache |

`PROJECT.json` says of each whether it is modelled, partly or not, and lists
under "hazards" what is hard to test, at the line where it bites.

What is hard about them, and what makes them correct:

* **Descriptor cache.** The file is read, rewritten and removed by overlapping
  processes without a lock, in blocks, and a process can be killed between two
  of them. Correct: what is served is whole, not too old, not from a session
  that was invalidated; no state of the file makes gWhisper unusable.
* **Reflection session.** The stream breaks at any request, later lookups fail
  like unknown symbols, and the pool and the database remember different things.
  Correct: an entry holds exactly the files of the services it lists with all
  they import; an entry that is too small does not stay in the cache.
* **RPC call.** Requests, replies, the end of either stream, the status, the
  deadline and a lost connection race. Correct: the exit code tells what really
  happened; a call with a timeout ends; an unparsable message is not sent.
* **Argument parser.** It decides greedily and never goes back, and builds
  candidates from half-finished trees under a limit on forks. Correct: it
  accepts the sentences of the grammar, all of them and nothing else, and its
  candidates are the ways to go on, all of them and no others.
* **Completion.** gWhisper guesses which part of the line a shell replaces.
  Correct: what the shell makes of the line with a suggestion continues it.
* **Connection manager and main.** Each injector and the call ask again for
  channel, proxy and pool; the pool holds a plain pointer to a proxy that is
  destroyed before the call; errors leave at any point. Correct: all lookups are
  about one session, every session is ended once, no lookup reaches a destroyed
  proxy (which the call can violate, run `pool_after_close`).
* **Message parser.** Fields come in any order and repeatedly, return codes of
  elements are passed up level by level, numbers are converted with another
  width than they are stored with. Correct: a good line becomes what it says, a
  bad value is refused.
* **Message formatters.** Maps are sorted and rewritten, bytes hold zeros, the
  target of a custom format is walked through missing and repeated fields.
  Strings are quoted, but quotes in them are not escaped. Correct: the text tells
  what the message holds, as long as no string holds a quote; everything is printed
  once.

## 2. Modules

| module | content |
|---|---|
| `DescCache` | the cache file and the processes that use it |
| `MCDescCache` | its instances for TLC, with symmetry and a view |
| `CacheMap` | abstract: what the cache promises to invocations that follow one another |
| `DescCacheProofs` | theorems about any number of overlapping processes, in general and if a database fits into one block, and about invocations that follow one another, `CacheMap` among them |
| `HostEntry` | abstract: what the cache expects of a reflection session |
| `Reflection` | one reflection session in detail; implements `HostEntry` |
| `MCReflection`, `ReflectionProofs` | its instance for TLC and its theorems |
| `RpcCall`, `RpcCallProofs` | one call with its server, and its theorems |
| `ArgParse` | the grammar elements and their `parse` as operators |
| `ArgLanguage` | reference: the language of a grammar, defined without parsing |
| `GrammarConstruction` | the grammars that gWhisper builds |
| `Completion` | what bash and fish are given for a candidate, and what they make of it |
| `CommandLine`, `MCCommandLine` | a command line while it is typed and completed, and its instances |
| `CommandLineProofs` | theorems about the parser and completion, for any grammars and texts |
| `Invocation` | main and the connection manager over one run of the program |
| `ProtoMessages` | external: message types and messages of protobuf |
| `FieldValues` | the conversion of scalars on the command line |
| `MessageParser` | a request message out of its parse tree, and what a parse tree means |
| `MessageParserProofs` | theorems about numbers and request messages, for any types and parse trees |
| `MessageFormatter` | the formats for humans and `--customOutput`, and what a text tells |
| `MessageFormatterProofs` | theorems about these texts, for any types and messages |
| `Program` | a run from the line to the output, for any format of messages |
| `ProgramMessages`, `MCProgram` | the program with `MessageFormatter`, and its instance |
| `ProgramProofs` | theorems about `Invocation`, `Program` and `ProgramMessages` |
| `NaturalRecursion` | induction over the natural numbers, recursive functions and ranks, for the proofs |

They are composed as follows: `CommandLine` = `ArgParse` + `Completion` against
`ArgLanguage`; `DescCache` implements `CacheMap` when invocations do not overlap; `Program` extends
`Invocation` by the messages (`MessageParser`) and the call, which is a summary
of `RpcCall`, and `ProgramMessages` = `Program` + `MessageFormatter`; `Reflection`
implements `HostEntry`, which is what `DescCache` assumes of its `FetchFiles`.

Operators and actions have the names of the functions they stand for where there
is one. Definitions whose comment starts with "Mutant" are plausible errors in
the definition named before the underscore; no specification uses them. They
show, exchanged for the original, that the property they are listed with in
`PROJECT.json` can fail.

### DescCache

A process of the model is a place (a terminal) where gWhisper is invoked again
and again. `pc` names the next system call or exchange with the server:

| action | code |
|---|---|
| `Start` | `registerConnection` -> constructor of `DescDbProxy` |
| `Open`, `Missing` | the open of `getDbFileFromCacheFile`, and `exists()` when it fails |
| `ReadBlock`, `ReadEnd` | `ParseFromIstream`: blocks, then the parse of what was read |
| `RemoveUnreadable` | `getDescriptors` 331-344: remove, read again, give up at the second failure |
| `ServeFromCache`, `Miss` | `getDescriptors` 353-364 |
| `Connect`, `ListServices`, `ServerFails`, `FetchFiles` | `useReflection`, `fetchDescNamesFromReflection`, `repopulateLocalDb`; the time stamp is taken at the end |
| `OpenForWrite`, `WriteBlock`, `CloseFile` | `writeProtoMsgToDisk`: truncate, blocks, close |
| `CloseStream`, `RemoveInvalid` | `closeDescDbStream`, and the removal of the file when the close failed |
| `Crash` | the process is killed between any two of them |
| `Tick` | the clock |

The file is a sequence of cells in serialization order: a head and a body for
each host entry, one version at the end. A body is identified with the
reflection session it came from, so that a mix of two writes is seen as a head
and a body of different sessions. A removed file stays with whoever has it open
(inodes). `Block` is the number of cells moved by one `read` or `write`.

`CacheMap` is what invocations that follow one another may rely on: a map from
hosts to the session their entry is from, which is changed in one step by
`Store`, `Lose` and `Invalidate`. `ActsAsMap` is the refinement. It takes a
write as done as soon as the file is opened for it (`Contents`); a kill in the
middle then loses entries, and `CacheMap` allows no other loss: nothing lost
comes back, and what is served is what was stored last. What is served is a
variable of the map, so a hit is a step of its own.

Abstractions: protobuf's parse fails exactly at a border inside an entry (cells
have no borders of their own); the two sides of the 120 s and 20 s constants
become small numbers; a full disk is not modelled.

### Reflection and HostEntry

`Reflection` follows one `DescDbProxy` from `GetServices` to the close of the
stream: for each service a lookup in the pool, which asks the database for the
file of the service and for its imports one by one (`FindSymbol`,
`FindFileByName`, `Build`), then the two traversals that collect names
(`getDependencies`), and at last the fetch of the named files. Each request may
break the stream or be refused. The DescriptorPool is protobuf's: it is modelled
from how the code uses it and from what the database is asked.

`HostEntry` is the cache's view: in one step an entry appears that is closed
under imports, or the session fails; an entry may be kept only if nothing is
missing in it but what the server itself has refused. `DeliversEntry` is the
refinement.

The link to `DescCache`: its `FetchFiles` stores an entry with the flag `cut`,
which is `short` here, and its `CloseStream` fails for such a session.
`CutShortInvalidated` is why it may do so.

### RpcCall

The client steps of `cli::call` in order: `SetDeadline`, `CloseReflection`,
`ParseMessages`, `StartCall`, `Write`, `WritesDone`, `Read`, `Finish`. Messages
are counted. The server (external) receives, replies, ends the call, refuses it
or stops; gRPC (external) loses the connection, lets the deadline pass, and
holds at most `Window` messages per direction. `Abort` is `CHECK(ok)` in
`CliCall`. Parsing and printing of messages are in `Program`.

### ArgParse, ArgLanguage, GrammarConstruction, Completion, CommandLine

`ParseElement(P, g, t, depth, seen)` is `parse` of the element `g` on the text
`t`, with `candidateDepth`; `seen` is what an injector finds in the parse tree,
and `P` gives the results of the children. A result has the members of `ParseRc`,
the raw text of the parse tree, and candidates (raw text and the "stopped"
flag). The operators of the elements follow the methods branch by branch: which
alternative wins, which candidates survive, when forks are allowed, what an
option that is half there counts.

A grammar is a tree, so the recursion of `parse` is one over its height. The
constant `Levels` gives the elements up to each height, and `parse[n]` is a
function from calls (element, text, depth, seen) to results for the elements of
`Levels[n]`. In the same way `Repetitions` goes on round by round and
`LastChildren` from the last child of a concatenation to the first; a fork of a
candidate is a call of the children behind it. Functions in place of recursive
operators are what makes the parser accessible to proofs. `WellFormed` names what
is assumed of grammars: an element has elements of a lower level, and what is
repeated takes a character whenever it matches (`taking`, which is computed from
the elements), for `Repetition::parse` does not end otherwise. `OptionAssumption`
asks the same of what an option holds, which is so in all of the grammars that
gWhisper builds.

`ArgLanguage` says what the language of a grammar is (`InLanguage`), whether a text
can still become a sentence (`CanContinue`) and with which characters a fixed
string or white space can continue it (`FixedWays`). It knows nothing of greed,
winners, forks or candidates. Like the parser it notes names for the children of
the root only.

`GrammarConstruction` builds the grammars of options, server addresses, custom
output formats, services, methods and message arguments with the same structure
and order as the code. Words are shortened to the letters that tell them apart,
character classes to a few characters, regular expressions to repeated classes. The
schemes of an address (`u:`, `ua:`, `dns:`, `i4:`, `i6:`) are made of characters
of host names, as those of the code are: `dns` is a host as well as the beginning of
an optional scheme.

`CommandLine` lets the user type a character or take a suggestion and runs the
parser on what is there. The leading `--complete`, with which the completion
scripts call gWhisper, is a blank in front of the text, where a word begins.

`Completion` is `printBashCompletions` (where in a candidate the suggestion
begins, with a comma as one of the word breaks, and without blanks at its end)
and `printFishCompletions` (one word of the candidate). The shells are external:
`BashLine` replaces what is behind the last of bash's `COMP_WORDBREAKS`,
`FishLine` what is behind the last blank. `Completion.cpp:210` reads a character
of a candidate that may be shorter than the text: its outcome is either of the
two (`AtDelimiter`).

A server answers at every address that is typed; what happens without one is in
`Invocation` and `DescCache`.

### Invocation

| action | code |
|---|---|
| `Inject(i)` | `GrammarInjector::parse` with the `getGrammar` of the service, method and argument injectors: `getChannel`, `getDescDb`, `getDescPool`, then the lookup |
| `RegisterFails` | `exit` in `registerConnection`: credentials that cannot be read, or the constructor of the proxy |
| `ParseEnds` | `main` after the parse |
| `Answers(o)`, `ReportError` | the branches of `main`, in their order |
| `GetChannel` ... `CloseDescDbStream` | `cli::call` up to the call, each with its error return; `ConnectTimeoutThrows` is the exception of `std::stol` in `waitForChannelConnected` |
| `CallEnds`, `CallAborts` | the call, with its exit code |
| `Destroy` | the destructors at the end of `main` |

The operations of the connection manager are operators from a connection to a
new connection, the number of proxies made and the number destroyed. Proxies are
numbers, so that a pool with the number of a proxy that is gone is visible. What
a session finds is chosen anew for every session, so that two sessions would
disagree (`ServiceStillFound`). `LookupPhases` are the phases in which the pool is
asked for something, the call among them.

### FieldValues, MessageParser

A parse tree is the sequence of its fields; a number is a sign, a prefix and its
digits; a text that is not a number is excluded by the grammar. `ParseScalar` is
`parseFieldValue` for scalars: conversion with the width of `long`, then
implicit narrowing. Strings and floating point numbers are values.

`ParseField` is one iteration of the loop in `parseMessage`, with `ParseRepeated`
and `ParseSingle` for the two kinds of fields; what the code owns or has lost
after an error (a `unique_ptr`) is a set with one message or none. The recursion
of the code is one over the depth of a tree: `ParseMessage` parses the trees of
the innermost level first (`TreesBelow`, up to `MaxDepth` levels) and gives each
level the messages of the one below it, `sub`. So the parser is made of functions,
which the proofs need. A tree is named together with its type, because the same
fields can be of two types.

`Meaning` says what a parse tree denotes without any order of work: the last value
given to a field or to another one of its oneof (`LastOf`, `Sharing`), or all
elements of a repeated field (`Given`). `HasError` says whether a value in it
cannot be converted. `Denoted` is the number of a text in positional notation,
where `Magnitude` reads one digit after the other.

### MessageFormatter

A text is a sequence of tokens (a line of a field, a decimal or hexadecimal
number of some width, a byte, a title of a map); wording, alignment, colors and
the printable column of a hex dump are left out. A string is a sequence of tokens
itself, printed between two tokens `Quote` without escapes (`StringFromString`), so a
string with quotes can hold what looks like the lines of other fields. `MessageToString` is
the format for humans, `SimpleMap` its maps with scalar values,
`CustomMessageFormat` the walk along the target of a custom format. JSON is
protobuf's. A usage error of protobuf's reflection interface ends the process
(`Abort`).

Like the parser, the formatter of the code calls itself for the messages in a
message, and `TextsIn` gives the texts level by level instead, from the innermost
messages (up to `MaxDepth` levels below, `MessagesBelow`) outwards; an operator for a
field is given those of the messages in it, `sub`. The `std::map` in which entries
are sorted is `InOrder`: the i-th entry is the one that i - 1 others are before.
Strings that are keys have places in their order (`StringPlace`).

`Fits` names what protobuf makes sure of: a message has the kind of values that its
fields have, keys of a map are different, entries of a map have a key and a value.

`Shown` says what the format for humans tells of a message: all of it but
entries with keys of type bool, signed values behind unsigned keys, and what is
rounded away from a floating point number. `Quoteless` says of a message that no
string in it, at any depth, holds a quote.

### Program and ProgramMessages

A line has messages, options, and the replies its server gives. `ParseNext` is
one iteration of `parseMessages`. `WriteRequest` prints, serializes and writes
one request (an error is the exit of the run), `ReadReply` prints one reply,
`Finish` maps the status to the exit code; `RefuseArguments` is the check of the
number of messages. The steps of `Invocation` come before and after.
`DanglingLookup` is undefined behavior: the line has messages with extensions, or with
types in an `Any`, that the pool does not hold (`unknown`); during the call protobuf
asks the database of the pool for them, the proxy that is destroyed. Either the process
ends there or nothing is found and the run goes on.

`NumberFields` are the number fields of the messages of a line with their texts.

In `Program` the text of a message is a parameter, `TextOf`, because what `Program`
says does not depend on it; `Program.cfg` gives it `Formatted`, `ProgramMessages`
states what that has to achieve, and `RepliesAssumption` that replies are messages of
their types whose texts are these.

## 3. Runs

Passing runs:

| run | instance | shows |
|---|---|---|
| `cache_seq` | one place, 2 hosts, 2 builds, 3 sessions, block of 1 cell, kills and `--disableCache` | invocations one after the other: whatever was killed, entries that are served are those that were stored last, fresh, not invalidated, unique; the file is never fatal; refinement of `CacheMap` |
| `cache_small` | two places, 2 hosts, 2 sessions, an entry that can expire, the file fits into one block, kills | overlapping invocations cannot mix two databases as long as a write is one system call |
| `cache_live` | two places, 1 host, block of 1 cell, fair | every invocation ends, whatever the other one does to the file |
| `reflection` | every acyclic import graph of 4 files, 2 services | completeness and invalidation of entries, the single stream, termination, refinement of `HostEntry` |
| `rpc` | up to 4 messages, window 1, up to 2 replies per request, timeout 2, close time 1, fair | exit codes, number of requests, the bound of the deadlock, parse errors; calls end; how short a timeout can get |
| `command_line` | 18 lines, each a part of the grammar, texts of up to 6 to 13 characters | acceptance and candidates against the reference language; what the shells make of suggestions |
| `program` | five kinds of lines (below) | one session per run, ended once; request messages mean what was typed; replies are printed once, and the text tells those without quotes apart |

Runs that must fail, each a place where code and documentation disagree:

| run | shows |
|---|---|
| `cache_fatal` | two invocations race on a missing or unreadable file, and one of them exits although the comment in `DescDbProxy.cpp` says that the cache is instantiated again |
| `cache_stale_rewrite` | an entry that was invalidated by removing the file comes back with the rewrite of another process |
| `rpc_aborted` | a deadline that passes while requests are written aborts the process (`CHECK`) instead of being reported |
| `completion` | behind the first field of a message, an enumeration value that extends another one is not suggested |
| `pool_after_close` | a call whose messages need what the pool does not hold: the pool asks the proxy that `closeDescDbStream` has destroyed before the call, although the comment next to it says that something protects from that |

**Bounds.** `cache_seq` needs two hosts for the rewrite to carry over an entry,
two builds for the version test, three sessions for an entry to be fetched,
carried over and refreshed, time up to 3 for both sides of timeout + deadline,
and a block of one cell for a kill between any two. With two places the state
space allows one block size at a time, so `cache_small` and `cache_live` split
the questions; the theorem `Staleness` covers every block size and number of
processes, and `OverlapWhole` and `OverlapUnique` every number of processes and
hosts of `cache_small`. In `reflection` four files allow a diamond of imports, a file that is
met again, and an import that the pool has marked as bad. In the RPC runs four
messages exceed both windows by two, which is what `MutualWait` needs. The lines of `program` are
all messages of up to two fields and some of three, with nested, repeated and
oneof fields and good and bad values at each depth (three levels of messages,
`MaxDepth`); all numbers of up to three
digits out of 0, 1, 7, 8, 15 for fields of 4 bits and a `long` of 8, so that
every width overflows and octal numbers end at an 8; replies with every kind of
field and map, with strings that imitate the line of the next field (type `Pair`);
custom formats with ten targets, of up to two names, and nine outputs; every
combination of options, credentials and timeouts with every way the connection
can go, and requests that cannot be serialized at each position. The texts
of `command_line` are long enough to finish each part of the grammar once and to
begin a repetition; after a text that cannot become a sentence any more nothing
is typed, so there is one wrong character, at the end. Half of a scheme, of a regular
expression or of an escape is no such text: `dns:host` and strings with escaped
blanks are typed (some 62,000 distinct states). The exceptions of `NothingHidden` are listed
text by text (`but`): the hosts `dn` and `dns`, for which the parser waits for the rest
of the scheme (`Optional.hpp:93`), so that the blank behind them is not suggested, and
`dns:1` with blanks or without, which is host and port in the language, and for the
parser a scheme with half of a host. `SuggestionsLead` asks of fish that what it enters continues a candidate
unless the text ends with an escaped blank and a blank must follow (section 5). States in which nothing
can happen are real: a session, a call or a run ends, a bound of a text is reached
(`CHECK_DEADLOCK FALSE` there; the cache runs check for deadlocks, for a process
can always be invoked again).

**Fairness.** `DescCache`: a process that runs takes its next step (weak
fairness of `Step(p)`); nobody must invoke gWhisper, kill it or make time pass.
`Reflection`: the session is sequential code whose requests have a deadline.
`RpcCall`: the client takes its steps, gRPC reports what has happened, and time
passes while a deadline is pending; the server is fair only where the property
says so (`AnsweredCallEnds`, `ServerFairness`).

## 4. Proofs

All theorems are about the specifications that the runs check, under the
assumptions on constants that the modules name.

* **`TypeCorrect`, `Staleness`** (any processes, hosts, blocks, kills). The
  inductive invariant adds to the types what each position of `pc` knows
  (`LocalInv`: which streams are open, which session is its own), and that every
  session's stamp is at most a stream deadline after its opening and never in
  the future (`StampInv`). A hit has compared the stamp with the clock, so the
  descriptors are at most timeout + deadline old. That needs nothing about other
  processes, which is why it survives all of them.
* **`SequentialWhole`, `SequentialInvalidation`, `SequentialNeverFatal`** (one
  place; the invocations follow one another). The invariant `SeqInv` says that
  the file is a prefix of a serialized database whose heads and bodies match and
  whose sessions have not been dropped. A kill leaves a shorter prefix, which
  either parses to whole entries or is removed; a failed close removes the file
  before the next invocation begins.
* **`SequentialUnique`** (the same). `UniqueInv` says of everything on its way
  into or out of the file that its heads are of different hosts, and of what is
  carried over that it is not of the host that is asked. The second part is
  what makes the first one inductive when the new entry is appended.
* **`SequentialMap`** (the same): `DescCache` implements `CacheMap`. `MapInv`
  adds what each position knows of the file: a lookup sees all of its contents,
  the entries carried over say what the file says of the other hosts, what is
  about to be written says the same and the own session of the host. The steps
  `Connect`, `OpenForWrite` and `RemoveInvalid` are `Begin`, `Store` and
  `Invalidate`; a write that ends early is `Lose`, because a prefix of a
  database has of every host what the whole one has, or nothing
  (`SessPrefix`, which needs `UniqueInv`); all others leave the entries alone.
* **`OverlapWhole`, `OverlapUnique`** (any number of processes; a database of all
  hosts fits into one block, `FitsOneBlock`). Every process writes what is whole
  and ends with a version, in one `write`; every process that has opened the file
  to write does so from its beginning. `OverlapInv` says that a file on disk is
  empty or such a database, followed by what a longer one left behind. The
  version is the last cell of whatever parses, so a file with a remainder is
  unreadable and removed, never served in part. That a database fits needs its
  entries to be of different hosts, hence the two theorems have one invariant,
  and that needs `SessionHosts`: no step of anybody changes the host of a session
  that has begun. Without `FitsOneBlock` both fail, and what is left of them is
  `Staleness`.
* **`CallTypes`, `Truthful`, `UnaryRequests`, `DeadlockBound`** follow from one
  invariant: message accounts (written = received + on their way, and so on) and
  their order (what is ended, closed or answered when). `ParseErrors` adds that
  the number of requests is fixed once, `TimeoutBound` that the deadline is the
  start plus the timeout and that closing takes at most `CloseTime`.
* **`SessionTypes`, `OneStream`, `CompleteEntry`, `NamedFiles`, `CutShort`,
  `Implementation`** (any import graph, cyclic or not). `PoolInv`: what is built
  is closed under imports and known; `ReachInv` and `PendingInv`: the work lists
  hold only files reachable from found services, and what is not yet collected
  is still pending; `EntryInv`: the entry is what was named; `ShortInv`: while
  the stream is whole, what was not found was refused. `Implementation` maps the
  initial state and every step to `HostEntry`, whose steps are stuttering except
  the one that stores, fails, keeps or invalidates.

* **`AtMostOneSession`, `ServiceFoundAgain`, `SessionsEnd`, `InvocationTypes`** (any order of injectors, failures and answers, any number
  of proxies). The inductive invariant `IInv` adds to the types that channel,
  proxy and pool are made together (`Together`: a connection that has one of
  them has all, of the first proxy, unless the session was closed), what the
  phase knows of the connection (`InPhase`: the proxy is closed exactly from the
  call on), and that the grammars that were fetched are covered by what the
  session found (`Found`). Without `Together` one could not exclude that
  `getDescPool` makes a second proxy; without `Found` a line could be called whose
  service the session had not found.
* **`ProgramInvokes`**: every step of `Program` is a step of `Invocation` or leaves
  its variables alone, so the four theorems above hold for the program that the run
  checks, lookups in the destroyed proxy included.
* **`PrintsExactly`, `RequestsOfLine`** (any lines and any format of single
  messages). `ProgramInv` is an account: the messages parsed so far are
  those of the line (`ParserInv`), requests are written before replies are read
  (`CountInv`), the exit code 0 is reached through an option that was asked for or
  through a call that has written and read everything (`ExitInv`), and as long as
  no error occurred the texts printed are those of the requests written followed
  by those of the replies read (`PrintedSoFar`). The condition on errors is
  needed: a request that cannot be serialized is printed before it is not sent.
* **`IntegerFieldExact`, `NarrowExact`, `NarrowInRange`** (any widths up to that
  of `long`). Narrowing keeps a number that fits and never leaves the range of
  the field, so an integer field holds the number that `stol` delivered whenever
  it fits. `WidthAssumption` states what is needed of powers of two.
* **`NumberStored`, `NumbersStored`** (numbers of any length in any base). The
  number that `stol` delivers is the one that the text denotes: after every digit
  the value read, times the weight of the next place, is the sum of the digits so
  far with their weights (`Horner`). This is an induction over the digits.
  `TreesAssumption` says that the values of number fields are what the grammar of
  numbers accepts, `ValuesAssumption` that no field is wider than `long`.
* **`RequestsTyped`, `ErrorsRefused`, `LinesExact`** (any types of messages, parse
  trees of any size and depth). They rest on three theorems about one message.
  `ParsedIsTyped`: what a tree becomes has all fields of its type, and values in
  their range, at every depth. `ParsedHasNoError`: a tree that becomes a message
  has no error in the last value of any of its fields, at any depth. `ParsedIsMeaning`:
  a tree without errors becomes what it means. Each is an induction over the levels
  of trees, from the innermost outwards, and within a tree one over its fields.
  The last one needs to know what a tree means as far as it has been read
  (`MessageSoFar`): a field that is set ends the claim of the other members of its
  oneof and of its own earlier values (`SingleStep`, with `LastOf` moving on), an
  element is added behind those that were given before (`RepeatedStep`). With an
  error it would fail, for the parser drops elements that the meaning has; hence
  `ErrorRefused` speaks of the last elements only. `RequestsParsed` takes them to
  the program: the messages parsed so far are what `ParseMessage` made of the trees.
* **`TextIsShown`, `TextsTell`** (any types of messages, messages of any size and
  depth whose strings hold no quotes, `Quoteless`). Two messages of a type have the same
  text for humans if, and only if, what `Shown` says of them is the same. With quotes this
  is false: a string can hold a quote, a new line and the beginning of the next field,
  and TLC finds two such messages as soon as `Quoteless` is dropped. So a string ends at
  the first quote behind its beginning (`QuotedTells`), and `EntryFits` takes the
  condition to the entries of maps. A text is put together from pieces without
  brackets or escapes, so two texts can be equal only if one piece ends early and what
  follows makes up for it. What follows a piece is nothing, or a new line that
  has fewer guides than the lines of the piece (`Follows`); two texts are
  `Apart` at a depth if they differ whatever follows them there. `Tells` is the
  inductive statement: what is shown the same has the same text, and what is not has
  texts that are apart. It is put together from scalars and their modifiers
  (`ScalarTells`), keys, entries and the lines of fields, behind equal pieces
  (`ApartBehind`) and before what may follow (`ApartBefore`), one piece after the
  other (`PiecesTell`). A text can be empty, so a message that has one must not be
  confused with what follows it: `OpensAlike`. In a map, sorting must not lose an
  entry nor make the order visible: keys have different ranks (`Ranks`), so `InOrder`
  is a list of all entries (`Sorted`), and two maps with the same entries are printed
  the same (`SameEntries`). `LevelsTell` is the induction over the levels of the
  messages. It needs `PlacesAssumption` (different strings have different places) and
  that messages fit their types (`Fits`): with two entries of one key a `std::map`
  would show one of them.
* **`TextParsed`, `MatchesText`, `SuggestionsKeepText`, `EveryRepetitionEnds`**
  (any grammars of any height, any texts). The inductive statement is
  `Faithful(t)`, the results that are about the text `t`: the raw text of the
  parse tree is a beginning of `t`, of the length that is reported if the parse
  was successful, the lengths are ordered and within `t`, and each candidate
  continues `t` or is a beginning of it that is stopped (`Fits`). `ParseFaithful`
  shows by induction over the height that the result of every call is faithful to
  its text; each kind of element is a lemma about children that are. A
  concatenation needs an induction over its children, from the last to the first
  (`LastChildrenFaithful`): a child is faithful to its part of the text and the
  ones behind it to the rest, and a candidate of a child is continued by what is
  faithful to the empty text (`ForksFit`). A repetition needs one over its rounds
  (`RepetitionsRun`). Together with faithfulness goes that elements in `taking`
  take a character, which is why each round but the last moves on and the loop of
  `Repetition::parse` ends. `Parsed`, the invariant of `CommandLine`, says that the
  result is that of the text. What the shells do with a candidate is about texts
  alone: the word at the cursor begins at the same place in the text and in what
  continues it (`BashStartIs`), unless there is a comma in it, and fish is given
  a word that begins where the one at the cursor does (`FishKeepsIt`).

* **`VerdictsTrue`** (the same): what the parser accepts is in the language of
  `ArgLanguage`, and what it calls incomplete, or has candidates for, can become a
  sentence.

  The first part: `Sound` says of a result that it is no match, or one that ends
  where the language has an end, and `Agree` that all results up to some height are
  sound; `ParseSound` is the induction over the height. Positions in the whole text
  take the place of the parts that a child is given (`Further`). What the parser
  finds step by step is related to what `ArgLanguage` collects: the rounds of a
  repetition are at ends of as many repetitions as characters were taken, or fewer
  (`RepetitionsAtEnds`, `EndsOfManyIs`); what the children of a concatenation have
  matched and noted is one of the places behind them (`ConcatenationSound`,
  `PlacesIs`), so an injected grammar is the one that belongs to the sentence; and
  the end of an escaped string is the first one that is possible
  (`EscapedStringSound`). That a repetition or an option which is half there does
  not count as matched is where it could fail.

  The second part: `Honest` says of a result that it holds nothing out, or that the
  text can be continued to a match of the element, unless a grammar could not be
  retrieved; `ParseHonest` is the induction over the height, which rests on
  `ParseSound`, since the child that is half there begins where the ones before it
  end in the language. Three things make it less than obvious. An option
  offers not to take it unless what it holds is out of the question, also when that
  has matched nothing; then nothing might follow, which `OptionAssumption` excludes. An
  alternative that wins can carry the candidates of
  the others, which are honest about the same text (`OtherCandidatesHold`). And the
  candidates of a child are continued by the children behind it, parsed again with
  fewer forks: for the verdict it is enough that the text ends within the child
  (`HonestBehind`), and that whether a grammar is missing does not depend on the forks
  that are allowed (`ParseFailure`). What each of the candidates becomes is not
  part of it; that is `SuggestionsLead`.

`NaturalRecursion` holds what the points about messages and the parser rest on. The induction theorems
of the library take a property as a parameter, which the provers cannot
instantiate, so `Induction` is stated for sets, and that a function with given
steps exists (`Recursion`, and `DependentRecursion` for steps with a range of
their own each) follows from it.

Only model-checked: everything with fairness (`EveryRunEnds`, `SessionEnds`,
`DeadlineEndsCall`, `AnsweredCallEnds`), which this prover cannot treat. Of the
argument parser, that each suggestion itself leads to a sentence
(`SuggestionsLead`) and that neither a sentence nor a suggestion is missing
(`NothingHidden`). Neither holds for every grammar, so they are properties of the
grammars that gWhisper builds. A candidate can lead nowhere: at the limit of forks
one that ends within a concatenation is handed to the next one as if it were
complete, and one of a named element is continued with the grammar injected for
an earlier element of the same name (section 5). And something can be
missing: the parser never goes back to a shorter match, and drops candidates at the
limit of forks. The run `completion` shows a suggestion that is missing, and the texts
that `NothingHidden` excepts (section 3) are sentences that are rejected and texts behind
which a suggestion is missing.

## 5. Observations without a run

Met while reading. Where a module follows the code in this, its name is given.

Cache and connection:

* A failed close removes the cache file with `--disableCache`, too (`DescCache`).
* `--help`, `--version` and `--complete` on a line with the address of a server
  that cannot be reached end with a failure during the parse (`Invocation`), and
  completing an address that is typed half contacts what is there.
* `cliUtils.cpp:7`: the timeout in microseconds is computed with 32 bits.
  `cliUtils.cpp:20`: one that is no `long` is an exception that nobody catches
  (`Invocation`: `ConnectTimeoutThrows`).

Calls:

* A call that streams requests is made with an empty stream after a parse error
  (`RpcCall`, `Program`).
* `doc/Usage.txt:57` gives 10 s as default timeout of a unary call, `Call.cpp:153` 30 s.
* JSON files that cannot be read are skipped, and the others are sent (`RpcCall`).

Request messages:

* `MessageParserCli.cpp:335`: the result of an element of a repeated field
  overwrites that of the one before it, so an element that cannot be parsed is
  dropped if another one follows (`MessageParser`; `MessageParser.hpp:27-33`
  documents an error).
* `doc/Usage.txt:207` lists octal numbers; `078` is the number 7 (`FieldValues`).
* Numbers out of the range of their field are narrowed silently if they fit into
  a `long` (`FieldValues`).
* At the limit of recursion a field takes a fixed text as its value; the message
  is then refused for a single field (`MessageParser`: `NoValue`).

Texts (`MessageFormatter`):

* The modifier `dec` prints nothing for signed integers.
* Maps in the simple format: signed values behind unsigned keys are printed
  empty, entries with keys of type bool not at all, and keys of type fixed32 or
  fixed64 end the process.
* Custom formats: a reference to a repeated field ends the process.
  `GrammarConstruction.cpp:399` parses a name of a target with `[^:]*`, which takes the
  dots behind it, too: `@.a.b:` has the one name `a.b`, which no field has ("No such
  field"), and the recursion of `customMessageFormat` over several names
  (`MessageFormatterCustom.cpp:92`, `:100`) is never used, although `doc/Usage.txt:250`
  documents `(.<FieldName>)+`.
* Floating point numbers are printed with six decimals; quotes in strings are not
  escaped (`MessageFormatter.hpp:227`), so a string with quotes and new lines can look
  like several fields.

Command line and completion:

* The host name of an address needs two characters, so that the first one typed
  is "unexpected".
* The hosts `dn` and `dns`, and a host `dns` with a port, are taken for the beginning of
  the scheme `dns:`; the latter is rejected (`Optional.hpp:93`).
* `GrammarConstruction.cpp:556`: an address in brackets is accepted behind `ipv6:` only,
  so the example `gwhisper [2001:db8::2:1]:50059 ...` of `README.md:138` is rejected at
  its first character.
* `GrammarConstruction.cpp:125`: in the characters of a floating point number, `\\+-\\.`
  is a range that holds the comma, so a list of two of them (`doc/Usage.txt:235`) is
  rejected. `GrammarConstruction` has the comma in that class.
* `Completion.cpp:60` drops the blanks that what fish is given begins with. Behind an
  escaped blank of a string that includes the blank that ends the string, and what fish
  enters continues the string (`BlankBehindBlank` in `CommandLine`).
* `Optional.hpp:81`: an option of which a part was typed yields the candidate of
  not taking it, too; it is shorter than the text, and `Completion.cpp:210` reads
  behind its end. Nothing harmful is printed (`SuggestionsLead`).
* `Concatenation.hpp:156`: at the limit of forks the candidates of the first child are
  kept, but not stopped, although the children behind it are missing in them, and an
  enclosing concatenation goes on with them. In the grammar (("a" | "b") "x" | "c") "s"
  the empty text has the candidates `as` and `bs`. None of gWhisper's grammars
  has a choice at such a place.
* The names of elements are noted for what has been parsed only
  (`GrammarInjector.hpp:31`), so a candidate of the second of two elements with one name
  is continued by what was injected for the first. gWhisper has no such names.
* `Completion.cpp:218` treats a comma as a word break although the comment above
  it says that bash does not; behind `--customOutput "@:a,` the suggestion `/`
  replaces more than it repeats. `SuggestionsFit` leaves out words with a comma.
* `completionTests.txt:47` asks why `--complete` is suggested twice: once
  with its option not taken, and once with the white space behind it.
* `--rpcTimeoutMilliseconds=` without a value is accepted.

## 6. Plan

Done, in this order: `DescCache`, `RpcCall`, `HostEntry` and `Reflection` with
their proofs; `ArgParse`, `ArgLanguage`, `GrammarConstruction`, `CommandLine`;
`Completion`; `Invocation` with its proofs; `FieldValues` with its proofs,
`MessageParser`, `MessageFormatter` and their composition `Program`; `CacheMap` and
the proof that `DescCache` implements it; overlapping processes of the cache; the
program for any format of messages; the parser as functions over the height of
grammars, with its proofs; that its verdicts are true; `MessageParser` as
functions over the depth of messages, with the proofs that a request is of its
type and means what was typed; `MessageFormatter` as functions over the depth of
messages, with the proofs that a text tells what is shown.

Left, in this order:

1. `DescCache` with the session of `HostEntry` in place of its `FetchFiles`.
2. The documents of suggestions, if a property about them is found.

## 7. Not modelled

* Wording, alignment and colors of replies, documents beside suggestions, the
  dot export of grammars, the printing of parse trees: no state and no control.
* Contents of keys and certificates: handed to gRPC. Whether they can be read is
  in `Invocation`.
* JSON: converted by protobuf in both directions. Which files become messages is
  in `RpcCall`.
* Extensions over reflection, and the operations of `CliCall` that wait for
  reads and writes in one call: they have no caller.
* Regular expressions in general: the parser's are repeated character classes.
* A full disk, a wall clock that is set back, and a bound on the time for the
  connection: see the hazards without a property in `PROJECT.json`.
