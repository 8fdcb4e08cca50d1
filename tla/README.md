# TLA+ models of OsuRequestFlow

OsuRequestFlow is a bot for streamers: it reads a Twitch chat over IRC, takes
links to osu! beatmaps out of the messages and downloads the maps from one of
several free servers into the songs folder. A local web page shows the state
and changes the settings. Everything runs on one `io_context` with six worker
threads (`src/src/gui/main.cpp`); components call each other directly or post
handlers to it, some of them through strands, and share state without locks.

This directory holds the TLA+ modules of the system, the TLC configurations,
the TLAPS proofs and `PROJECT.json`, the index of runs, properties, mutants,
hazards and of the lines each definition stands for.

## Inventory

| component | state | operations | how it interacts |
|---|---|---|---|
| **Downloader** (`downloader/`) | `base_servers_` (server, speed, status), `resource_`/`prefix_`, `download_queue_`, `need_to_mesure_speed_`, `osu_file_manager_`, `dl_strand_` | `Download`, `OnDownload`, `MesureServersDownloadSpeed`, `MesureSpeed`, `OnMesureSpeed`, `SetResourceAndPrefix`, `SetDownloadsDirectory`, `GetAccessTestResult` | called by the chat bot and the web API; makes one HTTP client per download or probe and is called back by it |
| **HTTP client exchange** (`http_client/http_client.h`, `response_parser.h`) | visitor of the send, visitor of the read, the file, a timer that watches the body | `Get`, `OnSend`, `OnReadHeaders`, `ReadBody`, `OnReadBody`, `MonitorDownloading` | completion handlers on any worker; calls the downloader's handler |
| **HTTP client connection** (`connection_pool.h`) | stream, connected flags | blocking `Connect` with one retry and sleeps | called inside `dl_strand_` or by a measurement |
| **IRC client and connection** (`twitch_irc_client/irc_client.cpp`, `connection/`) | joined channels, the buffered JOIN for a reconnect, the connection, a timer | connect, authorise, join, part, read loop, reconnect | handlers on `read_strand_`, `write_strand_`, `connection_strand_`; gives bytes to the processor |
| **Message processor and handler** | the incomplete last line | split bytes into lines, classify, answer PING, pass user messages on | called from the read loop, posts to the bot |
| **Chat bot, commands, verificator** (`chat_bot/`) | modes and commands with their content and their user lists | `UseModes`, `ProcessCommand`, `Verify`, changes of the lists | posted by the handler, calls `Download`; lists are changed by the web API |
| **Core** (`core/`) | owns the components, `settings.json` | setup, load and save settings, the map link in a message | called by main, the web API and the bot |
| **Web API and HTTP server** (`gui/`, `http_server/`) | one session per browser connection | read, validate, handle, write, close | handlers on `api_strand`, calls Core |
| **OsuFileManager** | the songs directory | remove a file, remove duplicates | called by the downloader |
| **Settings** (`core/core.cpp`, `gui/main.cpp`) | `settings.json` and what the components hold of it | save, load key by key at the start and by the web API | calls the downloader, the IRC client and, for the lists, the bot |
| Logger, CA loader, request builder, WebSocket server (empty) | none that matters here | | |

What makes each correct, and what makes it hard:

* **Downloader**: a file that was accepted is not forgotten before it is
  delivered; downloads open one at a time; a measurement selects the best
  server and ends; nothing but a named cause ends the program. Hard because
  check and insertion of the queue are separated by a sleep, `prefix_` is read
  after a blocking connect, a `Server&` is kept while the vector is sorted or
  grows, a refused download runs a whole measurement inside the strand, and
  every answer may come in any order on any worker.
* **HTTP exchange**: the handler is called at most once; a server that stops
  sending is noticed, a slow one is not taken for it; success means a whole
  body. Hard because the body, the timer and the header handler run on
  different workers and the timer holds the visitor weakly.
* **IRC client**: after a lost connection the client is in the channels it
  should be in; the read loop never ends silently. Hard because of the
  connection that is replaced before it is connected and of the timer.
* **Message processor**: the lines are those of the byte stream wherever the
  network cuts it.
* **Chat bot**: a command runs with the content, nick and role of one message.
  Hard because content and execution are two calls on a shared object.
  The lists decide who is accepted.
* **Web API**: one response per request, and the session reads again; handlers
  change Core one at a time. Hard because the request is read on one thread and
  answered from another, and because handlers may answer twice, never or throw.
* **OsuFileManager**: one copy of every map survives the removal. Hard because
  downloads write into the folder between and during its two walks, and any
  name may end it with an exception.
* **Settings**: a load takes the file. Hard because it stops at the first key it
  cannot use, with the keys before it already in force.

`PROJECT.json` lists the hazards at their lines, with the properties about
them or the reason why there is none.

## Plan

| step | modules | questions | proofs | state |
|---|---|---|---|---|
| 1 | `Downloader`, `RequestBook` | files, strand, servers, crashes | types, strand, crash causes, no file forgotten, the selected server, refinement | done |
| 2 | `HttpDownload`, `HttpExchange` | one call, stall, slow, truncated | types, slow is not stalled, refinement | done |
| 3 | `IrcClient`, `ChannelMembership` | reconnect, rejoin, read loop, PONGs, overlapping handlers, reconnect window | types, listed channels are joined, one reader, the PONGs' connection, crash causes, refinement | done |
| 4 | `TwitchMessage`, `MessageGrammar`, `MessageStream` | the meaning of a line; lines over chunks; batches on workers | lines of the stream, batches, what is lost; type, text and sender of every line of the grammar | done |
| 5 | `ChatBot` | one message's content, nick and role; user lists | types, what is requested | done |
| 6 | `ApiHandlers`, `ApiSession`, `RequestResponse` | responses per request, one handler at a time, liveness of a session | types, exclusion, the idle stream, one operation, refinement | done |
| 7 | `OsuFileManager` | `RemoveDuplicates` beside downloads | types, survivors, what is left | done |
| 8 | `Settings` | loads, saves and starts | types, what a load takes, server and prefix | done |
| 9 | compositions: `ChatBot` with `Downloader`'s promise `RequestBook`; the browser's page on `RequestResponse` | a link in the chat ends as a file | refinement where it is one | open |

Modules that are proved about declare no recursive operator and reach none.

## Downloader

`Downloader.tla` models `downloader.cpp` as the workers run it. `thread[t]`
says what worker `t` is in the middle of:

| `pc` | code |
|---|---|
| `idle` | in `ioc.run()` |
| `insert` | in `Download`, between the check of `download_queue_` and the insertion (the sleep of line 106) |
| `opening` | in the handler of `Download` on `dl_strand_`, in the blocking connect of `GetReadyClient` |
| `mesure` | in the loop of `MesureServersDownloadSpeed`, before the `MesureSpeed` of a slot |
| `probing` | in `MesureSpeed`, in the blocking connect |

The code between two such points is one action. A stretch of code without a
blocking point is therefore atomic. Two workers that use one container at the
same instant are a data race whose effect the language leaves open; the
model does not describe it, and this is the main limit of its results.

The variables are the members of the class, with these changes:

* `resource` stands for `resource_` and `prefix_`, which are always assigned
  together; the place where the code reads `prefix_` later than `resource_`
  reads the variable twice (`OpenClient` and `OpenOk`, `MesureSpeed` and
  `ProbeOk`).
* A `Server&` is a slot: an index and the `generation` of the vector's buffer.
  `push_back` starts a new generation. Using a slot of an old generation is a
  use of freed memory, whose outcome is open: `UseSlot` lets the program crash
  or go on. The strings found there are those a move has left, empty in the
  usual implementations; a name that reaches no server is treated like no
  name. Every `push_back` counts as a move of the buffer: the first one moves
  it, a later one may find room, so the model has more dangling references
  than the program.
* `strand` is the worker inside `dl_strand_` and `strand_queue` the handlers
  waiting for it; `net::dispatch` runs a handler at once when the strand is
  free or when the caller is inside it (`RunsInline`).
* `session[s]` is an HTTP exchange: what was asked of which server, with which
  prefix and whether the client had a directory.
* `delivered`, `asked_without_folder`, `requests`, `mesures`, `faults` are history
  or bounds.

An exchange ends with `DownloadOk`/`MesureOk` (status OK and the read ends
without a cancellation), with `DownloadFailed`/`MesureFailed` (another status, or
the monitor's cancellation), with `Silent` (no handler is called) or with
`SendWithoutFolder` (the visitor's constructor throws). These are the four
ends of the abstract exchange `HttpExchange`: `Answer` with `ok` and `fail`,
`Close` and `Crash`. A server answers OK only to its own prefix.

What other code does to the downloader is here only as far as it reaches it:
`/api/downloader/settings` and a reload of the settings are
`SetDownloadsDirectory` and `SetResourceAndPrefix`, the chat bot is
`RequestMap`. The crash of a late tick belongs to `HttpDownload`:
`CrashNeedsCause` and the liveness properties speak of a program that none of
its exchanges ends in that way.

`GetAccessTestResult` dispatches to a strand that only the API uses, from the
API's strand; the dispatch runs at once, and `AccessTestResult` is its value.

`RequestBook.tla` is the promise to the chat: pending files, delivered files,
and nothing leaves the first set but by a delivery.

### Properties and runs

| run | constants | checks |
|---|---|---|
| `requests` | no downloads directory at start, 2 servers and a third one to add, 2 files, 2 workers, 2 exchanges, 2 requests, 1 fault, every end of a connect and of an answer | `TypeOK`, `OpensInsideStrand`, `CrashNeedsCause`, `PendingUntilDelivered`, `BookSpec` |
| `servers` | no directory and no resource at start, 2 servers to select from, 1 file, 2 exchanges, 1 request, 1 fault, every end of a connect and of an answer, 1 measurement by the user beside the one of a failed download | `MesurementSelectsBest` |
| `progress` | 2 files, 2 requests (two files, or one file twice), 3 exchanges, 1 fault (a refused connect or a failed answer), fair | `LoneFileDelivered`, `MesurementShowsAvailable`, `StrandReleased` |
| `fastest` | 2 servers, one measurement, every connect and answer good | `FastestSelected`: violated |

Two workers are enough for every pair of handlers the code can interleave; a
third one only adds a second bystander. Two requests make the double request
of one file and the race of two files; a measurement has two probes at least.
One fault, of any kind, is what it takes to get from a download to a measurement
and a retry. Three exchanges are a download and both probes, and a retry takes the
place of one that has ended. Base servers are two of the code's three: the
effects need one server before and one after another in the vector.

`requests` and `servers` divide what is out of reach together: in `requests` the
vector grows under a measurement that a failed download started, in `servers`
nothing is added, so `generation` stays 0, and two measurements meet. In both a
connect may be refused or throw, an answer fail or never come, and a client be
made without a directory. `CrashNeedsCause` names the two causes of a crash: a map
asked for before any directory was set (`asked_without_folder`, a history
variable) and a server that was added. Each of the two
properties is checked in the run where its case is the harder one; both are proved
for all constants. `MesurementSelectsBest` speaks of the speeds
as recorded; that a speed is recorded for the wrong server is `FastestSelected`.

`LoneFileDelivered` has two conditions, and delivery is no theorem without either.
The file is wanted alone: `OnMesureSpeed` takes whichever file comes first from
`download_queue_`, so all answers of a measurement may retry another one, and the
file that failed waits for ever. And the servers share a prefix,
as catboy.best and api.nerinyan.moe do: a file is fetched with the prefix of the
server selected when its client is ready, so with osu.direct (`/api/d/`) a
download that reads `resource_` and `prefix_` on both sides of a selection asks a
server for another's path, is answered with an error and waits as well.

`CHECK_DEADLOCK FALSE`: the program may stop after a crash, when all exchanges
of the bound `Sessions` are taken, or when everything asked for is done.

Symmetry over files, workers and exchanges is used in the runs without
liveness. No property there chooses between members of these sets.

### Fairness

* Weak fairness of `Work(t)`: a worker in the middle of a handler goes on; the
  blocking connect ends, because the operating system's does.
* Strong fairness of `RunStrand`: a handler waiting for the strand is not
  overtaken for ever. Asio's strand posts its next handler when one ends, and
  the `io_context` runs ready handlers in order.
* Strong fairness of `Complete(s)`: an exchange that can end does end. This
  is an assumption about the network for the headers, which the code does not
  watch, and the result `BodyAnswered` of `HttpDownload` for the body.
* None of requests, settings or measurements by the user.

### What the code does otherwise than documented

* `fastest` - `README.md:141`: with all servers available the fastest one is
  selected. `OnMesureSpeed` writes the speed through a reference taken before
  the sort of an earlier answer, so it can rate a server with the speed of
  another. The slower server stays selected while the indicator is green.
* `README.md:143`: "Unavailable - no servers respond". Every `MesureSpeed`
  resets all statuses (`downloader.cpp:71`), so with no server responding a
  measurement ends with `Processing`.
* `downloader.cpp:98-100` turns a file away that is "allready in dl queue"; a
  measurement's answer (line 248) takes a file from the queue while it is
  downloaded and downloads it again, to the same path.
* `README.md:120`: the map is ready to play a moment later. A connection that
  ends early counts as a success (`http_client.h:299`) and the file is taken
  off the queue.
* `README.md:122`: "a viewer sends a link, the map downloads". With two files
  wanted and one connect refused, the answers of the measurement that follows
  may all retry the other file, which is under way (line 248), and nobody retries
  the refused one. Later requests for it are turned away (line 98).

Of these, `fastest` has a run; the others follow from `ResetStatuses`,
`Redownload` and `HttpDownload`'s `OnReadBody`. `MesurementSelectsBest` holds
beside `fastest` because it speaks of the speeds as recorded.

## HttpDownload

`HttpDownload.tla` models one exchange of a connected client, from `Get` to the
call of its handler. `stage` is where it is: `send`, `header`, `body` (the
read is under way), `read` (its completion handler is ready to run), `handler`
(it runs the downloader's handler), `over`. `arming` is the header handler
between `async_read` and the start of the timer, which another worker may use
to complete the read. `timer` is the wait: `armed`, `expired` (its handler is
ready) or `off`. `Held` says whether somebody holds the visitor: when nobody
does, a wait that has not expired is aborted with it, and one that has expired
finds a null pointer (`LateTick`).

The body counts chunks. `no_progress_streak` and the history variable `quiet`
stop at `StallTicks`, above which nothing distinguishes them. `GetProgress` of
an answer with an empty body is not a number and never equals itself, hence
`SameProgress`. A user who removes the file while it is written is left out.

`HttpExchange.tla` is what the starter sees: open, then answered once, closed
without an answer, or a crash - instead of the answer only without a directory.

| run | constants | checks |
|---|---|---|
| `exchange` | bodies of 0 to 3 chunks, refused from 3 on, 3 ticks, fair | `CancelledOnlyWhenQuiet`, `ExchangeSpec`, `BodyAnswered` |

Three ticks are the least number with a first, a middle and a last one; two
chunks have one before and one after a tick. `CHECK_DEADLOCK FALSE`: an
exchange ends. `TypeOK`, with it that a body of the size limit is not read, is
proved instead (`TypeCorrect`).

Fairness is weak, of the workers (`StartMonitor`, `ReadEnds`, `OnReadBody`,
`HandlerReturns`, the ticks) and of the clock (`Expire`). Nothing is assumed of
the server: `Receive` and `ReadBreaks` need not happen. `BodyAnswered` starts
at the body because nothing watches the headers (the repository's README lists
it as a task).

## IrcClient

`IrcClient.tla` models `irc_client.cpp` on one `connection.h/.cpp` connection, with
what `message_handler.cpp` does on `connection_strand_`, as activities that run on
different workers:

* a call of `Join` or `Part` on the API's strand (`call`). A write blocks, so each
  is two actions, up to the write and from it: `Join` puts the channels into
  `join_command_buffer` before it and into `joined_channels` after it;
* the read and its handler on the read strand (`reader`: `pending`, `posted` to
  `OnRead`), which posts a batch, now and then with a PING in it (`pings`);
* `connection_strand_` (`strand_queue`): its jobs are `Reconnect`, `UpdateConnection`
  and `SendPong`, one after the other in the order of their `dispatch`. `Reconnect`
  starts the timer and holds the strand until it returns (`Return`), so the timer
  may be faster. `dispatch` runs `UpdateConnection` at once when the strand is free
  and queues it otherwise (`Resume`); the handler of the timer goes on to `Read`
  either way, and `handler_connection` is the old one until the job has run;
* the wait of `reconnect_timer_` (`timer`) and its handlers. The timer is made of the
  `io_context` and the handler bound to no strand, so the handler of a second
  recovery may run while the first is still in `CapRequest` or `Join`: `handlers`
  counts how many there are before the end of the blocking connect
  (`connecting`), before the read (`resuming`) and behind it (`joining`). What such
  a handler writes to is `connection_`, whichever it is by then.

A connection is its number, `connection` the newest one. The details:

* `connected` says whether `connection_` has been connected; `Reconnect`
  replaces it by one that is not. A write without a connection throws, one on
  a lost connection logs its error and goes on (`WriteThrows`, `Sent`).
* An exception on the API's strand ends the program or not: `HandleRequest`
  catches it when `dispatch` ran the handler at once, `io_context::run` of a
  thread that catches nothing rethrows it otherwise (`ApiThrows`).
* `server_channels` is Twitch's view; it forgets the client with the connection.
* `last_read_incomplete_message` says whose half line the processor holds.
* A read that fails has some bytes (`partial`) and is noticed, or has none
  (`empty`) and is only logged: `Errors` holds those that occur. Asio's composed
  reads pass an error on by itself as a rule, so `partial`, from which alone the
  code recovers, is the rare one of the two.

`ChannelMembership.tla` is the promise to the streamer: channels wanted and
channels present; after a loss, what brings back one brings back every wanted
channel, never a part.

Run `irc`: two channels, two calls, two PINGs, two losses, every end of a connect
and both kinds of read errors. Two losses are the least at which the connection
is lost again while the handler of the first recovery is still at work, and two
handlers overlap; two PINGs make `UpdateConnection` wait behind the PONG of an
older connection and before that of its own; two calls are a join and a part, or
two joins around a loss. It checks `TypeOK`, `JoinedOnServer`, `OneReader`,
`PongFindsConnection`, `CrashOnlyWhileApart`, `MembershipSpec` and `LossRecovered`.
`OneReader` is about what the reads of two connections share (the connection, the
half line of the processor), `PongFindsConnection` about the message handler's
connection: a PONG goes to a connection that is connected and not older than the
one its PING was read from, although that may be read before `UpdateConnection` has
run. `CHECK_DEADLOCK FALSE`: the program may end, and stops for good after a read
without bytes.

Fairness is weak: the workers run what is posted, the timer expires, blocking
calls end, a read on a connection that is lost ends because the system reports
it. Nothing is assumed of Twitch or the user. `LossRecovered` starts where
`reconnect_required_` is set, which an error without bytes never does.

Beside the documents: a reconnect that fails throws in the handler of the timer
and ends the program, where the messages of `irc_client.cpp:158-162` announce a
retry; a channel that was left (`README.md:451`) is joined again by the next
reconnect, because `Part` leaves it in the buffer (`irc_client.cpp:58`); a read
that ends without bytes is neither repeated nor taken for a loss
(`connection.h:308`). All three are behaviours of the model.
`ChannelMembership` therefore lets a restored client be in more channels than
the wanted ones, and `CrashOnlyWhileApart` names the first as a cause.

## TwitchMessage, MessageGrammar and MessageStream

`TwitchMessage.tla` translates `Split` and `IsNumber` (`domain.h`), the type
checks of `message_processor.cpp` and the badges of `message.cpp`. A text is a
sequence of symbols; a symbol is a run of characters the code never cuts or one
it looks for. `MessageGrammar.tla` composes lines from the protocol's grammar
- tags with badges, prefix, command, words of a text, among them the words
that are commands - so that what a line should be read as is known, and
`MCMessageStream` states that it is: `TypeIsCommand`, `TextIsWhole`,
`SenderIsRead`. They look at all composed lines once, in the initial state.
`Words`, `BadgeWords` and `BadgeLists` are constants: a word has no space, a
badge's name or value none of the characters the tags are cut at, and a list
has the badges with the higher role first, as Twitch sends them - the code takes
the first badge it knows, which is the highest only then
(`MessageGrammarAssumption`). Read as the code has it: a `PING` with a third
token is `UNKNOWN`, a badge with the value "0" gives no role, a last tag that
no `;` ends is dropped. Lines that start with a space are left out.

`MessageStream.tla` sends lines down a stream of symbols; a read takes any number
of them (`Chunk`), the processor cuts them into messages, and the messages of a
read are one batch. Workers take batches and handle them message by message
(`Take`, `Handle`); `fate` records what became of each message. `LinkLost` takes a
last part of the stream with it, and `Resume` flushes the half line. How a
connection is lost and replaced is `IrcClient`; `Identify` is `TwitchMessage`.

Run `stream`: three lines out of a PING, a named and a nameless message, two
workers, one loss, every cut. Three lines are a batch with something before and
behind the nameless message, or two batches and a half line. It checks
`MessagesAreLines` (the messages of a connection are the lines of the bytes
read, found in the whole stream: `Ends` is where its lines end, `AreLines`
relates them to the messages and to the kept half line), `InOneBatch`, `LostOnlyBehindNameless`,
the three properties of the grammar and, under weak fairness of the workers,
`EveryMessageHandled`. `CHECK_DEADLOCK FALSE`: the bound on lines ends it.

A CR LF that a read cuts in two ends no line: both characters become part of
the message and the next line is glued to it, although "every message is
checked" (`README.md:84`, `domain.h:61-66`). The history variable `cuts` keeps where a read
ended behind a CR, and `Ends` leaves out the CR LF at these places, so
`MessagesAreLines` says exactly this.

## ChatBot

`ChatBot.tla` models `chat_bot.cpp`, `command.cpp`, `user_validator.cpp` and the
`OsuMapDownloader` of `core.cpp`. A message is posted (`Post`), becomes two tasks
(`ParseAndExecute`), and one of them runs the only mode. `worker[w]` is where a
worker is in that run: `assigning` `content_`, `assigned`, `executing` with a view
of it. There is one mode object and no lock, so:

* while another worker assigns, an assignment may free characters twice
  (`AddContent` may end the program) and a view may be of old or freed
  characters (`Racing`);
* an executor reads what its view was taken of, what has taken its place, or
  freed memory (`Read`), and the program may end.

A message is its sender, role and the sequence of links in its text; the first
link counts, when its mode is `osu`. The edits of the lists go through `GetMode`,
which looks for the mode among the commands; no command is ever registered, so
every edit uses a null pointer and ends the program (`Access`).

Runs `chat_bot` and `chat_bot_accepted`: two workers; a moderator with a std link,
a viewer with one, and (in the first) a moderator whose std link stands behind
another. Two workers are what it takes to race; the third message is one that
has something to request only when the wrong link is taken. `RequestIsBacked`
says what remains true in spite of the races, `EveryMessageHandled` (weak fairness
of the threads) that each message is done with unless the program ends.
`CHECK_DEADLOCK FALSE`: all messages are handled in the end.

`chat_bot_accepted` - `README.md:126`, "Choose whose requests to accept": the map
a refused viewer links to is requested in the run of an accepted one, because
`UseModes` stores and executes the content in two calls on the shared mode. In
the same way an accepted request can be lost (`chat_bot.cpp:64`). Also beside
the documents: only the first link of a message is looked at (`core.cpp:461`,
`README.md:84` "anywhere"). And "everyone, subscribers, VIPs, moderators, or only
yourself. There's also a whitelist and a blacklist" (`README.md:126`, 371-430) does not
hold of the code: the first edit of a list, the role or the switch ends the program
(`chat_bot.cpp:40`). `Access` has that crash and no other outcome; that only
moderators are ever accepted is a consequence of it, not a property to check.

## ApiHandlers, ApiSession

`ApiHandlers.tla` gives for each request - target, method and whether the body
is what the handler wants - the outcomes of its handler: the responses it
sends, in order, and whether it returns, throws or ends the program. Validators
send their own response and say whether the handler goes on; some send one and
let it go on. What a handler changes belongs to the module of the component it
calls.

`ApiSession.tla` runs them: `Accept`, a read (`OnReadHere` for files and CORS,
answered on the session; `OnReadApi` for the rest, queued on `api_strand`),
`Begin` and `Handle` on the strand, the writes, the next read or the close. `reads`
and `writes` count the operations pending on a connection. When a handler
answers twice there are two writes at once, and after them two reads; what two
operations on one stream do is undefined, and the model reads no further on
such a connection. An exception on the strand ends the program or is caught, as
in `IrcClient`. A connection for which nothing is pending is never read again.

`RequestResponse.tla` is what a browser counts on: it asks, is answered once,
and may ask again.

Run `session`: two connections, three requests out of nine that cover the kinds
of end a handler has - answered by the handler, by the validator, by CORS, from
the files, not at all, by an exception, by the end of the program - but none
that is answered twice. `SentOnce` names these by target, method and body, and
`MCApiSession` asserts that the nine are among them (`AskedOnce`) and that the
names are right for every request (`OnceIsOnce`). The program may end together
with an answer. Two connections make two
handlers meet on the strand, three requests a second one on a connection while
the other waits. It checks `TypeOK`, `WriteIsAlone`, `OneHandler`, `OneOperation`,
`RequestResponseSpec` and, under weak fairness of the strand, the handlers and the
writes, `EveryRequestAnswered`. A handler ends because the user closes its
dialog; nothing is assumed of the browser. `CHECK_DEADLOCK FALSE`: browsers leave.

Beside the documents: `README.md:305` and its neighbours promise `ok` or `error`.
Load, save, the file size limit, the removal of duplicates and the resource send
an error and then OK (`api_request_handler.h:219`), `HandleMesureSpeed` may send
nothing (line 335), and a setter that throws is answered by nobody (line 282).

## OsuFileManager

`OsuFileManager.tla` models `RemoveDuplicates` as two walks over the folder, one
name at a time: `Collect` keeps the shortest path of each id, `Remove` removes what
is longer. Each step may end the removal with an exception: a name without a
number, a file that is in use, a folder that is removed in part. Downloads open,
fill and leave files in between; a walk may or may not come to a name that is
new. A name is its id, its length and whether it is a folder; a content is
absent, a part or whole.

Run `duplicates`: three names of one map, two of one length and one of these a
folder, one name of another map, one of none, two downloads, every content at
the start. Two equal lengths and a longer one are the three ways a comparison
ends. It checks `OnlyShortestLeft`, `OddNameRemovesNothing` and `IdsKept`. A space
in the path of the folder (`RootHasSpace`) makes every name odd; the run has
none, the proof covers both. Deadlock is checked: a removal can always begin.

Beside the documents: "clean up all duplicates" (`README.md:128`) leaves
duplicates of equal length (`osu_file_manager.cpp:61`), and the shortest path is
kept though it may be the part of an interrupted download, whose whole copy is
removed (line 49). `OnlyShortestLeft` says one length, not one name, and
`IdsKept` counts names, not whole maps.

## Settings

`Settings.tla` models `SaveSettings` and `LoadSettings` key by key, at the start in
`main` and by the web API, with changes and restarts between. A file gives each
key a value, none, or one of another type; one that cannot be parsed, an empty
one too, is logged and skipped. A list in it goes through the null mode of
`ChatBot` and ends the program; an exception ends it in `main` and not on the
API. A join stands for the list of channels and may throw.

Run `settings`: files with up to one list, join or timeout, one plain key and a
resource with its prefix, each present, absent or of another type; one change
and two loads. Two loads are a start and a reload, or a start and a restart.
`LoadTakesFile` relates what the program has to the file and to what it had
before, `ResourceHasItsPrefix` that server and prefix stay together.
`CHECK_DEADLOCK FALSE`: the loads run out.

Beside the documents: `POST /api/settings/save` (`README.md:308-311`) never stores
anything, because `SaveSettings` asks for the lists through the null mode before it
opens the file (`core.cpp:108`). `Save` has no other outcome.

## Proofs

All theorems hold for every value of the constants that satisfies the
assumption named in the module (`DownloaderAssumption`, `HttpDownloadAssumption`,
`IrcClientAssumption`, `ChatBotAssumption`, `ApiSessionAssumption`,
`OsuFileManagerAssumption`, `SettingsAssumption`, `MessageStreamAssumption`,
`MessageGrammarAssumption`). Two theorems of `ApiSessionProofs` and one of
`SettingsProofs` name a further hypothesis, `AllOnce` and `OwnPrefix`, which the
runs' constants satisfy.

**`DownloaderProofs.tla`** proves the inductive invariant `IInv` and from it
`TypeCorrect`, `DownloadsOpenOneByOne` and `CrashHasCause`. The three
invariants are not inductive by themselves. `TypeOK` needs that what a worker
or an exchange carries fits its point: a file where it downloads, a host where
it connects (`ThreadsKnown`, `SessionsKnown`), and that every slot was one of
its buffer (`KnownSlot`), whose length is tied to the generation
(`VectorLength`), because `Rate` writes through it. A slot may also wait in the
strand's queue (`QueueKnown`). `CrashNeedsCause` needs that
while no directory is set and no map was asked for without one, no map is on its
way to a client (`NothingAsked`, `FolderKept`), and that a client of a download
without a directory has a request of that kind as its cause (`SessionsKnown`).
`OpensInsideStrand` is disturbed by every action that gives the strand away:
a worker leaves only the strand it holds, and one that enters found it free.
`IInvStep` has one lemma per action.

`NoFileForgotten` and `ImplementsRequestBook` stand on top of `IInv`. The
argument looks at each step's effect on `Pending`: a request and an insertion
move a file between its two halves, `Redownload` moves one back, `DownloadOk`
alone removes one, and all others leave both halves. `OpenOk` and `DownloadOk`
need `IInv` to know that a session's file is a file.

`BestIsSelected` is `MesurementSelectsBest` for any number of servers,
measurements and workers. Speeds change in one place, where `MesureOk` rates a
slot and sorts the vector; a reset of the statuses and a server that does not
answer leave every recorded speed, a `push_back` adds a server without one. The
last server of a sorted vector has the highest speed (`LastIsFastest`), and it is
the one that becomes the resource.

**`HttpDownloadProofs.tla`** proves `TypeCorrect`, `SlowIsNotStalled` and
`ImplementsHttpExchange`. `StreakKnown` is the strengthening of the second:
while nothing new came since the last tick, the streak is at most the number
of quiet ticks, so a full streak means `StallTicks` of them. The third needs
`AnswerKnown` (the handler runs in one place of the exchange) and `TimerKnown`
(the timer outlives only an exchange that was answered), so that a late tick
is never a crash in place of an answer.

**`IrcClientProofs.tla`** proves `TypeCorrect`, `ListedIsJoined`, `ReaderIsAlone`,
`PongsFindConnection`, `CrashHasCause` and `ImplementsChannelMembership`. `Placed` says
that one party at a time is busy with getting a connection to read from: the
reader, the `Reconnect` it dispatched, the wait, or one handler before its own
read; the handlers behind that, of which there may be any number, are not counted.
`ReaderIsAlone` follows from it. `Buffered` says that the buffer holds every listed
channel and those of a `Join` under way, which is why `Join()` after a reconnect
restores them; `Present` extends `JoinedOnServer` to states in which a second
recovery has already been dispatched. `Ordered` and `Updated` are about the queue of
the strand: nothing but PONGs waits behind a `Reconnect`, an `UpdateConnection` that
waits is of the connection that stands, and each PONG is either of a connection
the message handler knows or has that `UpdateConnection` before it; hence
`PongsFindConnection`. `Appended`, `Popped` and `Headed` say what the operations of the
strand do to the positions. `Fresh` covers the time before `Start`. The crash theorem
is an action property; what it needs is the last part of `TypeOK`: while the timer
waits or its handler connects, the new connection is not connected, so a failed
connect ends the program only without one.

**`ChatBotProofs.tla`** proves `TypeCorrect` and `RequestsAreBacked`. `OneRun` says
that a message has one run of the mode at most, in a task, on a worker or past,
so that a run makes one request;
`SeenIsReceived` and `ExecutingIsAccepted` that whatever a view shows was a message
of the chat, and that the executor runs in the run of an accepted one.
`FollowedLink` is the fact about the link: at most one, the first.

**`ApiSessionProofs.tla`** proves `TypeCorrect`, `HandlersExcludeEachOther` and
`WriteFindsStreamIdle` for any requests, those with two answers or none too.
`TypeOK` holds that the queue has each waiting connection once, `Alone` that a
connection that waits or is handled has nothing pending. `OutcomesType` and the
lemmas before it show for each handler that its outcomes are what `Handle`
expects. `SentOnceIsOnce` goes through the handlers once more: where `SentOnce`
holds of a request, each of its outcomes sends one response at most. With such
requests alone (`AllOnce`) `OneAtATime` proves `OneOperation`, whose inductive form
also says at which stage which operation is pending, and
`ImplementsRequestResponse` maps every step to a step of `RequestResponse` or to
none. Without `AllOnce` both are false: load, save and the setters send twice.

**`MessageStreamProofs.tla`** first proves what the loop over a chunk computes.
TLC evaluates such a loop; here `RoundsExist` shows, by an induction over the rounds
(`NatInd`, from the well-foundedness of `<`), that a function with its equations
exists, and `ChunkLines` that after `k` bytes it has found the lines among them
(`LinesTo`). `ChunkStream` joins a chunk to the bytes read before it, with `Ends`
shifted behind them and the CR LF that the cut goes through left out
(`CutsMarked`); so `LinesAreRead`. `BatchesApart` says that the batches part the
messages between them, that a batch is handled in order and that what is before
`next` is settled; with it `OthersAreAnswered` and `HandledOnce`.

The rest of the module proves the grammar for all words, badges and lists. Where a
line is what `Raw` composes,

* its tokens are its parts: a word behind a space is one token more
  (`SplitWord`, `SplitMore`), by the same induction, and no part but the text
  has a space (`TagsWord`), so `SplitRaw`;
* the checks of `IdentifyMessageType` are a chain of optional answers, of which
  the first counts (`FirstAnswer`, `Identified`); with the tokens of each command
  (`HeaderTokens`) only its own check answers: `CommandAlwaysRead`;
* the tokens behind the fourth put together with a space are the text
  (`JoinedText`): `TextAlwaysWhole`;
* the loop over the tag token is followed part by part (`Reads`, `ReadsOn`): the
  start leaves the months under their own key, each badge of the list one more
  value under `badges` (`ReadsList`, an induction over the list), the name a key
  of its own, and the last pair nothing (`TagsAreRead`). The first badge with a role
  is the highest because the list is in that order (`HighestRole`):
  `SenderAlwaysRead`.

**`OsuFileManagerProofs.tla`** proves `TypeCorrect`, `ShortestStay`,
`OddNameStops` and `IdsAlwaysKept`. `KeptIsThere` says that the path kept for an
id is in the folder, since the second walk removes only longer ones;
`Collected` that the first walk has kept a path no longer than any it has come
to, of the names that were there at the beginning; `Removed` that the second one
has left none longer behind it. Downloads only add names, so they disturb none.

**`SettingsProofs.tla`** proves `TypeCorrect`, `LoadsTakeFile` and, for files that
name each server with its own prefix or leave one out (`OwnPrefix`),
`ServerKeepsPrefix`. `Progress` says of a load under way that the keys before the
one it has come to were taken from the file (`TakenUpTo`), that none of them was of
another type or a list, and that only a whole file is loaded; `Ended` says the same
of a load that is over, of all keys or those before the one that stopped it.

Every invariant that a run checks has its theorem, and so have the action
properties and the refinements. Only model-checked is liveness
(`LoneFileDelivered`, `MesurementShowsAvailable`, `StrandReleased`, `BodyAnswered`,
`LossRecovered`, `EveryMessageHandled`, `EveryRequestAnswered`): liveness under
fairness and `ENABLED` are beyond the prover. Induction is available over the
natural numbers only, in the form of `NatInd` for a set of numbers, since the
induction theorems of the library take an operator as a parameter; the inductions
over sequences above are inductions over their length.

## Not modelled

* Simultaneous accesses to one container without a lock (`downloader.cpp:200`)
  and two writes on one TLS stream (`connection.h:349`, where a PONG is also
  written twice): their effect is open in the language. The exception is the
  string of `ChatBot`, whose race is the subject there.
* Arithmetic: the speed in MiB/s (`http_client.h:317`), sizes and a negative
  limit in `settings.json`, the length of a JOIN command.
* Resolution, TLS and the retry inside a connect: a connect has its ends only.
* Formatting and data: requests, user agents, JSON, MIME types, decoding of URLs,
  names of files.
* `SetMaxFileSize`, `SetUserAgent` and accessors of Core that only pass a call on.
* Logging, the certificates loader (Windows), the WebSocket server (empty), the
  browser page, tests and helpers.
* Compositions: each module stands for its neighbours' view - `HttpExchange` for
  the downloader, `IrcClient`'s losses for `MessageStream`, `RequestMap` for the bot
  - but no module yet runs two of them side by side.
