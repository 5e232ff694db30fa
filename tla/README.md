# TLA+ verification of the XDLL task system

XDLL hands out *tasks* (advertising jobs) to clients. Clients ask for tasks over UDP; a
task server answers with the tasks that suit the client and counts every hand-out; each
task has a number of hand-outs for the day and a *time curve* that says how many of
them may have been used up at which time of the day. This directory holds the TLA+
modules that model the program, the TLC configurations that check them on small
instances, and theorems about them that TLAPS checks for all values of the constants.

Everything below is about the code under `src/`; `PROJECT.json` maps each definition to
the lines it stands for.

Contents: 1 the system · 2 the modules · 3 the runs · 4 fairness · 5 the proofs ·
6 disagreements found · 7 what is not modelled · 8 plan · 9 running it.

## 1. The system

```
   Task.txt, curves, blacks.txt            console (main thread)
              |                                  |  commands are posted to the service
              v                                  v
  clients --UDP--> TipsServer (one io_service thread) --UDP--> clients
     ^                    ^
     |HTTP                |UDP
     +---- xdllhttpserver +          base/synacast/asio: timers, sockets, runner
```

| Component | State it keeps | Operations | Hard behaviour | What makes it correct |
|---|---|---|---|---|
| **Task server** `xdll/server` (`TipsServer`, `Task`) | task table (count, start, limit, parameters, regions per guid), black list, last second of the day, modification time of Task.txt, packet counters, outstanding receives | timer tick each second, packet, failed receive, console commands, start, stop | reload of Task.txt in the middle of the traffic; midnight seen by comparing two seconds of the day; a crash loses the counts; ticks come late; stop on another thread | hand-outs of a day never run ahead of the curve; midnight is found exactly; reloads keep progress; counters agree; edits are picked up |
| **Time curve** `TimeControl`, `Task::GetNowLimit` | weights of the slots, their sum, running totals per slot | load a file, spread a day's count, read the limit of a second | three integer divisions, an `int` product, lines that are no numbers | limits never fall, never exceed the day's count, end at it, stay near the exact curve |
| **asio timers** `base/synacast/asio/timer.cpp` | `m_started` (twice), `m_detached`, `m_times`; the waits and queued handlers in boost | Start, Stop, destroy; expiry, handler, callback | no lock; a queued handler survives a cancel; Stop on another thread than the handlers; Start and Stop inside the callback | assertions hold; a stopped timer is silent; the tick count is right; a started timer ticks |
| **asio packet sockets** `base/synacast/asio` (`PeerClientSocket`, `TCPClientSocket`) | open and closed flags, send queue, receive flag, connect timer; the operations outstanding in boost | create, connect, send, receive, close, destroy; a handler for each completion | completion and timeout of one connect; close with a write in flight; a failed write with a queue behind it | every Connect is answered; packets go out and come in whole and in order; the queue does not stand still |
| **Service runner, log service** `base/synacast/asio` | a thread; a file | start, stop; write a line | stop while handlers re-arm | the service ends |
| **HTTP gateway** `xdll/xdllhttpserver` | connections, order number and old sequence id per connection, 40 shared receives, clear timer; the state of the request parser | accept, parse, forward to UDP, answer, clear each second, stop | packets that overwrite each other in the shared buffer; late and repeated answers; a wrapping tick count; stop while receives re-arm; folded and repeated header fields, lengths at the limit | an answer goes to the connection that asked; no connection and no receive is lost; silent connections are cleared, and not early; a head ends where the grammar ends it, a body has its declared length and fits its array |
| **Client** `xdll/client` (`TipsClient`, `RunningTask`) | download phase, four timers, the two kinds of request, page queue, visited groups; the tasks and messages posted between two threads | app timer, answer, redirect, receive timer, page timer, run a task, stop | UDP answer racing the timeout and the HTTP fallback; answers to an earlier request; redirect inside the receive handler; stop with tasks posted | every wait ends and the client never stops asking; a page that waits gets its turn; a group that was visited is reported |
| **Statistic server** | counters by packet type | packet, tick | none | – |
| **ppl, packet formats, IP table** | locks, queues, wrappers; no state; a constant table | | | |
| **Browser windows, hooks, monitor, updaters, tools, vendored code** | | | | |

Interactions. The server's handlers, its timer and (by `io_service::post`) its console
commands all run on the one thread of the `IOServiceRunner`; only `Start`, `Stop` and
the end of the process run on the main thread. The gateway and the clients reach the
server only through UDP packets, which may be lost. Server and operator share the files
Task.txt and blacks.txt.

The hazards of this code that weigh most are listed in `PROJECT.json` with their lines and
with the properties that watch them, or the reason why none does; others that were met, with
the disagreements, in section 6.

## 2. The modules

| Module | What it is | Code |
|---|---|---|
| `DailyPacing` | abstract specification: what the server promises about a day | – |
| `TipsServer` | the task server | `TipsServer.cpp`, `Task.cpp`, `xdllserver.cpp` |
| `TipsPacing` | `TipsServer` with the curve of each task fixed; `PacingInv`; refinement of `DailyPacing` | – |
| `TaskCurve` | one curve: load, spread, read off | `TimeControl.cpp`, `Task.cpp:45-65` |
| `AsioTimer` | once and periodic timer, statement by statement | `asio/timer.cpp` |
| `HttpGateway` | the HTTP gateway: connections, shared receives, clearing timer, stop | `xdllhttpserver`: `Server.cpp`, `connection_manager.cpp`, `connection.cpp` |
| `RequestGrammar` | what a request is: characters, lines, fields, the declared length | grammar in `request_parser.cpp:318-345`, `lexical_cast` |
| `RequestParser` | the gateway's parser, one byte a step, shown against `RequestGrammar` | `request_parser.cpp`, `request.hpp` |
| `TipsClient` | the client's message thread and task thread | `TipsClient.cpp`, `RunningTask.cpp` |
| `PeerSocket` | a packet socket: connect with timeout, send queue, framed receive | `PeerClientSocket.cpp`, `socket.cpp`, `socketimpl.h` |
| `MCTipsPacing`, `MCTipsReload`, `MCTaskCurve`, `MCAsioTimer`, `MCHttpGateway`, `MCRequestParser`, `MCTipsClient`, `MCPeerSocket` | instances for TLC | – |
| `TipsServer_proofs`, `TipsPacing_proofs`, `TaskCurve_proofs`, `AsioTimer_proofs`, `HttpGateway_proofs`, `RequestParser_proofs`, `TipsClient_proofs`, `PeerSocket_proofs` | theorems | – |

How they fit together: `TipsServer` takes the curves as a constant `Limit[c][s]` with the
assumption that they start at or above zero and never fall (`CurveAssumption`);
`TaskCurve` models the code that computes them, and its property `NeverFalls` is that
assumption, with the one exception of an overflow in the first slot (section 6).
`TipsServer` takes the timer as a number of expirations that wait to be handled (`due`);
`AsioTimer` models the timer, with the moments at which `TipsServer::Stop` on the main
thread meets a handler on the io thread, which `TipsServer` leaves out by making `Stop`
one step. `HttpGateway` takes the parser by its three results; `RequestParser` models the
parser over bytes, and shows which result comes when. `PeerSocket` takes the connect timer
in three fields, with what `AsioTimer` shows of a once timer on the io thread. `TipsClient`
is the other end of the server's packets: it takes the server and the network as answers
that may come, be lost, and come late (its `fresh` and `stale`).

### TipsServer

State: `taskMap` is `m_taskMap` as a function from the guids in the table to records of
the parameters, the two region lists and `DayDispedMTUCount` (`count`),
`DayStartMTULimit` (`start`), `DayNowMTULimit` (`limit`); `lastSecondOfDay`,
`lastModifyTime`, `blackIpSegs`, `times` (the timer's count modulo `TaskFilePeriod`),
`stat` (the seven counters) and `posted` are the members of the same meaning. `phase` is
the process. `clock` counts seconds from a midnight; `Second(clock)` is what
`TimeUtils::GetSecondOfDay` returns. `file`, `fileTime`, `blackFile` are the disk.
`dispatched` and `lastTick` are history variables: hand-outs of the day whatever
happens to the table, and the clock at the last full tick.

One action per handler: `OnAppTimer` is the whole tick (the look at Task.txt every
`TaskFilePeriod` ticks with its early return, the reload, the midnight test with
`OnDayTimer`, and the new limits); `HandleRequest` is the whole packet handler with every
filter, the choice of at most `TaskCountEachUser` tasks in guid order, and the re-posted
receive before it. The draw against `TaskGroupRate` is nondeterministic (`lucky`). A line
of Task.txt is a guid with parameters, or one that `UpdateFromString` rejects. The
regions and the probability window are modelled by what they decide (`InRegion`,
`InWindow`). `Start` includes the constructor; `Crash` may come at any time the process
is up; a `Start` that cannot open its port is a `Start` and a `Crash`.

### TaskCurve

`phase` "load" is the loop of `TimeControl::Load`, one action per line, "make" the loop
of `MakeValue`, one action per slot, "day" the day, over which `GetNowLimit` is read at
every second. `AsInt` is the wrap of the `int` product `y * DayLimitedValues[0]`
(`Task.cpp:54`); the other slots calculate in double, which is exact for these sizes,
and round towards zero (`Quotient`).

### AsioTimer

`upc` and `ipc` are program counters of the owner's call and of the io thread, one action
per statement that reads or writes a flag. `shared` says whether the owner is on another
thread. If not, the owner calls only between handlers or from inside the listener
(`OwnerMayRun`), and the io thread waits for the call to end (`IoMayRun`). A timer owned
from another thread is not destroyed in the model: in this code those are members of
objects that outlive the service. boost's deadline timer is external: `Cancel` (also in
`expires_at` and `expires_from_now`) ends the waits that have not expired with an error,
and does not touch a handler that is queued; `Expire` may happen at any time after a wait
was posted. A failing `assert` does nothing, as in a release build; the properties say
whether it fails. `waits` counts the waits that have not ended; `ready` are the handlers
that are queued, each with its result: boost does not tell which call of Start a handler
belongs to, and so neither does the model. `stopped`, `late`, `calls` and `promised` are
history.

### HttpGateway

`conn` is the sequence of all connections, the index being `order_`; `connections` is the
key set of `connections_`. A record keeps the socket (`open`, a `reading` and a number of
`writes` outstanding), the client's sequence id (`seq`), `old_sequence_id`,
`send_udp_tick` and the `body` of the reply, which is `NoPacket` for a reply of the gateway's
own. Of a packet the four bytes at offset 3 matter (`seq`), which hold the number on the
way to the server and back and the client's sequence id otherwise, and which of the server's
packets it is (`no`), since two answers to one request differ. `asked` and `start` of a
connection, `from` and `alone` of a packet are history.

All handlers run on the one thread that calls `io_service::run`, so each is one action,
with one exception. The receives (`posted`) share one buffer `data`, into which the system
writes whenever a packet arrives (`Arrive`), while earlier completions wait in `done` and
even while a handler runs. A packet of less than eight bytes, which the handler takes for a
failure, has been written into the buffer as well and leaves any number there
(`ArriveShort`); a receive that fails without a byte leaves the buffer alone
(`ReceiveFails`). `handle_receive_from` is therefore two actions: `HandleReceive`
up to the search in `connections_`, `Answer` from there on, with all three possible between
them. A packet that arrives between the exchange of the
number and the copy of the body, or in the middle of the copy, is not a case of its own:
`Arrive` and `ArriveShort` before the handler's second half stand for it.
A packet is `alone` if it was written over none that had not been dealt with and was not
written over, in whole or in part, itself; `RightAnswer` speaks of those. It thus says that
the harm of the shared buffer ends with the packets that met in it, and nothing of them.

The parser is modelled by its three results (module `RequestParser` has it byte by byte).
The clock
counts seconds; `TickWidth` stands for the 2^32 milliseconds of `GetTickCount`. The socket
is closed by `StopConn`, `HandleStop` and `HandleElapsed`; operations on it end some time
later with `operation_aborted` (`ReadAborted`, `WriteAborted`) or had ended with another
result before.

### RequestGrammar, RequestParser

One step is one call of `consume`. `state` is `state_`, by the code's names; states that
expect one literal byte are one action with a table (`Literal`). `headers`, `length` and
`body` are what the parser leaves in `req`; method, address and version are read by nobody
and left out. `HeadEnd` is the last byte of the head with `parse_header` and the look at the
length. A value with no leading space is taken by the state after (`SpaceBeforeValue`), as
the code does by calling itself. `lexical_cast` is external (`IsInt`, `IntOf`); where it
throws, the result is "thrown", since nothing between it and `main` catches the exception.

`RequestGrammar` is not another parser: it says by quantifiers over a whole sequence of
bytes what a line, a field, a continuation and a head are (`IsHead`), which lines are fields
named Content-Length (`LengthLines`), and what the first of them declares with the lines that
continue it (`ValueUpTo`, `LengthText`). `HeadsByGrammar` and `BodyByLength` compare the two
on every prefix of every input; `BodyByLength` leaves out lengths that are no `int` (section 6).

### TipsClient

One action per handler of the message thread: `OnAppTimer` (with the choice of the request,
the ages, the day timer and its own restart), `OnReceiveTimer`, `OnTimeoutTimer`,
`OnSocketReceive` with everything a parsed answer can lead to (`OnResponseReceive`,
`DoTask`, `DoConfig`, `DoMultiHopTask`), `OnRedirect`, and `RunMessage` for a message that
the task thread has posted. `TakeTask` and `EndTask` are the task thread; `Stop`, `JoinTasks`
and `JoinMessages` the main thread, with the two seconds after which a thread is killed.

`WM_TIMER` comes only when no posted message waits (`TimerTurn`); messages are handled in
the order they were posted, `WM_QUIT` among them. A task is known by the thread that runs it:
"task" on the task thread, "hop" as a page in the client's browser, one at a time, the rest
counted in `urlInfos`. The kinds of tasks differ in what they do with their group: most insert
it in `VisitedGroups` and are posted to the task thread ("task"), one kind runs at once ("iut"),
an update has no group and inserts none, a page ("hop") is dropped before its group is inserted
or after it, or queued. `DoConfig` inserts the configuration's group before the file is
fetched; what the .ini file names goes through `DoTask` with the same group or none, and the
page of an .xml file goes to `DoMultiHopTask` at once, as does that of a simulation. The history
`begun` is kept apart from the insertions, where something is posted, run or queued
(`Begins`), so that `VisitedReported` compares the two over all these ways. What a task downloads or shows is left out; any "task" may bring a
page to visit back, which is more than the code does. `fresh` and `stale` count the answers on
their way to the last request and to earlier ones; a redirect's answer is one to the new
request. Time passes at the ticks of `OnAppTimer`: each kind of request has an `age` that is
counted up to `MaxAge`, and the day's age; the wrap of `GetTickCount` after 49 days and of
`DelayTime * 1000` are left out. `OnTaskComplete` and `OnDataReceive` have no callers; a
page ends only by its timer. `answered`, `redirected` and `begun` are history.

### PeerSocket

The state is that of one `PeerClientSocket` through several lives: `open` and `alive`
(`~m_closed`), `sendQueue`, `receiving`, the connect `timer`, and what boost has outstanding
or ready for it: `connect`, `writes`, `reads`, each with its result, handled in any order.
`posted` are the sends that were handed to the io thread. `Close` is one step and aborts
what is pending; `Create` opens a new socket; both may come between any completion and its
handler, except that `Create` waits until nothing of the old socket is left (`Drained`) and
`Destroy` until no send is posted: the code does neither check, and what happens without is
listed as a hazard. The handlers' calls of the listener come last, so that what an owner
does inside one is a step that follows. On the wire a packet's length and its body are one
unit each (`Packet \X {1, 2}`); bytes do not matter, but which write a unit is of does.
Operations on a socket without connection fail (`Started`). `failed`, `delivered`,
`dialling` and `first` are history.

## 3. The runs

| Run | Module, cfg | Asks | Bounds |
|---|---|---|---|
| `pacing` | `MCTipsPacing` | `PacingInv`, `DPSpec`, `CountersAgree`, `LagBounded`, `DayRollExact`, `ReloadKeepsProgress`, `TypeOK` | three tasks of which a request gets two, days of 3 seconds and part of the next day, 3 packets, 1 edit, lag of one tick; 1,070,000 states |
| `reload` | `MCTipsReload` | `EditIsPickedUp`, `MidnightIsNoticed` under `FairSpec` | no packets, 2 edits, Task.txt may vanish; 83,000 states |
| `curve` | `MCTaskCurve` | `NeverFalls`, `DayCountReached`, `CloseToCurve`, `NumbersFillSlots`, `TypeOK` | 3 slots of 4 seconds, all 341 files of up to 4 lines, counts up to the overflow; 28,000 states |
| `timer` | `MCAsioTimer` | `AssertsHold`, `AtMostOneLateCall`, `TimesCountsCalls`, `StartedTimerCalls`, `TypeOK` | both kinds, both ways of sharing, 3 handlers before a Start, counts modulo 3; 87,000 states |
| `gateway` | `MCHttpGateway` | `ManagedIsOpen`, `ReceivesKept`, `RightAnswer`, `ClearedInTime`, `NotClearedEarly`, `TypeOK` | 2 connections, 2 receives, 3 packets, short packets or failures, 5 seconds up to a wrap of the tick count, 5 packets and seconds together (`MaxTotal`), timer at most 1 s late; 4,330,000 states |
| `client` | `MCTipsClient` | `TimerFollowsWait`, `QueueServed`, `VisitedReported`, `FallbackOnlyUnanswered`, `KeepsAsking`, `PagesGetTheirTurn`, `TypeOK` under `FairSpec` | 1 group, delays of 1 and 2 ticks, 2 answers to a request and 1 late one, 2 pages, 1 posted task and 1 message; 247,000 states |
| `parser` | `MCRequestParser` | `HeadsByGrammar`, `BodyByLength`, `TypeOK` | 15 well-formed requests and every input one byte away from one; a body of at most 2; 152,000 states |
| `socket` | `MCPeerSocket` | `PacketsInOrder`, `QueueMoves`, `ConnectAnswered`, `TypeOK` under `FairSpec` | 3 sends, 2 sockets, 2 expirations, peers that send 2 packets; 643,000 states |
| `strict` | `MCTipsReload` | `StrictControl` is violated | |
| `gateway_reply` | `MCHttpGateway` | `ReplyUnchanged` is violated | 1 connection, which is answered twice |
| `gateway_stop` | `MCHttpGateway` | `RunExits` is violated, under `FairSpec` | 1 connection, 1 packet |
| `client_redirect` | `MCTipsClient` | `WaitIsTimed` is violated | |

Why the bounds are enough. *pacing*: three tasks, so that the cut at
`TaskCountEachUser` (two) matters and a request can count several at their limit; curves with zero, flat and rising seconds; a day has three
seconds so that "start of the day", "middle" and "end" differ, and the clock reaches the
second day, so that midnight, a tick that is late over midnight and a reload at midnight
all happen; the second file drops a task by a line that cannot be parsed and adds one
under another description. Three packets suffice to fill a task's quota, try once more,
and try again after a reload or restart. *reload*: a period of two ticks lets Task.txt
vanish at a tick that looks and at one that does not; two edits let the file vanish and
come back with another time. *curve*: three slots are the first (its own formula), a
middle one and the last. *timer*: three handlers are a cancelled one, an expired one
that is queued and a live one at the same time; modulo 3 a count that is off by one or
two shows. *gateway*: two connections are the one that asked and the one that must not get
its answer; two receives fill the buffer while a packet is still to be handled, and three
completions are a packet, one that meets it, short or whole, and one that has the buffer for
itself afterwards; the sequence id 2 is also the number of the second
connection, so that a number and an id can be mistaken for each other; the start at second 2
with a width of 7 leaves time for a connection that has asked to exceed its time before the
wrap, and reaches the wrap. *gateway_reply*: with one connection and no misdirected number the
two answers are those of one request. *client*: delays of one and two
ticks let both kinds of request be due alone and together; two answers and a late one are
enough for an answer that crosses a timeout, a second answer after the wait has ended, and one
of an earlier request; two pages fill the queue; a day of one tick lets the day timer fall
between a task and the next request. *parser*: the parser has one state for each place of
a request, and a change of one byte brings each state each kind of byte: control
characters, separators, digits, letters, codes below 0 and above 127; the well-formed
requests have no, one, two and folded fields, with lengths below, at and above the size
of the body, negative and zero. *socket*: three sends are one under way, one behind it and
one still posted; two sockets are one whose handlers outlive it and the next; a stream of two
packets is one that is delivered, and one that is cut by a failure or too long.

What a violation would look like is in the mutants of `PROJECT.json`: for every property
a changed definition (in the module beside the original, with a comment that starts with
"Mutant") under which the run finds the property violated.

Deadlock is not checked: the clock of the server's instances ends at `MaxClock`, a curve's
day ends, a destroyed timer with no handler left does nothing more, the gateway's clock,
connections and packets are bounded, a parser stops at the end of its input or a result, a
client that was stopped does nothing more, and a destroyed socket neither.

## 4. Fairness

`TipsServer!FairSpec`: the clock runs (`WF(ClockAdvance)`), the io_service thread handles
expirations (`WF(OnAppTimer)`; it is one loop, and no handler blocks). No
fairness for packets, console commands, edits, starts, stops or crashes: nobody has to do
those. `EditIsPickedUp` and `MidnightIsNoticed` are stated for states with enough of the
clock's range left, since the bound and not the code ends the clock.

`AsioTimer!FairSpec`: the io thread runs, a posted wait expires, and a call that has begun
goes on. The owner need never call. `StartedTimerCalls` is stated for an owner on the io
thread (see section 6 for another one).

`HttpGateway!FairSpec`, used only by `gateway_stop`: the io_service thread runs the handlers
of what has completed and outstanding reads and writes complete (`WF(IoStep)`), and the clock
goes on. Clients and the task server need do nothing.

`TipsClient!FairSpec`: the message loop runs what is posted and the task thread its tasks
(`WF`). A timer of the message thread goes off again and again while it is started, although
posted messages come before it (`SF(OnAppTimer)`, `SF(OnReceiveTimer)`, `SF(OnTimeoutTimer)`):
weak fairness would let messages that come and go keep it waiting for ever. The code justifies
the stronger form because messages come from tasks that take seconds, timers are counted in
minutes, and the loop's handling of a message is short. Nobody has to answer, redirect, change
what `CanTipsRun` looks at, or stop the client; `KeepsAsking` allows for a machine that again
and again forbids to ask, and for a redirect whose answer is lost (section 6).

`PeerSocket!FairSpec`: the connect timer expires and the io thread runs the handlers of the
timer and of `async_connect`. The network need do nothing: an attempt may hang for ever.

## 5. The proofs

TLAPS proves, for every value of the constants that satisfies the named assumptions:

| Theorem | Says | Rests on |
|---|---|---|
| `TypeCorrect` | `TypeOK` of the server | inductive by itself; the lemmas about `LoadedTable`, `ResetTable`, `AdjustedTable` |
| `CountersAlwaysAgree` | `CountersAgree` | inductive with `TypeOK` |
| `LagAlwaysBounded` | `LagBounded` | inductive with `TypeOK` |
| `DayRollsExactly` | `DayRollExact` | `TypeOK`, `LagBounded` and `ClockAssumption` |
| `ReloadsKeepProgress` | `ReloadKeepsProgress` | `TypeOK`, `LagBounded` |
| `PacingAlwaysHolds` | `PacingInv` | inductive with `TypeOK`, `LagBounded` |
| `ImplementsDailyPacing` | the server implements `DailyPacing` | `PacingInv` |
| `LimitNeverFalls` | `NeverFalls` of a curve, but for counts that overflow the first slot's product (`FirstSlotFits`), as in the two below | `CurveInv` |
| `AssertionsNeverFail` | `AssertsHold` of a timer | `TimerInv` |
| `LateCallsBounded` | `AtMostOneLateCall` | `TimerInv` |
| `HandlersBounded`, `TimesRight` | `TypeOK` and `TimesCountsCalls` of a timer | their own invariants beside `TimerInv` |
| `CurveTypes`, `CountReached`, `CurveFollowed` | `TypeOK`, `DayCountReached`, `CloseToCurve` of a curve | `CurveInv`, `Totals` |
| `NumbersAlwaysFill` | `NumbersFillSlots` of a curve | `Placed` (where the numbers read so far are), `CurveInv`, `Totals` |
| `GatewayTypes`, `NothingLeaks`, `NeverDeaf`, `RightClient` | `TypeOK`, `ManagedIsOpen`, `ReceivesKept`, `RightAnswer` of the gateway | `GatewayInv` |
| `SilenceEnds`, `ClientsGetTheirTime` | `ClearedInTime`, `NotClearedEarly` of the gateway | `GatewayInv`, `ClockInv` |
| `ParserStaysInBounds`, `CompleteMeansDeclared` | `TypeOK` of the parser; a request with a body is complete with its declared length | `ParserInv` |
| `HeadsAreTheGrammars` | `HeadsByGrammar` of the parser | `HeadInv`, `ParserInv` |
| `BodiesAreTheDeclared` | `BodyByLength` of the parser (lengths that are an `int`) | `DeclaredInv`, `HeadersInv`, `HeadInv` |
| `ClientTypes`, `WaitTimed`, `PagesServed`, `GroupsReported`, `FallbackLast` | `TypeOK`, `TimerFollowsWait`, `QueueServed`, `VisitedReported`, `FallbackOnlyUnanswered` of the client | `ClientInv` |
| `OneOfEach`, `OrderKept`, `QueueNeverStuck` | `TypeOK`, `PacketsInOrder`, `QueueMoves` of a socket | `SocketInv` |

The pacing argument. The promise is that the day's hand-outs stay under the curve
(`WithinQuota`), but the server compares `count` with `limit`, both relative to a `start`
that changes with reloads, restarts and console commands, and both may be those of a
former day between midnight and the tick that notices it. Two facts link them: a positive
limit is the quota of the last tick minus the start (`LimitIsCurrent`), and what was
handed out before the entry began to count fits under its start (`CountCovers`). The
second fails for a while after midnight, when the clock's day is no longer that of the
counts and an entry is created with the new day's start: its limit is then not positive
until the next tick, so the invariant claims it only while the day is the tick's or the
limit is positive. `LagBounded` with `ClockAssumption` (the timer lags less than a day)
says that the comparison of two seconds of the day finds each midnight.

The curve argument. `CurveInv` says that the slots filled so far are the running totals
times the day's count divided by the sum, hence rise; `LimitMonotone` reads off, slot by
slot and across the border of two slots, that interpolation keeps the order. `CloseToCurve`
compares with a sum over the slots, a recursive function. The loop of `MakeValue` is the
induction over it: `Totals` says that there
is a function of running totals, fixed when the file has been read, whose steps are the
weights (`Total`), and that the values filled so far are its values times the day's count
divided by the sum (`Weighed`). `Weight` has the same steps, so the two agree slot by slot.

The timer argument. `TimerInv` says, for each place of the two program counters, what the
flags can be. Its heart is `Late`: once the io thread is past its last test it calls
whatever the owner does, and from a stopped timer it cannot get there again; and
`OneThread`: without a second thread nothing of the owner's happens between the test and
the call.

The gateway argument. `ManagedIsOpen` and `ReceivesKept` are inductive with `TypeOK`.
`RightAnswer` needs to know what the buffer holds when `Answer` copies it: `BufferHolds`
says that as long as the packet in it is alone, at most one completion is a packet, and the
buffer holds it as it arrived, with the number of a connection that has asked, until it has
been handled; a packet that comes before that, short or not, ends its being alone; `SeqKept` says that such a connection has its client's own
sequence id in `old_sequence_id`. Most steps touch the fields of one connection
(`TouchPreserves`) or leave all answers alone (`QuietAnswers`). The clock and the bounds of
the model play no part there.

The clearing of connections needs them. `ClockInv` says that `send_udp_tick` is the tick count
of the request (zero before), and that there is a moment `l`, when the timer last looked, not
longer ago than its period and lag, at which every connection that is still held was either
not there, had not asked, or had a tick count that passed the test (`PassedAt`). The test
compares tick counts; `EpochSame` and `EpochOrder` carry it over to times as long as the
deadline lies in the epoch of now.

The parser argument has four steps. First, the array: the bound on the declared length is
tested once, and the index is never compared with the size of the array; `BodyFits` says that
the bytes so far are fewer than the declared length, or none, and that the length fits.

Second, where the head ends. The grammar is restated over places of the input (`HeadAt`,
`GoodLine`, `FieldAt` and so on, a part of the module of its own), so that no step cuts sequences.
`LineRead` says for each of the parser's states what it has read of the line it is in
(`ReadOf`): in state `uri`, a name, a space and text without a space. A byte leads to one of
three outcomes (`Outcome`): the line goes on and is what the next state has read; the line is
ended and is one the grammar allows there; or the parser refuses and the line is `Doomed`,
that is, however it goes on it is none of a head. `HeadInv` is inductive because of the third:
without it a refusal would say nothing about the bytes to come.

Third, what the headers hold. `HeadersInv` links them with the grammar's lines: there is one
header for each field, in order (`InOrder`), each with its field's name; every header but the
last has the value its field has at its last line, and the last has what the lines so far and
the part of the present line make of it (`ValueRead`). The value of a field is a recursive
function over its lines (`ValueUpTo`); the proof uses any function with those steps
(`ValuesOf`, `Valued`) and shows at the end of the head that there is only one
(`ValuesAreValues`).

Fourth, the length. At the last byte of the head the first header of the name is the first
field of the name (`HeadersAreMeant`), so the text that is converted is the grammar's;
`DeclaredInv` carries what it declared, or the result it has settled, over the body.

The client argument. `ClientInv` has the groups (`Doing`: each way of beginning a task,
`Post`, `Visit` and `RunHere`, meets an insertion of its group or has none, `InsertTypes`), the wait (`Waiting`: the timer runs only during a wait
that nobody has answered), the pages (`Served`: pages wait only while one is open and timed)
and the threads. `FallbackLast` follows since only `OnReceiveTimer` posts the fallback, and
the timer runs only before an answer.

The socket argument. The packets have numbers, and one quantity links queue and wire:
`Before`, the number of packets that have left the queue. What is posted and queued are the
numbers after it, in order (`QueueOrder`); the write under way is that of the packet just
after it (`WriteInv`); what is on the wire has a number up to it, or is the part of the write
under way that is out (`OnWire`). A failed write leaves a gap and nothing is written after it
until the queue is emptied, so the order stays.

Assumptions: `ClockAssumption` and `CurveAssumption` (above), `HomeCurveAssumption` (edits
of Task.txt leave the curve of a task alone; without it no source says what the limit
should be), the shapes of files and requests, natural sizes, `WeightAssumption` (weights
and counts are not negative).

Further: `ClientAssumption`, `ParserAssumption`, `GrammarAssumption`, `SocketAssumption` and
`GatewayAssumption` say that bounds and delays are natural numbers, that the first delays, the
body's array and the largest int are at least one, that inputs and the name Content-Length are
sequences of bytes, and that the tick count is wider than the time a connection has.

Every invariant and every action property of the passing runs has a theorem, and so has the
refinement. Only model-checked are the liveness properties (`EditIsPickedUp`,
`MidnightIsNoticed`, `StartedTimerCalls`, `KeepsAsking`, `PagesGetTheirTurn`,
`ConnectAnswered`), since the proof system has no rules for fairness, and the four violations.

Where a proof needs induction over data, and the library's induction theorems cannot be used
since they take an operator, it takes the least counterexample: `NatLessThanWellFounded` and
`WFMin` give the least number of a set of naturals that is not empty (`LeastNatural`), which is
how `ValuesAreValues` and the places of the lines are shown.
`NumbersFillSlots` says without recursion that the values are the numbers among the lines, by
counting the numbers before each line.

## 6. Disagreements between code and its own words

* `Task.h:23` promises strict control of the daily limit; the console command `request`
  counts a task that has reached it (`TipsServer.cpp:674`). Run `strict`.
* `reply.hpp:57` says that a reply must not change until it is written; a second answer of the
  task server rewrites it (`connection_manager.cpp:123`). Run `gateway_reply`.
* `Server.cpp:71` says that `run` exits when all operations have finished after a stop; the
  cancelled receives are posted again (`connection_manager.cpp:132`). Run `gateway_stop`.
* `TipsClient.cpp:1137` starts the receive timer for the answer to a redirected request; this
  happens inside `OnSocketReceive`, which stops the timer before it returns (`:794`). If that
  answer is lost the client waits for good and never asks again. Run `client_redirect`;
  `TimerFollowsWait` and `KeepsAsking` hold but for this wait.

Seen while modelling, without a run: `Task.cpp:54` multiplies in `int` and overflows when
the first slot's value exceeds 2^31/599; a reload that changes a task's curve leaves
`DayStartMTULimit` at the old curve's value; a clock set back looks like midnight;
`m_taskTxtLastModifyTime` is not initialised; `TipsServer.cpp:516` reports a repeated guid in
Task.txt as an error after the line has replaced the first one (`:509`); `timer.cpp:230`
asserts that a ticking periodic timer is started, and `TipsServer::Stop` on the main thread
can stop it just before; `timer.h:56` says that Stop cancels a timer, but an expiration that
is already queued fires the timer's next Start at once; `TimerImpl::AsyncWait` sets `m_started` after
the wait was posted, so a Start on another thread than the service's can lose its only
wait; the gateway does not accept again after a failed accept, and clears a connection whose
request is still being read at the next second; a Content-Length that is no `int` ends the
whole gateway by an exception, where `request_parser.hpp:33` promises false for invalid data (the
model's result "thrown", of which `BodyByLength` claims nothing);
`iptable.cpp` gives an address in a gap the region of the next segment, where the comment above
`Find` says that the fields are zero; a `Create` over a socket whose aborted handlers have not
run hands them the new socket's queue (`socket.cpp:210` asserts otherwise); a send that is
posted holds a bare pointer to its socket (`socket.cpp:246`); the two answers to one request
are built in one buffer, which the first `async_send_to` may still read (`TipsServer.cpp:193`);
a reload with the address `*` keeps the regions a task had (`Task.cpp:627`); a redirect
starts the receive timer while that of the wait still runs, where the timer asserts that it does not
(`TimerWindow.cpp:97`), and nothing in the model tells such a start from another; the client's
fallback file has one name for both threads (`RunningTask.cpp:111`), and the task posted at its
start is lost if the task thread has no message queue yet (`TipsClient.cpp:674`).

## 7. What is not modelled, and why

* The bytes of packets, of answers and of Task.txt; logging; Status.txt and Show.txt, which
  are written and never read.
* The IP table: one lookup in a map (`lower_bound`) that is filled from a file once; the rest of
  the directory, most of the repository's lines, are generated tables. A request of `TipsServer`
  comes with its region.
* The log service, the statistic server: counters and a periodic write.
* The client's browser windows, clicks, hooks, cookies, registry, disk ids, COM, starting of other
  modules: calls into Windows whose effects are outside the program. `TipsClient` has the
  queue, the timers and the threads they run under.
* `TCPServerSocket` and the two HTTP client sockets: nothing in the repository uses them.
  `UDPSocket` passes each completion on; `TipsServer` and `TipsClient` take it from there.
* Packet formats and URL tools: pure functions over bytes without a state.
* `ppl`: wrappers of locks, threads and queues of the system; their behaviour is in the modules
  of those who use them (the posted queues of `TipsClient`).
* Monitor and zhuliu updaters, tools, demos, installer plug-ins, vendored XML and hook code.

For these reasons the modules cover a small share of the repository's lines, and nearly all of
the program's own control: server, curve, timer, gateway, parser, client and packet socket.

## 8. Plan

Done: `TipsServer` with `TipsPacing` and `DailyPacing`; `TaskCurve`; `AsioTimer`;
`HttpGateway`; `RequestParser`; `TipsClient`; `PeerSocket`; a proof of every safety and
action property of the passing runs.

Not planned: a composition of server, gateway and client over a lossy network. A task is
counted by the server when its answer is sent and nothing comes back, so what a lost packet
costs is one count, by construction; the gateway's answer is the server's packet, and the
client takes whatever comes. The composition would relate no more state than its parts do.

## 9. Running it

```
tlc -workers 2 -config MCTipsPacing.cfg MCTipsPacing
tlc -workers 2 -config MCTipsReload.cfg MCTipsReload      (also MCTipsStrict)
tlc -workers 2 -config MCTaskCurve.cfg MCTaskCurve
tlc -workers 2 -config MCAsioTimer.cfg MCAsioTimer
tlc -workers 2 -config MCHttpGateway.cfg MCHttpGateway    (also MCGatewayReply, MCGatewayStop)
tlc -workers 2 -config MCRequestParser.cfg MCRequestParser
tlc -workers 2 -config MCTipsClient.cfg MCTipsClient      (also MCClientRedirect)
tlc -workers 2 -config MCPeerSocket.cfg MCPeerSocket
tlapm TipsServer_proofs.tla                               (and the other *_proofs modules)
```
