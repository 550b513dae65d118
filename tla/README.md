# TSymbiote in TLA+

TSymbiote shows the state of a Tailscale network in a browser. An *adapter* runs
next to each `tailscaled` and answers requests about it over HTTP and websockets;
the *web UI* server finds the adapters, calls them on behalf of the browser and
merges their answers and streams; the *operator* deploys both on Kubernetes.
This directory models the parts of the program that are concurrent, checks them
with TLC on small instances and proves the most important properties with TLAPS
for every instance.

Line numbers are those of the source; paths are relative to the root of the repository.

## Inventory

| part | state | operations | what is hard | correct when |
|---|---|---|---|---|
| WebUI relay, `api/webui/tsymbiotewebui/websocket.go` | two channels, the map of living adapters, sockets, contexts | dial, read, merge, ping, announce a death, stop | 2n+2 goroutines, two channels with one receiver, ends on both sides | lines of a host arrive in order and once; nobody live is dropped; everything ends |
| Adapter sessions, `api/adapter/tsymbioteadapter/{logs,busevents}.go`, `api/adapter/internal/websocket.go` | a channel, `wsDeathCtx`, the socket | scan, hand over, write, read, stop | three goroutines that learn of the end in different ways | no line skipped or doubled; the socket is closed; the producer ends |
| Server lifecycle, `api/shared/tsymbiote/{server,websocket}.go` | connections, `WaitGroup`, one deadline | accept, upgrade, start a session, drain, log out | hijacked connections belong to neither drain; one deadline for three phases | bounded shutdown; a drain that succeeds cut nothing off |
| Middleware, `api/shared/tsymbiote/middleware.go` | none | check the method, upgrade | | |
| Host directory, `api/webui/client/client.go` with `peermap.go` | two `sync.Map`s, meant as inverses | store, delete, look up | two updates without a lock; deletes by requests that failed | the maps agree once nobody writes |
| Fan-out handlers, `passthrough.go`, `ping.go`, `querydns.go`, `goroutines.go`, `pprof.go` | a channel per target | call every target, collect | deadlines, error paths that go on | one answer per target; no goroutine left behind |
| Adapter handlers, `simple.go`, `ping.go`, `querydns.go`; known peers, `internal/knownpeers.go` | two maps of peers and addresses | store, look up | entries are never deleted | a name gives the peer's present address |
| Secrets controller, `operator/internal/controller/secrets` (and the pod webhook) | secrets, device keys | reconcile | stale cache, crash between key and secret | no key made in vain; no pod forgotten |
| TSymbiote controller, `operator/internal/controller/tsymbiote` | stateful set, status conditions | reconcile | a cache that lags behind edits, deletions and its own status updates; one step of several fails | what is called Available is there; the set follows the spec in the end |
| Socket discovery, `pkg/utils/socket_discovery.go` | none | walk `/proc`, retry | a file that appears late | a path or an error |
| Browser log stream, `web-ui/src/hooks/useWebSocketLogs.ts` | refs to a socket, a timer | start, cancel, callbacks | callbacks of a socket that was replaced | the stream shown is the last one asked for |
| Browser application, `web-ui/src/App.tsx`: commands | title, output, loading flag | asynchronous commands | answers out of order | the output shown is of the command shown |
| ... selections, with `hooks/useOnlineFilter.ts` | map, selected hosts and peers | toggles, reset, filters | effects that correct a selection after the fact | only listed peers are selected; the ping is of what is drawn, but for hosts nobody reports |
| ... outputs, with `hooks/useKeyboardShortcuts.ts`, `components/CommandOutputsPanel.tsx` | results, tab, dialogs | tabs, keys, views | the view and the data may be of different commands | a tab of this output, in a view that can show it |
| ... the panel's height, `hooks/usePanelResize.ts` | height, saved height | drag, minimise, restore | two copies of the code | it comes back as it was |

How they interact: the browser's stream hook opens a websocket to the web UI
(relay), which opens one websocket per host to an adapter (session), found
through the host directory, which every peer map request updates. Relay and
sessions are started through the `WebsocketManager` of the shared server, whose
context tells them of a shutdown. The operator creates the auth keys that both
kinds of server start with.

`PROJECT.json` lists every part with what is modelled of it, and every hazard
with its line.

## Plan

1. `RelaySession` (refines `FanIn`) - done
2. `AdapterSession` (refines `FanIn`, with one source) - done
3. `ServerLifecycle` - done
4. `HostDirectory` - done
5. `FanOut` (refines `Gather`) - done
6. `SecretsController` - done
7. `CommandConsole`: commands and streams of the page - done
8. `PeerSelection`: hosts, peers and the effects that keep them together - done
9. `ResultViews`, `OutputPanel`, `PanelHeight`: what the page shows of results - done
10. `BrowserPage`: the parts of the page side by side - done
11. `TSymbioteController`: the web UI's stateful set and its status (refines `Deployment`) - done
12. `Operator`: the two controllers side by side - done

Left out on reflection: socket discovery and known peers, which are sequences of calls
without interaction (see "Not modelled").

## Modules

### RelaySession and FanIn

`RelaySession` is one call of `RelativeWebsocket`. `phase` is the handler itself:
it dials each host (`Dial`, `DialFails`) and starts the goroutines (`Start`).
`reader[t]`, `client` and `writer` are the program counters of
`adapterWebsocketReader`, `clientWebsocketReader` and `clientWebsocketWriter`, with
one value per place where the goroutine can wait: the head of the loop, the blocking
read, the send on `msg`, the send on `dead`. `conn[t]` is the socket to a host: `open`,
`closing` once a close frame went out, `closed`, or `mute` once a write has failed on it,
after which gorilla refuses every frame, the close frame too, while reads go on. `msg` and `dead` are the two channels,
sequences bounded by the number of hosts. The ping goroutines of the writer's ticker
are counted per host (`pinging`, and `failing` for those about to send to `dead`).
A message is who it comes from and its number. `got`, `given`, `told` and
`pingFailed` are history variables: they record what was read, written and announced.

`WriterTakesDead` and `WriterNotifies` are two
steps because the writer may block between them, at line 267, where it sends to the
channel that only it empties.

`FanIn` is the abstract specification: a stream that merges sources, each in order,
without gaps or repetition, and that says "closed" of a source only after its last
line unless the source had been suspected (a ping failed). The refinement mapping is
`accepted <- got, suspect <- pingFailed`.

| run | instance | shows |
|---|---|---|
| `relay` | 2 hosts, 2 messages, 1 tick | refinement of `FanIn`; no host is dropped and the browser is not closed without cause; `dead` is large enough for the readers; a shutdown or the browser's death is heeded unless the writer waits for itself; what becomes of the sockets (`NobodyLeftOpen`) and of the readers (`ReadersSettle`) |
| `relay_stuck_writer` | 2 hosts | *violation*: the writer blocks on its own channel (267), and the browser's death reaches no adapter any more |

The end of the writer does not reach every host. `closeReadersFunc` writes to the hosts that
are still in the map. Where the write fails, as it always does on a `mute` socket whose ping
failed a moment before, the error is only logged (205-209). `NobodyLeftOpen` says what is left: when
the writer has returned, each socket is closed or closing, or is mute, and then either a ping had
failed or the close frame itself did. `ReadersSettle` names the three places in which a reader
may stay for good: at `msg` when its receiver is gone or stuck, at `dead` when that is full, and in
a read from a host that could not be told because its socket is mute (no deadline is set on a
host's socket before its first pong).

Bounds: `MaxEvents` messages are read and ticks fire in all, `MaxTicks` of them ticks. Two
messages fill `msg`, which has the capacity of the number of hosts, and the notice of a dead
host finds it full. One tick gives one ping per host, any of which may fail, and whose
announcements together with the readers' fill `dead`. Two hosts give two producers in a race, and
a host that lives on after another has died. What more messages or ticks add is of the same
kind; the safety properties are proved for any number.

Fairness: each goroutine that can run does (weak fairness per goroutine, per step of its
loop). A read from an adapter is not assumed to return, since an idle log says nothing,
except after a close frame was sent on it: then it answers or the read deadline passes.
A read from the browser returns within its deadline, which only the browser's pings move.

### AdapterSession

The other end: `Logs` and `BusEvents` with their producer, `WebsocketWriter` and
`WebsocketReader`. `bus` says which producer runs. A line is its number; `torn` says that
the bytes of the line in the writer's hand have been overwritten, which a
`bufio.Scanner` may do with its buffer and `json.Marshal` does not do. The channel is
unbuffered, so the send and the receive are one step, `HandOver`. `death` is
`wsDeathCtx`, `wsClosed` the effect of the reader's deferred `Close`, and `out` what the socket
still takes: frames (`ok`), nothing after a close frame (`closing`), nothing after a failed
write (`broken`). `CloseWebsocket` moves it to `closing` only if it is `ok` and the frame can be
written. A failed write (`WriteFails`) leaves it `broken`, and the web UI is not told; so does a failed
pong (`PongFails`), unless only the lock on writes was late and the close frame still gets out.

| run | instance | shows |
|---|---|---|
| `adapter_stream` | both producers, 3 lines | lines are accounted for, and a bus event is written as it was made; refinement of `FanIn` with one source; the socket is closed after a close frame, its death or a shutdown, but not after a shutdown over a broken socket; a producer left behind is in one of two places |
| `adapter_blocked_send` | both producers, 2 lines | *violation*: a send without a receiver (`logs.go:40`) |

Three weaknesses of the code are exceptions in the passing properties rather than runs of
their own, and would not be reported if they got worse. `LinesAccounted` says that a line in a
hand is intact of the bus only: `scanner.Bytes()` (`logs.go:42`) is overwritten by the next `Scan`
while the writer may still be writing it, and of the log nothing is said. `SocketEnds` promises
nothing to a reader whose socket broke before a shutdown: the writer has returned without
cancelling `wsDeathCtx` and without a close frame that got out. `ProducerSettles` exempts a
producer that waits for a line when nobody cancelled `wsDeathCtx`: the reader's exit on a
shutdown (`internal/websocket.go:45`, "safe to exit here") does not.

Three lines let one be written, one be in the writer's hand and one be at the send, the
most a session can hold. Fairness: opening the log returns; a scan returns for certain
only once its context is cancelled; the writer and the head of the reader's loop run; a
read returns, whenever it blocks again, once a close frame went out (strong fairness: the web
UI closes when its reader comes to the frame; that it does come to it is assumed, and a relay
stuck on its own channel would not).

### ServerLifecycle

`ListenAndServe` from the first signal on. `main` is where the main goroutine is:
serving, in `HTTP().Shutdown`, asleep after its failure, in the manager's `Shutdown`,
asleep after that, about to log out, gone. `conn[c]` is a connection: in a handler
(counted by `http.Server`), hijacked by the upgrade (counted by nobody), `starting` (its handler
is between two calls of `RunWSFunc`, and the `WaitGroup` counts what it started), a session
(its handler has returned, and the group counts its goroutines), ended. `wg` is the goroutine in
`WaitGroup.Wait`: not begun, waiting, woken by the last that left, returned. `clock` counts seconds since the signal; a second
passes (`Tick`) only when the main goroutine has nothing due. The deadline and the
sleep are the constants of `consts/server.go`.

| run | instance | shows |
|---|---|---|
| `server_shutdown` | 2 connections | at most twelve seconds; it ends; a drain that reports success cut off no request, and no session but late ones |
| `server_logout` | 1 connection | *violation*: a request or session that hangs uses up the context that `Logout` gets (`server.go:175`), against "Logout on exit (default true)" (`README.md:76`, `README.md:102`) |

The properties are as sharp as the code allows, and its weaknesses show in them.
`WaitsForRequests`: a connection is hijacked before its goroutines are counted, and they are
counted one by one, so one that calls `RunWSFunc` after `Wait` returned (`websocket.go:59`) is cut
off by a shutdown that reported success. If it calls it after `Wait` was woken and before it has
returned, `WaitGroup` panics ("reused before previous Wait has returned") and the process ends
(`WaitPanics`); no property excludes that. After a failed drain the context that `Logout` gets has
expired, so the node stays logged in whatever `--logout` says: `server_logout` finds it, and the
theorem `FailedDrainNeverLogsOut` says that it is so in every shutdown with a failed drain.
`ShutdownBounded` (in `LifecycleInv`) counts from `ServerDrainPeriod`, which is six seconds and
not the ten of the comment at `server.go:155`.

Connections interact only through the counts, so two (one that ends and one that does
not) show every case. Fairness: time passes and the main goroutine runs. Nothing is
assumed of handlers and sessions, which may hang.

### HostDirectory

`Client`'s two `sync.Map`s (`adapters`, `hosts`) and the goroutines of the `PeerMap`
requests that write them. `call[r][a]` is the goroutine of request `r` for adapter `a`:
calling, with an answer, between the two stores of `SetKnownHost`, or in one of the two
gaps of `DeleteAdapter`, with the host it has in hand. `Moves` is an adapter's pod that
comes back beside another host under its old name. `settled` says that from now on
nothing of that kind happens: adapters are `up` or not, and calls to those that are up
succeed. It begins at a moment without a request. `been` (where an adapter has run) and
`raced` (adapters that were stored and deleted at once, or stored for two hosts) are
history variables.

| run | instance | shows |
|---|---|---|
| `directory` | 2 adapters, 2 hosts, 2 requests, 1 move, 2 goroutines at once | every entry was true once; the maps agree on adapters that never raced; later peer maps repair what races left, and forget an adapter that stays away |
| `directory_two_way` | 1 adapter, 1 host, 2 requests | *violation*: a delete between the two stores leaves `hosts` with an adapter that `adapters` does not know |

`Forgets` is as weak as the code: once an adapter has raced, `DeleteAdapter` may find no
host to delete (`client.go:41`), and its entry in `hosts` stays for good, so that
`CallHost` goes on to call an adapter that is gone. Every race is one of two goroutines
(of two requests for one adapter, or two adapters for one host), so two at once show each
of them; longer chains arise as requests follow one another, which nothing bounds.
Fairness: a call returns (its context ends after a second, `peermap.go:49`), the
goroutines run, and pages ask for the map again.

### FanOut

One request to `RelativeJSON`, `Ping`, `QueryDNS`, `Goroutines`, `Pprof` or `PeerMap`, which
have one shape: a goroutine with an unbuffered channel per target (`caller`, `result`), and
the handler that receives from, and closes, one channel after the other (`step`, `taken`,
`results`). A send and its receive are one step, `Receive`. The handlers differ in what they
do with an answer that is not whole (`Breaks`, `Odd`) and with a result (`Kept`, `Add`).

`Gather` is the abstract specification: as many calls as the request names targets, each of which
comes to something once, and one reply, when all have, that says of each target in the order of
the request whether its answer came whole. It knows nothing of channels, nor of who waits for
whom. The refinement takes the handlers' six kinds of replies for what they say (`Says`): an
entry with an error, and no entry, both say that the answer did not come whole. `GatherInv`
is the run's invariant for the way there: no goroutine before the one whose turn it is has
anything left to send (`NobodyBehind`), and the handler waits only for one that lives
(`WaitsForLiving`).

`fan_out` checks the six handlers with up to three targets whose calls return in any order
and any way. Three targets give one that is being gathered, one before and one after it.
Two of its properties say how the code can end the process: `RelativeJSON` lacks a `return`
after line 77 of `passthrough.go`, so a response that is not JSON (an adapter that ends in
the middle of it is enough) makes the goroutine send on a channel that is closed;
`Finishes` says that it always comes to this. A status without the fields that
`peermap.go:83` asserts panics too. Fairness: every call has a deadline, and goroutines run.

### SecretsController

The path of an auth key. Per pod name there is a pod and a secret at the API server
(`pod`, `secret`), and what the manager's cache has of them (`cachedPod`, `cachedSecret`).
Pods are numbered as they are created, which is what a UID is for; the name of a pod of a
stateful set comes back with another number. `worker` is the one `Reconcile` under way, at
the three places where it waits for an answer: `Take` is the lookup of the pod and of the
secret's name, `Check` the lookup of the secret, `Generate` the key, `Apply` the patch.
`queue` is the work queue, in which an error puts the name again. `Crash` ends all of it;
`Restart` fills cache and queue. `Create` is the webhook's part, and may be without it, since
its failure policy is to ignore. `Starts` is the container, which needs the secret and uses
its key up: `GenerateDeviceKey` asks for keys that are not reusable. `excused` and `misled`
are history: why a pod may have needed another key, and who was mistaken for served.

| run | instance | shows |
|---|---|---|
| `operator` | 1 name, 2 pods, 2 faults, 1 container that ends | keys are accounted for, a container is refused its login only if it was logged in before or started with what a predecessor left (`RefusedForCause`), a resting controller has forgotten nobody, and every pod that stays runs in the end |
| `secrets_fresh` | the same without faults | *violation*: a pod that is created again is refused with its predecessor's key |

Names meet only in the queue and the worker, so one name shows what can happen to a pod; the
proofs are for any names, and the invariant was checked with two. The second pod makes the
first a predecessor. `MaxFaults` counts failures of either API, crashes, and lookups in a
cache that lags; two of them give a fault during the recovery from another. Fairness: the
operator is restarted, its caches follow, the garbage collector and the kubelet go on trying,
a name in the queue is taken in the end (strongly fair: the worker is now and then busy), and
each pod has an event now and then. The last is needed: secrets are not watched, so a pod
that was taken for served because of its predecessor's secret waits for another event
(`misled`), a change of its status or a resynchronisation of the cache.

### TSymbioteController

One TSymbiote, and the stateful set that is built from it. `resource` is what the API server
has: a uid, a generation (which spec it is), a version that every write counts, and which
conditions were set. `cachedResource` is what the manager's cache has of it. `sts` says from
which spec, and for which owner, the stateful set was built (`Desired`); what it contains is
not told apart. `doing` is the `Reconcile` under way, at the places where it waits for an
answer, with its copy of the resource: `TakeResource` reads it, `InitStatus` gives it its
first condition, `Refetch` reads it again (from the cache, which need not have seen that
update), `ApplySts` applies the set, `ReportReady` and `ReportFailure` write the status.
`due` is the work queue, in which an error, a change of the resource and a change of its
stateful set (`stsEvent`) put it. The status is written as an update, which the API server
takes only of the version it has; the set as a server-side apply, which it always takes. The
cluster creates, edits and deletes the resource, deletes the set by hand (`RemoveSts`) or
because its owner is gone (`CollectSts`). `claimed` and `removed` are history: the generation last
called Available, and whether the set was taken away since it was applied.

An old copy of the resource is applied without a check, so that a set may go back to an earlier
spec, or to an owner that is gone. `AvailableIsTrue` says that this happens only before a spec
is reported, and `Settles` that it does not last: the report of the old copy is refused, and the
refusal queues the resource again. `QuietIsDone` is what `Settles` rests on: a controller with
nothing to do, no event on its way and a cache that is not behind has done and reported it all.

`Deployment` is the abstract specification. It lets an outdated spec be deployed, but none older
than the last that was reported as available, whoever deletes and creates the resource in
between, and a report be made only of what is there. Caches, queues, versions and failures are
not in it. The refinement mapping is `wanted <- Desired(resource), newest <- generations,
have <- sts, told <- claimed, lost <- removed`.

| run | instance | shows |
|---|---|---|
| `operator` | 3 generations, 2 mishaps | what is reported as Available is there, and stays until the spec is edited or somebody deletes the set; no earlier spec is applied after a report (refinement of `Deployment`); a controller at rest has left nothing undone; in the end the set is the one the spec asks for, reported, or gone with its owner |

Three generations are a resource, its edit and another edit, or a resource, its successor of the
same name and an edit of that: a copy may be two specs, or a lifetime, old. A mishap is a
request that fails before or after its effect, a crash, or a set deleted by hand; two of
them give a failure during the recovery from another. A set that the API server refuses for
what it contains fails more often than `MaxMishaps` allows, and is therefore not in `Settles`.

Seen while modelling, and allowed by the properties: the conditions do not say which
generation they are of, so that Available stays while an edit is not applied yet; `Degraded`
is never taken back, nor is `Progressing`, which stays Unknown; and the first status update
makes the reconcile that wrote it fail if the cache has not followed, after it has applied the set.

Fairness: the operator is restarted, takes what is queued and goes on with what it does; the
cache follows; the garbage collector does its work.

### Operator

The composition: one process (`operator/cmd/main.go`) with both controllers, each with a queue
and a worker of its own, which watch and write different objects. What they share is that the
process ends and starts again, which either module lets happen at any step. As on the page,
`Operator` explores them side by side (`controller` says whose behaviour this is) and
`OperatorIsItsControllers` says what that means: a behaviour of the operator is one of each
module. A second replica is not modelled: leader election is off by default.

### CommandConsole

The page. Commands are numbered as they are given; `title` is `lastCommand`, `output` the
command whose answer is in `outputData`, `loading` is `statusLoading` and `pending` the
requests without an answer. A handler up to its first `await` is one step (`Ask`,
`AskNobody`), what follows another (`Answer`, `Fail`; `Profiled` for `fetchPprof`, which
awaits twice). The buttons' `disabled` are the guards. The seven commands that send a list
of hosts, and the DNS query, are one kind. The hook's refs are `ws`, `interval` and `pong`;
`sock` is what the browser knows of each socket, including those the page has forgotten.
`pane` is which sockets have lines in `streamData`. `excuse` and `lost` are history.

The run `page` gives three commands: enough for a request that two streams overtake, and for a
stream whose successor is taken down by its close, with another after it. It shows two ways
in which the hook loses a socket that goes on bringing lines, and that no others exist
(`NoHiddenStream`, a part of `StreamsInStep`; `Watched`, another, says that whatever is current has a button and a timer): `cancelStreaming` closes only a socket that is open (line 134), so one
that is cancelled while it connects stays; and `onclose` (line 230) clears `wsRef` whichever
socket was closed, so the close of a cancelled stream that is reported after the next was
started leaves that one without a button to cancel it. In the same way `Headed`, a part of `CommandsInStep`, names the two
reasons for which the title is not that of the output. The
`catch` of `startStream` (line 241) has no action: the `WebSocket` constructor throws only on a
URL that is none, which the one of `api.ts:396-401` cannot be. Fairness: the timer ticks, ten seconds
pass, and the browser ends sockets that connect or close.

### PeerSelection

`fetched`, `hosts`, `nodes`, `edges` and `offline` are the map, which `Load` brings once: any
graph in which hosts are joined to machines. `selectedHosts` and `selectedTargets` are sets of
the page's state. A handler is one action; the effects whose dependencies it changed are in
`due`, and `Settle` runs them, in the order in which they are written, before the next handler,
as React does for discrete events. `ReachableTargets` is the list the page shows of the peers,
`DrawnNodes` and `DrawnEdges` are the graph, `Combinations` what `fetchPing` asks for, which
`getTargetedCombinations` computes in another way than the drawing. A machine is its name: two
machines of one name are one node to the page. A host is not a peer of itself.

`SelInv` is what the effect at line 285 is for: no handler but `toggleTarget` and
`toggleAllTargets` keeps the selected peers on the list. `AllMeansAll` follows from it: where
one set is in the other, equal sizes mean equal sets. `PingsAsDrawn` compares the two computations:
of the edges that are seen (`Seen`, both ends drawn) the ping asks for all between online
machines. It asks for more in one case, which the property names: the server makes nodes of peers
only (`peermap.go:89-106`), so a selected host that no other host reports is not drawn, nor its
edges, and they are asked for all the same. With a single adapter the ping asks for edges nobody sees.
Two hosts and two peers give a peer of one host and of both, an offline machine of either kind,
and hosts joined to each other in one direction or both.

### OutputPanel and ResultViews

`OutputPanel` has `lastCommand`, `outputData` (as the command it is of and its hosts in order),
`selectedOutputHost`, the command without an answer (`asked`), the two dialogs and the JSON
switch. Requests and sockets are the console's; here an answer comes, of any hosts, or fails, and
a stream may be started at any time, as its button is not disabled by a request. A stream's
condition that none is running is left to the console: this module allows more.

`ResultViews` has twelve views, and the results of eleven commands. A result is a function from its fields to what
is in them (nothing, an empty or a filled list or map, a text), as the types of `api.ts`
allow; a view is the set of pieces it shows, or `crash` where the code treats a field as what it
is not (`.map` of a text, an object put on the page). `CommandOutputsPanel` chooses the view by
`lastCommand`, and a command that fails, or finds nobody online, has changed `lastCommand` but
not the data. `Crashing` computes, for all pairs of a view and a command's results,
which would throw (none: the views ask for each field before they use it), and `Silent` which
show nothing of their own command; `ViewFits` says that the panel never has such a pair. What no
view throws on may still be shown wrongly: the view of a ping takes every field of another's
result for a peer. `Titled` says that this does not happen, because a ping that fails leaves its
errors as results, and a ping is sent even if nobody is online.
Results with an error, and absent results, are shown by the panel itself and left out. Of
`DriveShares` there are no others: `StructToMap` (`types.go:58-69`), through which an adapter
passes a result, panics on the list that `DriveShareList` returns (`simple.go:41-48`), `net/http`
drops the connection, and the web UI has an error for every host; its view is only ever given
another command's result. Of a struct it sends every exported field that is not a nil pointer. Two hosts give
a tab that stays, one that goes, and a change of order.

### PanelHeight

`statusPanelHeight`, `previousPanelHeight`, the drag and the window. `PanelRestores` needs
`HeightInv`: a height is saved only when it is above the minimum, by both copies of the code.
Dragging stops at `Margin`, below `MinHeight`, and saves nothing. Three windows: one too low
for half of it to be above the minimum, and two of different size.

### BrowserPage

The composition. The parts of the page share no state that one writes and another reads
within a step the modules keep: what a part takes of another (whether anybody is online,
which hosts an answer is of) is left open in its own module. A behaviour of the page is
therefore, for each part, a behaviour of that part's module between steps of the others.
`BrowserPage` explores the parts side by side: `part` says whose behaviour this is, and `PageNext`
is that part's next step with the others unchanged. Their product would multiply states and
show nothing more.

| run | instance | shows |
|---|---|---|
| `page` | 3 commands; 2 hosts and 2 peers; 2 tabs; 3 windows | the commands and streams as above; no selected peer is off the list; the ping is of what is seen, and of the edges of hosts nobody reports; the panel has a tab and a view that fits; minimising loses nothing |

Seen while modelling, and allowed by the properties: hiding the offline peers selects all
others again (`App.tsx:211`, whose comment speaks of the time when the map is loaded); a map without
peers has a null list of nodes, which the page takes for an error, so that "No nodes to
display" cannot be reached; a host that no other adapter reports is not a node of the drawing;
a stream that is started while a request is out loses its tabs to the answer; a profile that
fails leaves "Loading profile..." in the panel when results of another command are there; in a
window of which half is not above the minimum the panel cannot be opened but by dragging.

## Proofs

All eight proof modules argue in the same way: an inductive invariant `IInv`, shown to
hold initially, to be preserved by every action, and to imply the property. TLC checked
the invariants first. Assumptions: only the ones named in the modules (the hosts are a
finite, non-empty set without the browser; bounds are naturals; flags are Booleans).

* `RelaySessionProofs`: `Typing`; `Invariance`, where `NothingLost` says that until a
  write fails `msg` holds, for each source, exactly the lines enqueued and not yet
  given, in order, and `DeathIsFinal` that nothing of a dead host follows its notice;
  `ClosesForCause`; and `Merges`, the refinement of `FanIn`: `Ordered` is what makes the
  line at the head of `msg` the next one of its source, `DeathIsFinal` what makes a
  notice come last. `ReadersAnnounce` (`DeadNeverBlocksReaders`) follows from `DeadOnce`: until a
  ping fails the hosts in `dead` are different ones, and not the one about to be announced, so
  that there are fewer than the channel holds. `LeavesNobodyOpen` follows from `EndedIsClosed` (a
  reader that has ended has closed its socket): at its end the writer leaves no living host's
  socket open (closing if the frame went out, mute if not), and a host leaves that map by its
  reader's notice or by a failed ping, which makes its socket mute.
  `StuckForGood` is the other side of the run `relay_stuck_writer`: once `msg` is full and the
  writer is gone or sends to it itself (`Abandoned`), it stays so, for ever, and a reader at its
  send stays there.
* `AdapterSessionProofs`: `Typing` and `Accounting`, inductive as it stands (a line taken is in a
  hand, written, or the one lost), and `WritesInOrder`, which follows from it step by step.
  `Streams` is the refinement of `FanIn`: the count of lines is what makes a write give the line
  that comes next.
* `ServerLifecycleProofs`: `PhaseTimes` bounds each phase by its own second (from which
  `Bounded`), `PhaseFacts` is what each phase knows of those before it (from which
  `DrainsAreTrue`, and `FailedDrainNeverLogsOut`: a drain that failed has used up the context).
  `ExitNearer` is the safety half of `Exits`: seconds and phases before the end are a natural
  number that time and the main goroutine lower and nothing else raises.
* `HostDirectoryProofs`: `EntriesTrue` needs that a host in a goroutine's hand was true as
  well (`HandsWereTrue`); `Agreement` that an adapter that has not raced is not stored and
  deleted at once, and has the entry its goroutine stored or found (`HandsAgree`).
  `TwoWayUnlessRaced` says what is left of the comment that `directory_two_way` refutes. Of `Heals` and
  `Forgets`, `StoringHeals` and `StaysHealed` prove all but that peer maps come: after things have
  settled only adapters that answer are stored, beside their present host, and only those that
  do not are deleted (`AfterSettled`), so one store heals a host, and once the others are
  forgotten nothing undoes it.
* `FanOutProofs`: `InHand` (a result tells how its call went), `Taken` (so does the one the
  handler has received, which is that of the target whose turn it is) and `Progress` (those
  whose turn has been have been received and closed) give `RepliesTell`, `AllGathered` and
  `CrashCauses`. `Gathers`, the refinement of `Gather`, needs `Ahead` as well: those whose turn is
  to come have not sent, so that the reply is composed of calls that have all come to something.
* `OperatorProofs`, of the secrets controller: `Forward` (secret, cache and worker never go back to an earlier
  pod of a name), `OneName`, `SecretStays` (a pod that is there keeps its secret, so a cached
  one can be trusted), `KeysPlaced` (a pod without a key in its secret or on the way has none
  that is not excused) and `Known` give `KeysAccounted` and `Remembered`. `RefusedOnlyForCause`
  needs `KeysOfTheirPods`: a secret has the key that was made for its owner, and a key that is
  used up was used by the pod it was made for. Of the TSymbiote
  controller: `Copies` (a copy of the present version is of the present spec, and one of the
  present spec is of the present owner), `CacheAhead` (the cache is not behind the
  reconcile's copy, as long as the resource is the same), `Applied` (what was applied is there
  when it is reported) and `Newer` (once a spec is reported, nothing earlier is read any more)
  give `AvailableHolds`: a report that is accepted is of the present version, so the cache
  has the present spec, and no older copy is left to be applied. `RestsWhenDone` needs `Reported`
  (until it is reported, what was applied is there, or an event is on its way). `RollsForward`,
  the refinement of `Deployment`, needs `NothingEarlier` (neither the cache nor the reconcile's
  copy is of a spec before the last that was reported, nor does a later edit or owner make it so).
* `CommandConsoleProofs`: `Waiting` (the command that waits is in the title, or was
  overtaken), `Unborn` and `Newest` (the current socket is the newest) give `TitlesTrue` and
  `StreamsKnown`; `GivenUpForGood` says that a socket the page has left is never current again.
* `BrowserPageProofs`: `SelectionListed`, from which `AllAreAll` (finite sets of equal size, one
  within the other) and `PingsDrawn`; `PanelShows`, whose `ViewFits` is proved from what each
  pair of a view and a result can come to; `HeightComesBack`; and `PageIsItsParts`: the
  page's specification implies each part's.

Only model-checked: every liveness property (`StopHeeded`, `ReadersSettle`, `SocketEnds`,
`ProducerSettles`, `Exits`, `Heals`, `Forgets`, `Finishes`, `Served`, `Settles`, `DeadNoticed`), which is
out of the prover's reach, as is whatever depends on fairness. Of some of them the part that is a
property of states and steps is proved: `NobodyForgotten` of `Served`, `QuietIsDone` of `Settles`,
`ExitNearer` of `Exits`, `StoringHeals` and `StaysHealed` of `Heals` and `Forgets`, `WaitsForLiving` of
`Finishes`, `Watched` and `GivenUpForGood` of `DeadNoticed`.

Type invariants are parts of a run's property where they do not stand alone (`LinesAccounted`,
`LifecycleInv`, `DirectoryInv`, `GatherInv`, `KeysInv`, `CtrlInv`, `StreamsInStep`, `SelInv`, `PanelInv`).

## Findings

Each violation run shows the code doing what a comment or the documentation says it does
not; `PROJECT.json` quotes the line.

| run | the text | the code |
|---|---|---|
| `relay_stuck_writer` | "client died in read loop, kill all adapters" | the writer waits for itself and kills nobody |
| `adapter_blocked_send` | "when sockets die the scanner emits False and breaks the loop" | the loop is at a send that nobody receives |
| `server_logout` | "Logout on exit (default true)" | not after a drain that failed |
| `directory_two_way` | "a two way mapping to allow fast lookups in both directions" | a delete between the two stores leaves one entry |
| `secrets_fresh` | "supplies ephemeral credentials at pod creation time" | a recreated pod gets its predecessor's, used up |

## Not modelled

Flag parsing, start-up, routes and JSON records have no behaviour to check. The adapter's
handlers are one call and one reply each, but for `DriveShares`, whose conversion panics before
the reply (see `ResultViews`); of the known peers, the map by address is never read
and the one by name only ever stored to. Socket discovery tries four times and returns an empty
path in the end, without an error: it is sequential, and a model would restate it. Of the operator:
flags, TLS options, leader election, and what the webhook injects.

Of the modelled files: a browser that names a host twice, the contents of messages, a
listener that cannot be opened, the overflow of a ping's deadline, and the file that two Pprof
requests share. Of the page: formatting, the JSON view, the context menu but for its filter, the
layout of the graph and the search fields, which only shorten what is shown. What a person
types into the dialogs is left out as well.
