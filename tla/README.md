# A TLA+ model of njs

njs is a JavaScript engine with bindings for nginx.  Its scripts run in the
event loop of nginx's worker processes, on the engine in `src/` or on QuickJS.
This directory models the parts of it that keep state across events, processes
and restarts, checks them with TLC on small instances and proves the most
important of their properties with TLAPS for all instances.

Paths below are relative to the repository, whose root is `src/` in
`PROJECT.json`: `nginx/ngx_js.c` is `src/nginx/ngx_js.c` there.

## The system

### Parts

| Part | State | Operations | Hard behaviour |
|---|---|---|---|
| Shared dictionary, `nginx/ngx_js_shared_dict.c` | per zone, in shared memory: a tree of keys, a tree by expiry time, slab memory, the bits `dirty` and `writing`; per worker a cached time | set, add, replace, incr, delete, pop, clear; get, has, ttl, keys, items, size; expiry and eviction inside an allocation | several processes with different times; allocations that fail or evict half way; expired entries that are still there |
| State file, same file | the state file, its temporary file, one save timer per worker | the timer handler: render, open, write, rename; load at start | two writers, crashes between steps, failed steps, exit with unsaved data |
| Promises and jobs, `src/njs_promise.c`, `src/njs_vm.c`, `src/njs_async.c`, `nginx/ngx_js.c` | promises, pairs of resolving functions, reactions, the job queue, contexts of async functions, the list of rejected promises | resolve, reject, then, finally, all, allSettled, any, race, await; the draining of the queue; the rejection tracker | order and exactly-once running of reactions; functions called twice or late; scripts that throw |
| HTTP client, `nginx/ngx_js_http.c`, `nginx/ngx_js_fetch.c`, `nginx/ngx_qjs_fetch.c` | per fetch: resolver context, addresses, connection, buffer, parser; per location: idle connections | resolve, connect, next address, write, read, parse, keep or close, timeout, destroy | events in any order, connections reused by other fetches, retries in the middle of a response |
| Contexts and events, `nginx/ngx_js.c` | engine contexts, waiting events, timers, the queue of contexts to reuse | create, clone, call, post, destroy, setTimeout, periodic handlers | finalisation with events outstanding, reuse of a context |
| HTTP bindings, `nginx/ngx_http_js_module.c` | a request's script context, its references, filters, subrequests, headers | access, content, header and body filters; `return()`, `send()`, `finish()`, `internalRedirect()`, `subrequest()`, `readRequest*()`, timers; headers and variables | re-entry of the script from nginx's handlers and from its own calls; who finalizes the request; each method written twice |
| Stream bindings, `nginx/ngx_stream_js_module.c` | a session's context, callbacks, chains of data in both directions | access, preread, filter; `on()`, `off()`, `done()` and aliases, `send()`, `sendUpstream()`, `sendDownstream()` | phases that wait for data, timers or nobody; data taken, forwarded and sent in the middle of a chain |
| Scripts, `src/njs_lexer.c`, `src/njs_parser.c`, `src/njs_variable.c`, `src/njs_generator.c`, `src/njs_vmcode.c`, `src/njs_function.c` | a stack of parser states, scopes; blocks with patch lists, temporaries; frames, handlers of `try` | parse, generate, interpret | states that give up, exits from nested `try` statements, temporaries reused too early |
| Buffers and query strings, `src/njs_buffer.c`, `src/qjs_buffer.c`, `external/*_query_string_module.c` | bytes shared by views | every method, once per engine | ends of ranges, overlaps, signs, cut escapes |
| Form and multipart parser, `nginx/ngx_js_form.c` | parser position | parse | boundaries of parts |
| Containers, `src/njs_flathsh.c`, `src/njs_mp.c`, `src/njs_rbtree.c`, `src/njs_chb.c` | tables, pages, trees, chains | insert, delete, find, allocate, free | rebuilding while in use, limits |
| Built-in objects, other modules | sequential | | |

### How they interact

A script of a request calls the engine; `ngx_js_call()` runs it and then drains
the job queue.  What has to wait, a fetch, a timer, becomes an event of the
context; its completion calls back through `ngx_js_call()`.  Contexts are
destroyed with their request, and events that still wait are destroyed with
them.  Workers share nothing but the zones of shared dictionaries, and the files
those are saved to.

## Modules

| Module | Models | Composition |
|---|---|---|
| `ExpiringMap` | what a shared dictionary promises: a map that forgets in the order of expiry | abstract specification |
| `SharedDict` | a zone and its operations | implements `ExpiringMap` (`INSTANCE ... WITH`, property `ImplementsMap`) |
| `SharedDictProofs` | theorems about `SharedDict`: types, trees, memory, its action properties, and that it implements `ExpiringMap` | extends it |
| `SharedDictState` | the protocol that saves a zone | the zone abstracted to a number of calls |
| `SharedDictStateProofs` | theorems about `SharedDictState` | extends it |
| `Promise` | promises, jobs, async functions, rejections | |
| `PromiseLemmas` | what each operation of the engine does to its promises, jobs and reactions | extends `Promise` |
| `PromiseProofs` | theorems about `Promise`; what is claimed of the promises of lists and of `finally()` | extends `PromiseLemmas` |
| `PromiseOutcomes` | every step keeps these claims: what such promises are settled as | extends `PromiseProofs` |
| `HttpClient` | `ngx.fetch()` and its keepalive cache | |
| `HttpClientProofs` | theorems about `HttpClient`: the order in which servers put tokens on a connection, what the response parser does to a buffer in that order, and who owns a connection | extends it |
| `HttpBindings` | the methods of `r`, timers and their arguments, in both engines, as functions of the request's state | |
| `HttpRequest` | one request through phases, filters, subrequests, redirects and its end | extends `HttpBindings` |
| `HttpRequestProofs` | theorems about `HttpRequest` | extends it |
| `StreamSession` | one stream session, both directions, both engines | |
| `StreamSessionProofs` | theorems about `StreamSession` | extends it |
| `JsValues`, `JsGenerator`, `JsVm` | trees and values; the code generator; the interpreter | each extends the one before |
| `JsReference` | what a script means, by ECMAScript | reference for `JsCode` |
| `JsCode` | scripts compiled and run, and what must hold of them | composes `JsVm` and `JsReference` |
| `JsPrograms` | the scripts of the runs | |
| `JsParser` | the parser, from tokens to trees | makes the trees `JsGenerator` takes |
| `JsSyntax` | text and early errors of a tree, by the grammar | reference for `JsParser` |
| `Buffer` | `Buffer` in both engines | |
| `HttpObjects` | `headersIn`, `headersOut`, `rawHeaders*`, `variables`, matches, in both engines | |
| `FetchObjects` | `Headers`, `Request`, `Response` in both engines | |
| `QueryString` | `querystring` and `r.args` in both engines | |
| `MC...` | constants for TLC | extend the module they are named after; `MCBuiltins` composes the last four |

An operator whose comment begins with *Mutant* or *A wrong* is a plausible
mistake in the definition that follows it.  It is used by nothing; it is there
to show that a property notices the mistake.

### SharedDict

`sh` is the zone.  `rbtree` maps a key to its node or to `NULL`, `rbtree_expire`
is the set of keys in the expire tree (its order is that of `expire`), and
`used` the slab units in use.  A call holds the zone's lock from its first look
at the zone to its last, and a worker's time does not move during a call, so
one call is one step; the time it uses is that of its own worker, `cached[w]`,
which lags behind `clock` and behind the times of other workers.  The steps
inside a call are operators from zone to zone in the order of the code:
`ngx_js_dict_expire`, `ngx_js_dict_alloc` with its batches of evictions (a set
of outcomes, because entries that expire together have no fixed order),
`ngx_js_dict_add_value`, `ngx_js_dict_update`.  Every allocation may fail, with
what the error path leaves.  The bindings of each engine are written separately
in the code.  Where the twins differ in what they do to the zone or return, they
are modelled twice (`delete`, the readers); the others are mapped to both.

A value is told apart by the units it needs.  A key's size, which is part of
its node, is one unit.  The number of entries evicted in a batch, 16 in the
code, is a parameter.

### SharedDictState

One action for each step of `ngx_js_dict_save()` between which another worker
can do something visible: taking the read lock, rendering, setting the flags,
opening, writing, renaming, clearing `writing`, and for the failure of each, which
clears `writing` and sets `dirty` in two steps.
Workers are asked to exit, exit, die and are started again; nginx is restarted
and loads the file.  `dirty` and `writing` are two bits of one word, so an
assignment to one of them is a load and a store.  With `Indivisible` these are
one step, without it they are two, which is what a compiler makes of them.

### Promise

`vm` is the engine's state and `frame` the code of the script that runs.
Between two entries of the engine a script may do whatever the bounds allow, in
any order.  Every operator has the name of the function it models.  Values are
told apart by what the engine does with them: plain ones, promises, thenables,
and objects whose `then` throws when it is looked up.  The history components
`reactions`, `ran` and `finallys` exist for the properties only.

### HttpClient

`net` holds the fetches, the connections and the cache.  A handler of the code
is an action, and what it does to the state in one go (close the peer, store the
connection, evict another one, settle the promise) is one operator from state
to state.  What passes over a connection is a sequence of tokens, the units the
client acts on.  Each token carries the fetch it answers and the connection it
was sent on, which the code cannot see.  Reads return any part of what has
arrived.  Servers answer in order, and may close or reset at any time.

Two details matter.  `http->buffer` first holds the request, then responses; a
response that comes while the request is still being sent finds no room and ends
the fetch.  And `ngx_js_http_next()` clears the connection and the buffer only.
A response that does not fit the buffer is not modelled.

### HttpBindings and HttpRequest

nginx runs one event at a time, but an event handler calls into a script, the
script calls methods of `r`, methods that send run the filters, and the filters
call scripts again.  `stack` holds those calls, innermost last; `ctx` is
`ngx_http_js_ctx_t` with its waiting events, and `r` what nginx keeps of the
request: its phase, its reference count, its write handler, whether it is
posted, its subrequests, what has been sent.  The parts of nginx the module
relies on (`CleanupCtx`, `FinalizeConnection`, `Terminate`, the phase engine)
are external and modelled from how the module uses them.

A method is a function from a state to a state and whether it threw, once for
njs and once for QuickJS (`NjsReturn`, `QjsReturn`, ...).  `Calls` are the calls
a script may make, with the arguments the code tells apart.  What a script does
is any sequence of at most `MaxOps` calls, ended by a return, a throw or, for an
async function, a rejection.  A request begins in any of the locations of
`MCHttpRequest`: js_access and js_content, with header and body filters, with
`js_set`, and locations whose engine cannot be created.

### StreamSession

`ctx` is `ngx_stream_js_ctx_t`, `n` the session with what has come from each
side, what has gone out, and what callbacks took.  Data is a sequence of units
that carry the number of the chunk they came with, so that a unit that is lost,
doubled or overtaken shows.  A filter walks a chain of buffers; each turn of its
loop that calls a script is a step, so scripts change callbacks and send while
the chain is half done.  `send()` and the filters always succeed here: the next
filter of nginx neither fails nor refuses data, so the paths that end a session
after a failed write are not in the model.

### JsGenerator, JsVm, JsReference

The generator is one operator per kind of node, in the order of the source, with
its state (code, blocks, patch lists, cache of temporaries).  The source keeps an
explicit stack of continuations; here `Gen` calls itself and what follows a call
is what the continuation does.  `JsVm` has an action per instruction over frames,
cells, objects and handlers of `try`.  `JsReference` evaluates the same tree in
the terms of the ECMAScript specification: completions, environments, a fresh
binding per block and per iteration.  Values are small numbers, booleans,
functions, objects, errors; strings appear where `typeof` makes them.

### JsParser, JsSyntax

A state of the parser is an operator that returns the parser as it is when the
state has ended.  Rejection, optional states, scopes, labels, the look-ahead and
the stack of brackets of the lexer are those of the source.  `JsSyntax` goes the
other way: it writes a tree as tokens, with the parentheses the grammar needs and
no more, and says which early errors a tree has.

### Buffer, HttpObjects, FetchObjects, QueryString

Each of these APIs exists twice, and what a script sees must not depend on
`js_engine`.  Each method is translated twice, and there is a definition of what
it means that shares nothing with either.  Bytes have four bits, so that a byte,
a two-byte word and their signs are enumerated in full; a hexadecimal digit has
two bits and a base64 digit three.  Headers are kept as nginx keeps them: a list
whose removed elements stay with a zero hash, pointers into it, and for
`Headers` chains through it.  Query strings are sequences of bytes where an
escape is one element, and a character of two bytes can be torn.

## Runs

The runs of `SharedDict` and `JsCode` check for deadlock; elsewhere the system
may stop: scripts that have nothing more to do, workers that have saved and
exited, fetches and requests that are over.

| Run | Instance | Shows |
|---|---|---|
| `dict_evict` | strings, 3 keys, 5 units, `evict`, values of 1, 2 and 5 units | trees agree, nothing leaks, a failed call keeps its entry and fails only in an empty zone, and the zone implements `ExpiringMap` |
| `dict_number` | numbers, 2 workers with different times, both engines, 1 unit | readers agree at the millisecond of expiry, `incr` keeps the expiry time |
| `state_file` | 2 workers, 2 calls, 2 errors, a death, a restart, workers that exit | one writer at a time, the file is always complete and only ever replaced by a later one, a clean zone is saved (but for one window, see Findings), and every call is saved in the end if nobody dies |
| `promises` | seven programs, see `MCPromise` | one way to settle, settled once; reactions, those of await included, run once and in order (`ReactionsKept`); nothing stuck; lists and `finally()` have the outcome of what they are made of (`OutcomesMatch`); unhandled rejections are reported; reactions run before the VM is gone |
| `http_responses` | 2 fetches, 2 hosts, requests in 2 units, early answers, 4 kinds of responses | a fulfilled fetch has its own response, whole; a connection is not kept after its last response |
| `http_connections` | 2 fetches, 2 addresses, aborts, a cache of 1 | connections have one owner and are never lost; every fetch is settled |
| `http_request` | 6 locations, 3 calls out of 50, both engines | references are counted, events have one context and no event outlives it (`OwnersKnown`); every request that nginx does not give up on is answered; js_access decides; requests finish; both engines do the same |
| `http_access_rejected` | 2 calls | **violated**, finding 1 |
| `stream_session` | 5 configurations, 3 calls, 2 chunks from each side | a phase waits for something that will come, data that no callback took arrives once and in order, phases pass only when the script decided (`PhaseDecides`) and in the end when it did (`DecisionsCount`), both engines do the same; the two exceptions are under Findings |
| `js_code` | 3,700 scripts | scripts end as `JsReference` says; jumps land, `try` statements are left, temporaries are free once (`CodeHolds`) |
| `js_parser` | 10,000 texts | texts are read back as the tree they were written from, early errors are refused, and no token of an accepted text is dropped (`TextsAreRead`) |
| `builtins` | 2 memories, 4 views, 10 texts, 12 numbers; 2 changes of headers; 3 calls of fetch objects; 800 queries | methods do what they mean and no more, where `BufferMeaning` says what; both engines do the same (`EnginesAlike`) in all calls but those of `EnginesDiffer` |

### Bounds

The bounds are the smallest at which the interesting cases happen.

- `SharedDict`: three keys and five units let an update evict two others, and
  evict one and still fail; a value of five units never fits beside a node.
  Clocks up to `MaxTime = Timeout` reach the moment of expiry.
  `EvictBatch = 1` makes several batches possible with three entries.
- `SharedDictState`: two workers are one that writes and one that modifies,
  waits or dies.  A second call during a save is the interesting one.
- `Promise`: a program limits each operation of a script separately.  Each
  program gives to one family of operations and as little as possible to the
  others; `Init` chooses one.
- `HttpClient`: `MaxConns = 2` lets both fetches have a connection, a fetch
  reuse one and a fetch retry.  `Keepalive = 1` makes the second stored
  connection evict the first.  `MaxBody = 1` has responses at the limit.
- `HttpRequest`, `StreamSession`: three calls are one that begins something
  (a timer, a subrequest, a callback), one that decides, and one made while the
  first is pending or after the decision.
- `JsCode`, `JsParser`: scripts are enumerated by shape: every pair of operands
  of which one has a side effect; every exit from every part of a `try` in every
  loop, once more inside another `try`, and through a call; every operator as
  either operand of every other; two declarations of a name in every pair of
  scopes; a token dropped, doubled or moved.
- `builtins`: views at both ends, in the middle and empty; indexes before, at and
  after the ends; lengths below zero, of which one is small modulo 2^32; numbers at the limits of one and two bytes, signed and not.
  Three calls make a `Headers` with two values of one name and replace it.

Keys, hosts and fetches are permuted by symmetry where only safety is checked.

### Fairness

- `SharedDictState`: weak fairness of `Work(w)`, the steps a worker takes by
  itself.  A worker's timer is in its event loop, and the loop runs as long as
  the worker does; locks are held for a bounded time.  `EventuallySaved` speaks of
  behaviours in which no worker died in a save: one that does leaves `writing`
  set and nothing in the code clears it.
- `Promise`: weak fairness of `Engine`: scripts end, queued jobs are executed by
  a later entry, and every VM is destroyed with its request.
- `HttpClient`: weak fairness of `Timeout(f)` and of the resolver's answer.
  nginx's timers fire, and the resolver has a timeout of its own.  Servers and
  the network are not assumed to do anything.
- `HttpRequest`: weak fairness of `Steps`: scripts return, timers fire,
  subrequests and reads of the body end, because nginx puts a timeout on each,
  and a client that is waited for sends or closes in the end.
- `StreamSession`: weak fairness of `Steps`: the event loop goes on, scripts
  return, timers fire.  Nobody has to send anything.

## Findings

`http_access_rejected`: an async js_access function that fails before it waits
for anything does not stop the request; a test of the repository expects a 500.
TLC refutes `RejectionStops`, and `PROJECT.json` has the lines.

The models also show the following, as the code has it.  The properties exclude
none of it; where one would, the case is left out by the property or the inputs,
as said.

Shared dictionaries:

- After a save that failed, `writing = 0` and `dirty = 1` are two assignments
  without the lock (`nginx/ngx_js_shared_dict.c:2644`).  Between them the zone looks
  clean although the file lacks calls; a worker that is killed there leaves it so,
  and no worker, the new one included, saves it before a call modifies it
  again.  `CleanMeansSaved` makes an exception of that window (`"redirty"`, and the
  history variable `dropped`), and of nothing else.
- The flag word is updated without the lock at the end of a save
  (`nginx/ngx_js_shared_dict.c:2626`, "no lock required").  With
  `Indivisible = FALSE` a concurrent `dirty = 1` may be lost, or `writing` come
  back, and `EventuallySaved` fails: a call is not saved.
- An expired entry that has not been collected counts as present for `incr()`,
  which adds to the stale value, and for `replace()`
  (`nginx/ngx_js_shared_dict.c:1695`).
- `delete()` of a missing key returns `undefined` on QuickJS and `false` on njs.

Promises:

- A rejected promise that already had a handler is reported as unhandled when it
  gets another one (`nginx/ngx_js.c:3949`).
- `Promise.any([])` is fulfilled with its `AggregateError` (`EmptyAggregate`).

HTTP client:

- The connection of a fetch that is destroyed, or that fails, in the middle of
  an exchange is kept (`nginx/ngx_js_http.c:244`), and the next fetch gets the
  answer the first one was waiting for.  `http_responses` has no aborts.
- A chunked response is complete only when the server closes the connection: on
  the last chunk `ngx_js_http_process_body()` returns `NGX_OK`, and the read
  loop stops for `NGX_DONE` only (`ParseChunked`, `Received`).
- After a reset in the middle of a response, what the first address sent stays
  in the response of the second (`ngx_js_http_next`).

Shared dictionaries: `incr()` of njs reports a lack of memory in the zone as a plain
`Error` (`nginx/ngx_js_shared_dict.c:971`), everything else as `SharedMemoryError`;
`MemoryError` stands for both.

HTTP requests; scripts that do these are not among the `Calls` and `Habits`:

- `readRequest*()` called by a timer while the body is still being read returns
  the part that has come; called after an await in js_access it never returns.
- An error page after a throw, with timers pending, leaves their events without a
  context.  `clearTimeout()` of the timer that is running deletes its event twice.
- `finish()` and `return()` inside a body filter nest; `done()` in the body
  filter of a subrequest's location makes the parent wait for ever.
- QuickJS accepts `internalRedirect('')`, resets a flag that the options of
  `sendBuffer()` do not name, and takes numeric strings as a status.
  `sendBuffer(null)` sends nothing in njs and the text `null` in QuickJS, which
  sets the empty buffer and then converts the value anyway
  (`nginx/ngx_http_js_module.c:7410`).  A delay that cannot be converted throws
  only there, and only there is `null` no callback of `subrequest()`.

Stream sessions, likewise:

- `s.send('')` never returns in QuickJS (`StreamSession!QjsBuffers`,
  `nginx/ngx_stream_js_module.c:2502`).
- `on()` with another type of data, or in QuickJS with something that is no
  function, throws but has set the type: a phase may then wait for ever.
- A js_access or js_preread function that sets a download callback and nothing
  else waits for it (`nginx/ngx_stream_js_module.c:990`), and nobody calls it
  before the content phase: the session stays until its client goes.  The run
  has such sessions; `WaitsForSomething` names them (`DownloadOnly`).
- In preread with an upload callback pending, what a timer decides with `allow()`
  or `done()` is not looked at: the read event it posts
  (`nginx/ngx_stream_js_module.c:2047`) does not lead to the handler while nginx
  waits for data, and the timeout of preread may come first and drop the
  decision.  `DecisionsCount` names this too (`Overlooked`).
- A late `send()` without options writes through a stale `last_out`
  (`nginx/ngx_stream_js_module.c:1660`); direct sends overtake the chain.

Parser; `MCJsParser` has no such texts:

- In a branch of a `switch`, what a rejected state read is dropped:
  `switch (a) {case 1: if (c) case 2: a}` is parsed without `if (c)`
  (`src/njs_parser.c:6881`).
- Refused although valid: `new A()?.b`, `f().x?.y`, `(a||b)\n?? c`, a label before
  an `else`, `if (0) do ; while (0); else`, `for (i ** 2;;)`.  Accepted although
  not: `{ var x; let x }`, `await a ** 2`, `a || f() ?? c`, labels of outer
  functions.

Generator; `JsPrograms` has no such scripts:

- A return that a break or a throw in a `finally` overrides, inside another
  `try`, still returns (`src/njs_generator.c:5124`).
- `continue` in a `for (let ...)` with closures skips the update of the binding's
  copy; `let` in a second iteration starts with the old value; two labelled
  destinations out of one `try` are refused (outcome `"syntax"`, which
  `MeansTheSame` exempts); the left operand of `(0, i) + (i = 5)` is read late.

Objects:

- Buffers (`EnginesDiffer`): `fill()` from behind the end throws in njs only;
  `write()` of a length that does not fit throws in QuickJS only; `toString()` and
  searches check an unknown encoding at different times; `byteLength` of
  hexadecimal text counts other characters differently.
- Buffers of a negative length (`EnginesDiffer`): `alloc(-1)` and `concat(list, -1)`
  throw in njs (`src/njs_buffer.c:257`, `:888`), while QuickJS takes the length
  modulo 2^32 (`src/qjs_buffer.c:357`, `:484`) and throws only when that is too
  long; `Buffer.from(ab, off, -1)` and `Buffer.from({length: -1})` are empty
  in njs (`src/njs_buffer.c:447`) and throw in QuickJS.  QuickJS reads a
  fractional `length` of an object as whatever the bits of the number are
  (`src/qjs_buffer.c:2071`); no such object is among the inputs.
- `headersOut` may be changed after `sendHeader()`: both engines log that the
  setting is ignored and set it (`nginx/ngx_http_js_module.c:2466`, `:9207`).  A
  header with several elements that is not split into an array is read with a
  separator after the last one, `a, b, ` (`nginx/ngx_http_js_module.c:5484`).
- A failed assignment of `headersOut['Content-Length']` loses the element while
  the length stays (`nginx/ngx_http_js_module.c:5541`).  `Object.keys()` of
  `headersOut` repeats names in njs.
- `Headers.set()` after two `append()` hides the second value from `get()`, but a
  copy, a new `Request` and `fetch()` have it again (`nginx/ngx_js_fetch.c:2096`,
  `nginx/ngx_qjs_fetch.c:2010`).  `set()` and `delete()` ignore the guard, and
  `set()` does not check the value, so that a later copy throws.
- A `User-Agent` header given to `fetch()` is sent besides the built-in one.
  `new Request(request, init)` resets flags in QuickJS only.
- `querystring.parse()` with `maxKeys: 0` returns `{}` in QuickJS
  (`external/qjs_query_string_module.c:88`).  QuickJS decodes `r.args` before it
  splits them and skips empty names.  A torn escape of UTF-8 loses or moves the
  byte that follows it (`Torn`).

## Proofs

`SharedDictProofs`, for every zone, set of workers, keys, values, timeouts and
batch size:

- `TypeCorrect`, `TreesAlwaysAgree`, `NothingLeaks`: `Spec` implies that
  `TypeOK`, `TreesAgree` and `NoLeak` hold always.

The properties speak of the zone between calls; the argument is about the zone
inside of one.  `Consistent(s, X, R)` says that zone `s` is sound except that
the nodes of `X` are out of the expire tree and the units of `R` belong to no
node yet.  There is a lemma for each internal operation: freeing, allocation
with eviction, insertion, update, each with the `X` and `R` it starts from and
ends with.  `ngx_js_dict_update()` is the case with `X = {k}`: the node being
updated cannot be evicted because it is not in the expire tree.
`ngx_js_dict_add_value()` is the case with `R = {c}`.  The inductive invariant
is `Consistent(sh, {}, {})` with the types of the clocks.

`SharedDictStateProofs`, for any number of workers, calls, errors, deaths and
restarts:

- `TypeCorrect`;
- `SavesExclude` (`OneWriter`), `FileAlwaysComplete`, `NoCallForgotten`
  (`CleanMeansSaved`), `FileNeverGoesBack` (`FileAdvances`), all under the
  assumption `Indivisible`, for the reason given under Findings.

Neither `OneWriter` nor `CleanMeansSaved` is inductive.  The invariant adds
who holds the lock in each state (`LockOK`), what the flags say while a worker
renders and while it writes (`FlagsOK`), and what the snapshot and the two files
hold at each step (`SnapshotOK`).

Its second part, about what the calls do to the entries:

- `DictionaryImplementsMap` (`ImplementsMap`): `Spec` implies the specification
  of `ExpiringMap` under the refinement mapping of `SharedDict`;
- `FailedCallsKeepEntries` (`FailedCallKeepsEntry`), `IncrNeverMovesExpiry`
  (`IncrKeepsExpiry`), `ReadersAlwaysAgree` (`ReadersAgree`).

A call removes entries for three reasons: they have expired, they are evicted, or
the call says so.  Each internal operation has a lemma that says which entries
are gone after it and why; the lemmas compose because what is evicted is a prefix
of the expire tree, and a prefix of what is left of a tree after a prefix has
been removed is a prefix again.  A failed allocation evicted all it could, so
that an evicting zone gives up with nothing but the node of the key in question.

`HttpClientProofs`, for any number of fetches, hosts, addresses, connections,
any answers of servers, early ones and aborts included:

- `InvHolds`: the inductive invariant `Inv`;
- `ConnectionsAlwaysOwned` (`ConnectionsOwned`), `LastIsAlwaysLast`
  (`LastIsLast`).

`ConnectionsOwned` speaks of open connections and is nearly inductive.
`LastIsLast` is not: that a connection in the cache saw no last response follows
only from what is still on its way.  The invariant follows the tokens: what a
connection carries, together with what its fetch has in the buffer and has read
already, is a prefix of what a server sends (`Linked`, `StreamOK`), at most one
response is in the middle (`Midway`), and what the parser has recorded of a
response is what it has read of it (`HttpOK`).  The parser is a function of
the buffer; the lemmas of the module show what it records for any buffer in that
order, cut anywhere.  Closing a peer passes through states in which a fetch has
already given its connection away (`AlmostInv`).

`PromiseProofs` and `PromiseOutcomes`, for every program, whatever the script does:

- `InvHolds`: the inductive invariant;
- `AlwaysTyped` (`TypeOK`): among the rest, every reference of a job, a cell, a
  handler, a context or an aggregate has its target;
- `OneWayAlways` (`OneWayToSettle`), `SettledStays` (`SettledForGood`),
  `UnhandledAlwaysReported` (`UnhandledReported`);
- `ReactionsAlwaysKept` (`ReactionsKept`);
- `OutcomesAlwaysMatch` (`OutcomesMatch`), in `PromiseOutcomes`.

`Sound(s)` says that the engine's state has its types, that every pending promise
has one way to be settled (`OneWay`) and that a rejection without a handler is
in the list of the host (`Listed`).  `OneWay` breaks and is restored in two places:
when a thenable is put off (the pair of functions is spent, the job takes its
place) and when the job runs (`ThenableSound`: the job was the only way, so the
new pair is the only one).

`ReactionsKept` compares what has run with what was registered, and between the two a
reaction is in the list of a promise, then in the queue.  `Placed` follows it: it
waits while its promise is pending and has a turn (a job, or a place among what has run)
afterwards, and both the list of each promise and the turns are in the order of
registration.  That a later reaction cannot overtake an earlier one needs both
halves: what is registered on a settled promise gets the next turn
(`PlacedTurn`), and what waits when the promise is settled is newer than all the
turns its promise has had, because it has had none (`PlacedSettled`).  `Awaited`
says which reaction resumes a context: exactly one as long as the context is
live and not `Running`, none otherwise.  A context that awaits twice would have
two, one that is freed while it waits would be resumed after its end.

An operation of the engine calls others, and each of them passes from a `Good`
state (`Sound`, `Placed`, `Awaited`) to a `Good` one: `Grows(s, t)` adds what
no operation undoes: promises stay settled, and what exists keeps its number.
Both compose, so each function of the code has one lemma that cites those of
the functions it calls.  The loop of `Promise.all()` and its kin is a
fold over the elements; `IteratesExists` shows that what holds before and is
kept by one turn holds after the last.

`OutcomesMatch` looks at a promise when it is settled, but what settles it was
decided when its handlers were registered, and the handlers pass through lists and the
queue on the way.  The invariant `Claims` says for each promise what it is claimed
for: by a list (`AggregateOf`), by `finally()` (`FinallyOf`), or to
wait for what the callback of `finally()` returned (`InnerOf`).  A claim
allows some outcomes (`Fits`).  Every handler that is registered, in a list or in the
queue, leads only to outcomes that the claims of its promise allow (`Routes`): it hands
on the outcome of one it may follow (`Into`), derives a promise (`Derives`) or
is an element function at the place of its own input (`Member`), and the values that element
functions have collected are those of the inputs (`Lists`).  Scripts get hold
of nothing that settles a promise with a claim (`Frees`), which is why they may
do whatever they like meanwhile.  A promise claimed for a list has no other
claim (`Apart`).  While the callback of `finally()` runs its handler is in
neither list nor queue, so `FrameHeld` says what is due to it then.  From this it
follows that a promise is settled as its claims allow (`AllFit`).  The history of
`finally()` records the promise that its callback returned (`via`) and the one that
waits for it (`inner`).

An operation either makes no claim (`Follows`) or makes one on a promise it has
just created; what scripts do in between leaves the promises with claims alone
(`Spares`, `Leads`).

`HttpRequestProofs`, for any locations, calls and habits of scripts, and any
number of calls:

- `InvHolds`: the inductive invariant;
- `AccessAlwaysDecides` (`AccessDecides`);
- `EnginesAlwaysAgree` (`EnginesAgree`), when calls have arguments that both
  engines take for the same (`Comparable`).

`granted` is set in one place, when the access handler of a request returns, but
the handler is called from many: from the phase engine, at once or when the
request is resumed by a timer, a subrequest, the body or the connection.  What
excludes an answer that slips through is the stack of calls in progress.  The
function of the access phase and its wait for the body are the outermost call
(`Nested`), so that nothing is left to happen after them; no such call exists
before the phase, while the body is read, or after the function failed
(`Closed`); and a function that failed is answered by a call of output that ends in
`ngx_http_finalize_request()`, which takes the handler of the access phase away
before it can run again (`Answering`).  Each method of a request has one lemma,
which cites those of the functions it calls, in both engines.

`Comparable` is a hypothesis on `Calls` and leaves out the differences listed
under Findings, each of which makes the property false; the run's calls satisfy it.
With it the two versions of a method are equal as functions of the state, except
for the getters of the request body, which compare what they keep in different
ways and need to know what that can be (`Kept`).

`StreamSessionProofs`, for any configurations, calls of scripts and numbers of
calls and chunks:

- `TypeCorrect` (`TypeOK`): among the rest, no filter runs inside of a filter;
- `DataIsKept` (`NothingLost`), `PhasesDecide` (`PhaseDecides`);
- `WaitsAreAnswered` (`WaitsForSomething`): a phase that waits has a timer, a read
  or an upload callback, unless a download callback is all it set; when scripts
  keep to one type of data (`OneType`).

`NothingLost` looks at a session at rest, when all that came has gone out or was
taken; while a filter runs, the data is in three places: what has gone out, the
chain the filter is building, and the buffers it has not seen.  `Flowing` relates
them to what came and to what callbacks took: put one after the other they are the
numbers of the chunks in order, without those taken, and a callback that is running
is looking at the first of the unseen.  What scripts make themselves is no data
(`Silent`) and may be put in anywhere.  Each way in which data moves has a
lemma: it comes, a buffer is passed on or taken, a script sends into the chain or
around it, the chain goes out.

What keeps the directions apart is the shape of the stack: a filter in progress is
the outermost call, and the callbacks its loop makes stand directly on it
(`Frames`); phases are outermost too and run only while theirs waits
(`Places`).  `Sound` joins these with the types and with `Flowing` for both
directions; `Awaits` says that a session that waits has something set.  Every
step keeps them, and passes a phase only when its function is done (`Passes`).
There is one lemma for each function of the code, in both engines.

`OneType` is a hypothesis on the constant `Calls`: `on()` and `off()` name events of
one type of data, and `on()` is given a function.  The run's calls satisfy it.
Without it the property fails for the reason given under Findings: an `on()` that
throws leaves a type behind, which is counted as a pending event, and no
callback will ever answer it.

The proofs assume what the `ASSUME`s of the modules say of the constants, and no
more; TLC evaluates these on every run.

Only model-checked:

- Liveness and the `ENABLED` it needs, which are out of the prover's reach:
  `EventuallySaved`, `ReactionsRun`, `EventuallySettled`, `Finishes` and the
  rest; likewise `NothingStuck` of `Promise`.
- `ResponseIsMine` and `ResponseIsWhole` of `HttpClient`.  They hold only where
  no fetch is aborted and no host has a second address (see Findings), so no
  theorem about every instance states them.
- `OwnersKnown` and `Answered` of `HttpRequest`.  `Answered`
  needs, besides the stack, that every event somebody waits for has an owner.
- `EnginesAgree` of `StreamSession`, which compares what two calls return and
  would need the effects of both engines spelled out, not only what they keep; and
  `DecisionsCount`, which is liveness.
- Everything about scripts, texts, buffers and objects (`JsCode`, `JsParser`,
  `MCBuiltins` and what they are made of): these use `RECURSIVE` operators and
  walk trees, chains and texts by recursion; the prover cannot follow that.

## Not modelled

- The built-in objects and the modules for files, cryptography, XML and
  compression: pure functions or wrappers whose reference is a language standard
  or a library.
- The characters of tokens, templates, regular expressions; accessors, classes of
  native functions, the conversion of objects in the interpreter.
- QuickJS itself, an external library.
- TLS and proxies of the HTTP client.
- The JSON text of the state file, and a reload that changes the parameters of a
  zone.
- The form parser, the containers and the memory pool.
- Exhausted memory in the heap of a script.
- Periodic handlers, the reuse of contexts, configuration.

## Plan

Done: shared dictionaries, promises, the HTTP client, requests and sessions, each
with the theorems that need an inductive invariant; parser, generator and interpreter, buffers, headers, fetch objects and query
strings.

Next, in this order:

1. `OwnersKnown` and `Answered` of `HttpRequest` as theorems.
2. The codec and loader of the state file, and the reload of a zone whose
   parameters change.
3. TLS and proxies in `HttpClient`.
4. The reuse of contexts and periodic handlers.
5. The form parser, the flat hash and the memory pool, checked against
   reference definitions.
