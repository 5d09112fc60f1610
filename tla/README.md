# A verification of just-weather-client in TLA+

The program under `src/` is a small weather client in C: a command line (and an interactive
mode), a weather client, an HTTP client over a non-blocking TCP client, and a cache of server
answers kept both in memory and in a directory. It is single-threaded, but it is not alone:
every process of the user shares the cache directory, each process holds its own list of
entries, and the kernel and the server decide what every socket call returns.

This directory holds TLA+ modules translated from that code, the TLC configurations that check
them, and proofs that TLAPS checks. File names below are relative to the repository's root as
`src/`, so that `client_cache.c` is `src/src/utils/client_cache.c`.

## 1. The system

| component | code | state | operations |
|---|---|---|---|
| client cache | `utils/client_cache.c` | list of entries (key, text, creation time, TTL); the files in `src/client/cache` | `create`, `destroy`, `set`, `get`, `clear` |
| TCP client | `network/client_tcp.c` | descriptor, connection state | `create`, `connect_async`, `send_async`, `recv`, `close`, `destroy` |
| HTTP client | `network/http_client.c` | status, body, body size, a TCP client | `create`, `get`, the getters, `destroy` |
| weather client | `api/weather_client.c` | server's host and port, an HTTP client, a cache | four requests, `echo`, `clear_cache`, `set_timeout`, `create`, `destroy` |
| linked list | `utils/client_list.c` | head, tail, size, nodes | `create`, `append`, `insert`, `remove`, `pop`, `get_index`, `clear`, `dispose` |
| utilities | `utils/utils.c` | none, but the configuration file | validation, URL encoding, key normalisation, load and save of the configuration |
| command line | `cli.c`, `main.c` | the session's client | one command, or a loop of commands |
| MD5 | `utils/hash_md5.c` | the digest under construction | name of a cache file |

How they interact: `main` creates a weather client and calls `cli_execute_command`, which
calls one request of the weather client. (Interactive mode creates a second client in the same
process and never destroys it.) Every cached request ends in `make_request`: look into the
cache; on a miss call `http_client_get`; parse the body; unless it is a refusal
(`"success": false`), store it in the cache and return it. `http_client_get` opens a
connection, sends, receives until `recv` would block, closes, and parses. The cache keeps its
entries in a linked list, and for each `set` also writes a file named by the MD5 of the key.

What is hard about it, and what makes it correct:

- **Two clocks and two copies.** An answer has an age in memory and another one on disk. How
  old can an answer be that is served? Can a process be served something older than it was
  served before? Does a clear reach what other processes still hold in memory?
- **Several processes, no lock.** Calls of different processes alternate; a request is a look-up
  and, later, a store, with the work of other processes between the two. And a call is itself
  several file calls: a `stat` and then an `unlink` or a read, an open that empties the file and
  then a write, a deletion of listed files and then a scan of the directory.
- **Partial failure.** A file may not be writable, a write may stop half-way, a process may be
  killed inside `set` or `clear`, `malloc` may fail after half of an update is done. `clear` looks
  neither at what `unlink` returns nor, but to skip its scan, at what `opendir` does.
- **A non-blocking socket used as if it blocked.** A connect may be in progress, a send may
  take nothing, an answer arrives in pieces and `recv` runs dry between any two of them.
- **State that stays between calls.** One HTTP client is used for many requests: status, body
  and size are set at different places, with failures in between.
- **Bytes that end anywhere.** The parsers of headers and chunks get whatever beginning of an
  answer had arrived, and its body may contain line ends and digits.
- **Keys made of texts.** Answers are shared between questions by a key that folds case and
  separators and is cut to the size of a buffer, while the path that asks the server is encoded
  and cut elsewhere.
- **Ownership.** A command allocates a result or a message, and encoded texts and keys on the way.
- **Pointers.** Two chains of pointers, a head, a tail and a size, set in different branches.

`PROJECT.json` lists these hazards one by one, each at the line where it bites, with the
properties that watch it or the reason why none does.

## 2. The modules

| module | models | abstractions |
|---|---|---|
| `ClientCache` | the cache of every process, and the directory | one step per call of the API; one file name per key (MD5 without collisions); the list as a sequence; a document is when it was fetched, how many clears came before, and what it says |
| `ClientTcp` | the TCP client and the kernel's side of its socket | one address per host, since only the first is tried |
| `HttpClient` | `http_client_get` over `ClientTcp`, one action per kernel call; it extends that module | an answer is a status, a framing and a number of body units, and its bytes are counted in tokens; see below |
| `HttpContract` | what a caller of `http_client_get` may rely on; `HttpClient` implements it | |
| `SharedCacheDir` | the cache with its calls interleaved at every file call; it extends `ClientCache` | memory is available and `unlink` succeeds; a document is written by one `write` |
| `CallsAlone` | `SharedCacheDir` with one call at a time; it implements `ClientCache` | |
| `ResponseParser` | `receive_response`, `parse_headers` and `decode_chunked` over bytes; its tokens are those of `HttpClient` | a word of the protocol is one character; answers are well formed; memory is available |
| `Requests` | validation, URL encoding, normalisation, the path and the key of each request: pure operators | a few characters stand for their kind; coordinates are integers |
| `Session` | `main` and `cli.c`: commands, answers from the cache or the server, messages, ownership; it extends `Requests` | the directory as the set of requests whose answers it holds; one server; memory is available |
| `WeatherClient` | `make_request` and `echo` over the cache; it extends `ClientCache` and uses of the HTTP client what `HttpContract` promises | a request is one of a key; memory is available and `unlink` succeeds |
| `LinkedList` | the list with its pointers | callers pass nodes of the list itself |
| `ItemSequence` | the list as its callers see it: the sequence of `client_list.h`, but for an insert past the end (`InsertPastEnd`), which the header refuses and the code appends; `LinkedList` implements it | |
| `MC...` | symmetry and sets of answers for TLC | |
| `...Proofs` | the theorems about the module of that name; those about `ClientTcp` are in `HttpClientProofs` | |

Operators that stand beside a definition and name a plausible mistake (`VictimsStay`,
`FinishEmptyOk`, `HttpFailureIgnored`, ...) are mutations: no specification uses them, and
`PROJECT.json` says which property each of them breaks.

### ClientCache

`entries[p]` is the list of process `p`, oldest position first, as `linked_list_append` leaves
it; `files[k]` is the file of key `k` with its modification time, or `None`; a file that was
written half-way holds `None` for its document and is skipped by `load_from_file`. Every
function of `client_cache.h` is one action. `client_cache_get` is split by the place the answer
comes from: `GetHit`, `GetFileGone`, `GetExpired`, `GetFromDisk`, `GetMiss`, `GetOutOfMemory`;
`client_cache_set` is `Set` and `SetOutOfMemory`. `KilledInSet` and `KilledInClear` end a process
between two file calls. A "process" is one holder of a cache: the two clients of interactive mode
are two of them. Dropping an old entry, evicting and saving belong to the one action `Set`, in
the order of the code: eviction looks at the list from which the key's old entry is already gone.

`Faults` says what may fail: `"save"` (the file cannot be opened; also what happens when
`src/client` does not exist, because `mkdir` is not recursive), `"torn"` (the write stops
half-way), `"alloc"` (`malloc` or `strdup` returns `NULL`), `"unlink"` (a file cannot be removed,
which no caller looks at) and `"scan"` (`opendir` fails). `Deletions` and `Unlinks` are the outcomes
of deleting files under these. `client_cache_clear` is `Clear`, and `ClearFails` when a file call of it
fails: without the directory only the files of the process's own list are deleted, and of a scan some
may stay.

History variables carry what the properties speak of: `clears` and `since` number the clears,
`seen[p][k]` is the fetch time of the newest document `p` stored or was given for `k`, `spared` are
the documents that a failing clear left in the directory, and `ret` is the last call with its result.

### SharedCacheDir and CallsAlone

`step[p]` is the next file call of process `p`, `arg[p]` the key and the document of its call,
`todo[p]` the keys whose files a clear has still to remove. `client_cache_set` is `SetStart` (up
to `save_to_file`: the list is changed, the victim unlinked), `SetOpens` (`fopen` with `"w"`,
which empties the file) and `SetReturns` (the write). A descriptor is on the file and not on its
name: when another process unlinks the file, what `p` writes is lost (`"lost"`); when another
has written through the same name meanwhile, the two documents lie over each other and do not
parse (`"overwrite"`). `client_cache_get` of a listed key makes at most one file call and is one step
(`GetListed`). A load is `LoadStat`, and then either `LoadUnlinks` (of whatever the name stands
for by then, and also when `stat` found no file) or `LoadReads`. `client_cache_clear` is
`ClearStart`, one `ClearOwn` for each listed key, `ClearScans`, one `ClearFile` for each file,
`ClearReturns`, or, when `opendir` fails, `ClearCannotScan` in place of the last three; `readdir` may or may not show a file that was made during the scan. A process may
end between any two of these steps. `late` is a history variable: the documents whose `set`
overlapped another `set` or a `clear`.

In `CallsAlone` one call is under way at a time, within a tick. `before` remembers list and files at
its beginning, and the refinement mapping shows those to `ClientCache` until the call returns: all
its file calls together are then the one step, and a kill between two of them is `KilledInSet` or
`KilledInClear`.

### ClientTcp and HttpClient

`fd`, `state` and `sockets` are the descriptor, `TCPState` and what the kernel knows of each
descriptor. `tcp->state` is left alone by `client_tcp_close`, as in the code. The steps of
`http_client_get` are: the connect (`GetConnects`, `GetWithoutConnection`), the send
(`SendFails`, `SendWouldBlock`), one step for each `recv` (`RecvData`, `RecvFails`, `RecvEnd`,
`Drained`) and the end that parses (`FinishEmpty`, `FinishUnparsed`, `FinishOutOfMemory`,
`FinishDecoded`). Between them the peer and the kernel move. `body` is the body that the getters
hand out. Earlier bodies, whose pointer was overwritten, stay allocated for ever (`http_client.c:49-51`
frees the current one only) and are not counted. `dropped` is a history variable: a `malloc` that failed
for a plain body has left no body and an older size.

The bytes of an answer are counted in *tokens*: the beginning and the rest of the status line,
the headers, and then body units, or a size line and a chunk for each unit. `parse_headers` and
`decode_chunked` behave alike on all prefixes that end within the same token, so
`got` in tokens is enough to say what each of them makes of what was received;
`TokensSuffice` of `ResponseParser` says exactly this, with the operators of `HttpClient`. It is checked and
proved, and so is that the count is exact (`TokensAreExact`): more bytes are never fewer tokens, and every
count up to `Tokens(resp)` is that of some beginning of the bytes.
The peer may send before it has the request; without that the code as it is could never
succeed (see the findings).

### WeatherClient

`pc[p]` is where `make_request` of process `p` stands: `"idle"`, `"http"` after a miss,
`"store"` with a parsed answer. `http[p]` is the body that the HTTP client of `p` holds, which
stays from one request to the next. `LookUp` is `client_cache_get` with what follows when it
hits; `HttpGives` and `HttpFails` are the two outcomes of `http_client_get` that `HttpContract`
allows, with the parsing that follows; `Store` is `client_cache_set` and the return. All other
processes may move in between, and the clock may tick, at most `MaxCall` times in a call. A
body is `"answer"`, `"refused"` or `"cut"` (not JSON); an error page that is JSON without a
`success` field is an `"answer"`, because the code treats it as one.

### ResponseParser

`received` is `full_response`, a beginning of `Bytes(answer)`, `pos` where `decode_chunked`
stands, `body` what it has decoded. `Receive` and `Drained` are the loop of `recv`;
`ParseHeaders` is `parse_headers` with the search for the body; every turn of the loop of
`decode_chunked` is one of `DecodeChunk`, `DecodeEnds` and `DecodeFails`. `strstr` and `strtoul`
are `Find` and `Number`. `ChunkSize` is what `strtoul` returns, at most `SizeMod - 1`, and `DataEnd` adds it
to the position modulo `SizeMod` (2^64 in the code), as `pos + chunk_size` does. As in the code, the word "chunked" is looked for from the header
`Transfer-Encoding` to the end of everything received. `Byte` is what bodies and header lines are made of:
anything but a NUL, at which `strstr` would stop. An answer is well formed (`AnswersAssumption`): its status is
a number of three digits, or its first line is not HTTP; a header `Transfer-Encoding` names "chunked"; its
chunks are not empty; and an answer has fewer bytes than `SizeMod` (`SizeAssumption`). A size line may carry an extension, and numbers are printed by `Numeral` and read
back by `Number`, digit by digit.

### Requests and Session

A text is a sequence of characters from a few kinds: letters of both cases, the separators that
`normalize_string_for_cache` folds (a tab is one more of them), an unreserved sign. What the code
writes between the fields of a key is one character, so that a text may contain it. Each request is
a record of its arguments, whether it goes as far as the cache, its target (what it writes behind host and
port) and its key. `Path` is what is left of the target in two buffers: `parse_url` keeps 511 characters of
any path (`PathRoom`), and before it `char url[512]` keeps what fits behind scheme, host and port
(`UrlRoom`, 489 for `http://localhost:10680`); only the url of a weather request is longer. `Allocates` and
`Frees` count the strings that each request makes for its call of `make_request`, the encoded text and
the key, and those that it frees after it.

A command of `Session` is three steps: reading (`ReadArguments` for `argv`, `ReadLine` with
`strtok` for the loop), asking (`Reject`, `AnswerFromCache`, `AnswerFromServer`, `EchoAnswers`,
`Fail`, `ShowUsage`, `ClearCache`) and `Show`, which prints and frees. `heap` counts live objects of
the process by kind: clients, results, messages, and the texts of requests; `homepages` is a history variable, the
requests of homepage so far. Interactive mode makes a second client and loses it, with the result of its
first echo. `cache` has at most one answer for a key; a file may go at any time (`LoseFile`), be it
expired, evicted, torn or cleared elsewhere. What a process still has in memory is not
distinguished from the file, which a hit needs (`HitNeedsFile`).

### LinkedList

`node[n]` is what is allocated at address `n`. `linked_list_get_index` walks from the nearer
end, so that `FromHead` and `FromTail` are both used. `insert` and `pop` take any index,
`remove` any node of the list. `calloc` may fail.

## 3. The runs

| run | instance | states | what it shows |
|---|---|---|---|
| `cache_shared` | 2 processes, 2 keys, room for 1, saves fail or are torn, kills | 442 910 | everything the cache promises its processes while they share the directory |
| `cache_alone` | 1 process, 3 keys, room for 2, 1 clear, exhausted memory, `unlink` and `opendir` fail | 634 228 | what `set` drops, evicts and keeps, the age bound and what a clear leaves, whatever fails in memory and in the directory |
| `http` | 2 requests, 2 descriptors, 5 answers, `malloc` may fail | 18 136 | descriptors, status, body and size; every call returns; `HttpContract` is implemented |
| `list` | 5 nodes, 2 items | 1 158 | both chains of pointers agree, nothing leaks, the list is `ItemSequence` |
| `weather` | 2 processes, 1 key, 1 clear, calls of up to 1 tick | 1 742 831 | only proper answers are cached, only a request's own answer is stored, and how old an answer may be |
| `files_shared` | 2 processes, 1 key, 2 calls at a time of up to 1 tick, saves fail or are torn, `opendir` fails, kills | 3 277 156 | what is left of the cache's promises when calls overlap |
| `files_alone` | 1 process, 2 keys, room for 1, 2 clears, saves fail or are torn, `opendir` fails, kills | 778 393 | file calls that nothing interrupts implement `ClientCache` |
| `parser` | every beginning of 2004 answers | 191 307 | the tokens of `HttpClient` lose nothing, and a body handed out is the server's |
| `session` | 2 commands, about 270 arguments, 41 lines | 990 502 | who shares an answer with whom, what the server is asked, what is freed |

Why the bounds are enough. The TTL is 1 tick and the clock reaches 3 (4 in `weather`), one more
than the two lives in a row that `ServedWithinTwoTTL` bounds (and one call in `AnswerAge`), so a
violation by one tick would be seen. Room for one entry with two keys, or two with three, makes
`set` evict and lets loads from disk take the list past its limit. Two processes are what
a directory needs to be shared: one that holds a stale copy and one that writes. One clear
suffices to be seen behind. Two requests let a second one
fail over what the first left; the answers include a plain and a chunked one, an error, a
status out of range and a line that is not HTTP. Five nodes give `get_index` both halves for odd
and even sizes. In `weather` no save fails and no process is killed half-way in a write, because
`cache_shared` covers these; the contents do not interact with them. Which faults a run has is divided so that each
fault meets the properties it could break: `cache_shared` has those of saves, `cache_alone` those of memory and
of deleting, the two runs of file calls those of saves and of the scan. `NeverGoesBack` and `HitNeedsFile` do not
hold with all of them, and the theorems say which they need.

`files_shared` has one key, since files of different keys do not interact but through eviction,
which `files_alone` has with two. Its two processes are in calls at the same time, one of which may
last from one tick to the next, and the clock reaches 3, so that files expire in the middle of
loads. `files_alone` has one process, because its calls do not overlap; two processes with a
shorter clock pass as well. `parser` has up to two chunks, of 1, 2, 4 and 17 bytes (two
hexadecimal digits), each made of line ends and zeros, and plain bodies that contain the end of
headers and a header; it may stop, when the parsers return. `SizeMod` is 128 there, more than the longest
answer and less than a size line could say. In `session` the buffer for
normalised texts has room for 3 characters and texts are up to 4 long, a path has room for 10, or for 9 when it
comes through the shorter url buffer, and a city is accepted up to 3: each of these ends is met from both
sides, and paths are cut within an escaped character too. The first command leaves an answer
behind and the second one, perhaps of another process, meets it.

The three runs that must fail each check one sentence of a header against the code:

| run | the header says | the code |
|---|---|---|
| `cache_ttl_doc` | expired entries are misses | a load from disk starts the TTL again |
| `http_complete_doc` | blocks until the response is complete | the first `recv` that would block ends the response |
| `http_asked_doc` | 0: the request was completed | the byte count of the send is taken for an error, so only requests that were not sent are waited for |

### Fairness

`HttpClient!FairSpec` assumes weak fairness of `Continue`, the client's own steps within a call.
The code justifies it: the socket is non-blocking, so no `send` or `recv` waits and the process
can always take its next step; the operating system schedules it. Nothing is
assumed of the peer, which may stay silent for ever. An answer has finitely many bytes; with an
endless one the loop of `receive_response`, which has no deadline, would not end, and
`CallsReturn` is not claimed. The other modules have safety properties only: a
call there is a step, or ends in the environment.

Every run checks for deadlock, but `parser`, whose one call returns.

## 4. What the properties say

- `ServedWithinTwoTTL`: a `get` never returns what was fetched more than *twice* the TTL ago.
  This, and not the one TTL of the header, is what holds: the file and then the entry each
  allow the document its whole life. `AnswerAge` is the same for a whole request: one call more,
  because a slow request stores an old answer with a new date.
- `NeverGoesBack`: within its life a process is never given an older document for a key than
  it had, whatever the others, failed saves and crashes do, as long as memory is available and a
  victim's file goes with its entry. It holds of calls of the cache. It
  does not hold of whole requests, since another process may store what it fetched earlier;
  `AnswersGoBackOneCall` says how far back an answer may then go: one call.
- `ClearIsFinal`, `HitNeedsFile`: what was cleared is not served any more, to the process that
  cleared and to those that start later; another process loses its copy when it finds the file
  missing, unless somebody has stored the key again meanwhile. The exception is what a clear itself
  left behind: when its `opendir` or an `unlink` fails, the documents still in the directory (`spared`)
  may be served again, and the caller is told nothing. This holds between whole calls. A
  request of *another* process that is between its fetch and its store when the clear comes puts
  its answer back.
- `ClearLeavesOnlyLate`, `GoesBackOnlyToLate`: what is left of `ClearIsFinal` and `NeverGoesBack`
  when the calls of two processes overlap file call by file call. Both break, but only by
  documents whose own `set` overlapped another `set` or a `clear` (`late`): a scan misses the file
  of a `set` that is about to open it, and a delayed `set` writes an older document after another
  process's newer one. A clear that cannot scan the directory leaves more (`spared`). Without these
  exceptions TLC finds either within seconds. What does
  *not* break them is as interesting: the `unlink` of `load_from_file` may remove a fresh
  document of another process, which costs a fetch and serves nothing old.
- `ImplementsCache`: the steps of `ClientCache` are what the file calls amount to.
- `UniqueKeys`, `CreationOrder`, `EvictsOldest`, `ReplaceKeepsOthers`, `SetRespectsLimit`: the
  list and its limit. Eviction is first in, first out, and not the least recently used one that
  `client_cache.h:10` and `:47` announce (section 6).
- `NoDescriptorLost`, `SendsOnlyWhenConnected`, `OnlyConnectingOutlivesCall`: descriptors.
- `SuccessIsOwn`, `SizeMatchesBody`, `CallsReturn`, `ImplementsContract`: what a caller of the HTTP
  client gets. `SizeMatchesBody` has one exception, which the code has: after a `malloc` that failed for a plain
  body there is no body and the size is an older one's.
- `StoresItsOwn`, `OnlyAnswersCached`: a failed call never lends an earlier body, and neither
  refusals nor halves are cached.
- `TokensSuffice`, `BodyIsSent`: whatever the body looks like and wherever the bytes end, success,
  status and body are those of the whole units that have arrived.
- `AnswersTheQuestion`: an answer from the cache is the server's answer to a request that asks for
  the same, as defined by words and printed coordinates and not by keys (`SameQuestion`). It holds for
  requests that `Fits`: texts that fit their buffers, contain no label of a key, and make a path that is not
  cut. Beyond that it fails: texts that agree in what the buffer holds share a key and an answer, and a city
  typed as `a:country=b` has the key of the city `a` in the country `b:country=`.
- `SpellingsShare`: the converse; no request is sent when an answer to one that asks for the same is
  cached.
- `AsksWhatWasTyped`: what reaches the server decodes to the text as it was typed, or to its beginning
  where a buffer cuts the path. The code writes `+` for a space: a server that takes a plus for a space, as
  forms do, reads what was typed; one that decodes by RFC 3986, which `utils.h` names, reads a plus for every
  space. The property states both (`Readings`).
- `CommandFreesItsOwn`: on every path of every command its result, its message, its encoded text and its
  key are freed; what remains is one text for each request of homepage, and the client and the result that the
  start of the interactive mode loses.
- `DirectionsAgree`, `NodesReachable`, `ImplementsSequence`: the list.

## 5. What is proved

TLAPS checks these for every value of the constants that the modules' named assumptions allow.
Every inductive invariant also holds of all states of the module's run, as TLC confirms (with the orders
in `ListInv` and the questions in `RequestInv` taken from finite sets). A theorem's property is given in
brackets where the names differ.

**`ClientCacheProofs`**, for any set of processes and keys, any TTL and limit of at least 1, any
faults. None of the safety properties is inductive. The invariant `IInv` adds to `TypeOK` and
`UniqueKeys`: `FilesInv` (a file was written when its document was fetched, and since the last
clear), `EntriesInv` (an entry's document was fetched at most one TTL before the entry was created,
and is not from before the clears that its process must not see behind), `SinceInv`, and `DownInv` (a
process that is not up has an empty list). It is carried by lemmas about the two list operations
(`RemoveEntry`, `AppendFacts`) and about files (`FilesStep`), one lemma for each action, and gives
`Invariance`, `TypeCorrect`, `NoDuplicates`, `BoundedStaleness` (`ServedWithinTwoTTL`) and
`NothingFromBeforeClear` (`ClearIsFinal`). `ClearsLeaveNothing` drops the exception of that property for a
directory whose file calls in `clear` succeed (none of `"alloc"`, `"unlink"`, `"scan"`). `MonotonicReads`
(`NeverGoesBack`) needs a second invariant, `SeenInv`, which relates what a process has seen to its entry or
to the file. It assumes that neither memory is exhausted nor an `unlink` fails, and does not hold
without: when `set` fails half-way, or the victim's file stays, an older file is read again. `HitsHaveFiles`
(`HitNeedsFile`) assumes that memory is not exhausted. The second part is about
the list and its limit: the order of creation is kept by every list operation (`FirstInFirstOut`
[`CreationOrder`]), and from it, with the number of elements that `Without` and `Evicted` leave, follow
`SetWithinLimit`, `ReplaceIsLocal` and `EvictionIsOldestFirst`.

**`WeatherClientProofs`**, for any length of a call. `IInv` does not hold of whole requests, since a
request stores what it fetched some time ago; so the cache's calls are described again by what they
may *add*, whatever is stored (`Adds`, `Leaves`, `Serves`). `WeatherInv` says that a file's document was
fetched at most one call before the file was written, an entry's at most a TTL and a call before the entry
was created, that both are whole answers, and that a call in progress will store what it fetched
itself. It gives `RequestsStoreTheirOwn`, `CacheHoldsAnswers` and `AnswersAreBounded` (`AnswerAge`);
`AnswersNearlyMonotonic` (`AnswersGoBackOneCall`) needs `NearInv` beside it.

**`SharedCacheDirProofs`**, for any number of processes with any number of calls under way. The idea of
`DirInv`: a `set` that overlaps no other `set` and no `clear` is the only one that writes, and its
document is the newest there is (`AloneInv`, `NewestInv`); whatever else is in a list, in a file or on its
way into one is of the current era or late (`EraInv`); what a clear has not removed yet is on its list
(`SweptAt`); and what a process would be given next is no older than what it has seen, or late
(`RecentAt`). It gives `ClearsAreFinalButForOverlaps`, `ReadsGoBackOnlyToOverlaps` and
`DirNoDuplicates`. Saves and scans may fail; memory is available and `unlink` succeeds (`FileCallsAssumption`).

**`CallsAloneProofs`**: `CallsAreSteps`, that file calls which nothing interrupts implement `ClientCache`.
The invariant `CallInv` says what the list and the directory have become since the call under way began,
from what they were then (`before`) and how far it is; every file call but the last is a stutter of the
abstract cache, the last one or a kill is the abstract step. It assumes that a save may be torn
(`KilledAssumption`): a kill after `fopen` has emptied the file is `ClientCache`'s torn save.

**`HttpClientProofs`**: `TcpCorrect`, from the inductive `TcpInv`. Every step of the HTTP client is a step of
the TCP client or leaves it alone (`UsesTcp`), so that invariant carries over (`NoLeak`,
`NoEarlySend`). `HttpInv` adds that a call under way has a connection and a number; it gives
`TypeCorrect`, `OthersClose`, `OwnAnswer` and `BodyIsSound`. `MeetsContract` shows
that the HTTP client implements the safety part of `HttpContract`: `Init` maps to `Init`, and every step
to a step or a stutter.

**`LinkedListProofs`**, for any finite set of addresses. `ListInv` says that the nodes of a list are a
*chain*: there is an order of all allocated nodes in which every `front` leads to the next one and every
`back` to the one before. Both walks meet the nodes in that order (`FromHeadFacts`), so that `get_index`
finds the same node from either end; appending, inserting and unlinking each have a lemma that gives the
new order. `BothDirections`, `NothingLeaks` and the refinement `ListIsSequence` follow.

**`ResponseParserProofs`**, for any well-formed answers, with any number of headers and chunks of any length
made of any bytes, and any size of the buffer. `TokensSuffice` and `BodyIsSent` speak of parsers that are
done, so neither is inductive. `ParserInv` adds that what was received is a beginning of the answer and that
`decode_chunked`, while it runs, stands right behind a whole chunk with the content of the chunks so far in
`body` (`AtChunk`). The step from one such place to the next needs that a search through the bytes stops where
it should. Each place of an answer belongs to one line of the preamble, one chunk or one mark (`Laid`, `Rows`);
a line has no line end within it, so that `Find` stops at its own end (`BreakAt`), and the first empty line is
the end of the preamble, whatever follows it. That a size read back is the size printed is an induction over the
digits (`NumeralText`, `NumberReads`). The theorems are `ParserInvariant`, `TokensTell` (`TokensSuffice`),
`BodyIsTheServers` (`BodyIsSent`), `DecoderCopiesWhatArrived`, that each turn of the loop copies only bytes that
have arrived and moves forward, for which the sum in its guard must not wrap (`NoWrap`), and `TokensAreExact`, which joins the two models: what `HttpClient` can have received is what
some bytes amount to, and conversely.

**`SessionProofs`** has two parts. The first is about the operators of `Requests`, for texts of any characters
and length and buffers of any size. `Words` is a reference definition of what a text says, and two lemmas carry
the rest: `Normalize` is the words of a text joined by `_` if they fit the buffer, and joined words determine
the words. With the layout of each key, in which a label that no text contains marks the ends of the fields,
`KeysTellQuestions` follows: two questions that fit have one key exactly when they ask for the same.
`PathsDecode` is the same for encoding: decoding after encoding gives the text back, character by character, and
of a path that is cut its beginning, since a cut path decodes to a prefix (`DecodedBeginning`). The second part is about sessions, for any arguments, lines and
coordinates. `SessionInv` counts the live objects in each mode (`HeapInv`), the texts of requests among them, and says where requests, results,
paths and cached answers come from (`RequestInv`). It gives `CommandsFree`, and with the two theorems of the
first part `AnswersAreForTheQuestion`, `PathsSayWhatWasTyped` and `SpellingsShareAnswers`.

What the proofs assume of the constants: the sizes are natural numbers, positive where the code has a
positive `#define` (`MaxEntriesAssumption`, `TTLAssumption`, `SizesAssumption`, ...); the values that stand for
`NULL`, "no body" and the like are none of the values they are compared with (`NoneAssumption`,
`NullAssumption`, `NoBodyAssumption`); descriptors are natural numbers; the addresses of list nodes are finitely many
(`NodesAssumption`); the separators and signs that the code names are characters (`CharAssumption`); a
`recv` takes at least one byte (`BufferAssumption`); answers are well formed (`AnswersAssumption`, above) and fit
into memory (`SizeAssumption`). Two more are restrictions that section 6 repeats: in `SharedCacheDir` and
`WeatherClient` memory is available and files can be removed (`FileCallsAssumption`, `FilesAssumption`), and
`CallsAlone` has one call at a time, within a tick (`OneCallAssumption`), which is its subject.

Induction over data. The induction theorems of the library take an operator as a parameter, which the
provers cannot instantiate. Where loops over a text are proved about (`NormalizeLoop`, `PiecesLoop`, the
digits of a number, the chunks of an answer, the walks of the list), the induction is over a *set*: the smallest counterexample of a set of numbers exists
since `<` is well-founded on `Nat` (`UpTo`, `LeastElement`), and a set that holds the empty text and, with each text,
all that are one character longer is the set of all texts (`AllSequences`).

Only model-checked is liveness, `CallsReturn` and the fairness of `HttpContract`, since the prover has no
`ENABLED`. Every other property of a passing run has its theorem.

## 6. What is not modelled

- **MD5**: third-party code without state of the program; each key has a file name of its own.
- **Functions that nothing in the program calls**: `string_trim`, `string_duplicate`,
  `get_current_time_ms`, `valid_price_class`, `json_to_query_string`, and `load_config` and
  `save_config`, which only `test_config.c` uses; `weather_client_set_timeout`, which sets a field
  that nothing reads.
- **Exhausted memory** outside `ClientCache`, `LinkedList` and `HttpClient`; in `Session`, neither
  the keys nor the encoded texts of a request can fail to be allocated.
- **An `unlink` that fails** outside `ClientCache`: in `SharedCacheDir` and `WeatherClient` files can be
  removed. `ClearCache` of `Session` may leave any file.
- **Texts beyond the buffers**: a path keeps 511 characters (`PathRoom`) and most urls fewer (`UrlRoom`), a
  normalised text 255 (`OutSize`), a city 100 (`MaxCity`); `Session` says what happens at these ends, but not
  what `snprintf` does with a country or a region for which the 1024 characters of its url have no room left, and
  a line of more than 1023 characters, which arrives as several.
- **The encoded country and region** of a weather request, which are freed while the url is built
  (`weather_client.c:143`, `:152`) and live in no state of `Session`.
- **Answers that are not well formed**, and a size line that is near the largest `size_t` among them: the sum
  in `decode_chunked` then wraps past its guard (`http_client.c:384`), and what the copy does is undefined.
- **Writes of a document in several parts**: `SharedCacheDir` has a document written at once, or
  torn.
- **Transfer encodings other than chunked**: `parse_headers` would look for "chunked" in everything that
  follows such a header, the body included.
- **A clock that is set back.** An entry would then stay young until the clock catches up.
- Build files, `test_config.c` and documentation keep no state of the running program.

Differences between the documents and the code that were met and have no run, because reading
the line settles them:

- the cache: eviction is announced as LRU (`client_cache.h:10`, `:47`) and goes by `created_at` (`:43-44`,
  `:99`), which a `get` never moves: the entry just read may be the one to go (`EvictsOldest`); a clear whose
  `opendir` or `unlink` fails leaves files that are served again, although it "clears all cache entries" (`client_cache.h:169`) and has
  no result to say otherwise (`ClearIsFinal`); a `get` that loads from disk appends without looking at `max_entries`
  (`client_cache.h:46`; `SetRespectsLimit` says what does hold); `client_cache_set` returns 0 although nothing could be
  written (`client_cache.h:109`), which is always so while `src/client` does not exist, because
  `mkdir` is not recursive; the number of files is not limited (`client_cache.h:14`);
- the HTTP client: the pointer to the previous body is overwritten and not freed
  (`http_client.h:119`); a connect in progress leaves its descriptor open and blocks all later
  calls of the client (`http_client.h:7`, against `OnlyConnectingOutlivesCall`); after a failed call the status may be of the new
  answer and the body of the old one (`http_client.h:150`, `:178`), and after a `malloc` that fails for a plain
  body the size is an older one's beside no body (`http_client.h:184-185`, `:214-215`, against `SizeMatchesBody`
  without its exception); only the first address of a host
  is tried (`client_tcp.h:89-90`);
- the weather client: the TTLs for cities and the homepage are never used
  (`weather_client.h:25-27`); `weather_client_set_timeout` takes any number and nothing reads it
  (`weather_client.h:341`); a JSON error page without `success` is returned and cached as
  data (`weather_client.h:116-121`);
- the command line: a failed command exits with 3 whatever failed, so that coordinates out of range do not
  give 1 and a network error does not give 2 (`cli.h:138-140`); the interactive mode
  says "Connected to: localhost:10680" whatever server was named;
- utilities: `url_encode` is said to follow RFC 3986 and to write `%20` for a space (`utils.h:41-44`, `:69`,
  `:81`), and writes `+` (`utils.c:28-29`, `AsksWhatWasTyped`); `linked_list_insert` at an index out of bounds
  is said to fail with -1 (`client_list.h:124`, `:130-133`), and appends and returns 0 (`InsertPastEnd`);
  normalisation writes `_` where the header says a space, and folds `+` and `_` too
  (`utils.h:324`); `linked_list_remove` returns 1 and does not notice a node of another list
  (`client_list.h:191`), which no caller has.

## 7. Plan

Done: the cache, call by call and file call by file call, the two network clients with their
contract, the parsers, the list, the requests with their arguments, and the session; and the safety
properties and refinements of all of them, proved. What is left:

1. Liveness stays with TLC. What could be proved towards it are measures: that each step of a call of
   `HttpClient` comes nearer to its end, as `DecoderCopiesWhatArrived` says of the decoder.
2. Exhausted memory in `SharedCacheDir`, `WeatherClient` and `Session`, an `unlink` that fails in the first two, and answers that are not well formed
   in `ResponseParser`; see section 6.

## 8. Running it

    tlc -workers 2 -config cache_shared.cfg MCClientCache.tla
    tlapm ClientCacheProofs.tla

Each run of `PROJECT.json` names its module and its configuration in the same way.
