------------------------------- MODULE Session -------------------------------
(***************************************************************************)
(* The program (src/src/main.c, src/src/cli.c): a process runs the one     *)
(* command of its command line, or reads commands in the interactive mode, *)
(* and makes the requests of the weather client; what is cached outlives   *)
(* it.                                                                     *)
(*                                                                         *)
(* A command is three steps: its arguments are read, the request is made,  *)
(* and what it returned is shown and freed.  Of the cache, which           *)
(* ClientCache models, the module keeps the directory: a file may be gone  *)
(* at any time, because it expired, was evicted or another process cleared *)
(* it, and holds what the server answered to a request with its key.       *)
(***************************************************************************)
EXTENDS Requests

CONSTANTS
    Arguments,    \* what the shell passes after a command: sequences of texts
    Lines,        \* what follows a command on a line: texts
    Coordinates,  \* sequences of numbers, or Junk for what is no number
    Junk,
    MaxCommands,  \* bound: the number of commands
    None

ASSUME ArgumentsAssumption ==
    /\ Arguments \subseteq Seq(Text)
    /\ Lines \subseteq Text
    /\ Coordinates \subseteq Seq(Int \cup {Junk})

ASSUME MaxCommandsAssumption == MaxCommands \in Nat

VARIABLES
    mode,     \* "none" without a process, "once", "address" or "prompt"
    step,     \* what the command does next: "read", "ask" or "show"
    request,  \* the request it stands for, or Clear, Usage or None
    result,   \* the json_t of the request: the request that the server
              \* answered with it, or None
    error,    \* why there is none, if there is a message: see Errors
    cache,    \* the files of the directory: the requests whose answers they hold
    heap,     \* live objects of the process, by kind: clients, results,
              \* messages, and the texts that requests allocate
    asked,    \* history: the path that the command sends, or None without one
    exit,     \* the status of the last process, None while one runs
    homepages, \* history: the homepage requests of the process
    count     \* history: the number of commands so far

vars == <<mode, step, request, result, error, cache, heap, asked, exit, homepages, count>>

INVALID_ARGS  == 1
NETWORK_ERROR == 2
SERVER_ERROR  == 3

Errors == {"rejected", "network", "server"}
NoHeap == [clients |-> 0, results |-> 0, errors |-> 0, texts |-> 0]

Init ==
    /\ mode = "none"
    /\ step = "read"
    /\ request = None
    /\ result = None
    /\ error = None
    /\ cache = {}
    /\ heap = NoHeap
    /\ asked = None
    /\ exit = 0
    /\ homepages = 0
    /\ count = 0

-----------------------------------------------------------------------------
(* Processes.                                                              *)

Returns(status) ==
    /\ mode' = "none"
    /\ exit' = status

\* main without a command, or when no client can be allocated.
MainFails ==
    /\ mode = "none"
    /\ exit' \in {INVALID_ARGS, NETWORK_ERROR}
    /\ heap' = NoHeap
    /\ homepages' = 0
    /\ UNCHANGED <<mode, step, request, result, error, cache, asked, count>>

\* main hands the interactive mode no client; it will make one of its own.
StartInteractive ==
    /\ mode = "none"
    /\ mode' = "address"
    /\ exit' = None
    /\ heap' = [NoHeap EXCEPT !.clients = 1]
    /\ homepages' = 0
    /\ UNCHANGED <<step, request, result, error, cache, asked, count>>

\* The address does not scan, or there is no second client; its echo then
\* says so, and the message is freed.
NoConnection ==
    /\ mode = "address"
    /\ heap' = [heap EXCEPT !.clients = @ - 1]
    /\ Returns(0)
    /\ UNCHANGED <<step, request, result, error, cache, asked, homepages, count>>

\* The echo of the second client fails: main destroys the first.
NoServer ==
    /\ mode = "address"
    /\ Returns(0)
    /\ UNCHANGED <<step, request, result, error, cache, heap, asked, homepages, count>>

\* It succeeds, and the json_t that it returned is never used again.
Connected ==
    /\ mode = "address"
    /\ mode' = "prompt"
    /\ heap' = [heap EXCEPT !.clients = @ + 1, !.results = @ + 1]
    /\ UNCHANGED <<step, request, result, error, cache, asked, exit, homepages, count>>

\* quit, or the end of the input.  Only main's client is destroyed.
Quit ==
    /\ mode = "prompt"
    /\ step = "read"
    /\ heap' = [heap EXCEPT !.clients = @ - 1]
    /\ Returns(0)
    /\ UNCHANGED <<step, request, result, error, cache, asked, homepages, count>>

-----------------------------------------------------------------------------
(* Reading a command.                                                      *)

Clear == Request("clear-cache", <<>>, TRUE, <<>>, <<>>)
Usage == Request("usage", <<>>, FALSE, <<>>, <<>>)

Commands == {"weather", "cities", "homepage", "echo", "clear-cache", "unknown"}

\* What a command stands for, with enough arguments; too many are ignored.
Parsed(command, args) ==
    LET Arg(i) == IF i <= Len(args) THEN args[i] ELSE <<>>
    IN  CASE command = "weather" /\ Len(args) >= 1 -> Weather(Arg(1), Arg(2), Arg(3))
          [] command = "cities" /\ Len(args) >= 1  -> Cities(Arg(1))
          [] command = "homepage"                  -> Homepage
          [] command = "echo"                      -> Echo
          [] command = "clear-cache"               -> Clear
          [] OTHER                                 -> Usage

\* current, if parse_double takes both.
ParsedNumbers(args) ==
    IF Len(args) >= 2 /\ Junk \notin {args[1], args[2]}
      THEN Current(args[1], args[2])
      ELSE Usage

\* strtok: the pieces between spaces, one character further.
AddToPieces(pieces, line, n) ==
    IF line[n] = " " THEN pieces
    ELSE IF n = 1 \/ line[n - 1] = " " THEN Append(pieces, <<line[n]>>)
    ELSE Append(Front(pieces), Append(Last(pieces), line[n]))

PiecesLoop(line) ==
    LET pieces[n \in 0..Len(line)] ==
          IF n = 0 THEN <<>> ELSE AddToPieces(pieces[n - 1], line, n)
    IN  pieces

Pieces(line) == PiecesLoop(line)[Len(line)]

\* The arguments on a line: a query is the rest of it but for one space.
OnLine(command, line) ==
    IF command # "cities" THEN Pieces(line)
    ELSE LET query == IF line # <<>> /\ Head(line) = " " THEN Tail(line) ELSE line
         IN  IF query = <<>> THEN <<>> ELSE <<query>>

\* What can be asked for.
Readable ==
    {Parsed(command, args) : command \in Commands, args \in Arguments}
      \cup {Parsed(command, OnLine(command, line)) : command \in Commands, line \in Lines}
      \cup {ParsedNumbers(args) : args \in Coordinates}

ASSUME NoneAssumption ==
    None \notin Readable /\ None # Echo /\ None \notin Errors /\ None \notin 0..SERVER_ERROR

\* The request is read by a process with these objects, after so many of
\* homepage; its function makes the texts that it needs.
Read(r, live, earlier) ==
    /\ count < MaxCommands
    /\ count' = count + 1
    /\ request' = r
    /\ step' = "ask"
    /\ heap' = [live EXCEPT !.texts = @ + Allocates(r)]
    /\ homepages' = earlier + IF r.what = "homepage" THEN 1 ELSE 0
    /\ UNCHANGED <<result, error, cache, asked>>

\* cli_execute_command
ReadArguments ==
    /\ mode = "none"
    /\ LET live == [NoHeap EXCEPT !.clients = 1]
       IN  \/ \E command \in Commands, args \in Arguments : Read(Parsed(command, args), live, 0)
           \/ \E args \in Coordinates : Read(ParsedNumbers(args), live, 0)
    /\ mode' = "once"
    /\ exit' = None

\* process_command.  An empty line and help change nothing.
ReadLine ==
    /\ mode = "prompt"
    /\ step = "read"
    /\ \/ \E command \in Commands, line \in Lines :
            Read(Parsed(command, OnLine(command, line)), heap, homepages)
       \/ \E args \in Coordinates : Read(ParsedNumbers(args), heap, homepages)
    /\ UNCHANGED <<mode, exit>>

-----------------------------------------------------------------------------
(* Making the request.                                                     *)

Cached(r) == {c \in cache : c.key = r.key}

\* The request returns, and its texts are freed.
Finish(json, message) ==
    /\ step' = "show"
    /\ result' = json
    /\ error' = message
    /\ heap' = [heap EXCEPT !.results = IF json = None THEN @ ELSE @ + 1,
                            !.errors = IF message = None THEN @ ELSE @ + 1,
                            !.texts = @ - Frees(request)]
    /\ UNCHANGED <<mode, request, exit, homepages, count>>

Reject ==
    /\ step = "ask"
    /\ request \notin {Usage, Clear}
    /\ ~request.accepted
    /\ Finish(None, "rejected")
    /\ UNCHANGED <<cache, asked>>

AnswerFromCache ==
    /\ step = "ask"
    /\ request \notin {Usage, Clear, Echo}
    /\ request.accepted
    /\ \E c \in Cached(request) : Finish(c, None)
    /\ UNCHANGED <<cache, asked>>

\* The server's answer, which is stored unless the store fails.
AnswerFromServer ==
    /\ step = "ask"
    /\ request \notin {Usage, Clear, Echo}
    /\ request.accepted
    /\ Cached(request) = {}
    /\ asked' = Path(request)
    /\ cache' \in {cache, cache \cup {request}}
    /\ Finish(request, None)

EchoAnswers ==
    /\ step = "ask"
    /\ request = Echo
    /\ asked' = Path(request)
    /\ Finish(Echo, None)
    /\ UNCHANGED cache

\* The HTTP client fails; or the server's answer is of no use, for which
\* there need not be a message.
Fail ==
    /\ step = "ask"
    /\ request \notin {Usage, Clear}
    /\ request.accepted
    /\ request # Echo => Cached(request) = {}
    /\ asked' = Path(request)
    /\ \E message \in {"network", "server", None} : Finish(None, message)
    /\ UNCHANGED cache

-----------------------------------------------------------------------------
(* Ending the command.                                                     *)

DoneKeepsResult(status) ==
    /\ step' = "read"
    /\ request' = None
    /\ error' = None
    /\ asked' = None
    /\ UNCHANGED <<result, homepages, count>>
    /\ IF mode = "once" THEN Returns(status) ELSE UNCHANGED <<mode, exit>>

Done(status) ==
    /\ step' = "read"
    /\ request' = None
    /\ result' = None
    /\ error' = None
    /\ asked' = None
    /\ UNCHANGED <<homepages, count>>
    /\ IF mode = "once" THEN Returns(status) ELSE UNCHANGED <<mode, exit>>

\* The client of a one-shot command goes with it.
Freed == IF mode = "once" THEN [heap EXCEPT !.clients = @ - 1] ELSE heap

\* Too few arguments, an unknown command, or no number.
ShowUsage ==
    /\ step = "ask"
    /\ request = Usage
    /\ heap' = Freed
    /\ Done(INVALID_ARGS)
    /\ UNCHANGED cache

\* weather_client_clear_cache; files stay where the directory cannot be
\* read or a file not unlinked, and the command says nothing of it.
ClearCache ==
    /\ step = "ask"
    /\ request = Clear
    /\ cache' \in SUBSET cache
    /\ heap' = Freed
    /\ Done(0)

\* The result is printed, or the message, and both are freed.
Show ==
    /\ step = "show"
    /\ heap' = [Freed EXCEPT !.results = IF result = None THEN @ ELSE @ - 1,
                             !.errors = IF error = None THEN @ ELSE @ - 1]
    /\ Done(IF result = None THEN SERVER_ERROR ELSE 0)
    /\ UNCHANGED cache

\* A file goes: expired, evicted, or cleared by another process.
LoseFile ==
    /\ \E c \in cache : cache' = cache \ {c}
    /\ UNCHANGED <<mode, step, request, result, error, heap, asked, exit, homepages, count>>

Next ==
    \/ MainFails \/ StartInteractive \/ NoConnection \/ NoServer \/ Connected \/ Quit
    \/ ReadArguments \/ ReadLine
    \/ Reject \/ AnswerFromCache \/ AnswerFromServer \/ EchoAnswers \/ Fail
    \/ ShowUsage \/ ClearCache \/ Show
    \/ LoseFile

Spec == Init /\ [][Next]_vars

-----------------------------------------------------------------------------
(* Properties                                                              *)

\* Every variable has its type, and a command its result when it is shown.
TypeOK ==
    /\ mode \in {"none", "once", "address", "prompt"}
    /\ step \in {"read", "ask", "show"}
    /\ error \in Errors \cup {None}
    /\ heap \in [clients : 0..2, results : 0..2, errors : 0..1, texts : 0..(MaxCommands + 2)]
    /\ homepages \in 0..MaxCommands
    /\ exit \in {0, INVALID_ARGS, NETWORK_ERROR, SERVER_ERROR, None}
    /\ count \in 0..MaxCommands
    /\ (exit = None) = (mode # "none")
    /\ (request = None) = (step = "read")
    /\ result # None => step = "show" /\ error = None

\* The answer that is shown is the server's answer to a request that asks
\* for the same, whoever made it and however the two are spelled.  Both
\* must fit the buffers; then truncation, case, separators and the layout
\* of the key never lend one question the answer of another.
AnswersTheQuestion ==
    result # None /\ Fits(request) /\ Fits(result) => SameQuestion(result, request)

\* A server that takes a plus for a space, as forms do, reads what the user
\* typed: all of it, or its beginning where the buffers cut the path, never
\* anything else.  One that follows RFC 3986, as url_encode claims to do
\* (src/src/utils/utils.h:41-44 and :69, where a space is %20), reads the same with a plus
\* for every space (src/src/utils/utils.c:28-29).
AsksWhatWasTyped ==
    asked # None /\ request.what # "current" =>
      \A plus \in Readings :
        /\ IsPrefix(Decoded(asked, plus), Typed(request, plus))
        /\ Path(request) = request.target => Decoded(asked, plus) = Typed(request, plus)

\* Spellings of one question share their answer: no request goes to the
\* server when the answer to one that asks for the same is cached.
SpellingsShare ==
    [][step = "ask" /\ step' = "show" /\ Fits(request)
         /\ (\E c \in cache : Fits(c) /\ SameQuestion(c, request))
         => asked' = None]_vars

\* Each command frees its result, its message and the texts of its request
\* on every path; what remains is what the start of the interactive mode
\* forgets, its client and the result of its echo, and one key for each
\* request of homepage, accepted as they all are
\* (src/src/api/weather_client.c:243).
CommandFreesItsOwn ==
    step = "read" =>
      /\ heap.errors = 0
      /\ heap.texts = homepages
      /\ mode = "prompt" => heap.results = 1 /\ heap.clients = 2
      /\ mode = "address" => heap.results = 0 /\ heap.clients = 1
      /\ mode = "none" => heap.results <= heap.clients /\ heap.clients <= 1

=============================================================================
