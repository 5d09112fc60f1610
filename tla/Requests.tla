------------------------------ MODULE Requests ------------------------------
(***************************************************************************)
(* What the requests of the weather client make of their arguments         *)
(* (src/src/api/weather_client.c, src/src/utils/utils.c): whether they     *)
(* accept them, the path they ask the server for, and the key under which  *)
(* the answer is cached.                                                   *)
(*                                                                         *)
(* A text is a sequence of characters, of which a few stand for their      *)
(* kind.  A label such as ":country=" counts as one character, whether the *)
(* code writes it into a key or a user types it.  A coordinate is an       *)
(* integer, with Fine units to the last decimal that is printed.           *)
(***************************************************************************)
EXTENDS Integers, FiniteSetsExt, SequencesExt

CONSTANTS
    Char,      \* the characters of texts
    MaxCity,   \* the longest city that is accepted (100 in the code)
    OutSize,   \* sizeof(normalized_query) and its like (256)
    PathRoom,  \* the characters of a path that char path[512] holds (511)
    UrlRoom,   \* those that char url[512] has room for after scheme, host
               \* and port (489 after http://localhost:10680)
    MaxLat,    \* the ends of the ranges of the coordinates,
    MaxLon,    \* in Fine units
    Fine

ASSUME SizesAssumption ==
    /\ OutSize \in Nat \ {0}
    /\ MaxCity \in Nat /\ MaxCity < OutSize
    /\ {PathRoom, UrlRoom, MaxLat, MaxLon} \subseteq Nat /\ UrlRoom <= PathRoom
    /\ Fine \in Nat \ {0}

Separators == {" ", "+", "_"}
Unreserved == {"a", "b", "A", "_", "."}
Labels     == {":country=", ":region="}

Text == Seq(Char)

\* "hex" is no character: url_encode writes it before one that it escapes.
ASSUME CharAssumption ==
    Separators \cup Unreserved \cup Labels \subseteq Char /\ "hex" \notin Char

LowerCase(c) == IF c = "A" THEN "a" ELSE c

-----------------------------------------------------------------------------
(* utils.c                                                                 *)

\* One turn of the loop of normalize_string_for_cache.
NormalizeCharKeepsRuns(out, c) ==
    IF Len(out) + 1 >= OutSize THEN out
    ELSE IF c \in Separators
           THEN IF out = <<>> THEN out ELSE Append(out, "_")
           ELSE Append(out, LowerCase(c))

NormalizeChar(out, c) ==
    IF Len(out) + 1 >= OutSize THEN out
    ELSE IF c \in Separators
           THEN IF out = <<>> \/ Last(out) = "_" THEN out ELSE Append(out, "_")
           ELSE Append(out, LowerCase(c))

\* What is in the buffer after n turns.
NormalizeLoop(text) ==
    LET out[n \in 0..Len(text)] ==
          IF n = 0 THEN <<>> ELSE NormalizeChar(out[n - 1], text[n])
    IN  out

\* normalize_string_for_cache
Normalize(text) ==
    LET out == NormalizeLoop(text)[Len(text)]
    IN  IF out # <<>> /\ Last(out) = "_" THEN Front(out) ELSE out

EncodeCharKeepsPlus(c) ==
    CASE c \in Unreserved \cup {"+"} -> <<c>>
      [] c = " "            -> <<"+">>
      [] OTHER              -> <<"%", "hex", c>>

EncodeChar(c) ==
    CASE c \in Unreserved -> <<c>>
      [] c = " "          -> <<"+">>
      [] OTHER            -> <<"%", "hex", c>>

\* url_encode; the third sign of %XX tells the characters apart.
Encode(text) == FlattenSeq([i \in DOMAIN text |-> EncodeChar(text[i])])

ValidLatitude(lat)  == lat >= -MaxLat /\ lat <= MaxLat
ValidLongitude(lon) == lon >= -MaxLon /\ lon <= MaxLon
ValidCity(city)     == Len(city) \in 1..MaxCity

\* "%.4f", which keeps the sign of what it rounds to zero.
Printed(v) ==
    LET size == IF v < 0 THEN -v ELSE v
    IN  <<IF v < 0 THEN "-" ELSE "", (2 * size + Fine) \div (2 * Fine)>>

-----------------------------------------------------------------------------
(* weather_client.c.  A request is what its function makes of the          *)
(* arguments: whether it goes as far as the cache, the key there, and what *)
(* it writes after host and port.                                          *)

Request(what, args, accepted, target, key) ==
    [what |-> what, args |-> args, accepted |-> accepted, target |-> target, key |-> key]

\* weather_client_get_current
Current(lat, lon) ==
    Request("current", <<lat, lon>>,
        ValidLatitude(lat) /\ ValidLongitude(lon),
        <<"/v1/current?lat=">> \o Printed(lat) \o <<"&lon=">> \o Printed(lon),
        <<"current:lat=">> \o Printed(lat) \o <<":lon=">> \o Printed(lon))

\* A field that is written when there is something in it.
Field(name, text) == IF text = <<>> THEN <<>> ELSE <<name>> \o Encode(text)

WeatherKeyWithoutRegion(city, country, region) ==
    Request("weather", <<city, country, region>>,
        ValidCity(city),
        <<"/v1/weather?city=">> \o Encode(city)
          \o Field("&country=", country) \o Field("&region=", region),
        <<"weather:city=">> \o Normalize(city) \o <<":country=">> \o Normalize(country))

\* weather_client_get_weather_by_city; an absent country or region is empty.
Weather(city, country, region) ==
    Request("weather", <<city, country, region>>,
        ValidCity(city),
        <<"/v1/weather?city=">> \o Encode(city)
          \o Field("&country=", country) \o Field("&region=", region),
        <<"weather:city=">> \o Normalize(city) \o <<":country=">> \o Normalize(country)
          \o <<":region=">> \o Normalize(region))

\* weather_client_search_cities
Cities(query) ==
    Request("cities", <<query>>,
        Len(query) >= 2,
        <<"/v1/cities?query=">> \o Encode(query),
        <<"cities:query=">> \o Normalize(query))

\* weather_client_get_homepage, and weather_client_echo, which has no key.
Homepage == Request("homepage", <<>>, TRUE, <<"/">>, <<"homepage:">>)
Echo     == Request("echo", <<>>, TRUE, <<"/echo">>, <<>>)

\* What is left of the target in the buffers: parse_url cuts the path of
\* every request.  The url is cut before it, except the one of a weather
\* request, whose 1024 characters hold more than a path.
Room(r) == IF r.what = "weather" THEN PathRoom ELSE UrlRoom
Path(r) == SubSeq(r.target, 1, Min({Len(r.target), Room(r)}))

\* How many strings a request allocates for its call of make_request, the
\* encoded text and the key, and how many of them it frees after the call.
Allocates(r) ==
    IF ~r.accepted THEN 0
    ELSE CASE r.what \in {"weather", "cities"}   -> 2
           [] r.what \in {"current", "homepage"} -> 1
           [] OTHER                              -> 0

FreesForgetsCity(r) ==
    IF ~r.accepted THEN 0
    ELSE CASE r.what = "cities"               -> 2
           [] r.what \in {"weather", "current"} -> 1
           [] OTHER                           -> 0

Frees(r) ==
    IF ~r.accepted THEN 0
    ELSE CASE r.what \in {"weather", "cities"} -> 2
           [] r.what = "current"              -> 1
           [] OTHER                           -> 0

-----------------------------------------------------------------------------
(* What the properties compare it with.                                    *)

\* The words of a text whatever their case and what separates them: its
\* letters in order, each with whether a later word begins there.
AddToWords(words, text, n) ==
    IF text[n] \in Separators THEN words
    ELSE Append(words, [letter |-> LowerCase(text[n]),
                        begins |-> words # <<>> /\ text[n - 1] \in Separators])

WordsLoop(text) ==
    LET words[n \in 0..Len(text)] ==
          IF n = 0 THEN <<>> ELSE AddToWords(words[n - 1], text, n)
    IN  words

Words(text) == WordsLoop(text)[Len(text)]

\* The words with one sign between two of them.
AddLetter(out, w) == IF w.begins THEN Append(Append(out, "_"), w.letter)
                                 ELSE Append(out, w.letter)

JoinedLoop(words) ==
    LET out[n \in 0..Len(words)] ==
          IF n = 0 THEN <<>> ELSE AddLetter(out[n - 1], words[n])
    IN  out

Joined(words) == JoinedLoop(words)[Len(words)]

\* Two requests ask for the same.
SameQuestion(r, q) ==
    /\ r.what = q.what
    /\ \A i \in DOMAIN r.args :
         IF r.what = "current" THEN Printed(r.args[i]) = Printed(q.args[i])
                               ELSE Words(r.args[i]) = Words(q.args[i])

\* The words, joined, fit the buffer; so does the path; and no text looks
\* like a part of a key.
FitsKey(text) ==
    /\ Len(Joined(Words(text))) < OutSize
    /\ \A i \in DOMAIN text : text[i] \notin Labels

Fits(r) ==
    /\ Path(r) = r.target
    /\ r.what # "current" => \A i \in DOMAIN r.args : FitsKey(r.args[i])

\* What a server may take a plus for: a space, as in forms, or itself.
Readings == {" ", "+"}

\* What a server that decodes the query of a path reads in it: an escaped
\* character is kept without the two signs before it.
Decoded(path, plus) ==
    LET Escaped(i) == i > 1 /\ path[i - 1] = "hex"
    IN  FlattenSeq([i \in DOMAIN path |->
            CASE path[i] = "hex"                 -> <<>>
              [] path[i] = "%" /\ ~Escaped(i)    -> <<>>
              [] path[i] = "+" /\ ~Escaped(i)    -> <<plus>>
              [] OTHER                           -> <<path[i]>>])

\* A text as such a server reads it: url_encode writes a plus for a space.
AsRead(text, plus) == [i \in DOMAIN text |-> IF text[i] = " " THEN plus ELSE text[i]]

\* The target of a request with its texts as they were typed.
Typed(r, plus) ==
    LET TypedField(name, text) == IF text = <<>> THEN <<>> ELSE <<name>> \o AsRead(text, plus)
    IN  CASE r.what = "weather" -> <<"/v1/weather?city=">> \o AsRead(r.args[1], plus)
                                     \o TypedField("&country=", r.args[2])
                                     \o TypedField("&region=", r.args[3])
          [] r.what = "cities"  -> <<"/v1/cities?query=">> \o AsRead(r.args[1], plus)
          [] OTHER              -> r.target

=============================================================================
