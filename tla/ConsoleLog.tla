------------------------------ MODULE ConsoleLog ------------------------------
(***************************************************************************)
(* The console handler of the log package (src/log/loghandler) and the     *)
(* metadata of its records (src/log/metadata.go).  Some goroutines derive  *)
(* a handler each from one that they share, with metadata whose keys come  *)
(* from a counter of the process; some hand a handler, their own or that   *)
(* of another, a record, which goes through a BufWriter of its own to the  *)
(* SafeWriter that all handlers share; one may use that SafeWriter through *)
(* a BufWriter like any other user.                                        *)
(*                                                                         *)
(* A record is the sequence of the calls Handle makes on the BufWriter,    *)
(* with the length of each piece: what a piece says is left out.           *)
(***************************************************************************)
EXTENDS BufWriter, FiniteSets, SequencesExt

CONSTANTS
  Names,       \* the names given to NewMetadata
  MaxMeta,     \* bound: the metadata a goroutine makes
  Records,     \* the records: [level, msg, attrs, source]
  Roles        \* bound: what the goroutines do, [Writers -> {"derive", "log", "user", "none"}]

ASSUME RecordsAssumption == Records \subseteq [level : Nat, msg : Nat, attrs : Nat, source : BOOLEAN]

VARIABLES
  role,        \* role[g]: what g does
  stage,       \* stage[g]: "ready", "key", "stored", "handle" or "done"
  anonymousKey,
  loaded,      \* loaded[g]: what g read for anonymousKey++
  attrs,       \* attrs[g]: the metadata g has made and not yet given to a handler
  given,       \* given[g]: all that g gave to handlers, in the order it gave it
  metadata,    \* metadata[g]: h.metadata of the handler of g
  raced,       \* the anonymous metadata that were made while another was
  todo,        \* todo[g]: the calls that Handle has still to make
  record,      \* record[g]: the units of the whole record
  told,        \* told[g]: what Handle answers
  torn,        \* torn[g]: a Write of g has failed
  last,        \* the goroutine whose Write was the last
  broken       \* broken[g]: the record of g has units of others between its own

metaVars == <<anonymousKey, loaded, attrs, given, metadata, raced>>
recordVars == <<todo, record, told, torn, broken>>
logVars == <<role, stage, metaVars, recordVars, last>>
allVars == <<vars, logVars>>

Anonymous(k) == <<"anonymous", k>>
Attr(key, value) == [key |-> key, value |-> value]
Made(g) == Len(given[g]) + Len(attrs[g])

LogTypeOK ==
  /\ TypeOK
  /\ stage \in [Writers -> {"ready", "key", "stored", "handle", "done"}]
  /\ anonymousKey \in Nat
  /\ \A g \in Writers : Made(g) <= MaxMeta
  /\ told \in [Writers -> Errors]
  /\ record \in [Writers -> Nat]

LogInit ==
  /\ Init
  \* a SafeWriter over a file, or a writer that is thread safe itself and has a ReadFrom
  /\ sink.readsFrom = ~sink.closable
  /\ role \in Roles
  /\ stage = [g \in Writers |-> "ready"]
  /\ anonymousKey = 1    \* the default handler has had one
  /\ loaded = [g \in Writers |-> 0]
  /\ attrs = [g \in Writers |-> <<>>]
  /\ given = [g \in Writers |-> <<>>]
  /\ metadata = [g \in Writers |-> <<>>]
  /\ raced = {}
  /\ todo = [g \in Writers |-> <<>>]
  /\ record = [g \in Writers |-> 0]
  /\ told = [g \in Writers |-> "nil"]
  /\ torn = [g \in Writers |-> FALSE]
  /\ last \in Writers
  /\ broken = [g \in Writers |-> FALSE]

-----------------------------------------------------------------------------
\* Metadata.

\* buildAnonymousKey: anonymousKey++ and the read after it are three accesses.
MayMake(g) == role[g] = "derive" /\ stage[g] = "ready" /\ Made(g) < MaxMeta
MakingKey == {g \in Writers : stage[g] \in {"key", "stored"}}
Next1(g) == <<g, Made(g) + 1>>    \* the value of the metadata that g makes

LoadKey(g) ==
  /\ MayMake(g)
  /\ loaded' = [loaded EXCEPT ![g] = anonymousKey]
  /\ raced' = IF MakingKey = {} THEN raced
              ELSE raced \cup {Next1(h) : h \in MakingKey \cup {g}}
  /\ stage' = [stage EXCEPT ![g] = "key"]
  /\ UNCHANGED <<vars, role, anonymousKey, attrs, given, metadata, recordVars, last>>

\* Slip: nothing is added.
StoreKeySlip(g) ==
  /\ stage[g] = "key"
  /\ stage' = [stage EXCEPT ![g] = "stored"]
  /\ UNCHANGED <<vars, role, anonymousKey, loaded, attrs, given, metadata, raced, recordVars, last>>

StoreKey(g) ==
  /\ stage[g] = "key"
  /\ anonymousKey' = loaded[g] + 1
  /\ stage' = [stage EXCEPT ![g] = "stored"]
  /\ UNCHANGED <<vars, role, loaded, attrs, given, metadata, raced, recordVars, last>>

Make(g, key) ==
  /\ attrs' = [attrs EXCEPT ![g] = Append(@, Attr(key, Next1(g)))]
  /\ stage' = [stage EXCEPT ![g] = "ready"]
  /\ UNCHANGED <<vars, role, anonymousKey, loaded, given, metadata, raced, recordVars, last>>

NewFixedMetadata(g) == stage[g] = "stored" /\ Make(g, Anonymous(anonymousKey))

NewMetadata(g, name) == MayMake(g) /\ Make(g, <<"name", name>>)

\* slicelib.UniqByLast: what has a later one of its key goes.
\* Slip: what has an earlier one goes.
UniqByFirstSlip(s) ==
  LET Firsts == {i \in 1 .. Len(s) : \A j \in 1 .. i - 1 : s[j].key # s[i].key}
  IN  [k \in 1 .. Cardinality(Firsts) |->
         s[CHOOSE i \in Firsts : Cardinality({j \in Firsts : j <= i}) = k]]
UniqByLast(s) ==
  LET Lasts == {i \in 1 .. Len(s) : \A j \in i + 1 .. Len(s) : s[j].key # s[i].key}
  IN  [k \in 1 .. Cardinality(Lasts) |->
         s[CHOOSE i \in Lasts : Cardinality({j \in Lasts : j <= i}) = k]]

\* withMetadata: an attribute replaces the one of its key or goes to the end.
Put(old, a) ==
  IF \E i \in 1 .. Len(old) : old[i].key = a.key
  THEN [i \in 1 .. Len(old) |-> IF old[i].key = a.key THEN a ELSE old[i]]
  ELSE Append(old, a)
WithMetadata(old, new) == FoldLeft(Put, old, UniqByLast(new))

WithAttrs(g) ==
  /\ stage[g] = "ready"
  /\ attrs[g] # <<>>
  /\ metadata' = [metadata EXCEPT ![g] = WithMetadata(@, attrs[g])]
  /\ given' = [given EXCEPT ![g] = @ \o attrs[g]]
  /\ attrs' = [attrs EXCEPT ![g] = <<>>]
  /\ UNCHANGED <<vars, role, stage, anonymousKey, loaded, raced, recordVars, last>>

-----------------------------------------------------------------------------
\* Handle.

Byte == <<"WriteByte", 1>>
Text(k) == <<"WriteString", k>>
Repeat(k, s) == FlattenSeq([i \in 1 .. k |-> s])

\* Level, metadata, message, attributes, newline, and the source of an error; the time
\* and what WithAttrs formatted before are two pieces more of the same kinds.
Calls(h, rec) ==
  <<Text(rec.level)>> \o Repeat(Len(metadata[h]), <<Byte, Text(1)>>) \o <<Byte, Text(rec.msg)>>
    \o Repeat(rec.attrs, <<Byte, Text(1), Byte>>) \o <<Byte>>
    \o (IF rec.source THEN <<Text(1)>> ELSE <<>>)

SumLen(s) == FoldLeft(LAMBDA a, c : a + c[2], 0, s)

\* The handler is that of h.
StartHandle(g, h, rec) ==
  /\ role[g] = "log"
  /\ stage[g] = "ready"
  /\ stage' = [stage EXCEPT ![g] = "handle"]
  /\ todo' = [todo EXCEPT ![g] = Calls(h, rec)]
  /\ record' = [record EXCEPT ![g] = SumLen(Calls(h, rec))]
  /\ UNCHANGED <<vars, role, metaVars, told, torn, broken, last>>

\* Slip: the error of the last call hides those of the ones before.
FormatSlip(g) ==
  /\ stage[g] = "handle"
  /\ todo[g] # <<>>
  /\ LET c == Head(todo[g])
     IN  IF c[1] = "WriteByte" THEN WriteByte(g) ELSE WriteString(g, c[2])
  /\ todo' = [todo EXCEPT ![g] = Tail(@)]
  /\ UNCHANGED <<role, stage, metaVars, record, told, torn, broken, last>>

\* The next call, unless state.Err says that one failed.
Format(g) ==
  /\ stage[g] = "handle"
  /\ todo[g] # <<>>
  /\ answer[g] = "nil"
  /\ LET c == Head(todo[g])
     IN  IF c[1] = "WriteByte" THEN WriteByte(g) ELSE WriteString(g, c[2])
  /\ todo' = [todo EXCEPT ![g] = Tail(@)]
  /\ UNCHANGED <<role, stage, metaVars, record, told, torn, broken, last>>

\* The deferred Free: Flush, whose error Handle does not return.
FreeState(g) ==
  /\ stage[g] = "handle"
  /\ todo[g] = <<>> \/ answer[g] # "nil"
  /\ Flush(g)
  /\ told' = [told EXCEPT ![g] = answer[g]]
  /\ stage' = [stage EXCEPT ![g] = "done"]
  /\ UNCHANGED <<role, metaVars, todo, record, torn, broken, last>>

ReleaseState(g) ==
  /\ stage[g] = "done"
  /\ FreeBuffer(g)
  /\ UNCHANGED logVars

\* The steps inside a call.  Every Write of the sink goes through the SafeWriter.
Proceeds(g) ==
  /\ Proceed(g)
  /\ torn' = [torn EXCEPT ![g] = @ \/ pc'[g] = "failed" \/ answer'[g] = "sink"]
  /\ last' = IF out'[g] # out[g] THEN g ELSE last
  /\ broken' = [broken EXCEPT ![g] = @ \/ (out'[g] # out[g] /\ out[g] # <<>> /\ last # g)]
  /\ UNCHANGED <<role, stage, metaVars, todo, record, told>>

Uses(g) ==
  /\ role[g] = "user"
  /\ Call(g)
  /\ UNCHANGED logVars

LogNext ==
  \E g \in Writers :
    \/ LoadKey(g) \/ StoreKey(g) \/ NewFixedMetadata(g) \/ WithAttrs(g)
    \/ \E name \in Names : NewMetadata(g, name)
    \/ \E h \in Writers, rec \in Records : StartHandle(g, h, rec)
    \/ Format(g) \/ FreeState(g) \/ ReleaseState(g)
    \/ Proceeds(g) \/ Uses(g)

LogSpec == LogInit /\ [][LogNext]_allVars

-----------------------------------------------------------------------------
\* A record whose pieces fit the buffer is written at once: no record of another
\* goroutine comes between, unless a Write fails half way.  A longer one may be broken.
RecordsUnbroken ==
  \A g \in Writers : role[g] = "log" /\ broken[g] => record[g] > Size \/ torn[g]

\* When Handle says nil, the whole record is in the sink once the state is freed, or its
\* last Flush failed, which only the internal logger hears of (consle_state.go:33); an
\* error means that the sink failed.
HandleTold ==
  \A g \in Writers : stage[g] = "done" /\ freed[g] =>
    /\ told[g] = "nil" => Len(out[g]) + Len(lost[g]) = record[g]
    /\ told[g] # "nil" \/ lost[g] # <<>> => torn[g]

\* A handler shows every key it was given once, with the value given last, whether the
\* values came in one WithAttrs or in several (console_handler.go:193-215).
MetadataLatest ==
  \A g \in Writers :
    LET all == given[g]
        Latest == {all[i] : i \in {i \in 1 .. Len(all) :
                     \A j \in i + 1 .. Len(all) : all[j].key # all[i].key}}
    IN  /\ Range(metadata[g]) = Latest
        /\ Len(metadata[g]) = Cardinality(Latest)

\* Two anonymous metadata have one key only if the making of one of them overlapped
\* another: then a handler that is given both loses one (metadata.go:60).
AnonymousKept ==
  \A g, h \in Writers : \A i \in 1 .. Len(given[g]), j \in 1 .. Len(given[h]) :
    /\ <<g, i>> # <<h, j>>
    /\ given[g][i].key = given[h][j].key
    /\ given[g][i].key[1] = "anonymous"
    => {<<g, i>>, <<h, j>>} \cap raced # {}
===============================================================================
