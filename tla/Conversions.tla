------------------------------ MODULE Conversions ------------------------------
(***************************************************************************)
(* What a value becomes between JavaScript and the C client: the arguments *)
(* of the two constructors and the session credentials on their way in,    *)
(* and the fields of a message from send() to the listener.                *)
(*                                                                         *)
(* A JavaScript value is <<type, value>>.  A text is a sequence of "x", a  *)
(* character every conversion keeps, "0", the character that ends a C      *)
(* string, and "?", a byte that is not UTF-8 (in a Buffer only).  The case *)
(* of a log level is left out: the code ignores it.                        *)
(***************************************************************************)
EXTENDS Integers, SequencesExt

CONSTANTS
  MaxInt,               \* largest C int (2^31 - 1)
  DefaultLogFileSize,   \* 104857600
  MaxText               \* bound: characters of a message body

ASSUME ConversionAssumption ==
  /\ MaxInt \in Nat /\ MaxInt >= 7   \* the number of log levels
  /\ DefaultLogFileSize \in 1..MaxInt
  /\ MaxText \in Nat

VARIABLES
  step,       \* "begin", then "constructed", "credentialed" or "transferred"
  asked,      \* the options the user gave to a constructor, and the name
  settings,   \* what the C client was told
  sent,       \* the arguments of send()
  event,      \* the columns the listener gets
  result      \* what setSessionCredentials() returned

vars == <<step, asked, settings, sent, event, result>>

None      == <<"none">>
Undefined == <<"undefined">>
Null      == <<"null">>
Str(s)    == <<"string", s>>
Num(n)    == <<"number", n>>
Obj(o)    == <<"object", o>>

Init ==
  /\ step = "begin" /\ asked = <<>> /\ settings = <<>>
  /\ sent = <<>> /\ event = <<>> /\ result = "none"

-----------------------------------------------------------------------------
(* The constructors. *)

LevelNames == <<"fatal", "error", "warn", "info", "debug", "trace", "num">>

(* Mutant: a name that is not in the table is left to the client. *)
LevelUnchecked(name) == Num(SelectInSeq(LevelNames, LAMBDA n : n = name))

(* OPTIONS_LOG_LEVEL[..] || OPTIONS_LOG_LEVEL.INFO *)
Level(name) ==
  Num(IF name \in ToSet(LevelNames) THEN SelectInSeq(LevelNames, LAMBDA n : n = name) ELSE 4)

(* What the constructor in JavaScript passes on for an option; "" is falsy. *)
Normal(option, v) ==
  IF option = "logLevel" /\ v[1] = "string" /\ v # Str("") THEN Level(v[2]) ELSE v

(* Int32Value(), and how many values it has (2^32). *)
Ints     == 2 * MaxInt + 2
Int32(n) == LET r == n % Ints IN IF r > MaxInt THEN r - Ints ELSE r

OptionsOf(class) ==
  {"nameServer", "logFileNum", "logFileSize", "logLevel"} \cup
  CASE class = "Producer" -> {"groupName", "compressLevel", "sendMessageTimeout", "maxMessageSize"}
    [] class = "PushConsumer" -> {"threadCount", "maxBatchSize"}

(* What the C client is told when an option does not say. *)
Default(option) ==
  CASE option = "logFileNum"  -> Num(3)
    [] option = "logFileSize" -> Num(DefaultLogFileSize)
    [] OTHER                  -> None

(* SetOptions: a value of the wrong type is ignored, and so is a count that *)
(* is not positive.                                                         *)
SetOption(option, v) ==
  CASE option \in {"nameServer", "groupName"} -> IF v[1] = "string" THEN v ELSE None
    [] option \in {"threadCount", "maxBatchSize"} ->
         IF v[1] = "number" /\ Int32(v[2]) > 0 THEN Num(Int32(v[2])) ELSE None
    [] OTHER -> IF v[1] = "number" THEN Num(Int32(v[2])) ELSE Default(option)

(* The native constructor takes every name but null. *)
InstanceName(v) ==
  CASE v[1] = "string" -> v
    [] v = Null -> None
    [] v = Undefined -> Str("undefined")

(* new Producer(groupId, second, third): without a third argument, a second *)
(* that is not a string is the options.                                     *)
New(class, second, third) ==
  LET shifted == second[1] # "string" /\ third = Undefined
      object  == IF shifted THEN second ELSE third
      given   == [o \in OptionsOf(class) |->
                    IF object[1] = "object" /\ o \in DOMAIN object[2] THEN object[2][o] ELSE Undefined]
  IN /\ step = "begin" /\ step' = "constructed"
     /\ asked' = [name |-> IF second[1] = "string" THEN second ELSE None, given |-> given]
     /\ settings' =
          [name |-> InstanceName(IF shifted THEN Null ELSE second),
           set  |-> [o \in OptionsOf(class) |-> SetOption(o, Normal(o, given[o]))]]
     /\ UNCHANGED <<sent, event, result>>

-----------------------------------------------------------------------------
(* Messages. *)

(* A text that is read as a C string ends before its first "0". *)
CString(t) ==
  LET end == SelectInSeq(t, LAMBDA c : c = "0")
  IN IF end = 0 THEN t ELSE SubSeq(t, 1, end - 1)

(* Nan::New<String>: what is not UTF-8 becomes U+FFFD. *)
Decoded(t) == [k \in DOMAIN t |-> IF t[k] = "?" THEN "U+FFFD" ELSE t[k]]

Optional(v) == IF v[1] = "string" THEN CString(v[2]) ELSE <<>>

(* Send: the C message made of the arguments; a Buffer goes with its length. *)
CMessage(m) ==
  [topic |-> CString(m.topic),
   tags  |-> Optional(m.tags),
   keys  |-> Optional(m.keys),
   body  |-> IF m.body[1] = "string" THEN CString(m.body[2]) ELSE m.body[2],
   msgId |-> <<"x">>]

(* message_handler_param_keys, with the two letters GetMessageColumn reads. *)
Columns == [topic |-> <<"t", "o">>, tags |-> <<"t", "a">>, keys |-> <<"k", "e">>,
            body  |-> <<"b", "o">>, msgId |-> <<"m", "s">>]

(* Mutant: only the first letter of a column is looked at. *)
FieldByInitial(letters) ==
  CASE letters[1] = "t" -> "topic" [] letters[1] = "k" -> "keys"
    [] letters[1] = "b" -> "body"  [] letters[1] = "m" -> "msgId"

(* GetMessageColumn: the field a column stands for. *)
Field(letters) ==
  CASE letters[1] = "t" -> (IF letters[2] = "o" THEN "topic" ELSE "tags")
    [] letters[1] = "k" -> "keys"
    [] letters[1] = "b" -> "body"
    [] letters[1] = "m" -> "msgId"

(* send(), the broker, OnMessage and HandleMessageInEventLoop. *)
Transfer(m) ==
  /\ step = "begin" /\ step' = "transferred"
  /\ sent' = m
  /\ event' = [c \in DOMAIN Columns |-> Decoded(CString(CMessage(m)[Field(Columns[c])]))]
  /\ UNCHANGED <<asked, settings, result>>

-----------------------------------------------------------------------------
(* Session credentials: access key, secret key and ONS channel, three texts. *)

(* return !code, a Boolean where the comment of the method says Number. *)
Negated(code) == IF code = 0 THEN "true" ELSE "false"

(* setSessionCredentials(): the client takes the three texts (code 0),      *)
(* refuses them, or throws, and the exception goes on to the caller.        *)
SetSessionCredentials(args) ==
  /\ step = "begin" /\ step' = "credentialed"
  /\ asked' = args
  /\ \/ settings' = [k \in DOMAIN args |-> CString(args[k])] /\ result' = Negated(0)
     \/ settings' = settings /\ result' \in {Negated(1), "thrown"}
  /\ UNCHANGED <<sent, event>>

-----------------------------------------------------------------------------
Values  == {Num(n) : n \in -1..(Ints + 2)} \cup {Null, Undefined}
             \cup {Str(s) : s \in ToSet(LevelNames) \cup {"", "other"}}
Texts   == BoundedSeq({"x", "0"}, 1)
Bodies  == {Str(t) : t \in BoundedSeq({"x", "0"}, MaxText)}
             \cup {<<"buffer", t>> : t \in BoundedSeq({"x", "0", "?"}, MaxText)}
Options == {Undefined} \cup {Str(t) : t \in Texts}

Construct ==
  \E class \in {"Producer", "PushConsumer"}, name \in {Str("name"), Null, Undefined} :
    \/ New(class, name, Undefined)
    \/ \E option \in OptionsOf(class), v \in Values :
         LET options == Obj([o \in {option} |-> v])
         IN New(class, name, options) \/ New(class, options, Undefined)

SendAndReceive ==
  \E topic \in Texts, tags, keys \in Options, body \in Bodies :
    Transfer([topic |-> topic, tags |-> tags, keys |-> keys, body |-> body])

Authorize == \E args \in [1..3 -> Texts] : SetSessionCredentials(args)

Next == Construct \/ SendAndReceive \/ Authorize

Spec == Init /\ [][Next]_vars

-----------------------------------------------------------------------------
(* What an option that was given as v must tell the client.  A name or a    *)
(* log level of the list arrives as it was given.  So does a number that a  *)
(* C int can hold; a larger one, of logFileSize too, loses 2^32, and may    *)
(* turn into a smaller number or a negative one.  Only the counts are never *)
(* below 1.  Of a value of another type nothing arrives but the default.    *)
ToldRightly(o, v, told) ==
  LET isName  == o \in {"nameServer", "groupName"}
      isLevel == o = "logLevel" /\ v[1] = "string" /\ v # Str("")
      isCount == o \in {"threadCount", "maxBatchSize"}
  IN /\ isName => told = IF v[1] = "string" THEN v ELSE None
     /\ ~isName /\ v[1] = "number" =>
          \E n \in {v[2], v[2] - Ints} :
            /\ n \in -(MaxInt + 1)..MaxInt
            /\ told = IF isCount /\ n < 1 THEN None ELSE Num(n)
     /\ ~isName /\ ~isLevel /\ v[1] # "number" => told = Default(o)
     /\ isLevel => IF v[2] \in ToSet(LevelNames) THEN LevelNames[told[2]] = v[2] ELSE told = Num(4)

(* README: the options of a constructor reach the client through every form *)
(* of the call, and so does the name.  Where the name is undefined and      *)
(* options follow, the client gets the name "undefined".                    *)
OptionsArrive ==
  step = "constructed" =>
    /\ settings.name \in IF asked.name = None THEN {None, Str("undefined")} ELSE {asked.name}
    /\ \A o \in DOMAIN asked.given : ToldRightly(o, asked.given[o], settings.set[o])

(* The listener gets each field of the message in its own column, a tag or  *)
(* key nobody gave as the empty text, and of a body with a NUL the part     *)
(* before it.                                                               *)
MessageArrives ==
  step = "transferred" =>
    /\ event.topic = CString(sent.topic)
    /\ event.tags = IF sent.tags = Undefined THEN <<>> ELSE CString(sent.tags[2])
    /\ event.keys = IF sent.keys = Undefined THEN <<>> ELSE CString(sent.keys[2])
    /\ IsPrefix(event.body, Decoded(sent.body[2]))
    /\ "0" \notin ToSet(sent.body[2]) => Len(event.body) = Len(sent.body[2])
=============================================================================
