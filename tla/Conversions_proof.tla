---------------------------- MODULE Conversions_proof --------------------------
(***************************************************************************)
(* Proofs of Conversions: what a C string keeps of a text, which numbers a *)
(* C int keeps, and from them that options and messages arrive, for every  *)
(* width of an int and every length of a body.                             *)
(***************************************************************************)
EXTENDS Conversions, WellFoundedInduction, TLAPS

Chars == {"x", "0", "?"}

-----------------------------------------------------------------------------
(* A set of numbers has a least one, which is the one Min chooses. *)
LEMMA MinIsLeast ==
  ASSUME NEW S \in SUBSET Nat, S # {}
  PROVE  Min(S) \in S /\ \A m \in S : Min(S) <= m
<1> DEFINE Less == {ss \in Nat \X Nat : ss[1] < ss[2]}
<1>1. IsWellFoundedOn(Less, Nat)
  BY NatLessThanWellFounded DEF OpToRel
<1>2. PICK n \in S : \A m \in S : <<m, n>> \notin Less
  BY <1>1, WFMin
<1>3. ASSUME NEW m \in S PROVE n <= m
  <2>1. m \in Nat /\ n \in Nat
    OBVIOUS
  <2>2. m < n => <<m, n>> \in Less
    BY <2>1
  <2> QED BY <1>2, <2>1, <2>2
<1> QED BY <1>3 DEF Min

(* A C string is the part of a text before its first NUL. *)
LEMMA CStringEnds ==
  ASSUME NEW t \in Seq(Chars)
  PROVE  \/ /\ \A k \in 1..Len(t) : t[k] # "0"
            /\ CString(t) = t
         \/ \E n \in 1..Len(t) :
              /\ t[n] = "0" /\ \A k \in 1..(n - 1) : t[k] # "0"
              /\ CString(t) = SubSeq(t, 1, n - 1)
<1> DEFINE ends == {k \in 1..Len(t) : t[k] = "0"}
<1>1. /\ ends = {} => CString(t) = t
      /\ ends # {} /\ Min(ends) # 0 => CString(t) = SubSeq(t, 1, Min(ends) - 1)
  BY DEF CString, SelectInSeq
<1>2. \A k : k \in ends <=> k \in 1..Len(t) /\ t[k] = "0"
  OBVIOUS
<1> HIDE DEF ends
<1>3. CASE ends = {}
  BY <1>1, <1>2, <1>3
<1>4. CASE ends # {}
  <2>1. ends \in SUBSET Nat
    BY <1>2
  <2>2. Min(ends) \in ends /\ \A m \in ends : Min(ends) <= m
    BY <1>4, <2>1, MinIsLeast
  <2> DEFINE n == Min(ends)
  <2> HIDE DEF n
  <2>3. n \in 1..Len(t) /\ t[n] = "0" /\ \A k \in 1..(n - 1) : t[k] # "0"
    BY <1>2, <2>2 DEF n
  <2>4. CString(t) = SubSeq(t, 1, n - 1)
    BY <1>1, <1>4, <2>3 DEF n
  <2> QED BY <2>3, <2>4
<1> QED BY <1>3, <1>4

LEMMA CStringIsPrefix ==
  ASSUME NEW t \in Seq(Chars)
  PROVE  /\ CString(t) \in Seq(Chars)
         /\ IsPrefix(CString(t), t)
         /\ \A k \in 1..Len(CString(t)) : CString(t)[k] \notin {"0"}
         /\ "0" \notin ToSet(t) => CString(t) = t
<1>1. CASE /\ \A k \in 1..Len(t) : t[k] # "0"
           /\ CString(t) = t
  <2>1. SubSeq(t, 1, Len(t)) = SubSeq(t, 1, Len(t)) /\ Len(t) <= Len(t)
    OBVIOUS
  <2> QED BY <1>1, <2>1 DEF IsPrefix
<1>2. ASSUME NEW n \in 1..Len(t), t[n] = "0", \A k \in 1..(n - 1) : t[k] # "0",
             CString(t) = SubSeq(t, 1, n - 1)
      PROVE  /\ CString(t) \in Seq(Chars)
             /\ IsPrefix(CString(t), t)
             /\ \A k \in 1..Len(CString(t)) : CString(t)[k] \notin {"0"}
             /\ "0" \notin ToSet(t) => CString(t) = t
  <2> DEFINE c == SubSeq(t, 1, n - 1)
  <2>1. /\ c \in Seq(Chars) /\ Len(c) = n - 1
        /\ \A k \in 1..(n - 1) : c[k] = t[k]
    OBVIOUS
  <2>2. SubSeq(c, 1, Len(c)) = c
    BY <2>1
  <2>3. "0" \in ToSet(t)
    BY <1>2 DEF ToSet
  <2> HIDE DEF c
  <2>4. IsPrefix(c, t)
    BY <2>1, <2>2 DEF IsPrefix, c
  <2> QED BY <1>2, <2>1, <2>3, <2>4 DEF c
<1> QED BY <1>1, <1>2, CStringEnds

(* So it is not cut a second time. *)
LEMMA CStringOnce ==
  ASSUME NEW t \in Seq(Chars)
  PROVE  CString(CString(t)) = CString(t)
<1> DEFINE c == CString(t)
<1>1. c \in Seq(Chars) /\ \A k \in 1..Len(c) : c[k] # "0"
  BY CStringIsPrefix
<1> HIDE DEF c
<1>2. CString(c) = c
  BY <1>1, CStringEnds
<1> QED BY <1>2 DEF c

(* Decoding keeps the length and, beside what is not UTF-8, every character. *)
LEMMA DecodedSame ==
  ASSUME NEW t \in Seq(Chars)
  PROVE  /\ Decoded(t) \in Seq(Chars \cup {"U+FFFD"})
         /\ Len(Decoded(t)) = Len(t)
         /\ (\A k \in 1..Len(t) : t[k] # "?") => Decoded(t) = t
<1>1. Decoded(t) \in [1..Len(t) -> Chars \cup {"U+FFFD"}]
  BY DEF Decoded
<1>2. Decoded(t) \in Seq(Chars \cup {"U+FFFD"}) /\ Len(Decoded(t)) = Len(t)
  BY <1>1
<1>3. (\A k \in 1..Len(t) : t[k] # "?") => Decoded(t) = t
  BY DEF Decoded
<1> QED BY <1>2, <1>3

LEMMA DecodedPrefix ==
  ASSUME NEW s \in Seq(Chars), NEW t \in Seq(Chars), IsPrefix(s, t)
  PROVE  IsPrefix(Decoded(s), Decoded(t))
<1>1. Len(s) <= Len(t) /\ \A k \in 1..Len(s) : s[k] = t[k]
  <2>1. SubSeq(s, 1, Len(s)) = SubSeq(t, 1, Len(s)) /\ Len(s) <= Len(t)
    BY DEF IsPrefix
  <2>2. ASSUME NEW k \in 1..Len(s) PROVE s[k] = t[k]
    <3>1. SubSeq(s, 1, Len(s))[k] = s[k] /\ SubSeq(t, 1, Len(s))[k] = t[k]
      BY <2>1
    <3> QED BY <2>1, <3>1
  <2> QED BY <2>1, <2>2
<1> DEFINE ds == Decoded(s)  dt == Decoded(t)
<1>2. \A k \in 1..Len(s) : ds[k] = dt[k]
  BY <1>1 DEF Decoded
<1>3. /\ ds \in Seq(Chars \cup {"U+FFFD"}) /\ Len(ds) = Len(s)
      /\ dt \in Seq(Chars \cup {"U+FFFD"}) /\ Len(dt) = Len(t)
  BY DecodedSame
<1> HIDE DEF ds, dt
<1>4. SubSeq(ds, 1, Len(ds)) = SubSeq(dt, 1, Len(ds))
  BY <1>1, <1>2, <1>3
<1> QED BY <1>1, <1>3, <1>4 DEF IsPrefix, ds, dt

(* A C int keeps a number that is not beyond its largest. *)
LEMMA Int32Keeps == \A n \in 0..MaxInt : Int32(n) = n
<1> SUFFICES ASSUME NEW n \in 0..MaxInt PROVE Int32(n) = n
  OBVIOUS
<1>1. MaxInt \in Nat /\ Ints = 2 * MaxInt + 2
  BY ConversionAssumption DEF Ints
<1>2. n % Ints = n
  BY <1>1
<1> QED BY <1>1, <1>2 DEF Int32

(* What follows the last int begins again with the least one, and so on.    *)
LEMMA Int32Wraps ==
  ASSUME NEW n \in -1..(Ints + 2)
  PROVE  Int32(n) \in {n, n - Ints} /\ Int32(n) \in -(MaxInt + 1)..MaxInt
<1>1. MaxInt \in Nat /\ MaxInt >= 7 /\ Ints = 2 * MaxInt + 2
  BY ConversionAssumption DEF Ints
<1> DEFINE I == Ints
<1>2. I \in Nat /\ I = 2 * MaxInt + 2 /\ I > 3 /\ n \in -1..(I + 2)
  BY <1>1
<1> HIDE DEF I
<1>3. CASE n = -1
  <2>1. (-1) % I = I - 1
    BY <1>2
  <2> QED BY <1>1, <1>2, <1>3, <2>1 DEF Int32, I
<1>4. CASE n \in 0..(I - 1)
  <2>1. n % I = n
    BY <1>2, <1>4
  <2> QED BY <1>1, <1>2, <1>4, <2>1 DEF Int32, I
<1>5. CASE n \in I..(I + 2)
  <2> DEFINE q == n \div I
             r == n % I
  <2>1. q \in Int /\ r \in 0..(I - 1) /\ n = I * q + r
    BY <1>2, <1>5
  <2> HIDE DEF q, r
  <2>2. (q >= 2 => I * q >= 2 * I) /\ (q <= 0 => I * q <= 0)
    BY <1>2, <2>1
  <2>3. q = 1
    BY <1>2, <1>5, <2>1, <2>2
  <2>4. n % I = n - I
    BY <1>2, <1>5, <2>1, <2>3 DEF r
  <2> QED BY <1>1, <1>2, <1>5, <2>4 DEF Int32, I
<1> QED BY <1>2, <1>3, <1>4, <1>5

-----------------------------------------------------------------------------
(* Messages. *)

LEMMA Fields ==
  /\ DOMAIN Columns = {"topic", "tags", "keys", "body", "msgId"}
  /\ \A c \in DOMAIN Columns : Field(Columns[c]) = c
BY DEF Columns, Field

(* A text of JavaScript has only characters that are UTF-8. *)
LEMMA TextKept ==
  ASSUME NEW n \in Nat, NEW t \in BoundedSeq({"x", "0"}, n)
  PROVE  t \in Seq(Chars) /\ Decoded(CString(CString(t))) = CString(t)
<1>1. PICK m \in 0..n : t \in [1..m -> {"x", "0"}]
  BY DEF BoundedSeq, SeqOf
<1>2. t \in Seq({"x", "0"}) /\ t \in Seq(Chars)
  BY <1>1 DEF Chars
<1>3. CString(t) \in Seq(Chars) /\ IsPrefix(CString(t), t)
  BY <1>2, CStringIsPrefix
<1>4. \A k \in 1..Len(CString(t)) : CString(t)[k] # "?"
  <2> DEFINE c == CString(t)
  <2>1. Len(c) <= Len(t) /\ SubSeq(c, 1, Len(c)) = SubSeq(t, 1, Len(c)) /\ c \in Seq(Chars)
    BY <1>3 DEF IsPrefix
  <2> HIDE DEF c
  <2>2. ASSUME NEW k \in 1..Len(c) PROVE c[k] = t[k] /\ t[k] # "?"
    <3>1. SubSeq(c, 1, Len(c))[k] = c[k] /\ SubSeq(t, 1, Len(c))[k] = t[k]
      BY <1>2, <2>1
    <3> QED BY <1>2, <2>1, <3>1
  <2> QED BY <2>2 DEF c
<1> QED BY <1>2, <1>3, <1>4, CStringOnce, DecodedSame

LEMMA BodyKept ==
  ASSUME NEW body \in Bodies
  PROVE  LET b == IF body[1] = "string" THEN CString(body[2]) ELSE body[2]
         IN /\ body[2] \in Seq(Chars)
            /\ IsPrefix(Decoded(CString(b)), Decoded(body[2]))
            /\ "0" \notin ToSet(body[2]) => Len(Decoded(CString(b))) = Len(body[2])
<1> DEFINE b == IF body[1] = "string" THEN CString(body[2]) ELSE body[2]
<1>1. body[2] \in Seq(Chars)
  <2>1. body[2] \in BoundedSeq({"x", "0"}, MaxText) \/ body[2] \in BoundedSeq({"x", "0", "?"}, MaxText)
    BY DEF Bodies, Str
  <2>2. PICK m \in 0..MaxText : body[2] \in [1..m -> Chars]
    BY <2>1, ConversionAssumption DEF BoundedSeq, SeqOf, Chars
  <2> QED BY <2>2, ConversionAssumption
<1>2. CString(b) = CString(body[2])
  BY <1>1, CStringOnce
<1> HIDE DEF b
<1> DEFINE t == body[2]
<1>3. t \in Seq(Chars)
  BY <1>1
<1> HIDE DEF t
<1>4. CString(t) \in Seq(Chars) /\ IsPrefix(CString(t), t) /\ ("0" \notin ToSet(t) => CString(t) = t)
  BY <1>3, CStringIsPrefix
<1>5. IsPrefix(Decoded(CString(t)), Decoded(t)) /\ Len(Decoded(CString(t))) = Len(CString(t))
  BY <1>3, <1>4, DecodedPrefix, DecodedSame
<1> QED BY <1>2, <1>3, <1>4, <1>5 DEF b, t

LEMMA TransferArrives ==
  ASSUME NEW topic \in Texts, NEW tags \in Options, NEW keys \in Options, NEW body \in Bodies,
         Transfer([topic |-> topic, tags |-> tags, keys |-> keys, body |-> body])
  PROVE  MessageArrives'
<1> DEFINE m == [topic |-> topic, tags |-> tags, keys |-> keys, body |-> body]
<1>1. /\ sent' = m
      /\ event' = [c \in {"topic", "tags", "keys", "body", "msgId"} |-> Decoded(CString(CMessage(m)[c]))]
  BY Fields DEF Transfer
<1>2. ASSUME NEW v \in Options
      PROVE  Decoded(CString(Optional(v))) = IF v = Undefined THEN <<>> ELSE CString(v[2])
  <2>1. CASE v = Undefined
    <3>1. <<>> \in Seq(Chars) /\ "0" \notin ToSet(<<>>)
      BY DEF ToSet
    <3>2. CString(<<>>) = <<>>
      BY <3>1, CStringIsPrefix
    <3>3. Decoded(<<>>) = <<>>
      <4>1. \A k \in 1..Len(<<>>) : <<>>[k] # "?"
        OBVIOUS
      <4> QED BY <3>1, <4>1, DecodedSame
    <3>4. Optional(v) = <<>>
      BY <2>1 DEF Optional, Undefined
    <3> QED BY <2>1, <3>2, <3>3, <3>4
  <2>2. ASSUME NEW t \in Texts, v = Str(t)
        PROVE  Decoded(CString(Optional(v))) = CString(v[2]) /\ v # Undefined
    <3>1. Decoded(CString(CString(t))) = CString(t)
      BY TextKept DEF Texts
    <3> QED BY <2>2, <3>1 DEF Optional, Str, Undefined
  <2> QED BY <2>1, <2>2 DEF Options
<1>3. /\ CMessage(m).topic = CString(topic)
      /\ CMessage(m).tags = Optional(tags)
      /\ CMessage(m).keys = Optional(keys)
      /\ CMessage(m).body = IF body[1] = "string" THEN CString(body[2]) ELSE body[2]
  BY DEF CMessage
<1>4. event.topic' = CString(topic)
  BY <1>1, <1>3, TextKept DEF Texts
<1>5. /\ event.tags' = IF tags = Undefined THEN <<>> ELSE CString(tags[2])
      /\ event.keys' = IF keys = Undefined THEN <<>> ELSE CString(keys[2])
  BY <1>1, <1>2, <1>3
<1>6. /\ IsPrefix(event.body', Decoded(body[2]))
      /\ "0" \notin ToSet(body[2]) => Len(event.body') = Len(body[2])
  BY <1>1, <1>3, BodyKept
<1> QED BY <1>1, <1>4, <1>5, <1>6 DEF MessageArrives

-----------------------------------------------------------------------------
(* Options. *)

LEMMA LevelFound ==
  ASSUME NEW name \in ToSet(LevelNames)
  PROVE  \E k \in 1..7 : Level(name) = Num(k) /\ LevelNames[k] = name
<1> DEFINE found == {k \in 1..Len(LevelNames) : LevelNames[k] = name}
<1>1. Len(LevelNames) = 7 /\ DOMAIN LevelNames = 1..7
  BY DEF LevelNames
<1>2. Level(name) = Num(IF found # {} THEN Min(found) ELSE 0)
  BY DEF Level, SelectInSeq
<1>3. \A k : k \in found <=> k \in 1..7 /\ LevelNames[k] = name
  BY <1>1
<1>4. PICK k \in 1..7 : LevelNames[k] = name
  BY <1>1 DEF ToSet
<1> HIDE DEF found
<1>5. found # {} /\ found \in SUBSET Nat
  BY <1>3, <1>4
<1>6. Min(found) \in found
  BY <1>5, MinIsLeast
<1> QED BY <1>2, <1>3, <1>5, <1>6

(* Each value of each option tells the client what it must. *)
LEMMA OptionArrives ==
  ASSUME NEW o, NEW v \in Values
  PROVE  ToldRightly(o, v, SetOption(o, Normal(o, v)))
<1> DEFINE told    == SetOption(o, Normal(o, v))
           isName  == o \in {"nameServer", "groupName"}
           isLevel == o = "logLevel" /\ v[1] = "string" /\ v # Str("")
           isCount == o \in {"threadCount", "maxBatchSize"}
<1>1. isName => told = IF v[1] = "string" THEN v ELSE None
  BY DEF SetOption, Normal
<1>2. ASSUME ~isName, v[1] = "number"
      PROVE  \E n \in {v[2], v[2] - Ints} :
               /\ n \in -(MaxInt + 1)..MaxInt
               /\ told = IF isCount /\ n < 1 THEN None ELSE Num(n)
  <2>1. v[2] \in -1..(Ints + 2)
    <3>1. CASE v \in {Num(n) : n \in -1..(Ints + 2)}
      BY <3>1 DEF Num
    <3>2. CASE v \in {Null, Undefined}
      BY <1>2, <3>2 DEF Null, Undefined
    <3>3. CASE v \in {Str(s) : s \in ToSet(LevelNames) \cup {"", "other"}}
      <4>1. PICK s : v = Str(s)
        BY <3>3
      <4>2. v[1] = "string"
        BY <4>1 DEF Str
      <4> QED BY <1>2, <4>2
    <3> QED BY <3>1, <3>2, <3>3 DEF Values
  <2> DEFINE n == Int32(v[2])
  <2>2. Normal(o, v) = v
    BY <1>2 DEF Normal
  <2>3. told = IF isCount THEN (IF n > 0 THEN Num(n) ELSE None) ELSE Num(n)
    BY <1>2, <2>2 DEF SetOption
  <2>4. n \in {v[2], v[2] - Ints} /\ n \in -(MaxInt + 1)..MaxInt
    BY <2>1, Int32Wraps
  <2> HIDE DEF n, told
  <2>5. n < 1 <=> ~(n > 0)
    BY <2>4, ConversionAssumption
  <2> QED BY <2>3, <2>4, <2>5
<1>3. ~isName /\ ~isLevel /\ v[1] # "number" => told = Default(o)
  BY DEF SetOption, Normal, Default
<1>4. ASSUME isLevel
      PROVE  IF v[2] \in ToSet(LevelNames) THEN LevelNames[told[2]] = v[2] ELSE told = Num(4)
  <2>1. \A k \in 1..7 : SetOption("logLevel", Num(k)) = Num(k)
    <3>1. \A k \in 1..7 : k \in 0..MaxInt
      BY ConversionAssumption
    <3> QED BY <3>1, Int32Keeps DEF SetOption, Num
  <2>2. told = SetOption("logLevel", Level(v[2]))
    BY <1>4 DEF Normal
  <2> HIDE DEF told
  <2>3. ASSUME v[2] \in ToSet(LevelNames) PROVE LevelNames[told[2]] = v[2]
    <3>1. PICK k \in 1..7 : Level(v[2]) = Num(k) /\ LevelNames[k] = v[2]
      BY <2>3, LevelFound
    <3>2. told = Num(k)
      BY <2>1, <2>2, <3>1
    <3> QED BY <3>1, <3>2 DEF Num
  <2>4. ASSUME v[2] \notin ToSet(LevelNames) PROVE told = Num(4)
    <3>1. Level(v[2]) = Num(4)
      BY <2>4 DEF Level
    <3> QED BY <2>1, <2>2, <3>1
  <2> QED BY <2>3, <2>4
<1> HIDE DEF told
<1> QED BY <1>1, <1>2, <1>3, <1>4 DEF ToldRightly, told

(* Every form of the constructor call picks the same options and the name.  *)
LEMMA NewArrives ==
  ASSUME NEW class \in {"Producer", "PushConsumer"}, NEW second, NEW third,
         \A object \in {second, third} : object[1] = "object" =>
           \A o \in DOMAIN object[2] : object[2][o] \in Values,
         second[1] = "string" => second = Str("name"),
         second \in {Null, Undefined} \/ second[1] = "string" \/ third = Undefined,
         New(class, second, third)
  PROVE  OptionsArrive'
<1> DEFINE shifted == second[1] # "string" /\ third = Undefined
           object  == IF shifted THEN second ELSE third
           given   == [o \in OptionsOf(class) |->
                         IF object[1] = "object" /\ o \in DOMAIN object[2] THEN object[2][o] ELSE Undefined]
           set     == [o \in OptionsOf(class) |-> SetOption(o, Normal(o, given[o]))]
<1>1. /\ asked' = [name |-> IF second[1] = "string" THEN second ELSE None, given |-> given]
      /\ settings' = [name |-> InstanceName(IF shifted THEN Null ELSE second), set |-> set]
  BY DEF New
<1>2. ASSUME NEW o \in OptionsOf(class) PROVE given[o] \in Values
  BY DEF Values
<1>3. DOMAIN given = OptionsOf(class) /\ \A o \in OptionsOf(class) : set[o] = SetOption(o, Normal(o, given[o]))
  OBVIOUS
<1> HIDE DEF given, set
<1>4. \A o \in DOMAIN given : ToldRightly(o, given[o], set[o])
  BY <1>2, <1>3, OptionArrives
<1>5. settings'.name \in IF asked'.name = None THEN {None, Str("undefined")} ELSE {asked'.name}
  <2>1. CASE second[1] = "string"
    <3>1. second # Null /\ second # Undefined /\ second # None
      BY <2>1 DEF Null, Undefined, None, Str
    <3>2. InstanceName(second) = second
      BY <2>1, <3>1 DEF InstanceName
    <3> QED BY <1>1, <2>1, <3>1, <3>2
  <2>2. CASE second[1] # "string"
    <3>1. Null[1] # "string" /\ Null # Undefined
      BY DEF Null, Undefined
    <3>2. InstanceName(IF shifted THEN Null ELSE second) \in {None, Str("undefined")}
      BY <2>2, <3>1 DEF InstanceName
    <3> QED BY <1>1, <2>2, <3>2
  <2> QED BY <2>1, <2>2
<1> QED BY <1>1, <1>4, <1>5 DEF OptionsArrive, ToldRightly, Default

LEMMA ConstructArrives == ASSUME Construct PROVE OptionsArrive'
<1> SUFFICES ASSUME NEW class \in {"Producer", "PushConsumer"}, NEW name \in {Str("name"), Null, Undefined},
                    \/ New(class, name, Undefined)
                    \/ \E option \in OptionsOf(class), v \in Values :
                         New(class, name, Obj([x \in {option} |-> v])) \/ New(class, Obj([x \in {option} |-> v]), Undefined)
             PROVE  OptionsArrive'
  BY DEF Construct
<1>1. /\ name[1] # "object" /\ (name[1] = "string" => name = Str("name"))
      /\ name \in {Null, Undefined} \/ name[1] = "string"
      /\ Undefined[1] # "object"
  BY DEF Str, Null, Undefined
<1>2. CASE New(class, name, Undefined)
  BY <1>1, <1>2, NewArrives
<1>3. ASSUME NEW option \in OptionsOf(class), NEW v \in Values
      PROVE  /\ Obj([x \in {option} |-> v])[1] = "object"
             /\ \A o \in DOMAIN Obj([x \in {option} |-> v])[2] : Obj([x \in {option} |-> v])[2][o] \in Values
  BY DEF Obj
<1>4. ASSUME NEW option \in OptionsOf(class), NEW v \in Values, New(class, name, Obj([x \in {option} |-> v]))
      PROVE  OptionsArrive'
  BY <1>1, <1>3, <1>4, NewArrives
<1>5. ASSUME NEW option \in OptionsOf(class), NEW v \in Values, New(class, Obj([x \in {option} |-> v]), Undefined)
      PROVE  OptionsArrive'
  BY <1>1, <1>3, <1>5, NewArrives
<1> QED BY <1>2, <1>4, <1>5

-----------------------------------------------------------------------------
ConvInv == OptionsArrive /\ MessageArrives

LEMMA ConvInvStep ==
  ASSUME ConvInv, [Next]_vars
  PROVE  ConvInv'
<1>1. ASSUME Construct PROVE ConvInv'
  <2>1. step' = "constructed"
    <3>1. \A class, second, third : New(class, second, third) => step' = "constructed"
      BY DEF New
    <3> QED BY <1>1, <3>1 DEF Construct
  <2> QED BY <1>1, <2>1, ConstructArrives DEF ConvInv, MessageArrives
<1>2. ASSUME SendAndReceive PROVE ConvInv'
  <2>1. step' = "transferred"
    BY <1>2 DEF SendAndReceive, Transfer
  <2>2. MessageArrives'
    BY <1>2, TransferArrives DEF SendAndReceive
  <2> QED BY <2>1, <2>2 DEF ConvInv, OptionsArrive
<1>3. ASSUME Authorize PROVE ConvInv'
  <2>1. step' = "credentialed"
    BY <1>3 DEF Authorize, SetSessionCredentials
  <2> QED BY <2>1 DEF ConvInv, OptionsArrive, MessageArrives
<1>4. CASE UNCHANGED vars
  BY <1>4 DEF ConvInv, OptionsArrive, MessageArrives, ToldRightly, Default, vars
<1> QED BY <1>1, <1>2, <1>3, <1>4 DEF Next

LEMMA ConvInvariant == Spec => []ConvInv
<1>1. Init => ConvInv
  BY DEF Init, ConvInv, OptionsArrive, MessageArrives
<1> QED BY <1>1, ConvInvStep, PTL DEF Spec

(* Every form of the constructor call tells the client the name and the     *)
(* options the user gave, whatever the width of an int: numbers that fit as *)
(* they are, larger ones without what an int cannot hold.                   *)
THEOREM ConversionOptions == Spec => []OptionsArrive
BY ConvInvariant, PTL DEF ConvInv

(* Each field of a message reaches its own column of the event, a body up   *)
(* to its first NUL and in full length without one, however long it is.     *)
THEOREM ConversionMessage == Spec => []MessageArrives
BY ConvInvariant, PTL DEF ConvInv
=============================================================================
