------------------------------- MODULE GgufFile -------------------------------
(***************************************************************************)
(* The reader of GGUF files (ft-gguf/src/lib.rs): open goes through the    *)
(* header with a cursor and gathers the metadata and the tensor table;     *)
(* tensor_data cuts a tensor out of the mapped file.                       *)
(*                                                                         *)
(* A file is the fields its writer has put one after another, and its      *)
(* length, which is less than the writer's when the file was cut short.    *)
(* A field is [is, val], with a len for a string, and widths are in bytes. *)
(***************************************************************************)
EXTENDS Integers, Sequences, FiniteSets, SequencesExt, TLC

CONSTANT GgufFiles  \* [header: fields, length, placed: tensor name -> where its data was put]

Width(f) ==
  CASE f.is = "u8" -> 1 [] f.is = "u16" -> 2 [] f.is \in {"u32", "magic"} -> 4
    [] f.is = "u64" -> 8 [] f.is = "str" -> 8 + f.len

ASSUME GgufConstants == \A f \in GgufFiles : f.length \in Nat

VARIABLES
  gguf,        \* the file
  cursor,      \* Reader.pos
  todo,        \* what open still has to read; its own loops and the recursion of value
  meta,        \* metadata: key -> value; an array is kept as "array"
  table,       \* tensors: name -> dims, type, offset, nbytes
  dataStart,
  opened       \* "reading", "yes", "panic" or the reason why not

ggufVars == <<gguf, cursor, todo, meta, table, dataStart, opened>>

\* The field at the cursor, which is where the writer began one, or the end.
FieldAt(pos) ==
  LET start(i) == FoldLeft(LAMBDA acc, f : acc + Width(f), 0, SubSeq(gguf.header, 1, i - 1))
  IN  gguf.header[CHOOSE i \in DOMAIN gguf.header : start(i) = pos]

\* Fields read one after another from the cursor on: those, and the cursor then.
\* The reader stops at the first one that the file has not got all of.
ReadFields(n) ==
  FoldLeft(LAMBDA acc, i :
             IF ~acc.whole \/ acc.pos = gguf.length THEN [acc EXCEPT !.whole = FALSE]
             ELSE LET f == FieldAt(acc.pos)
                  IN  [got |-> Append(acc.got, f), pos |-> acc.pos + Width(f),
                       whole |-> acc.pos + Width(f) <= gguf.length],
           [got |-> <<>>, pos |-> cursor, whole |-> TRUE], [i \in 1..n |-> i])

GgufInit ==
  /\ gguf \in GgufFiles
  /\ cursor = 0 /\ todo = <<[do |-> "head"]>> /\ meta = <<>> /\ table = <<>>
  /\ dataStart = 0 /\ opened = "reading"

NextIs(what) == opened = "reading" /\ todo # <<>> /\ todo[1].do = what
OpenFails(why) == opened' = why /\ UNCHANGED <<gguf, cursor, todo, meta, table, dataStart>>

\* Any of the reads comes to the end of the file.
Truncated ==
  /\ opened = "reading" /\ todo # <<>>
  /\ todo[1].do = "value" => todo[1].ty \in 0..12
  /\ LET fields == CASE todo[1].do = "head" -> 4 [] todo[1].do = "kv" -> 2
                     [] todo[1].do = "value" -> (IF todo[1].ty = 9 THEN 2 ELSE 1)
                     [] todo[1].do = "info" -> 2
                     [] todo[1].do = "dims" -> todo[1].n + 2
     IN  ~ReadFields(fields).whole
  /\ OpenFails("truncated")

Times(n, task) == [i \in 1..n |-> task]

ReadHead ==
  /\ NextIs("head")
  /\ LET r == ReadFields(4)
     IN  /\ r.whole
         /\ IF r.got[1].val # "GGUF" \/ r.got[2].val \notin 2..3
            THEN OpenFails("not a GGUF file we read")
            ELSE /\ cursor' = r.pos
                 /\ todo' = Times(r.got[4].val, [do |-> "kv"]) \o Times(r.got[3].val, [do |-> "info"])
                 /\ UNCHANGED <<gguf, meta, table, dataStart, opened>>

\* A key and the type of its value.
ReadKey ==
  /\ NextIs("kv")
  /\ LET r == ReadFields(2)
     IN  /\ r.whole
         /\ cursor' = r.pos
         /\ todo' = <<[do |-> "value", ty |-> r.got[2].val, key |-> r.got[1].val]>> \o Tail(todo)
  /\ UNCHANGED <<gguf, meta, table, dataStart, opened>>

\* value: of an array its elements are to be read next; "" is the key of an element.
ReadValue ==
  /\ NextIs("value")
  /\ LET t == todo[1]
         r == ReadFields(IF t.ty = 9 THEN 2 ELSE 1)
     IN  IF t.ty \notin 0..12 THEN OpenFails("unknown value type")
         ELSE /\ r.whole
              /\ cursor' = r.pos
              /\ meta' = IF t.key = "" THEN meta
                         ELSE (t.key :> [ty |-> t.ty, val |-> IF t.ty = 9 THEN "array" ELSE r.got[1].val])
                              @@ meta
              /\ todo' = (IF t.ty = 9
                          THEN Times(r.got[2].val, [do |-> "value", ty |-> r.got[1].val, key |-> ""])
                          ELSE <<>>) \o Tail(todo)
              /\ UNCHANGED <<gguf, table, dataStart, opened>>

\* block_layout: elements and bytes of a block.
BlockLayout ==
  0 :> <<1, 4>> @@ 1 :> <<1, 2>> @@ 2 :> <<32, 18>> @@ 3 :> <<32, 20>> @@ 6 :> <<32, 22>>
  @@ 7 :> <<32, 24>> @@ 8 :> <<32, 34>> @@ 10 :> <<256, 84>> @@ 11 :> <<256, 110>>
  @@ 12 :> <<256, 144>> @@ 13 :> <<256, 176>> @@ 14 :> <<256, 210>> @@ 16 :> <<256, 66>>
  @@ 30 :> <<1, 2>>

\* The name and the number of dimensions of a tensor.
ReadInfo ==
  /\ NextIs("info")
  /\ LET r == ReadFields(2)
     IN  /\ r.whole
         /\ cursor' = r.pos
         /\ todo' = <<[do |-> "dims", name |-> r.got[1].val, n |-> r.got[2].val]>> \o Tail(todo)
  /\ UNCHANGED <<gguf, meta, table, dataStart, opened>>

\* Its dimensions, type and offset, and the size they make.
ReadDims ==
  /\ NextIs("dims")
  /\ LET t == todo[1]
         r == ReadFields(t.n + 2)
         ty == r.got[t.n + 1].val
         elems == FoldLeft(LAMBDA acc, f : acc * f.val, 1, SubSeq(r.got, 1, t.n))
     IN  /\ r.whole
         /\ CASE ty \notin DOMAIN BlockLayout -> OpenFails("unsupported ggml type")
              [] ty \in DOMAIN BlockLayout /\ elems % BlockLayout[ty][1] # 0 -> OpenFails("not whole blocks")
              [] OTHER ->
                   /\ cursor' = r.pos
                   /\ todo' = Tail(todo)
                   /\ table' = (t.name :> [offset |-> r.got[t.n + 2].val,
                                           nbytes |-> (elems \div BlockLayout[ty][1]) * BlockLayout[ty][2]])
                               @@ table
                   /\ UNCHANGED <<gguf, meta, dataStart, opened>>

\* as_u64: of integers of any type, those that are not negative.
Alignment ==
  IF /\ "general.alignment" \in DOMAIN meta
     /\ meta["general.alignment"].ty \in 0..5 \cup {10, 11}
     /\ meta["general.alignment"].val >= 0
  THEN meta["general.alignment"].val ELSE 32

\* Mutant of RoundUp: down.
RoundDown(pos, to) == (pos \div to) * to
\* div_ceil, and times.
RoundUp(pos, to) == ((pos + to - 1) \div to) * to

FinishOpen ==
  /\ opened = "reading" /\ todo = <<>>
  /\ IF Alignment = 0
     THEN opened' = "panic" /\ UNCHANGED dataStart   \* div_ceil divides by it
     ELSE opened' = "yes" /\ dataStart' = RoundUp(cursor, Alignment)
  /\ UNCHANGED <<gguf, cursor, todo, meta, table>>

\* tensor_data: the bytes from first to before end, or why there are none.
TensorData(name) ==
  LET t == table[name]
      a == dataStart + t.offset
  IN  IF name \notin DOMAIN table THEN [err |-> "not found"]
      ELSE IF a + t.nbytes > gguf.length THEN [err |-> "out of bounds"]
      ELSE [first |-> a, end |-> a + t.nbytes]

GgufNext ==
  \/ ReadHead \/ ReadKey \/ ReadValue \/ ReadInfo \/ ReadDims \/ Truncated \/ FinishOpen

GgufSpec == GgufInit /\ [][GgufNext]_ggufVars

-----------------------------------------------------------------------------
\* Properties

\* A file that opens has had its whole header read, up to its last field; each tensor
\* of it is what its writer put there, and nothing when the file ends before it does.
HeaderSize == FoldLeft(LAMBDA acc, f : acc + Width(f), 0, gguf.header)
TensorsAreWhereTheyWerePut ==
  opened = "yes" =>
    /\ cursor = HeaderSize /\ HeaderSize <= gguf.length
    /\ DOMAIN table = DOMAIN gguf.placed
    /\ \A name \in DOMAIN table :
         IF gguf.placed[name].end <= gguf.length
         THEN TensorData(name) = gguf.placed[name]
         ELSE TensorData(name) = [err |-> "out of bounds"]

=============================================================================
