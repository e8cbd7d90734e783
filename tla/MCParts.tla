------------------------------- MODULE MCParts -------------------------------
(***************************************************************************)
(* The parts that share no state with each other, checked side by side:    *)
(* a behaviour is one of Prompt, Reply, GgufFile, ExpertBank, CopyPlan,    *)
(* Decode or LruAdmitBlockLru, and the other parts stay in an initial      *)
(* state of theirs.                                                        *)
(***************************************************************************)
EXTENDS Prompt, Reply, GgufFile, ExpertBank, CopyPlan, Decode, LruAdmitBlockLru

VARIABLE part

partVars == <<promptVars, replyVars, ggufVars, bankVars, planVars, decodeVars, touchedVars, part>>

PartsInit ==
  /\ part \in {"prompt", "reply", "gguf", "bank", "plan", "decode", "block"}
  /\ IF part = "prompt" THEN TRUE ELSE promptPc = "cut" /\ chat = <<>> /\ text = <<>>
  /\ IF part = "gguf" THEN TRUE ELSE gguf = CHOOSE f \in GgufFiles : TRUE
  /\ IF part = "bank" THEN TRUE ELSE block = <<>>
  /\ IF part = "plan" THEN TRUE ELSE missList = <<>>
  /\ GgufInit /\ BankInit /\ PlanInit /\ DecodeInit /\ TouchedInit /\ ReplyInit /\ PromptInit

PartsNext ==
  /\ UNCHANGED part
  /\ \/ /\ part = "prompt" /\ PromptNext
        /\ UNCHANGED <<replyVars, ggufVars, bankVars, planVars, decodeVars, touchedVars>>
     \/ /\ part = "reply" /\ ReplyNext
        /\ UNCHANGED <<promptVars, ggufVars, bankVars, planVars, decodeVars, touchedVars>>
     \/ /\ part = "gguf" /\ GgufNext
        /\ UNCHANGED <<promptVars, replyVars, bankVars, planVars, decodeVars, touchedVars>>
     \/ /\ part = "bank" /\ BankNext
        /\ UNCHANGED <<promptVars, replyVars, ggufVars, planVars, decodeVars, touchedVars>>
     \/ /\ part = "plan" /\ PlanNext
        /\ UNCHANGED <<promptVars, replyVars, ggufVars, bankVars, decodeVars, touchedVars>>
     \/ /\ part = "decode" /\ DecodeNext
        /\ UNCHANGED <<promptVars, replyVars, ggufVars, bankVars, planVars, touchedVars>>
     \/ /\ part = "block" /\ TouchedNext
        /\ UNCHANGED <<promptVars, replyVars, ggufVars, bankVars, planVars, decodeVars>>

PartsSpec == PartsInit /\ [][PartsNext]_partVars

-----------------------------------------------------------------------------
\* Prompt: four letters, of which one has two bytes and one no token at all.
TestLetters == {"a", "b", "e", "x"}
TestUtf8 == [c \in Char \cup Markers |->
  CASE c = "e" -> <<"C3", "A9">> [] c = Underline -> <<"E2", "96", "81">>
    [] c = ChannelEnd -> <<"3C", "3E">> [] OTHER -> <<c>>]
TestVocab ==
  {<<c>> : c \in {"a", "b", Underline} \cup RoleNames}
    \cup {<<"a", "a">>, <<"a", "b">>, <<"a", "a", "b">>, <<Underline, "a">>}
TestMerges == << << <<"a">>, <<"a">> >>, << <<"a">>, <<"b">> >>,
                 << <<Underline>>, <<"a">> >>, << <<"a", "a">>, <<"b">> >> >>
TestPrompts == UNION {[1..n -> {"a", "b", "e", "x", Space, Eos}] : n \in 0..4}
Says(units) == <<[kind |-> "text", text |-> units]>>
TestMessages(i) ==
  [role : {"system", "user", "assistant", "tool"},
   parts : {<<>>, Says(<< <<"a">>, <<"b">>, <<"a", "b">> >>[i])}]
  \cup {[role |-> "user", parts |-> Says(<<"a">>) \o Says(<<Space, "b">>)],
        [role |-> "user", parts |-> Says(<<"a">>) \o <<[kind |-> "image", text |-> <<>>]>>],
        [role |-> "critic", parts |-> <<>>]}
TestConversations ==
  {<<>>} \cup {<<m>> : m \in TestMessages(1)}
    \cup {<<m, n>> : m \in TestMessages(1), n \in TestMessages(2)}
    \cup {<<m, n, o>> : m \in TestMessages(1), n \in TestMessages(2), o \in TestMessages(3)}

\* Reply: tokens of one or two letters, and a character that comes in three tokens;
\* stop sequences that overlap each other, one that is empty, too many.
TestPieces == {<<"a">>, <<"a", "b">>, <<"L">>, <<"C">>}
TestStops ==
  {<<>>, << <<"b", "a">>, <<>>, <<"a", "b", "a">> >>, << <<"W", "a">> >>,
   << <<"a">>, <<"b">>, <<"a">> >>}

\* GgufFile: an array of arrays, alignments 8, 16, 32 and 0, types of one and of 32
\* elements per block, and files that are not as they should be; each cut short too.
U8(n) == [is |-> "u8", val |-> n]
U32(n) == [is |-> "u32", val |-> n]
U64(n) == [is |-> "u64", val |-> n]
Str(s, n) == [is |-> "str", val |-> s, len |-> n]
FileHead(tensors, kvs) == <<[is |-> "magic", val |-> "GGUF"], U32(3), U64(tensors), U64(kvs)>>
AlignKv(n) == <<Str("general.alignment", 17), U32(4), U32(n)>>
ListKv == <<Str("list", 4), U32(9), U32(9), U64(2), U32(8), U64(2), Str("x", 1), Str("yy", 2),
            U32(0), U64(1), U8(7)>>
Info(n, dims, ty, offset) ==
  <<Str(n, 1), U32(Len(dims))>> \o [i \in DOMAIN dims |-> U64(dims[i])] \o <<U32(ty), U64(offset)>>
HeaderBytes(h) == FoldLeft(LAMBDA acc, f : acc + Width(f), 0, h)
PutAt(h, align, offset, n) ==
  LET data == CHOOSE m \in HeaderBytes(h)..(HeaderBytes(h) + align - 1) : m % align = 0
  IN  [first |-> data + offset, end |-> data + offset + n]
TwoTensors == FileHead(2, 2) \o ListKv \o AlignKv(8) \o Info("t", <<32, 2>>, 2, 0) \o Info("u", <<3>>, 0, 40)
NoMeta == FileHead(1, 0) \o Info("t", <<2>>, 1, 0)
ZeroAlign == FileHead(1, 1) \o AlignKv(0) \o Info("t", <<1>>, 1, 0)
BadValue == FileHead(1, 1) \o <<Str("k", 1), U32(13), U32(0)>> \o Info("t", <<2>>, 1, 0)
HalfBlock == FileHead(1, 1) \o AlignKv(16) \o Info("t", <<33>>, 2, 0)
BadType == FileHead(1, 1) \o AlignKv(16) \o Info("t", <<33>>, 5, 0)
WholeFiles ==
  {<<TwoTensors, [t |-> PutAt(TwoTensors, 8, 0, 36), u |-> PutAt(TwoTensors, 8, 40, 12)]>>,
   <<NoMeta, [t |-> PutAt(NoMeta, 32, 0, 4)]>>,
   <<ZeroAlign, <<>> >>, <<BadValue, <<>> >>, <<HalfBlock, <<>> >>, <<BadType, <<>> >>,
   << <<[is |-> "magic", val |-> "GGML"], U32(3), U64(0), U64(0)>>, <<>> >>}
TestFiles ==
  {[header |-> w[1], placed |-> w[2], length |-> n] : w \in WholeFiles, n \in {4, 24, 40, 60, 90, 133}}
    \cup UNION {{[header |-> w[1], placed |-> w[2], length |-> HeaderBytes(w[1]) + n]
                   : n \in {-1, 0, 1, 30, 60, 100}} : w \in WholeFiles}

\* ExpertBank: the extreme activations.
TestActivations == {-127, 0, 127}

\* Decode: a sliding-window layer and a full one, which have different head sizes, and
\* a second model of one layer with widths that are equal, so that buffers keyed by them
\* are one.
TestModel ==
  [hidden |-> 4, ffn |-> 8, inter |-> 2, vocab |-> 5, heads |-> 2, topk |-> 2, experts |-> 3,
   hdSwa |-> 1, hdFull |-> 3, maxSeq |-> 2, window |-> 1, kvHeads |-> <<2, 1>>, swa |-> <<TRUE, FALSE>>]
TestGeometries ==
  {TestModel, [TestModel EXCEPT !.hidden = 2, !.ffn = 2, !.hdFull = 1, !.kvHeads = <<1>>, !.swa = <<FALSE>>]}
\* The first sequence of slot 1 is greedy, and what comes after the one of slot 2.
TestGreedy == {<<1, 0>>, <<2, 1>>}

\* LruAdmitBlockLru: launches that hit, fill a free slot, evict, and repeat an expert as two
\* sequences that share it do.
TestEntries == {<<1>>, <<1, 2>>, <<3, 2>>, <<4>>, <<3, 4, 3>>, <<1, 2, 1, 4>>, <<1, 4, 2>>}
=============================================================================
