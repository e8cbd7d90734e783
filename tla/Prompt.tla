-------------------------------- MODULE Prompt --------------------------------
(***************************************************************************)
(* From the messages of a chat request to the tokens the model is given:   *)
(* render_chat lays the conversation out (ft-model/src/openai.rs) and      *)
(* encode_with_specials turns the text into tokens                         *)
(* (ft-model/src/tokenizer.rs).  A completion's prompt goes straight to    *)
(* the second.                                                             *)
(*                                                                         *)
(* A text is a sequence of units: characters, and the markers, which are   *)
(* strings such as <|turn>.  The names of the roles are one unit each.     *)
(* A token is what it stands for: [str |-> p] for an entry of vocab,       *)
(* [byte |-> b] for a byte token <0xXX>.                                   *)
(***************************************************************************)
EXTENDS Integers, Sequences, FiniteSets, SequencesExt

CONSTANTS
  Letters,      \* the characters of prompts and messages
  Utf8,         \* letter -> its bytes
  Vocab,        \* tokens that are text
  ByteTokens,   \* bytes for which vocab has a token <0xXX>
  MergeList,    \* tokenizer.ggml.merges, as pairs of pieces
  MarkersKnown, \* markers that are in vocab
  Conversations, Prompts   \* what requests contain

Space == " "
Underline == "_"   \* stands for U+2581

\* The specials of encode_with_specials that occur here, as they are spelled.
TurnOpen == "<|turn>"
TurnClose == "<turn|>"
Channel == "<|channel>"
ChannelEnd == "<channel|>"
Eos == "<eos>"
Markers == {TurnOpen, TurnClose, Channel, ChannelEnd, Eos}
RoleNames == {"user", "model", "thought", "nl"}
Char == Letters \cup RoleNames \cup {Space, Underline}

\* A message, as parsed: parts of other kinds than text have no text of interest.
Message == [role : STRING, parts : Seq([kind : STRING, text : Seq(Char \cup Markers)])]

ASSUME PromptConstants ==
  /\ Letters \cap (Markers \cup RoleNames) = {}
  /\ Utf8 \in [Char \cup Markers -> Seq(STRING)]
  /\ Vocab \subseteq Seq(Char) /\ MarkersKnown \subseteq Markers
  /\ MergeList \in Seq(Vocab \X Vocab)
  /\ \A m \in ToSet(MergeList) : m[1] \o m[2] \in Vocab
  /\ Prompts \subseteq Seq(Char \cup Markers) /\ Conversations \subseteq Seq(Message)

VARIABLES
  promptPc,  \* "render", "cut", "merge", or how the request ended
  inbox,     \* the messages still to be rendered
  system,    \* the text of system messages that has no turn yet
  text,      \* the text as rendered so far
  rest,      \* of the text, what is not encoded yet
  pieces,    \* the pieces of the span being encoded
  span,      \* that span (history)
  marker,    \* the special that ends it, or "none"
  ids,       \* the tokens so far, without <bos>
  chat       \* the request (history)

promptVars == <<promptPc, inbox, system, text, rest, pieces, span, marker, ids, chat>>

-----------------------------------------------------------------------------
\* render_chat

\* message_text, which refuses parts that are not text.
Readable(m) == \A i \in DOMAIN m.parts : m.parts[i].kind = "text"
MessageText(m) == FlattenSeq([i \in DOMAIN m.parts |-> m.parts[i].text])

Turn(role, body) == <<TurnOpen, role, "nl">> \o body \o <<TurnClose, "nl">>
GenerationPrompt == <<TurnOpen, "model", "nl", Channel, "thought", "nl", ChannelEnd>>
BlankLine == <<"nl", "nl">>

IsSystem(m) == m.role \in {"system", "developer"}
IsUser(m) == m.role \in {"user", "tool", "function"}

PromptInit ==
  /\ \/ /\ promptPc = "render" /\ chat \in Conversations /\ inbox = chat /\ text = <<>> /\ rest = <<>>
     \/ /\ promptPc = "cut" /\ chat = <<>> /\ inbox = <<>> /\ text \in Prompts /\ rest = text
  /\ system = <<>> /\ pieces = <<>> /\ span = <<>> /\ marker = "none" /\ ids = <<>>

Refuse ==
  /\ promptPc = "render"
  /\ \/ chat = <<>>
     \/ inbox # <<>> /\ ~Readable(inbox[1])
     \/ inbox # <<>> /\ ~IsSystem(inbox[1]) /\ ~IsUser(inbox[1]) /\ inbox[1].role # "assistant"
  /\ promptPc' = "refused"
  /\ UNCHANGED <<inbox, system, text, rest, pieces, span, marker, ids, chat>>

HoldSystem ==
  /\ promptPc = "render" /\ inbox # <<>> /\ Readable(inbox[1]) /\ IsSystem(inbox[1])
  /\ system' = system \o (IF system = <<>> THEN <<>> ELSE BlankLine) \o MessageText(inbox[1])
  /\ inbox' = Tail(inbox)
  /\ UNCHANGED <<promptPc, text, rest, pieces, span, marker, ids, chat>>

\* Mutant of SystemAfter: the system prompt is said again before every user turn.
SystemKept(m) == system
\* What is left of the system prompt after the turn of m.
SystemAfter(m) == IF IsUser(m) THEN <<>> ELSE system

RenderTurn ==
  /\ promptPc = "render" /\ inbox # <<>>
  /\ LET m == inbox[1]
         body == MessageText(m)
     IN  /\ IsUser(m) \/ m.role = "assistant"
         /\ Readable(m)
         /\ text' = text \o Turn(IF IsUser(m) THEN "user" ELSE "model",
                                 IF IsUser(m) /\ system # <<>> THEN system \o BlankLine \o body ELSE body)
         /\ system' = SystemAfter(m)
  /\ inbox' = Tail(inbox)
  /\ UNCHANGED <<promptPc, rest, pieces, span, marker, ids, chat>>

\* The end: a system prompt that no user turn has taken, and the open turn.
EndChat ==
  /\ promptPc = "render" /\ inbox = <<>> /\ chat # <<>>
  /\ text' = text \o (IF system = <<>> THEN <<>> ELSE Turn("user", system)) \o GenerationPrompt
  /\ rest' = text' /\ promptPc' = "cut"
  /\ UNCHANGED <<inbox, system, pieces, span, marker, ids, chat>>

-----------------------------------------------------------------------------
\* encode_with_specials and encode

\* merge_rank, as from_gguf fills it: of a pair listed twice the last rank counts.
MergeRank == [m \in ToSet(MergeList) |-> Max({i \in DOMAIN MergeList : MergeList[i] = m})]

Normal(c) == IF c = Space THEN Underline ELSE c

\* The text before the first special, and what comes after that.
CutSpan ==
  /\ promptPc = "cut" /\ rest # <<>>
  /\ LET at == {i \in DOMAIN rest : rest[i] \in Markers}
         cut == IF at = {} THEN Len(rest) + 1 ELSE Min(at)
     IN  /\ span' = SubSeq(rest, 1, cut - 1)
         /\ marker' = IF at = {} THEN "none" ELSE rest[cut]
         /\ rest' = SubSeq(rest, cut + 1, Len(rest))
  /\ pieces' = [i \in DOMAIN span' |-> <<Normal(span'[i])>>]
  /\ promptPc' = "merge"
  /\ UNCHANGED <<inbox, system, text, ids, chat>>

Mergeable(ps) == {i \in 1..(Len(ps) - 1) : <<ps[i], ps[i + 1]>> \in DOMAIN MergeRank}

\* Mutant of BestPair: the last of the pairs of the best rank.
BestPairLast(ps) ==
  CHOOSE i \in Mergeable(ps) : \A j \in Mergeable(ps) :
    LET r == MergeRank[<<ps[i], ps[i + 1]>>] s == MergeRank[<<ps[j], ps[j + 1]>>]
    IN  r < s \/ (r = s /\ i >= j)

\* The first of the pairs of the best rank.
BestPair(ps) ==
  CHOOSE i \in Mergeable(ps) : \A j \in Mergeable(ps) :
    LET r == MergeRank[<<ps[i], ps[i + 1]>>] s == MergeRank[<<ps[j], ps[j + 1]>>]
    IN  r < s \/ (r = s /\ i <= j)

JoinAt(ps, i) == SubSeq(ps, 1, i - 1) \o <<ps[i] \o ps[i + 1]>> \o SubSeq(ps, i + 2, Len(ps))

MergePair ==
  /\ promptPc = "merge" /\ Mergeable(pieces) # {}
  /\ pieces' = JoinAt(pieces, BestPair(pieces))
  /\ UNCHANGED <<promptPc, inbox, system, text, rest, span, marker, ids, chat>>

BytesOf(str) == FlattenSeq([i \in DOMAIN str |-> Utf8[str[i]]])

\* Mutant of PieceIds: a piece without a token falls back to its first byte only.
PieceIdsFirstByte(p) ==
  IF p \in Vocab THEN <<[str |-> p]>>
  ELSE [i \in 1..1 |-> [byte |-> BytesOf(p)[1]]]

\* The tokens of a piece: its own, or those of its bytes, as far as there are any.
PieceIds(p) ==
  IF p \in Vocab THEN <<[str |-> p]>>
  ELSE LET bs == BytesOf(p)
       IN  FlattenSeq([i \in DOMAIN bs |->
             IF bs[i] \in ByteTokens THEN <<[byte |-> bs[i]]>> ELSE <<>>])

\* The span has no pair to merge: its tokens, and that of the special after it.
EmitSpan ==
  /\ promptPc = "merge" /\ Mergeable(pieces) = {}
  /\ ids' = ids \o FlattenSeq([i \in DOMAIN pieces |-> PieceIds(pieces[i])])
                \o (IF marker = "none" THEN <<>>
                    ELSE IF marker \in MarkersKnown THEN <<[str |-> <<marker>>]>> ELSE PieceIds(<<marker>>))
  /\ promptPc' = "cut" /\ pieces' = <<>> /\ span' = <<>> /\ marker' = "none"
  /\ UNCHANGED <<inbox, system, text, rest, chat>>

Encoded ==
  /\ promptPc = "cut" /\ rest = <<>>
  /\ promptPc' = "encoded"
  /\ UNCHANGED <<inbox, system, text, rest, pieces, span, marker, ids, chat>>

\* decode_bytes
DecodeIds(tokens) ==
  FlattenSeq([i \in DOMAIN tokens |->
    IF "byte" \in DOMAIN tokens[i] THEN <<tokens[i].byte>>
    ELSE BytesOf([j \in DOMAIN tokens[i].str |->
                    IF tokens[i].str[j] = Underline THEN Space ELSE tokens[i].str[j]])])

PromptNext ==
  \/ Refuse \/ HoldSystem \/ RenderTurn \/ EndChat
  \/ CutSpan \/ MergePair \/ EmitSpan \/ Encoded

PromptSpec == PromptInit /\ [][PromptNext]_promptVars

-----------------------------------------------------------------------------
\* Properties

\* No text is lost, doubled or moved on the way to the tokens: what the tokens
\* decode to, with what is not encoded yet, is the text; except for bytes that have
\* no token, which are left out silently, and U+2581, which comes back as a space.
WithToken(bs) == FlattenSeq([i \in DOMAIN bs |-> IF bs[i] \in ByteTokens THEN <<bs[i]>> ELSE <<>>])
Kept(c) ==
  IF <<Normal(c)>> \in Vocab \/ c \in MarkersKnown
  THEN Utf8[IF c = Underline THEN Space ELSE c]
  ELSE WithToken(Utf8[Normal(c)])
TokensKeepTheText ==
  promptPc \in {"cut", "merge", "encoded"} =>
    FlattenSeq([i \in DOMAIN text |-> Kept(text[i])])
      = DecodeIds(ids) \o FlattenSeq([i \in DOMAIN span |-> Kept(span[i])])
          \o (IF marker = "none" THEN <<>> ELSE Kept(marker))
          \o FlattenSeq([i \in DOMAIN rest |-> Kept(rest[i])])

\* Byte-pair encoding as it is defined: the merges in the order of their ranks,
\* each wherever it applies, from the left.  The loop, which looks for the best
\* pair again after every merge, ends with the same pieces.  It takes a list in
\* which what a merge makes is part of later merges only, as a trained one is;
\* TextProofs proves it from that (MergesBuildOnEarlierOnes).
Take(taken, p, m) ==
  IF taken # <<>> /\ <<Last(taken), p>> = m
  THEN Append(Front(taken), m[1] \o m[2]) ELSE Append(taken, p)
MergeAll(ps, m) ==
  LET taken[i \in 0..Len(ps)] == IF i = 0 THEN <<>> ELSE Take(taken[i - 1], ps[i], m)
  IN  taken[Len(ps)]
MergeInTurn(ps) ==
  LET merged[k \in 0..Len(MergeList)] == IF k = 0 THEN ps ELSE MergeAll(merged[k - 1], MergeList[k])
  IN  merged[Len(MergeList)]
Characters(s) == [i \in DOMAIN s |-> <<Normal(s[i])>>]
PiecesFollowTheRanks ==
  (promptPc = "merge" /\ Mergeable(pieces) = {}) => pieces = MergeInTurn(Characters(span))

\* Every message of a rendered chat is said once and in its order, but for a
\* system message.  It opens the next turn of the user, or, with none after it,
\* has a turn of its own at the end: that is what the code does (openai.rs:184-196).
\* The doc above it puts system messages into the first turn of the user
\* (openai.rs:161-163).  The two agree for those that come before that turn, and
\* differ for one that comes after it.  The letters are those of the messages.
OnlyLetters(units) ==
  FlattenSeq([i \in DOMAIN units |-> IF units[i] \in Letters THEN <<units[i]>> ELSE <<>>])
Places(c) == 1..(Len(c) + 1)
TakesSystem(c, j) == Min({k \in Places(c) : k > j /\ (k > Len(c) \/ IsUser(c[k]))})
SaidAt(c, k) ==
  FlattenSeq([j \in DOMAIN c |-> IF IsSystem(c[j]) /\ TakesSystem(c, j) = k THEN MessageText(c[j]) ELSE <<>>])
    \o (IF k <= Len(c) /\ ~IsSystem(c[k]) THEN MessageText(c[k]) ELSE <<>>)
EveryMessageIsSaidOnce ==
  (chat # <<>> /\ promptPc \in {"cut", "merge", "encoded"}) =>
    OnlyLetters(text) = OnlyLetters(FlattenSeq([k \in Places(chat) |-> SaidAt(chat, k)]))

=============================================================================
