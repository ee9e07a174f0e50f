------------------------------ MODULE AsrLane ------------------------------
(***************************************************************************)
(* A lane of qwen3asr (transcriber.go, encoder_prefix.go,                  *)
(* decoder_prefix.go): passes over audio that may continue the audio of    *)
(* the pass before, and what of that pass is used again.                   *)
(*                                                                         *)
(* Audio is a sequence of frames; the encoder makes a row of every         *)
(* window's frames.  What the model writes is a choice among what pick     *)
(* allows; a token of the transcript keeps the inputs it was chosen from,  *)
(* as the prefix store held them.                                          *)
(***************************************************************************)
EXTENDS Integers, Sequences, FiniteSets, SequencesExt, FiniteSetsExt

CONSTANTS
    Audios,        \* recordings: sequences of frames
    Contexts,      \* Options.Context, as tokens
    Partials,      \* partial transcripts: a language and words
    Languages,     \* the languages of the model
    AllowedLanguages,       \* Options.Languages of more than one language
    Modes,         \* how a pass is given its languages
    Step,          \* prefixStep: frames of a window
    EdgeFrames,    \* frames that change when more audio arrives
    PrefixFrames,  \* frames that encoderPrefixBytes holds
    MaxNew,        \* tokens of a transcript
    MaxDraft,      \* maxDraft
    FirstCapacity, \* positions of the first store
    Block,         \* attentionBlock: rows are used again in blocks
    AsrFaults,     \* where a pass may fail
    MaxPasses      \* bound on the passes of a lane

ASSUME AsrAssumption ==
    /\ \A n \in {Step, EdgeFrames, PrefixFrames, MaxNew, MaxDraft, FirstCapacity, Block, MaxPasses} : n \in Nat
    /\ Step > 0 /\ Block > 0 /\ AllowedLanguages \subseteq Languages /\ Modes \subseteq {"free", "limited", "forced"} /\ MaxDraft < MaxNew

VARIABLES
    kv,       \* the store: its capacity, and an input and an anchor a position
    embeds,   \* rows of the encoder
    prefix,   \* encoderPrefix: features, and the frames seen
    decoded,  \* decoderPrefix
    revision, \* audioRevision
    reused,   \* reusedAudioRows
    pass,     \* the pass under way
    heard     \* hidden: the inputs it is the state after

laneVars == <<kv, embeds, prefix, decoded, revision, reused, pass, heard>>

Unknown == "Unknown"
Pad == "<|audio_pad|>"
Eos == "<|im_end|>"
AsrText == "<asr_text>"
ScriptWords == {"w", "m"}
NoDecoded == [valid |-> FALSE, anchor |-> 0, rows |-> 0, revision |-> 0]
NoPrefix == [features |-> <<>>, seen |-> 0]
NoPass == [phase |-> "idle", features |-> <<>>, mode |-> "free", draft |-> <<>>, prompt |-> <<>>, gen |-> <<>>]

LaneInit ==
    /\ kv = [capacity |-> 0, stored |-> <<>>] /\ embeds = <<>> /\ prefix = NoPrefix /\ decoded = NoDecoded
    /\ revision = 0 /\ reused = 0 /\ pass = NoPass /\ heard = <<>>

-----------------------------------------------------------------------------
(* The encoder, and the rows of the pass before it keeps.                  *)

\* frontend.Into: the last frames depend on where the audio ends.
Features(audio) == [i \in DOMAIN audio |-> IF i + EdgeFrames > Len(audio) THEN <<"edge", audio[i]>> ELSE <<"mel", audio[i]>>]

RowCount(frames) == (frames + Step - 1) \div Step

\* External: encodeSuffix from the frame after skip, a row a window.
Rows(features, skip) ==
    [w \in 1 .. RowCount(Len(features)) - RowCount(skip) |-> SubSeq(features, skip + (w - 1) * Step + 1, Min({skip + w * Step, Len(features)}))]

\* encoderPrefix.reusable.
Reusable(features) ==
    LET kept == Len(prefix.features) IN
    IF kept = 0 \/ Len(features) <= prefix.seen \/ kept >= Len(features) \/ SubSeq(features, 1, kept) # prefix.features THEN 0 ELSE kept

\* encoderPrefix.remember: complete windows of frames that stay.
Remember(features) ==
    LET stays == Max({0, Len(features) - EdgeFrames})
        complete == (Min({stays, PrefixFrames}) \div Step) * Step
    IN [features |-> SubSeq(features, 1, complete), seen |-> Len(features)]

\* encodeContinuation.
Encode(features, continuing, fails) ==
    LET found == IF continuing THEN Reusable(features) ELSE 0
        skip == IF RowCount(found) > Len(embeds) THEN 0 ELSE found
        kept == RowCount(skip)
    IN /\ revision' = revision + 1
       /\ IF fails
          THEN /\ prefix' = NoPrefix /\ reused' = 0
               /\ embeds' = SubSeq(embeds, 1, Min({kept, Len(embeds)})) \o [w \in 1 .. RowCount(Len(features)) - kept |-> <<>>]
          ELSE /\ embeds' = SubSeq(embeds, 1, kept) \o Rows(features, skip)
               /\ prefix' = IF continuing THEN Remember(features) ELSE NoPrefix
               /\ reused' = IF continuing THEN kept ELSE 0

-----------------------------------------------------------------------------
(* The prompt, the draft, and what the model may write.                    *)

\* The modes: the language is detected, detected among some, or given.
Forced(mode) == mode = "forced"
Limited(mode) == mode # "free"

\* buildPrompt: a placeholder for every row.
BuildPrompt(context, mode, rows) ==
    <<"system">> \o context \o <<"user">> \o [i \in 1 .. rows |-> Pad] \o <<"assistant">> \o (IF Forced(mode) THEN <<AsrText>> ELSE <<>>)

\* draftFrom: what the model would have written for the partial transcript.
DraftFrom(partial, mode) ==
    LET header == IF Forced(mode) THEN <<>> ELSE <<"language", partial.language, AsrText>>
        draft == header \o partial.words
    IN IF partial.words = <<>> \/ (~Forced(mode) /\ partial.language \notin Languages) THEN <<>>
       ELSE SubSeq(draft, 1, Min({Len(draft), MaxDraft}))

\* The words in the scripts of the languages given.
Script(mode) == IF Limited(mode) THEN {"w"} ELSE ScriptWords

\* pick after before.  The model writes a language, the tag and words, as
\* the prompt asks of it.
Picks(mode, before) ==
    CASE ~Forced(mode) /\ before = <<>> -> {"language"}
      [] ~Forced(mode) /\ Len(before) = 1 -> IF mode = "limited" THEN AllowedLanguages ELSE Languages
      [] ~Forced(mode) /\ Len(before) = 2 -> {AsrText}
      [] OTHER -> Script(mode) \cup {Eos}

-----------------------------------------------------------------------------
(* The store, and a pass over it.                                          *)

Inputs(stored) == [i \in DOMAIN stored |-> stored[i].input]

\* CommonPrefix: a position that a row replaced matches nothing.
CommonPrefix(stored, ids) ==
    Max({n \in 0 .. Min({Len(ids), Len(stored)}) : \A i \in 1 .. n : stored[i].token = ids[i]})

\* The inputs of the tokens after the first keep ones.
Input(ids, i) == IF ids[i] = Pad THEN embeds[Cardinality({j \in 1 .. i : ids[j] = Pad})] ELSE ids[i]
KvEntry(ids, i, keep) == [token |-> IF ids[i] = Pad THEN "-1" ELSE ids[i], input |-> Input(ids, i), anchor |-> keep]

\* HiddenTailContinueEmbedInto: of the rows that may be used again, complete
\* blocks are; the last k run.
Continued(stored, ids, keep, reuse, k) ==
    LET again == (Min({reuse, Len(ids) - keep - k}) \div Block) * Block
    IN [i \in 1 .. Len(ids) |-> IF i <= keep + again THEN stored[i] ELSE KvEntry(ids, i, keep)]

\* decoderPrefix.reusable: of the pass just before, at the same anchor.
DecoderReusable(anchor) ==
    IF ~decoded.valid \/ decoded.anchor # anchor \/ decoded.revision + 1 # revision THEN 0 ELSE Min({decoded.rows, reused})

\* transcribe: the features, and the rows of the encoder.
Transcribe(audio, mode, partial, fails) ==
    /\ pass.phase \in {"idle", "done"} /\ revision < MaxPasses /\ audio # <<>>
    /\ Encode(Features(audio), partial # <<>>, fails)
    /\ pass' = IF fails THEN NoPass
               ELSE [NoPass EXCEPT !.phase = "encoded", !.features = Features(audio), !.mode = mode,
                                   !.draft = IF partial = <<>> THEN <<>> ELSE DraftFrom(Head(partial), mode)]
    /\ UNCHANGED <<kv, decoded, heard>>

\* The context is refused, or ctx is done before the pass reads the prompt.
Cancel ==
    /\ pass.phase \in {"encoded", "decode"} /\ pass' = NoPass
    /\ UNCHANGED <<kv, embeds, prefix, decoded, revision, reused, heard>>

\* The store of a pass: a larger one when it does not fit.
Fits(need) == kv.capacity >= need

Capacity(need) == CHOOSE c \in {FirstCapacity * 2^n : n \in 0 .. need} : c >= need /\ (c = FirstCapacity \/ c \div 2 < need)

\* A token of the transcript, with the inputs it was chosen from.
Chosen(token, from) == [token |-> token, from |-> from]
Written(gen) == [i \in DOMAIN gen |-> gen[i].token]

\* verify: the longest prefix of the draft that pick agrees with, and what it
\* picks after it.
Agreed(draft, mode) ==
    {r \in (0 .. Len(draft)) \X UNION {Picks(mode, SubSeq(draft, 1, n)) : n \in 0 .. Len(draft)} :
        /\ \A i \in 1 .. r[1] : draft[i] \in Picks(mode, SubSeq(draft, 1, i - 1))
        /\ r[2] \in Picks(mode, SubSeq(draft, 1, r[1]))
        /\ r[1] < Len(draft) => r[2] # draft[r[1] + 1]}

\* The transcript after a token, and whether it goes on.
TranscriptEnds(gen, token) == token = Eos \/ Len(gen) + 1 >= MaxNew
Append1(gen, token, from) == IF token = Eos THEN gen ELSE Append(gen, Chosen(token, from))

\* Mutant: the rows that a failed prefill overwrote are still known.
BugForgotten == decoded

\* A failed prefill advertises no rows.
Forgotten == NoDecoded

\* A row of tail: the state after the first n inputs.
StateAfter(stored, n) == Inputs(SubSeq(stored, 1, n))

\* generate up to its loop: the store, the prompt and the draft in one pass
\* of the model, of which the rows heard before are kept.
AsrPrefill(context, fails) ==
    LET prompt == BuildPrompt(context, pass.mode, RowCount(Len(pass.features)))
        ids == prompt \o pass.draft
        old == IF Fits(Len(ids) + MaxNew) THEN kv ELSE [capacity |-> Capacity(Len(ids) + MaxNew), stored |-> <<>>]
        keep == Min({CommonPrefix(old.stored, ids), Len(prompt) - 1})
        reuse == IF ids[keep + 1] # Pad \/ ~Fits(Len(ids) + MaxNew) THEN 0 ELSE DecoderReusable(keep)
        stored == Continued(old.stored, ids, keep, reuse, Len(pass.draft) + 1)
        remembered == IF ids[keep + 1] = Pad THEN [valid |-> TRUE, anchor |-> keep, rows |-> Len(embeds), revision |-> revision] ELSE NoDecoded
        until(n) == StateAfter(stored, Len(prompt) + n)
        drafted(n) == [i \in 1 .. n |-> Chosen(pass.draft[i], until(i - 1))]
    IN /\ pass.phase = "encoded"
       /\ \/ /\ fails
             /\ pass' = NoPass /\ kv' = [old EXCEPT !.stored = SubSeq(@, 1, keep)] /\ decoded' = Forgotten /\ heard' = heard
          \/ /\ ~fails /\ pass.draft = <<>>
             /\ pass' = [pass EXCEPT !.phase = "decode", !.prompt = prompt]
             /\ kv' = [old EXCEPT !.stored = stored] /\ decoded' = remembered /\ heard' = Inputs(stored)
          \/ /\ ~fails /\ pass.draft # <<>>
             /\ \E r \in Agreed(pass.draft, pass.mode) :
                   LET gen == Append1(drafted(r[1]), r[2], until(r[1]))
                       done == TranscriptEnds(drafted(r[1]), r[2])
                       extended == Append(SubSeq(stored, 1, Len(prompt) + r[1]), [token |-> r[2], input |-> r[2], anchor |-> Len(prompt) + r[1]])
                   IN /\ pass' = [pass EXCEPT !.phase = IF done THEN "done" ELSE "decode", !.prompt = prompt, !.gen = gen]
                      /\ kv' = [old EXCEPT !.stored = IF done THEN stored ELSE extended]
                      /\ heard' = IF done THEN until(r[1]) ELSE Inputs(extended)
             /\ decoded' = remembered
       /\ UNCHANGED <<embeds, prefix, revision, reused>>

\* The loop of generate: a token, and the state after it.
Decode(fails) ==
    /\ pass.phase = "decode"
    /\ \E token \in Picks(pass.mode, Written(pass.gen)) :
          LET done == TranscriptEnds(pass.gen, token)
              stored == Append(kv.stored, [token |-> token, input |-> token, anchor |-> Len(kv.stored)])
          IN /\ pass' = IF done THEN [pass EXCEPT !.phase = "done", !.gen = Append1(@, token, heard)]
                        ELSE IF fails THEN NoPass ELSE [pass EXCEPT !.gen = Append1(@, token, heard)]
             /\ kv' = IF done \/ fails THEN kv ELSE [kv EXCEPT !.stored = stored]
             /\ heard' = IF done \/ fails THEN heard ELSE Inputs(stored)
    /\ UNCHANGED <<embeds, prefix, decoded, revision, reused>>

AsrMayFail(where) == where \in AsrFaults

LaneNext ==
    \/ \E audio \in Audios, mode \in Modes, partial \in {<<>>} \cup {<<p>> : p \in Partials}, fails \in BOOLEAN :
          (fails => AsrMayFail("encode")) /\ Transcribe(audio, mode, partial, fails)
    \/ Cancel
    \/ \E context \in Contexts, fails \in BOOLEAN : (fails => AsrMayFail("prefill")) /\ AsrPrefill(context, fails)
    \/ \E fails \in BOOLEAN : (fails => AsrMayFail("decode")) /\ Decode(fails)

-----------------------------------------------------------------------------
\* The inputs of a prompt when nothing is used again.
Ideal ==
    LET rows == Rows(pass.features, 0) IN
    [i \in DOMAIN pass.prompt |-> IF pass.prompt[i] = Pad THEN rows[Cardinality({j \in 1 .. i : pass.prompt[j] = Pad})] ELSE pass.prompt[i]]

LaneTypeOK ==
    /\ pass.phase \in {"idle", "encoded", "decode", "done"}
    /\ Len(kv.stored) <= kv.capacity /\ Len(prefix.features) % Step = 0 /\ prefix.seen \in Nat /\ reused \in 0 .. Len(embeds)

\* A pass that continues another writes what it would have written alone:
\* every token, those of an accepted draft too, was chosen from the whole
\* prompt with the rows of this audio and the tokens before it.
ReadsAll == \A i \in DOMAIN pass.gen : pass.gen[i].from = Ideal \o Written(SubSeq(pass.gen, 1, i - 1))

\* The state that judges the turn is the one that ended the transcript: it
\* has heard this audio and read the words.
TurnState ==
    pass.phase = "done" =>
        \/ heard = Ideal \o Written(pass.gen)
        \/ Len(pass.gen) = MaxNew /\ heard = Last(pass.gen).from

\* What the decoder prefix advertises is in the store, so that a pass is
\* never refused for asking it again, computed at its anchor, and of the rows of the last encoding while it is the last.
Provenance ==
    decoded.valid =>
        \A i \in decoded.anchor + 1 .. decoded.anchor + decoded.rows :
            /\ i <= Len(kv.stored) /\ kv.stored[i].anchor = decoded.anchor
            /\ decoded.revision = revision => kv.stored[i].input = embeds[i - decoded.anchor]

\* A pass limited to some languages names one of them, whatever its partial
\* transcript names, and writes in their scripts.
LanguageLimited ==
    pass.mode = "limited" =>
        /\ Len(pass.gen) >= 2 => pass.gen[2].token \in AllowedLanguages
        /\ \A i \in 4 .. Len(pass.gen) : pass.gen[i].token \in Script(pass.mode)
=============================================================================
