---------------------------- MODULE ReplyWriter ----------------------------
(***************************************************************************)
(* The text of a reply (duplex/cascade.go): the model writes it in pieces  *)
(* to replyWriter, which holds back what may be a silence marker or a      *)
(* repetition of the message, ends the reply at a marker, and gives the    *)
(* rest to the voice without what a voice cannot say; captions follow the  *)
(* voice, and a cut reply keeps what was heard of it.  A reply may call    *)
(* tools and go on in another round, and a silent one may be asked again   *)
(* (respond 1322-1384).                                                    *)
(*                                                                         *)
(* A text is a sequence of bytes, each a symbol of its class: letters, of  *)
(* which "h" is of a script without spaces and "e" "+" one letter of two   *)
(* bytes, "7" a digit and "u" the word until; a space; ".", "*" closing    *)
(* and unspeakable punctuation; "<" and ">".  The silence marker begins    *)
(* with SilentMark.  The session writes whole characters (WritesWhole of   *)
(* Tokenizer).  A pass of Write's loop is one action.  What the voice has  *)
(* played, whether it fails, and when the reply is interrupted are         *)
(* choices; calls of tools and the judgement of a silence are those of     *)
(* Cascade.                                                                *)
(***************************************************************************)
EXTENDS Integers, SequencesExt, FiniteSetsExt

CONSTANTS Messages,     \* the messages answered
          ReplyTexts,   \* the texts the model writes
          LaterTexts,   \* what it writes in a later round, or when asked again
          MaxRounds,    \* maxToolRounds
          EchoWords,    \* a message of fewer words is never repeated (3 in the code)
          MaxMark,      \* an unclosed marker is text beyond this length (64 in the code)
          Minute, Hour, \* time.Minute and time.Hour, in seconds
          WaitBits      \* the width of a duration in seconds

ASSUME WriterAssumption == EchoWords \in Nat \ {0} /\ {MaxMark, MaxRounds, Minute, Hour, WaitBits} \subseteq Nat

VARIABLES answering,   \* the message; none: the agent speaks by itself
          left,      \* what the model has yet to write in this round
          rw,        \* replyWriter with the cascade's reply, said, spans and voice
          at,        \* where respond is: "reply" between writes, "loop" in Write, "returned", "failed", "flushed", "done", "cut"
          asked      \* the rounds of this reply, and the notes it was asked again with
writerVars == <<answering, left, rw, at, asked>>

SilentMark == <<"<", "s">>
WordBytes == {"a", "b", "s", "m", "u", "h", "e", "+", "7"}
NotWord(c) == c \notin WordBytes
Unspeakable(c) == c = "*"
Trimmed(c) == c \in {" ", ".", "*"}
Past(s, n) == SubSeq(s, n + 1, Len(s))
\* The first index of s at which P holds, or one beyond it.
First(s, P(_)) == Min({i \in DOMAIN s : P(s[i])} \cup {Len(s) + 1})

appendSpeakable(src) == SelectSeq(src, LAMBDA c : ~Unspeakable(c))

TrimLead(s) == Past(s, First(s, LAMBDA c : ~Trimmed(c)) - 1)
TrimLeft(s) == Past(s, First(s, LAMBDA c : c # " ") - 1)
TrimRight(s) == SubSeq(s, 1, Max({i \in DOMAIN s : s[i] # " "} \cup {0}))
IsBlank(s) == TrimRight(s) = <<>>

-----------------------------------------------------------------------------
\* The words of s, and where the k-th of them begins and ends.
WordStarts(s) == {i \in DOMAIN s : ~NotWord(s[i]) /\ (i = 1 \/ NotWord(s[i - 1]))}
WordBegin(s, k) == CHOOSE i \in WordStarts(s) : Cardinality({j \in WordStarts(s) : j <= i}) = k
WordStop(s, k) == Min({j \in WordBegin(s, k) .. Len(s) : j = Len(s) \/ NotWord(s[j + 1])})
Fields(s) == [k \in 1 .. Cardinality(WordStarts(s)) |-> SubSeq(s, WordBegin(s, k), WordStop(s, k))]

\* How much of reply repeats text, and whether it may yet turn out to: its
\* last word is open until something else follows.
echoOf(reply, text) ==
    LET words == Fields(text)
        said == Fields(reply)
        open == reply # <<>> /\ ~NotWord(Last(reply))
        whole == IF open THEN Front(said) ELSE said
        repeated == Len(words) >= EchoWords /\ IsPrefix(words, whole)
    IN [n |-> IF repeated THEN WordStop(reply, Len(words)) ELSE 0,
        holding |-> /\ Len(words) >= EchoWords /\ ~repeated /\ IsPrefix(whole, words)
                    /\ open => IsPrefix(Last(said), words[Len(whole) + 1])]

\* A duration of n seconds as the code computes it, and the time a marker
\* asks for: the first number in it, in minutes if an m other than ms follows.
Wrapped(n) == ((n + 2 ^ (WaitBits - 1)) % 2 ^ WaitBits) - 2 ^ (WaitBits - 1)
WaitOf(inner) ==
    LET number == Past(inner, First(inner, LAMBDA c : c = "7") - 1)
        digits == First(number, LAMBDA c : c # "7") - 1
        unit == TrimLeft(Past(number, digits))
        v == FoldLeft(LAMBDA v, c : Wrapped(10 * v + 7), 0, SubSeq(number, 1, digits))
        minutes == unit # <<>> /\ unit[1] = "m" /\ ~(Len(unit) > 1 /\ unit[2] = "s")
    IN Min({Hour, Wrapped(v * IF minutes THEN Minute ELSE 1)})

\* The silence marker at the start of b: n = -1 if b may be the beginning
\* of one.
BugMarker(b) ==
    LET end == First(b, LAMBDA c : c = ">")
    IN [n |-> IF end <= Len(b) THEN end ELSE 0, ok |-> IsPrefix(SilentMark, b) /\ end <= Len(b), until |-> FALSE, wait |-> 0]
marker(b) ==
    LET end == First(b, LAMBDA c : c = ">")
        inner == SubSeq(b, Len(SilentMark) + 1, end - 1)
        no == [n |-> 0, ok |-> FALSE, until |-> FALSE, wait |-> 0]
    IN IF ~IsPrefix(SilentMark, b) THEN [no EXCEPT !.n = IF IsPrefix(b, SilentMark) THEN -1 ELSE 0]
       ELSE IF end > Len(b) THEN [no EXCEPT !.n = IF Len(b) > MaxMark THEN 0 ELSE -1]
       ELSE [n |-> end, ok |-> TRUE, until |-> Contains(inner, "u"), wait |-> IF Contains(inner, "u") THEN 0 ELSE WaitOf(inner)]

-----------------------------------------------------------------------------
\* What is cleared when a reply begins or is asked again, and the voice, which
\* is cleared when it begins.
begin(w) ==
    [w EXCEPT !.reply = <<>>, !.said = <<>>, !.spans = <<>>, !.spoken = 0, !.decided = FALSE, !.echoed = FALSE, !.trimLead = FALSE,
              !.ended = FALSE, !.wait = 0, !.until = FALSE, !.round = 0]
NewReply ==
    [reply |-> <<>>, said |-> <<>>, spans |-> <<>>, spoken |-> 0, decided |-> FALSE, echoed |-> FALSE, trimLead |-> FALSE,
     ended |-> FALSE, wait |-> 0, until |-> FALSE, round |-> 0,
     captioned |-> 0, userShown |-> FALSE, voicing |-> FALSE, sounded |-> FALSE, voiceAt |-> 0, given |-> <<>>]

-----------------------------------------------------------------------------
StartsRune(c) == c # "+"
InWord(c) == ~NotWord(c) /\ c # "h"
\* n bytes of s end a character, and a word.
EndsRune(s, n) == n \in {0, Len(s)} \/ StartsRune(s[n + 1])
EndsWord(s, n) == n \in {0, Len(s)} \/ ~InWord(s[n]) \/ ~InWord(s[n + 1])

wordEnd(s, n) == Max({m \in 0 .. n : EndsRune(s, m) /\ EndsWord(s, m)})

\* The voice has read the text it was given up to its last space, or all of
\* it once the reply has ended.
Voiced(w, over) == IF ~w.sounded THEN 0 ELSE IF over THEN Len(w.given) ELSE Max({i \in DOMAIN w.given : w.given[i] = " "} \cup {0})

\* A caption, after which the message may have been shown for the first time.
captions(w, over) ==
    {[w EXCEPT !.userShown = shown,
               !.captioned = IF shown \/ answering = <<>> THEN Max({@, wordEnd(w.said, Min({Len(w.said), v}))}) ELSE @] :
        shown \in {w.userShown, w.userShown \/ (w.sounded /\ answering # <<>>)}, v \in 0 .. Voiced(w, over)}

\* What of said the voice does not have is written to it: begun if need be,
\* or failing to begin, written or not, and interrupted, perhaps, in the wait
\* for its first sound.
voice(w) ==
    LET begun == [w EXCEPT !.voicing = TRUE]
        written == [begun EXCEPT !.voiceAt = Len(w.said), !.given = @ \o Past(w.said, w.voiceAt)]
    IN IF w.voiceAt = Len(w.said) \/ IsBlank(w.said) THEN {[w |-> w, err |-> FALSE]}
       ELSE {[w |-> written, err |-> FALSE], [w |-> begun, err |-> TRUE]}
            \cup (IF w.voicing THEN {} ELSE {[w |-> w, err |-> TRUE]})
            \cup (IF w.sounded THEN {} ELSE {[w |-> written, err |-> TRUE]})

-----------------------------------------------------------------------------
Unsent(w) == Past(w.reply, w.spoken)

\* speak passes n bytes to the voice: first the echo guard, then the words.
Guarded(w, n) == IF w.decided THEN [n |-> 0, holding |-> FALSE] ELSE echoOf(SubSeq(w.reply, 1, w.spoken + n), answering)
Said(w, n) ==
    LET src == SubSeq(w.reply, w.spoken + 1, w.spoken + n)
        rest == IF w.trimLead THEN TrimLead(src) ELSE src
        said == w.said \o appendSpeakable(rest)
        to == w.spoken + n
    IN IF rest = <<>> THEN [w EXCEPT !.spoken = to]
       ELSE [w EXCEPT !.trimLead = FALSE, !.said = said, !.spoken = to, !.spans = Append(@, [said |-> Len(said), reply |-> to])]
Spoke(w, n, flush) ==
    LET echo == Guarded(w, n)
        cut == echo.n > 0
    IN IF n = 0 \/ (echo.holding /\ ~flush) THEN w
       ELSE Said([w EXCEPT !.decided = TRUE, !.echoed = @ \/ cut, !.trimLead = @ \/ cut, !.spoken = IF cut THEN echo.n ELSE @],
                 IF cut THEN w.spoken + n - echo.n ELSE n)
\* What has been said is captioned and goes to the voice.
speak(w, n, flush) ==
    LET spoke == Spoke(w, n, flush)
    IN IF spoke.spans = w.spans THEN {[w |-> spoke, err |-> FALSE]} ELSE UNION {voice(v) : v \in captions(spoke, FALSE)}

\* The '<' in what is unsent, what precedes it spoken, and the marker there.
LtAt == First(Unsent(rw), LAMBDA c : c = "<")
HasLt == LtAt <= Len(Unsent(rw))
BeforeLt == Spoke(rw, LtAt - 1, FALSE)
AtLt == marker(Unsent(BeforeLt))

\* The session writes n more bytes, whole characters; a reply that has ended
\* drops them.
Write(n) ==
    /\ at = "reply" /\ n \in 1 .. Len(left)
    /\ n < Len(left) => left[n + 1] # "+"
    /\ left' = Past(left, n)
    /\ IF rw.ended THEN UNCHANGED <<rw, at>> ELSE rw' = [rw EXCEPT !.reply = @ \o SubSeq(left, 1, n)] /\ at' = "loop"
    /\ UNCHANGED <<answering, asked>>

SpeakAll ==
    /\ at = "loop" /\ ~HasLt
    /\ \E o \in speak(rw, Len(Unsent(rw)), FALSE) : rw' = o.w /\ at' = IF o.err THEN "failed" ELSE "reply"
    /\ UNCHANGED <<answering, left, asked>>

WaitForMore ==
    /\ at = "loop" /\ HasLt /\ AtLt.n < 0
    /\ \E o \in speak(rw, LtAt - 1, FALSE) : rw' = o.w /\ at' = IF o.err THEN "failed" ELSE "reply"
    /\ UNCHANGED <<answering, left, asked>>

\* A '<' that is text.
SpeakLt ==
    /\ at = "loop" /\ HasLt /\ AtLt.n >= 0 /\ ~AtLt.ok
    /\ \E before \in speak(rw, LtAt - 1, FALSE) :
         \E o \in IF before.err THEN {before} ELSE speak(before.w, 1, FALSE) : rw' = o.w /\ at' = IF o.err THEN "failed" ELSE at
    /\ UNCHANGED <<answering, left, asked>>

\* A marker ends the reply, and the session's round with it.
EndAtMarker ==
    /\ at = "loop" /\ HasLt /\ AtLt.ok
    /\ \E o \in speak(rw, LtAt - 1, FALSE) :
         IF o.err THEN rw' = o.w /\ at' = "failed"
         ELSE rw' = [o.w EXCEPT !.ended = TRUE, !.wait = AtLt.wait, !.until = AtLt.until] /\ at' = "returned"
    /\ UNCHANGED <<answering, left, asked>>

\* The session has written all of a round, or fails, or is interrupted.
ReplyReturns ==
    /\ at = "reply" /\ at' = IF left = <<>> THEN "returned" ELSE "failed"
    /\ UNCHANGED <<answering, left, rw, asked>>

\* The reply's calls have run: the model goes on, knowing their results.
NextRound ==
    /\ at = "returned" /\ asked.rounds + 1 < MaxRounds
    /\ left' \in LaterTexts /\ rw' = [rw EXCEPT !.round = Len(rw.reply)] /\ at' = "reply"
    /\ asked' = [asked EXCEPT !.rounds = @ + 1]
    /\ UNCHANGED answering

\* Once the session is done with a reply: an ended one leaves the rest unread.
Flushed ==
    IF rw.ended THEN {[w |-> rw, err |-> FALSE]}
    ELSE IF IsPrefix(SilentMark, Unsent(rw)) THEN {[w |-> [rw EXCEPT !.ended = TRUE], err |-> FALSE]}
    ELSE speak(rw, Len(Unsent(rw)), TRUE)
flush ==
    /\ at \in {"returned", "failed"}
    /\ \E o \in Flushed :
         IF at = "failed" \/ o.err THEN rw' = [o.w EXCEPT !.said = TrimRight(@)] /\ at' = "cut" ELSE rw' = o.w /\ at' = "flushed"
    /\ UNCHANGED <<answering, left, asked>>

\* A silence after a call, or one that nobody asked for, is asked again.
AskAgain ==
    /\ at = "flushed" /\ IsBlank(rw.said)
    /\ \/ asked.rounds > 0 /\ ~asked.retried /\ asked' = [asked EXCEPT !.rounds = 0, !.retried = TRUE]
       \/ /\ asked.rounds = 0 \/ asked.retried
          /\ answering # <<>> /\ ~asked.overruled /\ rw.wait = 0 /\ asked' = [asked EXCEPT !.rounds = 0, !.overruled = TRUE]
    /\ left' \in LaterTexts /\ rw' = begin(rw) /\ at' = "reply"
    /\ UNCHANGED answering

\* A reply that says something, or a silence that stands; an interruption, or
\* a failure to ask again, cuts either.
ReplyStands ==
    /\ at = "flushed" /\ rw' = [rw EXCEPT !.said = TrimRight(@)]
    /\ at' = "cut" \/ (at' = "done" /\ (~IsBlank(rw.said) \/ asked.rounds = 0 \/ asked.retried))
    /\ UNCHANGED <<answering, left, asked>>

\* The pump plays the voice's first samples, or ends.
Sound ==
    /\ rw.voicing /\ ~rw.sounded /\ rw' = [rw EXCEPT !.sounded = TRUE]
    /\ UNCHANGED <<answering, left, at, asked>>

\* Captions as the rest plays (waitPlayback).
caption ==
    /\ at \in {"done", "cut"} /\ rw' \in captions(rw, TRUE)
    /\ UNCHANGED <<answering, left, at, asked>>

-----------------------------------------------------------------------------
replyOf(n) == LET upto == {i \in DOMAIN rw.spans : rw.spans[i].said <= n} IN IF upto = {} THEN 0 ELSE rw.spans[Max(upto)].reply

\* What a reply cut after n bytes were heard keeps of its last round.
KeptOf(n) == Max({0, replyOf(n) - rw.round})

WriterInit ==
    /\ answering \in Messages /\ left \in ReplyTexts
    /\ rw = NewReply /\ at = "reply" /\ asked = [rounds |-> 0, retried |-> FALSE, overruled |-> FALSE]

WriterNext ==
    \/ \E n \in 1 .. Len(left) : Write(n)
    \/ SpeakAll \/ WaitForMore \/ SpeakLt \/ EndAtMarker \/ ReplyReturns \/ NextRound \/ flush \/ AskAgain \/ ReplyStands \/ Sound \/ caption

-----------------------------------------------------------------------------
\* What precedes the first marker, closed or not.
Body(t) ==
    LET marks == {p \in 0 .. Len(t) : IsPrefix(SilentMark, Past(t, p))} IN IF marks = {} THEN t ELSE SubSeq(t, 1, Min(marks))
\* An unclosed marker of more than MaxMark bytes: text or not, as it is cut.
Overlong(t) == LET m == Past(t, Len(Body(t))) IN Len(m) > MaxMark /\ ~Contains(SubSeq(m, 1, MaxMark + 1), ">")
\* The end of the repetition that body begins with, or 0.
EchoEnd(body) ==
    LET words == Fields(answering)
        ends == {k \in 1 .. Len(body) - 1 : Fields(SubSeq(body, 1, k)) = words /\ ~NotWord(body[k]) /\ NotWord(body[k + 1])}
    IN IF Len(words) < EchoWords \/ ends = {} THEN 0 ELSE Min(ends)

\* However the model's text is cut into writes, the voice is given the text
\* before the silence marker, without a repetition of the message and what
\* follows its words, without what cannot be said, and nothing else
\* (Write 1720, speak 1757, flush 1829): nothing is lost in what was held
\* back, no half of a marker is spoken, a '<' that is text is.
SaidWhole ==
    at = "done" /\ ~Overlong(rw.reply) =>
        LET body == Body(rw.reply)
            k == EchoEnd(body)
        IN rw.said = TrimRight(appendSpeakable(IF k = 0 THEN body ELSE TrimLead(Past(body, k))))

\* A marker that names no end keeps the time it asks for, up to an hour,
\* however it is cut: only a number beyond the width of a duration is lost.
WaitKept ==
    at = "done" /\ ~Overlong(rw.reply) =>
        LET m == Past(rw.reply, Len(Body(rw.reply)))
            inner == SubSeq(m, Len(SilentMark) + 1, First(m, LAMBDA c : c = ">") - 1)
            n == Cardinality({i \in DOMAIN inner : inner[i] = "7"})
            seconds == 7 * ((10 ^ n - 1) \div 9)
            unit == IF Contains(inner, "m") /\ ~IsSuffix(<<"m", "s">>, inner) THEN Minute ELSE 1
        IN Contains(m, ">") /\ ~Contains(inner, "u") /\ seconds * unit < 2 ^ (WaitBits - 1) => rw.wait = Min({Hour, seconds * unit})

\* The voice has what is said, from its beginning and each byte once, also
\* when a silence before it was asked again without the voice being cleared
\* (voice 1802, respond 1374): nothing of it unless there are words, all of it
\* once the reply stands.
VoiceFollows ==
    /\ at \notin {"done", "cut"} => rw.given = SubSeq(rw.said, 1, rw.voiceAt) /\ rw.voiceAt <= Len(rw.said)
    /\ at \in {"done", "cut"} => IsPrefix(TrimRight(rw.given), rw.said) /\ (at = "done" => TrimRight(rw.given) = rw.said)

\* What the conversation keeps of the last round of a reply cut after n bytes
\* were heard was heard, and all of it when all was and no blanks were taken
\* off its end (replyOf 1619, respond 1420).
KeptWasHeard ==
    ~rw.echoed =>
        /\ \A n \in 0 .. Len(rw.said) :
             KeptOf(n) > 0 => IsPrefix(appendSpeakable(SubSeq(rw.reply, 1, rw.round + KeptOf(n))), SubSeq(rw.said, 1, n))
        /\ LET all == appendSpeakable(SubSeq(rw.reply, 1, rw.spoken)) IN all = rw.said => appendSpeakable(SubSeq(rw.reply, 1, replyOf(Len(rw.said)))) = all

\* A caption shows no half of a character, and no half of a word, of the text
\* as it will read once the model has written on (wordEnd 1961).
CaptionsWhole == LET s == IF rw.captioned > Len(rw.said) THEN rw.given ELSE rw.said IN EndsRune(s, rw.captioned) /\ EndsWord(s, rw.captioned)

\* Every pass of Write's loop moves on, so Write returns, but when the guard
\* still waits for a repetition to end as a '<' comes: neither call of speak
\* moves then, and the loop never ends (speak 1768 returns nil, Write 1750
\* goes on).
StillHolds == ~rw.decided /\ echoOf(SubSeq(rw.reply, 1, Max({LtAt - 1, 1})), answering).holding
LoopMoves ==
    at = "loop" /\ HasLt /\ AtLt.n >= 0 /\ ~AtLt.ok => StillHolds \/ Spoke(BeforeLt, 1, FALSE).spoken > rw.spoken
=============================================================================
