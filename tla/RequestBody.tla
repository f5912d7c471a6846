----------------------------- MODULE RequestBody -----------------------------
(***************************************************************************)
(* How the body of a POST becomes the argument of a guest: the data guard  *)
(* StringCopy of src/src/main.rs, and the two lines of msghash_check_c and *)
(* xml_to_json that percent-decode it.  Bytes are numbers, and a byte is   *)
(* an octet of UTF-8 text, of an escape "%XX", or of neither.              *)
(*                                                                         *)
(* The clients are those of the repository: request_spectre_test.js sends  *)
(* encodeURI(text), the scripts of wrk_scripts send the file as it is.     *)
(***************************************************************************)
EXTENDS Naturals, Sequences

CONSTANTS
    Bytes,      \* the octets a client's text is made of, for TLC
    Limit,      \* LIMIT: octets of the body the guard reads
    MaxText     \* longest text a client sends, for TLC

ASSUME BodyAssumption ==
    /\ Bytes \subseteq 0..255
    /\ Limit \in Nat
    /\ MaxText \in Nat

Nul == 0
Percent == 37

\* The digits of an escape, and their values.
HexDigit(v) == IF v < 10 THEN 48 + v ELSE 55 + v
HexValue(b) ==
    CASE b \in 48..57  -> b - 48
      [] b \in 65..70  -> b - 55
      [] b \in 97..102 -> b - 87
      [] OTHER         -> 16      \* not a hexadecimal digit

Take(s, n) == SubSeq(s, 1, IF Len(s) < n THEN Len(s) ELSE n)

\* s is the UTF-8 form of one character (String and decode_utf8 accept no other).
Char(s) ==
    LET Rest(first) == \A i \in first..Len(s) : s[i] \in 128..191
    IN  CASE Len(s) = 1 -> s[1] \in 0..127
          [] Len(s) = 2 -> s[1] \in 194..223 /\ Rest(2)
          [] Len(s) = 3 -> /\ s[1] \in 224..239
                           /\ s[2] \in (IF s[1] = 224 THEN 160 ELSE 128)
                                         ..(IF s[1] = 237 THEN 159 ELSE 191)
                           /\ Rest(3)
          [] Len(s) = 4 -> /\ s[1] \in 240..244
                           /\ s[2] \in (IF s[1] = 240 THEN 144 ELSE 128)
                                         ..(IF s[1] = 244 THEN 143 ELSE 191)
                           /\ Rest(3)
          [] OTHER -> FALSE

\* Whether s is text from each of its octets on, and as a whole.
Utf8From(s) ==
    LET from[i \in 1..Len(s) + 1] ==
            \/ i = Len(s) + 1
            \/ \E j \in i..(IF i + 3 < Len(s) THEN i + 3 ELSE Len(s)) :
                   Char(SubSeq(s, i, j)) /\ from[j + 1]
    IN  from

Utf8(s) == Utf8From(s)[1]

\* Mistake: whatever follows a "%" is taken for two digits.
EscapeAtUnchecked(s, i) == s[i] = Percent /\ i + 2 <= Len(s)

EscapeAt(s, i) ==
    /\ s[i] = Percent
    /\ i + 2 <= Len(s)
    /\ HexValue(s[i + 1]) < 16
    /\ HexValue(s[i + 2]) < 16

\* Mistake: a "%" that starts no escape is thrown away.
PercentDecodeDropping(s) ==
    LET from[i \in 1..Len(s) + 3] ==
            IF i > Len(s) THEN <<>>
            ELSE IF EscapeAt(s, i)
                 THEN <<16 * HexValue(s[i + 1]) + HexValue(s[i + 2])>> \o from[i + 3]
                 ELSE (IF s[i] = Percent THEN <<>> ELSE <<s[i]>>) \o from[i + 1]
    IN  from[1]

\* percent_decode_str: a "%" that starts no escape stands for itself.
DecodedFrom(s) ==
    LET from[i \in 1..Len(s) + 3] ==
            IF i > Len(s) THEN <<>>
            ELSE IF EscapeAt(s, i)
                 THEN <<16 * HexValue(s[i + 1]) + HexValue(s[i + 2])>> \o from[i + 3]
                 ELSE <<s[i]>> \o from[i + 1]
    IN  from

PercentDecode(s) == DecodedFrom(s)[1]

\* What a handler makes of the body it was given: it answers 500 itself
\* ("bad_raw": read_to_string, "bad_text": decode_utf8), create_wasm_instance
\* does ("nul": no argument of a guest holds a NUL), or the guest gets the text.
Argument(body) ==
    LET text == PercentDecode(body)
    IN  [text |-> text,
         class |-> CASE ~Utf8(body) -> "bad_raw"
                     [] Utf8(body) /\ ~Utf8(text) -> "bad_text"
                     [] OTHER -> IF \E i \in 1..Len(text) : text[i] = Nul
                                 THEN "nul" ELSE "text"]

-----------------------------------------------------------------------------
(* The clients *)

\* What encodeURI leaves as it is.
UriCharacters ==
    (48..57) \cup (65..90) \cup (97..122) \cup {33, 35, 36, 95, 126}
        \cup (38..47) \cup {58, 59, 61, 63, 64}

Encoded(b) ==
    IF b \in UriCharacters THEN <<b>>
    ELSE <<Percent, HexDigit(b \div 16), HexDigit(b % 16)>>

EncodedFrom(text) ==
    LET from[i \in 1..Len(text) + 1] ==
            IF i > Len(text) THEN <<>> ELSE Encoded(text[i]) \o from[i + 1]
    IN  from

EncodeURI(text) == EncodedFrom(text)[1]

Wire(c, text) == IF c = "js" THEN EncodeURI(text) ELSE text

-----------------------------------------------------------------------------
VARIABLES
    client,     \* "js" or "lua"
    sent,       \* the text the client posts
    buf,        \* what read_to_string has read of it so far
    state,      \* "typing", "reading", "read" or "failed"
    arg         \* Argument of the body, once it is read

vars == <<client, sent, buf, state, arg>>

NoArgument == [text |-> <<>>, class |-> "none"]

TypeOK ==
    /\ client \in {"js", "lua"}
    /\ sent \in Seq(Bytes)
    /\ buf \in Seq(0..255)
    /\ state \in {"typing", "reading", "read", "failed"}
    /\ arg.text \in Seq(0..255)
    /\ arg.class \in {"none", "bad_raw", "bad_text", "nul", "text"}

Init ==
    /\ client \in {"js", "lua"}
    /\ sent = <<>>
    /\ buf = <<>>
    /\ state = "typing"
    /\ arg = NoArgument

\* The client makes up its text.
Type(b) ==
    /\ state = "typing"
    /\ Len(sent) < MaxText
    /\ sent' = Append(sent, b)
    /\ UNCHANGED <<client, buf, state, arg>>

\* encodeURI takes a string, so what it gets is a text.
Post ==
    /\ state = "typing"
    /\ client = "js" => Utf8(sent)
    /\ state' = "reading"
    /\ UNCHANGED <<client, sent, buf, arg>>

\* What take(LIMIT) lets through.
Body == Take(Wire(client, sent), Limit)

\* Mistake: a read starts at the last octet of the one before.
ReadChunkTwice(n) ==
    /\ state = "reading"
    /\ Len(buf) + n <= Len(Body)
    /\ buf' = buf \o SubSeq(Body, IF buf = <<>> THEN 1 ELSE Len(buf), Len(buf) + n - 1)
    /\ UNCHANGED <<client, sent, state, arg>>

\* One read of read_to_string: some of what has arrived.
ReadChunk(n) ==
    /\ state = "reading"
    /\ Len(buf) + n <= Len(Body)
    /\ buf' = buf \o SubSeq(Body, Len(buf) + 1, Len(buf) + n)
    /\ UNCHANGED <<client, sent, state, arg>>

\* A read of 0 octets: the body is over, or the limit is reached.
FinishRead ==
    /\ state = "reading"
    /\ Len(buf) = Len(Body)
    /\ state' = "read"
    /\ arg' = Argument(buf)
    /\ UNCHANGED <<client, sent, buf>>

\* The client goes away in the middle: read_to_string fails, 500.
Disconnect ==
    /\ state = "reading"
    /\ Len(buf) < Len(Body)
    /\ state' = "failed"
    /\ UNCHANGED <<client, sent, buf, arg>>

Next ==
    \/ \E b \in Bytes : Type(b)
    \/ Post
    \/ \E n \in 1..Limit : ReadChunk(n)
    \/ FinishRead
    \/ Disconnect

Spec == Init /\ [][Next]_vars

-----------------------------------------------------------------------------
(* Properties *)

HasNul(s) == \E i \in 1..Len(s) : s[i] = Nul
Read(c) == state = "read" /\ client = c
Whole == Len(Wire(client, sent)) <= Limit

\* What request_spectre_test.js encodes is what the guest gets, in whatever
\* chunks it arrives, unless the encoded body passes LIMIT; a NUL in the text
\* is refused and never cuts the argument short.
EncodedTextArrives ==
    Read("js") /\ Whole =>
        /\ arg.text = sent
        /\ arg.class = IF HasNul(sent) THEN "nul" ELSE "text"

\* A text over LIMIT is cut without an error.  What the guest then gets is the
\* beginning of the text, and the two octets at most of an escape the limit
\* split, "%" first: percent_decode leaves those in the argument.
CutTextIsPrefix ==
    Read("js") /\ ~Whole =>
        /\ arg.class # "bad_raw"
        /\ arg.class \in {"text", "nul"} =>
               \E k \in 0..Len(sent) :
                   /\ Take(arg.text, k) = Take(sent, k)
                   /\ Len(arg.text) \in k..k + 2
                   /\ Len(arg.text) > k => arg.text[k + 1] = Percent

\* The scripts of wrk_scripts post their file unencoded.  The server decodes it
\* all the same, so the guest gets the file if it is text without an escape,
\* and no more than the file in any case.
RawTextArrives ==
    Read("lua") /\ Whole =>
        /\ arg.class # "bad_raw" <=> Utf8(sent)
        /\ (\A i \in 1..Len(sent) : ~EscapeAt(sent, i)) => arg.text = sent
        /\ Len(arg.text) <= Len(sent)
=============================================================================
