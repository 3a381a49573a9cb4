------------------------------ MODULE AIResponse ------------------------------
(***************************************************************************)
(* One attempt of DiagnosisService: callAIAPI puts the prompt into a JSON   *)
(* body (escapeJson), reads the first line of the service's answer and      *)
(* takes the text out of it (parseAIResponse, unescapeJson), all without a  *)
(* JSON library. ReadJson is the reference: how JSON reads a string.        *)
(*                                                                         *)
(* A text is a sequence of symbols, one for each character that the code    *)
(* tells apart, and one each for the key "content" with its colon and for   *)
(* what follows the backslash in \uXXXX, \b and \f.                         *)
(***************************************************************************)
EXTENDS Integers, Sequences, SequencesExt

CONSTANTS
    MaxPrompt,      \* bound on the length of a prompt
    MaxContent      \* bound on the length of the content string in an answer

ASSUME AIAssumption == MaxPrompt \in Nat /\ MaxContent \in Nat

Quote == "quote"
Backslash == "backslash"
Newline == "newline"        \* a line feed, carriage return or tab ...
LetterN == "n"              \* ... and the letter after the backslash in its escape
Control == "control"        \* any other character below 32 ...
Hex == "uXXXX"              \* ... and what follows the backslash in its escape
Letter == "x"
ContentKey == "content key"

Prompts == BoundedSeq({Letter, LetterN, Quote, Backslash, Newline, Control}, MaxPrompt)

VARIABLES
    step,           \* how far callAIAPI is: "building", "asking", "parsing", "done"
    prompt,
    body,           \* what buildRequestBody puts between the quotes
    answer,         \* the line that came back: its form and its content string
    text            \* what callAIAPI returns

vars == <<step, prompt, body, answer, text>>

NoText == <<"null">>

-------------------------------------------------------------------------------
(* The reference                                                           *)

Broken == "broken"

\* What a backslash and a symbol stand for in a JSON string.
Meaning == [c \in {Quote, Backslash, LetterN, Hex} |->
               CASE c = LetterN -> Newline [] c = Hex -> Control [] OTHER -> c]

\* The string whose characters begin s, up to its closing quote.
ReadJson(s) ==
    LET read[i \in 1..(Len(s) + 2)] ==
            IF i > Len(s) THEN <<Broken>>
            ELSE IF s[i] = Quote THEN <<>>
            ELSE IF s[i] # Backslash THEN <<s[i]>> \o read[i + 1]
            ELSE IF i < Len(s) /\ s[i + 1] \in DOMAIN Meaning
            THEN <<Meaning[s[i + 1]]>> \o read[i + 2]
            ELSE <<Broken>>
    IN read[1]

\* The content strings a service may write: those JSON reads to their end.
Contents ==
    LET unescaped == BoundedSeq({Letter, LetterN, Quote, Backslash, Hex}, MaxContent) IN
    {c \in unescaped :
        /\ ~Contains(ReadJson(Append(c, Quote)), Broken)
        \* no quote closes it early
        /\ Contains(ReadJson(c), Broken)}

-------------------------------------------------------------------------------
(* The code                                                                *)

EscapeOnlyQuotes(s) ==              \* mutant: case '\\' is missing
    FlattenSeq([i \in DOMAIN s |->
        CASE s[i] = Quote -> <<Backslash, s[i]>>
          [] s[i] = Newline -> <<Backslash, LetterN>>
          [] s[i] = Control -> <<Backslash, Hex>>
          [] OTHER -> <<s[i]>>])

EscapeJson(s) ==
    FlattenSeq([i \in DOMAIN s |->
        CASE s[i] \in {Quote, Backslash} -> <<Backslash, s[i]>>
          [] s[i] = Newline -> <<Backslash, LetterN>>
          [] s[i] = Control -> <<Backslash, Hex>>
          [] OTHER -> <<s[i]>>])

UnescapeTwice(s) ==                 \* mutant: i++ is missing after an escaped backslash
    LET unescape[i \in 1..(Len(s) + 2)] ==
            IF i > Len(s) THEN <<>>
            ELSE IF s[i] # Backslash \/ i = Len(s) THEN <<s[i]>> \o unescape[i + 1]
            ELSE CASE s[i + 1] = Quote -> <<s[i + 1]>> \o unescape[i + 2]
                   [] s[i + 1] = Backslash -> <<s[i + 1]>> \o unescape[i + 1]
                   [] s[i + 1] = LetterN -> <<Newline>> \o unescape[i + 2]
                   [] OTHER -> <<s[i]>> \o unescape[i + 1]
    IN unescape[1]

\* An escape it does not know, \u among them, stays as it is, and so does a backslash
\* at the end.
UnescapeJson(s) ==
    LET unescape[i \in 1..(Len(s) + 2)] ==
            IF i > Len(s) THEN <<>>
            ELSE IF s[i] # Backslash \/ i = Len(s) THEN <<s[i]>> \o unescape[i + 1]
            ELSE CASE s[i + 1] \in {Quote, Backslash} -> <<s[i + 1]>> \o unescape[i + 2]
                   [] s[i + 1] = LetterN -> <<Newline>> \o unescape[i + 2]
                   [] OTHER -> <<s[i]>> \o unescape[i + 1]
    IN unescape[1]

\* String.indexOf: 0 if there is none.
IndexOf(s, c, from) == SelectInSubSeq(s, from, Len(s), LAMBDA x : x = c)

ParseEmpty(response) ==             \* mutant: content.isEmpty() is not asked
    LET key   == IndexOf(response, ContentKey, 1)
        start == IndexOf(response, Quote, key + 1)
        end   == IndexOf(response, Quote, start + 1)
    IN IF key = 0 \/ start = 0 \/ end = 0 THEN NoText
       ELSE UnescapeJson(SubSeq(response, start + 1, end - 1))

\* From the first quote after the key to the next quote, escaped or not.
ParseAIResponse(response) ==
    LET key   == IndexOf(response, ContentKey, 1)
        start == IndexOf(response, Quote, key + 1)
        end   == IndexOf(response, Quote, start + 1)
        content == UnescapeJson(SubSeq(response, start + 1, end - 1))
    IN IF key = 0 \/ start = 0 \/ end = 0 \/ content = <<>> THEN NoText ELSE content

\* The first line of an answer: with a content string; with a null content and another
\* key after it; or without a content, as in an answer laid out on several lines.
Forms == {"string", "null", "absent"}
Line(a) ==
    CASE a.form = "string" -> <<ContentKey, Quote>> \o a.content \o <<Quote, Letter>>
      [] a.form = "null"   -> <<ContentKey, Letter, Quote, Letter, Quote, Letter>>
      [] a.form = "absent" -> <<Letter>>

Answers == [form : {"string"}, content : Contents]
               \union [form : Forms \ {"string"}, content : {<<>>}]

NoAnswer == [form |-> "absent", content |-> <<>>]

Init ==
    /\ step = "building"
    /\ prompt \in Prompts
    /\ body = <<>>
    /\ answer = NoAnswer
    /\ text = NoText

BuildRequestBody ==
    /\ step = "building"
    /\ step' = "asking"
    /\ body' = EscapeJson(prompt)
    /\ UNCHANGED <<prompt, answer, text>>

\* A response code of 2xx. All others throw: DiagnosisPool's CallFails.
Respond(a) ==
    /\ step = "asking"
    /\ step' = "parsing"
    /\ answer' = a
    /\ UNCHANGED <<prompt, body, text>>

Parse ==
    /\ step = "parsing"
    /\ step' = "done"
    /\ text' = ParseAIResponse(Line(answer))
    /\ UNCHANGED <<prompt, body, answer>>

Next == BuildRequestBody \/ (\E a \in Answers : Respond(a)) \/ Parse

Spec == Init /\ [][Next]_vars

-------------------------------------------------------------------------------
(* Properties                                                              *)

\* Types; and a text that is returned is never empty, which DiagnosisPool's Answered
\* relies on.
TypeOK ==
    /\ step \in {"building", "asking", "parsing", "done"}
    /\ prompt \in Prompts
    /\ Len(body) <= 2 * Len(prompt)
    /\ answer \in Answers
    /\ Len(text) \in 1..(MaxContent + 1)

\* "Escape string for JSON serialization" (DiagnosisService.java:187): the service, which
\* does read JSON, receives the prompt exactly, with its quotes, backslashes and line
\* ends, and the string ends where the body says.
PromptArrives ==
    step # "building" => ReadJson(Append(body, Quote)) = prompt

\* What the service said in its answer, as JSON reads it.
Said == ReadJson(Append(answer.content, Quote))

\* A text without quotation marks (and without the control characters unescapeJson does
\* not know) is taken as the service said it, line ends and backslashes restored, and
\* nothing is taken from an answer with an empty content or none. Where content is null,
\* the code takes the string after it.
UnquotedExtracted ==
    step = "done" /\ answer.form # "null" /\ ~Contains(Said, Control) /\ ~Contains(Said, Quote) =>
        text = IF answer.form = "absent" \/ Said = <<>> THEN NoText ELSE Said

\* "Parse AI response JSON to extract the diagnosis text" (DiagnosisService.java:142), of
\* which unescapeJson restores the quotation marks (DiagnosisService.java:243): the text
\* is what the service said, quotation marks included.
AnswerExtracted ==
    step = "done" /\ answer.form = "string" /\ Said # <<>> /\ ~Contains(Said, Control) =>
        text = Said
===============================================================================
