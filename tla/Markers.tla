------------------------------ MODULE Markers ------------------------------
(***************************************************************************)
(* The marker parser of the schema compiler (pkg/simpleschema/markers.go): *)
(* parseMarkers reads the "| ..." tail of a compact field such as          *)
(*     required=true description="a \"quoted\" text" enum={a,b}            *)
(* one rune per iteration of its for loop.  Each action below is one case *)
(* of the loop's switch; Finish is the code after the loop.  Characters    *)
(* are abstracted to one letter and the runes the switch tells apart.      *)
(***************************************************************************)
EXTENDS Naturals, SequencesExt

CONSTANTS
  Letters,      \* runes that are neither space nor punctuation of the parser
  MarkerKeys,   \* the words markerTypeFromString accepts (as rune sequences)
  Texts,        \* the marker strings handed to parseMarkers
  Samples       \* marker lists whose written form is among the Texts

Quote     == "\""
Backslash == "\\"
Space     == " "
Chars     == Letters \cup {"=", Quote, Backslash, "{", "}", Space}

NoMarker == <<>>      \* currentMarker == nil (an open marker never has an empty key)

VARIABLES
  text,          \* the marker string
  pos,           \* index of the next rune
  cur,           \* currentMarker: NoMarker or the key of the open marker
  inQuotes, bracketCount, escaped,
  buffer,        \* the strings.Builder
  result,        \* the []*Marker built so far
  outcome        \* "running", "ok", a panic, or the error returned

vars == <<text, pos, cur, inQuotes, bracketCount, escaped, buffer, result, outcome>>

Errors == {"emptyKey", "unknownKey", "unmatchedClose", "unclosedQuote", "unclosedBracket"}

(***************************************************************************)
(* String helpers                                                          *)
(***************************************************************************)

\* strings.TrimSpace
TrimSpace(s) ==
  LET keep == {i \in DOMAIN s : s[i] # Space}
  IN  IF keep = {} THEN <<>> ELSE SubSeq(s, Min(keep), Max(keep))

\* unescapeString: a backslash escapes the next rune; it is dropped before
\* a quote or a backslash and kept before anything else
RECURSIVE Unescape(_, _)
Unescape(s, esc) ==
  IF s = <<>> THEN <<>>
  ELSE LET c == Head(s) IN
       CASE esc -> (IF c \in {Quote, Backslash} THEN <<c>> ELSE <<Backslash, c>>)
                     \o Unescape(Tail(s), FALSE)
         [] c = Backslash -> Unescape(Tail(s), TRUE)
         [] OTHER -> <<c>> \o Unescape(Tail(s), FALSE)

unescapeString(s) == Unescape(s, FALSE)

\* processValue: a value starting and ending with a quote is unquoted with
\* value[1:len(value)-1]; for the one-rune value `"` that slice is [1:0],
\* which panics in Go
processValue(v) ==
  IF v # <<>> /\ Head(v) = Quote /\ Last(v) = Quote
  THEN IF Len(v) = 1 THEN [panics |-> TRUE, value |-> <<>>]
       ELSE [panics |-> FALSE, value |-> unescapeString(SubSeq(v, 2, Len(v) - 1))]
  ELSE [panics |-> FALSE, value |-> TrimSpace(v)]

\* markerTypeFromString succeeds on the fourteen marker names only
markerTypeFromString(key) == key \in MarkerKeys

Marker(key, value) == [key |-> key, value |-> value]

(***************************************************************************)
(* The switch of the loop: the first case whose condition holds            *)
(***************************************************************************)

\* mutant: a quote toggles inQuotes even when escaped
SwitchCaseNoEscape(c) ==
  CASE c = "=" /\ cur = NoMarker /\ ~inQuotes /\ bracketCount = 0 -> "key"
    [] c = Quote -> "quote"
    [] c = Backslash /\ inQuotes /\ ~escaped -> "escape"
    [] c = "{" /\ ~inQuotes -> "open"
    [] c = "}" /\ ~inQuotes -> "close"
    [] c = Space /\ ~inQuotes /\ bracketCount = 0 -> "space"
    [] OTHER -> "default"

SwitchCase(c) ==
  CASE c = "=" /\ cur = NoMarker /\ ~inQuotes /\ bracketCount = 0 -> "key"
    [] c = Quote /\ ~escaped -> "quote"
    [] c = Backslash /\ inQuotes /\ ~escaped -> "escape"
    [] c = "{" /\ ~inQuotes -> "open"
    [] c = "}" /\ ~inQuotes -> "close"
    [] c = Space /\ ~inQuotes /\ bracketCount = 0 -> "space"
    [] OTHER -> "default"

Running == outcome = "running" /\ pos <= Len(text)

Char == text[pos]

Case(k) == Running /\ SwitchCase(Char) = k

\* the loop returns nil and an error: the parse stops there
Fail(err) ==
  /\ outcome' = err
  /\ UNCHANGED <<text, pos, cur, inQuotes, bracketCount, escaped, buffer, result>>

\* the rune is appended to the buffer and the loop moves on
Write == buffer' = Append(buffer, Char) /\ pos' = pos + 1

(***************************************************************************)
(* One action per case                                                     *)
(***************************************************************************)

\* '=' outside quotes and brackets with no open marker: the buffer is a key
KeyEnd ==
  /\ Case("key")
  /\ LET key == TrimSpace(buffer) IN
       CASE key = <<>> -> Fail("emptyKey")
         [] ~markerTypeFromString(key) -> Fail("unknownKey")
         [] OTHER -> /\ cur' = key
                     /\ buffer' = <<>>
                     /\ pos' = pos + 1
                     /\ UNCHANGED <<text, inQuotes, bracketCount, escaped, result, outcome>>

QuoteRune ==
  /\ Case("quote")
  /\ inQuotes' = ~inQuotes
  /\ Write
  /\ UNCHANGED <<text, cur, bracketCount, escaped, result, outcome>>

EscapeRune ==
  /\ Case("escape")
  /\ escaped' = TRUE
  /\ Write
  /\ UNCHANGED <<text, cur, inQuotes, bracketCount, result, outcome>>

OpenBracket ==
  /\ Case("open")
  /\ bracketCount' = bracketCount + 1
  /\ Write
  /\ UNCHANGED <<text, cur, inQuotes, escaped, result, outcome>>

\* mutant: the decrement is not checked against zero
CloseBracketUnchecked ==
  /\ Case("close")
  /\ bracketCount' = bracketCount - 1
  /\ Write
  /\ UNCHANGED <<text, cur, inQuotes, escaped, result, outcome>>

CloseBracket ==
  /\ Case("close")
  /\ IF bracketCount - 1 < 0
     THEN Fail("unmatchedClose")
     ELSE /\ bracketCount' = bracketCount - 1
          /\ Write
          /\ UNCHANGED <<text, cur, inQuotes, escaped, result, outcome>>

\* a space outside quotes and brackets closes the open marker, if any
SpaceRune ==
  /\ Case("space")
  /\ pos' = pos + 1
  /\ IF cur = NoMarker
     THEN UNCHANGED <<text, cur, inQuotes, bracketCount, escaped, buffer, result, outcome>>
     ELSE LET pv == processValue(buffer) IN
          IF pv.panics
          THEN /\ outcome' = "panic"
               /\ UNCHANGED <<text, cur, inQuotes, bracketCount, escaped, buffer, result>>
          ELSE /\ result' = Append(result, Marker(cur, pv.value))
               /\ cur' = NoMarker
               /\ buffer' = <<>>
               /\ UNCHANGED <<text, inQuotes, bracketCount, escaped, outcome>>

OtherRune ==
  /\ Case("default")
  /\ escaped' = (escaped /\ ~inQuotes)
  /\ Write
  /\ UNCHANGED <<text, cur, inQuotes, bracketCount, result, outcome>>

\* after the loop: the open marker is closed first, then the quote and
\* bracket checks run
Finish ==
  /\ outcome = "running"
  /\ pos > Len(text)
  /\ IF cur # NoMarker /\ processValue(buffer).panics
     THEN outcome' = "panic" /\ UNCHANGED result
     ELSE /\ result' = IF cur = NoMarker THEN result
                       ELSE Append(result, Marker(cur, processValue(buffer).value))
          /\ outcome' = CASE inQuotes -> "unclosedQuote"
                          [] bracketCount > 0 -> "unclosedBracket"
                          [] OTHER -> "ok"
  /\ UNCHANGED <<text, pos, cur, inQuotes, bracketCount, escaped, buffer>>

Init ==
  /\ text \in Texts
  /\ pos = 1
  /\ cur = NoMarker
  /\ inQuotes = FALSE /\ bracketCount = 0 /\ escaped = FALSE
  /\ buffer = <<>>
  /\ result = <<>>
  /\ outcome = "running"

Next ==
  \/ KeyEnd \/ QuoteRune \/ EscapeRune \/ OpenBracket \/ CloseBracket
  \/ SpaceRune \/ OtherRune \/ Finish

Spec == Init /\ [][Next]_vars

Done == outcome # "running"

(***************************************************************************)
(* Reference: how markers are written (the package comment): key=value,    *)
(* separated by spaces, the value in quotes with \" and \\ escaped.        *)
(***************************************************************************)
Escape(v) == FlattenSeq([i \in DOMAIN v |->
                IF v[i] \in {Quote, Backslash} THEN <<Backslash, v[i]>> ELSE <<v[i]>>])

WriteMarker(m) == m.key \o <<"=", Quote>> \o Escape(m.value) \o <<Quote>>

RECURSIVE Render(_)
Render(ms) ==
  CASE ms = <<>> -> <<>>
    [] Len(ms) = 1 -> WriteMarker(Head(ms))
    [] OTHER -> WriteMarker(Head(ms)) \o <<Space>> \o Render(Tail(ms))

\* each written text with the marker list it was written from
Written == [t \in {Render(ms) : ms \in Samples} |->
              CHOOSE ms \in Samples : Render(ms) = t]

(***************************************************************************)
(* Properties                                                              *)
(***************************************************************************)

TypeOK ==
  /\ text \in Seq(Chars)
  /\ pos \in 1..Len(text) + 1
  /\ cur \in {NoMarker} \cup MarkerKeys
  /\ inQuotes \in BOOLEAN /\ escaped \in BOOLEAN
  /\ bracketCount \in Nat
  /\ buffer \in Seq(Chars)
  /\ outcome \in {"running", "ok", "panic"} \cup Errors

\* Quoting round-trips: a marker list written with quoted, escaped values
\* parses back to exactly that list, whatever quotes, backslashes, braces,
\* '=' or spaces the values hold.  This exercises the interplay of the
\* quote toggle, the escaped flag, the bracket counter and processValue /
\* unescapeString.
RoundTrip ==
  Done /\ text \in DOMAIN Written => outcome = "ok" /\ result = Written[text]

\* parseMarkers never panics: a malformed marker string is reported as an
\* error (the code has checks for an unclosed quote for this).
NoPanic == outcome # "panic"

=============================================================================
