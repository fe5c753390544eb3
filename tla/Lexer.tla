------------------------------- MODULE Lexer -------------------------------
(***************************************************************************)
(* The lexer of lib/lex.cpp: one state over one source text, stepped by    *)
(* lemniLex until it answers EOF or an error, as lexAll of lex.h and       *)
(* lemniLoadModule do.                                                     *)
(*                                                                         *)
(* A character is one of the classes the code branches on; a text is a     *)
(* sequence of them and a slice of it is the pair of positions [from, to). *)
(* `pos' is where the remainder starts.  `out' is a history of the tokens  *)
(* handed to the caller: the lexer is deterministic, so it adds no states. *)
(***************************************************************************)
EXTENDS Integers, Sequences, FiniteSets, FiniteSetsExt, SequencesExt

CONSTANTS Families,   \* kinds of sources: [chars, longest]
          MaxTokens   \* the caller stops after this many tokens

Space   == {"nl", "sp", "tab"}                    \* u_isspace
Digit   == {"0", "1"}                             \* u_isdigit
Letter  == {"x", "a", "b"}                        \* UCHAR_ALPHABETIC
XDigit  == Digit \cup {"a", "b"}                  \* u_isxdigit
Alnum   == Digit \cup Letter                      \* u_isalnum
Quote   == {"q", "lq", "rq"}                      \* UCHAR_QUOTATION_MARK
Bracket == {"(", ")"}                             \* BIDI_PAIRED_BRACKET_TYPE
\* u_ispunct or UCHAR_MATH: brackets, quotes, '_' and '\' are punctuation too
Punct   == {"+", "-", "/", ".", "_", "bs"} \cup Quote \cup Bracket
Chars   == Space \cup Alnum \cup Punct \cup {"ctl"}

ASSUME FamiliesAssumption == \A f \in Families : f.chars \subseteq Chars /\ f.longest \in Nat
ASSUME BoundsAssumption == MaxTokens \in Nat

\* u_charMirror: the quote that closes a literal
Mirror(q) == CASE q = "lq" -> "rq" [] q = "rq" -> "lq" [] OTHER -> q

VARIABLES src,        \* the text given to lemniCreateLexState
          pos,        \* first position of the remainder
          loc,        \* line and column recorded for the next token
          onNewLine, indents, backlog,
          status,     \* what the last call answered, or that it threw
          out         \* history: the tokens answered so far

vars == <<src, pos, loc, onNewLine, indents, backlog, status, out>>

End == Len(src) + 1

\* The first position from i on whose character is not in `class'.
SkipWhile(i, class) == Min({k \in i..End : k = End \/ src[k] \notin class})

Token(kind, from, to, at) == [kind |-> kind, from |-> from, to |-> to, loc |-> at]
Text(slice) == SubSeq(src, slice.from, slice.to - 1)

Init == /\ \E f \in Families : \E n \in 0..f.longest : src \in [1..n -> f.chars]
        /\ pos = 1
        /\ loc = [line |-> 0, col |-> 0]
        /\ onNewLine = TRUE
        /\ indents = <<>>
        /\ backlog = <<>>
        /\ status = "lexing"
        /\ out = <<>>

-----------------------------------------------------------------------------
(* How far a literal or an operator that starts at i reaches.  0: error.   *)

\* lexReal, with `i' past the point: digits and '_' up to the first character
\* that is neither; a second point or a letter that is no digit is an error.
RealEnd(i) ==
  LET j == SkipWhile(i, XDigit \cup {"_"})
  IN  IF j < End /\ src[j] \in {"."} \cup Letter THEN 0 ELSE j

\* lexInt: the same without a point; a point makes it a real.
IntEnd(i) ==
  LET j == SkipWhile(i, XDigit \cup {"_"})
  IN  CASE j < End /\ src[j] = "." -> RealEnd(j + 1)
        [] j < End /\ src[j] \in Letter -> 0
        [] OTHER -> j

IsReal(i) == LET j == SkipWhile(i, XDigit \cup {"_"}) IN j < End /\ src[j] = "."

\* The string literal loop.  The character after an escape is read again, but
\* only compared with the closing quote: it does not start another escape.
StringEnd(i) ==
  LET close == Mirror(src[i])
      scan[k \in 1..(End + 2)] ==
        IF k >= End THEN 0
        ELSE LET c == IF src[k] = "bs" THEN k + 2 ELSE k
             IN  IF c >= End THEN 0
                 ELSE IF src[c] = close THEN c + 1 ELSE scan[c + 1]
  IN  scan[i + 1]

CommentEnd(i) == SkipWhile(i, Chars \ {"nl"})

-----------------------------------------------------------------------------
(* The actions: the ways one call of lemniLex can go.                      *)

ReadyEager ==     \* a slip
  status = "lexing" /\ Len(out) < MaxTokens
Ready == status = "lexing" /\ Len(out) < MaxTokens /\ backlog = <<>>

At(class) == pos < End /\ src[pos] \in class

\* A queued indentation token is answered before the text is looked at.
FromBacklog ==
  /\ status = "lexing" /\ Len(out) < MaxTokens
  /\ backlog # <<>>
  /\ out' = Append(out, Head(backlog))
  /\ backlog' = Tail(backlog)
  /\ UNCHANGED <<src, pos, loc, onNewLine, indents, status>>

AtEnd ==
  /\ Ready
  /\ pos = End
  /\ status' = "eof"
  /\ UNCHANGED <<src, pos, loc, onNewLine, indents, backlog, out>>

\* A run of newlines is one token; every one of them is a line.
NextLineOnly(lines) ==     \* a slip
  [line |-> loc.line + 1, col |-> 0]
NextLine(lines) == [line |-> loc.line + lines, col |-> 0]

Newline ==
  /\ Ready
  /\ At({"nl"})
  /\ LET to == SkipWhile(pos, {"nl"}) IN
     /\ pos' = to
     /\ loc' = NextLine(to - pos)
     /\ out' = Append(out, Token("NEWLINE", pos, pos, loc))
  /\ onNewLine' = TRUE
  /\ UNCHANGED <<src, indents, backlog, status>>

\* The text reaches `to', `cols' columns past `at', with one token [from, to).
Emit(kind, from, to, at, cols) ==
  /\ pos' = to
  /\ loc' = [at EXCEPT !.col = @ + cols]
  /\ out' = Append(out, Token(kind, from, to, at))
  /\ onNewLine' = FALSE
  /\ UNCHANGED <<src, backlog, status>>

Fail(why) ==
  /\ status' = why
  /\ UNCHANGED <<src, pos, loc, onNewLine, backlog, out>>

\* The first text of a line is measured against the open levels.
Checking == onNewLine /\ indents # <<>>

\* The tokens of a text that starts at i, at location `at', within a line.
\* Words, operators, strings and spaces are as wide as their text; a number
\* without a sign is recorded one column short and a bracket takes none.
Word(i, at) ==
  /\ src[i] \in Letter \cup {"_"}
  /\ LET to == SkipWhile(i, Alnum \cup {"_"})
     IN  Emit("ID", i, to, at, to - i)

\* The token of the number written in [beg, to); `num' is where its digits
\* start.  A leading zero must be followed by a base, or by a point.
NumberKind(num, to) ==
  LET based == to - num > 1 /\ src[num] = "0" IN
  CASE IsReal(num) -> IF based /\ src[num + 1] # "." THEN "BAD" ELSE "REAL"
    [] ~IsReal(num) /\ ~based -> "INT"
    [] OTHER -> IF src[num + 1] = "b" THEN "BINARY" ELSE "BAD"

\* The number's token starts at `beg', sign included.
NumberFromDigits(beg, num) == num     \* a slip
NumberFrom(beg, num) == beg

Number(beg, num, at) ==
  LET to == IntEnd(num) IN
  IF to = 0 \/ NumberKind(num, to) = "BAD" THEN Fail("error")
  ELSE Emit(NumberKind(num, to), NumberFrom(beg, num), to, at,
            IF beg = num THEN to - beg - 1 ELSE to - beg)

Bracketed(i, at) ==
  /\ src[i] \in Bracket
  /\ Emit(IF src[i] = "(" THEN "OPEN" ELSE "CLOSE", i, i + 1, at, 0)

StringLiteral(i, at) ==
  /\ src[i] \in Quote
  /\ IF StringEnd(i) = 0 THEN Fail("error")
     ELSE Emit("STR", i, StringEnd(i), at, StringEnd(i) - i)

\* An operator is the longest run of punctuation, whatever it is.
Operator(i, at) ==
  /\ src[i] \in Punct \ (Bracket \cup Quote \cup {"_"})
  /\ LET next == IF i + 1 < End THEN src[i + 1] ELSE "nl" IN
     CASE src[i] = "-" /\ next \in Digit -> Number(i, i + 1, at)
       [] src[i] = "/" /\ next = "/" ->
            Emit("COMMENT", i, CommentEnd(i), at, CommentEnd(i) - i)
       [] OTHER -> LET to == SkipWhile(i, Punct)
                   IN  Emit("OP", i, to, at, to - i)

Visible(i, at) == \/ Word(i, at)
                  \/ src[i] \in Digit /\ Number(i, i, at)
                  \/ Bracketed(i, at)
                  \/ StringLiteral(i, at)
                  \/ Operator(i, at)
                  \/ src[i] = "ctl" /\ Fail("error")

PlainToken ==
  /\ Ready
  /\ ~Checking
  /\ pos < End /\ ~At(Space)
  /\ Visible(pos, loc)
  /\ UNCHANGED indents

\* Whitespace at the start of a line, with no open level, opens the first.
FirstIndent ==
  /\ Ready
  /\ onNewLine /\ indents = <<>>
  /\ At(Space \ {"nl"})
  /\ LET to == SkipWhile(pos, Space \ {"nl"}) IN
     /\ Emit("INDENT", pos, to, loc, to - pos)
     /\ indents' = <<[from |-> pos, to |-> to]>>

Spaces ==
  /\ Ready
  /\ ~onNewLine
  /\ At(Space \ {"nl"})
  /\ LET to == SkipWhile(pos, Space \ {"nl"})
     IN  Emit("SPACE", pos, to, loc, to - pos)
  /\ UNCHANGED indents

\* No leading whitespace: every level is closed, by a single token.
NoneClosed == indents     \* a slip
AllClosed == <<>>

ClearIndents ==
  /\ Ready
  /\ Checking
  /\ pos < End /\ ~At(Space)
  /\ indents' = AllClosed
  /\ out' = Append(out, Token("DEINDENT", pos, pos, loc))
  /\ UNCHANGED <<src, pos, loc, onNewLine, backlog, status>>

-----------------------------------------------------------------------------
(* The line's leading whitespace against the open levels.                  *)

\* How many leading characters of the two slices agree.
Agree(a, b) ==
  LET n == Min({Len(a), Len(b)})
  IN  Max({k \in 0..n : SubSeq(a, 1, k) = SubSeq(b, 1, k)})

\* The comparison loop over the line's whitespace [pos, to): how many levels
\* it matches, and where the rest starts.  The characters compared are
\* consumed, the differing one included; when the whitespace ends with a level
\* that level counts as matched, even if its last character is the one that
\* differs.
Match(to) ==
  LET from[p \in (1..(Len(indents) + 1)) \X (pos..to)] ==
        LET i  == p[1]
            at == p[2]
        IN  IF i > Len(indents) \/ at = to THEN [levels |-> i - 1, rest |-> at]
            ELSE LET level == Text(indents[i])
                     same  == Agree(level, SubSeq(src, at, to - 1))
                     read  == Min({same + 1, Len(level), to - at})
                 IN  IF at + read = to
                     THEN [levels |-> IF read = Len(level) THEN i ELSE i - 1, rest |-> to]
                     ELSE IF same < Len(level)
                     THEN [levels |-> i - 1, rest |-> at + read]
                     ELSE from[<<i + 1, at + read>>]
  IN  from[<<1, pos>>]

\* How many of the closing tokens wait in the backlog: one is answered at once.
Queued(closed) == closed - 1

\* The levels that stay open.
Kept(levels) == SubSeq(indents, 1, levels)

\* The line starts exactly as the open levels do: the call goes on to the text
\* behind the whitespace.  There the last character read is still the current
\* one: at the end of the source advancing past it throws, and a newline is
\* taken for a space.
SameIndentation(to) ==
  LET at == [loc EXCEPT !.col = @ + (to - pos)] IN
  \/ to = End /\ Fail("thrown")
  \/ /\ to < End /\ src[to] = "nl"
     /\ LET behind == SkipWhile(to + 1, Space \ {"nl"})
        IN  Emit("SPACE", to, behind, at, behind - to)
  \/ to < End /\ src[to] # "nl" /\ Visible(to, at)

\* Levels are closed, a new one is opened, or both; one token is answered and
\* the others are queued.
ChangeIndentation(to, levels, from) ==
  LET closed == Len(indents) - levels
      close  == Token("DEINDENT", pos, pos, loc)
      open   == IF from < to THEN <<Token("INDENT", from, to, loc)>> ELSE <<>>
      tokens == [k \in 1..(IF closed = 0 THEN 0 ELSE 1 + Queued(closed)) |-> close] \o open
  IN  /\ indents' = Kept(levels) \o [k \in DOMAIN open |-> [from |-> from, to |-> to]]
      /\ pos' = to
      /\ loc' = [loc EXCEPT !.col = @ + (to - pos)]
      /\ onNewLine' = FALSE
      /\ out' = Append(out, Head(tokens))
      /\ backlog' = backlog \o Tail(tokens)
      /\ UNCHANGED <<src, status>>

\* What is left of the whitespace is the new level; with no level matched all
\* of it is.
NewLevelWhole(match) == pos     \* a slip
NewLevel(match) == IF match.levels = 0 THEN pos ELSE match.rest

CheckIndentation ==
  /\ Ready
  /\ Checking
  /\ At(Space \ {"nl"})
  /\ LET to    == SkipWhile(pos, Space \ {"nl"})
         match == Match(to)
         from  == NewLevel(match)
     IN  IF match.levels = Len(indents) /\ from = to
         THEN SameIndentation(to) /\ UNCHANGED indents
         ELSE ChangeIndentation(to, match.levels, from)

Next == \/ FromBacklog \/ AtEnd \/ Newline
        \/ ClearIndents \/ CheckIndentation
        \/ FirstIndent \/ Spaces \/ PlainToken

Spec == Init /\ [][Next]_vars
\* lexAll and the module loader call lemniLex in a loop.
LoopSpec == Spec /\ WF_vars(Next)

-----------------------------------------------------------------------------
(* What the lexer owes its caller.                                         *)

\* No text is lost and none is read twice: every character before the
\* remainder that is not whitespace lies in exactly one token, and the tokens
\* come in the order of the text.
EveryCharOnce ==
  /\ \A k \in 1..(pos - 1) :
       src[k] \notin Space =>
         Cardinality({i \in DOMAIN out : out[i].from <= k /\ k < out[i].to}) = 1
  /\ \A i, j \in DOMAIN out : i < j => out[i].to <= out[j].from

\* The leading whitespace of the line that position k is on.
LineStart(k) == Max({0} \cup {j \in 1..(k - 1) : src[j] = "nl"}) + 1
Leading(k) == SubSeq(src, LineStart(k), SkipWhile(LineStart(k), Space \ {"nl"}) - 1)
LineStarts == {1} \cup {k \in 2..Len(src) : src[k - 1] = "nl"}

\* No line of the text is whitespace only.
NoBlankLine ==
  \A k \in LineStarts :
    LET j == SkipWhile(k, Space \ {"nl"}) IN j > k => j < End /\ src[j] # "nl"

\* The lines that are not empty, and the levels that are open behind the lines
\* before p: the leading whitespace of a line that every later one starts with.
Lines == {k \in LineStarts : k < End /\ src[k] # "nl"}
OpenLevels(p) ==
  {Leading(k) : k \in {k \in Lines : k < p /\ \A m \in Lines : k <= m /\ m < p =>
                                                   IsPrefix(Leading(k), Leading(m))}} \ {<<>>}

\* Every line deepens the open levels, stays on one, or goes back to one.
WellIndentedLines ==
  \A k \in Lines : \/ Leading(k) \in OpenLevels(k) \cup {<<>>}
                   \/ \A l \in OpenLevels(k) : IsStrictPrefix(l, Leading(k))
WellIndented == NoBlankLine /\ ToSet(src) \cap Quote = {} /\ WellIndentedLines

\* In a text whose lines only deepen, stay on or return to an open level, and
\* are not hidden in strings, the open levels spell the leading whitespace of the line being read.
LevelsSpellTheLine ==
  WellIndented /\ ~onNewLine /\ pos > 1 =>
    FlattenSeq([i \in DOMAIN indents |-> Text(indents[i])]) = Leading(pos)

\* The module loader stops as soon as nothing remains, whatever is queued; a
\* text that ends in a newline leaves it nothing to lose.
LoaderLosesNothing == pos = End /\ src # <<>> /\ Last(src) = "nl" => backlog = <<>>

\* Without the tokens whose width is not recorded, every location is the one
\* of the text: diagnostics point at the character they are about.
LocationsTrue ==
  NoBlankLine /\ ToSet(src) \cap (Digit \cup Bracket \cup Quote) = {} =>
    \A i \in DOMAIN out : out[i].kind \in {"ID", "OP", "COMMENT", "SPACE"} =>
      out[i].loc = [line |-> Cardinality({k \in 1..(out[i].from - 1) : src[k] = "nl"}),
                    col  |-> out[i].from - LineStart(out[i].from)]

\* Every source is lexed to its end or to an error: no call loops on the same
\* text for ever, so lexAll and the loader return.
LexingEnds == <>(status # "lexing")
=============================================================================
