------------------------------ MODULE StringUtils -------------------------------
(***************************************************************************)
(* The functions of StringUtils that pairs or bounds relate: splitting and *)
(* joining, padding and cutting, changes of case, escaping and undoing it, *)
(* and the distance of two strings.                                        *)
(*                                                                         *)
(* A string is a sequence of symbols.  Most stand for one character;       *)
(* "amp;" and "lt;" stand for the rest of an entity behind '&', and "26"   *)
(* and "20" for two hexadecimal digits.  Upper(c) is the capital of a      *)
(* letter.                                                                 *)
(***************************************************************************)
EXTENDS Naturals, Sequences, FiniteSets, SequencesExt, FiniteSetsExt

CONSTANTS Texts,         \* the symbols of the first string
          Marks,         \* and of the second, a delimiter, a pad or a suffix
          MaxText, MaxMark

VARIABLES text, mark
stringVars == <<text, mark>>

Letters  == {"a", "b"}
Capitals == {"A", "B"}
Spaces   == {" "}
Upper(c) == CASE c = "a" -> "A" [] c = "b" -> "B" [] OTHER -> c
Lower(c) == CASE c = "A" -> "a" [] c = "B" -> "b" [] OTHER -> c
Alphanumeric(c) == c \in Letters \cup Capitals

Flat(f(_), s) == FoldLeft(LAMBDA out, c : out \o f(c), <<>>, s)

-----------------------------------------------------------------------------
\* find(): where a string first occurs from a position on; 0 is npos.
Find(s, what, from) ==
    LET at == {i \in from .. Len(s) + 1 - Len(what) : SubSeq(s, i, i + Len(what) - 1) = what}
    IN  IF at = {} THEN 0 ELSE Min(at)

RECURSIVE SplitFrom(_, _, _)
SplitFrom(s, d, start) ==
    LET end == Find(s, d, start)
    IN  IF end = 0 THEN <<SubSeq(s, start, Len(s))>>
        ELSE <<SubSeq(s, start, end - 1)>> \o SplitFrom(s, d, end + Len(d))

\* split(), without a bound; it does not end for an empty delimiter.
Split(s, d) == IF s = <<>> THEN <<>> ELSE SplitFrom(s, d, 1)

Join(strings, d) ==
    IF strings = <<>> THEN <<>>
    ELSE FoldLeft(LAMBDA out, s : out \o d \o s, Head(strings), Tail(strings))

\* replace(): occurrences from the left, not those that arise.
RECURSIVE Replace(_, _, _)
Replace(s, from, to) ==
    LET at == IF from = <<>> THEN 0 ELSE Find(s, from, 1)
    IN  IF at = 0 THEN s
        ELSE SubSeq(s, 1, at - 1) \o to \o Replace(SubSeq(s, at + Len(from), Len(s)), from, to)

TrimLeft(s) ==
    LET others == {i \in DOMAIN s : s[i] \notin Spaces}
    IN  IF others = {} THEN <<>> ELSE SubSeq(s, Min(others), Len(s))
TrimRight(s) ==
    LET others == {i \in DOMAIN s : s[i] \notin Spaces}
    IN  IF others = {} THEN <<>> ELSE SubSeq(s, 1, Max(others))
Trim(s) == TrimLeft(TrimRight(s))

StartsWith(s, p) == Len(p) <= Len(s) /\ SubSeq(s, 1, Len(p)) = p
EndsWith(s, p)   == Len(p) <= Len(s) /\ SubSeq(s, Len(s) - Len(p) + 1, Len(s)) = p
Includes(s, p)   == p = <<>> \/ Find(s, p, 1) # 0

PadLeft(s, n, c)  == IF Len(s) >= n THEN s ELSE [i \in 1 .. n - Len(s) |-> c] \o s
PadRight(s, n, c) == IF Len(s) >= n THEN s ELSE s \o [i \in 1 .. n - Len(s) |-> c]

\* truncate(): with a suffix longer than the length the difference wraps around and
\* nothing is cut.
Truncate(s, n, suffix) ==
    IF Len(s) <= n THEN s
    ELSE IF Len(suffix) > n THEN s \o suffix ELSE SubSeq(s, 1, n - Len(suffix)) \o suffix

-----------------------------------------------------------------------------
(* Case                                                                    *)

ToLower(s) == [i \in DOMAIN s |-> Lower(s[i])]
ToUpper(s) == [i \in DOMAIN s |-> Upper(s[i])]

\* The first letter of each word.
ToTitleCase(s) ==
    LET lower == ToLower(s)
        First(i) == /\ lower[i] \in Letters
                    /\ \A j \in 1 .. i - 1 : lower[j] \in Letters =>
                           \E l \in j + 1 .. i - 1 : lower[l] \in Spaces
    IN  [i \in DOMAIN s |-> IF First(i) THEN Upper(lower[i]) ELSE lower[i]]

ToCamelCase(s) ==
    LET Step(acc, c) ==
            IF ~ Alphanumeric(c) THEN [acc EXCEPT !.capitalize = TRUE]
            ELSE IF acc.capitalize
                 THEN [out |-> Append(acc.out, Upper(c)), capitalize |-> FALSE]
                 ELSE [acc EXCEPT !.out = Append(acc.out, Lower(c))]
    IN  FoldLeft(Step, [out |-> <<>>, capitalize |-> FALSE], s).out

\* toSnakeCase() and toKebabCase(): a separator before each capital but the first
\* symbol, and one for each symbol that is no letter or digit.
Separated(s, with) ==
    LET Step(out, c) == CASE c \in Capitals -> out \o (IF out = <<>> THEN <<>> ELSE <<with>>)
                                                  \o <<Lower(c)>>
                          [] c \in Letters  -> Append(out, c)
                          [] OTHER          -> Append(out, with)
    IN  FoldLeft(Step, <<>>, s)
ToSnakeCase(s) == Separated(s, "_")
ToKebabCase(s) == Separated(s, "-")

-----------------------------------------------------------------------------
(* Escaping                                                                *)

\* Mutant of UrlEncode: a plus is left as it is.
UrlEncodeButPlus(s) ==
    LET Encode(c) == CASE c = "&" -> <<"%", "26">> [] c = " " -> <<"%", "20">>
                       [] c = "%" -> <<"%", "25">> [] c = "<" -> <<"%", "3C">>
                       [] OTHER   -> <<c>>
    IN  Flat(Encode, s)

UrlEncode(s) ==
    LET Encode(c) == CASE c = "&" -> <<"%", "26">> [] c = " " -> <<"%", "20">>
                       [] c = "+" -> <<"%", "2B">> [] c = "%" -> <<"%", "25">>
                       [] c = "<" -> <<"%", "3C">> [] OTHER   -> <<c>>
    IN  Flat(Encode, s)

\* urlDecode(): a '%' without two characters behind it stays; digits that are none
\* throw.
UrlDecode(s) ==
    LET Decoded(h) == CASE h = "26" -> "&" [] h = "20" -> " " [] h = "2B" -> "+"
                        [] h = "25" -> "%" [] h = "3C" -> "<"
        Step(acc, i) ==
            CASE acc.skip -> [acc EXCEPT !.skip = FALSE]
              [] ~ acc.skip /\ s[i] = "%" /\ i < Len(s) ->
                     [out |-> Append(acc.out, Decoded(s[i + 1])), skip |-> TRUE]
              [] ~ acc.skip /\ s[i] = "+" -> [acc EXCEPT !.out = Append(@, " ")]
              [] OTHER -> [acc EXCEPT !.out = Append(@, s[i])]
    IN  FoldLeft(Step, [out |-> <<>>, skip |-> FALSE], [i \in DOMAIN s |-> i]).out

\* escapeHtml(), for two of the five characters; the ampersand comes first ...
EscapeHtml(s) ==
    Replace(Replace(s, <<"&">>, <<"&", "amp;">>), <<"<">>, <<"&", "lt;">>)

\* ... and here it should come last: "&amp;lt;" becomes '<', escaped from "&lt;".
UnescapeHtml(s) ==
    Replace(Replace(s, <<"&", "amp;">>, <<"&">>), <<"&", "lt;">>, <<"<">>)

\* escapeJson(), for a quote, a backslash and a control character.
EscapeJson(s) ==
    LET Escape(c) == CASE c = "quote"     -> <<"backslash", "quote">>
                       [] c = "backslash" -> <<"backslash", "backslash">>
                       [] c = "control"   -> <<"backslash", "u", "0001">>
                       [] OTHER           -> <<c>>
    IN  Flat(Escape, s)

-----------------------------------------------------------------------------
\* levenshteinDistance() in one row: what an equal symbol costs is taken from the
\* insertion, and the replacement always costs one.
LevenshteinDistance(s, t) ==
    LET Cell(row, prev, i, j) ==
            LET cost == IF s[i] = t[j] THEN 0 ELSE 1
            IN  Min({row[j + 1] + 1, prev + 1, row[j] + cost})
        Step(i, acc, j) == [row  |-> [acc.row EXCEPT ![j + 1] = Cell(acc.row, acc.prev, i, j)],
                            prev |-> acc.row[j + 1]]
        Row(row, i) == FoldLeft(LAMBDA acc, j : Step(i, acc, j),
                                [row |-> [row EXCEPT ![1] = i], prev |-> row[1]],
                                [j \in 1 .. Len(t) |-> j]).row
        last == FoldLeft(Row, [j \in 1 .. Len(t) + 1 |-> j - 1], [i \in 1 .. Len(s) |-> i])
    IN  last[Len(t) + 1]

-----------------------------------------------------------------------------
Init == text = <<>> /\ mark = <<>>

Write(c)  == Len(text) < MaxText /\ text' = Append(text, c) /\ UNCHANGED mark
Choose(c) == Len(mark) < MaxMark /\ mark' = Append(mark, c) /\ UNCHANGED text

Next == \/ \E c \in Texts : Write(c)
        \/ \E c \in Marks : Choose(c)

-----------------------------------------------------------------------------
\* What one function does another undoes: pieces are joined, a replacement taken
\* back, an encoded text decoded.  Of an escaped text unescapeHtml() gives back not the
\* text but what it is with its own entities read, for the ampersand comes first.
UndoneAgree ==
    /\ mark # <<>> => Join(Split(text, mark), mark) = text
    /\ UrlDecode(UrlEncode(text)) = text
    /\ UnescapeHtml(EscapeHtml(text)) = Replace(text, <<"&", "lt;">>, <<"<">>)
    /\ Len(mark) = 1 /\ ~ Includes(text, mark) =>
           Replace(Replace(text, <<"a">>, mark), mark, <<"a">>) = text
    /\ text # mark /\ Len(text) = Len(mark) => EscapeJson(text) # EscapeJson(mark)

\* truncate() cuts to the length asked for, and makes a text longer when the suffix is
\* longer than that.
CutsAgree ==
    \A n \in 0 .. MaxText :
        LET cut == Truncate(text, n, mark)
        IN  IF Len(text) <= n THEN cut = text
            ELSE /\ EndsWith(cut, mark)
                 /\ Len(cut) = IF Len(mark) <= n THEN n ELSE Len(text) + Len(mark)
                 /\ StartsWith(text, SubSeq(cut, 1, Len(cut) - Len(mark)))

\* levenshteinDistance() charges every symbol of s, whatever it is matched with: each
\* symbol of t belongs to one of s, in their order, or to none (0), and costs if it
\* belongs to none, or is another symbol than its own and not the first to belong to
\* it.  The header promises the distance (StringUtils.h:239); two equal texts are at
\* that of their length, 1 for two of one symbol, and never at 0 but for empty ones.
DistanceOf(s, t) ==
    LET matches == {g \in [DOMAIN t -> 0 .. Len(s)] :
                        \A j \in DOMAIN t : j > 1 => g[j - 1] <= g[j]}
        Charged(g) == {j \in DOMAIN t :
                           \/ g[j] = 0
                           \/ j > 1 /\ g[j - 1] = g[j] /\ t[j] # s[g[j]]}
    IN  Len(s) + Min({Cardinality(Charged(g)) : g \in matches})
DistancesAgree ==
    /\ LevenshteinDistance(text, mark) = DistanceOf(text, mark)
    /\ LevenshteinDistance(mark, text) = DistanceOf(mark, text)
    /\ LevenshteinDistance(text, text) = Len(text)

\* A text that is put into a form has it, and is not changed by doing so again; the
\* lengths are those asked for.
FormsAgree ==
    /\ Trim(Trim(text)) = Trim(text) /\ ToSnakeCase(ToSnakeCase(text)) = ToSnakeCase(text)
    /\ ToTitleCase(ToTitleCase(text)) = ToTitleCase(text)
    /\ ToLower(ToTitleCase(text)) = ToLower(text)
    /\ ToLower(ToCamelCase(text)) = SelectSeq(ToLower(text), Alphanumeric)
    /\ ToKebabCase(text) = Replace(ToSnakeCase(text), <<"_">>, <<"-">>)
    /\ \A n \in 0 .. MaxText + 1 :
           /\ Len(PadLeft(text, n, " ")) = Max({n, Len(text)})
           /\ EndsWith(PadLeft(text, n, " "), text) /\ StartsWith(PadRight(text, n, " "), text)
=============================================================================
