-------------------------------- MODULE Query --------------------------------
(***************************************************************************)
(* The query language of `kc get', `kc set --for' and the library: words,  *)
(* predicates, and what a predicate says of an item. Operators only.       *)
(*                                                                         *)
(* A text is a sequence of characters. A character is a string of length   *)
(* one; those that mean nothing to the language are any others. Texts      *)
(* stand here as `normalize' leaves them: without the folds of [c] and     *)
(* [d], which are the same for an item and for a query.                    *)
(***************************************************************************)
EXTENDS Reading

CONSTANTS
    ClassField,     \* the field that says an item's class
    Classes,        \* the names that `record_type' knows
    Canonical(_)    \* what a field's name stands for: a friendly name has a native one

Quotes == {"'", "\""}

------------------------------------------------------------------------------
(* Words: `tokenize' of a whole expression. *)

\* A variant for the runs: a backslash stands for itself between quotes.
LexedPlainQuotes(s, ch) ==
    LET Push == [s EXCEPT !.current = Append(@, ch), !.escaped = FALSE]
    IN  CASE s.escaped -> Push
          [] ~s.escaped /\ s.quote = ch -> [s EXCEPT !.quote = ""]
          [] ~s.escaped /\ s.quote \in Quotes \ {ch} -> Push
          [] ~s.escaped /\ s.quote = "" /\ ch \in Quotes -> [s EXCEPT !.quote = ch]
          [] ~s.escaped /\ s.quote = "" /\ ch = "\\" -> [s EXCEPT !.escaped = TRUE]
          [] ~s.escaped /\ s.quote = "" /\ ch = " " ->
                 IF s.current = <<>> THEN s
                 ELSE [s EXCEPT !.words = Append(@, s.current), !.current = <<>>]
          [] OTHER -> Push

Lexed(s, ch) ==
    LET Push == [s EXCEPT !.current = Append(@, ch), !.escaped = FALSE]
    IN  CASE s.escaped -> Push
          [] ~s.escaped /\ s.quote = ch -> [s EXCEPT !.quote = ""]
          [] ~s.escaped /\ s.quote \in {"", "\""} /\ ch = "\\" -> [s EXCEPT !.escaped = TRUE]
          [] ~s.escaped /\ s.quote = "" /\ ch \in Quotes -> [s EXCEPT !.quote = ch]
          [] ~s.escaped /\ s.quote = "" /\ ch = " " ->
                 IF s.current = <<>> THEN s
                 ELSE [s EXCEPT !.words = Append(@, s.current), !.current = <<>>]
          [] OTHER -> Push

Tokenize(text) ==
    LET start == [words |-> <<>>, current |-> <<>>, quote |-> "", escaped |-> FALSE]
        end == FoldLeft(Lexed, start, text)
        last == end.current \o (IF end.escaped THEN <<"\\">> ELSE <<>>)
    IN  IF end.quote # "" THEN Failed
        ELSE IF last = <<>> THEN end.words
        ELSE Append(end.words, last)

------------------------------------------------------------------------------
(* Predicates. *)

Orderings == {"<", "<=", ">", ">="}
Comparisons == Orderings \cup {"=", "!=", "like"}

\* `parse_field': the modifiers stand in the last bracket, which must end the field.
ParseField(text) ==
    IF Positions(text, "[") = {} THEN [field |-> text, fold |-> {}]
    ELSE LET open == Latest(Positions(text, "["))
             modifiers == SubSeq(text, open + 1, Len(text) - 1)
         IN  IF text[Len(text)] # "]" \/ ~(ToSet(modifiers) \subseteq {"c", "d"})
             THEN Failed
             ELSE [field |-> SubSeq(text, 1, open - 1), fold |-> ToSet(modifiers)]

Unescaped(text) ==
    LET Step(s, ch) == [at |-> s.at + 1,
                        escaped |-> ~s.escaped /\ ch = "\\",
                        free |-> IF s.escaped THEN s.free ELSE s.free \cup {s.at}]
    IN  FoldLeft(Step, [at |-> 1, escaped |-> FALSE, free |-> {}], text).free

\* `has_wildcards'
HasWildcards(text) == \E i \in Unescaped(text) : text[i] \in {"%", "_"}

Operators == << <<">", "=">>, <<"<", "=">>, <<"!", "=">>, <<">">>, <<"<">>, <<"=">> >>
Named == <<">=", "<=", "!=", ">", "<", "=">>

\* `parse_comparison': the first operator in the table's order; without one, a wildcard
\* decides.
ParseComparison(text) ==
    LET hits == SelectSeq(<<1, 2, 3, 4, 5, 6>>, LAMBDA i : IsPrefix(Operators[i], text))
    IN  IF hits # <<>>
        THEN [comparison |-> Named[hits[1]],
              value |-> SubSeq(text, Len(Operators[hits[1]]) + 1, Len(text))]
        ELSE [comparison |-> IF HasWildcards(text) THEN "like" ELSE "=", value |-> text]

\* `Predicate::parse'
ParsePredicate(text) ==
    IF Positions(text, ":") = {} THEN Failed
    ELSE LET colon == Earliest(Positions(text, ":"))
             left == ParseField(SubSeq(text, 1, colon - 1))
             right == ParseComparison(SubSeq(text, colon + 1, Len(text)))
         IN  IF \/ left = Failed
                \/ left.field = <<>>
                \/ left.fold # {} /\ right.comparison \in Orderings
                \/ /\ Canonical(left.field) = ClassField
                   /\ right.comparison = "=" /\ left.fold = {}
                   /\ right.value \notin Classes
             THEN Failed
             ELSE [field |-> Canonical(left.field), fold |-> left.fold,
                   comparison |-> right.comparison, value |-> right.value]

\* `Expression::parse': every word must be a predicate.
ParseExpression(text) ==
    LET words == Tokenize(text)
        predicates == [i \in DOMAIN words |-> ParsePredicate(words[i])]
    IN  IF words = Failed \/ Failed \in ToSet(predicates) THEN Failed ELSE predicates

------------------------------------------------------------------------------
(* LIKE. *)

\* `like_tokens': what each character of the pattern asks for. A lone backslash at the
\* end stands for itself.
LikeTokens(pattern) ==
    LET Step(s, ch) ==
            CASE s.escaped ->
                     [tokens |-> Append(s.tokens, <<"literal", ch>>), escaped |-> FALSE]
              [] ~s.escaped /\ ch = "\\" -> [s EXCEPT !.escaped = TRUE]
              [] ~s.escaped /\ ch = "%" -> [s EXCEPT !.tokens = Append(@, <<"many">>)]
              [] ~s.escaped /\ ch = "_" -> [s EXCEPT !.tokens = Append(@, <<"one">>)]
              [] OTHER -> [s EXCEPT !.tokens = Append(@, <<"literal", ch>>)]
        end == FoldLeft(Step, [tokens |-> <<>>, escaped |-> FALSE], pattern)
    IN  end.tokens \o (IF end.escaped THEN <<<<"literal", "\\">>>> ELSE <<>>)

\* A variant for the runs: a run of any length has at least one character.
LikeRowNonempty(text, previous, token) ==
    CASE token = <<"many">> -> {i \in 1..Len(text) : \E j \in previous : j < i}
      [] token = <<"one">> -> {i + 1 : i \in previous \ {Len(text)}}
      [] OTHER -> {i + 1 : i \in {j \in previous \ {Len(text)} :
                                      text[j + 1] = token[2]}}

\* One row of the table in `like': how many characters of the text the pattern can have
\* used up after one more token.
LikeRow(text, previous, token) ==
    CASE token = <<"many">> -> {i \in 0..Len(text) : \E j \in previous : j <= i}
      [] token = <<"one">> -> {i + 1 : i \in previous \ {Len(text)}}
      [] OTHER -> {i + 1 : i \in {j \in previous \ {Len(text)} :
                                      text[j + 1] = token[2]}}

Like(text, pattern) ==
    Len(text) \in FoldLeft(LAMBDA row, token : LikeRow(text, row, token), {0},
                           LikeTokens(pattern))

------------------------------------------------------------------------------
(* What a predicate says of an item: "yes", "no", or an error. An item is a function   *)
(* from the fields that it has to typed values; a text's `order' is its place among    *)
(* all texts.                                                                          *)

Says(truth) == IF truth THEN "yes" ELSE "no"

Ordered(actual, wanted, comparison) ==
    CASE comparison = "=" -> actual = wanted
      [] comparison = "!=" -> actual # wanted
      [] comparison = "<" -> actual < wanted
      [] comparison = "<=" -> actual <= wanted
      [] comparison = ">" -> actual > wanted
      [] comparison = ">=" -> actual >= wanted
      [] comparison = "like" -> FALSE

\* What a predicate says of a field that the item has. A value that does not read as the
\* field's type is an error, as is a stored date that does not read as one; wildcards go
\* with texts, and a Boolean has no order.
Compared(predicate, actual) ==
    LET wanted == predicate.value
        Order == Says(Ordered(actual.value, wanted.reads, predicate.comparison))
    IN  CASE actual.type = "garbled date" -> Failed
          [] actual.type = "text" ->
                 IF predicate.comparison = "like" THEN Says(wanted.like) ELSE Order
          [] actual.type \in {"date", "number"} ->
                 IF predicate.comparison = "like" \/ actual.type \notin wanted.types
                 THEN Failed ELSE Order
          [] actual.type = "boolean" ->
                 IF predicate.comparison \notin {"=", "!="} \/ "boolean" \notin wanted.types
                 THEN Failed ELSE Order

\* A variant for the runs: an item without the field is unlike any value.
MatchesAbsent(predicate, item) ==
    IF predicate.field \in DOMAIN item THEN Compared(predicate, item[predicate.field])
    ELSE Says(predicate.comparison = "!=")

\* `Predicate::matches'
Matches(predicate, item) ==
    IF predicate.field \in DOMAIN item THEN Compared(predicate, item[predicate.field])
    ELSE "no"

\* `Expression::matches': the first predicate that fails or says no decides.
MatchesAll(predicates, item) ==
    FoldLeft(LAMBDA answer, predicate :
                 IF answer # "yes" THEN answer ELSE Matches(predicate, item),
             "yes", predicates)

------------------------------------------------------------------------------
(* What the language promises. *)

\* A word as a user quotes it for an expression, so that it stays one word.
Quoted(word, quote) ==
    LET Escaped == FoldLeft(LAMBDA text, ch :
                                text \o (IF ch \in {"\"", "\\"} THEN <<"\\", ch>> ELSE <<ch>>),
                            <<>>, word)
    IN  <<quote>> \o (IF quote = "'" THEN word ELSE Escaped) \o <<quote>>

\* Words that are quoted come back as they were, whatever stands in them.
QuotedWordsReturn(words, quote) ==
    LET text == FoldLeft(LAMBDA t, word : t \o Quoted(word, quote) \o <<" ">>, <<>>, words)
    IN  Tokenize(text) = words

\* A predicate as a user spells it, with the operator written out.
Spelled(p) ==
    p.field
      \o (IF p.fold = {} THEN <<>> ELSE <<"[">> \o SetToSeq(p.fold) \o <<"]">>)
      \o <<":">>
      \o (IF p.comparison = "like" THEN <<>>
          ELSE Operators[CHOOSE i \in DOMAIN Named : Named[i] = p.comparison])
      \o p.value

\* What a user can spell: no folds on an ordering, no value that would lengthen the
\* operator, a LIKE that has a wildcard and no operator in front.
Spellable(p) ==
    /\ p.fold # {} => p.comparison \notin Orderings
    /\ p.comparison \in {"<", ">"} => ~IsPrefix(<<"=">>, p.value)
    /\ p.comparison = "like" =>
           HasWildcards(p.value) /\ \A i \in DOMAIN Operators : ~IsPrefix(Operators[i], p.value)

\* It names a class, and none that there is.
UnknownClass(p) ==
    /\ Canonical(p.field) = ClassField
    /\ p.comparison = "=" /\ p.fold = {}
    /\ p.value \notin Classes

SpelledPredicateReturns(p) ==
    Spellable(p) => ParsePredicate(Spelled(p)) =
        IF UnknownClass(p) THEN Failed ELSE [p EXCEPT !.field = Canonical(@)]

\* The reference for LIKE: the text splits into one piece for each token.
Fits(piece, token) ==
    token = <<"many">> \/ (Len(piece) = 1 /\ (token # <<"one">> => piece[1] = token[2]))

LikeReference(text, pattern) ==
    LET tokens == LikeTokens(pattern)
    IN  \E cuts \in [0..Len(tokens) -> 0..Len(text)] :
            /\ cuts[0] = 0
            /\ cuts[Len(tokens)] = Len(text)
            /\ \A i \in DOMAIN tokens :
                   /\ cuts[i - 1] <= cuts[i]
                   /\ Fits(SubSeq(text, cuts[i - 1] + 1, cuts[i]), tokens[i])

\* An expression says yes to just the items that every predicate says yes to; a field
\* that an item lacks answers neither a predicate nor its opposite, one that it has
\* answers exactly one; and turning the predicates round changes no answer.
Opposite == [c \in Comparisons \ {"like"} |->
    CASE c = "=" -> "!=" [] c = "!=" -> "=" [] c = "<" -> ">=" [] c = ">=" -> "<"
      [] c = ">" -> "<=" [] c = "<=" -> ">"]

AnswersAgree(predicates, item) ==
    LET answer == MatchesAll(predicates, item)
        turned == MatchesAll(Reverse(predicates), item)
    IN  /\ answer = "yes" <=> \A i \in DOMAIN predicates : Matches(predicates[i], item) = "yes"
        /\ Failed \notin {answer, turned} => answer = turned
        /\ \A i \in DOMAIN predicates :
               LET p == predicates[i]
                   says == {Matches(p, item),
                            Matches([p EXCEPT !.comparison = Opposite[@]], item)}
               IN  p.comparison # "like" =>
                       CASE p.field \notin DOMAIN item -> says = {"no"}
                         [] Failed \in says -> says = {Failed}
                         [] OTHER -> says = {"yes", "no"}
=============================================================================
