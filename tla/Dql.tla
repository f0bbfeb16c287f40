--------------------------------- MODULE Dql ---------------------------------
(***************************************************************************)
(* dmn::dql (src/dql.cpp): expressions are built by factory functions and  *)
(* rendered as a text of the Domino Query Language.  The text is modelled  *)
(* as a sequence of words; a word of a string value may look like any word *)
(* of the language.  How Domino reads the text is the reference: "not"     *)
(* binds tighter than "and", and "and" tighter than "or".                  *)
(*                                                                         *)
(* An expression is a tree that never changes once it is built.  What a    *)
(* caller can tell of it is its mode, the text that render() makes of it   *)
(* and what it was built to mean, so that is what an expression is here:   *)
(* render() is applied to a node whose children have been rendered.        *)
(***************************************************************************)
EXTENDS Naturals, SequencesExt

CONSTANTS
    Fields,    \* valid field identifiers, words of the language among them
    Relations, \* "=" and others of "<", "<=", ">", ">="
    Texts,     \* string values, sequences of words
    Words,     \* numbers and booleans, as words
    SixDecimals,  \* SixDecimals[w]: w rounded, if it is a double, to six decimals
    Documents, \* the documents of the database, each the set of the atoms that hold of it
    MaxTerms,  \* bound: the terms that a program builds
    MaxJoins   \* bound: the groups that it makes of them

\* The words that the language and its strings give a meaning.
Language == {"'", "(", ")", "not", "and", "or", "contains", "@dt"}
Escapes == {"\\n", "\\r", "\\t"}

Word == Fields \cup Relations \cup Words \cup Language \cup Escapes
        \cup UNION {{t[i] : i \in DOMAIN t} : t \in Texts}

\* A string value may hold any words, those that an escape writes among them, and a
\* field may be called like a word of the language.
ASSUME DqlAssumption ==
    /\ MaxTerms \in Nat /\ MaxJoins \in Nat
    /\ "=" \in Relations
    /\ Relations \cap Language = {} /\ Words \cap Language = {}
    /\ SixDecimals \in [Words -> Words]
    /\ \A t \in Texts : t \in Seq(Word)

VARIABLES
    terms,  \* the expressions the program has, in the order it built them
    built,  \* how many terms were built
    joined  \* how many groups were made

vars == <<terms, built, joined>>

-----------------------------------------------------------------------------
(* The values and the atomic terms.                                        *)

Strings == [kind : {"string"}, data : Texts]
Values == Strings \cup [kind : {"plain"}, data : {<<w>> : w \in Words}]
          \cup [kind : {"datetime"}, data : Texts \ {<<>>}]

Atoms == (Fields \X Relations \X Values) \cup (Fields \X {"contains"} \X Strings)

\* The documents that a node selects, by the names of the factories.
Selects(node) ==
    CASE node.mode \in {"comparison", "contains"} ->
            {doc \in Documents : <<node.field, node.op, node.value>> \in doc}
      [] node.mode = "logical_not" -> Documents \ node.children[1].selects
      [] node.mode = "logical_and" ->
            {doc \in Documents : \A i \in DOMAIN node.children : doc \in node.children[i].selects}
      [] node.mode = "logical_or" ->
            {doc \in Documents : \E i \in DOMAIN node.children : doc \in node.children[i].selects}

\* The text can write the value: no word of a string is already an escape, a double has
\* six decimals at most.
Writable(value) ==
    IF value.kind = "plain" THEN SixDecimals[value.data[1]] = value.data[1]
    ELSE \A i \in DOMAIN value.data : value.data[i] \notin Escapes

\* Every term of the node can be written: its value, and a field that is no word of the
\* language.
Exact(node) ==
    IF node.mode \in {"comparison", "contains"}
    THEN node.field \notin Language /\ Writable(node.value)
    ELSE \A i \in DOMAIN node.children : node.children[i].exact

-----------------------------------------------------------------------------
(* render().                                                               *)

Escape == [w \in {"'", "\n", "\r", "\t"} |->
              CASE w = "'" -> <<"'", "'">> [] w = "\n" -> <<"\\n">>
                [] w = "\r" -> <<"\\r">> [] w = "\t" -> <<"\\t">>]

Escaped(w) == IF w \in DOMAIN Escape THEN Escape[w] ELSE <<w>>

quote(text) == <<"'">> \o FlattenSeq([i \in DOMAIN text |-> Escaped(text[i])]) \o <<"'">>

\* to_string() rounds; the zeros that are taken off the end do not count.
render_double(number) == SixDecimals[number]

render_value(value) ==
    CASE value.kind = "string" -> quote(value.data)
      [] value.kind = "plain" -> <<render_double(value.data[1])>>
      [] value.kind = "datetime" -> <<"@dt", "(">> \o quote(value.data) \o <<")">>

\* Defect: only "and" is put into parentheses.
NeedsParensAnd(child) == child.mode = "logical_and"

needs_parens(child) == child.mode \in {"logical_and", "logical_or"}

Joinable(child) == IF needs_parens(child) THEN <<"(">> \o child.text \o <<")">> ELSE child.text

\* The children with the word op between them.
render_joined(children, op) ==
    FlattenSeq([i \in DOMAIN children |->
        IF i = 1 THEN Joinable(children[i]) ELSE <<op>> \o Joinable(children[i])])

render(node) ==
    CASE node.mode = "comparison" -> <<node.field, node.op>> \o render_value(node.value)
      [] node.mode = "contains" ->
            <<node.field, "contains", "(">> \o render_value(node.value) \o <<")">>
      [] node.mode = "logical_and" -> render_joined(node.children, "and")
      [] node.mode = "logical_or" -> render_joined(node.children, "or")
      [] node.mode = "logical_not" -> <<"not">> \o node.children[1].text

expression(node) ==
    [mode |-> node.mode, text |-> render(node), selects |-> Selects(node), exact |-> Exact(node)]

-----------------------------------------------------------------------------
(* Factories.                                                              *)

comparison(field, op, value) ==
    expression([mode |-> "comparison", field |-> field, op |-> op, value |-> value])

eq(field, value) == comparison(field, "=", value)

ne(field, value) == expression([mode |-> "logical_not", children |-> <<eq(field, value)>>])

contains(field, text) ==
    expression([mode |-> "contains", field |-> field, op |-> "contains",
                value |-> [kind |-> "string", data |-> text]])

all(expressions) == expression([mode |-> "logical_and", children |-> expressions])
any(expressions) == expression([mode |-> "logical_or", children |-> expressions])

-----------------------------------------------------------------------------
(* How Domino reads a query text.                                          *)

Quotes(text, i) == Cardinality({j \in 1 .. i : text[j] = "'"})
Outside(text, i) == text[i] # "'" /\ Quotes(text, i) % 2 = 0

Count(text, i, p) == Cardinality({j \in 1 .. i : Outside(text, j) /\ text[j] = p})

\* The places of the word w outside of strings and of parentheses.
At(text, w) ==
    {i \in DOMAIN text : /\ text[i] = w /\ Outside(text, i)
                         /\ Count(text, i, "(") = Count(text, i, ")")}

\* The text that a string stands for, when shorter gives that of the shorter ones.
Unquoting(shorter, s) ==
    IF s = <<>> THEN <<>>
    ELSE IF Len(s) > 1 /\ s[1] = "'" /\ s[2] = "'" THEN <<"'">> \o shorter[Tail(Tail(s))]
    ELSE <<CASE s[1] = "\\n" -> "\n" [] s[1] = "\\r" -> "\r" [] s[1] = "\\t" -> "\t"
             [] OTHER -> s[1]>> \o shorter[Tail(s)]

\* The text of a string of n words at most.
unquoted[n \in Nat] ==
    [s \in Seq(Word) |-> IF n = 0 THEN <<>> ELSE Unquoting(unquoted[n - 1], s)]

Inner(s) == SubSeq(s, 2, Len(s) - 1)
Quoted(s) == [kind |-> "string", data |-> unquoted[Len(s)][Inner(s)]]

ReadValue(s) ==
    IF s[1] = "'" THEN Quoted(s)
    ELSE IF s[1] = "@dt" THEN [Quoted(Inner(Tail(s))) EXCEPT !.kind = "datetime"]
    ELSE [kind |-> "plain", data |-> s]

ReadTerm(s) ==
    LET rest == SubSeq(s, 3, Len(s))
    IN  IF s[2] = "contains" THEN <<s[1], "contains", ReadValue(Inner(rest))>>
        ELSE <<s[1], s[2], ReadValue(rest)>>

\* The documents that a text selects, when shorter gives those of the shorter ones.
Reading(shorter, text) ==
    LET Before(w) == shorter[SubSeq(text, 1, Max(At(text, w)) - 1)]
        After(w) == shorter[SubSeq(text, Max(At(text, w)) + 1, Len(text))]
    IN  IF text = <<>> THEN {}
        ELSE IF At(text, "or") # {} THEN Before("or") \cup After("or")
        ELSE IF At(text, "and") # {} THEN Before("and") \cap After("and")
        ELSE IF text[1] = "not" THEN Documents \ shorter[Tail(text)]
        ELSE IF text[1] = "(" THEN shorter[Inner(text)]
        ELSE {doc \in Documents : ReadTerm(text) \in doc}

\* The documents that a text of n words at most selects.
reads[n \in Nat] ==
    [text \in Seq(Word) |-> IF n = 0 THEN {} ELSE Reading(reads[n - 1], text)]

Read(text) == reads[Len(text)][text]

-----------------------------------------------------------------------------
Init == terms = <<>> /\ built = 0 /\ joined = 0

Build(term) ==
    /\ built < MaxTerms /\ built' = built + 1
    /\ terms' = Append(terms, term)
    /\ UNCHANGED joined

\* eq(), lt(), lte(), gt(), gte().
Compare == \E f \in Fields, op \in Relations, v \in Values : Build(comparison(f, op, v))

Differ == \E f \in Fields, v \in Values : Build(ne(f, v))

\* contains(): throws for an empty text.
Contain == \E f \in Fields, t \in Texts \ {<<>>} : Build(contains(f, t))

\* all() and any() of the last n terms; they throw for no term.
Join(n) ==
    /\ joined < MaxJoins /\ joined' = joined + 1
    /\ n \in 1 .. Len(terms)
    /\ LET rest == SubSeq(terms, 1, Len(terms) - n)
           last == SubSeq(terms, Len(terms) - n + 1, Len(terms))
       IN  terms' \in {Append(rest, all(last)), Append(rest, any(last))}
    /\ UNCHANGED built

Next == Compare \/ Differ \/ Contain \/ \E n \in 1 .. MaxTerms : Join(n)

Spec == Init /\ [][Next]_vars

-----------------------------------------------------------------------------
\* Domino reads the rendered text of an expression as what its factories were asked
\* for, however the terms are nested: no parenthesis and no quote is missing, and no word
\* of a string is taken for one of the language.  This is said of the terms that can be
\* written: quote() lets a backslash pass, is_valid_identifier() a word of the language,
\* and render_double() rounds, so that one text stands for several values.  A group with
\* such a term is left out.
MeaningKept == \A i \in DOMAIN terms : terms[i].exact => Read(terms[i].text) = terms[i].selects
=============================================================================
