----------------------------- MODULE DesignView -----------------------------
(***************************************************************************)
(* dmn::design::view: the design of a view under construction.             *)
(*                                                                         *)
(* Columns are configured in memory; save() gives each column the name of  *)
(* its item, writes that name into the formula of the column, merges the   *)
(* formulas into the selection formula, and sets three items of the note   *)
(* before it saves the note.  It changes columns and selection as it goes, *)
(* and any of its calls of the C API may fail: what was changed before     *)
(* stays changed.  Formulas belong to one thread, so that a design is used *)
(* by one thread and each call is one step.  Titles, fonts and colors are  *)
(* only copied and are left out.                                           *)
(***************************************************************************)
EXTENDS Naturals, Sequences, FiniteSets

CONSTANTS
    Codes,        \* compiled code of formulas
    DocNumber,    \* the code of a new column
    CallerNames,  \* arguments of set_item_name(): "$1" may be among them, and the empty name
    Sortings,     \* arguments of set_sorting(): the order and categorized
    MaxColumns,   \* bound: columns of a design
    MaxCalls,     \* bound: calls
    NoCode, NoItem, NoDesign

\* Names of items are texts: the empty one, and "$1", "$2", ... from the sequence
\* number.  OwnName stands for a name that a caller has put into a formula himself.
NoName == <<>>
OwnName == <<"own", 0>>
Generated(k) == <<"$", k>>
ItemNames == {Generated(k) : k \in 1 .. MaxCalls * MaxColumns} \cup (CallerNames \ {NoName})

ASSUME DesignAssumption ==
    /\ DocNumber \in Codes /\ NoCode \notin Codes
    /\ OwnName \notin CallerNames
    /\ MaxColumns \in Nat /\ MaxCalls \in Nat
    /\ Sortings \subseteq {"none", "ascending", "descending"} \X BOOLEAN

VARIABLES
    columns,    \* columns_: the name of the item, the formula and the sort flags; and,
                \* as a history that the code does not keep, whether a caller chose the name
    sequence,   \* table_format_.sequence_number: the next generated name
    selection,  \* selection_: its summary items, and the code that is merged for an item
    items,      \* the items of the note in memory
    stored,     \* the design in the database
    result,     \* of the last call: "done", "refused" (runtime_error) or "failed"
    calls       \* number of calls

vars == <<columns, sequence, selection, items, stored, result, calls>>

NewColumn == [name |-> NoName, chosen |-> FALSE,
              formula |-> [code |-> DocNumber, item |-> NoName], flags |-> {}]
NewSelection == [summary |-> {}, value |-> [n \in ItemNames |-> NoCode]]

\* view::create()
Init ==
    /\ columns = <<>>
    /\ sequence = 1
    /\ selection = NewSelection
    /\ items = [format |-> NoItem, collation |-> NoItem, formula |-> NoItem]
    /\ stored = NoDesign
    /\ result = "done"
    /\ calls = 0

-----------------------------------------------------------------------------
\* Defect: a column that is only categorized is not sorted.
FlagsOfOrder(sort, categorized) ==
    {f \in {"sort", "descending", "categorize"} :
        \/ f = "sort" /\ sort # "none"
        \/ f = "descending" /\ sort = "descending"
        \/ f = "categorize" /\ categorized}

\* column::set_sorting()
Flags(sort, categorized) ==
    {f \in {"sort", "descending", "categorize"} :
        \/ f = "sort" /\ (sort # "none" \/ categorized)
        \/ f = "descending" /\ sort = "descending"
        \/ f = "categorize" /\ categorized}

\* build_collation(): a descriptor for each sorted column, in the order of columns.
Collation(cols) ==
    LET Sorted(col) == "sort" \in col.flags
        keys == SelectSeq(cols, Sorted)
    IN  [i \in DOMAIN keys |-> [name |-> keys[i].name,
                                order |-> "descending" \in keys[i].flags,
                                category |-> "categorize" \in keys[i].flags]]

-----------------------------------------------------------------------------
\* The first loop of build_view_format().
Unnamed(i) == {k \in 1 .. i : columns[k].name = NoName}

\* Defect: the number is only used up when the column could be finished.
SequenceBehind(i) == sequence + Cardinality(Unnamed(i - 1))

\* The sequence number when the loop has come to column i.
SequenceAt(i) == sequence + Cardinality(Unnamed(i))

NameOf(i) ==
    IF columns[i].name = NoName THEN Generated(sequence + Cardinality(Unnamed(i)) - 1)
    ELSE columns[i].name

\* The columns when those up to j have names and those up to i have formulas with
\* their names.
Named(i, j) ==
    [k \in DOMAIN columns |->
        [columns[k] EXCEPT !.name = IF k <= j THEN NameOf(k) ELSE @,
                           !.formula.item = IF k <= i THEN NameOf(k) ELSE @]]

\* add_item_name() refuses a formula that has the name of an item already.
Refused(i) == columns[i].formula.item # NoName

\* Defect: the last column is not merged.
MergedButLast(cols, i, j) ==
    [summary |-> selection.summary \cup {cols[k].name : k \in 1 .. j},
     value |-> [n \in ItemNames |->
        IF \E k \in 1 .. i - 1 : cols[k].name = n
          THEN cols[CHOOSE k \in 1 .. i - 1 : /\ cols[k].name = n
                       /\ \A l \in k + 1 .. i - 1 : cols[l].name # n].formula.code
          ELSE selection.value[n]]]

\* The selection when the items of the columns up to j are summaries, and the
\* formulas of those up to i are merged: the last one counts.
Merged(cols, i, j) ==
    [summary |-> selection.summary \cup {cols[k].name : k \in 1 .. j},
     value |-> [n \in ItemNames |->
        IF \E k \in 1 .. i : cols[k].name = n
          THEN cols[CHOOSE k \in 1 .. i : /\ cols[k].name = n
                       /\ \A l \in k + 1 .. i : cols[l].name # n].formula.code
          ELSE selection.value[n]]]

\* The items of the note when k of the three have been set.
Set(cols, sel, k) ==
    [format    |-> IF k >= 1 THEN cols ELSE items.format,
     collation |-> IF k >= 2 THEN Collation(cols) ELSE items.collation,
     formula   |-> IF k >= 3 THEN sel ELSE items.formula]

\* save() does not get past column i: the size of its formula cannot be read, before
\* it has a name (j = i - 1); or its formula refuses the name, or cannot be resized.
NamingStops(i) ==
    /\ \A k \in 1 .. i - 1 : ~Refused(k)
    /\ \E j \in {i - 1, i} :
          /\ columns' = Named(i - 1, j)
          /\ sequence' = SequenceAt(j)
          /\ result' = IF j = i /\ Refused(i) THEN "refused" ELSE "failed"
    /\ UNCHANGED <<selection, items, stored>>

AllNamed ==
    /\ \A i \in DOMAIN columns : ~Refused(i)
    /\ columns' = Named(Len(columns), Len(columns))
    /\ sequence' = SequenceAt(Len(columns))

\* It does not get past column i when it merges formulas: adding the summary of the
\* item fails, or merging the formula.  Behind the last column something else
\* fails before the note is changed.
MergingStops(i) ==
    /\ AllNamed
    /\ \E j \in {i - 1, i} : j <= Len(columns) /\ selection' = Merged(columns', i - 1, j)
    /\ result' = "failed"
    /\ UNCHANGED <<items, stored>>

\* k of the three items could be set, or all and the note could not be saved.
SettingStops(k) ==
    /\ AllNamed
    /\ selection' = Merged(columns', Len(columns), Len(columns))
    /\ items' = Set(columns', selection', k)
    /\ result' = "failed"
    /\ UNCHANGED stored

SaveSucceeds ==
    /\ AllNamed
    /\ selection' = Merged(columns', Len(columns), Len(columns))
    /\ items' = Set(columns', selection', 3)
    /\ stored' = items'
    /\ result' = "done"

\* view::save()
Save ==
    \/ \E i \in DOMAIN columns : NamingStops(i)
    \/ \E i \in 1 .. Len(columns) + 1 : MergingStops(i)
    \/ \E k \in 0 .. 3 : SettingStops(k)
    \/ SaveSucceeds

-----------------------------------------------------------------------------
\* view::column() with a new title.
AddColumn ==
    /\ Len(columns) < MaxColumns
    /\ columns' = Append(columns, NewColumn)
    /\ result' = "done"
    /\ UNCHANGED <<sequence, selection, items, stored>>

Configure(i, col) ==
    /\ columns' = [columns EXCEPT ![i] = col]
    /\ result' = "done"
    /\ UNCHANGED <<sequence, selection, items, stored>>

\* set_item_name(): a column with the empty name has none.
SetItemName(i, n) == Configure(i, [columns[i] EXCEPT !.name = n, !.chosen = (n # NoName)])

\* set_formula(): a new formula, in which the caller may have put a name.
SetFormula(i, code, item) ==
    Configure(i, [columns[i] EXCEPT !.formula = [code |-> code, item |-> item]])

SetSorting(i, sorting) ==
    Configure(i, [columns[i] EXCEPT !.flags = Flags(sorting[1], sorting[2])])

\* set_selection_formula(): nothing is merged into a new formula.
SetSelectionFormula ==
    /\ selection' = NewSelection
    /\ result' = "done"
    /\ UNCHANGED <<columns, sequence, items, stored>>

Edit ==
    \/ AddColumn
    \/ \E i \in DOMAIN columns :
          \/ \E n \in CallerNames : SetItemName(i, n)
          \/ \E c \in Codes, item \in {NoName, OwnName} : SetFormula(i, c, item)
          \/ \E s \in Sortings : SetSorting(i, s)
    \/ SetSelectionFormula

Next ==
    /\ calls < MaxCalls
    /\ calls' = calls + 1
    /\ Save \/ Edit

Spec == Init /\ [][Next]_vars

-----------------------------------------------------------------------------
Columns ==
    [name : ItemNames \cup {NoName}, chosen : BOOLEAN,
     formula : [code : Codes, item : ItemNames \cup {NoName, OwnName}],
     flags : {f \in SUBSET {"sort", "descending", "categorize"} : f = {} \/ "sort" \in f}]

Selections == [summary : SUBSET ItemNames, value : [ItemNames -> Codes \cup {NoCode}]]

TypeOK ==
    /\ columns \in Seq(Columns)
    /\ sequence \in 1 .. MaxCalls * MaxColumns + 1
    /\ selection \in Selections
    /\ DOMAIN items = {"format", "collation", "formula"}
    /\ items.format = NoItem \/ items.format \in Seq(Columns)
    /\ items.formula = NoItem \/ items.formula \in Selections
    /\ result \in {"done", "refused", "failed"}
    /\ calls \in 0 .. MaxCalls

\* The name of the column was generated.
FromSequence(col) == col.name # NoName /\ ~col.chosen

\* Names that were generated for two columns differ, however many saves have failed
\* between them, and whatever names callers have chosen or taken back.
GeneratedNamesDiffer ==
    \A i, j \in DOMAIN columns :
        FromSequence(columns[i]) /\ FromSequence(columns[j]) /\ columns[i].name = columns[j].name
        => i = j

DistinctNames(cols) == \A i, j \in DOMAIN cols : cols[i].name = cols[j].name => i = j

\* The items of a stored design belong together, whatever failed before it was
\* stored and whatever was changed in between: the collation has the items of the
\* sorted columns, the formula of each column computes the item of that column, and
\* the selection formula makes it a summary item with that formula's value.
StoredBelongsTogether ==
    stored # NoDesign =>
        /\ stored.collation = Collation(stored.format)
        /\ \A i \in DOMAIN stored.format :
              LET col == stored.format[i]
              IN  /\ col.formula.item = col.name
                  /\ col.name \in stored.formula.summary
                  /\ DistinctNames(stored.format) =>
                        stored.formula.value[col.name] = col.formula.code

\* save() throws a runtime_error only when a column formula is misconfigured, that
\* is, when the caller has put an item name into a formula.
OnlyMisconfiguredRefused ==
    [][result' = "refused" => \E i \in DOMAIN columns : columns[i].formula.item = OwnName]_vars
=============================================================================
