-------------------------------- MODULE Query --------------------------------
(***************************************************************************)
(* What a list endpoint makes of its input: the filter tags                *)
(* (filter/filter.go), the sort a client asks for (order/order.go), pages  *)
(* by number (pagination/pagination.go) and pages by cursor                *)
(* (orm/cursor.go). A client reads a list page by page while rows come and *)
(* go; the endpoint is the one of the examples: filters, then the sort,    *)
(* then the page, or the filters and SelectCursorPage.                     *)
(*                                                                         *)
(* The database answers a query with the rows that match in an order that  *)
(* agrees with ORDER BY; rows that are equal under it come in any order.   *)
(* A row is a record of numbers, and of the words a text column contains.  *)
(***************************************************************************)
EXTENDS Integers, FiniteSets, SequencesExt

CONSTANTS
  TableRows,     \* the rows there can be
  Filters,       \* filter inputs: sequences of fields
  Sorts,         \* what clients ask as sort: sequences of [prefix, name]
  SortAliases,   \* the allowlist: alias -> column
  PageSizes,     \* what clients ask as size
  PageNumbers,   \* and as page
  DefaultSize, MaxSize, MaxInt,   \* 20, 100 and 2^63 - 1 in the code
  MaxChanges     \* bound on the rows that come and go while a client reads

ASSUME TableAssumption ==
  IsFiniteSet(TableRows) /\ Cardinality(TableRows) <= MaxInt /\ \A row \in TableRows : row.rank \in Int
ASSUME PagingAssumption ==
  /\ PageSizes \subseteq Int /\ PageNumbers \subseteq Int
  /\ {DefaultSize, MaxSize} \subseteq Nat \ {0} /\ MaxInt \in Nat /\ MaxChanges \in Nat

VARIABLES
  rows,      \* the table
  listing,   \* the client's reading: [how, filter, sort, desc, size, first, page,
             \* cursor, at, got, pages]
  stayed,    \* history: the rows that were there from its first page on
  changes    \* how often the table changed meanwhile

queryVars == <<rows, listing, stayed, changes>>

NoCursor == 0   \* the empty cursor; a row whose cursor column holds 0 encodes to it

-----------------------------------------------------------------------------
(* Filters. A field: [columns, op, kind, value], of the kinds number, text,*)
(* list, pointer (to a number) and nil; or an embedded struct:             *)
(* [kind |-> "embedded", inner |-> fields].                                *)

Operators == {"eq", "ne", "gt", "ge", "lt", "le", "like", "in"}
ColumnNames == {"id", "rank", "words"}   \* the safe names among those the tags use

\* parseInto goes through embedded structs where they stand.
FlatFields(fields) ==
  FlattenSeq([i \in DOMAIN fields |->
    IF fields[i].kind = "embedded" THEN fields[i].inner ELSE <<fields[i]>>])

\* isEmptyValue of what is no pointer.
Zero(kind, value) ==
  CASE kind = "number" -> value = 0 [] kind = "text" -> value = {} [] kind = "list" -> value = <<>>

\* isEmptyValue: nil, zero, no text and an empty list; what a pointer points to may be zero.
EmptyValue(field) ==
  field.kind = "nil" \/ (field.kind # "pointer" /\ Zero(field.kind, field.value))

\* parseTag, and what buildExpression refuses: only the tags of fields with a value
\* are looked at.
BadClause(field) ==
  \/ \E i \in DOMAIN field.columns : field.columns[i] \notin ColumnNames
  \/ field.op \notin Operators
  \/ field.op = "like" /\ field.kind # "text"

\* buildExpression, as the database evaluates it.
ColumnMatches(row, column, field) ==
  LET cell == row[column] value == field.value
  IN CASE field.op = "eq" -> cell = value
       [] field.op = "ne" -> cell # value
       [] field.op = "gt" -> cell > value
       [] field.op = "ge" -> cell >= value
       [] field.op = "lt" -> cell < value
       [] field.op = "le" -> cell <= value
       [] field.op = "like" -> value \subseteq cell
       [] field.op = "in" -> cell \in ToSet(value)

\* applyDBClause: one of the columns of the tag matches.
ClauseMatches(row, field) ==
  \E i \in DOMAIN field.columns : ColumnMatches(row, field.columns[i], field)

\* Parse and ApplyDB: an error, or the rows every clause lets through.
ClausePlaces(fields) == {i \in DOMAIN FlatFields(fields) : ~EmptyValue(FlatFields(fields)[i])}
BadFilter(fields) == \E i \in ClausePlaces(fields) : BadClause(FlatFields(fields)[i])
Filtered(table, fields) ==
  {row \in table : \A i \in ClausePlaces(fields) : ClauseMatches(row, FlatFields(fields)[i])}

-----------------------------------------------------------------------------
(* Order.                                                                  *)

\* ParseSort: entries without a name are skipped, "-" is descending.
ParsedSort(sort) ==
  LET named == SelectSeq(sort, LAMBDA entry : entry.name # "")
  IN [i \in DOMAIN named |-> [name |-> named[i].name, desc |-> named[i].prefix = "-"]]

\* ResolveSort (and resolveTaggedOrder): every alias must be on the list.
UnknownSort(sort) ==
  \E i \in DOMAIN ParsedSort(sort) : ParsedSort(sort)[i].name \notin DOMAIN SortAliases
ResolvedSort(sort) ==
  [i \in DOMAIN ParsedSort(sort) |->
     [column |-> SortAliases[ParsedSort(sort)[i].name], desc |-> ParsedSort(sort)[i].desc]]

\* ORDER BY the columns in the order they were asked for (applyFieldsDB).
ComesBefore(order, a, b) ==
  \E i \in DOMAIN order :
    /\ \A j \in 1..(i - 1) : a[order[j].column] = b[order[j].column]
    /\ IF order[i].desc THEN a[order[i].column] > b[order[i].column]
       ELSE a[order[i].column] < b[order[i].column]

\* Every order the database may answer in.
AnswerOrders(found, order) ==
  {list \in SetToSeqs(found) :
     \A i, j \in DOMAIN list : i < j => ~ComesBefore(order, list[j], list[i])}

-----------------------------------------------------------------------------
(* Pages.                                                                  *)

\* GetPage, GetSize, Limit.
EffectivePage(page) == IF page < 1 THEN 1 ELSE page
EffectiveSize(size) == IF size < 1 THEN DefaultSize ELSE IF size > MaxSize THEN MaxSize ELSE size

\* Offset: saturates instead of overflowing.
Offset(page, size) ==
  IF EffectivePage(page) <= 1 THEN 0
  ELSE IF EffectivePage(page) - 1 > MaxInt \div EffectiveSize(size) THEN MaxInt
  ELSE (EffectivePage(page) - 1) * EffectiveSize(size)

Window(list, from, size) == SubSeq(list, from + 1, IF from + size < Len(list) THEN from + size ELSE Len(list))

\* NewPage: the number of pages, total / size rounded up.
PagesOf(total, size) == (total + EffectiveSize(size) - 1) \div EffectiveSize(size)

-----------------------------------------------------------------------------

QueryTypeOK ==
  /\ rows \subseteq TableRows /\ stayed \subseteq TableRows
  /\ listing.at \in {"idle", "asked", "more", "done", "refused", "failed"}
  /\ listing.got \in Seq(TableRows)
  /\ changes \in 0..MaxChanges

Reading == [how |-> "", filter |-> <<>>, sort |-> <<>>, desc |-> FALSE, size |-> 0, page |-> 1, first |-> 1,
            cursor |-> NoCursor, at |-> "idle", got |-> <<>>, pages |-> 0]

QueryInit ==
  /\ rows \in SUBSET TableRows
  /\ listing = Reading
  /\ stayed = {} /\ changes = 0

\* The rows of the first page decide which rows stay (Ask); a deletion takes one away.
Ask ==
  /\ listing.at = "idle"
  /\ \E filter \in Filters, size \in PageSizes :
       \/ \E sort \in Sorts, page \in PageNumbers :
            listing' = [Reading EXCEPT !.how = "pages", !.filter = filter, !.size = size,
                                       !.sort = sort, !.page = page,
                                       !.first = page, !.at = "asked"]
       \/ \E desc \in BOOLEAN :
            listing' = [Reading EXCEPT !.how = "cursor", !.filter = filter, !.size = size,
                                       !.desc = desc, !.at = "asked"]
  /\ stayed' = rows
  /\ UNCHANGED <<rows, changes>>

\* A cursor the decoder does not understand is answered with 400.
AskWithBrokenCursor ==
  /\ listing.at = "more" /\ listing.how = "cursor"
  /\ listing' = [listing EXCEPT !.at = "refused"]
  /\ UNCHANGED <<rows, stayed, changes>>

ChangeRows ==
  /\ listing.at \in {"asked", "more"} /\ changes < MaxChanges
  /\ changes' = changes + 1
  /\ \/ \E row \in TableRows \ rows : rows' = rows \cup {row} /\ stayed' = stayed
     \/ \E row \in rows : rows' = rows \ {row} /\ stayed' = stayed \ {row}
  /\ UNCHANGED listing

\* A page by number: Count, then Offset and Limit over the same rows.
AnswerPage ==
  /\ listing.at = "asked" /\ listing.how = "pages"
  /\ IF BadFilter(listing.filter) \/ UnknownSort(listing.sort)
     THEN listing' = [listing EXCEPT !.at = "refused"]
     ELSE LET found == Filtered(rows, listing.filter)
          IN \E list \in AnswerOrders(found, ResolvedSort(listing.sort)) :
               LET pages == PagesOf(Cardinality(found), listing.size)
               IN listing' = [listing EXCEPT
                    !.got = @ \o Window(list, Offset(listing.page, listing.size),
                                        EffectiveSize(listing.size)),
                    !.pages = pages,
                    !.at = IF EffectivePage(listing.page) < pages THEN "more" ELSE "done"]
  /\ UNCHANGED <<rows, stayed, changes>>

\* Plausible bug: the row fetched to see whether there is a next page becomes the cursor.
CursorOfExtraRow(list, size) == list[size + 1].rank

\* The cursor of the last row of a page.
NextCursor(list, size) == list[size].rank

\* SelectCursorPage: the rows beyond the cursor, one more than the page holds.
AnswerCursorPage ==
  /\ listing.at = "asked" /\ listing.how = "cursor"
  /\ LET size == EffectiveSize(listing.size)
         order == <<[column |-> "rank", desc |-> listing.desc]>>
         Beyond(row) ==
           \/ listing.cursor = NoCursor
           \/ ComesBefore(order, [rank |-> listing.cursor], row)
     IN IF BadFilter(listing.filter) THEN listing' = [listing EXCEPT !.at = "refused"]
        ELSE \E list \in AnswerOrders({row \in Filtered(rows, listing.filter) : Beyond(row)}, order) :
          IF Len(list) <= size
          THEN listing' = [listing EXCEPT !.got = @ \o list, !.at = "done"]
          ELSE IF NextCursor(list, size) = NoCursor
          THEN listing' = [listing EXCEPT !.at = "failed"]
          ELSE listing' = [listing EXCEPT !.got = @ \o SubSeq(list, 1, size),
                                          !.cursor = NextCursor(list, size), !.at = "more"]
  /\ UNCHANGED <<rows, stayed, changes>>

TurnPage ==
  /\ listing.at = "more"
  /\ listing' = [listing EXCEPT !.at = "asked", !.page = EffectivePage(@) + 1]
  /\ UNCHANGED <<rows, stayed, changes>>

QueryNext ==
  Ask \/ AskWithBrokenCursor \/ ChangeRows \/ AnswerPage \/ AnswerCursorPage \/ TurnPage

QuerySpec == QueryInit /\ [][QueryNext]_queryVars

-----------------------------------------------------------------------------

\* Read to the end by cursor, a list names every row that matched and was there
\* throughout, whatever came and went meanwhile, and none twice; only a row whose
\* cursor column equals that of a row it did name can be missing. By page number that
\* takes an unchanged table and a sort that leaves no ties; and a page beyond the last
\* is empty, whatever its number.
PagingMissesNothing ==
  LET named == ToSet(listing.got)
      due == Filtered(stayed, listing.filter)
      order == ResolvedSort(listing.sort)
  IN listing.at = "done" =>
       /\ listing.how = "cursor" =>
            /\ IsInjective(listing.got)
            /\ \A row \in due : \E other \in named : other.rank = row.rank
            /\ \A row \in due : (\A other \in TableRows \ {row} : other.rank # row.rank)
                                  => row \in named
       /\ listing.how = "pages" /\ changes = 0 =>
            /\ (\A a, b \in rows : a # b => ComesBefore(order, a, b) \/ ComesBefore(order, b, a))
                 => IsInjective(listing.got)
            /\ EffectivePage(listing.first) <= listing.pages =>
                 Len(listing.got) = Cardinality(due) - Offset(listing.first, listing.size)
            /\ EffectivePage(listing.first) > listing.pages => listing.got = <<>>

\* The rows a client gets pass every filter it gave, in one of its columns; a zero
\* or an empty text in a field that is no pointer is no filter.
DeliveredIsAsked ==
  \A row \in ToSet(listing.got), i \in DOMAIN FlatFields(listing.filter) :
    LET field == FlatFields(listing.filter)[i]
    IN field.kind = "pointer" \/ (field.kind # "nil" /\ ~Zero(field.kind, field.value))
         => \E k \in DOMAIN field.columns : ColumnMatches(row, field.columns[k], field)

\* A client that reads a list to its end has what it asked for and all of it.
ListsAreComplete == PagingMissesNothing /\ DeliveredIsAsked
=============================================================================
