--------------------------- MODULE MigrationFiles ----------------------------
(***************************************************************************)
(* The text of one migration (cmd/gin-ninja-cli/migrations.go): the        *)
(* statements that makemigrations collects are written to a file with the  *)
(* statements that undo them, and migrate takes the file apart again and   *)
(* executes it, up and down. (Migrations has the files of a directory and  *)
(* the processes that apply them.)                                         *)
(*                                                                         *)
(* A text is a sequence of the symbols that matter to the splitter. What a *)
(* statement does is in its first symbol, of the kind "ddl": [verb, table, *)
(* name, to, safe], where to is what it refers to, a table or a column, and*)
(* safe says that its identifiers are plain ones.                          *)
(***************************************************************************)
EXTENDS Naturals, FiniteSets, SequencesExt

CONSTANTS
  SQLDialects,   \* "sqlite", "mysql", "postgres"
  Collections,   \* what AutoMigrate logs: sequences of statements
  SchemaBefore   \* the objects in the database: [kind, table, name, to]

VARIABLES
  sqlDialect,  \* of the project
  statements,  \* the statements collected
  content,     \* the file
  parsed,      \* the statements of its sections, and whether it is irreversible
  schema,      \* the objects in the database
  fileStage

fileVars == <<sqlDialect, statements, content, parsed, schema, fileStage>>

Symbol(kind) == [is |-> kind]
NewLine == Symbol("newline")
Semicolon == Symbol(";")
Up == Symbol("-- Up")
Down == Symbol("-- Down")
Irreversible == Symbol("-- gin-ninja:irreversible")

NothingParsed == [up |-> <<>>, down |-> <<>>, irreversible |-> FALSE]

FilesTypeOK ==
  /\ sqlDialect \in SQLDialects
  /\ fileStage \in {"collected", "written", "parsed", "applied", "rolled back", "refused", "stuck"}
  /\ \A o \in schema : o.kind \in {"table", "column", "index", "constraint"}

FilesInit ==
  /\ sqlDialect \in SQLDialects /\ statements \in Collections
  /\ content = <<>> /\ parsed = NothingParsed
  /\ schema = SchemaBefore /\ fileStage = "collected"

-----------------------------------------------------------------------------
(* Writing.                                                                *)

TrimSpace(text) ==
  LET solid == {i \in DOMAIN text : text[i] # NewLine}
  IN IF solid = {} THEN <<>> ELSE SubSeq(text, Min(solid), Max(solid))

\* normalizeSQLStatement
Normalized(stmt) ==
  LET text == TrimSpace(stmt)
  IN TrimSpace(IF text # <<>> /\ Last(text) = Semicolon THEN Front(text) ELSE text)

\* uniqueMigrationStatements
Unique(stmts) ==
  LET Add(kept, stmt) ==
        IF Normalized(stmt) \in {<<>>} \cup ToSet(kept) THEN kept ELSE Append(kept, Normalized(stmt))
  IN FoldLeft(Add, <<>>, stmts)

\* formatSQLStatements
Formatted(stmts) ==
  FlattenSeq([i \in DOMAIN stmts |-> stmts[i] \o <<Semicolon, NewLine>>])

\* reverseMigrationStatement, of statements it has a pattern for: constraints that have
\* no name, columns that change and identifiers that need care are left to the developer.
HasReverse(stmt) ==
  stmt[1].safe
    /\ stmt[1].verb \in {"create table", "create index", "add foreign key", "add constraint", "add column"}

Reversed(stmt) ==
  LET does(verb) == <<[stmt[1] EXCEPT !.verb = verb]>>
      mysql == sqlDialect = "mysql"
  IN CASE stmt[1].verb = "create table" -> does("drop table if exists")
       [] stmt[1].verb = "create index" -> does(IF mysql THEN "drop index" ELSE "drop index if exists")
       [] stmt[1].verb = "add foreign key" -> does(IF mysql THEN "drop foreign key" ELSE "drop constraint")
       [] stmt[1].verb = "add constraint" -> does("drop constraint")
       [] stmt[1].verb = "add column" -> does("drop column")

\* A plausible bug: the statements are undone in the order they were done in.
DownStatementsForwards(stmts) ==
  LET undone == SelectSeq(stmts, HasReverse)
  IN [i \in DOMAIN undone |-> Reversed(undone[i])]

\* reverseMigrationStatements: the last one first.
DownStatements(stmts) ==
  LET undone == Reverse(SelectSeq(stmts, HasReverse))
  IN [i \in DOMAIN undone |-> Reversed(undone[i])]

\* buildMigrationFile
MigrationFile(up, down) ==
  LET Section(text) == IF TrimSpace(text) = <<>> THEN <<>> ELSE TrimSpace(text) \o <<NewLine>>
  IN <<Up, NewLine>> \o Section(up) \o <<NewLine, Down, NewLine>> \o Section(down)

\* runMakeMigrations, once the statements are there. Without any it writes no file.
WriteMigration ==
  LET stmts == Unique(statements)
      mark == IF \A i \in DOMAIN stmts : HasReverse(stmts[i]) THEN <<>> ELSE <<Irreversible, NewLine>>
  IN /\ fileStage = "collected" /\ stmts # <<>>
     /\ content' = MigrationFile(Formatted(stmts), Formatted(DownStatements(stmts)) \o mark)
     /\ fileStage' = "written"
     /\ UNCHANGED <<sqlDialect, statements, parsed, schema>>

-----------------------------------------------------------------------------
(* Reading.                                                                *)

\* splitMigrationSections: a line that holds nothing else begins a section.
SectionOf(text, marker) ==
  LET Alone(i) ==
        /\ text[i] \in {Up, Down}
        /\ i = 1 \/ text[i - 1] = NewLine
        /\ i = Len(text) \/ text[i + 1] = NewLine
      markers == {i \in DOMAIN text : Alone(i)}
      Belongs(i) ==
        LET before == {j \in markers : j < i}
        IN i \notin markers /\ before # {} /\ text[Max(before)] = marker /\ i - 1 \notin markers
      places == SelectSeq([i \in DOMAIN text |-> i], Belongs)
  IN [k \in DOMAIN places |-> text[places[k]]]

Quotes == {"single quote", "double quote", "backtick"}
DollarTags == {"$$", "$t$"}
LineComments == {"--", Up.is, Down.is, Irreversible.is}

\* hasExecutableSQL: something that is neither space nor comment.
HasExecutable(stmt) ==
  LET Scan(mode, symbol) ==
        CASE mode = "--" -> IF symbol = NewLine THEN "code" ELSE "--"
          [] mode = "/*" -> IF symbol.is = "*/" THEN "code" ELSE "/*"
          [] mode = "code" /\ symbol.is \in LineComments -> "--"
          [] mode = "code" /\ symbol.is = "/*" -> "/*"
          [] mode = "code" /\ symbol # NewLine -> "executable"
          [] OTHER -> mode
  IN FoldLeft(Scan, "code", stmt) = "executable"

\* The scanner of splitSQLStatements: in code, or in what has been opened and not yet
\* closed. A quote after a backslash is part of a literal; a doubled one closes and
\* opens it.
ModeAfter(mode, symbol, escaped) ==
  IF mode = "code"
  THEN CASE symbol.is \in Quotes -> IF escaped /\ symbol.is # "backtick" THEN "code" ELSE symbol.is
         [] symbol.is \in LineComments -> "--"
         [] symbol.is \in DollarTags \cup {"/*"} -> symbol.is
         [] OTHER -> "code"
  ELSE IF \/ mode \in Quotes /\ symbol.is = mode /\ ~(escaped /\ mode # "backtick")
          \/ mode = "--" /\ symbol = NewLine
          \/ mode = "/*" /\ symbol.is = "*/"
          \/ mode \in DollarTags /\ symbol.is = mode
       THEN "code" ELSE mode

\* splitSQLStatements: a semicolon in code ends a statement.
Split(section) ==
  LET text == TrimSpace(section)
      Flush(stmts, current) ==
        IF HasExecutable(Normalized(current)) THEN Append(stmts, Normalized(current)) ELSE stmts
      Scan(s, i) ==
        IF s.mode = "code" /\ text[i] = Semicolon
        THEN [s EXCEPT !.stmts = Flush(@, s.current), !.current = <<>>]
        ELSE [s EXCEPT !.mode = ModeAfter(@, text[i], i > 1 /\ text[i - 1].is = "backslash"),
                       !.current = Append(@, text[i])]
      last == FoldLeft(Scan, [mode |-> "code", stmts |-> <<>>, current |-> <<>>],
                       [i \in DOMAIN text |-> i])
  IN Flush(last.stmts, last.current)

\* parseMigrationFile; applyMigration and rollbackMigration split the sections.
ParseMigration ==
  LET up == SectionOf(content, Up)
      down == SectionOf(content, Down)
  IN /\ fileStage = "written"
     /\ parsed' = [up |-> Split(up), down |-> Split(down), irreversible |-> Contains(down, Irreversible)]
     /\ fileStage' = "parsed"
     /\ UNCHANGED <<sqlDialect, statements, content, schema>>

-----------------------------------------------------------------------------
(* Executing. What the databases do with a statement, with dependencies as *)
(* they all have them: no foreign key without its table, no index without  *)
(* its column; names of indexes are of a table in MySQL, of the schema     *)
(* elsewhere; SQLite has no constraints besides those of its tables.       *)

Kind(verb) ==
  CASE verb \in {"create table", "drop table if exists"} -> "table"
    [] verb \in {"create index", "drop index", "drop index if exists"} -> "index"
    [] verb \in {"add column", "drop column"} -> "column"
    [] OTHER -> "constraint"

HasTable(objects, table) == \E o \in objects : o.kind = "table" /\ o.table = table

\* The objects a statement names.
Meant(objects, does) ==
  IF Kind(does.verb) = "table" THEN {o \in objects : o.table = does.table}
  ELSE {o \in objects :
          /\ o.kind = Kind(does.verb) /\ o.name = does.name
          /\ o.table = does.table \/ (o.kind = "index" /\ sqlDialect # "mysql")}

DependsOn(o, other) ==
  \/ o.table # other.table /\ o.kind \in {"table", "constraint"} /\ other.kind = "table" /\ o.to = other.table
  \/ o.table = other.table /\ o.kind = "index" /\ other.kind = "column" /\ o.to = other.name

Creates(verb) ==
  verb \in {"create table", "create index", "add column", "add constraint", "add foreign key"}

Works(objects, does) ==
  CASE Creates(does.verb) ->
         /\ Meant(objects, does) = {}
         /\ Kind(does.verb) = "table" \/ HasTable(objects, does.table)
         /\ Kind(does.verb) \in {"table", "constraint"} /\ does.to # "" => HasTable(objects, does.to)
         /\ Kind(does.verb) = "index" => \E o \in objects :
              o.table = does.table /\ (does.to = "" \/ (o.kind = "column" /\ o.name = does.to))
         /\ Kind(does.verb) = "constraint" => sqlDialect # "sqlite"
    [] does.verb \in {"alter table", "add key"} -> HasTable(objects, does.table)
    [] OTHER ->
         /\ does.verb \in {"drop table if exists", "drop index if exists"} \/ Meant(objects, does) # {}
         /\ \A gone \in Meant(objects, does), o \in objects \ Meant(objects, does) : ~DependsOn(o, gone)

Effect(objects, does) ==
  CASE Creates(does.verb) ->
         objects \cup {[kind |-> Kind(does.verb), table |-> does.table, name |-> does.name, to |-> does.to]}
    [] does.verb \in {"alter table", "add key"} -> objects
    [] OTHER -> objects \ Meant(objects, does)

\* execMigrationStatements: all of them, or none.
Executed(stmts) ==
  LET Exec(s, stmt) ==
        IF s.ok /\ stmt[1].is = "ddl" /\ Works(s.objects, stmt[1])
        THEN [s EXCEPT !.objects = Effect(@, stmt[1])]
        ELSE [s EXCEPT !.ok = FALSE]
  IN FoldLeft(Exec, [ok |-> TRUE, objects |-> schema], stmts)

ApplyFile ==
  LET result == Executed(parsed.up)
  IN /\ fileStage = "parsed"
     /\ schema' = IF result.ok THEN result.objects ELSE schema
     /\ fileStage' = IF result.ok THEN "applied" ELSE "refused"
     /\ UNCHANGED <<sqlDialect, statements, content, parsed>>

\* rollbackMigration refuses an irreversible file and one without down statements.
RollBackFile ==
  LET result == Executed(parsed.down)
  IN /\ fileStage = "applied" /\ ~parsed.irreversible /\ parsed.down # <<>>
     /\ schema' = IF result.ok THEN result.objects ELSE schema
     /\ fileStage' = IF result.ok THEN "rolled back" ELSE "stuck"
     /\ UNCHANGED <<sqlDialect, statements, content, parsed>>

FilesNext == WriteMigration \/ ParseMigration \/ ApplyFile \/ RollBackFile

-----------------------------------------------------------------------------

\* migrate executes what AutoMigrate asked for, statement by statement, whatever is in
\* their literals and comments: no semicolon, quote or marker in them ends a statement
\* or a section.
ReadAsWritten ==
  fileStage \notin {"collected", "written"} => parsed.up = Unique(statements)

\* A migration that went up and does not say that it is irreversible goes down, and
\* leaves the schema it found; one with a statement that cannot be undone says so.
DownUndoesUp ==
  /\ fileStage # "stuck"
  /\ fileStage = "rolled back" => schema = SchemaBefore
  /\ fileStage = "parsed" /\ (\E stmt \in ToSet(Unique(statements)) : ~HasReverse(stmt))
       => parsed.irreversible
=============================================================================
