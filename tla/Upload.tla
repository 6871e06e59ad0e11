-------------------------------- MODULE Upload --------------------------------
(***************************************************************************)
(* A file becomes tables: the dialog reads the names of an Excel file's      *)
(* sheets while the user may already have picked another file, the server   *)
(* cleans the cells, decides a type for each column and names the columns,  *)
(* and one transaction creates, fills and lists all tables or none.         *)
(*                                                                         *)
(* A file is [kind, sheets]; a sheet [header, rows], its rows sequences of  *)
(* cells that may be shorter than the header, which has a name for every     *)
(* cell (csv-parser names those that the file does not).  The names in an   *)
(* Excel sheet differ and its rows are full (sheet_to_json); in a CSV file  *)
(* two columns may have one name.  A cell [kind, n] is "blank", "text", a   *)
(* "typed" number, or text that reads as a number: plain ("number"), with    *)
(* thousands separators ("grouped") or with zeros in front ("padded").  n    *)
(* counts halves, so that 3 is 1.5.  A raw column name is [clean, form]:    *)
(* the name without special characters, a sequence like <<"a">> or, of      *)
(* "a_1", <<"a", 1>>, and which of the raw names that clean to it.           *)
(* Definitions marked "Faulty" are plausible bugs in the definition after   *)
(* them and not part of the specification.                                 *)
(***************************************************************************)
EXTENDS Integers, Sequences, SequencesExt

CONSTANTS
  Files,
  Digit,      \* what a clean name starts with that is no legal column name
  Names,      \* names users give to tables
  Long,       \* one of them, of more than 100 characters
  Params,     \* the parameters of one INSERT
  MaxRows,    \* the most rows a sheet may have
  Exact,      \* so many halves, and fewer, a double holds exactly
  Spacings,   \* what may lie between a double and the next: powers of two
  Widest,     \* the largest BIGINT
  None

VARIABLES
  file,       \* the file picked in the dialog
  configs,    \* of each table to make: its sheet, its name, whether it is ticked
  parsing,    \* Excel files whose sheets are being read
  allowed,    \* whether the user may use the datasource
  request,    \* [file, configs] while the server works on an upload
  prepared,   \* the tables it will create
  created,    \* those created in the open transaction
  stored      \* [file, configs, tables] of the upload that was committed

dialog == <<file, configs, parsing>>

vars == <<dialog, allowed, request, prepared, created, stored>>

Init ==
  /\ file = None /\ configs = <<>> /\ parsing = {}
  /\ allowed = TRUE
  /\ request = None /\ prepared = <<>> /\ created = <<>>
  /\ stored = None

-----------------------------------------------------------------------------
(* Cells, types and names *)

Null == [kind |-> "blank", n |-> 0]

(* normalizeValue *)
Normal(cell) == IF cell.kind = "grouped" THEN [cell EXCEPT !.kind = "number"] ELSE cell

IsNumeric(cell) == cell.kind \in {"number", "padded", "typed"}

(* Faulty: a column is numeric if some cell is. *)
InferSome(cells) ==
  LET present == {cell \in cells : cell # Null}
  IN IF \A cell \in present : ~IsNumeric(cell) THEN "TEXT"
     ELSE IF \E cell \in present : cell.n % 2 = 1 THEN "NUMERIC" ELSE "BIGINT"

(* inferMysqlType, and pgType of what it returns *)
Infer(cells) ==
  LET present == {cell \in cells : cell # Null}
  IN IF present = {} \/ \E cell \in present : ~IsNumeric(cell) THEN "TEXT"
     ELSE IF \E cell \in present : cell.n % 2 = 1 THEN "NUMERIC" ELSE "BIGINT"

(* Doubles near n lie s apart: one up to Exact, two up to twice that, ...   *)
IsSpacing(n, s) == n < Exact * s /\ (s = 1 \/ Exact * s <= 2 * n)

InRange(n) == \E s \in Spacings : IsSpacing(n, s)

(* parseFloat: the double next to n, of two the even one *)
Rounded(n) ==
  LET s  == CHOOSE s \in Spacings : IsSpacing(n, s)
      up == 2 * (n % s) > s \/ (2 * (n % s) = s /\ (n \div s) % 2 = 1)
  IN s * (n \div s) + (IF up THEN s ELSE 0)

(* isFinite *)
IsFinite(n) == InRange(n) /\ InRange(Rounded(n))

Coerce(cell, type) ==
  IF type = "TEXT" \/ cell.kind \in {"blank", "typed"} THEN cell
  ELSE IF IsNumeric(cell) /\ IsFinite(cell.n) THEN [kind |-> "typed", n |-> Rounded(cell.n)]
  ELSE Null

(* The keys of the first row, each where its column is first *)
Keys(sheet) ==
  {c \in 1 .. Len(sheet.rows[1]) : \A b \in 1 .. c - 1 : sheet.header[b] # sheet.header[c]}

(* ensureUniqueColumnNames: of the names that clean to the same, each after *)
(* the first gets how many came before.                                     *)
UniqueNames(sheet) ==
  [c \in Keys(sheet) |->
     LET clean  == sheet.header[c].clean
         before == Cardinality({b \in Keys(sheet) : b < c /\ sheet.header[b].clean = clean})
     IN IF before = 0 THEN clean ELSE Append(clean, before)]

-----------------------------------------------------------------------------
(* The dialog *)

Pick(f) ==
  /\ file = None /\ stored = None
  /\ file' = f
  /\ IF f.kind = "excel"
       THEN parsing' = parsing \cup {f} /\ UNCHANGED configs
       ELSE /\ configs' = <<[sheet |-> None, name |-> CHOOSE n \in Names : TRUE, ticked |-> TRUE]>>
            /\ UNCHANGED parsing
  /\ UNCHANGED <<allowed, request, prepared, created, stored>>

(* The sheets of an Excel file, whatever file is picked by now. *)
Parsed(f) ==
  /\ f \in parsing /\ parsing' = parsing \ {f}
  /\ configs' = [i \in DOMAIN f.sheets |->
                   [sheet |-> i, name |-> CHOOSE n \in Names : TRUE, ticked |-> TRUE]]
  /\ UNCHANGED <<file, allowed, request, prepared, created, stored>>

(* Reading the sheets fails: the dialog stays without any. *)
ParseFails(f) ==
  /\ f \in parsing /\ parsing' = parsing \ {f}
  /\ UNCHANGED <<file, configs, allowed, request, prepared, created, stored>>

(* The only one cannot be unticked. *)
Tick(i) ==
  /\ file # None /\ i \in DOMAIN configs
  /\ ~(Len(configs) = 1 /\ configs[i].ticked)
  /\ configs' = [configs EXCEPT ![i].ticked = ~@]
  /\ UNCHANGED <<file, parsing, allowed, request, prepared, created, stored>>

Rename(i, name) ==
  /\ file # None /\ i \in DOMAIN configs /\ configs[i].name # name
  /\ configs' = [configs EXCEPT ![i].name = name]
  /\ UNCHANGED <<file, parsing, allowed, request, prepared, created, stored>>

(* "Change file", or the dialog is closed *)
Reset ==
  /\ file # None
  /\ file' = None /\ configs' = <<>>
  /\ UNCHANGED <<parsing, allowed, request, prepared, created, stored>>

CanSubmit == \E i \in DOMAIN configs : configs[i].ticked /\ configs[i].name # None

Ticked == {i \in DOMAIN configs : configs[i].ticked}

(* Those that are ticked, in their order *)
Submit ==
  /\ file # None /\ CanSubmit /\ request = None
  /\ \E n \in 1 .. Len(configs) : \E at \in [1 .. n -> Ticked] :
       /\ {at[k] : k \in 1 .. n} = Ticked
       /\ \A k \in 2 .. n : at[k - 1] < at[k]
       /\ request' = [file |-> file, configs |-> [k \in 1 .. n |-> configs[at[k]]]]
  /\ UNCHANGED <<dialog, allowed, prepared, created, stored>>

-----------------------------------------------------------------------------
(* The server prepares *)

(* sheetName of a CSV file is not looked at. *)
SheetNo(f, config) == IF f.kind = "csv" \/ config.sheet = None THEN 1 ELSE config.sheet

SheetOf(f, config) == f.sheets[SheetNo(f, config)]

CanPrepare(f, config) ==
  /\ config.name # None
  /\ SheetNo(f, config) \in DOMAIN f.sheets
  /\ Len(SheetOf(f, config).rows) \in 1 .. MaxRows

(* The cells of row r under a name: the parser's record keeps the last.      *)
Under(sheet, r, name) == {d \in DOMAIN sheet.rows[r] : sheet.header[d] = name}

(* row[key], null if the row has none *)
Cell(sheet, r, c) ==
  LET cells == Under(sheet, r, sheet.header[c])
  IN IF cells = {} THEN Null ELSE Normal(sheet.rows[r][Max(cells)])

Table(f, config) ==
  LET sheet == SheetOf(f, config)
      type(c) == Infer({Cell(sheet, r, c) : r \in DOMAIN sheet.rows})
  IN [name    |-> config.name,
      columns |-> [c \in Keys(sheet) |->
                     [originalName |-> sheet.header[c], name |-> UniqueNames(sheet)[c], type |-> type(c)]],
      rows    |-> [r \in DOMAIN sheet.rows |->
                     [c \in Keys(sheet) |-> Coerce(Cell(sheet, r, c), type(c))]]]

Prepare ==
  /\ request # None /\ prepared = <<>>
  /\ \A i \in DOMAIN request.configs : CanPrepare(request.file, request.configs[i])
  /\ prepared' = [i \in DOMAIN request.configs |-> Table(request.file, request.configs[i])]
  /\ UNCHANGED <<dialog, allowed, request, created, stored>>

-----------------------------------------------------------------------------
(* The server creates, in one transaction *)

Working == Len(created) > 0 /\ Len(Last(created).rows) < Len(prepared[Len(created)].rows)

CanCreate(table) ==
  /\ allowed /\ table.name # Long
  /\ DOMAIN table.columns # {}
  /\ \A c \in DOMAIN table.columns : table.columns[c].name[1] # Digit
  /\ IsInjective([c \in DOMAIN table.columns |-> table.columns[c].name])  \* or CREATE TABLE fails

NextTable == prepared[Len(created) + 1]

CreateTable ==
  /\ Len(created) < Len(prepared) /\ ~Working /\ CanCreate(NextTable)
  /\ created' = Append(created, [NextTable EXCEPT !.rows = <<>>])
  /\ UNCHANGED <<dialog, allowed, request, prepared, stored>>

(* Rows go in as many as the parameters of one INSERT allow. *)
Batch ==
  LET table == prepared[Len(created)]
      done  == Len(Last(created).rows)
      size  == LET s == Params \div Cardinality(DOMAIN table.columns) IN IF s > 1 THEN s ELSE 1
  IN SubSeq(table.rows, done + 1, IF done + size < Len(table.rows) THEN done + size ELSE Len(table.rows))

(* BIGINT refuses what does not fit. *)
Fits(row, columns) == \A c \in DOMAIN columns : columns[c].type = "BIGINT" => row[c].n <= 2 * Widest

CanInsert == \A r \in DOMAIN Batch : Fits(Batch[r], Last(created).columns)

Insert ==
  /\ Working /\ CanInsert
  /\ created' = [created EXCEPT ![Len(created)].rows = @ \o Batch]
  /\ UNCHANGED <<dialog, allowed, request, prepared, stored>>

(* All are created, commented and listed in the catalog.  The dialog closes. *)
Commit ==
  /\ prepared # <<>> /\ Len(created) = Len(prepared) /\ ~Working
  /\ stored' = [file |-> request.file, configs |-> request.configs, tables |-> created]
  /\ request' = None /\ prepared' = <<>> /\ created' = <<>>
  /\ file' = None /\ configs' = <<>>
  /\ UNCHANGED <<parsing, allowed>>

(* The upload is refused, or the transaction fails and rolls back.  The      *)
(* dialog stays open, to try again.                                         *)
Refuse ==
  /\ request # None
  /\ \/ prepared = <<>> /\ ~\A i \in DOMAIN request.configs : CanPrepare(request.file, request.configs[i])
     \/ Len(created) < Len(prepared) /\ ~Working /\ ~CanCreate(NextTable)
     \/ Working /\ ~CanInsert
  /\ request' = None /\ prepared' = <<>> /\ created' = <<>>
  /\ UNCHANGED <<dialog, allowed, stored>>

(* The owner of the datasource no longer shares it with the user. *)
Revoke ==
  /\ allowed /\ allowed' = FALSE
  /\ UNCHANGED <<dialog, request, prepared, created, stored>>

Next ==
  \/ \E f \in Files : Pick(f) \/ Parsed(f) \/ ParseFails(f)
  \/ \E i \in DOMAIN configs : Tick(i) \/ \E name \in Names \cup {None} : Rename(i, name)
  \/ Reset \/ Submit
  \/ Prepare \/ CreateTable \/ Insert \/ Commit \/ Refuse \/ Revoke

Spec == Init /\ [][Next]_vars

-----------------------------------------------------------------------------
(* Properties *)

(* What the table keeps of a cell.  In a column of text it is the cell as it *)
(* was written, but for the commas of a grouped number.  In a column of      *)
(* numbers, where no text is, it is the number and not its writing: zeros    *)
(* in front are lost, digits beyond the precision of a double, and a number  *)
(* too large for one altogether.                                            *)
Says(cell, kept, type) ==
  IF type = "TEXT" THEN kept = [cell EXCEPT !.kind = IF @ = "grouped" THEN "number" ELSE @]
  ELSE /\ cell.kind # "text"
       /\ IF cell.kind \in {"blank", "typed"} THEN kept = cell
          ELSE IF ~IsFinite(cell.n) THEN kept = Null
          ELSE kept.kind = "typed" /\ Exact * (kept.n - cell.n) \in -cell.n .. cell.n

(* The columns are those of the names over the first row, and each row has   *)
(* what its last cell under such a name says: cells under other names, and   *)
(* all but the last under one, are lost.                                    *)
Holds(table, sheet) ==
  /\ {table.columns[c].originalName : c \in DOMAIN table.columns}
       = {sheet.header[c] : c \in DOMAIN sheet.rows[1]}
  /\ \A c, d \in DOMAIN table.columns :
       c # d => /\ table.columns[c].originalName # table.columns[d].originalName
                /\ table.columns[c].name # table.columns[d].name
  /\ Len(table.rows) = Len(sheet.rows)
  /\ \A r \in DOMAIN table.rows, c \in DOMAIN table.columns :
       LET cells == Under(sheet, r, table.columns[c].originalName)
       IN /\ cells = {} => table.rows[r][c] = Null
          /\ \A d \in cells : (\A e \in cells : e <= d) =>
               Says(sheet.rows[r][d], table.rows[r][c], table.columns[c].type)

(* However often a user changes the file in the dialog, and wherever the    *)
(* upload of several tables fails, there are all the tables that he had     *)
(* ticked or none of them; each has a column for every name over the first   *)
(* row, under distinct names, and every row once and in order, with what     *)
(* Holds and Says tell of the cells.                                        *)
UploadKeepsFile ==
  stored # None =>
    /\ DOMAIN stored.tables = DOMAIN stored.configs
    /\ \A i \in DOMAIN stored.tables :
         Holds(stored.tables[i], SheetOf(stored.file, stored.configs[i]))
=============================================================================
