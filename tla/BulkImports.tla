------------------------------ MODULE BulkImports ------------------------------
(***************************************************************************)
(* Importing profiles and school records from a CSV or XLSX file           *)
(* (BulkImportService.import_file): the file is parsed as a whole, then    *)
(* every row is created in a transaction of its own and the failed ones    *)
(* are reported.  An administrator repeats an import that was interrupted. *)
(***************************************************************************)
EXTENDS Integers, Sequences, SequencesExt, FiniteSets

CONSTANTS
    MaxImportBytes,  \* MAX_IMPORT_BYTES
    MaxImportRows,   \* MAX_IMPORT_ROWS
    Columns          \* the columns of the imported kind: its key, its code, ...

ASSUME ImportAssumption == MaxImportBytes \in Nat /\ MaxImportRows \in Nat /\ Columns \subseteq STRING

(***************************************************************************)
(* Parsing.  A cell holds nothing, a text, or a number, which is NaN or    *)
(* not; a row is a sequence of cells, shorter than the header or longer.   *)
(***************************************************************************)
HeadersValid(headers) ==
    /\ headers # <<>>
    /\ \A i \in DOMAIN headers : headers[i] # ""
    /\ \A i, j \in DOMAIN headers : headers[i] = headers[j] => i = j

\* A cell beyond the header: refused in a CSV, ignored in a worksheet.
TooWide(file, row) == file.extension = ".csv" /\ Len(row) > Len(file.headers)

NamedCells(file, row) ==
    {i \in DOMAIN row \cap DOMAIN file.headers : row[i] # ""}

\* Only a worksheet holds numbers; in a CSV "nan" is a text.
Unreadable(file, row) ==
    \/ TooWide(file, row)
    \/ file.extension = ".xlsx" /\ \E i \in NamedCells(file, row) : row[i] = "nan"

\* The named columns of a row that hold something.
Parsed(file, row) ==
    LET named == NamedCells(file, row)
    IN  [h \in {file.headers[i] : i \in named} |->
            row[CHOOSE i \in named : file.headers[i] = h]]

\* The k-th of a set of row numbers.
Nth(S, k) == CHOOSE i \in S : Cardinality({j \in S : j < i}) = k - 1

\* Rows are read one by one, blank ones dropped, until one is unreadable or one
\* too many.
Parse(file) ==
    LET parsed == [i \in DOMAIN file.rows |-> Parsed(file, file.rows[i])]
        filled == {i \in DOMAIN parsed : DOMAIN parsed[i] # {}}
        excess == {i \in filled : Cardinality({j \in filled : j < i}) >= MaxImportRows}
        broken == {i \in DOMAIN file.rows : Unreadable(file, file.rows[i])}
    IN  IF file.bytes > MaxImportBytes THEN [code |-> "too_large"]
        ELSE IF file.bytes = 0 \/ file.extension \notin {".csv", ".xlsx"} THEN [code |-> "file"]
        ELSE IF ~file.readable \/ ~HeadersValid(file.headers) THEN [code |-> "file"]
        ELSE IF \E i \in broken : \A j \in excess : i <= j THEN [code |-> "file"]
        ELSE IF excess # {} THEN [code |-> "row_limit"]
        ELSE IF filled = {} THEN [code |-> "file"]
        ELSE [code |-> "ok",
              rows |-> [k \in 1 .. Cardinality(filled) |->
                       <<Nth(filled, k), parsed[Nth(filled, k)]>>]]

(***************************************************************************)
(* Creating the rows.  The table is the sequence of its rows.              *)
(***************************************************************************)
\* What the create schema asks for.
Valid(row) == "key" \in DOMAIN row /\ row.key # "bad"

\* Mutant: only codes are unique, and a row need not have one.
ConflictsByCode(row, other) ==
    "code" \in DOMAIN row /\ "code" \in DOMAIN other /\ row.code = other.code

\* The unique constraints on the key and on the code; a code may be missing.
Conflicts(row, other) ==
    \/ row.key = other.key
    \/ "code" \in DOMAIN row /\ "code" \in DOMAIN other /\ row.code = other.code

CreateRow(result, entry) ==
    LET row == entry[2]
    IN  IF DOMAIN row \subseteq Columns /\ Valid(row)
           /\ \A i \in DOMAIN result.table : ~Conflicts(row, result.table[i])
        THEN [result EXCEPT !.table = Append(@, row), !.imported = @ \cup {entry[1]}]
        ELSE [result EXCEPT !.failed = Append(@, entry[1])]

\* The import of the first n parsed rows; all of them unless it is interrupted.
Import(table, parsed, n) ==
    LET result[k \in 0 .. n] ==
            IF k = 0 THEN [table |-> table, imported |-> {}, failed |-> <<>>]
            ELSE CreateRow(result[k - 1], parsed[k])
    IN  result[n]

(***************************************************************************)
(* Properties.                                                             *)
(***************************************************************************)
\* Every row of a file is reported once, as imported or as failed, under the
\* number it has in the file; and an import that was interrupted after any row may
\* be repeated, or repeated when it was not: nothing is created twice and the
\* table ends up the same.
RepeatableImport(table, file) ==
    LET parsed == Parse(file)
        whole  == Import(table, parsed.rows, Len(parsed.rows))
    IN  parsed.code = "ok" =>
        /\ whole.imported \cap ToSet(whole.failed) = {}
        /\ Cardinality(whole.imported) + Len(whole.failed) = Len(parsed.rows)
        /\ \A i \in whole.imported \cup ToSet(whole.failed) : i \in DOMAIN file.rows
        /\ Len(whole.table) = Len(table) + Cardinality(whole.imported)
        /\ \A n \in 0 .. Len(parsed.rows) :
              Import(Import(table, parsed.rows, n).table, parsed.rows, Len(parsed.rows)).table
                  = whole.table
===============================================================================
