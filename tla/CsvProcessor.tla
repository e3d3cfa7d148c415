----------------------------- MODULE CsvProcessor -----------------------------
(***************************************************************************)
(* CsvProcessor (processing/csv.py): parsing, building from mappings,      *)
(* serializing and the views of a document.  A text is the sequence of its *)
(* records, which csv.reader and csv.writer carry over without loss; a     *)
(* cell is one of Cell, of which a few mean a cell that strip() changes.   *)
(* Encodings and sizes only refuse a payload, and the sizes of these fit.  *)
(*                                                                         *)
(* A behaviour parses a text, or builds a document from mappings, then     *)
(* serializes the document and parses what that gives with the same        *)
(* configuration.                                                          *)
(***************************************************************************)
EXTENDS Naturals, FiniteSets, Sequences, SequencesExt

CONSTANTS
  Texts,     \* the texts to be parsed: sequences of sequences of cells
  Mappings,  \* the sequences of mappings, [header -> cell], to build from
  Orders     \* the order of the keys of a mapping: sequences of headers

\* "" and " " are blank;  " a" is "a" with a blank before it;  "a/b" could be a path
Cell == {"", " ", "a", " a", "b", "a/b"}
Strip(c) == IF c = " " THEN "" ELSE IF c = " a" THEN "a" ELSE c

Config == [has_header : BOOLEAN, reject_duplicate_headers : BOOLEAN,
           reject_empty_headers : BOOLEAN, strict_row_length : BOOLEAN, skip_blank_rows : BOOLEAN]

Document == [headers : Seq(Cell), rows : Seq(Seq(Cell))]
NoDocument == [headers |-> <<>>, rows |-> <<>>]

ASSUME CsvAssumption ==
  /\ Texts \subseteq Seq(Seq(Cell)) /\ Orders \subseteq Seq(Cell)
  /\ Mappings \subseteq Seq(UNION {[fields -> Cell] : fields \in SUBSET Cell})

VARIABLES
  config,    \* CsvProcessorConfig
  csv_stage, \* what has been done
  text,      \* the text to be parsed
  document,  \* the first document
  again      \* the document parsed from what was serialized

csvVars == <<config, csv_stage, text, document, again>>

CsvTypeOK ==
  /\ config \in Config
  /\ csv_stage \in {"text", "mappings", "parsed", "built", "refused", "again", "lost"}
  /\ text \in Seq(Seq(Cell))
  /\ document \in Document /\ again \in Document

CsvInit ==
  /\ config \in Config
  /\ \/ csv_stage = "text" /\ text \in Texts
     \/ csv_stage = "mappings" /\ text = <<>>
  /\ document = NoDocument /\ again = NoDocument

-----------------------------------------------------------------------------
(* Parsing                                                                 *)

IsBlankRow(row) == \A i \in DOMAIN row : Strip(row[i]) = ""

FilterRows(rows) ==
  LET Kept[n \in 0..Len(rows)] ==
        IF n = 0 THEN <<>>
        ELSE IF config.skip_blank_rows /\ IsBlankRow(rows[n]) THEN Kept[n - 1]
        ELSE Append(Kept[n - 1], rows[n])
  IN  Kept[Len(rows)]

\* As ValidHeaders, comparing neighbours only
ValidHeadersNextTo(headers) ==
  /\ headers # <<>>
  /\ config.reject_empty_headers => \A i \in DOMAIN headers : Strip(headers[i]) # ""
  /\ config.reject_duplicate_headers => \A i \in 1..(Len(headers) - 1) : headers[i] # headers[i + 1]

\* Duplicates are told by the headers as they are, blanks by what they strip to.
ValidHeaders(headers) ==
  /\ headers # <<>>
  /\ config.reject_empty_headers => \A i \in DOMAIN headers : Strip(headers[i]) # ""
  /\ config.reject_duplicate_headers => IsInjective(headers)

\* As ValidLengths, letting longer rows pass
ValidLengthsAtLeast(rows, expected) ==
  config.strict_row_length => \A i \in DOMAIN rows : Len(rows[i]) >= expected

ValidLengths(rows, expected) ==
  config.strict_row_length => \A i \in DOMAIN rows : Len(rows[i]) = expected

\* _parse_text of the rows of a text that pass the filter
Parsable(rows) ==
  /\ rows # <<>>
  /\ config.has_header => ValidHeaders(Head(rows))
  /\ ValidLengths(rows, Len(Head(rows)))

ParsedRows(rows) ==
  IF config.has_header THEN [headers |-> Head(rows), rows |-> Tail(rows)]
  ELSE [headers |-> <<>>, rows |-> rows]

\* parse refuses a payload that strips to nothing before it is read.
IsBlankText(t) == t = <<>> \/ \A i \in DOMAIN t : t[i] \in {<<>>, <<" ">>}

\* parse refuses a string that could be the name of a file: one cell, when
\* the blank lines around it are stripped.
LooksLikePath(t) == SelectSeq(t, LAMBDA row : row \notin {<<>>, <<" ">>}) = <<<<"a/b">>>>

Unreadable(t) == IsBlankText(t) \/ LooksLikePath(t) \/ ~Parsable(FilterRows(t))

Refuse == csv_stage' = "refused" /\ UNCHANGED <<config, text, document, again>>

Parse ==
  /\ csv_stage = "text"
  /\ IF Unreadable(text) THEN Refuse
     ELSE /\ csv_stage' = "parsed" /\ document' = ParsedRows(FilterRows(text))
          /\ UNCHANGED <<config, text, again>>

-----------------------------------------------------------------------------
(* Views of a document                                                     *)

\* to_dicts: of two columns of one name a dict has the last.
RowDict(headers, row) ==
  [h \in ToSet(headers) |->
     row[CHOOSE i \in DOMAIN headers :
           headers[i] = h /\ \A j \in (i + 1)..Len(headers) : headers[j] # h]]

ToDictsRaises(d) == d.headers = <<>> \/ \E i \in DOMAIN d.rows : Len(d.rows[i]) # Len(d.headers)

ToDicts(d) == [i \in DOMAIN d.rows |-> RowDict(d.headers, d.rows[i])]

\* As Position, finding a header that strips to the name too
PositionStripped(d, name) ==
  SelectInSeq(d.headers, LAMBDA h : Strip(h) = Strip(name))

\* column: the first column of the name, which is stripped first.
Position(d, name) ==
  SelectInSeq(d.headers, LAMBDA h : h = Strip(name))

ColumnRaises(d, name) ==
  \/ Strip(name) = "" \/ Position(d, name) = 0
  \/ \E i \in DOMAIN d.rows : Len(d.rows[i]) < Position(d, name)

Column(d, name) == [i \in DOMAIN d.rows |-> d.rows[i][Position(d, name)]]

-----------------------------------------------------------------------------
(* from_dicts and serialize                                                *)

\* As CellOf, writing out the None that stands for a missing field
CellOrNone(mapping, header) == IF header \in DOMAIN mapping THEN mapping[header] ELSE "None"

\* A mapping without a header has "" there.
CellOf(mapping, header) == IF header \in DOMAIN mapping THEN mapping[header] ELSE ""

\* Without headers given, those of the first mapping, in its order
FromDicts(mappings, headers) ==
  [headers |-> headers,
   rows |-> [i \in DOMAIN mappings |-> [j \in DOMAIN headers |-> CellOf(mappings[i], headers[j])]]]

Build ==
  /\ csv_stage = "mappings"
  /\ \E mappings \in Mappings, headers \in Orders :
       IF \/ ~ValidHeaders(headers)
          \/ \E i \in DOMAIN mappings : ~(DOMAIN mappings[i] \subseteq ToSet(headers))
       THEN Refuse
       ELSE /\ csv_stage' = "built" /\ document' = FromDicts(mappings, headers)
            /\ UNCHANGED <<config, text, again>>

\* No mappings and no headers give a document that is not validated.
BuildNothing ==
  /\ csv_stage = "mappings" /\ csv_stage' = "built"
  /\ UNCHANGED <<config, text, document, again>>

\* As Serialized, without the headers
SerializedRows(d) == d.rows

\* The header row is written when there is one, has_header or not.
Serialized(d) == (IF d.headers = <<>> THEN <<>> ELSE <<d.headers>>) \o d.rows

\* parse of serialize of the document
ParseAgain ==
  /\ csv_stage \in {"parsed", "built"}
  /\ IF Unreadable(Serialized(document)) THEN csv_stage' = "lost" /\ UNCHANGED again
     ELSE csv_stage' = "again" /\ again' = ParsedRows(FilterRows(Serialized(document)))
  /\ UNCHANGED <<config, text, document>>

CsvNext == Parse \/ Build \/ BuildNothing \/ ParseAgain

CsvSpec == CsvInit /\ [][CsvNext]_csvVars

-----------------------------------------------------------------------------
(* Properties                                                              *)

\* The document is written the way this configuration reads one.
WrittenAsRead ==
  /\ config.has_header <=> document.headers # <<>>
  /\ config.has_header => ~IsBlankRow(document.headers)
  /\ document # NoDocument
  /\ ~LooksLikePath(Serialized(document))

(***************************************************************************)
(* What serialize writes parse reads back, with the same configuration:    *)
(* nothing is lost of a document but rows without any text, which a        *)
(* document built from mappings can hold and skip_blank_rows drops.  (A    *)
(* document whose one header could be a path is written, and refused.)     *)
(***************************************************************************)
OnlyBlankRowsAreLost ==
  csv_stage \in {"again", "lost"} /\ WrittenAsRead =>
    csv_stage = "again" /\ again = [document EXCEPT !.rows = FilterRows(@)]

(***************************************************************************)
(* With duplicate headers refused, going through mappings and back         *)
(* (to_dicts and from_dicts) keeps every cell, wherever to_dicts is        *)
(* possible, and that is everywhere when row lengths are strict.           *)
(***************************************************************************)
MappingsKeepCells ==
  csv_stage = "parsed" /\ config.has_header =>
    /\ config.strict_row_length => ~ToDictsRaises(document)
    /\ config.reject_duplicate_headers /\ ~ToDictsRaises(document) =>
         FromDicts(ToDicts(document), document.headers) = document

(***************************************************************************)
(* With duplicate headers refused, column and to_dicts agree about a header*)
(* that strip() leaves alone.  (Of " a" and "a" side by side, which are not*)
(* duplicates, column(" a") gives the values of the second.)               *)
(***************************************************************************)
ViewsAgree ==
  csv_stage = "parsed" /\ config.reject_duplicate_headers /\ ~ToDictsRaises(document) =>
    \A h \in ToSet(document.headers) :
      Strip(h) = h /\ h # "" =>
        /\ ~ColumnRaises(document, h)
        /\ \A i \in DOMAIN document.rows : Column(document, h)[i] = ToDicts(document)[i][h]

(***************************************************************************)
(* The ways in and out of a document give the same cells.                  *)
(***************************************************************************)
CellsSurvive ==
  /\ OnlyBlankRowsAreLost
  /\ MappingsKeepCells
  /\ ViewsAgree
=============================================================================
