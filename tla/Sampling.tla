------------------------------ MODULE Sampling ------------------------------
(***************************************************************************)
(* The samplers behind POST /files/sample (apps/api/src/sampling): what    *)
(* rows, column type and truncation mark each format's sampler returns for *)
(* the bytes it is given.                                                  *)
(*                                                                         *)
(* A file is a sequence of records, seen at one of its columns. A record   *)
(* is the cell it holds there, one of two damaged forms, Malformed (bytes  *)
(* the parser rejects) and NotObject (valid JSON that is no object), or    *)
(* SelfClosing (an XML record written as one empty element, <record .../>).*)
(* A cell is Missing, Null or a token, and a token is told apart only by   *)
(* the types it parses as.                                                 *)
(***************************************************************************)
EXTENDS Integers, Sequences, FiniteSets, SequencesExt

\* Candidate types, in the order in which infer_column_type prefers them.
Preference == <<"boolean", "integer", "number", "datetime">>

\* Each token with the types it parses as: "0" is a boolean, an i64 and an
\* f64; an integer beyond i64 is only an f64; "empty" and "blank" are skipped
\* (in XML only an attribute can be either); "object" is a nested value or an
\* XML element without text, <id></id>, and reads as JSON text.
ParsesAs == [empty |-> {}, blank |-> {},
             zero  |-> {"boolean", "integer", "number"},
             true  |-> {"boolean"},
             int   |-> {"integer", "number"},
             huge  |-> {"number"},
             date  |-> {"datetime"},
             text  |-> {}, object |-> {}]

Token   == DOMAIN ParsesAs
Missing == "missing"
Null    == "null"
Cell    == Token \cup {Missing, Null}

Malformed == "malformed"
NotObject == "notobject"

SelfClosing == "selfclosing"

Format == {"csv", "array", "ndjson", "xml"}

Blank(v) == v \in {"empty", "blank"}

(* infer_column_type: a candidate survives while every non-blank value     *)
(* parses as it; the first survivor in the order of preference wins.       *)
infer_column_type(values) ==
    LET had == {i \in DOMAIN values : ~Blank(values[i])}
        all == {k \in DOMAIN Preference :
                   \A i \in had : Preference[k] \in ParsesAs[values[i]]}
    IN  IF had = {} \/ all = {} THEN "string"
        ELSE Preference[CHOOSE k \in all : \A j \in all : k <= j]

(* A cell as the inference sees it, and whether it marks the column        *)
(* nullable: a CSV row has no null, so every empty cell counts; JSON and   *)
(* XML count an absent or null value but not an empty string.              *)
Raw(cell) == IF cell \in {Missing, Null} THEN "empty" ELSE cell

Nullable(format, cell) ==
    IF format = "csv" THEN Raw(cell) = "empty" ELSE cell \in {Missing, Null}

-----------------------------------------------------------------------------
(* Results. *)

Invalid == [ok |-> FALSE]

(* The column summary every sampler ends with. JSON and XML take the       *)
(* column from the keys of the sampled rows, CSV from the header.          *)
SampleResult(format, rows, truncated) ==
    [ok        |-> TRUE,
     rows      |-> rows,
     truncated |-> truncated,
     column    |-> format = "csv" \/ \E i \in DOMAIN rows : rows[i] # Missing,
     type      |-> infer_column_type([i \in DOMAIN rows |-> Raw(rows[i])]),
     nullable  |-> \E i \in DOMAIN rows : Nullable(format, rows[i])]

Take(n, s) == SubSeq(s, 1, IF Len(s) < n THEN Len(s) ELSE n)

Damaged(r) == r \in {Malformed, NotObject}

\* The index of the first damaged record, or one past the end.
FirstDamaged(s) ==
    IF \E i \in DOMAIN s : Damaged(s[i])
    THEN CHOOSE i \in DOMAIN s : Damaged(s[i]) /\ \A j \in 1 .. i - 1 : ~Damaged(s[j])
    ELSE Len(s) + 1

\* The records that are not among the lost ones, in their order: the n-th
\* is the one that n of them stand at or before.
Kept(s, lost) ==
    LET kept == {i \in DOMAIN s : s[i] \notin lost}
    IN  [n \in 1 .. Cardinality(kept) |->
            s[CHOOSE i \in kept : Cardinality({j \in kept : j <= i}) = n]]

\* Mutant: the record past the cap is not looked at.
csv_sample_uncounted(body, row_cap, truncated_input) ==
    LET bad == FirstDamaged(body)
    IN  IF bad <= row_cap /\ bad <= Len(body)
        THEN IF truncated_input
             THEN SampleResult("csv", Take(bad - 1, body), TRUE)
             ELSE Invalid
        ELSE SampleResult("csv", Take(row_cap, body), truncated_input)

(* csv::sample. One record past the cap is looked at, whatever it holds;   *)
(* a record that does not parse ends the sample if the input was clipped   *)
(* and refuses the file otherwise.                                         *)
csv_sample(body, row_cap, truncated_input) ==
    LET bad == FirstDamaged(body)
    IN  IF bad <= row_cap /\ bad <= Len(body)
        THEN IF truncated_input
             THEN SampleResult("csv", Take(bad - 1, body), TRUE)
             ELSE Invalid
        ELSE SampleResult("csv", Take(row_cap, body),
                          truncated_input \/ Len(body) > row_cap)

(* xml::sample. read_next_record passes over a self-closing record. The    *)
(* look-ahead past the cap parses the record it finds, so a damaged one    *)
(* refuses an unclipped file; a file without records is refused as well.   *)
xml_sample(body, row_cap, truncated_input) ==
    LET read == Kept(body, {SelfClosing})
        bad  == FirstDamaged(read)
        rows == Take(IF bad <= row_cap THEN bad - 1 ELSE row_cap, read)
    IN  IF \/ bad <= Len(read) /\ bad <= row_cap + 1 /\ ~truncated_input
           \/ rows = <<>>
        THEN Invalid
        ELSE SampleResult("xml", rows, truncated_input \/ Len(read) > row_cap)

(* json::parse_ndjson: lines that do not parse are skipped. *)
parse_ndjson(body) == Kept(body, {Malformed})

(* json::parse_array and best_effort_array: the array is parsed whole; if  *)
(* that fails on clipped input, the complete object literals are pulled    *)
(* out of it. No records stands for the error: json_sample refuses both.   *)
parse_array(body, clipped, truncated_input) ==
    LET complete == Kept(body, {Malformed, NotObject})
    IN  IF ~clipped /\ \A i \in DOMAIN body : body[i] # Malformed THEN body
        ELSE IF truncated_input THEN complete
        ELSE <<>>

(* json::sample, from the records its parser found. Both parsers and the   *)
(* sampler refuse a file without records.                                  *)
json_sample(records, row_cap, truncated_input) ==
    LET rows == Take(row_cap, records)
    IN  IF records = <<>> \/ \E i \in DOMAIN rows : rows[i] = NotObject
        THEN Invalid
        ELSE SampleResult("json", rows,
                          truncated_input \/ Len(records) > row_cap)

=============================================================================
