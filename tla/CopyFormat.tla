----------------------------- MODULE CopyFormat -----------------------------
(***************************************************************************)
(* The text format of COPY (core/copy.rs).  A payload is a sequence of     *)
(* characters; the control characters are called "tab", "lf", "cr", "bs",  *)
(* "ff" and "vt", and "byte" stands for whatever an octal escape denotes.  *)
(* The binary format is refused by every operation and left out.           *)
(***************************************************************************)
EXTENDS DataEntry, SequencesExt

CONSTANTS Numeral(_)     \* to_string of an integer, as a sequence of digits

\* CopyOptions: delimiter, null_string, header.
DefaultOptions == [delimiter |-> "tab", null_string |-> <<"\\", "N">>, header |-> FALSE]

\* What split_copy_fields makes of a backslash and a letter.
Escapes == [b |-> "bs", f |-> "ff", n |-> "lf", r |-> "cr", t |-> "tab", v |-> "vt"]
OctalDigits == {"0", "1", "2", "3", "4", "5", "6", "7"}

-----------------------------------------------------------------------------
(* Writing                                                                 *)

\* The characters written for `ch`: the fixed escapes come before the delimiter.
EscapeChar(ch, delimiter) ==
    CASE ch = "\\" -> <<"\\", "\\">>
      [] ch = "lf" -> <<"\\", "n">>
      [] ch = "cr" -> <<"\\", "r">>
      [] ch = "tab" -> <<"\\", "t">>
      [] ch = delimiter /\ ch \notin {"\\", "lf", "cr", "tab"} -> <<"\\", ch>>
      [] OTHER -> <<ch>>

\* Mutant: a delimiter inside a value is written as it is.
EscapeNoDelimiter(chars, delimiter) ==
    FlattenSeq([i \in DOMAIN chars |-> EscapeChar(chars[i], "lf")])

escape_copy_field(chars, delimiter) ==
    FlattenSeq([i \in DOMAIN chars |-> EscapeChar(chars[i], delimiter)])

\* format_copy_value: NULL is written as null_string, unescaped.
format_copy_value(value, options) ==
    IF value = Null THEN options.null_string
    ELSE escape_copy_field(IF value.type = "text" THEN value.chars ELSE Numeral(value.n),
                           options.delimiter)

\* slice::join of the fields, and the end of the line.
Line(fields, delimiter) ==
    FlattenSeq([i \in DOMAIN fields |->
                   IF i = 1 THEN fields[i] ELSE <<delimiter>> \o fields[i]]) \o <<"lf">>

\* encode_copy_payload: `data` is the sequence of rows, each one a function from
\* the columns it holds; a column it does not hold is written as NULL.
encode_copy_payload(data, columns, options) ==
    LET header == Line([i \in DOMAIN columns |->
                           escape_copy_field(<<columns[i].name>>, options.delimiter)],
                       options.delimiter)
        line(row) == Line([i \in DOMAIN columns |->
                              LET c == columns[i].name
                              IN  format_copy_value(IF c \in DOMAIN row THEN row[c] ELSE Null,
                                                    options)],
                          options.delimiter)
    IN  (IF options.header THEN header ELSE <<>>)
        \o FlattenSeq([i \in DOMAIN data |-> line(data[i])])

-----------------------------------------------------------------------------
(* Reading                                                                 *)

\* str::lines: pieces that end with a line feed, without it and without a
\* carriage return before it.  Everything encode_copy_payload writes ends with one.
RECURSIVE Lines(_)
Lines(text) ==
    IF text = <<>> THEN <<>>
    ELSE LET ends == {i \in DOMAIN text : text[i] = "lf"}
             end == IF ends = {} THEN Len(text) + 1
                    ELSE CHOOSE i \in ends : \A j \in ends : i <= j
             piece == SubSeq(text, 1, end - 1)
             bare == IF ends # {} /\ piece # <<>> /\ Last(piece) = "cr"
                     THEN Front(piece) ELSE piece
         IN  <<bare>> \o Lines(SubSeq(text, end + 1, Len(text)))

\* The fields of `line`, where `current` has been read of the field at hand.
\* At most three octal digits belong to one escape; above 255 it denotes nothing.
RECURSIVE Split(_, _, _)
Split(line, current, delimiter) ==
    IF line = <<>> THEN <<current>>
    ELSE LET rest == Tail(line)
             next == Head(rest)
             digits == CHOOSE n \in 1..3 :
                          /\ n <= Len(rest)
                          /\ \A i \in 1..n : rest[i] \in OctalDigits
                          /\ n = 3 \/ n = Len(rest) \/ rest[n + 1] \notin OctalDigits
         IN  CASE Head(line) = "\\" /\ rest = <<>> ->
                    <<Append(current, "\\")>>
               [] Head(line) = "\\" /\ rest # <<>> /\ next \in DOMAIN Escapes ->
                    Split(Tail(rest), Append(current, Escapes[next]), delimiter)
               [] Head(line) = "\\" /\ rest # <<>> /\ next \in OctalDigits ->
                    Split(SubSeq(rest, digits + 1, Len(rest)),
                          IF digits = 3 /\ next \in {"4", "5", "6", "7"} THEN current
                          ELSE Append(current, "byte"), delimiter)
               [] Head(line) = "\\" /\ rest # <<>> /\ next \notin DOMAIN Escapes \cup OctalDigits ->
                    Split(Tail(rest), Append(current, next), delimiter)
               [] Head(line) = delimiter /\ delimiter # "\\" ->
                    <<current>> \o Split(rest, <<>>, delimiter)
               [] OTHER ->
                    Split(rest, Append(current, Head(line)), delimiter)

split_copy_fields(line, delimiter) == Split(line, <<>>, delimiter)

\* parse_copy_value: the field has already been unescaped when it is compared
\* with null_string.
parse_copy_value(chars, type, options) ==
    IF chars = options.null_string THEN Ok(Null)
    ELSE IF type = "text" THEN Ok(Text(chars))
    ELSE IF \E n \in 0..MaxOf(type) : Numeral(n) = chars
         THEN Ok(Integer(type, CHOOSE n \in 0..MaxOf(type) : Numeral(n) = chars))
         ELSE Err

\* parse_copy_rows: empty lines are skipped, then the header; one bad line and
\* nothing is returned.
parse_copy_rows(text, columns, options) ==
    LET nonempty == SelectSeq(Lines(text), LAMBDA line : line # <<>>)
        lines == IF options.header /\ nonempty # <<>> THEN Tail(nonempty) ELSE nonempty
        fields == [i \in DOMAIN lines |-> split_copy_fields(lines[i], options.delimiter)]
        parsed == [i \in DOMAIN lines |-> [j \in DOMAIN columns |->
                      parse_copy_value(fields[i][j], columns[j].type, options)]]
        position(c) == CHOOSE j \in DOMAIN columns : columns[j].name = c
    IN  IF /\ \A i \in DOMAIN lines : Len(fields[i]) = Len(columns)
           /\ \A i \in DOMAIN lines : \A j \in DOMAIN columns : parsed[i][j].ok
        THEN Ok([i \in DOMAIN lines |->
                   [c \in {columns[j].name : j \in DOMAIN columns} |->
                       parsed[i][position(c)].value]])
        ELSE Err
=============================================================================
