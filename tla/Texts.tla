-------------------------------- MODULE Texts ---------------------------------
(* The text of column keys in the options of DataFusion (datafusion.rs), such as
   "key1:x,y;key2:z", and the map from key ids to columns that it stands for.

   A text is a sequence of tokens: words and delimiters.  A key id or a column name is
   a text too. *)
EXTENDS Naturals, SequencesExt

Semicolon == ";"
Colon == ":"
Comma == ","
Delimiters == {Semicolon, Colon, Comma}

\* The parts of a text before its next token, and that token.
Continued(parts, token, delimiter) ==
    IF token = delimiter THEN Append(parts, << >>)
    ELSE [parts EXCEPT ![Len(parts)] = Append(@, token)]

\* The parts of a text between the delimiters; at least one, possibly empty.
Split(text, delimiter) ==
    LET parts[n \in 0 .. Len(text)] ==
            IF n = 0 THEN << << >> >> ELSE Continued(parts[n - 1], text[n], delimiter)
    IN  parts[Len(text)]

\* The parts with the delimiter between them.
Join(parts, delimiter) ==
    FlattenSeq([i \in DOMAIN parts |->
                    IF i = 1 THEN parts[i] ELSE <<delimiter>> \o parts[i]])

NonEmpty(parts) ==
    FlattenSeq([i \in DOMAIN parts |-> IF parts[i] = << >> THEN << >> ELSE <<parts[i]>>])

Entry(id, columns) == id \o <<Colon>> \o Join(columns, Comma)

\* The text for a map whose keys come in the given order.
Serialize(keys, order) ==
    Join([i \in DOMAIN order |-> Entry(order[i], keys[order[i]])], Semicolon)

Entries(text) == NonEmpty(Split(text, Semicolon))

\* The first colon of an entry ends its key id.
FirstColon(entry) == SelectInSeq(entry, LAMBDA token : token = Colon)

KeyIdOf(entry) == SubSeq(entry, 1, FirstColon(entry) - 1)

\* As a deserialize_column_keys that would keep the empty parts of a list.
ColumnsOfMutant(entry) == Split(SubSeq(entry, FirstColon(entry) + 1, Len(entry)), Comma)

ColumnsOf(entry) == NonEmpty(Split(SubSeq(entry, FirstColon(entry) + 1, Len(entry)), Comma))

WellFormed(text) == \A i \in DOMAIN Entries(text) : FirstColon(Entries(text)[i]) # 0

\* An entry replaces an earlier one for the same key.
LastFor(entries, id) ==
    CHOOSE i \in DOMAIN entries :
        /\ KeyIdOf(entries[i]) = id
        /\ \A j \in DOMAIN entries : KeyIdOf(entries[j]) = id => j <= i

\* The map a text stands for.
Deserialize(text) ==
    LET entries == Entries(text)
    IN  [id \in {KeyIdOf(entries[i]) : i \in DOMAIN entries} |->
            ColumnsOf(entries[LastFor(entries, id)])]
===============================================================================
