--------------------------- MODULE MCConfiguration ---------------------------
(* A small instance of Configuration for TLC. *)
EXTENDS Configuration

MCFooterKeyIds == {<<"kf">>}

\* A program's key ids, one of them with a colon, and column names, one with a comma.
MCKeyIds == {<<"k">>, <<"l">>, <<"k", ":", "x">>}
MCColumnNames == {<<"x">>, <<"y">>, <<"x", ",", "y">>}
MCWords == {"kf", "k", "l", "x", "y"}

\* Half a second, next to the default of whole ones.
MCLifetimes == {None, [secs |-> 0, nanos |-> 500000000]}

\* Every short text, right or wrong, and longer ones of two entries.
MCTexts ==
    LET Plain == {<<"x">>, <<"y">>}
    IN  BoundedSeq({"k", "x"} \cup Delimiters, 4)
          \cup {Entry(<<id1>>, c1) \o <<";">> \o Entry(<<id2>>, c2) :
                    id1, id2 \in {"k", "l"}, c1, c2 \in BoundedSeq(Plain, 2)}

\* The options a user enters, among them wrong names and wrong values.
MCEntered ==
    LET Option(name, value) == [name |-> name, value |-> value]
    IN  {Option(<<"encryption", "column_key_ids">>, text) : text \in MCTexts}
          \cup {Option(<<"encryption", "data_key_length_bits">>, 256),
                Option(<<"encryption", "internal_key_material">>, FALSE),
                Option(<<"encryption", "cache_lifetime_s">>, 1),
                Option(<<"decryption", "cache_lifetime_s">>, Garbage),
                Option(<<"cache_lifetime_s">>, 1)}
===============================================================================
