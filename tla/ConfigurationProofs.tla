-------------------------- MODULE ConfigurationProofs --------------------------
(* Theorems about Configuration, for all key ids, columns, words, options and
   durations.  What a configuration or the options of a session are is stated field by
   field; what is written as a text, and read from it, is in TextsProofs. *)
EXTENDS Configuration, TextsProofs

\* A configuration went through build().
Checked == stage = "config" => Unambiguous(config.column_key_ids)

\* What makes a configuration checks it.
LEMMA CheckedStep == Checked /\ [Next]_vars => Checked'
<1> SUFFICES ASSUME Checked, [Next]_vars PROVE Checked'
    OBVIOUS
<1>1. CASE FromOptions
    <2> DEFINE o == ToExtensionOptions(session).encryption
    <2>1. Configured(o).column_key_ids = Deserialize(o.column_key_ids)
        BY DEF Configured, NewBuilder
    <2>2. stage' = "config" => /\ Unambiguous(Deserialize(o.column_key_ids))
                               /\ config' = Configured(o)
        BY <1>1 DEF FromOptions, Valid
    <2> QED
        BY <2>1, <2>2 DEF Checked
<1>2. CASE Build
    BY <1>2 DEF Build, Checked
<1>3. CASE UNCHANGED <<stage, config>>
    BY <1>3 DEF Checked
<1>4. CASE AddColumnKey \/ SetOptions \/ ToOptions \/ EnterOption
    <2>1. stage' \in {"builder", "session"}
        BY <1>4 DEF AddColumnKey, SetOptions, ToOptions, EnterOption
    <2> QED
        BY <2>1 DEF Checked
<1> QED
    BY <1>1, <1>2, <1>3, <1>4
       DEF Next, vars, SetDecryptionLifetime, FromDecryptionOptions

\* The properties say the same in different words.
LEMMA OneKey == Checked => OneKeyPerColumn
<1> SUFFICES ASSUME Checked, stage = "config", NEW id1 \in DOMAIN config.column_key_ids,
                    NEW id2 \in DOMAIN config.column_key_ids,
                    NEW i \in DOMAIN config.column_key_ids[id1],
                    NEW j \in DOMAIN config.column_key_ids[id2],
                    config.column_key_ids[id1][i] = config.column_key_ids[id2][j]
             PROVE  <<id1, i>> = <<id2, j>>
    BY DEF OneKeyPerColumn
<1>1. /\ <<id1, i>> \in Places(config.column_key_ids)
      /\ <<id2, j>> \in Places(config.column_key_ids)
    BY DEF Places
<1> QED
    BY <1>1 DEF Checked, Unambiguous

\* A column has one key, whatever a configuration was made of.
THEOREM ColumnsHaveOneKey == Spec => []OneKeyPerColumn
<1>1. Init => Checked
    BY DEF Init, Checked
<1> QED
    BY <1>1, CheckedStep, OneKey, PTL DEF Spec

-------------------------------------------------------------------------------
(* Types. *)

\* What options that were accepted are.
EncryptionOptions ==
    [footer_key_id : Seq(Tokens), column_key_ids : Seq(Tokens),
     plaintext_footer : BOOLEAN, double_wrapping : BOOLEAN,
     cache_lifetime_s : Nat \cup {None},
     internal_key_material : BOOLEAN, data_key_length_bits : Nat]

\* The session has values of the types of its options, or some that do not parse.
SessionOK ==
    stage = "session" \/ session # None =>
        \A n \in DOMAIN session \cap Names(Defaults) : session[n] \in Values[n[1]][n[2]]

\* The names of the options there are.
LEMMA DefaultNames ==
    Names(Defaults) = ({"encryption"} \X {"footer_key_id", "column_key_ids", "plaintext_footer",
                                          "double_wrapping", "cache_lifetime_s",
                                          "internal_key_material", "data_key_length_bits"})
                      \cup {<<"decryption", "cache_lifetime_s">>}
<1>1. DOMAIN Defaults = {"encryption", "decryption"}
    BY DEF Defaults
<1>2. DOMAIN Defaults["encryption"] = {"footer_key_id", "column_key_ids", "plaintext_footer",
                                      "double_wrapping", "cache_lifetime_s",
                                      "internal_key_material", "data_key_length_bits"}
    BY DEF Defaults
<1>3. DOMAIN Defaults["decryption"] = {"cache_lifetime_s"}
    BY DEF Defaults
<1> QED
    BY <1>1, <1>2, <1>3 DEF Names

\* The value an option has over the defaults.
ValueOf(entries, p, name) ==
    IF <<p, name>> \in DOMAIN entries THEN entries[<<p, name>>] ELSE Defaults[p][name]

\* The options, one by one.
LEMMA ExtensionOptions ==
    ASSUME NEW entries
    PROVE  ToExtensionOptions(entries)
             = [encryption |->
                   [footer_key_id |-> ValueOf(entries, "encryption", "footer_key_id"),
                    column_key_ids |-> ValueOf(entries, "encryption", "column_key_ids"),
                    plaintext_footer |-> ValueOf(entries, "encryption", "plaintext_footer"),
                    double_wrapping |-> ValueOf(entries, "encryption", "double_wrapping"),
                    cache_lifetime_s |-> ValueOf(entries, "encryption", "cache_lifetime_s"),
                    internal_key_material |->
                        ValueOf(entries, "encryption", "internal_key_material"),
                    data_key_length_bits |->
                        ValueOf(entries, "encryption", "data_key_length_bits")],
                decryption |->
                   [cache_lifetime_s |-> ValueOf(entries, "decryption", "cache_lifetime_s")]]
<1>1. DOMAIN Defaults = {"encryption", "decryption"}
    BY DEF Defaults
<1>2. DOMAIN Defaults["encryption"] = {"footer_key_id", "column_key_ids", "plaintext_footer",
                                      "double_wrapping", "cache_lifetime_s",
                                      "internal_key_material", "data_key_length_bits"}
    BY DEF Defaults
<1>3. DOMAIN Defaults["decryption"] = {"cache_lifetime_s"}
    BY DEF Defaults
<1>4. ToExtensionOptions(entries)
        = [p \in DOMAIN Defaults |-> [name \in DOMAIN Defaults[p] |-> ValueOf(entries, p, name)]]
    BY DEF ToExtensionOptions, ValueOf
<1> DEFINE e == [name \in DOMAIN Defaults["encryption"] |-> ValueOf(entries, "encryption", name)]
           d == [name \in DOMAIN Defaults["decryption"] |-> ValueOf(entries, "decryption", name)]
<1>5. ToExtensionOptions(entries) = [encryption |-> e, decryption |-> d]
    BY <1>1, <1>4
<1>6. e = [footer_key_id |-> ValueOf(entries, "encryption", "footer_key_id"),
           column_key_ids |-> ValueOf(entries, "encryption", "column_key_ids"),
           plaintext_footer |-> ValueOf(entries, "encryption", "plaintext_footer"),
           double_wrapping |-> ValueOf(entries, "encryption", "double_wrapping"),
           cache_lifetime_s |-> ValueOf(entries, "encryption", "cache_lifetime_s"),
           internal_key_material |-> ValueOf(entries, "encryption", "internal_key_material"),
           data_key_length_bits |-> ValueOf(entries, "encryption", "data_key_length_bits")]
    BY <1>2
<1>7. d = [cache_lifetime_s |-> ValueOf(entries, "decryption", "cache_lifetime_s")]
    BY <1>3
<1> QED
    BY <1>5, <1>6, <1>7

\* The types of values, and the defaults, one by one.
LEMMA OptionTypes ==
    /\ Values["encryption"]["footer_key_id"] = Seq(Tokens)
    /\ Values["encryption"]["column_key_ids"] = Seq(Tokens)
    /\ Values["encryption"]["plaintext_footer"] = BOOLEAN \cup {Garbage}
    /\ Values["encryption"]["double_wrapping"] = BOOLEAN \cup {Garbage}
    /\ Values["encryption"]["cache_lifetime_s"] = Nat \cup {Garbage}
    /\ Values["encryption"]["internal_key_material"] = BOOLEAN \cup {Garbage}
    /\ Values["encryption"]["data_key_length_bits"] = Nat \cup {Garbage}
    /\ Values["decryption"]["cache_lifetime_s"] = Nat \cup {Garbage}
    BY DEF Values

LEMMA DefaultOptions ==
    /\ Defaults["encryption"]["footer_key_id"] = << >>
    /\ Defaults["encryption"]["column_key_ids"] = << >>
    /\ Defaults["encryption"]["plaintext_footer"] = FALSE
    /\ Defaults["encryption"]["double_wrapping"] = TRUE
    /\ Defaults["encryption"]["cache_lifetime_s"] = None
    /\ Defaults["encryption"]["internal_key_material"] = TRUE
    /\ Defaults["encryption"]["data_key_length_bits"] = 128
    /\ Defaults["decryption"]["cache_lifetime_s"] = None
    BY DEF Defaults

\* What set() accepts is of the types of the options, and the text of the column keys
\* is a text in any case.
LEMMA OptionsTyped ==
    ASSUME NEW entries,
           \A n \in DOMAIN entries \cap Names(Defaults) : entries[n] \in Values[n[1]][n[2]]
    PROVE  /\ ToExtensionOptions(entries).encryption.column_key_ids \in Seq(Tokens)
           /\ Accepted(entries) =>
                /\ ToExtensionOptions(entries).encryption \in EncryptionOptions
                /\ ToExtensionOptions(entries).decryption.cache_lifetime_s \in Nat \cup {None}
<1> DEFINE V(p, name) == ValueOf(entries, p, name)
<1>1. ASSUME NEW p, NEW name, <<p, name>> \in Names(Defaults)
      PROVE  /\ V(p, name) \in Values[p][name] \/ V(p, name) = Defaults[p][name]
             /\ Accepted(entries) => V(p, name) # Garbage \/ V(p, name) = Defaults[p][name]
    BY <1>1 DEF ValueOf, Accepted
<1> HIDE DEF V
<1>2. /\ V("encryption", "footer_key_id") \in Seq(Tokens)
      /\ V("encryption", "column_key_ids") \in Seq(Tokens)
    <2>1. << >> \in Seq(Tokens)
        BY EmptySeq
    <2>2. /\ <<"encryption", "footer_key_id">> \in Names(Defaults)
          /\ <<"encryption", "column_key_ids">> \in Names(Defaults)
        BY DefaultNames
    <2>3. \A name \in {"footer_key_id", "column_key_ids"} :
              V("encryption", name) \in Seq(Tokens) \/ V("encryption", name) = << >>
        BY <2>2, <1>1, OptionTypes, DefaultOptions
    <2> QED
        BY <2>1, <2>3
<1>3. Accepted(entries) =>
        /\ V("encryption", "plaintext_footer") \in BOOLEAN
        /\ V("encryption", "double_wrapping") \in BOOLEAN
        /\ V("encryption", "internal_key_material") \in BOOLEAN
    <2>1. /\ <<"encryption", "plaintext_footer">> \in Names(Defaults)
          /\ <<"encryption", "double_wrapping">> \in Names(Defaults)
          /\ <<"encryption", "internal_key_material">> \in Names(Defaults)
        BY DefaultNames
    <2>2. ASSUME NEW name, <<"encryption", name>> \in Names(Defaults), Accepted(entries),
                 Values["encryption"][name] = BOOLEAN \cup {Garbage},
                 Defaults["encryption"][name] \in BOOLEAN
          PROVE  V("encryption", name) \in BOOLEAN
        <3> DEFINE v == V("encryption", name)
        <3>1. \/ v = Defaults["encryption"][name]
              \/ v \in Values["encryption"][name] /\ v # Garbage
            BY <2>2, <1>1
        <3>2. CASE v = Defaults["encryption"][name]
            BY <3>2, <2>2, Zenon
        <3>3. CASE v \in Values["encryption"][name] /\ v # Garbage
            BY <3>3, <2>2, Zenon
        <3> QED
            BY <3>1, <3>2, <3>3, Zenon
    <2>3. /\ Defaults["encryption"]["plaintext_footer"] \in BOOLEAN
          /\ Defaults["encryption"]["double_wrapping"] \in BOOLEAN
          /\ Defaults["encryption"]["internal_key_material"] \in BOOLEAN
        BY DefaultOptions
    <2> QED
        BY <2>1, <2>2, <2>3, OptionTypes, Zenon
<1>4. Accepted(entries) =>
        /\ V("encryption", "cache_lifetime_s") \in Nat \cup {None}
        /\ V("encryption", "data_key_length_bits") \in Nat
        /\ V("decryption", "cache_lifetime_s") \in Nat \cup {None}
    <2>1. /\ <<"encryption", "cache_lifetime_s">> \in Names(Defaults)
          /\ <<"encryption", "data_key_length_bits">> \in Names(Defaults)
          /\ <<"decryption", "cache_lifetime_s">> \in Names(Defaults)
        BY DefaultNames
    <2> QED
        BY <2>1, <1>1, OptionTypes, DefaultOptions
<1> QED
    BY <1>2, <1>3, <1>4, ExtensionOptions DEF V, EncryptionOptions

\* What a configuration is made into.
ExtensionOptionsOK(o) ==
    o \in [encryption : EncryptionOptions, decryption : [cache_lifetime_s : Nat \cup {None}]]

\* Options come back out of a session as they went in: it does not keep those without
\* a value, and the defaults of these have no value either.
LEMMA KeptOptions ==
    ASSUME NEW o, ExtensionOptionsOK(o)
    PROVE  /\ \A n \in DOMAIN Kept(o) \cap Names(Defaults) : Kept(o)[n] \in Values[n[1]][n[2]]
           /\ Accepted(Kept(o))
           /\ ToExtensionOptions(Kept(o)) = o
<1> DEFINE names == {"footer_key_id", "column_key_ids", "plaintext_footer",
                     "double_wrapping", "cache_lifetime_s",
                     "internal_key_material", "data_key_length_bits"}
<1>1. DOMAIN o = {"encryption", "decryption"}
    BY DEF ExtensionOptionsOK
<1>2. DOMAIN o["encryption"] = names
    BY DEF ExtensionOptionsOK, EncryptionOptions
<1>3. DOMAIN o["decryption"] = {"cache_lifetime_s"}
    BY DEF ExtensionOptionsOK
<1>4. Names(o) = Names(Defaults)
    BY <1>1, <1>2, <1>3, DefaultNames DEF Names
<1>5. Kept(o) = [n \in {m \in Names(Defaults) : o[m[1]][m[2]] # None} |-> o[n[1]][n[2]]]
    BY <1>4 DEF Kept
<1>6. /\ o["encryption"]["footer_key_id"] \in Seq(Tokens)
      /\ o["encryption"]["column_key_ids"] \in Seq(Tokens)
      /\ o["encryption"]["cache_lifetime_s"] \in Nat \cup {None}
      /\ o["encryption"]["data_key_length_bits"] \in Nat
      /\ o["decryption"]["cache_lifetime_s"] \in Nat \cup {None}
    BY DEF ExtensionOptionsOK, EncryptionOptions
<1>7. /\ o["encryption"]["plaintext_footer"] \in BOOLEAN
      /\ o["encryption"]["double_wrapping"] \in BOOLEAN
      /\ o["encryption"]["internal_key_material"] \in BOOLEAN
    BY DEF ExtensionOptionsOK, EncryptionOptions
<1>8. \A v \in Seq(Tokens) \cup BOOLEAN \cup Nat : v # None /\ v # Garbage
    BY OptionAssumption
<1>9. ASSUME NEW n \in Names(Defaults), o[n[1]][n[2]] # None
      PROVE  o[n[1]][n[2]] \in Values[n[1]][n[2]] /\ o[n[1]][n[2]] # Garbage
    <2>1. PICK name \in names :
            n = <<"encryption", name>> \/ n = <<"decryption", "cache_lifetime_s">>
        BY DefaultNames
    <2>2. CASE n = <<"decryption", "cache_lifetime_s">>
        BY <2>2, <1>6, <1>8, <1>9, OptionTypes
    <2>3. CASE /\ n = <<"encryption", name>>
               /\ name \in {"footer_key_id", "column_key_ids"}
        BY <2>3, <1>6, <1>8, OptionTypes
    <2>4. CASE /\ n = <<"encryption", name>>
               /\ name \in {"cache_lifetime_s", "data_key_length_bits"}
        BY <2>4, <1>6, <1>8, <1>9, OptionTypes
    <2>5. CASE n = <<"encryption", name>> /\ name = "plaintext_footer"
        BY <2>5, <1>7, <1>8, OptionTypes
    <2>6. CASE n = <<"encryption", name>> /\ name = "double_wrapping"
        BY <2>6, <1>7, <1>8, OptionTypes
    <2>7. CASE n = <<"encryption", name>> /\ name = "internal_key_material"
        BY <2>7, <1>7, <1>8, OptionTypes
    <2> QED
        BY <2>1, <2>2, <2>3, <2>4, <2>5, <2>6, <2>7
<1>10. Accepted(Kept(o))
    BY <1>5, <1>9 DEF Accepted
<1>11. ASSUME NEW p, NEW name, <<p, name>> \in Names(Defaults),
              o[p][name] = None => Defaults[p][name] = None
       PROVE  ValueOf(Kept(o), p, name) = o[p][name]
    BY <1>5, <1>11 DEF ValueOf
<1>12. \A name \in names : ValueOf(Kept(o), "encryption", name) = o["encryption"][name]
    <2> SUFFICES ASSUME NEW name \in names
                 PROVE  ValueOf(Kept(o), "encryption", name) = o["encryption"][name]
        OBVIOUS
    <2>1. <<"encryption", name>> \in Names(Defaults)
        BY DefaultNames
    <2>2. CASE name = "cache_lifetime_s"
        BY <2>1, <2>2, <1>11, DefaultOptions
    <2>3. CASE name # "cache_lifetime_s"
        <3>1. o["encryption"][name] # None
            BY <2>3, <1>6, <1>7, <1>8
        <3> QED
            BY <3>1, <2>1, <1>11
    <2> QED
        BY <2>2, <2>3
<1>13. ValueOf(Kept(o), "decryption", "cache_lifetime_s") = o["decryption"]["cache_lifetime_s"]
    <2>1. <<"decryption", "cache_lifetime_s">> \in Names(Defaults)
        BY DefaultNames
    <2> QED
        BY <2>1, <1>11, DefaultOptions
<1>14. /\ o = [encryption |-> o["encryption"], decryption |-> o["decryption"]]
       /\ o["decryption"] = [cache_lifetime_s |-> o["decryption"]["cache_lifetime_s"]]
       /\ o["encryption"]
            = [footer_key_id |-> o["encryption"]["footer_key_id"],
               column_key_ids |-> o["encryption"]["column_key_ids"],
               plaintext_footer |-> o["encryption"]["plaintext_footer"],
               double_wrapping |-> o["encryption"]["double_wrapping"],
               cache_lifetime_s |-> o["encryption"]["cache_lifetime_s"],
               internal_key_material |-> o["encryption"]["internal_key_material"],
               data_key_length_bits |-> o["encryption"]["data_key_length_bits"]]
    BY DEF ExtensionOptionsOK, EncryptionOptions
<1>15. ToExtensionOptions(Kept(o)) = o
    BY <1>12, <1>13, <1>14, ExtensionOptions
<1> QED
    BY <1>5, <1>9, <1>10, <1>15

\* A key id and its columns make an entry, whatever texts they are, and entries make a
\* text.
LEMMA SerializeType ==
    ASSUME NEW keys, DOMAIN keys \subseteq Seq(Tokens), IsFiniteSet(DOMAIN keys),
           keys \in [DOMAIN keys -> Seq(Seq(Tokens))], NEW order \in Orders(keys)
    PROVE  /\ Cardinality(DOMAIN keys) \in Nat
           /\ order \in Surjection(1 .. Cardinality(DOMAIN keys), DOMAIN keys)
           /\ Serialize(keys, order) \in Seq(Tokens)
<1> DEFINE n == Cardinality(DOMAIN keys)
           list == [i \in DOMAIN order |-> Entry(order[i], keys[order[i]])]
<1>1. n \in Nat
    BY FS_CardinalityType
<1>2. order \in Surjection(1 .. n, DOMAIN keys)
    BY DEF Orders, Bijection
<1>3. DOMAIN order = 1 .. n /\ \A i \in 1 .. n : order[i] \in DOMAIN keys
    BY <1>2 DEF Surjection
<1>4. Semicolon \in Tokens /\ Colon \in Tokens /\ Comma \in Tokens
    BY DEF Tokens, Delimiters
<1>5. ASSUME NEW id \in Seq(Tokens), NEW columns \in Seq(Seq(Tokens))
      PROVE  Entry(id, columns) \in Seq(Tokens)
    <2>1. Join(columns, Comma) \in Seq(Tokens)
        BY <1>4, JoinType
    <2>2. <<Colon>> \in Seq(Tokens)
        BY <1>4
    <2>3. id \o <<Colon>> \in Seq(Tokens)
        BY <2>2, ConcatProperties
    <2> QED
        BY <2>1, <2>3, ConcatProperties DEF Entry
<1>6. list \in Seq(Seq(Tokens))
    <2>1. \A i \in 1 .. n : order[i] \in Seq(Tokens) /\ keys[order[i]] \in Seq(Seq(Tokens))
        BY <1>3
    <2>2. \A i \in 1 .. n : Entry(order[i], keys[order[i]]) \in Seq(Tokens)
        BY <2>1, <1>5
    <2> HIDE DEF n
    <2> QED
        BY <1>1, <1>3, <2>2
<1>7. Join(list, Semicolon) \in Seq(Tokens)
    BY <1>4, <1>6, JoinType
<1> QED
    BY <1>1, <1>2, <1>7 DEF Serialize

\* Configurations are made into options of their types.
LEMMA OptionsOfConfigurations ==
    ASSUME NEW c, IsConfiguration(c), NEW d \in Durations \cup {None},
           NEW order \in Orders(c.column_key_ids)
    PROVE  ExtensionOptionsOK(Options([encryption |-> c, decryption |-> d], order))
<1>1. Serialize(c.column_key_ids, order) \in Seq(Tokens)
    BY SerializeType DEF IsConfiguration
<1>2. /\ c.footer_key_id \in Seq(Tokens)
      /\ c.cache_lifetime \in Durations \cup {None}
    BY DEF IsConfiguration
<1>3. /\ c.plaintext_footer \in BOOLEAN
      /\ c.double_wrapping \in BOOLEAN
    BY Zenon DEF IsConfiguration
<1>5. /\ c.internal_key_material = TRUE
      /\ c.data_key_length_bits = 128
    BY DEF IsConfiguration
<1>4. ASSUME NEW l \in Durations \cup {None}
      PROVE  AsSecs(l) \in Nat \cup {None}
    <2>1. CASE l = None
        BY <2>1 DEF AsSecs
    <2>2. CASE l # None
        <3>1. l \in Durations
            BY <2>2
        <3>2. l.secs \in Nat
            BY <3>1 DEF Durations
        <3> QED
            BY <2>2, <3>2 DEF AsSecs
    <2> QED
        BY <2>1, <2>2
<1> DEFINE e == [footer_key_id |-> c.footer_key_id,
                 column_key_ids |-> Serialize(c.column_key_ids, order),
                 plaintext_footer |-> c.plaintext_footer,
                 double_wrapping |-> c.double_wrapping,
                 cache_lifetime_s |-> AsSecs(c.cache_lifetime),
                 internal_key_material |-> TRUE,
                 data_key_length_bits |-> 128]
<1>6. Options([encryption |-> c, decryption |-> d], order)
        = [encryption |-> e, decryption |-> [cache_lifetime_s |-> AsSecs(d)]]
    BY <1>5 DEF Options
<1>7. e \in EncryptionOptions
    <2>1. AsSecs(c.cache_lifetime) \in Nat \cup {None}
        BY <1>2, <1>4
    <2>2. TRUE \in BOOLEAN /\ 128 \in Nat
        OBVIOUS
    <2> QED
        BY <2>1, <2>2, <1>1, <1>2, <1>3, Zenon DEF EncryptionOptions
<1> HIDE DEF e
<1> QED
    BY <1>4, <1>6, <1>7, SMT DEF ExtensionOptionsOK

\* A duration of whole seconds is one, and no fraction is lost of it.
LEMMA SecondsOfDurations ==
    /\ \A n \in Nat \cup {None} : FromSecs(n) \in Durations \cup {None}
    /\ \A n \in Nat \cup {None} : FromSecs(n) = Whole(FromSecs(n))
    /\ DefaultLifetime \in Durations
<1>1. 0 \in 0 .. NanosPerSecond - 1
    <2>1. NanosPerSecond \in Nat \ {0}
        BY SMT DEF NanosPerSecond
    <2> QED
        BY <2>1, SMT
<1>2. \A n \in Nat : [secs |-> n, nanos |-> 0] \in Durations
    BY <1>1, SMT DEF Durations
<1>3. \A n \in Nat \cup {None} : FromSecs(n) \in Durations \cup {None}
    BY <1>2 DEF FromSecs
<1>4. DefaultLifetime \in Durations
    BY <1>2, SMT DEF DefaultLifetime
<1>5. ASSUME NEW n \in Nat \cup {None}
      PROVE  FromSecs(n) = Whole(FromSecs(n))
    BY DEF FromSecs, Whole
<1> QED
    BY <1>3, <1>4, <1>5

\* A configuration by its fields.
FieldNames == {"footer_key_id", "column_key_ids", "plaintext_footer", "double_wrapping",
               "cache_lifetime", "internal_key_material", "data_key_length_bits"}

Fields(c) ==
    /\ c = [name \in FieldNames |-> c[name]]
    /\ c.footer_key_id \in Seq(Tokens)
    /\ DOMAIN c.column_key_ids \subseteq Seq(Tokens)
    /\ IsFiniteSet(DOMAIN c.column_key_ids)
    /\ c.column_key_ids \in [DOMAIN c.column_key_ids -> Seq(Seq(Tokens))]
    /\ c.plaintext_footer \in BOOLEAN
    /\ c.double_wrapping \in BOOLEAN
    /\ c.cache_lifetime \in Durations \cup {None}
    /\ c.internal_key_material = TRUE
    /\ c.data_key_length_bits = 128

\* Both ways between the fields and the type.
LEMMA ConfigurationByFields ==
    ASSUME NEW c, Fields(c)
    PROVE  IsConfiguration(c)
<1> DEFINE f == c.footer_key_id
           keys == c.column_key_ids
           p == c.plaintext_footer
           w == c.double_wrapping
           l == c.cache_lifetime
           i == c.internal_key_material
           b == c.data_key_length_bits
<1>1. c = [footer_key_id |-> f, column_key_ids |-> keys, plaintext_footer |-> p,
           double_wrapping |-> w, cache_lifetime |-> l, internal_key_material |-> i,
           data_key_length_bits |-> b]
    <2>1. c = [name \in FieldNames |-> c[name]]
        BY DEF Fields
    <2> QED
        BY <2>1 DEF FieldNames
<1>2. /\ f \in Seq(Tokens) /\ p \in BOOLEAN /\ w \in BOOLEAN
      /\ l \in Durations \cup {None}
      /\ keys \in [DOMAIN keys -> Seq(Seq(Tokens))]
      /\ i = TRUE /\ b = 128
    BY Zenon DEF Fields
<1> HIDE DEF f, keys, p, w, l, i, b
<1>3. c \in [footer_key_id : Seq(Tokens),
             column_key_ids : [DOMAIN keys -> Seq(Seq(Tokens))],
             plaintext_footer : BOOLEAN, double_wrapping : BOOLEAN,
             cache_lifetime : Durations \cup {None},
             internal_key_material : {TRUE}, data_key_length_bits : {128}]
    BY <1>1, <1>2, Zenon
<1> QED
    BY <1>3, Zenon DEF IsConfiguration, Fields, keys

LEMMA ConfigurationFields ==
    ASSUME NEW c, IsConfiguration(c)
    PROVE  Fields(c)
<1>1. /\ c.plaintext_footer \in BOOLEAN
      /\ c.double_wrapping \in BOOLEAN
    BY Zenon DEF IsConfiguration
<1>2. c = [name \in FieldNames |-> c[name]]
    BY SMT DEF IsConfiguration, FieldNames
<1>3. c.internal_key_material = TRUE /\ c.data_key_length_bits = 128
    BY Zenon DEF IsConfiguration
<1>4. /\ c.footer_key_id \in Seq(Tokens)
      /\ c.cache_lifetime \in Durations \cup {None}
      /\ DOMAIN c.column_key_ids \subseteq Seq(Tokens)
      /\ IsFiniteSet(DOMAIN c.column_key_ids)
      /\ c.column_key_ids \in [DOMAIN c.column_key_ids -> Seq(Seq(Tokens))]
    BY SMT DEF IsConfiguration
<1> QED
    BY <1>1, <1>2, <1>3, <1>4, Zenon DEF Fields

\* Configurations with equal fields are equal.
LEMMA SameFields ==
    ASSUME NEW c, NEW d, c = [name \in FieldNames |-> c[name]],
           d = [name \in FieldNames |-> d[name]],
           c.footer_key_id = d.footer_key_id, c.column_key_ids = d.column_key_ids,
           c.plaintext_footer = d.plaintext_footer, c.double_wrapping = d.double_wrapping,
           c.cache_lifetime = d.cache_lifetime,
           c.internal_key_material = d.internal_key_material,
           c.data_key_length_bits = d.data_key_length_bits
    PROVE  c = d
<1>1. \A name \in FieldNames : c[name] = d[name]
    BY DEF FieldNames
<1> QED
    BY <1>1

\* The builder made from options that were accepted.
LEMMA ConfiguredType ==
    ASSUME NEW o \in EncryptionOptions
    PROVE  /\ IsConfiguration(Configured(o))
           /\ Configured(o).column_key_ids = Deserialize(o.column_key_ids)
           /\ Configured(o).cache_lifetime = FromSecs(o.cache_lifetime_s)
           /\ Expressible(Configured(o).column_key_ids)
<1> DEFINE keys == Deserialize(o.column_key_ids)
<1>1. /\ o.footer_key_id \in Seq(Tokens)
      /\ o.column_key_ids \in Seq(Tokens)
      /\ o.cache_lifetime_s \in Nat \cup {None}
    BY SMT DEF EncryptionOptions
<1>2. /\ o.plaintext_footer \in BOOLEAN
      /\ o.double_wrapping \in BOOLEAN
    BY Zenon DEF EncryptionOptions
<1>3. FromSecs(o.cache_lifetime_s) \in Durations \cup {None}
    BY <1>1, SecondsOfDurations
<1>4. /\ DOMAIN keys \subseteq Seq(Tokens \ {Semicolon, Colon})
      /\ IsFiniteSet(DOMAIN keys)
      /\ keys \in [DOMAIN keys -> Seq(Seq(Tokens \ {Semicolon, Comma}) \ {<< >>})]
    BY <1>1, DeserializeType
<1>5. /\ Seq(Tokens \ {Semicolon, Colon}) \subseteq Seq(Tokens)
      /\ Seq(Seq(Tokens \ {Semicolon, Comma}) \ {<< >>}) \subseteq Seq(Seq(Tokens))
    BY SMT
<1> HIDE DEF keys
<1>6. DOMAIN keys \subseteq Seq(Tokens) /\ keys \in [DOMAIN keys -> Seq(Seq(Tokens))]
    BY <1>4, <1>5
<1> DEFINE c == Configured(o)
<1>7. /\ c = [name \in FieldNames |-> c[name]]
      /\ c.footer_key_id = o.footer_key_id
      /\ c.column_key_ids = keys
      /\ c.plaintext_footer = o.plaintext_footer
      /\ c.double_wrapping = o.double_wrapping
      /\ c.cache_lifetime = FromSecs(o.cache_lifetime_s)
      /\ c.internal_key_material = TRUE
      /\ c.data_key_length_bits = 128
    BY DEF Configured, NewBuilder, FieldNames, keys
<1>8. IsConfiguration(Configured(o))
    <2> HIDE DEF c
    <2>1. Fields(c)
        BY <1>1, <1>2, <1>3, <1>4, <1>6, <1>7, Zenon DEF Fields
    <2> QED
        BY <2>1, ConfigurationByFields DEF c
<1>9. Expressible(keys)
    BY <1>4 DEF Expressible
<1> QED
    BY <1>7, <1>8, <1>9 DEF keys

\* The inductive invariant: in the session are values of the types of their options.
TypeInv ==
    /\ stage \in {"builder", "config", "session", "failed"}
    /\ IsConfiguration(config)
    /\ decryption \in Durations \cup {None}
    /\ SessionOK

\* The text of the column keys is one of the values in the session.
LEMMA TypeInvTypes == TypeInv => TypeOK
<1> SUFFICES ASSUME TypeInv, session # None
             PROVE  ColumnText \in Seq(Tokens)
    BY DEF TypeInv, TypeOK
<1> QED
    BY OptionsTyped DEF TypeInv, SessionOK, ColumnText

\* A builder with its defaults is typed.
LEMMA NewBuilderType == \A id \in FooterKeyIds : IsConfiguration(NewBuilder(id))
<1> SUFFICES ASSUME NEW id \in FooterKeyIds PROVE IsConfiguration(NewBuilder(id))
    OBVIOUS
<1> DEFINE c == NewBuilder(id)
<1>1. /\ c = [name \in FieldNames |-> c[name]]
      /\ id \in Seq(Tokens)
    BY ConfigurationAssumption DEF NewBuilder, FieldNames
<1>2. /\ c.footer_key_id = id /\ c.column_key_ids = << >>
      /\ c.plaintext_footer = FALSE /\ c.double_wrapping = TRUE
      /\ c.cache_lifetime = DefaultLifetime
      /\ c.internal_key_material = TRUE /\ c.data_key_length_bits = 128
    BY DEF NewBuilder
<1> HIDE DEF c
<1>3. /\ DOMAIN << >> = {}
      /\ << >> \in [DOMAIN << >> -> Seq(Seq(Tokens))]
    OBVIOUS
<1>4. IsFiniteSet({})
    BY FS_EmptySet
<1>5. /\ DOMAIN c.column_key_ids \subseteq Seq(Tokens)
      /\ IsFiniteSet(DOMAIN c.column_key_ids)
      /\ c.column_key_ids \in [DOMAIN c.column_key_ids -> Seq(Seq(Tokens))]
    BY <1>2, <1>3, <1>4
<1>6. c.cache_lifetime \in Durations \cup {None}
    BY <1>2, SecondsOfDurations
<1>7. Fields(c)
    BY <1>1, <1>2, <1>5, <1>6, Zenon DEF Fields
<1> QED
    BY <1>7, ConfigurationByFields DEF c

\* A map with one value more.
LEMMA PutType ==
    ASSUME NEW map, NEW D, NEW S, NEW key \in D, NEW value \in S,
           map \in [DOMAIN map -> S], DOMAIN map \subseteq D, IsFiniteSet(DOMAIN map)
    PROVE  /\ DOMAIN Put(map, key, value) \subseteq D
           /\ IsFiniteSet(DOMAIN Put(map, key, value))
           /\ Put(map, key, value) \in [DOMAIN Put(map, key, value) -> S]
<1>1. DOMAIN Put(map, key, value) = DOMAIN map \cup {key}
    BY DEF Put
<1>2. IsFiniteSet(DOMAIN map \cup {key})
    BY FS_AddElement
<1> QED
    BY <1>1, <1>2 DEF Put

\* The setters of the builder keep it typed.
LEMMA AddedColumnsType ==
    TypeInv /\ AddColumnKey => IsConfiguration(config')
<1> SUFFICES ASSUME TypeInv, NEW id \in KeyIds,
                    NEW columns \in BoundedSeq(ColumnNames, MaxColumns),
                    config' = [config EXCEPT !.column_key_ids =
                        Put(config.column_key_ids, id,
                            (IF id \in DOMAIN config.column_key_ids
                             THEN config.column_key_ids[id] ELSE << >>) \o columns)]
             PROVE  IsConfiguration(config')
    BY DEF AddColumnKey
<1> DEFINE keys == config.column_key_ids
           before == IF id \in DOMAIN keys THEN keys[id] ELSE << >>
<1>1. Fields(config)
    BY ConfigurationFields DEF TypeInv
<1>2. id \in Seq(Tokens) /\ columns \in Seq(Seq(Tokens))
    <2>1. columns \in Seq(ColumnNames)
        BY ConfigurationAssumption, SeqDef DEF BoundedSeq, SeqOf
    <2> QED
        BY <2>1, ConfigurationAssumption
<1>3. before \o columns \in Seq(Seq(Tokens))
    <2>1. before \in Seq(Seq(Tokens))
        BY <1>1, EmptySeq DEF Fields
    <2> QED
        BY <2>1, <1>2, ConcatProperties
<1> HIDE DEF before
<1> DEFINE new == Put(keys, id, before \o columns)
<1>4. /\ DOMAIN new \subseteq Seq(Tokens)
      /\ IsFiniteSet(DOMAIN new)
      /\ new \in [DOMAIN new -> Seq(Seq(Tokens))]
    BY <1>1, <1>2, <1>3, PutType DEF Fields
<1>5. config' = [config EXCEPT !.column_key_ids = new]
    BY DEF before
<1> HIDE DEF new
<1>6. config' = [name \in FieldNames |-> config'[name]]
    <2>1. DOMAIN config = FieldNames
        BY <1>1 DEF Fields
    <2> QED
        BY <1>5, <2>1
<1>7. /\ config'.footer_key_id = config.footer_key_id /\ config'.column_key_ids = new
      /\ config'.plaintext_footer = config.plaintext_footer
      /\ config'.double_wrapping = config.double_wrapping
      /\ config'.cache_lifetime = config.cache_lifetime
      /\ config'.internal_key_material = TRUE
      /\ config'.data_key_length_bits = 128
    <2>1. DOMAIN config = FieldNames
        BY <1>1 DEF Fields
    <2> QED
        BY <1>1, <1>5, <2>1 DEF Fields, FieldNames
<1>8. Fields(config')
    BY <1>1, <1>4, <1>6, <1>7, Zenon DEF Fields
<1> QED
    BY <1>8, ConfigurationByFields

LEMMA SetOptionsType == TypeInv /\ SetOptions => IsConfiguration(config')
<1> SUFFICES ASSUME TypeInv, SetOptions PROVE IsConfiguration(config')
    OBVIOUS
<1>1. Fields(config)
    BY ConfigurationFields DEF TypeInv
<1>2. DOMAIN config = FieldNames
    BY <1>1 DEF Fields
<1>3. ASSUME NEW name \in {"plaintext_footer", "double_wrapping", "cache_lifetime"}, NEW value,
             name \in {"plaintext_footer", "double_wrapping"} => value \in BOOLEAN,
             name = "cache_lifetime" => value \in Durations \cup {None},
             config' = [config EXCEPT ![name] = value]
      PROVE  IsConfiguration(config')
    <2>1. config' = [n \in FieldNames |-> IF n = name THEN value ELSE config[n]]
        BY <1>2, <1>3
    <2>2. config' = [n \in FieldNames |-> config'[n]]
        BY <2>1
    <2>3. /\ config'.footer_key_id = config.footer_key_id
          /\ config'.column_key_ids = config.column_key_ids
          /\ config'.plaintext_footer = IF name = "plaintext_footer" THEN value
                                        ELSE config.plaintext_footer
          /\ config'.double_wrapping = IF name = "double_wrapping" THEN value
                                       ELSE config.double_wrapping
          /\ config'.cache_lifetime = IF name = "cache_lifetime" THEN value
                                      ELSE config.cache_lifetime
          /\ config'.internal_key_material = config.internal_key_material
          /\ config'.data_key_length_bits = config.data_key_length_bits
        BY <2>1, <1>3 DEF FieldNames
    <2>4. config.internal_key_material = TRUE /\ config.data_key_length_bits = 128
        BY <1>1 DEF Fields
    <2>5. config'.plaintext_footer \in BOOLEAN
        BY <1>1, <1>3, <2>3, Zenon DEF Fields
    <2>6. config'.double_wrapping \in BOOLEAN
        BY <1>1, <1>3, <2>3, Zenon DEF Fields
    <2>7. config'.cache_lifetime \in Durations \cup {None}
        <3>1. config.cache_lifetime \in Durations \cup {None}
            BY <1>1, Zenon DEF Fields
        <3> QED
            BY <3>1, <1>3, <2>3
    <2>8. Fields(config')
        BY <1>1, <2>2, <2>3, <2>4, <2>5, <2>6, <2>7, Zenon DEF Fields
    <2> QED
        BY <2>8, ConfigurationByFields
<1>4. CASE \E b \in BOOLEAN : config' = [config EXCEPT !.plaintext_footer = b]
    BY <1>3, <1>4, Zenon
<1>5. CASE \E b \in BOOLEAN : config' = [config EXCEPT !.double_wrapping = b]
    BY <1>3, <1>5, Zenon
<1>6. CASE \E l \in Lifetimes : config' = [config EXCEPT !.cache_lifetime = l]
    BY <1>3, <1>6, ConfigurationAssumption
<1> QED
    BY <1>4, <1>5, <1>6 DEF SetOptions

\* Every step keeps the types.
LEMMA TypeInvStep == TypeInv /\ [Next]_vars => TypeInv'
<1> SUFFICES ASSUME TypeInv, [Next]_vars PROVE TypeInv'
    OBVIOUS
<1>1. CASE AddColumnKey
    BY <1>1, AddedColumnsType DEF TypeInv, AddColumnKey, SessionOK
<1>2. CASE SetOptions
    BY <1>2, SetOptionsType DEF TypeInv, SetOptions, SessionOK
<1>3. CASE Build
    BY <1>3 DEF TypeInv, Build, SessionOK
<1>4. CASE SetDecryptionLifetime
    BY <1>4, ConfigurationAssumption DEF TypeInv, SetDecryptionLifetime, SessionOK
<1>5. CASE ToOptions
    <2>1. PICK order \in Orders(config.column_key_ids) :
            session' = Kept(Options([encryption |-> config, decryption |-> decryption], order))
        BY <1>5 DEF ToOptions
    <2> DEFINE o == Options([encryption |-> config, decryption |-> decryption], order)
    <2>2. ExtensionOptionsOK(o)
        BY OptionsOfConfigurations DEF TypeInv
    <2> HIDE DEF o
    <2>3. SessionOK'
        BY <2>1, <2>2, KeptOptions DEF SessionOK, o
    <2> QED
        BY <1>5, <2>3 DEF ToOptions, TypeInv
<1>6. CASE EnterOption
    <2> DEFINE entries == IF session = None THEN << >> ELSE session
    <2>1. PICK option \in Entered : session' = Put(entries, option.name, option.value)
        BY <1>6 DEF EnterOption
    <2>2. \A n \in DOMAIN entries \cap Names(Defaults) : entries[n] \in Values[n[1]][n[2]]
        BY DEF TypeInv, SessionOK
    <2> HIDE DEF entries
    <2>3. /\ DOMAIN session' = DOMAIN entries \cup {option.name}
          /\ \A n \in DOMAIN session' :
                 session'[n] = IF n = option.name THEN option.value ELSE entries[n]
        BY <2>1 DEF Put
    <2>4. option.name \in Names(Defaults) =>
              option.value \in Values[option.name[1]][option.name[2]]
        BY OptionAssumption
    <2>5. SessionOK'
        BY <2>2, <2>3, <2>4 DEF SessionOK
    <2> QED
        BY <1>6, <2>5 DEF EnterOption, TypeInv
<1>7. CASE FromOptions
    <2> DEFINE o == ToExtensionOptions(session).encryption
    <2>1. Valid(session) => o \in EncryptionOptions
        BY <1>7, OptionsTyped DEF Valid, FromOptions, TypeInv, SessionOK
    <2> QED
        BY <1>7, <2>1, ConfiguredType DEF FromOptions, TypeInv, SessionOK
<1>8. CASE FromDecryptionOptions
    <2>1. ToExtensionOptions(session).decryption.cache_lifetime_s \in Nat \cup {None}
        BY <1>8, OptionsTyped DEF FromDecryptionOptions, TypeInv, SessionOK
    <2> QED
        BY <1>8, <2>1, SecondsOfDurations DEF FromDecryptionOptions, TypeInv, SessionOK
<1>9. CASE UNCHANGED vars
    BY <1>9 DEF vars, TypeInv, SessionOK
<1> QED
    BY <1>1, <1>2, <1>3, <1>4, <1>5, <1>6, <1>7, <1>8, <1>9 DEF Next

\* Each variable has its type in every reachable state: in particular a configuration
\* asks for internal key material and keys of 128 bits, whatever a session says of them.
THEOREM TypesHold == Spec => []TypeOK
<1>1. Init => TypeInv
    BY NewBuilderType, SecondsOfDurations DEF Init, TypeInv, SessionOK
<1> QED
    BY <1>1, TypeInvStep, TypeInvTypes, PTL DEF Spec

-------------------------------------------------------------------------------
(* What comes from a text. *)

\* The inductive invariant: a builder is not from a session.
ParsedInv ==
    /\ ParsedIsExpressible
    /\ stage = "builder" => session = None

\* Only FromOptions makes a configuration of a session.
LEMMA ParsedInvStep == TypeInv /\ ParsedInv /\ [Next]_vars => ParsedInv'
<1> SUFFICES ASSUME TypeInv, ParsedInv, [Next]_vars PROVE ParsedInv'
    OBVIOUS
<1>1. CASE FromOptions
    <2> DEFINE o == ToExtensionOptions(session).encryption
    <2>1. Valid(session) => o \in EncryptionOptions
        BY <1>1, OptionsTyped DEF Valid, FromOptions, TypeInv, SessionOK
    <2>2. CASE Valid(session)
        <3>1. config' = Configured(o)
            BY <1>1, <2>2 DEF FromOptions
        <3>2. Expressible(config'.column_key_ids)
            BY <2>1, <2>2, <3>1, ConfiguredType
        <3>3. o.cache_lifetime_s \in Nat \cup {None}
            BY <2>1, <2>2, SMT DEF EncryptionOptions
        <3>4. config'.cache_lifetime = FromSecs(o.cache_lifetime_s)
            BY <2>1, <2>2, <3>1, ConfiguredType
        <3>5. config'.cache_lifetime = Whole(config'.cache_lifetime)
            BY <3>3, <3>4, SecondsOfDurations
        <3> QED
            BY <1>1, <2>2, <3>2, <3>5 DEF FromOptions, ParsedInv, ParsedIsExpressible
    <2>3. CASE ~Valid(session)
        BY <1>1, <2>3 DEF FromOptions, ParsedInv, ParsedIsExpressible
    <2> QED
        BY <2>2, <2>3
<1>2. CASE Build
    BY <1>2 DEF Build, ParsedInv, ParsedIsExpressible
<1>3. CASE UNCHANGED <<stage, config, session>>
    BY <1>3 DEF ParsedInv, ParsedIsExpressible
<1>4. CASE AddColumnKey \/ SetOptions
    BY <1>4 DEF AddColumnKey, SetOptions, ParsedInv, ParsedIsExpressible
<1>5. CASE ToOptions \/ EnterOption
    BY <1>5 DEF ToOptions, EnterOption, ParsedInv, ParsedIsExpressible
<1> QED
    BY <1>1, <1>2, <1>3, <1>4, <1>5
       DEF Next, vars, SetDecryptionLifetime, FromDecryptionOptions

\* What came from options can be expressed by options, whatever was in them.
THEOREM WhatIsParsedIsExpressible == Spec => []ParsedIsExpressible
<1>1. Init => TypeInv /\ ParsedInv
    BY NewBuilderType, SecondsOfDurations
       DEF Init, TypeInv, SessionOK, ParsedInv, ParsedIsExpressible
<1>2. ParsedInv => ParsedIsExpressible
    BY DEF ParsedInv
<1> QED
    BY <1>1, <1>2, TypeInvStep, ParsedInvStep, PTL DEF Spec

-------------------------------------------------------------------------------
(* There and back. *)

\* The options a session was given by a program stay there, they are those of the
\* configurations they came from in some order of the keys, and what they are made
\* into again is what the conversion makes of them.
OriginOK ==
    origin # None =>
        /\ stage # "builder"
        /\ IsConfiguration(origin.encryption)
        /\ Unambiguous(origin.encryption.column_key_ids)
        /\ origin.decryption \in Durations \cup {None}
        /\ Whole(decryption) = Whole(origin.decryption)
        /\ origin = [encryption |-> origin.encryption, decryption |-> origin.decryption]
        /\ \E order \in Orders(origin.encryption.column_key_ids) :
               LET o == Options(origin, order)
               IN  /\ session = Kept(o)
                   /\ stage = "config" => Valid(session) /\ config = Configured(o.encryption)
                   /\ stage = "failed" => ~Valid(session)

\* Seconds keep all of a duration but its fraction.
LEMMA SecondsThereAndBack ==
    /\ \A l \in Durations \cup {None} : FromSecs(AsSecs(l)) = Whole(l)
    /\ \A l \in Durations \cup {None} : Whole(Whole(l)) = Whole(l)
<1>1. None \notin Nat
    BY OptionAssumption
<1> SUFFICES ASSUME NEW l \in Durations \cup {None}
             PROVE  FromSecs(AsSecs(l)) = Whole(l) /\ Whole(Whole(l)) = Whole(l)
    OBVIOUS
<1>2. CASE l = None
    BY <1>2 DEF FromSecs, AsSecs, Whole
<1>3. CASE l # None
    <2>1. /\ l = [secs |-> l.secs, nanos |-> l.nanos]
          /\ l.secs \in Nat
        BY <1>3 DEF Durations
    <2>2. Whole(l) = [secs |-> l.secs, nanos |-> 0]
        BY <1>3, <2>1 DEF Whole
    <2>3. FromSecs(AsSecs(l)) = [secs |-> l.secs, nanos |-> 0]
        BY <1>1, <1>3, <2>1 DEF FromSecs, AsSecs
    <2>4. Whole(Whole(l)) = Whole(l)
        BY <2>2 DEF Whole
    <2> QED
        BY <2>2, <2>3, <2>4
<1> QED
    BY <1>2, <1>3

\* What the session of a program holds is its options.
LEMMA OptionsOfOrigin ==
    ASSUME TypeInv, OriginOK, origin # None,
           NEW order \in Orders(origin.encryption.column_key_ids),
           session = Kept(Options(origin, order))
    PROVE  /\ ExtensionOptionsOK(Options(origin, order))
           /\ Accepted(session)
           /\ ToExtensionOptions(session) = Options(origin, order)
<1>1. ExtensionOptionsOK(Options(origin, order))
    <2>1. ExtensionOptionsOK(Options([encryption |-> origin.encryption,
                                      decryption |-> origin.decryption], order))
        BY OptionsOfConfigurations DEF OriginOK
    <2>2. origin = [encryption |-> origin.encryption, decryption |-> origin.decryption]
        BY DEF OriginOK
    <2> QED
        BY <2>1, <2>2, Zenon
<1> QED
    BY <1>1, KeptOptions

\* ToOptions establishes it, and what leaves the session keeps it.
LEMMA OriginOKStep == TypeInv /\ Checked /\ OriginOK /\ [Next]_vars => OriginOK'
<1> SUFFICES ASSUME TypeInv, Checked, OriginOK, [Next]_vars, origin' # None PROVE OriginOK'
    BY DEF OriginOK
<1>1. CASE ToOptions
    <2>1. PICK order \in Orders(config.column_key_ids) :
            session' = Kept(Options([encryption |-> config, decryption |-> decryption], order))
        BY <1>1 DEF ToOptions
    <2>2. /\ origin' = [encryption |-> config, decryption |-> decryption]
          /\ stage = "config" /\ stage' = "session" /\ UNCHANGED decryption
        BY <1>1 DEF ToOptions
    <2>3. origin'.encryption = config /\ origin'.decryption = decryption
        BY <2>2
    <2>4. session' = Kept(Options(origin', order))
        BY <2>1, <2>2
    <2>5. IsConfiguration(config) /\ decryption \in Durations \cup {None}
        BY DEF TypeInv
    <2>6. Unambiguous(config.column_key_ids)
        BY <2>2 DEF Checked
    <2> QED
        BY <2>1, <2>2, <2>3, <2>4, <2>5, <2>6 DEF OriginOK
<1>2. CASE FromOptions
    <2>1. /\ UNCHANGED <<decryption, session, origin>> /\ stage = "session"
          /\ config' = IF Valid(session)
                       THEN Configured(ToExtensionOptions(session).encryption) ELSE config
          /\ stage' = IF Valid(session) THEN "config" ELSE "failed"
        BY <1>2 DEF FromOptions
    <2>2. PICK order \in Orders(origin.encryption.column_key_ids) :
            session = Kept(Options(origin, order))
        BY <2>1 DEF OriginOK
    <2>3. ToExtensionOptions(session) = Options(origin, order)
        BY <2>1, <2>2, OptionsOfOrigin
    <2>4. /\ stage' = "config" =>
                /\ Valid(session)
                /\ config' = Configured(Options(origin, order).encryption)
          /\ stage' = "failed" => ~Valid(session)
          /\ stage' # "builder"
        BY <2>1, <2>3
    <2> QED
        BY <2>1, <2>2, <2>4 DEF OriginOK
<1>3. CASE FromDecryptionOptions
    <2>1. /\ UNCHANGED <<stage, config, session, origin>>
          /\ decryption' = FromSecs(ToExtensionOptions(session).decryption.cache_lifetime_s)
        BY <1>3 DEF FromDecryptionOptions
    <2>2. PICK order \in Orders(origin.encryption.column_key_ids) :
            session = Kept(Options(origin, order))
        BY <2>1 DEF OriginOK
    <2>3. ToExtensionOptions(session) = Options(origin, order)
        BY <2>1, <2>2, OptionsOfOrigin
    <2>4. Options(origin, order).decryption.cache_lifetime_s = AsSecs(origin.decryption)
        BY DEF Options
    <2>5. decryption' = Whole(origin.decryption)
        BY <2>1, <2>3, <2>4, SecondsThereAndBack DEF OriginOK
    <2>6. Whole(decryption') = Whole(origin.decryption)
        BY <2>1, <2>5, SecondsThereAndBack DEF OriginOK
    <2> QED
        BY <2>1, <2>6 DEF OriginOK
<1>4. CASE UNCHANGED vars
    BY <1>4 DEF vars, OriginOK
<1>5. CASE AddColumnKey \/ SetOptions \/ Build \/ SetDecryptionLifetime \/ EnterOption
    BY <1>5 DEF AddColumnKey, SetOptions, Build, SetDecryptionLifetime, EnterOption, OriginOK
<1> QED
    BY <1>1, <1>2, <1>3, <1>4, <1>5 DEF Next

\* A map that texts can express is read from the session as it was: the options are
\* valid, so that the way back did not fail.
LEMMA RoundTripHolds == TypeInv /\ OriginOK => RoundTrip
<1> DEFINE c == origin.encryption
           keys == c.column_key_ids
<1> SUFFICES ASSUME TypeInv, OriginOK, stage \in {"config", "failed"}, origin # None,
                    Expressible(keys)
             PROVE  /\ stage = "config"
                    /\ config = [c EXCEPT !.cache_lifetime = Whole(@)]
    BY DEF RoundTrip
<1>1. PICK order \in Orders(keys) :
        LET o == Options(origin, order)
        IN  /\ session = Kept(o)
            /\ stage = "config" => Valid(session) /\ config = Configured(o.encryption)
            /\ stage = "failed" => ~Valid(session)
    BY DEF OriginOK
<1> DEFINE o == Options(origin, order)
           text == Serialize(keys, order)
<1>2. /\ Accepted(session)
      /\ ToExtensionOptions(session) = o
      /\ o.encryption \in EncryptionOptions
    <2>1. ExtensionOptionsOK(o) /\ Accepted(session) /\ ToExtensionOptions(session) = o
        BY <1>1, OptionsOfOrigin
    <2> HIDE DEF o
    <2> QED
        BY <2>1, SMT DEF ExtensionOptionsOK
<1>3. o.encryption.column_key_ids = text
    BY DEF Options
<1>4. Fields(c)
    BY ConfigurationFields DEF OriginOK
<1>5. /\ Cardinality(DOMAIN keys) \in Nat
      /\ order \in Surjection(1 .. Cardinality(DOMAIN keys), DOMAIN keys)
    BY <1>4, SerializeType DEF Fields
<1>6. WellFormed(text) /\ Deserialize(text) = keys
    <2>1. Delimiters \subseteq Tokens
        BY DEF Tokens
    <2>2. /\ DOMAIN keys \subseteq Seq(Tokens \ {Semicolon, Colon})
          /\ keys \in [DOMAIN keys -> Seq(Seq(Tokens \ {Semicolon, Comma}) \ {<< >>})]
        <3>1. keys \in [DOMAIN keys -> Seq(Seq(Tokens))]
            BY <1>4, Zenon DEF Fields
        <3> QED
            BY <3>1, SMT DEF Expressible
    <2> HIDE DEF keys
    <2> QED
        BY <1>5, <2>1, <2>2, DeserializeOfSerialize
<1>7. Valid(session)
    BY <1>2, <1>3, <1>6 DEF Valid, OriginOK
<1>8. stage = "config" /\ config = Configured(o.encryption)
    BY <1>1, <1>7
<1>9. Configured(o.encryption) = [c EXCEPT !.cache_lifetime = Whole(@)]
    <2> DEFINE l == Whole(c.cache_lifetime)
               d == Configured(o.encryption)
    <2>1. c.cache_lifetime \in Durations \cup {None}
        BY <1>4 DEF Fields
    <2>2. FromSecs(AsSecs(c.cache_lifetime)) = l
        BY <2>1, SecondsThereAndBack
    <2>3. /\ o.encryption.footer_key_id = c.footer_key_id
          /\ o.encryption.plaintext_footer = c.plaintext_footer
          /\ o.encryption.double_wrapping = c.double_wrapping
          /\ o.encryption.cache_lifetime_s = AsSecs(c.cache_lifetime)
        BY DEF Options
    <2>4. /\ d = [name \in FieldNames |-> d[name]]
          /\ d.footer_key_id = o.encryption.footer_key_id
          /\ d.column_key_ids = Deserialize(o.encryption.column_key_ids)
          /\ d.plaintext_footer = o.encryption.plaintext_footer
          /\ d.double_wrapping = o.encryption.double_wrapping
          /\ d.cache_lifetime = FromSecs(o.encryption.cache_lifetime_s)
          /\ d.internal_key_material = TRUE
          /\ d.data_key_length_bits = 128
        <3> HIDE DEF o
        <3> QED
            BY DEF Configured, NewBuilder, FieldNames
    <2> DEFINE e == [c EXCEPT !.cache_lifetime = l]
    <2>5. /\ e = [name \in FieldNames |-> e[name]]
          /\ e.footer_key_id = c.footer_key_id /\ e.column_key_ids = keys
          /\ e.plaintext_footer = c.plaintext_footer
          /\ e.double_wrapping = c.double_wrapping
          /\ e.cache_lifetime = l
          /\ e.internal_key_material = TRUE
          /\ e.data_key_length_bits = 128
        <3>1. DOMAIN c = FieldNames
            BY <1>4 DEF Fields
        <3> HIDE DEF c, keys, l
        <3> QED
            BY <1>4, <3>1 DEF Fields, FieldNames, keys
    <2> HIDE DEF d, e, l, o, keys, text
    <2>6. /\ d.footer_key_id = e.footer_key_id /\ d.column_key_ids = e.column_key_ids
          /\ d.plaintext_footer = e.plaintext_footer
          /\ d.double_wrapping = e.double_wrapping
          /\ d.cache_lifetime = e.cache_lifetime
          /\ d.internal_key_material = e.internal_key_material
          /\ d.data_key_length_bits = e.data_key_length_bits
        BY <1>3, <1>6, <2>2, <2>3, <2>4, <2>5, Zenon
    <2>7. d = e
        BY <2>4, <2>5, <2>6, SameFields
    <2> QED
        BY <2>7, Zenon DEF d, e, l
<1> QED
    BY <1>8, <1>9, Zenon

\* Nothing comes from a session at first.
LEMMA OriginInitially == Init => TypeInv /\ Checked /\ OriginOK
    BY NewBuilderType, SecondsOfDurations DEF Init, TypeInv, SessionOK, Checked, OriginOK

\* A configuration that texts can express comes back from a session, all but fractions
\* of a second, for every order in which a HashMap gives its keys, for all key ids,
\* columns, lifetimes and words, and however many there are.
THEOREM ConfigurationsComeBack == Spec => []RoundTrip
    BY OriginInitially, TypeInvStep, CheckedStep, OriginOKStep, RoundTripHolds, PTL DEF Spec

\* What files are read with comes back, whatever the names of keys and columns.
THEOREM DecryptionComesBack == Spec => []DecryptionSurvives
<1>1. OriginOK => DecryptionSurvives
    BY DEF OriginOK, DecryptionSurvives
<1> QED
    BY <1>1, OriginInitially, TypeInvStep, CheckedStep, OriginOKStep, PTL DEF Spec
================================================================================
