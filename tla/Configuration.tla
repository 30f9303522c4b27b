---------------------------- MODULE Configuration ----------------------------
(* An EncryptionConfiguration and a DecryptionConfiguration (crypto_factory.rs) and
   their way through the options of a DataFusion session and back (datafusion.rs).

   A program builds configurations call by call, and hands them to a session as
   options, or a user enters options, whose column_key_ids is a text:
   "key1:x,y;key2:z".  The session keeps the options it is given a value for, by
   name.  For every file that is written or read it sets them, over the defaults, in
   options that are then made a configuration.  The ways end in build(), which
   refuses a column that is named twice.

   A key id or a column name is a text (Texts), and nothing keeps delimiters out of
   it: the id of a key in a cloud KMS often has colons, the name of a column may have
   a comma.  A Duration is what it is in Rust, seconds and nanoseconds. *)
EXTENDS Texts, FiniteSets

CONSTANTS FooterKeyIds, KeyIds, ColumnNames, \* what a program passes to the builder
          Words,          \* the words of texts
          Entered,        \* what a user enters: names of options with values
          Lifetimes,      \* durations, and None
          MaxColumns,     \* a bound on the columns added to a key, for TLC
          None,
          Garbage         \* a value that does not parse as its option's type

Tokens == Words \cup Delimiters

NanosPerSecond == 1000000000

Durations == [secs : Nat, nanos : 0 .. NanosPerSecond - 1]

ASSUME ConfigurationAssumption ==
    /\ FooterKeyIds \cup KeyIds \cup ColumnNames \subseteq Seq(Tokens)
    /\ Lifetimes \subseteq Durations \cup {None}
    /\ MaxColumns \in Nat

VARIABLES stage,      \* what there is: a builder, a configuration, a session, an error
          config,     \* the builder or the last configuration
          decryption, \* the cache lifetime, all there is in a DecryptionConfiguration
          session,    \* the options in the session, None before there is one
          origin      \* the configurations they were made from; None if entered

vars == <<stage, config, decryption, session, origin>>

DefaultLifetime == [secs |-> 600, nanos |-> 0]

NewBuilder(footerKeyId) ==
    [footer_key_id |-> footerKeyId, column_key_ids |-> << >>,
     plaintext_footer |-> FALSE, double_wrapping |-> TRUE,
     cache_lifetime |-> DefaultLifetime,
     internal_key_material |-> TRUE, data_key_length_bits |-> 128]

Init ==
    /\ stage = "builder"
    /\ config \in {NewBuilder(id) : id \in FooterKeyIds}
    /\ decryption = DefaultLifetime
    /\ session = None
    /\ origin = None

-------------------------------------------------------------------------------
(* The builder. *)

\* A HashMap with a value put in.
Put(map, key, value) ==
    [k \in DOMAIN map \cup {key} |-> IF k = key THEN value ELSE map[k]]

AddColumnKey ==
    \E id \in KeyIds, columns \in BoundedSeq(ColumnNames, MaxColumns) :
        LET keys == config.column_key_ids
            before == IF id \in DOMAIN keys THEN keys[id] ELSE << >>
        IN  /\ stage = "builder"
            /\ Len(before \o columns) <= MaxColumns
            /\ config' = [config EXCEPT !.column_key_ids = Put(keys, id, before \o columns)]
            /\ UNCHANGED <<stage, decryption, session, origin>>

SetOptions ==
    /\ stage = "builder"
    /\ \/ \E b \in BOOLEAN : config' = [config EXCEPT !.plaintext_footer = b]
       \/ \E b \in BOOLEAN : config' = [config EXCEPT !.double_wrapping = b]
       \/ \E d \in Lifetimes : config' = [config EXCEPT !.cache_lifetime = d]
    /\ UNCHANGED <<stage, decryption, session, origin>>

\* DecryptionConfigurationBuilder.
SetDecryptionLifetime ==
    /\ stage = "config" /\ origin = None
    /\ decryption' \in Lifetimes
    /\ UNCHANGED <<stage, config, session, origin>>

\* Where the columns stand in a map from key ids to columns.
Places(keys) == UNION {{id} \X DOMAIN keys[id] : id \in DOMAIN keys}

\* As a build() that would look for a repetition among the keys but not within one.
UnambiguousMutant(keys) ==
    \A p, q \in Places(keys) :
        p[1] # q[1] => keys[p[1]][p[2]] # keys[q[1]][q[2]]

\* No column is named twice, for one key or for two.
Unambiguous(keys) ==
    \A p, q \in Places(keys) : keys[p[1]][p[2]] = keys[q[1]][q[2]] => p = q

Build ==
    /\ stage = "builder"
    /\ stage' = IF Unambiguous(config.column_key_ids) THEN "config" ELSE "failed"
    /\ UNCHANGED <<config, decryption, session, origin>>

-------------------------------------------------------------------------------
(* Conversions. *)

AsSecs(lifetime) == IF lifetime = None THEN None ELSE lifetime.secs

\* As a conversion that would take the seconds for nanoseconds.
FromSecsMutant(seconds) == IF seconds = None THEN None ELSE [secs |-> 0, nanos |-> seconds]

FromSecs(seconds) == IF seconds = None THEN None ELSE [secs |-> seconds, nanos |-> 0]

\* KmsEncryptionFactoryOptions::new, of the two From.  A HashMap gives its keys in
\* some order.
Orders(keys) == Bijection(1 .. Cardinality(DOMAIN keys), DOMAIN keys)

Options(configs, order) ==
    LET c == configs.encryption
    IN  [encryption |-> [footer_key_id |-> c.footer_key_id,
                         column_key_ids |-> Serialize(c.column_key_ids, order),
                         plaintext_footer |-> c.plaintext_footer,
                         double_wrapping |-> c.double_wrapping,
                         cache_lifetime_s |-> AsSecs(c.cache_lifetime),
                         internal_key_material |-> c.internal_key_material,
                         data_key_length_bits |-> c.data_key_length_bits],
         decryption |-> [cache_lifetime_s |-> AsSecs(configs.decryption)]]

\* As options that cached for ten minutes by default, as the builders do.
DefaultsMutant ==
    [encryption |-> [footer_key_id |-> << >>, column_key_ids |-> << >>,
                     plaintext_footer |-> FALSE, double_wrapping |-> TRUE,
                     cache_lifetime_s |-> 600,
                     internal_key_material |-> TRUE, data_key_length_bits |-> 128],
     decryption |-> [cache_lifetime_s |-> 600]]

Defaults ==
    [encryption |-> [footer_key_id |-> << >>, column_key_ids |-> << >>,
                     plaintext_footer |-> FALSE, double_wrapping |-> TRUE,
                     cache_lifetime_s |-> None,
                     internal_key_material |-> TRUE, data_key_length_bits |-> 128],
     decryption |-> [cache_lifetime_s |-> None]]

\* The values an option can be entered with.  Any text is a String.
Values ==
    LET OrNot(S) == S \cup {Garbage}
    IN  [encryption |-> [footer_key_id |-> Seq(Tokens), column_key_ids |-> Seq(Tokens),
                         plaintext_footer |-> OrNot(BOOLEAN),
                         double_wrapping |-> OrNot(BOOLEAN),
                         cache_lifetime_s |-> OrNot(Nat),
                         internal_key_material |-> OrNot(BOOLEAN),
                         data_key_length_bits |-> OrNot(Nat)],
         decryption |-> [cache_lifetime_s |-> OrNot(Nat)]]

\* The names of the options, qualified.
Names(options) == UNION {{p} \X DOMAIN options[p] : p \in DOMAIN options}

ASSUME OptionAssumption ==
    /\ {None, Garbage} \cap (Seq(Tokens) \cup BOOLEAN \cup Nat) = {}
    /\ \A option \in Entered :
           option.name \in Names(Defaults) =>
               option.value \in Values[option.name[1]][option.name[2]]

\* entries(): the options by name, less those without a value, which the session
\* does not keep.
Kept(options) ==
    [n \in {m \in Names(options) : options[m[1]][m[2]] # None} |-> options[n[1]][n[2]]]

\* set() of each takes the names it knows, with values that parse.
Accepted(entries) ==
    \A n \in DOMAIN entries : n \in Names(Defaults) /\ entries[n] # Garbage

\* The options that set() of each, over the defaults, gives.
ToExtensionOptions(entries) ==
    [p \in DOMAIN Defaults |-> [name \in DOMAIN Defaults[p] |->
        IF <<p, name>> \in DOMAIN entries THEN entries[<<p, name>>] ELSE Defaults[p][name]]]

\* The program configures the session.
ToOptions ==
    /\ stage = "config"
    /\ origin' = [encryption |-> config, decryption |-> decryption]
    /\ \E order \in Orders(config.column_key_ids) : session' = Kept(Options(origin', order))
    /\ stage' = "session"
    /\ UNCHANGED <<config, decryption>>

\* The user sets options in a session instead.
EnterOption ==
    /\ \/ stage = "builder" /\ config \in {NewBuilder(id) : id \in FooterKeyIds}
       \/ stage = "session" /\ origin = None
    /\ \E option \in Entered :
           LET entries == IF session = None THEN << >> ELSE session
           IN  /\ option.name \notin DOMAIN entries
               /\ session' = Put(entries, option.name, option.value)
    /\ stage' = "session"
    /\ UNCHANGED <<config, decryption, origin>>

\* As a try_into that would hand the length of keys to the builder too.
ConfiguredMutant(o) ==
    [NewBuilder(o.footer_key_id) EXCEPT
        !.column_key_ids = Deserialize(o.column_key_ids),
        !.plaintext_footer = o.plaintext_footer,
        !.double_wrapping = o.double_wrapping,
        !.cache_lifetime = FromSecs(o.cache_lifetime_s),
        !.data_key_length_bits = o.data_key_length_bits]

\* The builder made from options.  It has no setter for internal_key_material and
\* the length of keys, which keep their defaults.
Configured(o) ==
    [NewBuilder(o.footer_key_id) EXCEPT
        !.column_key_ids = Deserialize(o.column_key_ids),
        !.plaintext_footer = o.plaintext_footer,
        !.double_wrapping = o.double_wrapping,
        !.cache_lifetime = FromSecs(o.cache_lifetime_s)]

Valid(entries) ==
    LET text == ToExtensionOptions(entries).encryption.column_key_ids
    IN  Accepted(entries) /\ WellFormed(text) /\ Unambiguous(Deserialize(text))

\* get_file_encryption_properties, of a file that is written.  What then refuses key
\* material that is not internal, or keys that are not of 128 bits
\* (crypto_factory.rs:388), never meets it.
FromOptions ==
    LET o == ToExtensionOptions(session).encryption
    IN  /\ stage = "session"
        /\ config' = IF Valid(session) THEN Configured(o) ELSE config
        /\ stage' = IF Valid(session) THEN "config" ELSE "failed"
        /\ UNCHANGED <<decryption, session, origin>>

\* get_file_decryption_properties, of a file that is read.
FromDecryptionOptions ==
    /\ stage = "session" /\ Accepted(session)
    /\ decryption' = FromSecs(ToExtensionOptions(session).decryption.cache_lifetime_s)
    /\ UNCHANGED <<stage, config, session, origin>>

-------------------------------------------------------------------------------
Next ==
    \/ AddColumnKey \/ SetOptions \/ Build \/ SetDecryptionLifetime
    \/ ToOptions \/ EnterOption \/ FromOptions \/ FromDecryptionOptions

Spec == Init /\ [][Next]_vars

-------------------------------------------------------------------------------
(* Properties. *)

\* The text of the column keys in the session.
ColumnText == ToExtensionOptions(session).encryption.column_key_ids

IsConfiguration(c) ==
    /\ c \in [footer_key_id : Seq(Tokens),
              column_key_ids : [DOMAIN c.column_key_ids -> Seq(Seq(Tokens))],
              plaintext_footer : BOOLEAN, double_wrapping : BOOLEAN,
              cache_lifetime : Durations \cup {None},
              internal_key_material : {TRUE}, data_key_length_bits : {128}]
    /\ DOMAIN c.column_key_ids \subseteq Seq(Tokens)
    /\ IsFiniteSet(DOMAIN c.column_key_ids)

\* The types of the variables.  Internal material and keys of 128 bits are all that a
\* configuration can ask for, whatever the options say.
TypeOK ==
    /\ stage \in {"builder", "config", "session", "failed"}
    /\ IsConfiguration(config)
    /\ decryption \in Durations \cup {None}
    /\ session # None => ColumnText \in Seq(Tokens)

\* Whatever a configuration was made of, it has at most one key for a column: a
\* column found under two keys, or twice under one, was refused (crypto_factory.rs:
\* build; the DataFusion options go through it too).
OneKeyPerColumn ==
    stage = "config" =>
        \A id1, id2 \in DOMAIN config.column_key_ids :
            LET columns1 == config.column_key_ids[id1]
                columns2 == config.column_key_ids[id2]
            IN  \A i \in DOMAIN columns1, j \in DOMAIN columns2 :
                    <<id1, i>> # <<id2, j>> => columns1[i] # columns2[j]

\* The maps that texts can express: no delimiter in the way, no column without name.
Expressible(keys) ==
    /\ DOMAIN keys \subseteq Seq(Tokens \ {Semicolon, Colon})
    /\ \A id \in DOMAIN keys : keys[id] \in Seq(Seq(Tokens \ {Semicolon, Comma}) \ {<< >>})

\* A configuration that texts can express survives its way through the options and
\* the session, in whatever order the HashMap gives its keys: all of it but fractions
\* of a second comes back, and the way back does not fail.  A lifetime None, which the
\* session does not keep, comes back by the defaults of the options, which are not
\* those of the builders (datafusion.rs: serialize_column_keys,
\* deserialize_column_keys, entries; the round trip tests check it for one map).
Whole(lifetime) == IF lifetime = None THEN None ELSE [lifetime EXCEPT !.nanos = 0]

RoundTrip ==
    stage \in {"config", "failed"} /\ origin # None
    /\ Expressible(origin.encryption.column_key_ids) =>
        /\ stage = "config"
        /\ config = [origin.encryption EXCEPT !.cache_lifetime = Whole(@)]

\* What files are read with comes back too, also where the text of the column keys,
\* or a column named twice, keeps files from being written.
DecryptionSurvives ==
    origin # None => Whole(decryption) = Whole(origin.decryption)

\* What came from options can be expressed by them, whatever the user entered or the
\* program's names contained: what a first conversion changes, a second does not
\* change again (datafusion.rs: deserialize_column_keys).
ParsedIsExpressible ==
    stage = "config" /\ session # None =>
        /\ Expressible(config.column_key_ids)
        /\ config.cache_lifetime = Whole(config.cache_lifetime)

\* Not so: every column listed for a key in the options is configured with that key,
\* as the doc of column_key_ids says (datafusion.rs:101).  When a key has two entries
\* the second replaces the first, where add_column_key extends it.
EveryColumnKept ==
    stage = "config" /\ session # None =>
        \A i \in DOMAIN Entries(ColumnText) :
            LET entry == Entries(ColumnText)[i]
            IN  ToSet(ColumnsOf(entry)) \subseteq
                    ToSet(config.column_key_ids[KeyIdOf(entry)])
===============================================================================
