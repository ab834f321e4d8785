---------------------------- MODULE AdapterConfig ----------------------------
(***************************************************************************)
(* How the options of an executor profile are classified, redacted and     *)
(* resolved (config/secrets.ts), and the checks made on what an adapter    *)
(* makes of them (core/validation.ts).                                     *)
(*                                                                         *)
(* Options are flattened: a function from the JSON pointers of their       *)
(* leaves to values.  The schema of a leaf is what applicableSchemas can   *)
(* collect for it: annotations that always apply ($ref, allOf, the schema  *)
(* itself) and the branches of anyOf/oneOf, each with the values it        *)
(* accepts.  x-rolekit-path, which makes a text absolute, is left out.     *)
(***************************************************************************)
EXTENDS Integers, FiniteSets

CONSTANTS
  Sentinel,    \* STATIC_INSPECTION_SENTINEL
  NoValue

-----------------------------------------------------------------------------
(* Values. *)

\* A string that is, or (`whole` false) that includes, the string s.
Text(s) == [is |-> "text", of |-> s, whole |-> TRUE]
Embedding(v) == IF v.is = "text" THEN [v EXCEPT !.whole = FALSE] ELSE v
\* { $env: name }
Reference(name) == [is |-> "env", of |-> name, whole |-> TRUE]
\* A string with ${...} or $NAME in it.
Interpolation == [is |-> "interpolation", of |-> NoValue, whole |-> TRUE]
\* PublicSecretMarker
Marker(source) == [is |-> "marker", of |-> source, whole |-> TRUE]
\* An object with the fields of a marker that is none.
Lookalike == [is |-> "lookalike", of |-> NoValue, whole |-> TRUE]

Includes(v, strings) == v.is = "text" /\ v.of \in strings

-----------------------------------------------------------------------------
(* Classification and transformation (analyzeAdapterConfig). *)

Applicable(schema, v) == {b \in schema.branches : v.is \in b.accepts}

\* Unsupported keywords and recursive references are refused, and exactly one
\* branch must apply.
Classifiable(schema, v) ==
  schema.supported /\ (schema.branches = {} \/ \E b \in schema.branches : Applicable(schema, v) = {b})

IsSecret(schema, v) ==
  schema.secret \/ (schema.branches # {} /\ (CHOOSE b \in Applicable(schema, v) : TRUE).secret)

\* transformValue and transformSecret throw.
Refused(schema, v) ==
  \/ ~Classifiable(schema, v)
  \/ v.is = "interpolation"
  \/ v.is = "env" /\ ~IsSecret(schema, v)
  \/ v.is = "lookalike" /\ IsSecret(schema, v)

Accepted(schemas, options) == \A p \in DOMAIN options : ~Refused(schemas[p], options[p])

Secrets(schemas, options) == {p \in DOMAIN options : IsSecret(schemas[p], options[p])}

\* inspectionConfig
Inspected(schemas, options) ==
  [p \in DOMAIN options |-> IF IsSecret(schemas[p], options[p]) THEN Text(Sentinel) ELSE options[p]]

\* state.replacements: publicOptionContext.replacementsByJsonPointer
Replacements(schemas, options) ==
  [p \in Secrets(schemas, options) |->
     Marker(IF options[p].is = "env" THEN options[p].of ELSE "literal")]

\* publicConfig
Published(schemas, options) ==
  [p \in DOMAIN options |-> IF IsSecret(schemas[p], options[p])
                            THEN Replacements(schemas, options)[p] ELSE options[p]]

RequiredSecrets(schemas, options) ==
  {options[p].of : p \in {q \in Secrets(schemas, options) : options[q].is = "env"}}

LiteralSecrets(schemas, options) ==
  {options[p].of : p \in {q \in Secrets(schemas, options) : options[q].is = "text"}}

\* Mutant (RunGetsItsSecrets): the inspection configuration is resolved.
ResolvedInspection(schemas, options, environment) ==
  [p \in DOMAIN options |->
     IF options[p].is = "env" THEN Text(Sentinel) ELSE options[p]]

\* resolveAdapterConfigSecrets: resolveValue on the normalized configuration.
Resolved(schemas, options, environment) ==
  [p \in DOMAIN options |->
     IF options[p].is = "env" THEN Text(environment[options[p].of]) ELSE options[p]]

-----------------------------------------------------------------------------
(* Adapters are external: which options they show, whether they put the    *)
(* markers they were given in place of them, copy a value into a longer    *)
(* string or to another place, or name a model or themselves with it.      *)

Elsewhere == "elsewhere"

\* adapter.prepareOptions
Prepare(a, config, replacements) ==
  LET Copy(p) == IF a.embeds THEN Embedding(config[p]) ELSE config[p]
  IN [execution |-> IF a.moves # NoValue /\ a.moves \in DOMAIN config
                    THEN [p \in DOMAIN config \cup {Elsewhere} |->
                            IF p = Elsewhere THEN Copy(a.moves) ELSE config[p]]
                    ELSE config,
      public    |-> [p \in a.shows \cap DOMAIN config |->
                       IF a.replaces /\ p \in DOMAIN replacements
                       THEN replacements[p] ELSE Copy(p)],
      sensitive |-> IF a.declares THEN {config[p].of : p \in DOMAIN replacements \cap DOMAIN config}
                    ELSE {},
      model     |-> IF a.names # NoValue /\ a.names \in DOMAIN config THEN Copy(a.names) ELSE NoValue]

\* The free texts of adapter.inspect: displayName, adapterVersion.
Description(a, prepared) ==
  IF a.describes # NoValue /\ a.describes \in DOMAIN prepared.execution
  THEN {IF a.embeds THEN Embedding(prepared.execution[a.describes])
        ELSE prepared.execution[a.describes]}
  ELSE {}

\* validatePreparedExecutorOptions, validatePublicOptionSafety: no public text
\* includes a declared sensitive value, markers stand at declared pointers.
PreparedSafe(a, prepared) ==
  \A p \in DOMAIN prepared.public :
    /\ ~Includes(prepared.public[p], prepared.sensitive)
    /\ prepared.public[p].is = "marker" => a.declares

\* redactInspectionValue
Redacted(v) == IF v = Text(Sentinel) THEN Marker("literal") ELSE v

\* redactStaticInspectionPreparedOptions, which refuses ModelExposed.
ModelExposed(prepared) == prepared.model = Text(Sentinel)

PublicPrepared(prepared, replacements) ==
  [execution |-> [p \in DOMAIN prepared.execution |->
                    IF p \in DOMAIN replacements THEN replacements[p]
                    ELSE Redacted(prepared.execution[p])],
   public    |-> [p \in DOMAIN prepared.public |-> Redacted(prepared.public[p])],
   sensitive |-> {},
   model     |-> prepared.model]

Codomain(f) == {f[p] : p \in DOMAIN f}

\* Every value the serialization of prepared options contains.
ValuesOf(prepared) ==
  Codomain(prepared.execution) \cup Codomain(prepared.public)
    \cup {Text(s) : s \in prepared.sensitive}
    \cup (IF prepared.model = NoValue THEN {} ELSE {prepared.model})

\* Mutant (SecretsStayPrivate): only values equal to a secret are noticed.
NothingEqual(values, literals) ==
  \A v \in values : ~(v.whole /\ Includes(v, literals \cup {Sentinel}))

\* assertNoSensitiveSerialization
NothingSensitive(values, literals) ==
  \A v \in values : ~Includes(v, literals \cup {Sentinel})
=============================================================================
