-------------------------- MODULE MCConfigBinding --------------------------
EXTENDS ConfigBinding, TLC

CONSTANTS key, note, hunter2, plain, token

\* A file declares the role or not, and at most one profile.
MCDocuments ==
  [extends : 0 .. 2, roles : [RoleIds -> {CHOOSE p \in ProfileIds : TRUE, None}],
   executors : {P \in SUBSET ProfileIds : Cardinality(P) <= 1}]
FileSymmetry == Permutations(Files \ {Root})

Plain == [supported |-> TRUE, secret |-> FALSE, branches |-> {}]
Secret == [Plain EXCEPT !.secret = TRUE]
Branch(accepts, secret) == [accepts |-> accepts, secret |-> secret]
\* A reference is secret, a text is not.
Either == [Plain EXCEPT !.branches = {Branch({"text"}, FALSE), Branch({"env"}, TRUE)}]
\* Both branches accept a text.
Overlapping == [Plain EXCEPT !.branches = {Branch({"text"}, FALSE), Branch({"text", "env"}, TRUE)}]
Unsupported == [Secret EXCEPT !.supported = FALSE]

KeySchemas == {Secret, Either, Overlapping, Unsupported}

\* An adapter that declares its secrets, shows markers and leaves the secrets
\* out of its probes, as the bundled ones do, and those that differ from it in
\* at most two respects, those that throw in no other.
Careful ==
  [shows |-> {key}, replaces |-> TRUE, embeds |-> FALSE, moves |-> NoValue, names |-> NoValue,
   describes |-> NoValue, declares |-> TRUE, throws |-> FALSE, hook |-> "strips"]
Adapters ==
  {a \in [shows : SUBSET {key}, replaces : BOOLEAN, embeds : BOOLEAN, moves : {key, NoValue},
          names : {key, NoValue}, describes : {key, NoValue}, declares : BOOLEAN, throws : BOOLEAN,
          hook : {"missing", "declines", "strips", "passes"}] :
     LET respects == {x \in DOMAIN a : a[x] # Careful[x]}
     IN Cardinality(respects) <= (IF a.throws THEN 1 ELSE 2)}

Registered(schema, adapter) ==
  [schemas |-> [p \in {key, note} |-> IF p = key THEN schema ELSE Plain], adapter |-> adapter]

MCRegistrations ==
  {Registered(schema, adapter) : schema \in KeySchemas, adapter \in Adapters} \cup {Unregistered}
MCFewRegistrations == {Registered(Secret, Careful)}

Options(k, n) == [p \in {key, note} |-> IF p = key THEN k ELSE n]
Adapter(options) == [mode |-> "adapter", options |-> options]

MCProfiles ==
  {[mode |-> "host"]} \cup
  {Adapter(Options(k, n)) : k \in {Text(hunter2), Reference(token)},
                            n \in {Text(plain), Reference(token)}} \cup
  {Adapter(Options(k, n)) : <<k, n>> \in {<<Interpolation, Text(plain)>>, <<Lookalike, Text(plain)>>,
                                           <<Text(hunter2), Text(Sentinel)>>,
                                           <<Reference(token), Lookalike>>}}
MCFewProfiles ==
  {[mode |-> "host"], Adapter(Options(Reference(token), Text(plain)))}
=============================================================================
