---------------------------- MODULE ConfigBinding ----------------------------
(***************************************************************************)
(* What is done with a loaded configuration (config/resolver.ts):          *)
(* validateLoadedRolekitConfig, compileRoleBinding, inspectExecutorProfile,*)
(* probeExecutorProfile and resolveRunBinding, called one after the other  *)
(* on one opaque handle and one adapter registry.  Between two awaits role *)
(* specs may be edited on disk and the environment may change.             *)
(*                                                                         *)
(* What the handle holds of a profile, and the registration it names, are  *)
(* chosen when they are first looked at, and stay.                         *)
(***************************************************************************)
EXTENDS ConfigLoad, AdapterConfig

CONSTANTS
  Profiles,         \* contents of an executor profile
  FewProfiles,      \* bound: those considered when several files were loaded
  Registrations,    \* what may be registered under the id profiles name
  FewRegistrations, \* bound: likewise
  FewFragments,     \* bound: likewise, of what a prompt fragment is when first read
  EnvironmentNames, EnvironmentValues,
  MaxCalls,         \* bound: calls on the handle
  MaxChanges        \* bound: changes of the disk and of the environment

\* No adapter is registered under the id.
Unregistered == [schemas |-> NoValue, adapter |-> NoValue]

ASSUME UnseenAssumption ==
  None \notin Profiles /\ None \notin Registrations /\ None \notin {"good", "bad"}
ASSUME ProfilesAssumption ==
  \A content \in Profiles :
    content.mode # "host" =>
      /\ content.mode = "adapter"
      /\ \A p \in DOMAIN content.options :
           LET v == content.options[p] IN v = [is |-> v.is, of |-> v.of, whole |-> TRUE]
ASSUME RegistrationsAssumption ==
  \A entry \in Registrations \ {Unregistered} :
    entry.adapter.hook \in {"missing", "declines", "strips", "passes"}
ASSUME FewAssumption ==
  /\ FewProfiles \subseteq Profiles /\ FewRegistrations \subseteq Registrations
  /\ FewFragments \subseteq {"good", "bad"}
ASSUME CallBoundsAssumption == MaxCalls \in Nat /\ MaxChanges \in Nat

VARIABLES
  registration, \* the entry of the adapter profiles name
  profiles,     \* contents of the declared profiles
  specs,        \* role specs and the prompt fragment of each: "good", "bad"
  environment,
  call,         \* the call in progress and where it is
  todo,         \* declarations validation has still to look at
  binding,      \* the last CompiledRoleBinding, or a CompiledExecutorProfile, without role
  runtime,      \* the last ResolvedRunBinding
  outcome,      \* how the last call ended
  edited,       \* a spec was edited since the last validation began
  validated,    \* a validation succeeded, and no spec was edited since it began
  published,    \* every value that left for a digest, a handle, a probe or a context
  described,    \* every value in the descriptors of compiled handles
  calls, changes

bindVars == <<registration, profiles, specs, environment, call, todo, binding, runtime,
              outcome, edited, validated, published, described, calls, changes>>

\* What loadResolvedRole reads of a role, one after the other.
Parts == {"spec", "fragment"}
SpecParts == Files \X RoleIds \X Parts

Idle == [op |-> "none", at |-> "idle", role |-> None, asked |-> None, profileId |-> None]
NoOutcome == [op |-> "none", role |-> None, asked |-> None, code |-> "none"]

BindInit ==
  /\ registration = None
  /\ profiles = [d \in Files \X ProfileIds |-> None]
  /\ specs = [d \in SpecParts |-> None]
  /\ environment \in [EnvironmentNames -> EnvironmentValues \cup {None}]
  /\ call = Idle
  /\ todo = {}
  /\ binding = None
  /\ runtime = None
  /\ outcome = NoOutcome
  /\ edited = FALSE
  /\ validated = FALSE
  /\ published = {}
  /\ described = {}
  /\ calls = 0
  /\ changes = 0

Several == Len(sourcePaths) > 1 \/ Cardinality(document[Root].executors) > 1

\* What a declared profile, the registration it names and a part of a role spec may be.
ProfileChoices(d) ==
  IF profiles[d] # None THEN {profiles[d]} ELSE IF Several THEN FewProfiles ELSE Profiles
RegistrationChoices(content) ==
  IF content.mode = "host" \/ registration # None THEN {registration}
  ELSE IF Several THEN FewRegistrations ELSE Registrations
SpecChoices(d) ==
  IF specs[d] # None THEN {specs[d]}
  ELSE IF Several /\ d[3] = "fragment" THEN FewFragments ELSE {"good", "bad"}

Looks(d, content, entry) ==
  /\ profiles' = [profiles EXCEPT ![d] = content]
  /\ registration' = entry

-----------------------------------------------------------------------------
(* inspectExecutorProfileEntry; nothing shared is read after its await. *)

InspectionPrepared(content, entry) ==
  Prepare(entry.adapter, Inspected(entry.schemas, content.options),
          Replacements(entry.schemas, content.options))

InspectionPublic(content, entry) ==
  PublicPrepared(InspectionPrepared(content, entry), Replacements(entry.schemas, content.options))

\* The checks digestExecutorProfile makes before its await: the options are
\* free of the sentinel, and what looks like a marker is one.
DigestAccepts(options) ==
  \A p \in DOMAIN options : options[p] # Text(Sentinel) /\ options[p] # Lookalike

InspectionCode(content, entry) ==
  LET literals == LiteralSecrets(entry.schemas, content.options)
      prepared == InspectionPrepared(content, entry)
      safe == /\ ~entry.adapter.throws
              /\ PreparedSafe(entry.adapter, prepared)
              /\ ~ModelExposed(prepared)
              /\ NothingSensitive(Codomain(prepared.public), literals)
              /\ NothingSensitive(ValuesOf(InspectionPublic(content, entry)), literals)
              /\ DigestAccepts(Published(entry.schemas, content.options))
  IN CASE content.mode = "host" -> "none"
       [] content.mode = "adapter" /\ entry = Unregistered -> "unknown_adapter"
       [] OTHER -> IF Accepted(entry.schemas, content.options) /\ safe THEN "none"
                   ELSE "invalid_config"

\* What the compiled handle is made of, and what its descriptor says, which
\* nothing redacts and no check but that of its form is made on.
CompiledValues(content, entry) ==
  IF content.mode = "host" THEN {}
  ELSE Codomain(Published(entry.schemas, content.options))
         \cup Codomain(InspectionPrepared(content, entry).public)
         \cup ValuesOf(InspectionPublic(content, entry))

DescribedValues(content, entry) ==
  IF content.mode = "host" THEN {}
  ELSE Description(entry.adapter, InspectionPrepared(content, entry))

-----------------------------------------------------------------------------
(* Calls. *)

Begin(op, role, asked, at) ==
  /\ call.at = "idle"
  /\ calls < MaxCalls
  /\ calls' = calls + 1
  /\ call' = [op |-> op, at |-> at, role |-> role, asked |-> asked, profileId |-> None]

Finish(code) ==
  /\ call' = Idle
  /\ todo' = {}
  /\ outcome' = [op |-> call.op, role |-> call.role, asked |-> call.asked, code |-> code]

\* Of a call that has no await.
FinishAtOnce(op, code) ==
  /\ call.at = "idle"
  /\ calls < MaxCalls
  /\ calls' = calls + 1
  /\ outcome' = [op |-> op, role |-> None, asked |-> None, code |-> code]
  /\ UNCHANGED <<call, todo>>

(* validateLoadedRolekitConfig: every declaration, shadowed ones included. *)

\* The files in the order of their declarations; within one, any order.
Position(f) == CHOOSE i \in DOMAIN sourcePaths : sourcePaths[i] = f
NextToDo == {d \in todo : \A e \in todo : Position(d[1]) <= Position(e[1])}

Validate ==
  /\ Begin("validate", None, None, "profiles")
  /\ todo' = {d \in Files \X ProfileIds :
                d[1] \in Elements(sourcePaths) /\ d[2] \in document[d[1]].executors}
  /\ edited' = FALSE
  /\ UNCHANGED <<registration, profiles, specs, environment, binding, runtime, outcome, validated,
                 published, described, changes>>

InspectDeclaration(d, content, entry) ==
  /\ Looks(d, content, entry)
  /\ IF InspectionCode(content, entry) = "none"
     THEN todo' = todo \ {d} /\ UNCHANGED <<call, outcome>>
     ELSE Finish(InspectionCode(content, entry))
  /\ UNCHANGED <<specs, environment, binding, runtime, edited, validated, published, described,
                 calls, changes>>

InspectionsDone ==
  /\ call.op = "validate" /\ call.at = "profiles" /\ todo = {}
  /\ call' = [call EXCEPT !.at = "specs"]
  /\ todo' = {d \in SpecParts :
                d[1] \in Elements(sourcePaths) /\ d[2] \in DeclaredRoles(document[d[1]])}
  /\ UNCHANGED <<registration, profiles, specs, environment, binding, runtime, outcome, edited,
                 validated, published, described, calls, changes>>

\* A spec is read before its fragment, and that before the next spec.
HalfRead == {d \in todo : <<d[1], d[2], "spec">> \notin todo}
NextPart == IF HalfRead # {} THEN HalfRead ELSE {d \in NextToDo : d[3] = "spec"}

ReadDeclaredSpec(d, s) ==
  /\ specs' = [specs EXCEPT ![d] = s]
  /\ IF s = "good" THEN todo' = todo \ {d} /\ UNCHANGED <<call, outcome>>
     ELSE Finish("invalid_config")
  /\ UNCHANGED <<registration, profiles, environment, binding, runtime, edited, validated,
                 published, described, calls, changes>>

ExecutorOf(role) == document[roles[role]].roles[role]

\* Mutant (ValidatedRolesBind): that some file declares a profile is enough.
SomeExecutor == \E p \in ProfileIds : executors[p] # None

\* The executor of every effective role exists.
ExecutorsExist == \A r \in RoleIds : roles[r] # None => executors[ExecutorOf(r)] # None

ValidationEnds ==
  /\ call.op = "validate" /\ call.at = "specs" /\ todo = {}
  /\ Finish(IF ExecutorsExist THEN "none" ELSE "unknown_executor_profile")
  /\ validated' = (validated \/ (ExecutorsExist /\ ~edited))
  /\ UNCHANGED <<edited, registration, profiles, specs, environment, binding, runtime, published,
                 described, calls, changes>>

(* compileRoleBinding *)

Compile(role, asked) ==
  /\ IF roles[role] = None
     THEN /\ FinishAtOnce("compile", "unknown_role")
     ELSE /\ Begin("compile", role, asked, "spec")
          /\ UNCHANGED <<todo, outcome>>
  /\ UNCHANGED <<registration, profiles, specs, environment, binding, runtime, edited, validated,
                 published, described, changes>>

\* executorOverride ?? roleEntry.config.executor
Selected == IF call.asked # None THEN call.asked ELSE ExecutorOf(call.role)

SelectedProfile == <<executors[Selected], Selected>>
SpecOf == <<roles[call.role], call.role, call.at>>
AwaitsSpec == call.op = "compile" /\ call.at \in Parts

SpecFails(s) ==
  /\ specs' = [specs EXCEPT ![SpecOf] = s]
  /\ s = "bad" \/ (call.at = "fragment" /\ executors[Selected] = None)
  /\ Finish(IF s = "bad" THEN "invalid_config" ELSE "unknown_executor_profile")
  /\ UNCHANGED <<registration, profiles, environment, binding, runtime, edited, validated,
                 published, described, calls, changes>>

\* What was read of the spec is kept while the fragment is awaited.
SpecGoesOn(s) ==
  /\ call.at = "spec" /\ s = "good"
  /\ specs' = [specs EXCEPT ![SpecOf] = s]
  /\ call' = [call EXCEPT !.at = "fragment"]
  /\ UNCHANGED <<registration, profiles, environment, todo, binding, runtime, outcome, edited,
                 validated, published, described, calls, changes>>

SpecRead(s, content, entry) ==
  /\ call.at = "fragment" /\ s = "good"
  /\ specs' = [specs EXCEPT ![SpecOf] = s]
  /\ Looks(SelectedProfile, content, entry)
  /\ IF InspectionCode(content, entry) = "none"
     THEN /\ call' = [call EXCEPT !.at = "digest", !.profileId = Selected]
          /\ published' = published \cup
               (IF content.mode = "host" THEN {}
                ELSE Codomain(Published(entry.schemas, content.options)))
          /\ UNCHANGED <<todo, outcome>>
     ELSE Finish(InspectionCode(content, entry)) /\ UNCHANGED published
  /\ UNCHANGED <<environment, binding, runtime, edited, validated, described, calls, changes>>

(* inspectExecutorProfile: the same of a profile named by the caller. *)

UnknownProfile(asked) ==
  /\ executors[asked] = None
  /\ FinishAtOnce("inspect", "unknown_executor_profile")
  /\ UNCHANGED <<registration, profiles, specs, environment, binding, runtime, edited, validated,
                 published, described, changes>>

InspectProfile(asked, content, entry) ==
  /\ call.at = "idle" /\ calls < MaxCalls
  /\ Looks(<<executors[asked], asked>>, content, entry)
  /\ IF InspectionCode(content, entry) = "none"
     THEN /\ calls' = calls + 1
          /\ call' = [op |-> "inspect", at |-> "digest", role |-> None, asked |-> asked,
                      profileId |-> asked]
          /\ published' = published \cup
               (IF content.mode = "host" THEN {}
                ELSE Codomain(Published(entry.schemas, content.options)))
          /\ UNCHANGED <<todo, outcome>>
     ELSE FinishAtOnce("inspect", InspectionCode(content, entry)) /\ UNCHANGED published
  /\ UNCHANGED <<specs, environment, binding, runtime, edited, validated, described, changes>>

\* Both: the handle is made once the digest of the profile is known.
DigestArrives ==
  /\ call.at = "digest"
  /\ binding' = [role |-> call.role, asked |-> call.asked,
                 roleFile |-> IF call.op = "inspect" THEN None ELSE roles[call.role],
                 profileId |-> call.profileId, profileFile |-> executors[call.profileId]]
  /\ published' = published \cup
       CompiledValues(profiles[<<executors[call.profileId], call.profileId>>], registration)
  /\ described' = described \cup
       DescribedValues(profiles[<<executors[call.profileId], call.profileId>>], registration)
  /\ Finish("none")
  /\ UNCHANGED <<registration, profiles, specs, environment, runtime, edited, validated, calls, changes>>

(* On a compiled binding or profile. *)

BoundProfile == profiles[<<binding.profileFile, binding.profileId>>]

HasStaticSecrets(content, entry) == Secrets(entry.schemas, content.options) # {}

\* The options probeExecutorProfile gives to adapter.probe, or NoValue: the
\* adapter's hook may be missing, decline, leave the secrets out, or not.
ProbeOptions(content, entry) ==
  LET inspection == Inspected(entry.schemas, content.options)
      open == DOMAIN inspection \ Secrets(entry.schemas, content.options)
  IN CASE entry.adapter.hook = "missing" ->
            IF HasStaticSecrets(content, entry) THEN NoValue
            ELSE InspectionPrepared(content, entry)
       [] entry.adapter.hook = "declines" -> NoValue
       [] entry.adapter.hook = "strips" ->
            Prepare(entry.adapter, [p \in open |-> inspection[p]], << >>)
       [] entry.adapter.hook = "passes" -> InspectionPrepared(content, entry)

\* With the checks made on them; otherwise the profile is unavailable.
ProbeAllowed(content, entry) ==
  LET prepared == ProbeOptions(content, entry) IN
  /\ prepared # NoValue
  /\ PreparedSafe(entry.adapter, prepared)
  /\ NothingSensitive(ValuesOf(prepared), LiteralSecrets(entry.schemas, content.options))

Probe ==
  /\ binding # None
  /\ IF BoundProfile.mode = "host"
     THEN FinishAtOnce("probe", "host_execution_required") /\ UNCHANGED published
     ELSE /\ FinishAtOnce("probe", "none")
          /\ published' = published \cup
               (IF ProbeAllowed(BoundProfile, registration)
                THEN ValuesOf(ProbeOptions(BoundProfile, registration)) ELSE {})
  /\ UNCHANGED <<registration, profiles, specs, environment, binding, runtime, edited, validated,
                 described, changes>>

MissingSecrets ==
  {n \in RequiredSecrets(registration.schemas, BoundProfile.options) : environment[n] = None}

\* resolveRunBinding, when it throws; a new adapter may also refuse the values.
ResolveFails(code) ==
  /\ binding # None /\ binding.role # None
  /\ \/ BoundProfile.mode = "host" /\ code = "host_execution_required"
     \/ BoundProfile.mode = "adapter" /\ MissingSecrets # {} /\ code = "missing_secret"
     \/ BoundProfile.mode = "adapter" /\ MissingSecrets = {} /\ code = "invalid_config"
  /\ FinishAtOnce("resolve", code)
  /\ UNCHANGED <<registration, profiles, specs, environment, binding, runtime, edited, validated,
                 published, described, changes>>

Resolve ==
  /\ binding # None /\ binding.role # None /\ BoundProfile.mode = "adapter"
  /\ MissingSecrets = {}
  /\ LET options == Resolved(registration.schemas, BoundProfile.options, environment)
         replacements == Replacements(registration.schemas, BoundProfile.options)
     IN /\ PreparedSafe(registration.adapter, Prepare(registration.adapter, options, replacements))
        /\ runtime' = [binding |-> binding, options |-> options, replacements |-> replacements,
                       environment |-> environment]
        /\ published' = published \cup Codomain(replacements)
  /\ FinishAtOnce("resolve", "none")
  /\ UNCHANGED <<registration, profiles, specs, environment, binding, edited, validated, described,
                 changes>>

(* Others. *)

EditSpec(d) ==
  /\ changes < MaxChanges /\ specs[d] # None
  /\ specs' = [specs EXCEPT ![d] = IF @ = "good" THEN "bad" ELSE "good"]
  /\ edited' = TRUE
  /\ validated' = FALSE
  /\ changes' = changes + 1
  /\ UNCHANGED <<registration, profiles, environment, call, todo, binding, runtime, outcome,
                 published, described, calls>>

SetEnvironment(n, v) ==
  /\ changes < MaxChanges /\ environment[n] # v
  /\ environment' = [environment EXCEPT ![n] = v]
  /\ changes' = changes + 1
  /\ UNCHANGED <<registration, profiles, specs, call, todo, binding, runtime, outcome, edited,
                 validated, published, described, calls>>

Call ==
  \/ Validate
  \/ call.at = "profiles" /\
       \E d \in NextToDo : \E content \in ProfileChoices(d) :
         \E entry \in RegistrationChoices(content) : InspectDeclaration(d, content, entry)
  \/ InspectionsDone
  \/ call.at = "specs" /\
       \E d \in NextPart : \E s \in SpecChoices(d) : ReadDeclaredSpec(d, s)
  \/ ValidationEnds
  \/ \E role \in RoleIds, asked \in ProfileIds \cup {None} : Compile(role, asked)
  \/ AwaitsSpec /\ \E s \in SpecChoices(SpecOf) : SpecFails(s) \/ SpecGoesOn(s)
  \/ AwaitsSpec /\ executors[Selected] # None /\
       \E s \in SpecChoices(SpecOf), content \in ProfileChoices(SelectedProfile) :
         \E entry \in RegistrationChoices(content) : SpecRead(s, content, entry)
  \/ \E asked \in ProfileIds :
       \/ UnknownProfile(asked)
       \/ executors[asked] # None /\
            \E content \in ProfileChoices(<<executors[asked], asked>>) :
              \E entry \in RegistrationChoices(content) : InspectProfile(asked, content, entry)
  \/ DigestArrives
  \/ Probe
  \/ \E code \in {"host_execution_required", "missing_secret", "invalid_config"} :
       ResolveFails(code)
  \/ Resolve

Change ==
  \/ \E d \in SpecParts : EditSpec(d)
  \/ \E n \in EnvironmentNames, v \in EnvironmentValues \cup {None} : SetEnvironment(n, v)

Next ==
  \/ LoadNext /\ UNCHANGED bindVars
  \/ loading = "loaded" /\ (Call \/ Change) /\ UNCHANGED loadVars

Init == LoadInit /\ BindInit
Spec == Init /\ [][Next]_<<loadVars, bindVars>>

-----------------------------------------------------------------------------
(* Properties. *)

\* Which declaration counts, told from the extends graph alone: a file
\* overrides what it extends, directly or not, and of two entries of one file
\* the later one, with all that is below it, overrides the earlier.
EntriesWithin(T) == \A h \in T : Elements(extended[h]) \subseteq T
AtOrBelow(f, g) == \A T \in SUBSET Files : f \in T /\ EntriesWithin(T) => g \in T
Below(f, g) == \E h \in Elements(extended[f]) : AtOrBelow(h, g)
Overrides(f, g) ==
  \/ Below(f, g)
  \/ \E h \in Files : \E i, j \in DOMAIN extended[h] :
       i < j /\ AtOrBelow(extended[h][i], g) /\ AtOrBelow(extended[h][j], f)
Prevails(f, declaring) == f \in declaring /\ \A g \in declaring \ {f} : Overrides(f, g)

\* Selection is exact (docs/configuration.md:56): a compiled binding has the
\* profile the caller named, else the one its role names, never another, and
\* both the role, if there is one, and the profile come from the file whose
\* declaration prevails in the extends graph.
BindingIsExact ==
  binding # None =>
    /\ binding.profileId = IF binding.asked # None THEN binding.asked
                           ELSE document[binding.roleFile].roles[binding.role]
    /\ binding.role # None =>
         Prevails(binding.roleFile,
                {f \in Elements(sourcePaths) : document[f].roles[binding.role] # None})
    /\ Prevails(binding.profileFile,
                {f \in Elements(sourcePaths) : binding.profileId \in document[f].executors})

\* Once validation has accepted the handle, and until a role spec is edited,
\* every configured role compiles with its own executor: validation looks at
\* all that compilation will look at.
ValidatedRolesBind ==
  ~ /\ validated
    /\ outcome.op = "compile" /\ outcome.role # None /\ outcome.asked = None
    /\ outcome.code # "none"

\* A value of an option is secret if any annotation that applies says so.
MayBeSecret(schema, v) == schema.secret \/ \E b \in Applicable(schema, v) : b.secret

TextsAt(options, places) == {options[p].of : p \in {q \in places : options[q].is = "text"}}
SecretTexts(schemas, options) ==
  TextsAt(options, {p \in DOMAIN options : MayBeSecret(schemas[p], options[p])})
PublicTexts(schemas, options) ==
  TextsAt(options, {p \in DOMAIN options : ~MayBeSecret(schemas[p], options[p])})

AdapterOptions == {content.options : content \in {c \in Profiles : c.mode = "adapter"}}

\* Texts stand for where they come from: a secret that someone has also written
\* where it is not secret is not what the properties are about.
ASSUME TextsAssumption ==
  /\ Sentinel \notin EnvironmentValues
  /\ \A entry \in Registrations \ {Unregistered}, options \in AdapterOptions :
       Sentinel \notin SecretTexts(entry.schemas, options)
  /\ \A entry \in Registrations \ {Unregistered}, options, others \in AdapterOptions :
       PublicTexts(entry.schemas, options)
         \cap (EnvironmentValues \cup SecretTexts(entry.schemas, others)) = {}

AdapterProfiles == {d \in Files \X ProfileIds : profiles[d] # None /\ profiles[d].mode = "adapter"}

\* Literal secrets, and what the environment may hold.
SecretStrings ==
  EnvironmentValues \cup
    UNION {SecretTexts(registration.schemas, profiles[d].options) :
             d \in {e \in AdapterProfiles : registration # Unregistered}}

\* Of adapters that show, copy, move, embed, describe themselves by or name a
\* model with the options they were prepared for: neither a literal secret nor a
\* value of the environment nor the sentinel that stands for them reaches the
\* digest of a profile, the handle's options and prepared options, a probe or
\* the public context of a run.  The descriptor in the handle, which nothing
\* redacts, has no secret either; it may have the sentinel.
SecretsStayPrivate ==
  /\ \A v \in published : ~Includes(v, {Sentinel} \cup SecretStrings)
  /\ \A v \in described : ~Includes(v, SecretStrings)

\* The adapter of a run gets exactly the configured options, with the values
\* the environment had when the run was resolved in place of the references,
\* and a marker to show for each secret; never the sentinel, nor a value from
\* before.
RunGetsItsSecrets ==
  runtime # None =>
    LET options == profiles[<<runtime.binding.profileFile, runtime.binding.profileId>>].options
        schemas == registration.schemas
    IN /\ DOMAIN runtime.options = DOMAIN options
       /\ \A p \in DOMAIN options :
            runtime.options[p] = IF options[p].is = "env"
                                 THEN Text(runtime.environment[options[p].of]) ELSE options[p]
       /\ \A p \in DOMAIN options : p \in DOMAIN runtime.replacements
                                      <=> MayBeSecret(schemas[p], options[p])
=============================================================================
