----------------------------- MODULE ConfigLoad -----------------------------
(***************************************************************************)
(* loadRolekitConfig (config/loader.ts): the depth-first walk over the     *)
(* files that a configuration extends.  What the disk holds is chosen when *)
(* it is read: an `extends` entry resolves to whatever file realpath says  *)
(* at that moment (two spellings may name one file), and a file is what it *)
(* is when it is read, which happens once.                                 *)
(*                                                                         *)
(* A document is reduced to the number of its `extends` entries, the roles *)
(* it declares with the executor each names, and the executor profiles it  *)
(* declares.                                                               *)
(***************************************************************************)
EXTENDS Integers, Sequences

CONSTANTS
  Files,        \* canonical paths of readable extension
  Root,         \* the file loadRolekitConfig is asked for
  RoleIds, ProfileIds,
  Documents,    \* what a valid file may contain
  None          \* no file: unresolvable path, unreadable or invalid document

ASSUME RootAssumption == Root \in Files
ASSUME NoneAssumption == None \notin Files \cup Documents \cup ProfileIds
ASSUME DocumentsAssumption ==
  \A d \in Documents :
    /\ d.extends \in Nat
    /\ d.roles \in [RoleIds -> ProfileIds \cup {None}]
    /\ d.executors \subseteq ProfileIds

VARIABLES
  loading,      \* "loading", "loaded" or the code of the error thrown
  activeChain,  \* activeChain of the innermost visitConfig
  firstChains,  \* keys of state.firstChains
  document,     \* what was read of each file
  extended,     \* what the entries of each file have resolved to so far
  sourcePaths,  \* state.sourcePaths
  roles,        \* state.roles: the file of each role's entry
  executors     \* state.executors

loadVars == <<loading, activeChain, firstChains, document, extended, sourcePaths, roles,
              executors>>

Elements(s) == {s[i] : i \in DOMAIN s}

LoadInit ==
  /\ loading = "loading"
  /\ activeChain = <<>>
  /\ firstChains = {}
  /\ document = [f \in Files |-> None]
  /\ extended = [f \in Files |-> <<>>]
  /\ sourcePaths = <<>>
  /\ roles = [r \in RoleIds |-> None]
  /\ executors = [p \in ProfileIds |-> None]

-----------------------------------------------------------------------------
(* visitConfig *)

Current == activeChain[Len(activeChain)]

\* The await of visitConfig that comes next is that of an `extends` entry, or
\* that of the path the caller gave.
AwaitsEntry ==
  /\ loading = "loading"
  /\ activeChain # <<>> =>
       /\ document[Current] # None
       /\ Len(extended[Current]) < document[Current].extends
  /\ activeChain = <<>> => sourcePaths = <<>>

Follow(target) ==
  extended' = IF activeChain = <<>> THEN extended
              ELSE [extended EXCEPT ![Current] = Append(@, target)]

LoadFails(code) ==
  /\ loading' = code
  /\ UNCHANGED <<activeChain, firstChains, sourcePaths, roles, executors>>

\* canonicalFilePath: another extension, or realpath fails.
Unresolvable ==
  /\ AwaitsEntry
  /\ LoadFails("invalid_config")
  /\ UNCHANGED <<document, extended>>

\* Mutant (LoadedIsATree): only the files above are remembered.
SeenAbove(target) == target \in Elements(activeChain)

\* state.firstChains.has(canonicalPath)
Seen(target) == target \in firstChains

CycleFound(target) ==
  /\ AwaitsEntry
  /\ target \in Elements(activeChain)
  /\ Follow(target)
  /\ LoadFails("config_cycle")
  /\ UNCHANGED document

DuplicateFound(target) ==
  /\ AwaitsEntry
  /\ target \notin Elements(activeChain)
  /\ Seen(target)
  /\ Follow(target)
  /\ LoadFails("duplicate_config")
  /\ UNCHANGED document

Visit(target) ==
  /\ AwaitsEntry
  /\ target \notin Elements(activeChain)
  /\ ~Seen(target)
  /\ Follow(target)
  /\ activeChain' = Append(activeChain, target)
  /\ firstChains' = firstChains \cup {target}
  /\ UNCHANGED <<loading, document, sourcePaths, roles, executors>>

AwaitsFile == loading = "loading" /\ activeChain # <<>> /\ document[Current] = None

\* readStructuredFile and assertRolekitConfig
Read(d) ==
  /\ AwaitsFile
  /\ document' = [document EXCEPT ![Current] = d]
  /\ UNCHANGED <<loading, activeChain, firstChains, extended, sourcePaths, roles, executors>>

ReadFails ==
  /\ AwaitsFile
  /\ LoadFails("invalid_config")
  /\ UNCHANGED <<document, extended>>

\* Mutant (BindingIsExact): what an extended file declares is kept.
Kept(effective, declared) ==
  [id \in DOMAIN effective |->
     IF id \in declared /\ effective[id] = None THEN Current ELSE effective[id]]

\* state.roles.set, state.executors.set: the last declaration stays.
Overridden(effective, declared) ==
  [id \in DOMAIN effective |-> IF id \in declared THEN Current ELSE effective[id]]

DeclaredRoles(d) == {r \in RoleIds : d.roles[r] # None}

\* After the last entry the file declares, and visitConfig returns.
Declare ==
  /\ loading = "loading"
  /\ activeChain # <<>>
  /\ document[Current] # None
  /\ Len(extended[Current]) = document[Current].extends
  /\ roles' = Overridden(roles, DeclaredRoles(document[Current]))
  /\ executors' = Overridden(executors, document[Current].executors)
  /\ sourcePaths' = Append(sourcePaths, Current)
  /\ activeChain' = SubSeq(activeChain, 1, Len(activeChain) - 1)
  /\ loading' = IF Len(activeChain) = 1 THEN "loaded" ELSE "loading"
  /\ UNCHANGED <<firstChains, document, extended>>

LoadNext ==
  \/ Unresolvable
  \/ \E target \in Files :
       /\ activeChain = <<>> => target = Root
       /\ CycleFound(target) \/ DuplicateFound(target) \/ Visit(target)
  \/ \E d \in Documents : Read(d)
  \/ ReadFails
  \/ Declare

LoadSpec == LoadInit /\ [][LoadNext]_loadVars

-----------------------------------------------------------------------------
(* Properties. *)

\* Every entry found so far leads to a visited file other than the root, no
\* two entries lead to the same file, and no visited file is without one.
OneChainEach ==
  /\ \A f \in Files : Elements(extended[f]) \subseteq firstChains \ {Root}
  /\ \A f, g \in Files : \A i \in DOMAIN extended[f], j \in DOMAIN extended[g] :
       extended[f][i] = extended[g][j] => f = g /\ i = j
  /\ \A g \in firstChains \ {Root} : \E f \in firstChains : g \in Elements(extended[f])

\* Every visited file was read, followed to its last entry and declared once.
AllDeclared ==
  /\ Elements(sourcePaths) = firstChains
  /\ \A i, j \in DOMAIN sourcePaths : sourcePaths[i] = sourcePaths[j] => i = j
  /\ \A f \in firstChains : /\ document[f] \in Documents
                            /\ Len(extended[f]) = document[f].extends

\* A configuration loads only if what it extends is a tree, however the paths
\* in it are spelled: a file reached along two chains, or from itself, is never
\* loaded (docs and tests of duplicate_config and config_cycle), and nothing in
\* the tree is left out.
LoadedIsATree == loading = "loaded" => OneChainEach /\ AllDeclared
=============================================================================
