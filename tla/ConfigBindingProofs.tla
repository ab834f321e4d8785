------------------------- MODULE ConfigBindingProofs -------------------------
(***************************************************************************)
(* The walk over the extends graph never loads anything but a tree, and    *)
(* what it leaves as the declaration of a role or a profile is the one     *)
(* that prevails in that tree; then the calls on the loaded handle, for    *)
(* every set of files, every content they may have and every adapter.      *)
(***************************************************************************)
EXTENDS ConfigBinding, TLAPS

\* No element occurs twice.
Distinct(s) == \A i, j \in DOMAIN s : s[i] = s[j] => i = j

LoadTypes ==
  /\ activeChain \in Seq(Files)
  /\ sourcePaths \in Seq(Files)
  /\ document \in [Files -> Documents \cup {None}]
  /\ extended \in [Files -> Seq(Files)]

\* The files visited are those on the chain and those already declared.
ChainsApart ==
  /\ firstChains = Elements(activeChain) \cup Elements(sourcePaths)
  /\ Elements(activeChain) \cap Elements(sourcePaths) = {}
  /\ Distinct(activeChain)
  /\ Distinct(sourcePaths)

\* The root is visited first, and entries are followed from visited files.
RootFirst ==
  /\ firstChains # {} => Root \in firstChains
  /\ \A f \in Files \ firstChains : extended[f] = <<>>

DeclaredDone ==
  \A f \in Elements(sourcePaths) : /\ document[f] \in Documents
                                   /\ Len(extended[f]) = document[f].extends

\* While nothing has failed the entries found so far are those of a tree.
TreeSoFar == loading \in {"loading", "loaded"} => OneChainEach /\ RootFirst /\ DeclaredDone

ChainEnded == loading = "loaded" => activeChain = <<>>

LoadInv == LoadTypes /\ ChainsApart /\ TreeSoFar /\ ChainEnded

-----------------------------------------------------------------------------
LEMMA ElementsOfAppend ==
  ASSUME NEW S, NEW s \in Seq(S), NEW x \in S
  PROVE  /\ Append(s, x) \in Seq(S)
         /\ Elements(Append(s, x)) = Elements(s) \cup {x}
         /\ x \notin Elements(s) /\ Distinct(s) => Distinct(Append(s, x))
<1>1. Append(s, x) \in Seq(S)
  OBVIOUS
<1>2. /\ DOMAIN Append(s, x) = DOMAIN s \cup {Len(s) + 1}
      /\ \A i \in DOMAIN s : Append(s, x)[i] = s[i]
      /\ Append(s, x)[Len(s) + 1] = x
  OBVIOUS
<1>3. Elements(Append(s, x)) = Elements(s) \cup {x}
  BY <1>2, Zenon DEF Elements
<1>4. ASSUME x \notin Elements(s), Distinct(s) PROVE Distinct(Append(s, x))
  <2>1. SUFFICES ASSUME NEW i \in DOMAIN Append(s, x), NEW j \in DOMAIN Append(s, x),
                        Append(s, x)[i] = Append(s, x)[j]
                 PROVE i = j
    BY DEF Distinct
  <2>2. CASE i \in DOMAIN s /\ j \in DOMAIN s
    BY <2>1, <2>2, <1>2, <1>4 DEF Distinct
  <2>3. CASE i \notin DOMAIN s \/ j \notin DOMAIN s
    <3>1. \A k \in DOMAIN s : s[k] # x
      BY <1>4 DEF Elements
    <3>2. QED
      BY <2>1, <2>3, <3>1, <1>2
  <2>4. QED
    BY <2>2, <2>3
<1>5. QED
  BY <1>1, <1>3, <1>4

LEMMA ElementsOfFront ==
  ASSUME NEW S, NEW s \in Seq(S), s # <<>>
  PROVE  /\ Len(s) \in DOMAIN s /\ s[Len(s)] \in S
         /\ SubSeq(s, 1, Len(s) - 1) \in Seq(S)
         /\ Elements(s) = Elements(SubSeq(s, 1, Len(s) - 1)) \cup {s[Len(s)]}
         /\ Distinct(s) => /\ Distinct(SubSeq(s, 1, Len(s) - 1))
                           /\ s[Len(s)] \notin Elements(SubSeq(s, 1, Len(s) - 1))
         /\ Len(s) = 1 => SubSeq(s, 1, Len(s) - 1) = <<>>
<1>1. Len(s) \in DOMAIN s /\ s[Len(s)] \in S /\ SubSeq(s, 1, Len(s) - 1) \in Seq(S)
  OBVIOUS
<1>2. Elements(s) = Elements(SubSeq(s, 1, Len(s) - 1)) \cup {s[Len(s)]}
  <2> DEFINE t == SubSeq(s, 1, Len(s) - 1)
  <2>1. /\ DOMAIN s = DOMAIN t \cup {Len(s)}
        /\ \A i \in DOMAIN t : t[i] = s[i]
    <3>1. Len(s) \in Nat \ {0} /\ DOMAIN s = 1 .. Len(s)
      OBVIOUS
    <3>2. DOMAIN t = 1 .. (Len(s) - 1)
      BY <3>1
    <3>3. \A i \in 1 .. (Len(s) - 1) : t[i] = s[i]
      BY <3>1
    <3>4. 1 .. Len(s) = 1 .. (Len(s) - 1) \cup {Len(s)}
      BY <3>1
    <3>5. QED
      BY <3>1, <3>2, <3>3, <3>4
  <2> HIDE DEF t
  <2>2. Elements(s) = Elements(t) \cup {s[Len(s)]}
    BY <2>1, Zenon DEF Elements
  <2>3. QED
    BY <2>2 DEF t
<1>3. Distinct(s) => /\ Distinct(SubSeq(s, 1, Len(s) - 1))
                     /\ s[Len(s)] \notin Elements(SubSeq(s, 1, Len(s) - 1))
  BY DEF Elements, Distinct
<1>4. Len(s) = 1 => SubSeq(s, 1, Len(s) - 1) = <<>>
  OBVIOUS
<1>5. QED
  BY <1>1, <1>2, <1>3, <1>4

LEMMA LoadInitial == LoadInit => LoadInv
<1>1. SUFFICES ASSUME LoadInit PROVE LoadInv
  OBVIOUS
<1>2. Elements(<<>>) = {} /\ Distinct(<<>>)
  BY DEF Elements, Distinct
<1>3. LoadTypes /\ ChainsApart /\ ChainEnded
  BY <1>1, <1>2 DEF LoadInit, LoadTypes, ChainsApart, ChainEnded
<1>4. TreeSoFar
  BY <1>1, <1>2, RootAssumption
     DEF LoadInit, TreeSoFar, OneChainEach, RootFirst, DeclaredDone
<1>5. QED
  BY <1>3, <1>4 DEF LoadInv

-----------------------------------------------------------------------------
(* Steps. *)

LEMMA ElementsIn ==
  ASSUME NEW S, NEW s \in Seq(S)
  PROVE  Elements(s) \subseteq S
BY DEF Elements

\* A step that fails only has to keep the types and the chains.
LEMMA FailureStep ==
  ASSUME LoadInv, NEW code, LoadFails(code), code \notin {"loading", "loaded"},
         document' = document,
         extended' = extended \/ \E target \in Files : activeChain # <<>> /\ Follow(target)
  PROVE  LoadInv'
<1>1. extended' \in [Files -> Seq(Files)]
  <2>1. CASE extended' = extended
    BY <2>1 DEF LoadInv, LoadTypes
  <2>2. ASSUME NEW target \in Files, activeChain # <<>>, Follow(target)
        PROVE extended' \in [Files -> Seq(Files)]
    <3>1. extended' = [extended EXCEPT ![Current] = Append(@, target)]
      BY <2>2 DEF Follow
    <3>2. extended \in [Files -> Seq(Files)] /\ \A f \in Files : Append(extended[f], target) \in Seq(Files)
      BY DEF LoadInv, LoadTypes
    <3>3. QED
      BY <3>1, <3>2
  <2>3. QED
    BY <2>1, <2>2
<1>2. LoadTypes'
  BY <1>1 DEF LoadFails, LoadInv, LoadTypes
<1>3. ChainsApart'
  BY DEF LoadFails, LoadInv, ChainsApart, Elements, Distinct
<1>4. TreeSoFar' /\ ChainEnded'
  BY DEF LoadFails, TreeSoFar, ChainEnded
<1>5. QED
  BY <1>2, <1>3, <1>4 DEF LoadInv

LEMMA VisitStep ==
  ASSUME LoadInv, NEW target \in Files, activeChain = <<>> => target = Root, Visit(target)
  PROVE  LoadInv'
<1> USE DEF LoadInv
<1>1. /\ activeChain \in Seq(Files) /\ sourcePaths \in Seq(Files)
      /\ extended \in [Files -> Seq(Files)]
      /\ loading = "loading" /\ loading' = "loading"
      /\ activeChain' = Append(activeChain, target)
      /\ firstChains' = firstChains \cup {target}
      /\ document' = document /\ sourcePaths' = sourcePaths
      /\ target \notin firstChains
  BY DEF Visit, AwaitsEntry, LoadTypes, Seen
<1>2. OneChainEach /\ RootFirst /\ DeclaredDone
  BY <1>1 DEF TreeSoFar
<1>3. ChainsApart'
  <2>1. target \notin Elements(activeChain) /\ target \notin Elements(sourcePaths)
    BY <1>1 DEF ChainsApart
  <2>2. /\ Elements(activeChain') = Elements(activeChain) \cup {target}
        /\ Distinct(activeChain')
    BY <1>1, <2>1, ElementsOfAppend DEF ChainsApart
  <2>3. Elements(sourcePaths') = Elements(sourcePaths) /\ Distinct(sourcePaths')
    BY <1>1 DEF ChainsApart
  <2>4. QED
    BY <1>1, <2>1, <2>2, <2>3 DEF ChainsApart
<1>4. CASE activeChain = <<>>
  <2>1. sourcePaths = <<>> /\ target = Root /\ extended' = extended
    BY <1>1, <1>4 DEF Visit, AwaitsEntry, Follow
  <2>2. firstChains = {}
    BY <1>4, <2>1 DEF ChainsApart, Elements
  <2>3. \A f \in Files : extended[f] = <<>>
    BY <1>2, <2>2 DEF RootFirst
  <2>4. OneChainEach'
    BY <1>1, <2>1, <2>2, <2>3, RootAssumption DEF OneChainEach, Elements
  <2>5. RootFirst' /\ DeclaredDone'
    BY <1>1, <1>2, <2>1, <2>3 DEF RootFirst, DeclaredDone, Elements
  <2>6. LoadTypes'
    BY <1>1, <2>1, ElementsOfAppend DEF LoadTypes
  <2>7. QED
    BY <1>1, <1>3, <2>4, <2>5, <2>6 DEF TreeSoFar, ChainEnded
<1>5. CASE activeChain # <<>>
  <2> DEFINE c == Current
  <2>1. c \in Files /\ c \in Elements(activeChain)
    BY <1>1, <1>5, ElementsOfFront DEF Current, Elements
  <2>2. c \in firstChains
    BY <2>1 DEF ChainsApart
  <2>3. extended' = [extended EXCEPT ![c] = Append(@, target)]
    BY <1>5 DEF Visit, Follow
  <2>4. /\ \A f \in Files \ {c} : extended'[f] = extended[f]
        /\ extended'[c] = Append(extended[c], target)
        /\ extended[c] \in Seq(Files)
    BY <1>1, <2>1, <2>3
  <2>5. extended' \in [Files -> Seq(Files)]
    BY <1>1, <2>1, <2>3, <2>4
  <2>6. Root \in firstChains /\ target # Root
    BY <1>1, <1>2, <2>2 DEF RootFirst
  <2>7. /\ Elements(extended'[c]) = Elements(extended[c]) \cup {target}
        /\ \A f \in Files \ {c} : Elements(extended'[f]) = Elements(extended[f])
    BY <2>4, ElementsOfAppend
  <2>8. \A f \in Files : target \notin Elements(extended[f])
    BY <1>1, <1>2 DEF OneChainEach
  <2>9. ASSUME NEW f \in Files, NEW g \in Files,
               NEW i \in DOMAIN extended'[f], NEW j \in DOMAIN extended'[g],
               extended'[f][i] = extended'[g][j]
        PROVE  f = g /\ i = j
    <3> DEFINE new(h, k) == h = c /\ k = Len(extended[c]) + 1
    <3>1. \A h \in Files : \A k \in DOMAIN extended'[h] :
            \/ new(h, k) /\ extended'[h][k] = target
            \/ ~new(h, k) /\ k \in DOMAIN extended[h] /\ extended'[h][k] = extended[h][k]
      BY <2>4
    <3>2. \A h \in Files : \A k \in DOMAIN extended[h] : extended[h][k] # target
      BY <2>8 DEF Elements
    <3> HIDE DEF new
    <3>3. CASE new(f, i) /\ new(g, j)
      BY <3>3 DEF new
    <3>4. CASE ~new(f, i) /\ ~new(g, j)
      BY <3>1, <3>4, <2>9, <1>2 DEF OneChainEach
    <3>5. CASE new(f, i) /\ ~new(g, j)
      BY <3>1, <3>2, <3>5, <2>9
    <3>6. CASE ~new(f, i) /\ new(g, j)
      BY <3>1, <3>2, <3>6, <2>9
    <3>7. QED
      BY <3>3, <3>4, <3>5, <3>6
  <2>10. OneChainEach'
    <3>1. \A f \in Files : Elements(extended'[f]) \subseteq firstChains' \ {Root}
      BY <1>1, <1>2, <2>6, <2>7 DEF OneChainEach
    <3>2. \A g \in firstChains' \ {Root} : \E f \in firstChains' : g \in Elements(extended'[f])
      <4>1. SUFFICES ASSUME NEW g \in firstChains' \ {Root}
                     PROVE \E f \in firstChains' : g \in Elements(extended'[f])
        OBVIOUS
      <4>2. CASE g = target
        BY <4>2, <2>2, <2>7, <1>1
      <4>3. CASE g \in firstChains
        <5>1. PICK f \in firstChains : g \in Elements(extended[f])
          BY <4>1, <4>3, <1>2 DEF OneChainEach
        <5>2. f \in Files
          <6>1. firstChains \subseteq Files
            BY <1>1, ElementsIn DEF ChainsApart
          <6>2. QED
            BY <6>1
        <5>3. g \in Elements(extended'[f])
          BY <5>1, <5>2, <2>7
        <5>4. QED
          BY <5>3, <5>1, <1>1
      <4>4. QED
        BY <4>1, <4>2, <4>3, <1>1
    <3>3. QED
      BY <3>1, <3>2, <2>9 DEF OneChainEach, Elements
  <2>11. RootFirst'
    BY <1>1, <1>2, <2>2, <2>4, <2>6 DEF RootFirst
  <2>12. DeclaredDone'
    <3>1. \A f \in Elements(sourcePaths) : f \in Files /\ f # c
      BY <1>1, <2>1, ElementsIn DEF ChainsApart
    <3>2. Elements(sourcePaths') = Elements(sourcePaths)
      BY <1>1
    <3>3. QED
      BY <1>1, <1>2, <2>4, <3>1, <3>2 DEF DeclaredDone
  <2>13. LoadTypes'
    BY <1>1, <2>5, ElementsOfAppend DEF LoadTypes
  <2>14. QED
    BY <1>1, <1>3, <2>10, <2>11, <2>12, <2>13 DEF TreeSoFar, ChainEnded
<1>6. QED
  BY <1>4, <1>5

LEMMA ReadStep ==
  ASSUME LoadInv, NEW d \in Documents, Read(d)
  PROVE  LoadInv'
<1> USE DEF LoadInv
<1>1. /\ loading' = loading /\ activeChain' = activeChain /\ firstChains' = firstChains
      /\ extended' = extended /\ sourcePaths' = sourcePaths
      /\ document' = [document EXCEPT ![Current] = d]
      /\ activeChain \in Seq(Files) /\ activeChain # <<>> /\ sourcePaths \in Seq(Files)
      /\ document \in [Files -> Documents \cup {None}]
  BY DEF Read, AwaitsFile, LoadTypes
<1>2. Current \in Files /\ Current \in Elements(activeChain)
  BY <1>1, ElementsOfFront DEF Current, Elements
<1>3. LoadTypes'
  BY <1>1, <1>2 DEF LoadTypes
<1>4. ChainsApart' /\ ChainEnded'
  <2>1. /\ Elements(activeChain)' = Elements(activeChain)
        /\ Elements(sourcePaths)' = Elements(sourcePaths)
        /\ Distinct(activeChain)' = Distinct(activeChain)
        /\ Distinct(sourcePaths)' = Distinct(sourcePaths)
    BY <1>1
  <2>2. QED
    BY <1>1, <2>1 DEF ChainsApart, ChainEnded
<1>5. ASSUME loading \in {"loading", "loaded"}
      PROVE OneChainEach' /\ RootFirst' /\ DeclaredDone'
  <2>1. OneChainEach' /\ RootFirst'
    BY <1>1, <1>5 DEF TreeSoFar, OneChainEach, RootFirst, Elements
  <2>2. \A f \in Elements(sourcePaths) : f \in Files /\ f # Current
    BY <1>1, <1>2, ElementsIn DEF ChainsApart
  <2>3. Elements(sourcePaths') = Elements(sourcePaths)
    BY <1>1
  <2>4. DeclaredDone'
    BY <1>1, <1>5, <2>2, <2>3 DEF TreeSoFar, DeclaredDone
  <2>5. QED
    BY <2>1, <2>4
<1>6. QED
  BY <1>1, <1>3, <1>4, <1>5 DEF TreeSoFar

LEMMA DeclareStep ==
  ASSUME LoadInv, Declare
  PROVE  LoadInv'
<1> USE DEF LoadInv
<1>1. /\ loading = "loading" /\ activeChain # <<>>
      /\ activeChain \in Seq(Files) /\ sourcePaths \in Seq(Files)
      /\ firstChains' = firstChains /\ document' = document /\ extended' = extended
      /\ sourcePaths' = Append(sourcePaths, Current)
      /\ activeChain' = SubSeq(activeChain, 1, Len(activeChain) - 1)
      /\ loading' = IF Len(activeChain) = 1 THEN "loaded" ELSE "loading"
      /\ document[Current] # None
      /\ Len(extended[Current]) = document[Current].extends
  BY DEF Declare, LoadTypes
<1>2. /\ Current \in Files
      /\ activeChain' \in Seq(Files)
      /\ Elements(activeChain) = Elements(activeChain') \cup {Current}
      /\ Distinct(activeChain') /\ Current \notin Elements(activeChain')
      /\ Len(activeChain) = 1 => activeChain' = <<>>
  BY <1>1, ElementsOfFront DEF Current, ChainsApart
<1>3. /\ sourcePaths' \in Seq(Files)
      /\ Elements(sourcePaths') = Elements(sourcePaths) \cup {Current}
      /\ Distinct(sourcePaths')
  BY <1>1, <1>2, ElementsOfAppend DEF ChainsApart
<1>4. LoadTypes'
  BY <1>1, <1>2, <1>3 DEF LoadTypes
<1>5. ChainsApart'
  BY <1>1, <1>2, <1>3 DEF ChainsApart
<1>6. ChainEnded'
  BY <1>1, <1>2 DEF ChainEnded
<1>7. OneChainEach' /\ RootFirst'
  BY <1>1 DEF TreeSoFar, OneChainEach, RootFirst, Elements
<1>8. DeclaredDone'
  BY <1>1, <1>2, <1>3 DEF TreeSoFar, DeclaredDone, LoadTypes
<1>9. QED
  BY <1>4, <1>5, <1>6, <1>7, <1>8 DEF TreeSoFar

LEMMA LoadSteps ==
  ASSUME LoadInv, [LoadNext]_loadVars
  PROVE  LoadInv'
<1>1. CASE UNCHANGED loadVars
  <2>1. LoadTypes' /\ ChainEnded'
    BY <1>1 DEF loadVars, LoadInv, LoadTypes, ChainEnded
  <2>2. /\ Elements(activeChain)' = Elements(activeChain)
        /\ Elements(sourcePaths)' = Elements(sourcePaths)
        /\ Distinct(activeChain)' = Distinct(activeChain)
        /\ Distinct(sourcePaths)' = Distinct(sourcePaths)
    BY <1>1 DEF loadVars
  <2>3. ChainsApart'
    BY <1>1, <2>2 DEF loadVars, LoadInv, ChainsApart
  <2>4. OneChainEach' = OneChainEach /\ RootFirst' = RootFirst /\ DeclaredDone' = DeclaredDone
    BY <1>1 DEF loadVars, OneChainEach, RootFirst, DeclaredDone, Elements
  <2>5. TreeSoFar'
    BY <1>1, <2>4 DEF loadVars, LoadInv, TreeSoFar
  <2>6. QED
    BY <2>1, <2>3, <2>5 DEF LoadInv
<1>2. CASE Unresolvable
  BY <1>2, FailureStep DEF Unresolvable
<1>3. ASSUME NEW target \in Files, activeChain = <<>> => target = Root,
             CycleFound(target) \/ DuplicateFound(target) \/ Visit(target)
      PROVE LoadInv'
  <2>1. CASE CycleFound(target)
    <3>1. activeChain # <<>>
      BY <2>1 DEF CycleFound, Elements
    <3>2. QED
      BY <2>1, <3>1, FailureStep DEF CycleFound
  <2>2. CASE DuplicateFound(target)
    <3>1. activeChain = <<>> => extended' = extended
      BY <2>2 DEF DuplicateFound, Follow
    <3>2. QED
      BY <2>2, <3>1, FailureStep DEF DuplicateFound
  <2>3. CASE Visit(target)
    BY <1>3, <2>3, VisitStep
  <2>4. QED
    BY <1>3, <2>1, <2>2, <2>3
<1>4. ASSUME NEW d \in Documents, Read(d) PROVE LoadInv'
  BY <1>4, ReadStep
<1>5. CASE ReadFails
  BY <1>5, FailureStep DEF ReadFails
<1>6. CASE Declare
  BY <1>6, DeclareStep
<1>7. QED
  BY <1>1, <1>2, <1>3, <1>4, <1>5, <1>6 DEF LoadNext

\* LoadedIsATree: whatever the extends entries resolve to, a configuration
\* that loads is a tree of files, all of them read and declared once.
THEOREM LoadedTree == Spec => []LoadedIsATree
<1>1. Init => LoadInv
  BY LoadInitial DEF Init
<1>2. ASSUME LoadInv, [Next]_<<loadVars, bindVars>> PROVE LoadInv'
  <2>1. [LoadNext]_loadVars
    BY <1>2 DEF Next
  <2>2. QED
    BY <1>2, <2>1, LoadSteps
<1>3. LoadInv => LoadedIsATree
  <2>1. SUFFICES ASSUME LoadInv, loading = "loaded" PROVE OneChainEach /\ AllDeclared
    BY DEF LoadedIsATree
  <2>2. OneChainEach /\ DeclaredDone /\ activeChain = <<>>
    BY <2>1 DEF LoadInv, TreeSoFar, ChainEnded
  <2>3. Elements(activeChain) = {}
    BY <2>2 DEF Elements
  <2>4. QED
    BY <2>1, <2>2, <2>3 DEF LoadInv, ChainsApart, AllDeclared, DeclaredDone, Distinct
<1>4. QED
  BY <1>1, <1>2, <1>3, PTL DEF Spec

-----------------------------------------------------------------------------
(* The order of the walk. *)

\* Every file of the chain but the first is what the newest entry of the one
\* before it has resolved to, so it is below all that come before it.
ChainLinked ==
  /\ \A k \in 1 .. Len(activeChain) - 1 :
       /\ extended[activeChain[k]] # <<>>
       /\ activeChain[k + 1] = extended[activeChain[k]][Len(extended[activeChain[k]])]
  /\ \A k, n \in 1 .. Len(activeChain) : k <= n => AtOrBelow(activeChain[k], activeChain[n])

\* g was reached through an entry of the k-th file of the chain that has been
\* followed to its end.
WalkedFrom(k, g) ==
  \E i \in DOMAIN extended[activeChain[k]] :
    /\ k = Len(activeChain) \/ i < Len(extended[activeChain[k]])
    /\ AtOrBelow(extended[activeChain[k]][i], g)

ChainReaches ==
  activeChain # <<>> =>
    \A g \in Elements(sourcePaths) : \E k \in DOMAIN activeChain : WalkedFrom(k, g)

DeclaringRole(r) == {f \in Elements(sourcePaths) : document[f].roles[r] # None}
DeclaringProfile(p) == {f \in Elements(sourcePaths) : p \in document[f].executors}

\* What is kept for a role or a profile is the declaration that prevails.
NewestPrevails ==
  /\ roles \in [RoleIds -> Files \cup {None}]
  /\ executors \in [ProfileIds -> Files \cup {None}]
  /\ \A r \in RoleIds : roles[r] # None => Prevails(roles[r], DeclaringRole(r))
  /\ \A p \in ProfileIds : executors[p] # None => Prevails(executors[p], DeclaringProfile(p))

OrderInv == loading \in {"loading", "loaded"} => ChainLinked /\ ChainReaches /\ NewestPrevails

\* A file is at itself, what is below an entry is below its file, and what is
\* below what is below a file is below it.
LEMMA AtItself ==
  ASSUME NEW f \in Files
  PROVE  AtOrBelow(f, f)
  BY DEF AtOrBelow

LEMMA BelowEntry ==
  ASSUME NEW f \in Files, NEW i \in DOMAIN extended[f], NEW g, AtOrBelow(extended[f][i], g)
  PROVE  Below(f, g) /\ AtOrBelow(f, g)
  BY DEF AtOrBelow, Below, EntriesWithin, Elements

LEMMA BelowBelow ==
  ASSUME NEW f, NEW g, NEW h, AtOrBelow(f, g), AtOrBelow(g, h)
  PROVE  AtOrBelow(f, h)
  BY DEF AtOrBelow

\* The entries of every file are kept, at their places.
EntriesKept ==
  \A f \in Files : /\ DOMAIN extended[f] \subseteq DOMAIN extended'[f]
                   /\ \A i \in DOMAIN extended[f] : extended'[f][i] = extended[f][i]

\* g is f or below it, in the graph that the given entries make.
Reaches(entries, f, g) ==
  \A T \in SUBSET Files : f \in T /\ (\A h \in T : Elements(entries[h]) \subseteq T) => g \in T

\* What is below a file, or overridden by it, stays so while entries are added.
LEMMA BelowKept ==
  ASSUME EntriesKept, NEW f, NEW g, Reaches(extended, f, g)
  PROVE  Reaches(extended', f, g)
<1>1. \A h \in Files : Elements(extended[h]) \subseteq Elements(extended'[h])
  BY DEF EntriesKept, Elements
<1> QED
  BY <1>1 DEF Reaches

LEMMA OverridesKept ==
  ASSUME EntriesKept, NEW f \in Files, NEW g, Overrides(f, g)
  PROVE  Overrides(f, g)'
<1>1. CASE Below(f, g)
  <2>1. PICK h \in Elements(extended[f]) : AtOrBelow(h, g)
    BY <1>1 DEF Below
  <2>2. h \in Elements(extended'[f])
    BY <2>1 DEF EntriesKept, Elements
  <2>3. AtOrBelow(h, g)'
    BY <2>1, BelowKept DEF AtOrBelow, EntriesWithin, Reaches
  <2> QED
    BY <2>2, <2>3 DEF Overrides, Below
<1>2. ASSUME NEW h \in Files, NEW i \in DOMAIN extended[h], NEW j \in DOMAIN extended[h],
             i < j, AtOrBelow(extended[h][i], g), AtOrBelow(extended[h][j], f)
      PROVE  Overrides(f, g)'
  <2>1. AtOrBelow(extended[h][i], g)' /\ AtOrBelow(extended[h][j], f)'
    <3>1. /\ Reaches(extended', extended[h][i], g)
          /\ Reaches(extended', extended[h][j], f)
      BY <1>2, BelowKept DEF AtOrBelow, EntriesWithin, Reaches
    <3>2. extended'[h][i] = extended[h][i] /\ extended'[h][j] = extended[h][j]
      BY DEF EntriesKept
    <3> QED
      BY <3>1, <3>2 DEF AtOrBelow, EntriesWithin, Reaches
  <2>2. i \in DOMAIN extended'[h] /\ j \in DOMAIN extended'[h]
    BY DEF EntriesKept
  <2> QED
    BY <1>2, <2>1, <2>2 DEF Overrides
<1> QED
  BY <1>1, <1>2 DEF Overrides

\* Entries found while what was declared stays: so does what prevails.
LEMMA PrevailingKept ==
  ASSUME LoadInv, NewestPrevails, EntriesKept,
         UNCHANGED <<roles, executors, sourcePaths>>,
         \A f \in Elements(sourcePaths) : document'[f] = document[f]
  PROVE  NewestPrevails'
<1>1. \A r : DeclaringRole(r)' = DeclaringRole(r)
  BY DEF DeclaringRole, Elements
<1>2. \A p : DeclaringProfile(p)' = DeclaringProfile(p)
  BY DEF DeclaringProfile, Elements
<1>3. ASSUME NEW f \in Files, NEW S, Prevails(f, S)
      PROVE  f \in S /\ \A g \in S \ {f} : Overrides(f, g)'
  BY <1>3, OverridesKept DEF Prevails
<1>4. ASSUME NEW r \in RoleIds, roles'[r] # None
      PROVE  Prevails(roles[r], DeclaringRole(r))'
  <2>1. roles[r] \in Files /\ Prevails(roles[r], DeclaringRole(r)) /\ roles' = roles
    BY <1>4 DEF NewestPrevails
  <2>2. \A g \in DeclaringRole(r) \ {roles[r]} : Overrides(roles[r], g)'
    BY <2>1, OverridesKept DEF Prevails
  <2> QED
    BY <1>1, <2>1, <2>2 DEF Prevails
<1>5. ASSUME NEW p \in ProfileIds, executors'[p] # None
      PROVE  Prevails(executors[p], DeclaringProfile(p))'
  <2>1. executors[p] \in Files /\ Prevails(executors[p], DeclaringProfile(p)) /\ executors' = executors
    BY <1>5 DEF NewestPrevails
  <2>2. \A g \in DeclaringProfile(p) \ {executors[p]} : Overrides(executors[p], g)'
    BY <2>1, OverridesKept DEF Prevails
  <2> QED
    BY <1>2, <2>1, <2>2 DEF Prevails
<1> QED
  BY <1>4, <1>5 DEF NewestPrevails

\* When the current file is declared, all that was declared is below it, or
\* below an earlier entry of a file above it.
LEMMA CurrentOverrides ==
  ASSUME LoadInv, ChainLinked, ChainReaches, activeChain # <<>>, NEW g \in Elements(sourcePaths)
  PROVE  Overrides(Current, g)
<1>1. activeChain \in Seq(Files) /\ extended \in [Files -> Seq(Files)]
  BY DEF LoadInv, LoadTypes
<1>2. PICK k \in DOMAIN activeChain : WalkedFrom(k, g)
  BY DEF ChainReaches
<1>3. k \in 1 .. Len(activeChain) /\ activeChain[k] \in Files
  BY <1>1, <1>2
<1>4. PICK i \in DOMAIN extended[activeChain[k]] :
        /\ k = Len(activeChain) \/ i < Len(extended[activeChain[k]])
        /\ AtOrBelow(extended[activeChain[k]][i], g)
  BY <1>2 DEF WalkedFrom
<1>5. CASE k = Len(activeChain)
  BY <1>3, <1>4, <1>5, BelowEntry DEF Current, Overrides
<1>6. CASE k # Len(activeChain)
  <2> DEFINE newest == Len(extended[activeChain[k]])
  <2>1. i < newest /\ newest \in DOMAIN extended[activeChain[k]]
    BY <1>1, <1>3, <1>4, <1>6
  <2>2. /\ k + 1 \in 1 .. Len(activeChain) /\ Len(activeChain) \in 1 .. Len(activeChain)
        /\ k \in 1 .. Len(activeChain) - 1
    BY <1>1, <1>3, <1>6
  <2>3. AtOrBelow(activeChain[k + 1], Current)
    BY <2>2 DEF ChainLinked, Current
  <2>4. activeChain[k + 1] = extended[activeChain[k]][newest]
    BY <2>2 DEF ChainLinked
  <2> QED
    BY <1>3, <1>4, <2>1, <2>3, <2>4 DEF Overrides
<1> QED
  BY <1>5, <1>6

LEMMA VisitOrder ==
  ASSUME LoadInv, OrderInv, NEW target \in Files, Visit(target)
  PROVE  OrderInv'
<1>1. /\ activeChain \in Seq(Files) /\ sourcePaths \in Seq(Files)
      /\ extended \in [Files -> Seq(Files)] /\ Distinct(activeChain)
      /\ loading = "loading"
      /\ activeChain' = Append(activeChain, target)
      /\ UNCHANGED <<document, sourcePaths, roles, executors>>
      /\ ChainLinked /\ ChainReaches /\ NewestPrevails
  BY DEF LoadInv, LoadTypes, ChainsApart, Visit, AwaitsEntry, OrderInv
<1>2. CASE activeChain = <<>>
  <2>1. sourcePaths = <<>> /\ extended' = extended /\ activeChain' = <<target>>
    BY <1>1, <1>2 DEF Visit, AwaitsEntry, Follow
  <2>2. EntriesKept
    BY <2>1 DEF EntriesKept
  <2>3. NewestPrevails'
    BY <1>1, <2>2, PrevailingKept
  <2>4. ChainReaches'
    BY <1>1, <2>1 DEF ChainReaches, Elements
  <2>5. AtOrBelow(target, target)'
    BY DEF AtOrBelow
  <2>6. ChainLinked'
    BY <2>1, <2>5 DEF ChainLinked
  <2> QED
    BY <2>3, <2>4, <2>6 DEF OrderInv
<1>3. CASE activeChain # <<>>
  <2> DEFINE c == Current
             top == Len(activeChain)
  <2>0. top \in Nat \ {0}
    BY <1>1, <1>3
  <2>1. top \in 1 .. top /\ c = activeChain[top] /\ c \in Files /\ DOMAIN activeChain = 1 .. top
    BY <1>1, <1>3 DEF Current
  <2>2. extended' = [extended EXCEPT ![c] = Append(@, target)]
    BY <1>3 DEF Visit, Follow
  <2>3. /\ \A f \in Files \ {c} : extended'[f] = extended[f]
        /\ extended'[c] = Append(extended[c], target)
        /\ extended[c] \in Seq(Files)
    BY <1>1, <2>1, <2>2
  <2>4. /\ Len(extended'[c]) = Len(extended[c]) + 1 /\ extended'[c] # <<>>
        /\ extended'[c][Len(extended'[c])] = target
        /\ DOMAIN extended'[c] = 1 .. Len(extended[c]) + 1
        /\ DOMAIN extended[c] = 1 .. Len(extended[c])
        /\ \A i \in DOMAIN extended[c] : extended'[c][i] = extended[c][i]
    BY <2>3
  <2>5. EntriesKept
    BY <2>3, <2>4 DEF EntriesKept
  <2>6. /\ \A k \in 1 .. top : activeChain'[k] = activeChain[k] /\ activeChain[k] \in Files
        /\ activeChain'[top + 1] = target /\ Len(activeChain') = top + 1
        /\ DOMAIN activeChain' = 1 .. top + 1
    BY <1>1
  <2>7. \A k \in 1 .. top - 1 : activeChain[k] # c
    <3>1. \A i, j \in 1 .. top : activeChain[i] = activeChain[j] => i = j
      BY <1>1, <2>1 DEF Distinct
    <3>2. ASSUME NEW k \in 1 .. top - 1, activeChain[k] = activeChain[top] PROVE FALSE
      <4>1. k \in 1 .. top /\ k # top
        BY <2>0
      <4> QED
        BY <2>1, <3>1, <3>2, <4>1
    <3> QED
      BY <2>1, <3>2
  <2>8. ChainLinked'
    <3>1. ASSUME NEW k \in 1 .. top
          PROVE  /\ extended'[activeChain'[k]] # <<>>
                 /\ activeChain'[k + 1] = extended'[activeChain'[k]][Len(extended'[activeChain'[k]])]
      <4>1. CASE k = top
        BY <2>1, <2>4, <2>6, <4>1
      <4>2. CASE k # top
        <5>1. k \in 1 .. top - 1 /\ k + 1 \in 1 .. top
          BY <2>0, <4>2
        <5>2. extended'[activeChain[k]] = extended[activeChain[k]]
          BY <2>3, <2>6, <2>7, <5>1
        <5> QED
          BY <1>1, <2>6, <5>1, <5>2 DEF ChainLinked
      <4> QED
        BY <4>1, <4>2
    <3>2. Reaches(extended', target, target)
      BY DEF Reaches
    <3>3. ASSUME NEW k \in 1 .. top, NEW n \in 1 .. top, k <= n
          PROVE  Reaches(extended', activeChain[k], activeChain[n])
      <4>1. Reaches(extended, activeChain[k], activeChain[n])
        BY <1>1, <3>3 DEF ChainLinked, AtOrBelow, EntriesWithin, Reaches
      <4> QED
        BY <2>5, <4>1, BelowKept
    <3>4. ASSUME NEW k \in 1 .. top
          PROVE  Reaches(extended', activeChain[k], target)
      <4>1. Reaches(extended', activeChain[k], c)
        BY <2>0, <2>1, <3>3
      <4>2. target \in Elements(extended'[c])
        BY <2>4 DEF Elements
      <4> QED
        BY <2>1, <4>1, <4>2 DEF Reaches
    <3>5. ASSUME NEW k \in 1 .. top + 1, NEW n \in 1 .. top + 1, k <= n
          PROVE  Reaches(extended', activeChain'[k], activeChain'[n])
      <4>1. CASE n = top + 1
        BY <2>0, <2>6, <3>2, <3>4, <4>1
      <4>2. CASE n # top + 1
        <5>1. k \in 1 .. top /\ n \in 1 .. top
          BY <2>0, <3>5, <4>2
        <5> QED
          BY <2>6, <3>3, <3>5, <5>1
      <4> QED
        BY <4>1, <4>2
    <3>6. \A k, n \in 1 .. Len(activeChain') :
            k <= n => AtOrBelow(activeChain[k], activeChain[n])'
      BY <2>6, <3>5 DEF AtOrBelow, EntriesWithin, Reaches
    <3>7. Len(activeChain') - 1 = top
      BY <2>0, <2>6
    <3> QED
      BY <3>1, <3>6, <3>7 DEF ChainLinked
  <2>9. ChainReaches'
    <3>1. SUFFICES ASSUME NEW g \in Elements(sourcePaths)
                   PROVE  \E k \in DOMAIN activeChain' : WalkedFrom(k, g)'
      BY <1>1 DEF ChainReaches, Elements
    <3>1a. PICK k \in 1 .. top : WalkedFrom(k, g)
      BY <1>1, <1>3, <2>1 DEF ChainReaches
    <3>2. PICK i \in DOMAIN extended[activeChain[k]] :
            /\ k = top \/ i < Len(extended[activeChain[k]])
            /\ Reaches(extended, extended[activeChain[k]][i], g)
      BY <3>1a DEF WalkedFrom, AtOrBelow, EntriesWithin, Reaches
    <3> DEFINE f == activeChain[k]
    <3>3. f \in Files /\ activeChain'[k] = f /\ k \in DOMAIN activeChain' /\ k # Len(activeChain')
      BY <2>0, <2>6
    <3>4. i \in DOMAIN extended'[f] /\ extended'[f][i] = extended[f][i]
      BY <2>5, <3>3 DEF EntriesKept
    <3>5. i < Len(extended'[f])
      <4>1. CASE k = top
        BY <1>1, <2>1, <2>4, <4>1
      <4>2. CASE k # top
        <5>1. k \in 1 .. top - 1
          BY <2>0, <4>2
        <5>2. extended'[f] = extended[f]
          BY <2>3, <2>6, <2>7, <5>1
        <5> QED
          BY <3>2, <4>2, <5>2
      <4> QED
        BY <4>1, <4>2
    <3>6. Reaches(extended', extended'[f][i], g)
      BY <2>5, <3>2, <3>4, BelowKept
    <3> QED
      BY <3>3, <3>4, <3>5, <3>6 DEF WalkedFrom, AtOrBelow, EntriesWithin, Reaches
  <2>10. NewestPrevails'
    BY <1>1, <2>5, PrevailingKept
  <2> QED
    BY <2>8, <2>9, <2>10 DEF OrderInv
<1> QED
  BY <1>2, <1>3

\* Neither depends on anything but the chain, the entries and what is declared.
LEMMA ChainFrame ==
  ASSUME UNCHANGED <<activeChain, extended, sourcePaths>>
  PROVE  /\ ChainLinked => ChainLinked'
         /\ ChainReaches => ChainReaches'
<1>1. \A f, g : AtOrBelow(f, g)' <=> AtOrBelow(f, g)
  BY DEF AtOrBelow, EntriesWithin, Elements
<1>2. ASSUME ChainLinked PROVE ChainLinked'
  <2>1. ASSUME NEW k \in 1 .. Len(activeChain), NEW n \in 1 .. Len(activeChain), k <= n
        PROVE  AtOrBelow(activeChain[k], activeChain[n])'
    BY <1>1, <1>2, <2>1, Zenon DEF ChainLinked
  <2> QED
    BY <1>2, <2>1 DEF ChainLinked
<1>3. ASSUME NEW k, NEW g, WalkedFrom(k, g) PROVE WalkedFrom(k, g)'
  BY <1>1, <1>3, Zenon DEF WalkedFrom
<1>4. Elements(sourcePaths)' = Elements(sourcePaths)
  OBVIOUS
<1>5. ASSUME ChainReaches PROVE ChainReaches'
  BY <1>3, <1>4, <1>5, Zenon DEF ChainReaches
<1> QED
  BY <1>2, <1>5

LEMMA ReadOrder ==
  ASSUME LoadInv, OrderInv, NEW d \in Documents, Read(d)
  PROVE  OrderInv'
<1>1. /\ activeChain \in Seq(Files) /\ activeChain # <<>> /\ sourcePaths \in Seq(Files)
      /\ document \in [Files -> Documents \cup {None}]
      /\ document' = [document EXCEPT ![Current] = d]
      /\ UNCHANGED <<loading, activeChain, firstChains, extended, sourcePaths, roles, executors>>
      /\ ChainLinked /\ ChainReaches /\ NewestPrevails
  BY DEF LoadInv, LoadTypes, Read, AwaitsFile, OrderInv
<1>2. Current \in Files /\ Current \in Elements(activeChain)
  BY <1>1, ElementsOfFront DEF Current, Elements
<1>3. \A f \in Elements(sourcePaths) : document'[f] = document[f]
  BY <1>1, <1>2, ElementsIn DEF LoadInv, ChainsApart
<1>4. EntriesKept
  BY <1>1 DEF EntriesKept
<1>5. NewestPrevails'
  BY <1>1, <1>3, <1>4, PrevailingKept
<1>6. ChainLinked' /\ ChainReaches'
  BY <1>1, ChainFrame
<1> QED
  BY <1>5, <1>6 DEF OrderInv

\* A declaration made last overrides those made before it.
LEMMA DeclarePrevails ==
  ASSUME LoadInv, OrderInv, Declare
  PROVE  NewestPrevails'
<1>1. /\ activeChain \in Seq(Files) /\ activeChain # <<>> /\ sourcePaths \in Seq(Files)
      /\ document \in [Files -> Documents \cup {None}]
      /\ UNCHANGED <<firstChains, document, extended>>
      /\ sourcePaths' = Append(sourcePaths, Current)
      /\ document[Current] # None
      /\ roles' = Overridden(roles, DeclaredRoles(document[Current]))
      /\ executors' = Overridden(executors, document[Current].executors)
      /\ ChainLinked /\ ChainReaches /\ NewestPrevails
  BY DEF LoadInv, LoadTypes, Declare, OrderInv
<1>2. Current \in Files /\ document[Current] \in Documents
  BY <1>1, ElementsOfFront DEF Current
<1>3. Elements(sourcePaths') = Elements(sourcePaths) \cup {Current}
  BY <1>1, <1>2, ElementsOfAppend
<1> DEFINE c == Current
<1>4. \A g \in Elements(sourcePaths) : Overrides(c, g)
  BY <1>1, CurrentOverrides
<1>5. /\ roles \in [RoleIds -> Files \cup {None}]
      /\ executors \in [ProfileIds -> Files \cup {None}]
  BY <1>1 DEF NewestPrevails
<1>6. /\ roles' = [r \in RoleIds |-> IF r \in DeclaredRoles(document[c]) THEN c ELSE roles[r]]
      /\ executors' = [p \in ProfileIds |-> IF p \in document[c].executors THEN c ELSE executors[p]]
  BY <1>1, <1>5 DEF Overridden
<1>7. PICK current : current = c
  OBVIOUS
<1>8. \A f, g : Overrides(f, g)' <=> Overrides(f, g)
  BY <1>1 DEF Overrides, Below, AtOrBelow, EntriesWithin, Elements
<1>9. ASSUME NEW r \in RoleIds, roles'[r] # None
      PROVE  Prevails(roles[r], DeclaringRole(r))'
  <2>1. DeclaringRole(r)' = {f \in Elements(sourcePaths) \cup {current} : document[f].roles[r] # None}
    BY <1>1, <1>3, <1>7 DEF DeclaringRole
  <2>2. CASE r \in DeclaredRoles(document[c])
    <3>1. roles'[r] = current /\ document[current].roles[r] # None
      BY <1>6, <1>7, <2>2 DEF DeclaredRoles
    <3>2. \A g \in DeclaringRole(r)' \ {current} : Overrides(current, g)'
      BY <1>4, <1>7, <1>8, <2>1
    <3> QED
      BY <2>1, <3>1, <3>2 DEF Prevails
  <2>3. CASE r \notin DeclaredRoles(document[c])
    <3>1. roles'[r] = roles[r] /\ document[current].roles[r] = None
      BY <1>6, <1>7, <2>3 DEF DeclaredRoles
    <3>2. DeclaringRole(r)' = DeclaringRole(r)
      BY <2>1, <3>1 DEF DeclaringRole
    <3>3. PICK f : f = roles[r]
      OBVIOUS
    <3>4. f \in DeclaringRole(r) /\ \A g \in DeclaringRole(r) \ {f} : Overrides(f, g)
      BY <1>1, <1>9, <3>1, <3>3 DEF NewestPrevails, Prevails
    <3>5. \A g \in DeclaringRole(r)' \ {f} : Overrides(f, g)'
      BY <1>8, <3>2, <3>4
    <3> QED
      BY <3>1, <3>2, <3>3, <3>4, <3>5 DEF Prevails
  <2> QED
    BY <2>2, <2>3
<1>10. ASSUME NEW p \in ProfileIds, executors'[p] # None
       PROVE  Prevails(executors[p], DeclaringProfile(p))'
  <2>1. DeclaringProfile(p)' = {f \in Elements(sourcePaths) \cup {current} : p \in document[f].executors}
    BY <1>1, <1>3, <1>7 DEF DeclaringProfile
  <2>2. CASE p \in document[c].executors
    <3>1. executors'[p] = current /\ p \in document[current].executors
      BY <1>6, <1>7, <2>2
    <3>2. \A g \in DeclaringProfile(p)' \ {current} : Overrides(current, g)'
      BY <1>4, <1>7, <1>8, <2>1
    <3> QED
      BY <2>1, <3>1, <3>2 DEF Prevails
  <2>3. CASE p \notin document[c].executors
    <3>1. executors'[p] = executors[p] /\ p \notin document[current].executors
      BY <1>6, <1>7, <2>3
    <3>2. DeclaringProfile(p)' = DeclaringProfile(p)
      BY <2>1, <3>1 DEF DeclaringProfile
    <3>3. PICK f : f = executors[p]
      OBVIOUS
    <3>4. f \in DeclaringProfile(p) /\ \A g \in DeclaringProfile(p) \ {f} : Overrides(f, g)
      BY <1>1, <1>10, <3>1, <3>3 DEF NewestPrevails, Prevails
    <3>5. \A g \in DeclaringProfile(p)' \ {f} : Overrides(f, g)'
      BY <1>8, <3>2, <3>4
    <3> QED
      BY <3>1, <3>2, <3>3, <3>4, <3>5 DEF Prevails
  <2> QED
    BY <2>2, <2>3
<1>11. roles' \in [RoleIds -> Files \cup {None}] /\ executors' \in [ProfileIds -> Files \cup {None}]
  BY <1>2, <1>5, <1>6
<1> QED
  BY <1>9, <1>10, <1>11 DEF NewestPrevails

LEMMA DeclareOrder ==
  ASSUME LoadInv, OrderInv, Declare
  PROVE  OrderInv'
<1>1. /\ activeChain \in Seq(Files) /\ activeChain # <<>> /\ sourcePaths \in Seq(Files)
      /\ extended \in [Files -> Seq(Files)] /\ extended' = extended
      /\ sourcePaths' = Append(sourcePaths, Current)
      /\ activeChain' = SubSeq(activeChain, 1, Len(activeChain) - 1)
      /\ ChainLinked /\ ChainReaches
  BY DEF LoadInv, LoadTypes, Declare, OrderInv
<1> DEFINE c == Current
           top == Len(activeChain)
<1>2. /\ top \in Nat \ {0} /\ c = activeChain[top] /\ c \in Files /\ DOMAIN activeChain = 1 .. top
      /\ \A k \in 1 .. top : activeChain[k] \in Files
  BY <1>1 DEF Current
<1>3. /\ Len(activeChain') = top - 1 /\ DOMAIN activeChain' = 1 .. top - 1
      /\ \A k \in 1 .. top - 1 : activeChain'[k] = activeChain[k]
  BY <1>1, <1>2
<1>4. Elements(sourcePaths') = Elements(sourcePaths) \cup {c}
  BY <1>1, <1>2, ElementsOfAppend
<1>5. ChainLinked'
  <2>1. ASSUME NEW k \in 1 .. top - 1, NEW n \in 1 .. top - 1, k <= n
        PROVE  Reaches(extended, activeChain[k], activeChain[n])
    <3>1. k \in 1 .. top /\ n \in 1 .. top
      BY <1>2
    <3> QED
      BY <1>1, <2>1, <3>1 DEF ChainLinked, AtOrBelow, EntriesWithin, Reaches
  <2>2. \A k, n \in 1 .. Len(activeChain') :
          k <= n => AtOrBelow(activeChain[k], activeChain[n])'
    BY <1>1, <1>3, <2>1 DEF AtOrBelow, EntriesWithin, Reaches
  <2>3. ASSUME NEW k \in 1 .. Len(activeChain') - 1
        PROVE  /\ extended'[activeChain'[k]] # <<>>
               /\ activeChain'[k + 1] = extended'[activeChain'[k]][Len(extended'[activeChain'[k]])]
    <3>1. k \in 1 .. top - 1 /\ k + 1 \in 1 .. top - 1
      BY <1>2, <1>3
    <3> QED
      BY <1>1, <1>3, <3>1 DEF ChainLinked
  <2> QED
    BY <2>2, <2>3 DEF ChainLinked
<1>6. ChainReaches'
  <2>1. SUFFICES ASSUME activeChain' # <<>>, NEW g \in Elements(sourcePaths) \cup {c}
                 PROVE  \E k \in DOMAIN activeChain' : WalkedFrom(k, g)'
    BY <1>4 DEF ChainReaches
  <2>2. PICK last : last = top - 1
    OBVIOUS
  <2>3. last \in 1 .. top - 1 /\ last \in DOMAIN activeChain' /\ last \in 1 .. top /\ last + 1 = top
    <3>1. top - 1 # 0
      <4>1. activeChain' \in Seq(Files)
        BY <1>1, ElementsOfFront
      <4> QED
        BY <1>3, <2>1, <4>1
    <3> QED
      BY <1>2, <1>3, <2>2, <3>1
  <2>4. ASSUME Reaches(extended, c, g)
        PROVE  WalkedFrom(last, g)'
    <3> DEFINE f == activeChain[last]
               newest == Len(extended[f])
    <3>1. f \in Files /\ extended[f] \in Seq(Files)
      BY <1>1, <1>2, <2>3
    <3>2. extended[f] # <<>> /\ c = extended[f][newest]
      BY <1>1, <1>2, <2>2, <2>3 DEF ChainLinked
    <3>3. newest \in DOMAIN extended[f]
      BY <3>1, <3>2
    <3>4. activeChain'[last] = f /\ extended'[f] = extended[f] /\ last = Len(activeChain')
      BY <1>1, <1>3, <2>2, <2>3
    <3>5. Reaches(extended', extended'[f][newest], g)
      BY <1>1, <2>4, <3>2, <3>4
    <3> HIDE DEF f, newest
    <3> QED
      BY <3>3, <3>4, <3>5 DEF WalkedFrom, AtOrBelow, EntriesWithin, Reaches
  <2>5. CASE g = c
    <3>1. Reaches(extended, c, g)
      BY <2>5 DEF Reaches
    <3> QED
      BY <2>3, <2>4, <3>1, Zenon
  <2>6. CASE g \in Elements(sourcePaths)
    <3>1. PICK k \in 1 .. top : WalkedFrom(k, g)
      BY <1>1, <1>2, <2>6 DEF ChainReaches
    <3>2. PICK i \in DOMAIN extended[activeChain[k]] :
            /\ k = top \/ i < Len(extended[activeChain[k]])
            /\ Reaches(extended, extended[activeChain[k]][i], g)
      BY <3>1 DEF WalkedFrom, AtOrBelow, EntriesWithin, Reaches
    <3>3. CASE k = top
      <4>1. Reaches(extended, c, g)
        BY <1>2, <3>2, <3>3 DEF Reaches, Elements
      <4> QED
        BY <2>3, <2>4, <4>1, Zenon
    <3>4. CASE k # top
      <4>1. k \in 1 .. top - 1
        <5>1. k \in 1 .. top /\ k # top /\ top \in Nat
          BY <1>2, <3>1, <3>4
        <5> HIDE DEF top
        <5> QED
          BY <5>1
      <4>2. activeChain'[k] = activeChain[k] /\ k \in DOMAIN activeChain'
        BY <1>3, <4>1
      <4>3. WalkedFrom(k, g)'
        BY <1>1, <3>2, <3>4, <4>2 DEF WalkedFrom, AtOrBelow, EntriesWithin, Reaches
      <4> QED
        BY <4>2, <4>3, Zenon
    <3> QED
      BY <3>3, <3>4
  <2> QED
    BY <2>5, <2>6
<1>7. NewestPrevails'
  BY DeclarePrevails
<1> QED
  BY <1>5, <1>6, <1>7 DEF OrderInv

LEMMA OrderInitial == LoadInit => OrderInv
<1> SUFFICES ASSUME LoadInit PROVE OrderInv
  OBVIOUS
<1>1. ChainLinked /\ ChainReaches
  BY DEF LoadInit, ChainLinked, ChainReaches
<1>2. NewestPrevails
  BY DEF LoadInit, NewestPrevails
<1> QED
  BY <1>1, <1>2 DEF OrderInv

LEMMA OrderSteps ==
  ASSUME LoadInv, OrderInv, [LoadNext]_loadVars
  PROVE  OrderInv'
<1>1. CASE UNCHANGED loadVars
  <2>1. EntriesKept
    BY <1>1 DEF loadVars, EntriesKept
  <2>2. NewestPrevails => NewestPrevails'
    BY <1>1, <2>1, PrevailingKept DEF loadVars
  <2> QED
    BY <1>1, <2>2, ChainFrame DEF loadVars, OrderInv
<1>2. ASSUME NEW code, LoadFails(code), code \notin {"loading", "loaded"}
      PROVE  OrderInv'
  BY <1>2 DEF LoadFails, OrderInv
<1>3. CASE Unresolvable \/ ReadFails
  BY <1>2, <1>3 DEF Unresolvable, ReadFails
<1>4. ASSUME NEW target \in Files, CycleFound(target) \/ DuplicateFound(target) \/ Visit(target)
      PROVE  OrderInv'
  BY <1>2, <1>4, VisitOrder DEF CycleFound, DuplicateFound
<1>5. ASSUME NEW d \in Documents, Read(d) PROVE OrderInv'
  BY <1>5, ReadOrder
<1>6. CASE Declare
  BY <1>6, DeclareOrder
<1> QED
  BY <1>1, <1>3, <1>4, <1>5, <1>6 DEF LoadNext
-----------------------------------------------------------------------------
(* The calls on a loaded handle. *)

DeclaredProfiles ==
  {d \in Files \X ProfileIds :
     d[1] \in Elements(sourcePaths) /\ d[2] \in document[d[1]].executors}
DeclaredSpecs ==
  {d \in SpecParts :
     d[1] \in Elements(sourcePaths) /\ d[2] \in DeclaredRoles(document[d[1]])}

\* A declared profile that was looked at, with what it names, and accepted.
Fits(d) ==
  /\ profiles[d] # None
  /\ InspectionCode(profiles[d], registration) = "none"
  /\ profiles[d].mode # "host" => registration # None

BindTypes ==
  /\ profiles \in [Files \X ProfileIds -> Profiles \cup {None}]
  /\ specs \in [SpecParts -> {"good", "bad", None}]
  /\ edited \in BOOLEAN /\ validated \in BOOLEAN

\* There is no handle before everything is loaded.
Untouched ==
  loading # "loaded" => call = Idle /\ binding = None /\ runtime = None /\ ~validated

\* The profile a role and a caller ask for, and that of a caller alone.
OfRole(role, asked, id) ==
  /\ role \in RoleIds /\ roles[role] # None
  /\ id = IF asked # None THEN asked ELSE ExecutorOf(role)
OfCaller(role, asked, id) == role = None /\ asked # None /\ id = asked

CallInv ==
  /\ call = [op |-> call.op, at |-> call.at, role |-> call.role, asked |-> call.asked,
             profileId |-> call.profileId]
  /\ call.at \in {"idle", "profiles", "specs", "spec", "fragment", "digest"}
  /\ call.at \in {"profiles", "specs"} => call.op = "validate"
  /\ call.at \in Parts => /\ call.op = "compile"
                           /\ call.role \in RoleIds /\ roles[call.role] # None
                           /\ call.asked \in ProfileIds \cup {None}
  /\ call.at = "digest" =>
       /\ \/ call.op = "compile" /\ OfRole(call.role, call.asked, call.profileId)
          \/ call.op = "inspect" /\ OfCaller(call.role, call.asked, call.profileId)
       /\ call.profileId \in ProfileIds /\ executors[call.profileId] # None
       /\ Fits(<<executors[call.profileId], call.profileId>>)

BindingInv ==
  binding # None =>
    /\ \/ /\ OfRole(binding.role, binding.asked, binding.profileId)
          /\ binding.roleFile = roles[binding.role]
       \/ OfCaller(binding.role, binding.asked, binding.profileId)
    /\ binding.profileId \in ProfileIds /\ executors[binding.profileId] # None
    /\ binding.profileFile = executors[binding.profileId]
    /\ Fits(<<binding.profileFile, binding.profileId>>)

\* What a run was resolved from is what the handle still holds.
RuntimeInv ==
  runtime # None =>
    \E d \in Files \X ProfileIds :
      /\ d = <<runtime.binding.profileFile, runtime.binding.profileId>>
      /\ Fits(d) /\ profiles[d].mode = "adapter"
      /\ runtime.options =
           Resolved(registration.schemas, profiles[d].options, runtime.environment)
      /\ runtime.replacements = Replacements(registration.schemas, profiles[d].options)

AllFit == \A d \in DeclaredProfiles : Fits(d)

ValidatingInv ==
  /\ call.at = "profiles" => /\ todo \subseteq DeclaredProfiles
                             /\ \A d \in DeclaredProfiles \ todo : Fits(d)
  /\ call.at = "specs" => /\ todo \subseteq DeclaredSpecs
                          /\ AllFit
                          /\ ~edited => \A d \in DeclaredSpecs \ todo : specs[d] = "good"

ValidatedInv ==
  validated => AllFit /\ ExecutorsExist /\ \A d \in DeclaredSpecs : specs[d] = "good"

BindInv ==
  /\ BindTypes
  /\ Untouched
  /\ CallInv
  /\ BindingInv
  /\ RuntimeInv
  /\ ValidatingInv
  /\ ValidatedInv
  /\ ValidatedRolesBind

\* What the walk has left, when a call may begin.
LEMMA LoadedHandle ==
  ASSUME LoadInv, OrderInv, loading = "loaded"
  PROVE  /\ \A r \in RoleIds : roles[r] # None =>
              /\ \A part \in Parts : <<roles[r], r, part>> \in DeclaredSpecs
              /\ ExecutorOf(r) \in ProfileIds
         /\ \A p \in ProfileIds : executors[p] # None => <<executors[p], p>> \in DeclaredProfiles
<1>1. NewestPrevails /\ DeclaredDone /\ sourcePaths \in Seq(Files)
  BY DEF LoadInv, OrderInv, TreeSoFar, LoadTypes
<1>2. ASSUME NEW r \in RoleIds, roles[r] # None
      PROVE  /\ \A part \in Parts : <<roles[r], r, part>> \in DeclaredSpecs
             /\ ExecutorOf(r) \in ProfileIds
  <2>1. roles[r] \in Files /\ roles[r] \in Elements(sourcePaths) /\ document[roles[r]].roles[r] # None
    BY <1>1, <1>2 DEF NewestPrevails, Prevails, DeclaringRole
  <2>2. document[roles[r]] \in Documents
    BY <1>1, <2>1 DEF DeclaredDone
  <2>3. document[roles[r]].roles \in [RoleIds -> ProfileIds \cup {None}]
    BY <2>2, DocumentsAssumption
  <2> QED
    BY <2>1, <2>3 DEF DeclaredSpecs, SpecParts, DeclaredRoles, ExecutorOf
<1>3. ASSUME NEW p \in ProfileIds, executors[p] # None
      PROVE  <<executors[p], p>> \in DeclaredProfiles
  BY <1>1, <1>3 DEF NewestPrevails, Prevails, DeclaringProfile, DeclaredProfiles
<1> QED
  BY <1>2, <1>3

\* What was found of a profile that was looked at is not looked for again.
Stays ==
  \A d \in Files \X ProfileIds :
    Fits(d) => /\ Fits(d)' /\ profiles'[d] = profiles[d]
               /\ profiles[d].mode # "host" => registration' = registration

LEMMA Unlooked ==
  ASSUME UNCHANGED <<registration, profiles>>
  PROVE  Stays
BY DEF Stays, Fits

LEMMA Looked ==
  ASSUME BindTypes, NEW d \in Files \X ProfileIds, NEW content \in ProfileChoices(d),
         NEW entry \in RegistrationChoices(content), Looks(d, content, entry)
  PROVE  /\ Stays
         /\ profiles' \in [Files \X ProfileIds -> Profiles \cup {None}]
         /\ InspectionCode(content, entry) = "none" => Fits(d)'
         /\ Fits(d) => InspectionCode(content, entry) = "none"
<1>1. content \in Profiles /\ content # None /\ (profiles[d] # None => content = profiles[d])
  BY UnseenAssumption, FewAssumption DEF ProfileChoices, BindTypes
<1>2. profiles' = [profiles EXCEPT ![d] = content] /\ registration' = entry
  BY DEF Looks
<1>3. /\ profiles' \in [Files \X ProfileIds -> Profiles \cup {None}]
      /\ profiles'[d] = content
      /\ \A e \in Files \X ProfileIds : profiles[e] # None => profiles'[e] = profiles[e]
  BY <1>1, <1>2 DEF BindTypes
<1>4. /\ content.mode = "host" \/ registration # None => entry = registration
      /\ content.mode # "host" => entry # None
  BY UnseenAssumption, FewAssumption DEF RegistrationChoices
<1>5. \A e, f : InspectionCode(content, e) = InspectionCode(content, f) \/ content.mode # "host"
  BY DEF InspectionCode
<1>6. ASSUME NEW e \in Files \X ProfileIds, Fits(e)
      PROVE  /\ Fits(e)' /\ profiles'[e] = profiles[e]
             /\ profiles[e].mode # "host" => registration' = registration
  <2>1. profiles[e] # None /\ profiles'[e] = profiles[e]
    BY <1>3, <1>6 DEF Fits
  <2>2. CASE profiles[e].mode # "host"
    <3>1. registration' = registration
      BY <1>2, <1>4, <1>6, <2>2 DEF Fits
    <3> QED
      BY <1>6, <2>1, <3>1 DEF Fits
  <2>3. CASE profiles[e].mode = "host"
    <3>1. InspectionCode(profiles[e], registration)' = "none"
      BY <2>1, <2>3 DEF InspectionCode
    <3> QED
      BY <2>1, <2>3, <3>1 DEF Fits
  <2> QED
    BY <2>2, <2>3
<1>7. ASSUME InspectionCode(content, entry) = "none" PROVE Fits(d)'
  BY <1>1, <1>2, <1>3, <1>4, <1>7 DEF Fits
<1>8. ASSUME Fits(d) PROVE InspectionCode(content, entry) = "none"
  <2>1. content = profiles[d] /\ InspectionCode(content, registration) = "none"
    BY <1>1, <1>8 DEF Fits
  <2>2. CASE content.mode = "host"
    BY <2>2 DEF InspectionCode
  <2>3. CASE content.mode # "host"
    BY <1>4, <1>8, <2>1, <2>3 DEF Fits
  <2> QED
    BY <2>2, <2>3
<1> QED
  BY <1>3, <1>6, <1>7, <1>8 DEF Stays

\* A handle stays bound, and a run resolved, to what it was.
LEMMA HandleStays ==
  ASSUME LoadInv, OrderInv, BindInv, loading = "loaded", UNCHANGED loadVars, Stays
  PROVE  /\ \A r, a, i : (OfRole(r, a, i)' <=> OfRole(r, a, i)) /\ (OfCaller(r, a, i)' <=> OfCaller(r, a, i))
         /\ UNCHANGED binding => BindingInv'
         /\ UNCHANGED runtime => RuntimeInv'
         /\ DeclaredProfiles' = DeclaredProfiles /\ DeclaredSpecs' = DeclaredSpecs
         /\ AllFit => AllFit'
         /\ ExecutorsExist' <=> ExecutorsExist
<1>1. /\ DeclaredProfiles' = DeclaredProfiles /\ DeclaredSpecs' = DeclaredSpecs
      /\ DeclaredProfiles \subseteq Files \X ProfileIds
  BY DEF loadVars, DeclaredProfiles, DeclaredSpecs, Elements, DeclaredRoles
<1>2. \A r : ExecutorOf(r)' = ExecutorOf(r)
  BY DEF loadVars, ExecutorOf
<1>3. \A r, a, i : (OfRole(r, a, i)' <=> OfRole(r, a, i)) /\ (OfCaller(r, a, i)' <=> OfCaller(r, a, i))
  BY <1>2 DEF loadVars, OfRole, OfCaller
<1>4. ASSUME UNCHANGED binding PROVE BindingInv'
  <2>1. SUFFICES ASSUME binding # None PROVE BindingInv'
    BY <1>4 DEF BindingInv
  <2>2. PICK d : d = <<binding.profileFile, binding.profileId>>
    OBVIOUS
  <2>3. d \in Files \X ProfileIds /\ Fits(d)
    BY <2>1, <2>2, LoadedHandle DEF BindInv, BindingInv, DeclaredProfiles
  <2>4. Fits(d)'
    BY <2>3 DEF Stays
  <2>5. /\ \/ OfRole(binding.role, binding.asked, binding.profileId)' /\ binding.roleFile = roles[binding.role]
           \/ OfCaller(binding.role, binding.asked, binding.profileId)'
    BY <1>3, <1>4, <2>1 DEF BindInv, BindingInv
  <2> QED
    BY <1>4, <2>1, <2>2, <2>4, <2>5 DEF BindInv, BindingInv, loadVars
<1>5. ASSUME UNCHANGED runtime PROVE RuntimeInv'
  <2>1. SUFFICES ASSUME runtime # None PROVE RuntimeInv'
    BY <1>5 DEF RuntimeInv
  <2>2. PICK d \in Files \X ProfileIds :
          /\ d = <<runtime.binding.profileFile, runtime.binding.profileId>>
          /\ Fits(d) /\ profiles[d].mode = "adapter"
          /\ runtime.options =
               Resolved(registration.schemas, profiles[d].options, runtime.environment)
          /\ runtime.replacements = Replacements(registration.schemas, profiles[d].options)
    BY <2>1 DEF BindInv, RuntimeInv
  <2>3. Fits(d)' /\ profiles'[d] = profiles[d] /\ registration' = registration
    BY <2>2 DEF Stays
  <2> QED
    BY <1>5, <2>2, <2>3 DEF RuntimeInv
<1>6. ASSUME AllFit PROVE AllFit'
  BY <1>1, <1>6 DEF AllFit, Stays
<1>7. ExecutorsExist' <=> ExecutorsExist
  BY <1>2 DEF ExecutorsExist, loadVars
<1> QED
  BY <1>1, <1>3, <1>4, <1>5, <1>6, <1>7

LEMMA KeptParts ==
  ASSUME LoadInv, OrderInv, BindInv, loading = "loaded", UNCHANGED loadVars, Stays
  PROVE  /\ Untouched'
         /\ call' = Idle => CallInv' /\ ValidatingInv'
         /\ UNCHANGED call => CallInv'
         /\ UNCHANGED <<call, todo, edited, specs>> => ValidatingInv'
         /\ UNCHANGED <<specs, validated>> => ValidatedInv'
         /\ UNCHANGED <<outcome, validated>> => ValidatedRolesBind'
         /\ outcome'.op # "compile" => ValidatedRolesBind'
<1>1. Untouched'
  BY DEF Untouched, loadVars
<1>2. ASSUME call' = Idle PROVE CallInv' /\ ValidatingInv'
  BY <1>2 DEF Idle, CallInv, Parts, ValidatingInv
<1>3. ASSUME UNCHANGED call PROVE CallInv'
  <2>1. ASSUME call.at = "digest"
        PROVE  Fits(<<executors[call.profileId], call.profileId>>)'
    <3>1. PICK d : d = <<executors[call.profileId], call.profileId>>
      OBVIOUS
    <3>2. d \in Files \X ProfileIds /\ Fits(d)
      BY <2>1, <3>1, LoadedHandle DEF BindInv, CallInv, DeclaredProfiles
    <3> QED
      BY <1>3, <3>1, <3>2 DEF Stays, loadVars
  <2>2. /\ OfRole(call.role, call.asked, call.profileId)' <=> OfRole(call.role, call.asked, call.profileId)
        /\ OfCaller(call.role, call.asked, call.profileId)' <=> OfCaller(call.role, call.asked, call.profileId)
    BY <1>3, HandleStays
  <2> QED
    BY <1>3, <2>1, <2>2 DEF BindInv, CallInv, loadVars
<1>4. ASSUME UNCHANGED <<call, todo, edited, specs>> PROVE ValidatingInv'
  <2>1. /\ DeclaredProfiles' = DeclaredProfiles /\ DeclaredSpecs' = DeclaredSpecs
        /\ AllFit => AllFit'
    BY HandleStays
  <2>2. DeclaredProfiles \subseteq Files \X ProfileIds
    BY DEF DeclaredProfiles
  <2>3. \A d \in DeclaredProfiles : Fits(d) => Fits(d)'
    BY <2>2 DEF Stays
  <2> QED
    BY <1>4, <2>1, <2>3 DEF BindInv, ValidatingInv
<1>5. ASSUME UNCHANGED <<specs, validated>> PROVE ValidatedInv'
  BY <1>5, HandleStays DEF BindInv, ValidatedInv
<1>6. ASSUME UNCHANGED <<outcome, validated>> PROVE ValidatedRolesBind'
  BY <1>6 DEF BindInv, ValidatedRolesBind
<1>7. ASSUME outcome'.op # "compile" PROVE ValidatedRolesBind'
  BY <1>7 DEF ValidatedRolesBind
<1> QED
  BY <1>1, <1>2, <1>3, <1>4, <1>5, <1>6, <1>7

\* A spec that was read is what it was; one read for the first time is either.
LEMMA SpecChosen ==
  ASSUME BindTypes, NEW d \in SpecParts, NEW s \in SpecChoices(d),
         specs' = [specs EXCEPT ![d] = s]
  PROVE  /\ specs' \in [SpecParts -> {"good", "bad", None}]
         /\ specs'[d] = s
         /\ specs[d] = "good" => s = "good"
         /\ \A e \in SpecParts : specs[e] = "good" => specs'[e] = "good"
BY UnseenAssumption, FewAssumption DEF BindTypes, SpecChoices

LEMMA ValidatedSpecs ==
  ASSUME LoadInv, OrderInv, BindInv, loading = "loaded", UNCHANGED <<loadVars, validated>>, Stays,
         \A e \in SpecParts : specs[e] = "good" => specs'[e] = "good"
  PROVE  ValidatedInv'
<1>1. DeclaredSpecs \subseteq SpecParts
  BY DEF DeclaredSpecs
<1> QED
  BY <1>1, HandleStays DEF BindInv, ValidatedInv

-----------------------------------------------------------------------------
(* Validation. *)

LEMMA ValidateBinds ==
  ASSUME LoadInv, OrderInv, BindInv, loading = "loaded", UNCHANGED loadVars, Validate
  PROVE  BindInv'
<1>1. Stays
  BY Unlooked DEF Validate
<1>2. BindTypes'
  BY DEF Validate, BindInv, BindTypes
<1>3. CallInv'
  BY DEF Validate, Begin, CallInv, Parts
<1>4. ValidatingInv'
  <2>1. todo' = DeclaredProfiles' /\ call'.at = "profiles"
    BY <1>1, HandleStays DEF Validate, Begin, DeclaredProfiles
  <2> QED
    BY <2>1 DEF ValidatingInv
<1>5. BindingInv' /\ RuntimeInv' /\ Untouched' /\ ValidatedInv' /\ ValidatedRolesBind'
  BY <1>1, HandleStays, KeptParts DEF Validate
<1> QED
  BY <1>2, <1>3, <1>4, <1>5 DEF BindInv

LEMMA InspectDeclarationBinds ==
  ASSUME LoadInv, OrderInv, BindInv, loading = "loaded", UNCHANGED loadVars,
         NEW d \in NextToDo, call.at = "profiles", NEW content \in ProfileChoices(d),
         NEW entry \in RegistrationChoices(content), InspectDeclaration(d, content, entry)
  PROVE  BindInv'
<1>1. d \in todo /\ d \in Files \X ProfileIds /\ BindTypes
  BY DEF NextToDo, BindInv, ValidatingInv, DeclaredProfiles
<1>2. /\ Stays
      /\ profiles' \in [Files \X ProfileIds -> Profiles \cup {None}]
      /\ InspectionCode(content, entry) = "none" => Fits(d)'
  BY <1>1, Looked DEF InspectDeclaration
<1>3. BindTypes'
  BY <1>1, <1>2 DEF InspectDeclaration, BindTypes
<1>4. BindingInv' /\ RuntimeInv' /\ Untouched' /\ ValidatedInv'
  BY <1>2, HandleStays, KeptParts DEF InspectDeclaration
<1>5. CASE InspectionCode(content, entry) = "none"
  <2>1. todo' = todo \ {d} /\ UNCHANGED <<call, outcome, validated>>
    BY <1>5 DEF InspectDeclaration
  <2>2. CallInv' /\ ValidatedRolesBind'
    BY <1>2, <2>1, KeptParts
  <2>3. ValidatingInv'
    <3>1. DeclaredProfiles' = DeclaredProfiles /\ DeclaredProfiles \subseteq Files \X ProfileIds
      BY <1>2, HandleStays DEF DeclaredProfiles
    <3>2. \A e \in DeclaredProfiles \ todo' : Fits(e)'
      BY <1>2, <1>5, <2>1, <3>1 DEF Stays, BindInv, ValidatingInv
    <3> QED
      BY <2>1, <3>1, <3>2 DEF BindInv, ValidatingInv
  <2> QED
    BY <1>3, <1>4, <2>2, <2>3 DEF BindInv
<1>6. CASE InspectionCode(content, entry) # "none"
  <2>1. call' = Idle /\ outcome'.op = "validate"
    BY <1>6 DEF InspectDeclaration, Finish, BindInv, CallInv
  <2>2. CallInv' /\ ValidatingInv' /\ ValidatedRolesBind'
    BY <1>2, <2>1, KeptParts
  <2> QED
    BY <1>3, <1>4, <2>2 DEF BindInv
<1> QED
  BY <1>5, <1>6

LEMMA InspectionsDoneBinds ==
  ASSUME LoadInv, OrderInv, BindInv, loading = "loaded", UNCHANGED loadVars, InspectionsDone
  PROVE  BindInv'
<1>1. Stays
  BY Unlooked DEF InspectionsDone
<1>2. BindTypes'
  BY DEF InspectionsDone, BindInv, BindTypes
<1>3. CallInv'
  <2>1. call' = [op |-> call.op, at |-> "specs", role |-> call.role, asked |-> call.asked,
                 profileId |-> call.profileId] /\ call.op = "validate"
    BY DEF InspectionsDone, BindInv, CallInv
  <2> QED
    BY <2>1 DEF CallInv, Parts
<1>4. ValidatingInv'
  <2>1. call'.at = "specs"
    BY DEF InspectionsDone, BindInv, CallInv
  <2>2. todo' = DeclaredSpecs
    BY DEF InspectionsDone, DeclaredSpecs
  <2>3. AllFit
    BY DEF InspectionsDone, BindInv, ValidatingInv, AllFit
  <2> QED
    BY <1>1, <2>1, <2>2, <2>3, HandleStays DEF ValidatingInv
<1>5. BindingInv' /\ RuntimeInv' /\ Untouched' /\ ValidatedInv' /\ ValidatedRolesBind'
  BY <1>1, HandleStays, KeptParts DEF InspectionsDone
<1> QED
  BY <1>2, <1>3, <1>4, <1>5 DEF BindInv

LEMMA ReadDeclaredSpecBinds ==
  ASSUME LoadInv, OrderInv, BindInv, loading = "loaded", UNCHANGED loadVars,
         NEW d \in NextPart, call.at = "specs", NEW s \in SpecChoices(d), ReadDeclaredSpec(d, s)
  PROVE  BindInv'
<1>1. d \in todo /\ d \in SpecParts /\ BindTypes
  BY DEF NextPart, HalfRead, NextToDo, BindInv, ValidatingInv, DeclaredSpecs
<1>2. Stays
  BY Unlooked DEF ReadDeclaredSpec
<1>3. /\ specs' \in [SpecParts -> {"good", "bad", None}]
      /\ specs'[d] = s
      /\ \A e \in SpecParts : specs[e] = "good" => specs'[e] = "good"
  BY <1>1, SpecChosen DEF ReadDeclaredSpec
<1>4. BindTypes'
  BY <1>1, <1>3 DEF ReadDeclaredSpec, BindTypes
<1>5. BindingInv' /\ RuntimeInv' /\ Untouched' /\ ValidatedInv'
  BY <1>2, <1>3, HandleStays, KeptParts, ValidatedSpecs DEF ReadDeclaredSpec
<1>6. CASE s = "good"
  <2>1. todo' = todo \ {d} /\ UNCHANGED <<call, outcome, validated, edited>>
    BY <1>6 DEF ReadDeclaredSpec
  <2>2. CallInv' /\ ValidatedRolesBind'
    BY <1>2, <2>1, KeptParts
  <2>3. ValidatingInv'
    <3>1. DeclaredSpecs' = DeclaredSpecs /\ DeclaredSpecs \subseteq SpecParts /\ AllFit'
      BY <1>2, HandleStays DEF DeclaredSpecs, BindInv, ValidatingInv
    <3>2. ~edited => \A e \in DeclaredSpecs \ todo' : specs'[e] = "good"
      BY <1>3, <1>6, <2>1, <3>1 DEF BindInv, ValidatingInv
    <3> QED
      BY <2>1, <3>1, <3>2 DEF BindInv, ValidatingInv
  <2> QED
    BY <1>4, <1>5, <2>2, <2>3 DEF BindInv
<1>7. CASE s # "good"
  <2>1. call' = Idle /\ outcome'.op = "validate"
    BY <1>7 DEF ReadDeclaredSpec, Finish, BindInv, CallInv
  <2>2. CallInv' /\ ValidatingInv' /\ ValidatedRolesBind'
    BY <1>2, <2>1, KeptParts
  <2> QED
    BY <1>4, <1>5, <2>2 DEF BindInv
<1> QED
  BY <1>6, <1>7

LEMMA ValidationEndsBinds ==
  ASSUME LoadInv, OrderInv, BindInv, loading = "loaded", UNCHANGED loadVars, ValidationEnds
  PROVE  BindInv'
<1>1. Stays
  BY Unlooked DEF ValidationEnds
<1>2. BindTypes'
  BY DEF ValidationEnds, BindInv, BindTypes
<1>3. call' = Idle /\ outcome'.op = "validate"
  BY DEF ValidationEnds, Finish
<1>4. CallInv' /\ ValidatingInv' /\ ValidatedRolesBind' /\ Untouched'
  BY <1>1, <1>3, KeptParts
<1>5. BindingInv' /\ RuntimeInv'
  BY <1>1, HandleStays DEF ValidationEnds
<1>6. ValidatedInv'
  <2>1. SUFFICES ASSUME validated' PROVE ValidatedInv'
    BY DEF ValidatedInv
  <2>2. CASE validated
    BY <1>1, <2>2, HandleStays DEF BindInv, ValidatedInv, ValidationEnds
  <2>3. CASE ExecutorsExist /\ ~edited
    <3>1. AllFit /\ \A d \in DeclaredSpecs : specs[d] = "good"
      BY <2>3 DEF ValidationEnds, BindInv, ValidatingInv
    <3> QED
      BY <1>1, <2>3, <3>1, HandleStays DEF ValidatedInv, ValidationEnds
  <2> QED
    BY <2>1, <2>2, <2>3 DEF ValidationEnds
<1> QED
  BY <1>2, <1>4, <1>5, <1>6 DEF BindInv

-----------------------------------------------------------------------------
(* Compilation and inspection. *)

LEMMA CompileBinds ==
  ASSUME LoadInv, OrderInv, BindInv, loading = "loaded", UNCHANGED loadVars,
         NEW role \in RoleIds, NEW asked \in ProfileIds \cup {None}, Compile(role, asked)
  PROVE  BindInv'
<1>1. Stays
  BY Unlooked DEF Compile
<1>2. BindTypes'
  BY DEF Compile, BindInv, BindTypes
<1>3. BindingInv' /\ RuntimeInv' /\ Untouched' /\ ValidatedInv'
  BY <1>1, HandleStays, KeptParts DEF Compile
<1>4. CASE roles[role] = None
  <2>1. UNCHANGED <<call, todo, edited, specs>> /\ outcome'.role = None
    BY <1>4 DEF Compile, FinishAtOnce
  <2>2. CallInv' /\ ValidatingInv' /\ ValidatedRolesBind'
    BY <1>1, <2>1, KeptParts DEF ValidatedRolesBind
  <2> QED
    BY <1>2, <1>3, <2>2 DEF BindInv
<1>5. CASE roles[role] # None
  <2>1. /\ call' = [op |-> "compile", at |-> "spec", role |-> role, asked |-> asked, profileId |-> None]
        /\ UNCHANGED <<outcome, validated>>
    BY <1>5 DEF Compile, Begin
  <2>2. CallInv' /\ ValidatingInv'
    BY <1>5, <2>1 DEF CallInv, Parts, ValidatingInv, loadVars
  <2>3. ValidatedRolesBind'
    BY <1>1, <2>1, KeptParts
  <2> QED
    BY <1>2, <1>3, <2>2, <2>3 DEF BindInv
<1> QED
  BY <1>4, <1>5

\* What the spec of a role is awaited for.
LEMMA AwaitedSpec ==
  ASSUME LoadInv, OrderInv, BindInv, loading = "loaded", AwaitsSpec
  PROVE  /\ SpecOf \in DeclaredSpecs /\ SpecOf \in SpecParts
         /\ Selected \in ProfileIds
         /\ OfRole(call.role, call.asked, Selected)
         /\ executors[Selected] # None =>
              SelectedProfile \in DeclaredProfiles /\ SelectedProfile \in Files \X ProfileIds
<1>1. call.role \in RoleIds /\ roles[call.role] # None /\ call.asked \in ProfileIds \cup {None}
  BY DEF AwaitsSpec, BindInv, CallInv
<1>2. SpecOf \in DeclaredSpecs /\ ExecutorOf(call.role) \in ProfileIds
  BY <1>1, LoadedHandle DEF SpecOf, AwaitsSpec
<1>3. Selected \in ProfileIds
  BY <1>1, <1>2 DEF Selected
<1> QED
  BY <1>1, <1>2, <1>3, LoadedHandle
     DEF DeclaredSpecs, DeclaredProfiles, OfRole, Selected, SelectedProfile

LEMMA SpecFailsBinds ==
  ASSUME LoadInv, OrderInv, BindInv, loading = "loaded", UNCHANGED loadVars,
         AwaitsSpec, NEW s \in SpecChoices(SpecOf), SpecFails(s)
  PROVE  BindInv'
<1>1. Stays
  BY Unlooked DEF SpecFails
<1>2. PICK d \in SpecParts : d = SpecOf
  BY AwaitedSpec
<1>3. /\ specs' \in [SpecParts -> {"good", "bad", None}]
      /\ specs[d] = "good" => s = "good"
      /\ \A e \in SpecParts : specs[e] = "good" => specs'[e] = "good"
  BY <1>2, SpecChosen DEF SpecFails, BindInv
<1>4. BindTypes'
  BY <1>3 DEF SpecFails, BindInv, BindTypes
<1>5. BindingInv' /\ RuntimeInv' /\ Untouched' /\ ValidatedInv'
  BY <1>1, <1>3, HandleStays, KeptParts, ValidatedSpecs DEF SpecFails
<1>6. CallInv' /\ ValidatingInv'
  BY <1>1, KeptParts DEF SpecFails, Finish
<1>7. ValidatedRolesBind'
  <2>1. SUFFICES ASSUME validated, call.asked = None PROVE FALSE
    BY DEF ValidatedRolesBind, SpecFails, Finish
  <2>2. s = "good"
    BY <1>2, <1>3, <2>1, AwaitedSpec DEF BindInv, ValidatedInv
  <2>3. executors[ExecutorOf(call.role)] # None
    BY <2>1, AwaitedSpec DEF BindInv, ValidatedInv, ExecutorsExist, OfRole
  <2> QED
    BY <2>1, <2>2, <2>3 DEF SpecFails, Selected
<1> QED
  BY <1>4, <1>5, <1>6, <1>7 DEF BindInv

LEMMA SpecGoesOnBinds ==
  ASSUME LoadInv, OrderInv, BindInv, loading = "loaded", UNCHANGED loadVars,
         AwaitsSpec, NEW s \in SpecChoices(SpecOf), SpecGoesOn(s)
  PROVE  BindInv'
<1>1. Stays
  BY Unlooked DEF SpecGoesOn
<1>2. PICK d \in SpecParts : d = SpecOf
  BY AwaitedSpec
<1>3. /\ specs' \in [SpecParts -> {"good", "bad", None}]
      /\ \A e \in SpecParts : specs[e] = "good" => specs'[e] = "good"
  BY <1>2, SpecChosen DEF SpecGoesOn, BindInv
<1>4. BindTypes'
  BY <1>3 DEF SpecGoesOn, BindInv, BindTypes
<1>5. BindingInv' /\ RuntimeInv' /\ Untouched' /\ ValidatedInv' /\ ValidatedRolesBind'
  BY <1>1, <1>3, HandleStays, KeptParts, ValidatedSpecs DEF SpecGoesOn
<1>6. CallInv' /\ ValidatingInv'
  <2>1. /\ call' = [op |-> "compile", at |-> "fragment", role |-> call.role, asked |-> call.asked,
                    profileId |-> call.profileId]
        /\ call.role \in RoleIds /\ roles[call.role] # None
        /\ call.asked \in ProfileIds \cup {None}
    BY DEF SpecGoesOn, AwaitsSpec, BindInv, CallInv
  <2> QED
    BY <2>1 DEF CallInv, Parts, ValidatingInv, loadVars
<1> QED
  BY <1>4, <1>5, <1>6 DEF BindInv

LEMMA SpecReadBinds ==
  ASSUME LoadInv, OrderInv, BindInv, loading = "loaded", UNCHANGED loadVars,
         AwaitsSpec, executors[Selected] # None,
         NEW s \in SpecChoices(SpecOf), NEW content \in ProfileChoices(SelectedProfile),
         NEW entry \in RegistrationChoices(content), SpecRead(s, content, entry)
  PROVE  BindInv'
<1>1. PICK d \in Files \X ProfileIds : d = SelectedProfile
  BY AwaitedSpec
<1>2. /\ Stays
      /\ profiles' \in [Files \X ProfileIds -> Profiles \cup {None}]
      /\ InspectionCode(content, entry) = "none" => Fits(d)'
      /\ Fits(d) => InspectionCode(content, entry) = "none"
  BY <1>1, Looked DEF SpecRead, BindInv
<1>3. PICK e \in SpecParts : e = SpecOf
  BY AwaitedSpec
<1>4. /\ specs' \in [SpecParts -> {"good", "bad", None}]
      /\ \A f \in SpecParts : specs[f] = "good" => specs'[f] = "good"
  BY <1>3, SpecChosen DEF SpecRead, BindInv
<1>5. BindTypes'
  BY <1>2, <1>4 DEF SpecRead, BindInv, BindTypes
<1>6. BindingInv' /\ RuntimeInv' /\ Untouched' /\ ValidatedInv'
  BY <1>2, <1>4, HandleStays, KeptParts, ValidatedSpecs DEF SpecRead
<1>7. CASE InspectionCode(content, entry) = "none"
  <2>1. /\ call' = [op |-> "compile", at |-> "digest", role |-> call.role, asked |-> call.asked,
                    profileId |-> Selected]
        /\ UNCHANGED <<outcome, validated>>
    BY <1>7 DEF SpecRead, AwaitsSpec, BindInv, CallInv
  <2>2. CallInv'
    <3>1. PICK r, a, i : r = call.role /\ a = call.asked /\ i = Selected
      OBVIOUS
    <3>2. /\ call' = [op |-> "compile", at |-> "digest", role |-> r, asked |-> a, profileId |-> i]
          /\ OfRole(r, a, i) /\ i \in ProfileIds /\ executors[i] # None
          /\ d = <<executors[i], i>>
      BY <1>1, <2>1, <3>1, AwaitedSpec DEF SelectedProfile
    <3>3. OfRole(r, a, i)' /\ Fits(d)' /\ UNCHANGED executors
      BY <1>2, <1>7, <3>2, HandleStays DEF loadVars
    <3> QED
      BY <3>2, <3>3 DEF CallInv, Parts
  <2>3. ValidatingInv'
    BY <2>1 DEF ValidatingInv
  <2>4. ValidatedRolesBind'
    BY <1>2, <2>1, KeptParts
  <2> QED
    BY <1>5, <1>6, <2>2, <2>3, <2>4 DEF BindInv
<1>8. CASE InspectionCode(content, entry) # "none"
  <2>1. call' = Idle /\ UNCHANGED validated
    BY <1>8 DEF SpecRead, Finish
  <2>2. CallInv' /\ ValidatingInv'
    BY <1>2, <2>1, KeptParts
  <2>3. ValidatedRolesBind'
    <3>1. ~validated
      BY <1>1, <1>2, <1>8, AwaitedSpec DEF BindInv, ValidatedInv, AllFit
    <3> QED
      BY <2>1, <3>1 DEF ValidatedRolesBind
  <2> QED
    BY <1>5, <1>6, <2>2, <2>3 DEF BindInv
<1> QED
  BY <1>7, <1>8

LEMMA UnknownProfileBinds ==
  ASSUME LoadInv, OrderInv, BindInv, loading = "loaded", UNCHANGED loadVars,
         NEW asked \in ProfileIds, UnknownProfile(asked)
  PROVE  BindInv'
<1>1. Stays
  BY Unlooked DEF UnknownProfile
<1>2. BindTypes' /\ outcome'.op # "compile" /\ UNCHANGED <<call, todo>>
  BY DEF UnknownProfile, FinishAtOnce, BindInv, BindTypes
<1> QED
  BY <1>1, <1>2, HandleStays, KeptParts DEF UnknownProfile, BindInv

LEMMA InspectProfileBinds ==
  ASSUME LoadInv, OrderInv, BindInv, loading = "loaded", UNCHANGED loadVars,
         NEW asked \in ProfileIds, executors[asked] # None,
         NEW content \in ProfileChoices(<<executors[asked], asked>>),
         NEW entry \in RegistrationChoices(content), InspectProfile(asked, content, entry)
  PROVE  BindInv'
<1>1. PICK d \in Files \X ProfileIds : d = <<executors[asked], asked>>
  BY LoadedHandle DEF DeclaredProfiles
<1>2. /\ Stays
      /\ profiles' \in [Files \X ProfileIds -> Profiles \cup {None}]
      /\ InspectionCode(content, entry) = "none" => Fits(d)'
  BY <1>1, Looked DEF InspectProfile, BindInv
<1>3. BindTypes'
  BY <1>2 DEF InspectProfile, BindInv, BindTypes
<1>4. BindingInv' /\ RuntimeInv' /\ Untouched' /\ ValidatedInv'
  BY <1>2, HandleStays, KeptParts DEF InspectProfile
<1>5. CASE InspectionCode(content, entry) = "none"
  <2>1. /\ call' = [op |-> "inspect", at |-> "digest", role |-> None, asked |-> asked,
                    profileId |-> asked]
        /\ UNCHANGED <<outcome, validated>>
    BY <1>5 DEF InspectProfile
  <2>2. CallInv'
    <3>1. OfCaller(None, asked, asked)'
      BY NoneAssumption DEF OfCaller
    <3>2. Fits(d)' /\ UNCHANGED executors
      BY <1>2, <1>5 DEF loadVars
    <3> QED
      BY <1>1, <2>1, <3>1, <3>2 DEF CallInv, Parts
  <2>3. ValidatingInv'
    BY <2>1 DEF ValidatingInv
  <2>4. ValidatedRolesBind'
    BY <1>2, <2>1, KeptParts
  <2> QED
    BY <1>3, <1>4, <2>2, <2>3, <2>4 DEF BindInv
<1>6. CASE InspectionCode(content, entry) # "none"
  <2>1. outcome'.op # "compile" /\ UNCHANGED <<call, todo, edited, specs>>
    BY <1>6 DEF InspectProfile, FinishAtOnce
  <2> QED
    BY <1>2, <1>3, <1>4, <2>1, KeptParts DEF BindInv
<1> QED
  BY <1>5, <1>6

LEMMA DigestBinds ==
  ASSUME LoadInv, OrderInv, BindInv, loading = "loaded", UNCHANGED loadVars, DigestArrives
  PROVE  BindInv'
<1>1. Stays
  BY Unlooked DEF DigestArrives
<1>2. BindTypes'
  BY DEF DigestArrives, BindInv, BindTypes
<1>3. RuntimeInv' /\ Untouched' /\ ValidatedInv' /\ CallInv' /\ ValidatingInv'
  BY <1>1, HandleStays, KeptParts DEF DigestArrives, Finish
<1>4. ValidatedRolesBind'
  BY DEF DigestArrives, Finish, ValidatedRolesBind
<1>5. BindingInv'
  <2>1. PICK r, a, i, f : /\ r = call.role /\ a = call.asked /\ i = call.profileId
                          /\ f = executors[call.profileId]
    OBVIOUS
  <2>2. /\ \/ call.op = "compile" /\ OfRole(r, a, i)
           \/ call.op = "inspect" /\ OfCaller(r, a, i)
        /\ i \in ProfileIds /\ f # None /\ Fits(<<f, i>>)
    BY <2>1 DEF DigestArrives, BindInv, CallInv
  <2>3. <<f, i>> \in Files \X ProfileIds
    BY <2>1, <2>2, LoadedHandle DEF DeclaredProfiles
  <2>4. Fits(<<f, i>>)'
    BY <1>1, <2>2, <2>3 DEF Stays
  <2>5. /\ binding'.role = r /\ binding'.asked = a /\ binding'.profileId = i
        /\ binding'.profileFile = f
        /\ call.op # "inspect" => binding'.roleFile = roles[r]
    BY <2>1 DEF DigestArrives
  <2>6. \/ OfRole(r, a, i)' /\ binding'.roleFile = roles'[r]
        \/ OfCaller(r, a, i)'
    BY <1>1, <2>2, <2>5, HandleStays DEF loadVars
  <2>7. executors'[i] = f
    BY <2>1 DEF loadVars
  <2> QED
    BY <2>2, <2>4, <2>5, <2>6, <2>7 DEF BindingInv
<1> QED
  BY <1>2, <1>3, <1>4, <1>5 DEF BindInv

-----------------------------------------------------------------------------
(* Probes, runs and changes. *)

LEMMA ProbeBinds ==
  ASSUME LoadInv, OrderInv, BindInv, loading = "loaded", UNCHANGED loadVars, Probe
  PROVE  BindInv'
<1>1. Stays
  BY Unlooked DEF Probe
<1>2. /\ outcome'.op # "compile"
      /\ UNCHANGED <<profiles, specs, binding, runtime, edited, validated, call, todo>>
  BY DEF Probe, FinishAtOnce
<1>3. BindTypes'
  BY <1>2 DEF BindInv, BindTypes
<1> QED
  BY <1>1, <1>2, <1>3, HandleStays, KeptParts DEF BindInv

LEMMA ResolveFailsBinds ==
  ASSUME LoadInv, OrderInv, BindInv, loading = "loaded", UNCHANGED loadVars,
         NEW code, ResolveFails(code)
  PROVE  BindInv'
<1>1. Stays
  BY Unlooked DEF ResolveFails
<1>2. /\ outcome'.op # "compile"
      /\ UNCHANGED <<profiles, specs, binding, runtime, edited, validated, call, todo>>
  BY DEF ResolveFails, FinishAtOnce
<1>3. BindTypes'
  BY <1>2 DEF BindInv, BindTypes
<1> QED
  BY <1>1, <1>2, <1>3, HandleStays, KeptParts DEF BindInv

LEMMA ResolveBinds ==
  ASSUME LoadInv, OrderInv, BindInv, loading = "loaded", UNCHANGED loadVars, Resolve
  PROVE  BindInv'
<1>1. Stays
  BY Unlooked DEF Resolve
<1>2. /\ outcome'.op # "compile"
      /\ UNCHANGED <<registration, profiles, specs, binding, edited, validated, call, todo>>
  BY DEF Resolve, FinishAtOnce
<1>3. BindTypes'
  BY <1>2 DEF BindInv, BindTypes
<1>4. RuntimeInv'
  <2>1. PICK d : d = <<binding.profileFile, binding.profileId>>
    OBVIOUS
  <2>2. d \in Files \X ProfileIds /\ Fits(d)
    BY <2>1, LoadedHandle DEF BindInv, BindingInv, DeclaredProfiles, Resolve
  <2>3. Fits(d)' /\ UNCHANGED <<profiles, registration>>
    BY <1>1, <1>2, <2>2 DEF Stays
  <2>4. /\ profiles[d].mode = "adapter"
        /\ runtime'.binding = binding
        /\ runtime'.options = Resolved(registration.schemas, profiles[d].options, runtime'.environment)
        /\ runtime'.replacements = Replacements(registration.schemas, profiles[d].options)
    BY <2>1 DEF Resolve, BoundProfile
  <2> QED
    BY <2>1, <2>2, <2>3, <2>4 DEF RuntimeInv
<1> QED
  BY <1>1, <1>2, <1>3, <1>4, HandleStays, KeptParts DEF BindInv

LEMMA EditSpecBinds ==
  ASSUME LoadInv, OrderInv, BindInv, loading = "loaded", UNCHANGED loadVars,
         NEW d \in SpecParts, EditSpec(d)
  PROVE  BindInv'
<1>1. Stays
  BY Unlooked DEF EditSpec
<1>2. BindTypes'
  BY DEF EditSpec, BindInv, BindTypes
<1>3. ValidatedInv' /\ ValidatedRolesBind'
  BY DEF EditSpec, ValidatedInv, ValidatedRolesBind
<1>4. ValidatingInv'
  <2>1. /\ UNCHANGED <<call, todo, registration, profiles>> /\ edited'
        /\ DeclaredProfiles' = DeclaredProfiles /\ DeclaredSpecs' = DeclaredSpecs
        /\ AllFit => AllFit'
    BY <1>1, HandleStays DEF EditSpec
  <2>2. \A e : Fits(e)' <=> Fits(e)
    BY <2>1 DEF Fits
  <2> QED
    BY <2>1, <2>2 DEF BindInv, ValidatingInv
<1> QED
  BY <1>1, <1>2, <1>3, <1>4, HandleStays, KeptParts DEF EditSpec, BindInv

LEMMA SetEnvironmentBinds ==
  ASSUME LoadInv, OrderInv, BindInv, loading = "loaded", UNCHANGED loadVars,
         NEW n, NEW v, SetEnvironment(n, v)
  PROVE  BindInv'
<1>1. Stays
  BY Unlooked DEF SetEnvironment
<1>2. BindTypes'
  BY DEF SetEnvironment, BindInv, BindTypes
<1> QED
  BY <1>1, <1>2, HandleStays, KeptParts DEF SetEnvironment, BindInv

-----------------------------------------------------------------------------
(* Everything together. *)

LEMMA BindInitial == Init => LoadInv /\ OrderInv /\ BindInv
<1> SUFFICES ASSUME Init PROVE LoadInv /\ OrderInv /\ BindInv
  OBVIOUS
<1>1. LoadInv /\ OrderInv
  BY LoadInitial, OrderInitial DEF Init
<1>2. loading = "loading" /\ BindInit
  BY DEF Init, LoadInit
<1>3. BindTypes /\ Untouched /\ CallInv /\ BindingInv /\ RuntimeInv
  BY <1>2 DEF BindInit, BindTypes, Untouched, CallInv, Parts, BindingInv, RuntimeInv, Idle
<1>4. ValidatingInv /\ ValidatedInv /\ ValidatedRolesBind
  BY <1>2 DEF BindInit, ValidatingInv, ValidatedInv, ValidatedRolesBind, Idle
<1> QED
  BY <1>1, <1>3, <1>4 DEF BindInv

\* A step of the walk: there is no handle yet.
LEMMA LoadBinds ==
  ASSUME BindInv, LoadNext, UNCHANGED bindVars
  PROVE  BindInv'
<1>1. loading = "loading"
  BY DEF LoadNext, Unresolvable, ReadFails, CycleFound, DuplicateFound, Visit, Read, Declare,
         AwaitsEntry, AwaitsFile
<1>2. call = Idle /\ binding = None /\ runtime = None /\ ~validated
  BY <1>1 DEF BindInv, Untouched
<1>3. call' = Idle /\ binding' = None /\ runtime' = None /\ ~validated'
  BY <1>2 DEF bindVars
<1>4. BindTypes'
  BY DEF BindInv, BindTypes, bindVars
<1>5. Untouched' /\ CallInv' /\ BindingInv' /\ RuntimeInv'
  BY <1>3 DEF Untouched, CallInv, Parts, BindingInv, RuntimeInv, Idle
<1>6. ValidatingInv' /\ ValidatedInv' /\ ValidatedRolesBind'
  BY <1>3 DEF ValidatingInv, ValidatedInv, ValidatedRolesBind, Idle
<1> QED
  BY <1>4, <1>5, <1>6 DEF BindInv

LEMMA CallBinds ==
  ASSUME LoadInv, OrderInv, BindInv, loading = "loaded", UNCHANGED loadVars, Call
  PROVE  BindInv'
<1>1. CASE Validate
  BY <1>1, ValidateBinds
<1>2. ASSUME NEW d \in NextToDo, call.at = "profiles", NEW content \in ProfileChoices(d),
             NEW entry \in RegistrationChoices(content), InspectDeclaration(d, content, entry)
      PROVE  BindInv'
  BY <1>2, InspectDeclarationBinds
<1>3. CASE InspectionsDone
  BY <1>3, InspectionsDoneBinds
<1>4. ASSUME NEW d \in NextPart, call.at = "specs", NEW s \in SpecChoices(d), ReadDeclaredSpec(d, s)
      PROVE  BindInv'
  BY <1>4, ReadDeclaredSpecBinds
<1>5. CASE ValidationEnds
  BY <1>5, ValidationEndsBinds
<1>6. ASSUME NEW role \in RoleIds, NEW asked \in ProfileIds \cup {None}, Compile(role, asked)
      PROVE  BindInv'
  BY <1>6, CompileBinds
<1>7. ASSUME AwaitsSpec, NEW s \in SpecChoices(SpecOf), SpecFails(s)
      PROVE  BindInv'
  BY <1>7, SpecFailsBinds
<1>8. ASSUME AwaitsSpec, NEW s \in SpecChoices(SpecOf), SpecGoesOn(s)
      PROVE  BindInv'
  BY <1>8, SpecGoesOnBinds
<1>9. ASSUME AwaitsSpec, executors[Selected] # None, NEW s \in SpecChoices(SpecOf),
             NEW content \in ProfileChoices(SelectedProfile),
             NEW entry \in RegistrationChoices(content), SpecRead(s, content, entry)
      PROVE  BindInv'
  BY <1>9, SpecReadBinds
<1>10. ASSUME NEW asked \in ProfileIds, UnknownProfile(asked)
      PROVE  BindInv'
  BY <1>10, UnknownProfileBinds
<1>11. ASSUME NEW asked \in ProfileIds, executors[asked] # None,
              NEW content \in ProfileChoices(<<executors[asked], asked>>),
              NEW entry \in RegistrationChoices(content), InspectProfile(asked, content, entry)
       PROVE  BindInv'
  BY <1>11, InspectProfileBinds
<1>12. CASE DigestArrives
  BY <1>12, DigestBinds
<1>13. CASE Probe
  BY <1>13, ProbeBinds
<1>14. ASSUME NEW code, ResolveFails(code) PROVE BindInv'
  BY <1>14, ResolveFailsBinds
<1>15. CASE Resolve
  BY <1>15, ResolveBinds
<1> QED
  BY <1>1, <1>2, <1>3, <1>4, <1>5, <1>6, <1>7, <1>8, <1>9, <1>10, <1>11, <1>12, <1>13, <1>14, <1>15
     DEF Call

LEMMA BindSteps ==
  ASSUME LoadInv, OrderInv, BindInv, [Next]_<<loadVars, bindVars>>
  PROVE  LoadInv' /\ OrderInv' /\ BindInv'
<1>1. [LoadNext]_loadVars
  BY DEF Next
<1>2. LoadInv' /\ OrderInv'
  BY <1>1, LoadSteps, OrderSteps
<1> SUFFICES BindInv'
  BY <1>2
<1>3. CASE LoadNext /\ UNCHANGED bindVars
  BY <1>3, LoadBinds
<1>4. CASE loading = "loaded" /\ Call /\ UNCHANGED loadVars
  BY <1>4, CallBinds
<1>5. CASE loading = "loaded" /\ Change /\ UNCHANGED loadVars
  BY <1>5, EditSpecBinds, SetEnvironmentBinds DEF Change
<1>6. CASE UNCHANGED <<loadVars, bindVars>>
  <2>1. CASE loading = "loaded"
    <3>1. Stays
      BY <1>6, Unlooked DEF bindVars
    <3>2. BindTypes'
      BY <1>6 DEF bindVars, BindInv, BindTypes
    <3> QED
      BY <1>6, <2>1, <3>1, <3>2, HandleStays, KeptParts DEF bindVars, BindInv
  <2>2. CASE loading # "loaded"
    <3>1. call' = Idle /\ binding' = None /\ runtime' = None /\ ~validated'
      BY <1>6, <2>2 DEF bindVars, BindInv, Untouched
    <3>2. BindTypes'
      BY <1>6 DEF bindVars, BindInv, BindTypes
    <3>3. Untouched' /\ CallInv' /\ BindingInv' /\ RuntimeInv'
      BY <3>1 DEF Untouched, CallInv, Parts, BindingInv, RuntimeInv, Idle
    <3>4. ValidatingInv' /\ ValidatedInv' /\ ValidatedRolesBind'
      BY <3>1 DEF ValidatingInv, ValidatedInv, ValidatedRolesBind, Idle
    <3> QED
      BY <3>2, <3>3, <3>4 DEF BindInv
  <2> QED
    BY <2>1, <2>2
<1> QED
  BY <1>3, <1>4, <1>5, <1>6 DEF Next

\* The walk keeps a tree and the declarations that prevail in it, and every
\* call on the handle, validation, inspection, compilation and resolution,
\* sees of a profile what the first one saw.
THEOREM HandleInvariant == Spec => [](LoadInv /\ OrderInv /\ BindInv)
<1>1. Init => LoadInv /\ OrderInv /\ BindInv
  BY BindInitial
<1>2. LoadInv /\ OrderInv /\ BindInv /\ [Next]_<<loadVars, bindVars>>
        => (LoadInv /\ OrderInv /\ BindInv)'
  BY BindSteps
<1> QED
  BY <1>1, <1>2, PTL DEF Spec

\* BindingIsExact: a compiled binding has the profile its caller named, else
\* that of its role, and both come from the file whose declaration prevails in
\* the extends graph, whatever the graph is.
THEOREM BindingsAreExact == Spec => []BindingIsExact
<1>1. LoadInv /\ OrderInv /\ BindInv => BindingIsExact
  <2>1. SUFFICES ASSUME LoadInv, OrderInv, BindInv, binding # None
                 PROVE  BindingIsExact
    BY DEF BindingIsExact
  <2>2. loading = "loaded"
    BY <2>1 DEF BindInv, Untouched
  <2>3. NewestPrevails
    BY <2>1, <2>2 DEF OrderInv
  <2>4. Prevails(binding.profileFile, DeclaringProfile(binding.profileId))
    BY <2>1, <2>3 DEF BindInv, BindingInv, NewestPrevails
  <2>5. ASSUME OfRole(binding.role, binding.asked, binding.profileId),
               binding.roleFile = roles[binding.role]
        PROVE  /\ binding.profileId = IF binding.asked # None THEN binding.asked
                                      ELSE document[binding.roleFile].roles[binding.role]
               /\ Prevails(binding.roleFile, DeclaringRole(binding.role))
    BY <2>3, <2>5 DEF OfRole, NewestPrevails, ExecutorOf
  <2>6. ASSUME OfCaller(binding.role, binding.asked, binding.profileId)
        PROVE  /\ binding.profileId = IF binding.asked # None THEN binding.asked
                                      ELSE document[binding.roleFile].roles[binding.role]
               /\ binding.role = None
    BY <2>6 DEF OfCaller
  <2> QED
    BY <2>1, <2>4, <2>5, <2>6 DEF BindInv, BindingInv, BindingIsExact, DeclaringRole, DeclaringProfile
<1> QED
  BY <1>1, HandleInvariant, PTL

\* ValidatedRolesBind: once the handle was validated, and while no spec is
\* edited, compiling a configured role with its own executor succeeds.
THEOREM ValidatedRolesCompile == Spec => []ValidatedRolesBind
<1>1. LoadInv /\ OrderInv /\ BindInv => ValidatedRolesBind
  BY DEF BindInv
<1> QED
  BY <1>1, HandleInvariant, PTL

\* Of accepted options a leaf is treated as a secret exactly if some
\* annotation that applies to it says so.
LEMMA SecretIfAny ==
  ASSUME NEW schema, NEW v, ~Refused(schema, v)
  PROVE  IsSecret(schema, v) <=> MayBeSecret(schema, v)
<1>1. Classifiable(schema, v)
  BY DEF Refused
<1>2. CASE schema.branches = {}
  BY <1>2 DEF IsSecret, MayBeSecret, Applicable
<1>3. CASE schema.branches # {}
  <2>1. PICK b \in schema.branches : Applicable(schema, v) = {b}
    BY <1>1, <1>3 DEF Classifiable
  <2>2. (CHOOSE c \in Applicable(schema, v) : TRUE) = b
    BY <2>1
  <2> QED
    BY <1>3, <2>1, <2>2 DEF IsSecret, MayBeSecret
<1> QED
  BY <1>2, <1>3

\* RunGetsItsSecrets: the adapter of a run is given the configured options
\* with the values the environment had when the run was resolved, and a marker
\* for each secret, whatever was probed, compiled or changed since.
THEOREM RunsGetTheirSecrets == Spec => []RunGetsItsSecrets
<1>1. LoadInv /\ OrderInv /\ BindInv => RunGetsItsSecrets
  <2>1. SUFFICES ASSUME BindInv, runtime # None PROVE RunGetsItsSecrets
    BY DEF RunGetsItsSecrets
  <2>2. PICK d \in Files \X ProfileIds :
          /\ d = <<runtime.binding.profileFile, runtime.binding.profileId>>
          /\ Fits(d) /\ profiles[d].mode = "adapter"
          /\ runtime.options =
               Resolved(registration.schemas, profiles[d].options, runtime.environment)
          /\ runtime.replacements = Replacements(registration.schemas, profiles[d].options)
    BY <2>1 DEF BindInv, RuntimeInv
  <2> DEFINE options == profiles[d].options
             schemas == registration.schemas
  <2>3. Accepted(schemas, options)
    BY <2>2 DEF Fits, InspectionCode
  <2>4. \A p \in DOMAIN options : IsSecret(schemas[p], options[p]) <=> MayBeSecret(schemas[p], options[p])
    BY <2>3, SecretIfAny DEF Accepted
  <2>5. /\ DOMAIN runtime.options = DOMAIN options
        /\ \A p \in DOMAIN options :
             runtime.options[p] = IF options[p].is = "env"
                                  THEN Text(runtime.environment[options[p].of]) ELSE options[p]
    BY <2>2 DEF Resolved
  <2>6. DOMAIN runtime.replacements = {p \in DOMAIN options : IsSecret(schemas[p], options[p])}
    BY <2>2 DEF Replacements, Secrets
  <2> QED
    BY <2>2, <2>4, <2>5, <2>6 DEF RunGetsItsSecrets
<1> QED
  BY <1>1, HandleInvariant, PTL

-----------------------------------------------------------------------------
(* What leaves the handle. *)

\* A value whose text, if it is one, is among the given ones.
Within(v, texts) == v.is = "text" => v.of \in texts
AllWithin(values, texts) == \A v \in values : Within(v, texts)
IsValue(v) == v = [is |-> v.is, of |-> v.of, whole |-> TRUE]
Markers(f) == \A p \in DOMAIN f : f[p].is = "marker"

\* The texts no annotation makes secret, without the sentinel.
OpenTexts(schemas, options) == PublicTexts(schemas, options) \ {Sentinel}

\* Whatever an adapter makes of its options, or says of itself by them, it has
\* no texts but theirs.
LEMMA PreparedWithin ==
  ASSUME NEW a, NEW config, NEW replacements, NEW texts, Markers(replacements),
         \A p \in DOMAIN config : IsValue(config[p]) /\ Within(config[p], texts),
         \A p \in DOMAIN replacements \cap DOMAIN config : config[p].of \in texts
  PROVE  /\ AllWithin(ValuesOf(Prepare(a, config, replacements)), texts)
         /\ AllWithin(Description(a, Prepare(a, config, replacements)), texts)
<1> DEFINE Copy(p) == IF a.embeds THEN Embedding(config[p]) ELSE config[p]
           prepared == Prepare(a, config, replacements)
<1>1. ASSUME NEW p \in DOMAIN config
      PROVE  /\ Within(Copy(p), texts) /\ Within(Embedding(Copy(p)), texts)
             /\ Within(Embedding(config[p]), texts)
  BY <1>1 DEF Embedding, Within, IsValue
<1>2. prepared.execution = IF a.moves # NoValue /\ a.moves \in DOMAIN config
                           THEN [p \in DOMAIN config \cup {Elsewhere} |->
                                   IF p = Elsewhere THEN Copy(a.moves) ELSE config[p]]
                           ELSE config
  BY DEF Prepare
<1>3. prepared.public = [p \in a.shows \cap DOMAIN config |->
                           IF a.replaces /\ p \in DOMAIN replacements
                           THEN replacements[p] ELSE Copy(p)]
  BY DEF Prepare
<1>4. prepared.sensitive \subseteq texts
  BY DEF Prepare
<1>5. prepared.model = IF a.names # NoValue /\ a.names \in DOMAIN config THEN Copy(a.names) ELSE NoValue
  BY DEF Prepare
<1> HIDE DEF Copy, prepared
<1>6. AllWithin(Codomain(prepared.execution), texts)
  BY <1>1, <1>2 DEF AllWithin, Codomain
<1>7. AllWithin(Codomain(prepared.public), texts)
  <2>1. ASSUME NEW p \in a.shows \cap DOMAIN config PROVE Within(prepared.public[p], texts)
    BY <1>1, <1>3 DEF Markers, Within
  <2> QED
    BY <1>3, <2>1 DEF AllWithin, Codomain
<1>8. AllWithin({Text(s) : s \in prepared.sensitive}, texts)
  BY <1>4 DEF AllWithin, Within, Text
<1>9. AllWithin(IF prepared.model = NoValue THEN {} ELSE {prepared.model}, texts)
  BY <1>1, <1>5 DEF AllWithin
<1>10. AllWithin(ValuesOf(prepared), texts)
  BY <1>6, <1>7, <1>8, <1>9 DEF ValuesOf, AllWithin
<1>11. AllWithin(Description(a, prepared), texts)
  <2>1. ASSUME NEW p \in DOMAIN prepared.execution
        PROVE  Within(prepared.execution[p], texts) /\ Within(Embedding(prepared.execution[p]), texts)
    BY <1>1, <1>2
  <2> QED
    BY <2>1 DEF Description, AllWithin
<1> QED
  BY <1>10, <1>11 DEF prepared

\* Redaction adds none.
LEMMA PublicWithin ==
  ASSUME NEW prepared, NEW replacements, NEW texts, Markers(replacements),
         AllWithin(ValuesOf(prepared), texts)
  PROVE  AllWithin(ValuesOf(PublicPrepared(prepared, replacements)), texts)
<1> DEFINE public == PublicPrepared(prepared, replacements)
<1>1. \A v : Within(v, texts) => Within(Redacted(v), texts)
  BY DEF Redacted, Marker, Within
<1>2. AllWithin(Codomain(prepared.execution), texts) /\ AllWithin(Codomain(prepared.public), texts)
  BY DEF ValuesOf, AllWithin
<1>3. prepared.model = NoValue \/ Within(prepared.model, texts)
  BY DEF ValuesOf, AllWithin
<1>4. /\ public.execution = [p \in DOMAIN prepared.execution |->
                               IF p \in DOMAIN replacements THEN replacements[p]
                               ELSE Redacted(prepared.execution[p])]
      /\ public.public = [p \in DOMAIN prepared.public |-> Redacted(prepared.public[p])]
      /\ public.sensitive = {} /\ public.model = prepared.model
  BY DEF PublicPrepared
<1> HIDE DEF public
<1>5. AllWithin(Codomain(public.execution), texts)
  <2>1. ASSUME NEW p \in DOMAIN prepared.execution PROVE Within(public.execution[p], texts)
    BY <1>1, <1>2, <1>4 DEF AllWithin, Codomain, Markers, Within
  <2> QED
    BY <1>4, <2>1 DEF AllWithin, Codomain
<1>6. AllWithin(Codomain(public.public), texts)
  <2>1. ASSUME NEW p \in DOMAIN prepared.public PROVE Within(public.public[p], texts)
    BY <1>1, <1>2, <1>4 DEF AllWithin, Codomain
  <2> QED
    BY <1>4, <2>1 DEF AllWithin, Codomain
<1>7. AllWithin(ValuesOf(public), texts)
  BY <1>3, <1>4, <1>5, <1>6 DEF ValuesOf, AllWithin
<1> QED
  BY <1>7 DEF public

\* What is left of the sentinel's texts by assertNoSensitiveSerialization.
LEMMA NothingLeft ==
  ASSUME NEW values, NEW literals, NEW texts, NothingSensitive(values, literals),
         AllWithin(values, {Sentinel} \cup texts)
  PROVE  AllWithin(values, texts \ {Sentinel})
BY DEF NothingSensitive, Includes, AllWithin, Within

\* The options of an accepted profile, with the sentinel for its secrets.
LEMMA InspectedWithin ==
  ASSUME NEW schemas, NEW options, Accepted(schemas, options),
         \A p \in DOMAIN options : IsValue(options[p])
  PROVE  /\ DOMAIN Inspected(schemas, options) = DOMAIN options
         /\ \A p \in DOMAIN options :
              /\ IsValue(Inspected(schemas, options)[p])
              /\ Within(Inspected(schemas, options)[p], {Sentinel} \cup PublicTexts(schemas, options))
         /\ \A p \in Secrets(schemas, options) :
              p \in DOMAIN options /\ Inspected(schemas, options)[p].of = Sentinel
         /\ Markers(Replacements(schemas, options))
         /\ DOMAIN Replacements(schemas, options) = Secrets(schemas, options)
         /\ DigestAccepts(Published(schemas, options)) =>
              AllWithin(Codomain(Published(schemas, options)), OpenTexts(schemas, options))
<1>1. ASSUME NEW p \in DOMAIN options, ~IsSecret(schemas[p], options[p])
      PROVE  Within(options[p], PublicTexts(schemas, options))
  <2>1. ~MayBeSecret(schemas[p], options[p])
    BY <1>1, SecretIfAny DEF Accepted
  <2> QED
    BY <2>1 DEF Within, PublicTexts, TextsAt
<1>2. ASSUME NEW p \in DOMAIN options
      PROVE  /\ IsValue(Inspected(schemas, options)[p])
             /\ Within(Inspected(schemas, options)[p], {Sentinel} \cup PublicTexts(schemas, options))
  <2>1. CASE IsSecret(schemas[p], options[p])
    BY <2>1 DEF Inspected, Text, IsValue, Within
  <2>2. CASE ~IsSecret(schemas[p], options[p])
    BY <1>1, <2>2 DEF Inspected, Within
  <2> QED
    BY <2>1, <2>2
<1>3. ASSUME NEW p \in Secrets(schemas, options)
      PROVE  p \in DOMAIN options /\ Inspected(schemas, options)[p].of = Sentinel
  BY DEF Secrets, Inspected, Text
<1>4. /\ Markers(Replacements(schemas, options))
      /\ DOMAIN Replacements(schemas, options) = Secrets(schemas, options)
  BY DEF Markers, Replacements, Marker
<1>5. ASSUME DigestAccepts(Published(schemas, options))
      PROVE  AllWithin(Codomain(Published(schemas, options)), OpenTexts(schemas, options))
  <2>1. ASSUME NEW p \in DOMAIN options
        PROVE  Within(Published(schemas, options)[p], OpenTexts(schemas, options))
    <3>1. CASE IsSecret(schemas[p], options[p])
      <4>1. Published(schemas, options)[p].is = "marker"
        BY <1>4, <3>1 DEF Published, Markers, Secrets
      <4> QED
        BY <4>1 DEF Within
    <3>2. CASE ~IsSecret(schemas[p], options[p])
      <4>1. Published(schemas, options)[p] = options[p] /\ options[p] # Text(Sentinel)
        BY <1>5, <3>2 DEF Published, DigestAccepts
      <4>2. options[p].is = "text" => options[p].of # Sentinel
        BY <4>1 DEF Text, IsValue
      <4> QED
        BY <1>1, <3>2, <4>1, <4>2 DEF Within, OpenTexts
    <3> QED
      BY <3>1, <3>2
  <2> QED
    BY <2>1 DEF AllWithin, Codomain, Published
<1>6. DOMAIN Inspected(schemas, options) = DOMAIN options
  BY DEF Inspected
<1> QED
  BY <1>2, <1>3, <1>4, <1>5, <1>6

\* What compilation and inspection show of a profile that passed.
LEMMA CompiledWithin ==
  ASSUME NEW content \in Profiles, NEW entry, content.mode # "host",
         InspectionCode(content, entry) = "none"
  PROVE  /\ entry # Unregistered /\ content.options \in AdapterOptions
         /\ AllWithin(ValuesOf(InspectionPrepared(content, entry)),
                      {Sentinel} \cup OpenTexts(entry.schemas, content.options))
         /\ AllWithin(DescribedValues(content, entry),
                      {Sentinel} \cup OpenTexts(entry.schemas, content.options))
         /\ AllWithin(Codomain(Published(entry.schemas, content.options)),
                      OpenTexts(entry.schemas, content.options))
         /\ AllWithin(CompiledValues(content, entry), OpenTexts(entry.schemas, content.options))
<1> DEFINE options == content.options
           schemas == entry.schemas
           texts == OpenTexts(schemas, options)
<1>1. content.mode = "adapter" /\ \A p \in DOMAIN options : IsValue(options[p])
  BY ProfilesAssumption DEF IsValue
<1>2. entry # Unregistered /\ Accepted(schemas, options)
  BY <1>1 DEF InspectionCode
<1>3. options \in AdapterOptions
  BY <1>1 DEF AdapterOptions
<1>4. /\ AllWithin(ValuesOf(InspectionPrepared(content, entry)), {Sentinel} \cup texts)
      /\ AllWithin(DescribedValues(content, entry), {Sentinel} \cup texts)
  <2> DEFINE config == Inspected(schemas, options)
             replacements == Replacements(schemas, options)
  <2>1. /\ Markers(replacements)
        /\ \A p \in DOMAIN config : IsValue(config[p]) /\ Within(config[p], {Sentinel} \cup texts)
        /\ \A p \in DOMAIN replacements \cap DOMAIN config : config[p].of \in {Sentinel} \cup texts
    <3>1. PICK o, c : /\ o = options /\ c = schemas
                      /\ Accepted(c, o) /\ \A p \in DOMAIN o : IsValue(o[p])
      BY <1>1, <1>2
    <3>2. /\ DOMAIN Inspected(c, o) = DOMAIN o
          /\ \A p \in DOMAIN o :
               /\ IsValue(Inspected(c, o)[p])
               /\ Within(Inspected(c, o)[p], {Sentinel} \cup PublicTexts(c, o))
          /\ \A p \in Secrets(c, o) : Inspected(c, o)[p].of = Sentinel
          /\ Markers(Replacements(c, o))
          /\ DOMAIN Replacements(c, o) = Secrets(c, o)
      BY <3>1, InspectedWithin, Zenon
    <3> QED
      BY <3>1, <3>2 DEF OpenTexts
  <2>2. InspectionPrepared(content, entry) = Prepare(entry.adapter, config, replacements)
    BY DEF InspectionPrepared
  <2> HIDE DEF config, replacements, texts
  <2> QED
    BY <2>1, <2>2, PreparedWithin DEF DescribedValues, AllWithin
<1>5. AllWithin(Codomain(Published(schemas, options)), texts)
  BY <1>1, <1>2, InspectedWithin DEF InspectionCode
<1>6. /\ NothingSensitive(Codomain(InspectionPrepared(content, entry).public), LiteralSecrets(schemas, options))
      /\ NothingSensitive(ValuesOf(InspectionPublic(content, entry)), LiteralSecrets(schemas, options))
  BY <1>1, <1>2 DEF InspectionCode
<1>7. AllWithin(Codomain(InspectionPrepared(content, entry).public), texts)
  <2>1. AllWithin(Codomain(InspectionPrepared(content, entry).public), {Sentinel} \cup texts)
    BY <1>4 DEF AllWithin, ValuesOf
  <2> QED
    BY <1>6, <2>1, NothingLeft DEF OpenTexts
<1>8. AllWithin(ValuesOf(InspectionPublic(content, entry)), texts)
  <2>1. AllWithin(ValuesOf(InspectionPublic(content, entry)), {Sentinel} \cup texts)
    BY <1>1, <1>2, <1>4, InspectedWithin, PublicWithin DEF InspectionPublic
  <2> QED
    BY <1>6, <2>1, NothingLeft DEF OpenTexts
<1>9. AllWithin(CompiledValues(content, entry), texts)
  BY <1>5, <1>7, <1>8 DEF CompiledValues, AllWithin
<1> QED
  BY <1>2, <1>3, <1>4, <1>5, <1>9

\* What a probe is given of it.
LEMMA ProbedWithin ==
  ASSUME NEW content \in Profiles, NEW entry \in Registrations, content.mode # "host",
         InspectionCode(content, entry) = "none", ProbeAllowed(content, entry)
  PROVE  AllWithin(ValuesOf(ProbeOptions(content, entry)), OpenTexts(entry.schemas, content.options))
<1> DEFINE options == content.options
           schemas == entry.schemas
           texts == OpenTexts(schemas, options)
           inspection == Inspected(schemas, options)
           open == DOMAIN inspection \ Secrets(schemas, options)
<1>1. content.mode = "adapter" /\ \A p \in DOMAIN options : IsValue(options[p])
  BY ProfilesAssumption DEF IsValue
<1>2. entry # Unregistered /\ Accepted(schemas, options)
  BY <1>1 DEF InspectionCode
<1>3. AllWithin(ValuesOf(Prepare(entry.adapter, [p \in open |-> inspection[p]], << >>)),
                {Sentinel} \cup texts)
  <2>1. \A p \in open : IsValue(inspection[p]) /\ Within(inspection[p], {Sentinel} \cup texts)
    <3>1. \A p \in DOMAIN inspection :
            IsValue(inspection[p]) /\ Within(inspection[p], {Sentinel} \cup PublicTexts(schemas, options))
      BY <1>1, <1>2, InspectedWithin
    <3> QED
      BY <3>1 DEF OpenTexts, Within
  <2>2. Markers(<< >>) /\ DOMAIN << >> = {}
    BY DEF Markers
  <2> HIDE DEF open, inspection, texts
  <2> QED
    BY <2>1, <2>2, PreparedWithin
<1>4. ProbeOptions(content, entry) \in
        {NoValue, InspectionPrepared(content, entry),
         Prepare(entry.adapter, [p \in open |-> inspection[p]], << >>)}
  BY <1>2, RegistrationsAssumption DEF ProbeOptions
<1>5. AllWithin(ValuesOf(ProbeOptions(content, entry)), {Sentinel} \cup texts)
  BY <1>3, <1>4, CompiledWithin DEF ProbeAllowed
<1> QED
  BY <1>5, NothingLeft DEF ProbeAllowed, OpenTexts

\* An adapter's entry is looked at with the first profile that names it.
RegistrationInv ==
  /\ registration \in Registrations \cup {None}
  /\ \A d \in Files \X ProfileIds :
       profiles[d] # None /\ profiles[d].mode # "host" => registration # None

\* A text of an option that no annotation makes secret, and not the sentinel.
Open(v, entry) ==
  /\ entry \in Registrations \ {Unregistered}
  /\ \E options \in AdapterOptions : v.of \in OpenTexts(entry.schemas, options)

\* Of what left, the texts are such; a descriptor may have the sentinel too.
PublishedInv ==
  \A v \in published :
    v.is = "text" => Open(v, registration)

DescribedInv ==
  \A v \in described :
    v.is = "text" /\ v.of # Sentinel => Open(v, registration)

SecretInv == RegistrationInv /\ PublishedInv /\ DescribedInv

LEMMA LookedRegistered ==
  ASSUME BindTypes, SecretInv, NEW d \in Files \X ProfileIds, NEW content \in ProfileChoices(d),
         NEW entry \in RegistrationChoices(content), Looks(d, content, entry)
  PROVE  /\ RegistrationInv'
         /\ registration # None => registration' = registration
         /\ content \in Profiles
         /\ content.mode # "host" => registration' \in Registrations /\ entry = registration'
<1>1. content \in Profiles /\ content # None
  BY UnseenAssumption, FewAssumption DEF ProfileChoices, BindTypes
<1>2. /\ entry \in Registrations \cup {None}
      /\ registration # None => entry = registration
      /\ content.mode # "host" => entry \in Registrations
  BY UnseenAssumption, FewAssumption DEF RegistrationChoices, SecretInv, RegistrationInv
<1>3. /\ profiles' = [profiles EXCEPT ![d] = content] /\ registration' = entry
      /\ \A e \in Files \X ProfileIds : profiles'[e] = IF e = d THEN content ELSE profiles[e]
  BY DEF Looks, BindTypes
<1>4. ASSUME NEW e \in Files \X ProfileIds, profiles'[e] # None, profiles'[e].mode # "host"
      PROVE  registration' # None
  BY <1>2, <1>3, <1>4, UnseenAssumption DEF SecretInv, RegistrationInv
<1> QED
  BY <1>1, <1>2, <1>3, <1>4 DEF RegistrationInv

\* What was published stays so, and open values may join it.
LEMMA PublishedKept ==
  ASSUME SecretInv, registration # None => registration' = registration,
         NEW added, published' = published \cup added,
         \A v \in added : v.is = "text" => Open(v, registration')
  PROVE  PublishedInv'
<1>1. ASSUME NEW v \in published, v.is = "text" PROVE Open(v, registration')
  BY <1>1, UnseenAssumption DEF SecretInv, PublishedInv, Open
<1>2. ASSUME NEW v \in published', v.is = "text" PROVE Open(v, registration')
  BY <1>1, <1>2
<1> QED
  BY <1>2 DEF PublishedInv, Open

\* Likewise for what is described.
LEMMA DescribedKept ==
  ASSUME SecretInv, registration # None => registration' = registration,
         NEW added, described' = described \cup added,
         \A v \in added : v.is = "text" /\ v.of # Sentinel => Open(v, registration')
  PROVE  DescribedInv'
<1>1. ASSUME NEW v \in described, v.is = "text", v.of # Sentinel PROVE Open(v, registration')
  BY <1>1, UnseenAssumption DEF SecretInv, DescribedInv, Open
<1>2. ASSUME NEW v \in described', v.is = "text", v.of # Sentinel PROVE Open(v, registration')
  BY <1>1, <1>2
<1> QED
  BY <1>2 DEF DescribedInv, Open

\* What is shown of a profile that passed, when it was looked at.
LEMMA OpenOnceFit ==
  ASSUME NEW content \in Profiles, NEW entry \in Registrations, content.mode # "host",
         InspectionCode(content, entry) = "none", NEW v, v.is = "text"
  PROVE  /\ v \in Codomain(Published(entry.schemas, content.options))
                   \cup CompiledValues(content, entry) => Open(v, entry)
         /\ v \in DescribedValues(content, entry) /\ v.of # Sentinel => Open(v, entry)
BY CompiledWithin DEF AllWithin, Within, Open

LEMMA LookStep ==
  ASSUME BindTypes, SecretInv, NEW d \in Files \X ProfileIds, NEW content \in ProfileChoices(d),
         NEW entry \in RegistrationChoices(content), Looks(d, content, entry),
         described' = described,
         published' = published \/
           /\ InspectionCode(content, entry) = "none"
           /\ published' = published \cup
                (IF content.mode = "host" THEN {}
                 ELSE Codomain(Published(entry.schemas, content.options)))
  PROVE  SecretInv'
<1> SUFFICES RegistrationInv' /\ PublishedInv'
  <2>1. PICK none : none = {}
    OBVIOUS
  <2>2. described' = described \cup none
    BY <2>1
  <2>3. DescribedInv'
    BY <2>1, <2>2, DescribedKept, LookedRegistered
  <2> QED
    BY <2>3 DEF SecretInv
<1>1. /\ RegistrationInv'
      /\ registration # None => registration' = registration
      /\ content \in Profiles
      /\ content.mode # "host" => registration' \in Registrations /\ entry = registration'
  BY LookedRegistered
<1>2. CASE published' = published
  <2>1. PICK none : none = {}
    OBVIOUS
  <2>2. published' = published \cup none
    BY <1>2, <2>1
  <2>3. PublishedInv'
    BY <1>1, <2>1, <2>2, PublishedKept
  <2> QED
    BY <1>1, <2>3
<1>3. CASE InspectionCode(content, entry) = "none" /\ published' # published
  <2> DEFINE added == IF content.mode = "host" THEN {}
                      ELSE Codomain(Published(entry.schemas, content.options))
  <2>1. published' = published \cup added
    BY <1>3
  <2>2. ASSUME NEW v \in added, v.is = "text"
        PROVE  Open(v, registration')
    BY <1>1, <1>3, <2>2, OpenOnceFit
  <2> HIDE DEF added
  <2>3. PublishedInv'
    BY <1>1, <2>1, <2>2, PublishedKept
  <2> QED
    BY <1>1, <2>3
<1> QED
  BY <1>2, <1>3

\* A step that looks at no profile; what it shows is of one that passed.
LEMMA ShowStep ==
  ASSUME SecretInv, UNCHANGED <<registration, profiles>>, NEW added, NEW told,
         published' = published \cup added, described' = described \cup told,
         \A v \in told : v.is = "text" /\ v.of # Sentinel => Open(v, registration),
         \A v \in added : v.is = "text" =>
            Open(v, registration)
  PROVE  SecretInv'
<1>1. RegistrationInv'
  BY DEF SecretInv, RegistrationInv
<1>2. PublishedInv' /\ DescribedInv'
  <2>1. PublishedInv'
    BY PublishedKept
  <2>2. DescribedInv'
    BY DescribedKept
  <2> QED
    BY <2>1, <2>2
<1> QED
  BY <1>1, <1>2 DEF SecretInv

LEMMA QuietStep ==
  ASSUME SecretInv, UNCHANGED <<registration, profiles, published, described>>
  PROVE  SecretInv'
BY DEF SecretInv, RegistrationInv, PublishedInv, DescribedInv, Open

\* What the handle, and what is bound, holds of a profile.
LEMMA HeldProfile ==
  ASSUME BindTypes, SecretInv, NEW d \in Files \X ProfileIds, Fits(d), profiles[d].mode # "host"
  PROVE  profiles[d] \in Profiles /\ registration \in Registrations
BY UnseenAssumption DEF BindTypes, SecretInv, RegistrationInv, Fits

LEMMA CallKeepsSecrets ==
  ASSUME LoadInv, OrderInv, BindInv, loading = "loaded", SecretInv, Call
  PROVE  SecretInv'
<1> USE DEF BindInv
<1>1. CASE Validate \/ InspectionsDone \/ ValidationEnds
  BY <1>1, QuietStep DEF Validate, InspectionsDone, ValidationEnds
<1>2. ASSUME NEW d \in NextToDo, call.at = "profiles", NEW content \in ProfileChoices(d),
             NEW entry \in RegistrationChoices(content), InspectDeclaration(d, content, entry)
      PROVE  SecretInv'
  <2>1. d \in Files \X ProfileIds
    BY <1>2 DEF NextToDo, ValidatingInv, DeclaredProfiles
  <2> QED
    BY <1>2, <2>1, LookStep DEF InspectDeclaration
<1>3. ASSUME NEW d, NEW s, ReadDeclaredSpec(d, s) PROVE SecretInv'
  BY <1>3, QuietStep DEF ReadDeclaredSpec
<1>4. ASSUME NEW role, NEW asked, Compile(role, asked) PROVE SecretInv'
  BY <1>4, QuietStep DEF Compile
<1>5. ASSUME NEW s, SpecFails(s) \/ SpecGoesOn(s) PROVE SecretInv'
  BY <1>5, QuietStep DEF SpecFails, SpecGoesOn
<1>6. ASSUME AwaitsSpec, executors[Selected] # None, NEW s,
             NEW content \in ProfileChoices(SelectedProfile),
             NEW entry \in RegistrationChoices(content), SpecRead(s, content, entry)
      PROVE  SecretInv'
  <2>1. PICK d \in Files \X ProfileIds : d = SelectedProfile
    BY <1>6, AwaitedSpec
  <2>2. \/ published' = published
        \/ /\ InspectionCode(content, entry) = "none"
           /\ published' = published \cup
                (IF content.mode = "host" THEN {}
                 ELSE Codomain(Published(entry.schemas, content.options)))
    BY <1>6 DEF SpecRead
  <2>3. Looks(d, content, entry) /\ described' = described
    BY <1>6, <2>1 DEF SpecRead
  <2> QED
    BY <1>6, <2>1, <2>2, <2>3, LookStep
<1>7. ASSUME NEW asked, UnknownProfile(asked) PROVE SecretInv'
  BY <1>7, QuietStep DEF UnknownProfile
<1>8. ASSUME NEW asked \in ProfileIds, executors[asked] # None,
             NEW content \in ProfileChoices(<<executors[asked], asked>>),
             NEW entry \in RegistrationChoices(content), InspectProfile(asked, content, entry)
      PROVE  SecretInv'
  <2>1. PICK d \in Files \X ProfileIds : d = <<executors[asked], asked>>
    BY <1>8, LoadedHandle DEF DeclaredProfiles
  <2>2. \/ published' = published
        \/ /\ InspectionCode(content, entry) = "none"
           /\ published' = published \cup
                (IF content.mode = "host" THEN {}
                 ELSE Codomain(Published(entry.schemas, content.options)))
    BY <1>8 DEF InspectProfile
  <2>3. Looks(d, content, entry) /\ described' = described
    BY <1>8, <2>1 DEF InspectProfile
  <2> QED
    BY <1>8, <2>1, <2>2, <2>3, LookStep
<1>9. CASE DigestArrives
  <2>1. PICK d : d = <<executors[call.profileId], call.profileId>>
    OBVIOUS
  <2>2. d \in Files \X ProfileIds /\ Fits(d)
    BY <1>9, <2>1, LoadedHandle DEF DigestArrives, CallInv, DeclaredProfiles
  <2> DEFINE added == CompiledValues(profiles[d], registration)
             told == DescribedValues(profiles[d], registration)
  <2>3. /\ published' = published \cup added /\ described' = described \cup told
        /\ UNCHANGED <<registration, profiles>>
    BY <1>9, <2>1 DEF DigestArrives
  <2>4. ASSUME NEW v \in added, v.is = "text"
        PROVE  Open(v, registration)
    <3>1. profiles[d].mode # "host"
      BY <2>4 DEF CompiledValues
    <3> QED
      BY <2>2, <2>4, <3>1, HeldProfile, OpenOnceFit DEF Fits
  <2>5. ASSUME NEW v \in told, v.is = "text", v.of # Sentinel
        PROVE  Open(v, registration)
    <3>1. profiles[d].mode # "host"
      BY <2>5 DEF DescribedValues
    <3> QED
      BY <2>2, <2>5, <3>1, HeldProfile, OpenOnceFit DEF Fits
  <2> HIDE DEF added, told
  <2> QED
    BY <2>3, <2>4, <2>5, ShowStep
<1>10. CASE Probe
  <2>1. CASE published' = published
    BY <1>10, <2>1, QuietStep DEF Probe
  <2>2. CASE published' # published
    <3>1. PICK d : d = <<binding.profileFile, binding.profileId>>
      OBVIOUS
    <3>2. d \in Files \X ProfileIds /\ Fits(d)
      BY <1>10, <3>1, LoadedHandle DEF Probe, BindingInv, DeclaredProfiles
    <3> DEFINE added == ValuesOf(ProbeOptions(profiles[d], registration))
    <3>3. /\ profiles[d].mode # "host" /\ ProbeAllowed(profiles[d], registration)
          /\ published' = published \cup added /\ described' = described
          /\ UNCHANGED <<registration, profiles>>
      BY <1>10, <2>2, <3>1 DEF Probe, BoundProfile
    <3>4. ASSUME NEW v \in added, v.is = "text"
          PROVE  Open(v, registration)
      <4>1. profiles[d] \in Profiles /\ registration \in Registrations
        BY <3>2, <3>3, HeldProfile
      <4>2. InspectionCode(profiles[d], registration) = "none"
        BY <3>2 DEF Fits
      <4>3. v.of \in OpenTexts(registration.schemas, profiles[d].options)
        BY <3>3, <3>4, <4>1, <4>2, ProbedWithin DEF AllWithin, Within
      <4> QED
        BY <3>3, <4>1, <4>2, <4>3, CompiledWithin DEF Open
    <3> HIDE DEF added
    <3>5. PICK none : none = {}
      OBVIOUS
    <3>6. described' = described \cup none
      BY <3>3, <3>5
    <3> QED
      BY <3>3, <3>4, <3>5, <3>6, ShowStep
  <2> QED
    BY <2>1, <2>2
<1>11. ASSUME NEW code, ResolveFails(code) PROVE SecretInv'
  BY <1>11, QuietStep DEF ResolveFails
<1>12. CASE Resolve
  <2> DEFINE replacements == Replacements(registration.schemas, BoundProfile.options)
  <2>1. /\ published' = published \cup Codomain(replacements) /\ described' = described
        /\ UNCHANGED <<registration, profiles>>
    BY <1>12 DEF Resolve
  <2>2. \A v \in Codomain(replacements) : v.is # "text"
    BY DEF Replacements, Marker, Codomain
  <2>3. PICK none : none = {}
    OBVIOUS
  <2>4. described' = described \cup none
    BY <2>1, <2>3
  <2> HIDE DEF replacements
  <2> QED
    BY <2>1, <2>2, <2>3, <2>4, ShowStep
<1> QED
  BY <1>1, <1>2, <1>3, <1>4, <1>5, <1>6, <1>7, <1>8, <1>9, <1>10, <1>11, <1>12 DEF Call

\* SecretsStayPrivate: of an adapter that shows, copies, moves, embeds, describes
\* itself by or names a model with the options it was prepared for, nothing that
\* leaves for a digest, the handle's options, a probe or a public context
\* includes a secret, a value of the environment or the sentinel, and nothing in
\* the handle's descriptor a secret or a value of the environment.
THEOREM NothingSecretLeaves == Spec => []SecretsStayPrivate
<1> DEFINE IInv == LoadInv /\ OrderInv /\ BindInv /\ SecretInv
<1>1. Init => IInv
  <2>1. Init => SecretInv
    BY DEF Init, BindInit, SecretInv, RegistrationInv, PublishedInv, DescribedInv
  <2> QED
    BY <2>1, BindInitial
<1>2. IInv /\ [Next]_<<loadVars, bindVars>> => IInv'
  <2>1. SUFFICES ASSUME IInv, [Next]_<<loadVars, bindVars>> PROVE SecretInv'
    BY BindSteps
  <2>2. CASE UNCHANGED bindVars
    BY <2>1, <2>2, QuietStep DEF bindVars
  <2>3. CASE loading = "loaded" /\ Call
    BY <2>1, <2>3, CallKeepsSecrets
  <2>4. CASE Change
    BY <2>1, <2>4, QuietStep DEF Change, EditSpec, SetEnvironment
  <2> QED
    BY <2>1, <2>2, <2>3, <2>4 DEF Next
<1>3. IInv => SecretsStayPrivate
  <2> SUFFICES ASSUME IInv PROVE SecretsStayPrivate
    OBVIOUS
  <2>1. ASSUME NEW v, v.of \in SecretStrings, Open(v, registration) PROVE FALSE
    <3>1. PICK options \in AdapterOptions :
            /\ registration \in Registrations \ {Unregistered}
            /\ v.of \in PublicTexts(registration.schemas, options)
      BY <2>1 DEF Open, OpenTexts
    <3>2. v.of \notin EnvironmentValues
      BY <3>1, TextsAssumption
    <3>3. PICK d \in AdapterProfiles : v.of \in SecretTexts(registration.schemas, profiles[d].options)
      BY <2>1, <3>2 DEF SecretStrings
    <3>4. profiles[d].options \in AdapterOptions
      BY DEF AdapterProfiles, AdapterOptions, BindInv, BindTypes
    <3> QED
      BY <3>1, <3>3, <3>4, TextsAssumption
  <2>2. Sentinel \notin SecretStrings
    <3>1. SUFFICES ASSUME NEW d \in AdapterProfiles, registration # Unregistered,
                          Sentinel \in SecretTexts(registration.schemas, profiles[d].options)
                   PROVE  FALSE
      BY TextsAssumption DEF SecretStrings
    <3>2. profiles[d].options \in AdapterOptions /\ registration \in Registrations
      BY <3>1 DEF AdapterProfiles, AdapterOptions, BindInv, BindTypes, SecretInv, RegistrationInv
    <3> QED
      BY <3>1, <3>2, TextsAssumption
  <2>3. ASSUME NEW v \in published PROVE ~Includes(v, {Sentinel} \cup SecretStrings)
    <3>1. SUFFICES ASSUME v.is = "text", v.of \in {Sentinel} \cup SecretStrings PROVE FALSE
      BY DEF Includes
    <3>2. Open(v, registration)
      BY <2>3, <3>1 DEF SecretInv, PublishedInv
    <3>3. v.of # Sentinel
      BY <3>2 DEF Open, OpenTexts
    <3> QED
      BY <2>1, <3>1, <3>2, <3>3
  <2>4. ASSUME NEW v \in described PROVE ~Includes(v, SecretStrings)
    <3>1. SUFFICES ASSUME v.is = "text", v.of \in SecretStrings PROVE FALSE
      BY DEF Includes
    <3>2. Open(v, registration)
      BY <2>2, <2>4, <3>1 DEF SecretInv, DescribedInv
    <3> QED
      BY <2>1, <3>1, <3>2
  <2> QED
    BY <2>3, <2>4 DEF SecretsStayPrivate
<1> QED
  BY <1>1, <1>2, <1>3, PTL DEF Spec
=============================================================================
