----------------------- MODULE WindowsTerminationProofs -----------------------
(***************************************************************************)
(* terminateWindowsProcessTree leaves nothing behind unreported, for a     *)
(* tree of any size: what it could not verify is dying or unkillable       *)
(* (NothingSpared), and what it verified is gone (VerifiedMeansGone),      *)
(* although the tree forks and exits while it is listed.                   *)
(***************************************************************************)
EXTENDS WindowsTermination, TLAPS

\* What is captured has been seen: so a process forked later is not captured,
\* and cannot turn up among the survivors once they have been looked at.
SeenBefore ==
  /\ Root \in born
  /\ alive \subseteq born
  /\ listed \subseteq born
  /\ captured \subseteq born

\* A helper runs only during its own stage.
OneHelper ==
  /\ stage \in Stages
  /\ outcome \in [Helpers -> Outcomes]
  /\ \A h \in Helpers : outcome[h] = "running" => stage = h

Spared == stage = "threw" => captured \cap alive \subseteq killed \cup protected

IInv == SeenBefore /\ OneHelper /\ Spared

USE DEF Helpers, Settled, Stages, Outcomes

LEMMA InitIInv == Init => IInv
<1> SUFFICES ASSUME Init PROVE IInv
  OBVIOUS
<1>1. SeenBefore
  BY DEF Init, SeenBefore, Processes
<1>2. OneHelper
  BY DEF Init, OneHelper, FirstOutcomes
<1>3. Spared
  BY DEF Init, Spared
<1> QED BY <1>1, <1>2, <1>3 DEF IInv

\* Starting the next helper keeps the invariant once the current one is over.
LEMMA StartNextKeeps ==
  ASSUME IInv, NEW h \in Helpers, StartNext(h),
         \A g \in Helpers : outcome[g] # "running"
  PROVE  IInv'
<1>1. SeenBefore'
  BY DEF IInv, SeenBefore, StartNext, osVars, listVars
<1>2. OneHelper'
  BY DEF IInv, OneHelper, StartNext, FirstOutcomes
<1>3. Spared'
  BY DEF Spared, StartNext
<1> QED BY <1>1, <1>2, <1>3 DEF IInv

LEMMA NextIInv == IInv /\ [Next]_vars => IInv'
<1> SUFFICES ASSUME IInv, [Next]_vars PROVE IInv'
  OBVIOUS
<1> USE DEF IInv, osVars, listVars
<1>1. ASSUME NEW d \in Others, Fork(d) PROVE IInv'
  <2>1. SeenBefore'
    BY <1>1 DEF Fork, SeenBefore
  <2>2. OneHelper'
    BY <1>1 DEF Fork, OneHelper
  <2>3. Spared'
    BY <1>1 DEF Fork, Spared, SeenBefore
  <2> QED BY <2>1, <2>2, <2>3
<1>2. ASSUME NEW p \in Processes, Exit(p) PROVE IInv'
  BY <1>2 DEF Exit, SeenBefore, OneHelper, Spared
<1>3. CASE Expire
  BY <1>3 DEF Expire, SeenBefore, OneHelper, Spared
<1>4. ASSUME NEW p \in Processes, Query(p) PROVE IInv'
  <2>1. SeenBefore'
    BY <1>4 DEF Query, SeenBefore
  <2> QED BY <1>4, <2>1 DEF Query, OneHelper, Spared
<1>5. ASSUME NEW h \in Helpers, NEW p \in Processes, KillBy(h, p) PROVE IInv'
  BY <1>5 DEF KillBy, SeenBefore, OneHelper, Spared
<1>6. CASE SnapshotCompletes
  <2>1. SeenBefore' /\ Spared'
    BY <1>6 DEF SnapshotCompletes, Running, SeenBefore, Spared
  <2>2. OneHelper'
    BY <1>6 DEF SnapshotCompletes, OneHelper
  <2> QED BY <2>1, <2>2
<1>7. ASSUME NEW h \in Helpers, KillerCompletes(h) PROVE IInv'
  BY <1>7 DEF KillerCompletes, SeenBefore, OneHelper, Spared
<1>8. ASSUME NEW h \in Helpers, HelperTimesOut(h) PROVE IInv'
  BY <1>8 DEF HelperTimesOut, SeenBefore, OneHelper, Spared
<1>9. CASE SnapshotAwaited
  BY <1>9, StartNextKeeps DEF SnapshotAwaited, Running, OneHelper
<1>10. CASE TaskkillAwaited
  <2>1. \A g \in Helpers : outcome[g] # "running"
    BY <1>10 DEF TaskkillAwaited, Running, OneHelper
  <2>2. CASE StartNext("fallback")
    BY <2>1, <2>2, StartNextKeeps
  <2>3. CASE stage' = "returned" /\ UNCHANGED <<osVars, standing, expired, outcome, listVars, captured>>
    BY <2>1, <2>3 DEF SeenBefore, OneHelper, Spared
  <2> QED BY <1>10, <2>2, <2>3 DEF TaskkillAwaited
<1>11. CASE FallbackAwaited
  BY <1>11 DEF FallbackAwaited, Running, SeenBefore, OneHelper, Spared
<1>12. CASE WaitEnds
  BY <1>12 DEF WaitEnds, SeenBefore, OneHelper, Spared
<1>13. CASE UNCHANGED vars
  BY <1>13 DEF vars, SeenBefore, OneHelper, Spared
<1> QED
  BY <1>1, <1>2, <1>3, <1>4, <1>5, <1>6, <1>7, <1>8, <1>9, <1>10, <1>11, <1>12, <1>13
  DEF Next, Continue, Done

\* When termination is reported as unverified, whatever was captured and is
\* still there is dying or cannot be killed, and no helper is left running.
THEOREM NothingIsSpared == Spec => []NothingSpared
<1>1. IInv => NothingSpared
  BY DEF IInv, NothingSpared, OneHelper, Spared
<1> QED BY InitIInv, NextIInv, <1>1, PTL DEF Spec

-----------------------------------------------------------------------------
(* A success means that the tree is gone. *)

\* What is linked through members of S is in S, a child in S of what is linked
\* is linked, and so is Root.
LEMMA LinkedClosed ==
  ASSUME NEW S
  PROVE  Linked(S) \subseteq S /\ Closed(Linked(S), S)
  BY DEF Linked, Closed

\* What is linked through members of S is linked through such as are linked.
LEMMA LinkedIdempotent ==
  ASSUME NEW S
  PROVE  Linked(S) \subseteq Linked(Linked(S))
<1> DEFINE L == Linked(S)
<1>1. L \subseteq S /\ Closed(L, S)
  BY LinkedClosed
<1>2. ASSUME NEW T \in SUBSET L, Closed(T, L)
      PROVE  T \in SUBSET S /\ Closed(T, S)
  <2> HIDE DEF L
  <2> QED
    BY <1>1, <1>2 DEF Closed
<1>3. ASSUME NEW T \in SUBSET S, Closed(T, S)
      PROVE  L \subseteq T
  BY <1>3 DEF Linked
<1> HIDE DEF L
<1>4. L \subseteq Linked(L)
  BY <1>2, <1>3 DEF Linked
<1> QED
  BY <1>4 DEF L

\* Processes, once born, keep their names and parents; what stands was born.
BornInv ==
  /\ born \subseteq Processes
  /\ parent \in [Others -> Processes]
  /\ standing \subseteq born

\* While the tree is listed, what stands is alive and linked to Root by what
\* stands; and unless a query failed, its children that stand are listed for
\* every process that was queried.
ListingInv ==
  /\ stage = "snapshot" => standing \subseteq alive /\ standing \subseteq Linked(standing)
  /\ Running("snapshot") /\ ~degraded =>
       \A p \in standing \ {Root} :
         parent[p] \in ({Root} \cup listed) \ frontier => p \in listed

\* A listing that succeeded captured all that stands, and what stood is gone
\* when success is reported.
CapturedInv ==
  /\ outcome["snapshot"] = "ok" => standing \subseteq captured
  /\ stage = "returned" => standing \cap alive = {}

GoneInv == BornInv /\ ListingInv /\ CapturedInv

LEMMA InitGoneInv == Init => GoneInv
<1> SUFFICES ASSUME Init PROVE GoneInv
  OBVIOUS
<1>1. BornInv
  BY DEF Init, BornInv, Processes
<1>2. ListingInv
  BY DEF Init, ListingInv
<1>3. CapturedInv
  BY DEF Init, CapturedInv, FirstOutcomes
<1> QED BY <1>1, <1>2, <1>3 DEF GoneInv

\* A step of the termination that touches neither the processes nor the
\* listing, and goes on to `next` from a helper that is over.
LEMMA StageKeepsGone ==
  ASSUME GoneInv, UNCHANGED <<osVars, standing, listVars, captured>>,
         outcome'["snapshot"] = "ok" => outcome["snapshot"] = "ok",
         stage' = "snapshot" => stage = "snapshot" /\ (Running("snapshot")' => Running("snapshot")),
         stage' = "returned" => standing \cap alive = {}
  PROVE  GoneInv'
<1> USE DEF osVars, listVars
<1>1. BornInv'
  BY DEF GoneInv, BornInv
<1>2. Linked(standing)' = Linked(standing)
  BY DEF Linked, Closed
<1>3. ListingInv'
  BY <1>2 DEF GoneInv, ListingInv, Running
<1>4. CapturedInv'
  BY DEF GoneInv, CapturedInv
<1> QED BY <1>1, <1>3, <1>4 DEF GoneInv

\* A query reaches what stands below the process it asks about: it is alive.
LEMMA QueryKeepsListing ==
  ASSUME GoneInv, NEW p \in Processes, Query(p)
  PROVE  ListingInv'
<1> USE DEF osVars, listVars
<1>1. standing \subseteq alive /\ standing \subseteq Processes
  BY DEF GoneInv, ListingInv, BornInv, Query, Running
<1>2. UNCHANGED <<osVars, standing, stage, outcome>>
  BY DEF Query
<1>3. Linked(standing)' = Linked(standing)
  BY <1>2 DEF Linked, Closed
<1>4. ASSUME ~degraded', NEW q \in standing \ {Root},
             parent[q] \in ({Root} \cup listed') \ frontier'
      PROVE  q \in listed'
  <2> DEFINE children == {d \in alive \cap Others : parent[d] = p}
  <2>1. /\ frontier' = (frontier \ {p}) \cup children
        /\ listed' = listed \cup children
        /\ ~degraded
    BY <1>4 DEF Query
  <2>2. CASE parent[q] = p
    BY <1>1, <2>1, <2>2 DEF Processes
  <2>3. CASE parent[q] # p
    <3>1. parent[q] \in ({Root} \cup listed) \ frontier
      BY <1>4, <2>1, <2>3
    <3>2. Running("snapshot")
      BY DEF Query
    <3> QED
      BY <1>4, <2>1, <3>1, <3>2 DEF GoneInv, ListingInv
  <2> QED
    BY <2>2, <2>3
<1>5. standing' \subseteq alive' /\ standing' \subseteq Linked(standing)'
  BY <1>1, <1>2, <1>3 DEF GoneInv, ListingInv, Query, Running
<1> QED
  BY <1>2, <1>4, <1>5 DEF ListingInv

\* A listing that failed nowhere and is finished has all that stands.
LEMMA ListingIsComplete ==
  ASSUME GoneInv, Running("snapshot"), ~degraded, frontier = {}
  PROVE  standing \subseteq {Root} \cup listed
<1> DEFINE T == standing \cap ({Root} \cup listed)
<1>1. Closed(T, standing)
  BY DEF GoneInv, ListingInv, Closed
<1>2. T \in SUBSET standing
  OBVIOUS
<1>3. Linked(standing) \subseteq T
  BY <1>1, <1>2 DEF Linked
<1> QED
  BY <1>3 DEF GoneInv, ListingInv, Running

LEMMA NextGoneInv == IInv /\ GoneInv /\ [Next]_vars => GoneInv'
<1> SUFFICES ASSUME IInv, GoneInv, [Next]_vars PROVE GoneInv'
  OBVIOUS
<1> USE DEF osVars, listVars
<1>0. alive \subseteq born /\ outcome \in [Helpers -> Outcomes]
  BY DEF IInv, SeenBefore, OneHelper
<1>1. ASSUME NEW d \in Others, Fork(d) PROVE GoneInv'
  <2>1. /\ d \notin standing /\ standing' = standing
        /\ alive' = alive \cup {d} /\ d \notin born
        /\ \A q \in standing \ {Root} : parent'[q] = parent[q]
    BY <1>1 DEF Fork, GoneInv, BornInv, Processes
  <2>2. BornInv'
    BY <1>0, <1>1 DEF Fork, GoneInv, BornInv, Processes
  <2>3. Linked(standing)' = Linked(standing)
    <3>1. \A T \in SUBSET standing : Closed(T, standing)' <=> Closed(T, standing)
      BY <2>1 DEF Closed
    <3> QED
      BY <2>1, <3>1 DEF Linked
  <2>4. ListingInv'
    BY <1>1, <2>1, <2>3 DEF Fork, GoneInv, ListingInv, Running
  <2>5. CapturedInv'
    BY <1>1, <2>1 DEF Fork, GoneInv, CapturedInv
  <2> QED BY <2>2, <2>4, <2>5 DEF GoneInv
<1>2. ASSUME NEW p \in Processes, Exit(p) PROVE GoneInv'
  <2>1. /\ alive' = alive \ {p}
        /\ UNCHANGED <<born, parent, stage, outcome, listVars, captured>>
    BY <1>2 DEF Exit
  <2>2. CASE stage = "snapshot"
    <3>1. standing' = Linked(standing \ {p})
      BY <1>2, <2>2 DEF Exit
    <3>2. standing' \subseteq standing \ {p}
      BY <3>1, LinkedClosed
    <3>3. Linked(standing)' = Linked(Linked(standing \ {p}))
      BY <2>1, <3>1 DEF Linked, Closed
    <3>4. standing' \subseteq Linked(standing)'
      BY <3>1, <3>3, LinkedIdempotent
    <3>5. ListingInv'
      BY <2>1, <2>2, <3>2, <3>4 DEF GoneInv, ListingInv, Running
    <3> QED
      BY <2>1, <2>2, <3>2, <3>5 DEF GoneInv, BornInv, CapturedInv
  <2>3. CASE stage # "snapshot"
    <3>1. standing' = standing
      BY <1>2, <2>3 DEF Exit
    <3> QED
      BY <2>1, <2>3, <3>1 DEF GoneInv, BornInv, ListingInv, CapturedInv, Running
  <2> QED BY <2>2, <2>3
<1>3. CASE Expire
  BY <1>3, StageKeepsGone DEF Expire, Running, GoneInv, CapturedInv
<1>4. ASSUME NEW p \in Processes, Query(p) PROVE GoneInv'
  <2>1. BornInv' /\ CapturedInv'
    BY <1>4 DEF Query, GoneInv, BornInv, CapturedInv
  <2> QED BY <1>4, <2>1, QueryKeepsListing DEF GoneInv
<1>5. ASSUME NEW h \in Helpers, NEW p \in Processes, KillBy(h, p) PROVE GoneInv'
  <2>1. UNCHANGED <<alive, born, parent, standing, stage, outcome, listVars, captured>>
    BY <1>5 DEF KillBy
  <2>2. Linked(standing)' = Linked(standing)
    BY <2>1 DEF Linked, Closed
  <2> QED
    BY <2>1, <2>2 DEF GoneInv, BornInv, ListingInv, CapturedInv, Running
<1>6. CASE SnapshotCompletes
  <2>1. PICK o \in {"ok", "failed"}, pids \in {listed, {}} :
          /\ o = "ok" => frontier = {} /\ ~degraded /\ pids = listed
          /\ outcome' = [outcome EXCEPT !["snapshot"] = o]
          /\ captured' = {Root} \cup pids
    BY <1>6 DEF SnapshotCompletes
  <2>2. Running("snapshot") /\ UNCHANGED <<osVars, standing, stage, listVars>>
    BY <1>6 DEF SnapshotCompletes
  <2>3. outcome'["snapshot"] = o
    BY <1>0, <2>1
  <2>4. CapturedInv'
    BY <2>1, <2>2, <2>3, ListingIsComplete DEF CapturedInv, Running
  <2>5. Linked(standing)' = Linked(standing)
    BY <2>2 DEF Linked, Closed
  <2>6. ListingInv'
    BY <2>2, <2>3, <2>5 DEF GoneInv, ListingInv, Running
  <2> QED
    BY <2>2, <2>4, <2>6 DEF GoneInv, BornInv
<1>7. ASSUME NEW h \in Helpers, KillerCompletes(h) PROVE GoneInv'
  <2>1. outcome'["snapshot"] = outcome["snapshot"]
    BY <1>0, <1>7 DEF KillerCompletes
  <2> QED
    BY <1>7, <2>1, StageKeepsGone DEF KillerCompletes, Running, GoneInv, CapturedInv
<1>8. ASSUME NEW h \in Helpers, HelperTimesOut(h) PROVE GoneInv'
  <2>1. outcome'["snapshot"] \in {outcome["snapshot"], "timedOut"}
    BY <1>0, <1>8 DEF HelperTimesOut
  <2> QED
    BY <1>8, <2>1, StageKeepsGone DEF HelperTimesOut, Running, GoneInv, CapturedInv
<1>9. ASSUME NEW h \in Helpers \ {"snapshot"}, StartNext(h) PROVE GoneInv'
  <2>1. outcome'["snapshot"] = outcome["snapshot"] /\ stage' = h
    BY <1>0, <1>9 DEF StartNext, FirstOutcomes
  <2> QED
    BY <1>9, <2>1, StageKeepsGone DEF StartNext
<1>10. CASE SnapshotAwaited
  BY <1>9, <1>10 DEF SnapshotAwaited
<1>11. CASE TaskkillAwaited
  <2>1. CASE Verified
    <3>1. standing \cap alive = {}
      BY <2>1 DEF Verified, GoneInv, CapturedInv
    <3> QED
      BY <1>11, <2>1, <3>1, StageKeepsGone DEF TaskkillAwaited
  <2>2. CASE ~Verified
    BY <1>9, <1>11, <2>2 DEF TaskkillAwaited
  <2> QED BY <2>1, <2>2
<1>12. CASE FallbackAwaited
  BY <1>12, StageKeepsGone DEF FallbackAwaited
<1>13. CASE WaitEnds
  <2>1. /\ UNCHANGED <<alive, born, parent, standing, outcome, listVars, captured>>
        /\ stage' = "threw"
    BY <1>13 DEF WaitEnds
  <2> QED
    BY <2>1 DEF GoneInv, BornInv, ListingInv, CapturedInv, Running
<1>14. CASE UNCHANGED vars
  BY <1>14, StageKeepsGone DEF vars, Running, GoneInv, CapturedInv
<1> QED
  BY <1>1, <1>2, <1>3, <1>4, <1>5, <1>6, <1>7, <1>8, <1>10, <1>11, <1>12, <1>13, <1>14
  DEF Next, Continue, Done

\* Success is reported only when nothing is left of what was linked to the
\* child all the while its tree was listed (survivingWindowsPids after a
\* listing without failures).
THEOREM VerifiedIsGone == Spec => []VerifiedMeansGone
<1>1. GoneInv => VerifiedMeansGone
  BY DEF GoneInv, CapturedInv, VerifiedMeansGone
<1> QED BY InitIInv, NextIInv, InitGoneInv, NextGoneInv, <1>1, PTL DEF Spec
=============================================================================
