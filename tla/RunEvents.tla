----------------------------- MODULE RunEvents -----------------------------
(***************************************************************************)
(* RunEventEmitter (core/events.ts): the per-run numbering of lifecycle    *)
(* and adapter events.  An emitter is a record of the fields of the class  *)
(* plus `delivered`, the events onEvent has been called with.  Emitting    *)
(* may throw, because the event's timestamp comes from the caller's clock  *)
(* and the snapshot is validated; `ok` says whether it did not.            *)
(* A throwing onEvent callback is swallowed (it is logged once) and leaves *)
(* no trace in the emitter, so it is not represented.                      *)
(***************************************************************************)
EXTENDS Naturals, Sequences

TerminalStatuses == {"completed", "failed", "blocked", "cancelled"}
LifecyclePhases == TerminalStatuses \cup {"started"}
Phases == LifecyclePhases \cup {"adapter"}
Events == [phase : Phases, sequence : Nat \ {0}]
Emitters == [sequence : Nat, terminalEmitted : BOOLEAN, delivered : Seq(Events)]

NewEmitter == [sequence |-> 0, terminalEmitted |-> FALSE, delivered |-> <<>>]

\* Mutant (StreamOrdered): the incremented number is not stored.
EmitForgetful(emitter, phase, ok) ==
  [emitter EXCEPT
     !.delivered = IF ok THEN Append(@, [phase |-> phase, sequence |-> emitter.sequence + 1])
                   ELSE @]

\* The number is taken before the timestamp and the validation that may throw,
\* so a failed emission leaves a gap.
Emit(emitter, phase, ok) ==
  LET next == emitter.sequence + 1
      event == [phase |-> phase, sequence |-> next]
  IN  [sequence |-> next,
       terminalEmitted |-> emitter.terminalEmitted,
       delivered |-> IF ok THEN Append(emitter.delivered, event) ELSE emitter.delivered]

EmitStarted(emitter, ok) == Emit(emitter, "started", ok)

EmitAdapter(emitter, ok) == Emit(emitter, "adapter", ok)

\* The flag is set after the emission, and only if that did not throw.
EmitTerminal(emitter, status, ok) ==
  IF emitter.terminalEmitted
  THEN emitter
  ELSE [Emit(emitter, status, ok) EXCEPT !.terminalEmitted = ok]

\* The indices of the terminal lifecycle events an observer has received.
TerminalIndices(emitter) ==
  {i \in DOMAIN emitter.delivered : emitter.delivered[i].phase \in TerminalStatuses}
=============================================================================
