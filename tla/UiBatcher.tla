----------------------------- MODULE UiBatcher -----------------------------
(***************************************************************************)
(* The batcher between the event bus and the React UI                      *)
(* (src/event-bus/event-batcher.ts).  Events wait in one open batch, which *)
(* is emitted when its timer fires, when it is full, when an event that    *)
(* may not wait arrives, or at shutdown.  Events with the same coalescing  *)
(* key share one entry of the batch, found through an index kept beside    *)
(* it.                                                                     *)
(*                                                                         *)
(* The operators below change the batcher's variables only: EventBus uses  *)
(* them inside its own actions, as push() and shutdown() are synchronous.  *)
(***************************************************************************)
EXTENDS Naturals, Sequences, SequencesExt

CONSTANTS
  Events,      \* the events of one session
  Immediate,   \* events of the types shouldFlushImmediately names
  Keys,        \* coalescing keys: one per output stream and per execution
  NoKey,       \* for an event that is not coalesced
  KeyOf,       \* Events -> Keys \cup {NoKey}
  Progress,    \* progress events: the newest replaces the one before
  MaxBatch     \* config.uiBatchMaxSize

ASSUME BatcherAssumption ==
  /\ NoKey \notin Keys
  /\ KeyOf \in [Events -> Keys \cup {NoKey}]
  /\ Immediate \subseteq {e \in Events : KeyOf[e] = NoKey}
  /\ Progress \subseteq Events
  /\ MaxBatch \in Nat \ {0}

VARIABLES
  openBatch,   \* the entries of the open batch; an entry is the events in it
  slotOf,      \* the coalesce maps: Keys -> position in openBatch, 0 for none
  timerSet,    \* flushTimer is not null
  shown        \* history: the entries emitted so far, in order

batcherVars == <<openBatch, slotOf, timerSet, shown>>

Entries == Seq(Events)

BatcherInit ==
  /\ openBatch = <<>>
  /\ slotOf = [k \in Keys |-> 0]
  /\ timerSet = FALSE
  /\ shown = <<>>

-----------------------------------------------------------------------------

EmitKeepingIndex(entries) ==   \* mutant: the coalesce maps are not cleared
  /\ shown' = shown \o entries
  /\ openBatch' = <<>>
  /\ timerSet' = FALSE
  /\ UNCHANGED slotOf
\* flush() of a batch that holds these entries.
Emit(entries) ==
  /\ shown' = shown \o entries
  /\ openBatch' = <<>>
  /\ slotOf' = [k \in Keys |-> 0]
  /\ timerSet' = FALSE

\* flush() and shutdown(): an empty batch is not emitted.
Flush ==
  IF openBatch = <<>> THEN timerSet' = FALSE /\ UNCHANGED <<openBatch, slotOf, shown>>
                      ELSE Emit(openBatch)

PushPastBatch(e) ==            \* mutant: the open batch is not flushed first
  /\ shown' = Append(shown, <<e>>)
  /\ UNCHANGED <<openBatch, slotOf, timerSet>>
\* The open batch goes first, then the event in a batch of its own.
PushImmediate(e) ==
  IF openBatch = <<>>
    THEN shown' = Append(shown, <<e>>) /\ UNCHANGED <<openBatch, slotOf, timerSet>>
    ELSE Emit(Append(openBatch, <<e>>))

\* The entry the index names for e's key.
Coalesces(e) == KeyOf[e] # NoKey /\ slotOf[KeyOf[e]] \in DOMAIN openBatch

\* Progress replaces the entry; an output chunk is appended to it.
Coalesce(e) ==
  /\ openBatch' = [openBatch EXCEPT ![slotOf[KeyOf[e]]] =
                     IF e \in Progress THEN <<e>> ELSE Append(@, e)]
  /\ UNCHANGED <<slotOf, timerSet, shown>>

AddWithoutTimer(e) ==          \* mutant: only a full batch is ever emitted
  LET batch == Append(openBatch, <<e>>) IN
  IF Len(batch) >= MaxBatch
    THEN Emit(batch)
    ELSE /\ openBatch' = batch
         /\ slotOf' = [k \in Keys |-> IF k = KeyOf[e] THEN Len(batch) ELSE slotOf[k]]
         /\ UNCHANGED <<shown, timerSet>>
AddEntry(e) ==
  LET batch == Append(openBatch, <<e>>) IN
  IF Len(batch) >= MaxBatch
    THEN Emit(batch)
    ELSE /\ openBatch' = batch
         /\ slotOf' = [k \in Keys |-> IF k = KeyOf[e] THEN Len(batch) ELSE slotOf[k]]
         /\ timerSet' = TRUE
         /\ UNCHANGED shown

Push(e) ==
  IF e \in Immediate     THEN PushImmediate(e)
  ELSE IF Coalesces(e)   THEN Coalesce(e)
  ELSE AddEntry(e)

\* The consumer throws on a batch it is given: flush() has done its work by then,
\* but an immediate event behind an open batch is not emitted any more.
PushThrows(e) ==
  \/ e \in Immediate /\ PushImmediate(e)
  \/ e \in Immediate /\ openBatch # <<>> /\ Emit(openBatch)
  \/ /\ e \notin Immediate /\ ~Coalesces(e)
     /\ Len(openBatch) + 1 >= MaxBatch
     /\ AddEntry(e)

-----------------------------------------------------------------------------

\* The values the batcher's variables range over.
BatcherTypeOK ==
  /\ openBatch \in Seq(Entries)
  /\ slotOf \in [Keys -> Nat]
  /\ timerSet \in BOOLEAN
  /\ shown \in Seq(Entries)

\* The entries of the UI's stream, emitted and waiting.
UiStream == shown \o openBatch

EventsIn(entries) == {e \in Events : \E i \in DOMAIN entries : e \in Range(entries[i])}

Waiting(e) == e \in EventsIn(openBatch)

\* Progress takes the place of what waits under its key.
TakesPlaceOf(e) ==
  {f \in Events : e \in Progress /\ KeyOf[e] # NoKey /\ KeyOf[f] = KeyOf[e]}

\* The index names the entry of its own key, and only the open batch has such
\* entries: after a flush an old position would name somebody else's entry, and
\* the next event of the key would be written over it.
CoalesceIndexSound ==
  \A k \in Keys :
    IF slotOf[k] = 0
      THEN \A i \in DOMAIN openBatch : \A e \in Range(openBatch[i]) : KeyOf[e] # k
      ELSE /\ slotOf[k] \in DOMAIN openBatch
           /\ \A i \in DOMAIN openBatch : \A e \in Range(openBatch[i]) :
                KeyOf[e] = k <=> i = slotOf[k]

=============================================================================
